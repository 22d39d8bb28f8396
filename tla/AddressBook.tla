---------------------------- MODULE AddressBook ----------------------------
(***************************************************************************)
(* What a chat program promises of its private messages: while it is on it *)
(* keeps one address of every name it has noted, that of a machine on      *)
(* which somebody has run who goes by the name, and a private message goes *)
(* there, to the same one each time; without a network to rely on, it may  *)
(* be lost.  A machine has one program on at a time, and one that has gone *)
(* does not come back.  MulticastChat implements it.                       *)
(***************************************************************************)
CONSTANTS Runs, Names, Hosts, HostOf,
          NamesOf,         \* run -> the names it goes by
          Nothing          \* no address

VARIABLES life,            \* run -> "new", "on" or "gone"
          book,            \* run -> name -> its address
          mail             \* private messages on their way

bookVars == <<life, book, mail>>

Blank == [n \in Names |-> Nothing]

Init == /\ life = [r \in Runs |-> "new"]
        /\ book = [r \in Runs |-> Blank]
        /\ mail = {}

Taken(host) == \E q \in Runs : life[q] = "on" /\ HostOf[q] = host

Begin(r) == /\ life[r] = "new"
            /\ life' = [life EXCEPT ![r] = IF Taken(HostOf[r]) THEN "gone" ELSE "on"]
            /\ UNCHANGED <<book, mail>>

(* It ends, or dies, with its book, and what waits for it may be lost.     *)
Leave(r) == /\ life[r] = "on"
            /\ life' = [life EXCEPT ![r] = "gone"]
            /\ book' = [book EXCEPT ![r] = Blank]
            /\ mail' \subseteq mail

Note(r, n) == /\ life[r] = "on" /\ book[r][n] = Nothing
              /\ \E q \in Runs : /\ life[q] # "new" /\ n \in NamesOf[q]
                                 /\ book' = [book EXCEPT ![r][n] = HostOf[q]]
              /\ UNCHANGED <<life, mail>>

Send(r, n) == /\ life[r] = "on" /\ book[r][n] # Nothing
              /\ mail' = mail \cup {[to |-> book[r][n], name |-> n]}
              /\ UNCHANGED <<life, book>>

Lose == mail' \subseteq mail /\ UNCHANGED <<life, book>>

Next == \/ \E r \in Runs : Begin(r) \/ Leave(r)
        \/ \E r \in Runs, n \in Names : Note(r, n) \/ Send(r, n)
        \/ Lose

Spec == Init /\ [][Next]_bookVars
=============================================================================
