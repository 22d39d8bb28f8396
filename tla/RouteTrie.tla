------------------------------ MODULE RouteTrie ------------------------------
(***************************************************************************)
(* The routing table of the simulated router: RoutesAnalyser and           *)
(* BinaryTrie (Project1/RoutesAnalyser.h, .cpp).  The table is read once,  *)
(* every network in it is put into a binary trie, and find() walks the     *)
(* trie along the bits of an address, keeping the last useful node it saw. *)
(*                                                                         *)
(* A network is its bits and its size; the text it is written as, which    *)
(* is what find() returns, is identified with it.  The networks go in in   *)
(* the order of those texts; here the order is any.                        *)
(***************************************************************************)
EXTENDS Naturals

CONSTANTS Width,         \* bits of an address: 32
          Tables,        \* the tables the file argv[1] may hold
          NoRoute,       \* the empty string: ip_str of a node never given one
          NoFind         \* no call of find()

Address == [1 .. Width -> {0, 1}]
Zero == [j \in 1 .. Width |-> 0]
Route == [address : Address, size : 0 .. Width]

(* The way from the head to a node: the bits taken, 1 to the right.        *)
Prefix(address, n) == [j \in 1 .. n |-> address[j]]
Path(r) == Prefix(r.address, r.size)

(* No table names a network twice, as 10.3.0.0/16 and as 10.3.0.1/16.      *)
ASSUME TableAssumption ==
    /\ Width \in Nat
    /\ NoRoute \notin Route
    /\ NoFind \notin Address
    /\ \A table \in Tables :
          /\ table \subseteq Route
          /\ \A r, s \in table : Path(r) = Path(s) => r = s

VARIABLES table,         \* the keys of RoutesAnalyser::table
          inserted,      \* those createBinaryTrie has inserted
          trie,          \* path -> the node there
          ip,            \* new_ip of the call of find() under way
          i,             \* how many of its bits have been tested
          result,        \* length of the path of find's result
          answer         \* what the last find() returned, and for which address

vars == <<table, inserted, trie, ip, i, result, answer>>

Node == [network_prefix : Address, ip_str : Route \cup {NoRoute}]
NewNode == [network_prefix |-> Zero, ip_str |-> NoRoute]

TypeOK == /\ table \subseteq Route
          /\ inserted \subseteq table
          /\ \A p \in DOMAIN trie : trie[p] \in Node
          /\ ip \in Address \cup {NoFind}
          /\ i \in 0 .. Width
          /\ result \in 0 .. i
          /\ answer \in [ip : Address, ip_str : Route \cup {NoRoute}] \cup {NoFind}

Init == /\ table \in Tables
        /\ inserted = {}
        /\ trie = [p \in {} |-> NewNode]
        /\ ip = NoFind
        /\ i = 0
        /\ result = 0
        /\ answer = NoFind

-----------------------------------------------------------------------------
(* BinaryTrie::insert: the nodes on the way are made where they are        *)
(* missing, the last one gets the network.                                 *)
OnTheWay(r) == {Prefix(r.address, n) : n \in 0 .. r.size}

(* Mutant of Insert: the branch made anew at each insertion.               *)
InsertAnew(r) ==
    trie' = [p \in DOMAIN trie \cup OnTheWay(r) |->
                CASE p = Path(r) -> [network_prefix |-> r.address, ip_str |-> r]
                  [] p # Path(r) /\ p \in OnTheWay(r) -> NewNode
                  [] OTHER -> trie[p]]

Insert(r) ==
    trie' = [p \in DOMAIN trie \cup OnTheWay(r) |->
                CASE p = Path(r) -> [network_prefix |-> r.address, ip_str |-> r]
                  [] p # Path(r) /\ p \in DOMAIN trie -> trie[p]
                  [] OTHER -> NewNode]

CreateBinaryTrie ==
    /\ \E r \in table \ inserted :
          /\ inserted' = inserted \cup {r}
          /\ Insert(r)
    /\ UNCHANGED <<table, ip, i, result, answer>>

-----------------------------------------------------------------------------
(* BinaryTrie::find.  Without a head, as an empty table leaves it, find()  *)
(* dereferences a null pointer: no step.                                   *)
AtHead == Prefix(Zero, 0)

Search(new_ip) ==
    /\ inserted = table
    /\ AtHead \in DOMAIN trie
    /\ ip = NoFind
    /\ ip' = new_ip
    /\ answer' = NoFind
    /\ UNCHANGED <<table, inserted, trie, i, result>>

(* Where ptr goes next, left or right by bit i + 1 of the address, if      *)
(* there is a node.                                                        *)
Child == Prefix(ip, i + 1)
HasChild == i < Width /\ Child \in DOMAIN trie

Useful(p) == trie[p].network_prefix # Zero

Descend ==
    /\ ip # NoFind
    /\ HasChild
    /\ i' = i + 1
    /\ result' = IF Useful(Child) THEN i + 1 ELSE result
    /\ UNCHANGED <<table, inserted, trie, ip, answer>>

Found ==
    /\ ip # NoFind
    /\ ~HasChild
    /\ answer' = [ip |-> ip, ip_str |-> trie[Prefix(ip, result)].ip_str]
    /\ ip' = NoFind
    /\ i' = 0
    /\ result' = 0
    /\ UNCHANGED <<table, inserted, trie>>

Next == \/ CreateBinaryTrie
        \/ \E new_ip \in Address : Search(new_ip)
        \/ Descend
        \/ Found

Spec == Init /\ [][Next]_vars

-----------------------------------------------------------------------------
Matches(r, new_ip) == \A j \in 1 .. r.size : r.address[j] = new_ip[j]

(* The networks find() can return.  The bits of a node without a network   *)
(* are all zero, so 0.0.0.0/8 is taken for one; 0.0.0.0/0 is at the head   *)
(* and found all the same.                                                 *)
Reachable(r) == r.address # Zero \/ r.size = 0

(* Longest prefix match: the answer is a network of the table the address  *)
(* is in, and no longer one in the table holds the address; there is no    *)
(* answer only if there is no such network (main.cpp then reads the first  *)
(* element of an empty vector).                                            *)
LongestMatch ==
    answer # NoFind =>
        LET matching == {r \in table : Reachable(r) /\ Matches(r, answer.ip)} IN
          /\ answer.ip_str = NoRoute <=> matching = {}
          /\ answer.ip_str # NoRoute =>
                /\ answer.ip_str \in matching
                /\ \A r \in matching : r.size <= answer.ip_str.size

-----------------------------------------------------------------------------
(* What makes LongestMatch inductive: the trie holds the inserted networks *)
(* and the ways to them and nothing else, and find() has not missed one on *)
(* its way so far.                                                         *)
TrieHoldsNetworks ==
    /\ DOMAIN trie = UNION {OnTheWay(r) : r \in inserted}
    /\ \A r \in inserted : trie[Path(r)] = [network_prefix |-> r.address, ip_str |-> r]
    /\ \A p \in DOMAIN trie : (\A r \in inserted : p # Path(r)) => trie[p] = NewNode

OnItsWay ==
    /\ ip = NoFind => i = 0 /\ result = 0
    /\ ip # NoFind =>
          /\ inserted = table
          /\ \A n \in 0 .. i : Prefix(ip, n) \in DOMAIN trie
          /\ result # 0 => Useful(Prefix(ip, result))
          /\ \A n \in result + 1 .. i : ~Useful(Prefix(ip, n))

IInv == TypeOK /\ TrieHoldsNetworks /\ OnItsWay /\ LongestMatch
=============================================================================
