--------------------------- MODULE RouteTrie_proofs ---------------------------
(***************************************************************************)
(* Proofs about RouteTrie, for addresses of any width and any tables that  *)
(* name no network twice.                                                  *)
(***************************************************************************)
EXTENDS RouteTrie, TLAPS

USE DEF vars

(* Two paths are the same when they are as long and their bits agree.      *)
LEMMA SamePath ==
    ASSUME NEW a, NEW b, NEW n \in Nat, NEW m \in Nat
    PROVE  Prefix(a, n) = Prefix(b, m) <=> n = m /\ \A j \in 1 .. n : a[j] = b[j]
<1>1. ASSUME Prefix(a, n) = Prefix(b, m) PROVE n = m /\ \A j \in 1 .. n : a[j] = b[j]
  <2>1. 1 .. n = 1 .. m
    <3>1. DOMAIN Prefix(a, n) = 1 .. n /\ DOMAIN Prefix(b, m) = 1 .. m
      BY DEF Prefix
    <3> QED BY <1>1, <3>1
  <2>2. n = m
    BY <2>1
  <2>3. \A j \in 1 .. n : Prefix(a, n)[j] = a[j] /\ Prefix(b, n)[j] = b[j]
    BY DEF Prefix
  <2> QED BY <1>1, <2>2, <2>3
<1>2. ASSUME n = m, \A j \in 1 .. n : a[j] = b[j] PROVE Prefix(a, n) = Prefix(b, m)
  BY <1>2 DEF Prefix
<1> QED BY <1>1, <1>2

(* A network matches an address when its path is on the address's way.     *)
LEMMA MatchingPath ==
    ASSUME NEW r \in Route, NEW new_ip \in Address, Width \in Nat
    PROVE  /\ r.size \in 0 .. Width /\ r.size \in Nat /\ r.address \in Address
           /\ Matches(r, new_ip) <=> Path(r) = Prefix(new_ip, r.size)
           /\ Path(r) \in OnTheWay(r)
           /\ \A n \in 0 .. r.size : Prefix(r.address, n) \in OnTheWay(r)
           /\ Matches(r, new_ip) =>
                 \A n \in 0 .. r.size : Prefix(r.address, n) = Prefix(new_ip, n)
<1>1. r.size \in 0 .. Width /\ r.size \in Nat /\ r.address \in Address
  BY DEF Route
<1>2. Matches(r, new_ip) <=> Path(r) = Prefix(new_ip, r.size)
  BY <1>1, SamePath DEF Matches, Path
<1>3. \A n \in 0 .. r.size : Prefix(r.address, n) \in OnTheWay(r)
  BY DEF OnTheWay
<1>4. Path(r) \in OnTheWay(r)
  BY <1>1, <1>3 DEF Path
<1>5. ASSUME Matches(r, new_ip), NEW n \in 0 .. r.size
      PROVE Prefix(r.address, n) = Prefix(new_ip, n)
  <2>1. n \in Nat /\ \A j \in 1 .. n : j \in 1 .. r.size
    BY <1>1
  <2>2. \A j \in 1 .. n : r.address[j] = new_ip[j]
    BY <1>5, <2>1 DEF Matches
  <2> QED BY <2>1, <2>2, SamePath
<1> QED BY <1>1, <1>2, <1>3, <1>4, <1>5

-----------------------------------------------------------------------------
(* insert() puts one network in and disturbs no other.                     *)
LEMMA InsertKeeps ==
    ASSUME TypeOK, TrieHoldsNetworks, TableAssumption, table \in Tables,
           NEW r \in table \ inserted, inserted' = inserted \cup {r}, Insert(r)
    PROVE  TrieHoldsNetworks' /\ (\A p \in DOMAIN trie' : trie'[p] \in Node)
<1>1. r \in Route /\ inserted \subseteq Route /\ Width \in Nat
  BY DEF TypeOK, TableAssumption
<1>2. \A s \in inserted : Path(s) # Path(r)
  BY DEF TypeOK, TableAssumption
<1>3. DOMAIN trie' = DOMAIN trie \cup OnTheWay(r)
  BY DEF Insert
<1>4. DOMAIN trie' = UNION {OnTheWay(s) : s \in inserted'}
  BY <1>3 DEF TrieHoldsNetworks
<1>5. \A s \in Route : Path(s) \in OnTheWay(s)
  BY <1>1 DEF OnTheWay, Path, Route
<1>6. trie'[Path(r)] = [network_prefix |-> r.address, ip_str |-> r]
  BY <1>1, <1>3, <1>5 DEF Insert
<1>7. \A s \in inserted : trie'[Path(s)] = [network_prefix |-> s.address, ip_str |-> s]
  <2> TAKE s \in inserted
  <2>1. Path(s) \in DOMAIN trie
    BY <1>1, <1>5 DEF TrieHoldsNetworks
  <2> QED BY <1>2, <2>1 DEF Insert, TrieHoldsNetworks
<1>8. \A p \in DOMAIN trie' : (\A s \in inserted' : p # Path(s)) => trie'[p] = NewNode
  <2> SUFFICES ASSUME NEW p \in DOMAIN trie', \A s \in inserted' : p # Path(s)
               PROVE trie'[p] = NewNode
    OBVIOUS
  <2>1. p # Path(r) /\ p \in DOMAIN trie \cup OnTheWay(r)
    BY <1>3
  <2>2. CASE p \in DOMAIN trie
    BY <2>1, <2>2 DEF Insert, TrieHoldsNetworks
  <2>3. CASE p \notin DOMAIN trie
    BY <2>1, <2>3 DEF Insert
  <2> QED BY <2>2, <2>3
<1>9. \A p \in DOMAIN trie' : trie'[p] \in Node
  <2>1. NewNode \in Node
    BY DEF NewNode, Node, Zero, Address
  <2>2. \A s \in Route : [network_prefix |-> s.address, ip_str |-> s] \in Node
    BY DEF Node, Route
  <2> TAKE p \in DOMAIN trie'
  <2>3. CASE p = Path(r)
    BY <1>1, <1>6, <2>2, <2>3
  <2>4. CASE p # Path(r) /\ p \in DOMAIN trie
    BY <2>4 DEF Insert, TypeOK
  <2>5. CASE p # Path(r) /\ p \notin DOMAIN trie
    BY <1>3, <2>1, <2>5 DEF Insert
  <2> QED BY <2>3, <2>4, <2>5
<1> QED BY <1>4, <1>6, <1>7, <1>8, <1>9 DEF TrieHoldsNetworks

(* What find() returns when it can go no further.                          *)
LEMMA FoundIsLongest ==
    ASSUME IInv, TableAssumption, table \in Tables, Found
    PROVE  LongestMatch'
<1> DEFINE new == answer'.ip
           node == trie[Prefix(ip, result)]
           matching == {r \in table : Reachable(r) /\ Matches(r, ip)}
<1>1. /\ answer' = [ip |-> ip, ip_str |-> node.ip_str] /\ table' = table
      /\ ip # NoFind /\ ip \in Address /\ inserted = table /\ Width \in Nat
      /\ i \in 0 .. Width /\ result \in 0 .. i /\ table \subseteq Route
  BY DEF Found, IInv, TypeOK, OnItsWay, TableAssumption
<1>2. Prefix(ip, result) \in DOMAIN trie
  BY <1>1 DEF IInv, OnItsWay
<1>3. \A r \in matching : r.size <= i
  <2> SUFFICES ASSUME NEW r \in matching, r.size > i PROVE FALSE
    BY <1>1, MatchingPath
  <2>1. r \in Route /\ r.size \in 0 .. Width
    BY <1>1, MatchingPath
  <2>2. i < Width /\ i + 1 \in 0 .. r.size
    BY <1>1, <2>1
  <2>3. Prefix(ip, i + 1) = Prefix(r.address, i + 1)
    BY <1>1, <2>1, <2>2, MatchingPath
  <2>4. Prefix(r.address, i + 1) \in OnTheWay(r)
    BY <1>1, <2>1, <2>2, MatchingPath
  <2>5. Prefix(ip, i + 1) \in DOMAIN trie
    BY <1>1, <2>3, <2>4 DEF IInv, TrieHoldsNetworks
  <2> QED BY <2>2, <2>5 DEF Found, HasChild, Child
<1>4. \A r \in matching : r.size <= result
  <2> SUFFICES ASSUME NEW r \in matching, r.size > result PROVE FALSE
    BY <1>1, MatchingPath
  <2>1. r \in Route /\ r.size \in 0 .. Width /\ r.size <= i
    BY <1>1, <1>3, MatchingPath
  <2>2. ~Useful(Prefix(ip, r.size))
    BY <1>1, <2>1 DEF IInv, OnItsWay
  <2>3. Path(r) = Prefix(ip, r.size)
    BY <1>1, <2>1, MatchingPath
  <2>4. trie[Path(r)].network_prefix = r.address
    <3>1. r \in inserted
      BY <1>1
    <3>2. trie[Path(r)] = [network_prefix |-> r.address, ip_str |-> r]
      BY <3>1 DEF IInv, TrieHoldsNetworks
    <3> QED BY <3>2
  <2>5. r.address # Zero
    BY <1>1, <2>1 DEF Reachable
  <2> QED BY <2>2, <2>3, <2>4, <2>5 DEF Useful
<1>5. CASE \E r \in inserted : Path(r) = Prefix(ip, result)
  <2> PICK r \in inserted : Path(r) = Prefix(ip, result)
    BY <1>5
  <2>1. r \in table /\ r \in Route /\ node = [network_prefix |-> r.address, ip_str |-> r]
    BY <1>1 DEF IInv, TrieHoldsNetworks
  <2>2. r.size = result /\ Matches(r, ip)
    <3>1. r.size \in Nat /\ result \in Nat
      BY <1>1, <2>1, MatchingPath
    <3>2. r.size = result
      BY <3>1, SamePath DEF Path
    <3> QED BY <1>1, <2>1, <3>2, MatchingPath
  <2>3. Reachable(r)
    BY <1>1, <2>1, <2>2 DEF Reachable, IInv, OnItsWay, Useful
  <2>4. r \in matching /\ answer'.ip_str = r /\ answer'.ip = ip
    BY <1>1, <2>1, <2>2, <2>3
  <2>5. r # NoRoute
    BY <2>1 DEF TableAssumption
  <2> QED BY <1>1, <1>4, <2>2, <2>4, <2>5 DEF LongestMatch
<1>6. CASE \A r \in inserted : Path(r) # Prefix(ip, result)
  <2>1. node = NewNode
    BY <1>2, <1>6 DEF IInv, TrieHoldsNetworks
  <2>2. result = 0
    BY <1>1, <2>1 DEF IInv, OnItsWay, Useful, NewNode
  <2>3. matching = {}
    <3> SUFFICES ASSUME NEW r \in matching PROVE FALSE
      OBVIOUS
    <3>1. r \in Route /\ r.size \in Nat /\ r.size <= 0
      BY <1>1, <1>4, <2>2, MatchingPath
    <3>2. Path(r) = Prefix(ip, result)
      BY <1>1, <2>2, <3>1, MatchingPath
    <3> QED BY <1>1, <1>6, <3>2
  <2>4. answer'.ip_str = NoRoute /\ answer'.ip = ip
    BY <1>1, <2>1 DEF NewNode
  <2> QED BY <1>1, <2>3, <2>4 DEF LongestMatch
<1> QED BY <1>5, <1>6

-----------------------------------------------------------------------------
Inv == table \in Tables /\ IInv

LEMMA Inductive == ASSUME TableAssumption, Inv, [Next]_vars PROVE Inv'
<1> USE DEF Inv
<1>1. CASE UNCHANGED vars
  BY <1>1 DEF IInv, TypeOK, TrieHoldsNetworks, OnItsWay, LongestMatch, Useful, OnTheWay
<1>2. CASE CreateBinaryTrie
  <2> PICK r \in table \ inserted : inserted' = inserted \cup {r} /\ Insert(r)
    BY <1>2 DEF CreateBinaryTrie
  <2>1. TrieHoldsNetworks' /\ (\A p \in DOMAIN trie' : trie'[p] \in Node)
    BY InsertKeeps DEF IInv
  <2>2. UNCHANGED <<table, ip, i, result, answer>>
    BY <1>2 DEF CreateBinaryTrie
  <2>3. TypeOK'
    BY <2>1, <2>2 DEF IInv, TypeOK
  <2>4. ip = NoFind
    BY DEF IInv, OnItsWay
  <2>5. OnItsWay'
    BY <2>2, <2>4 DEF IInv, OnItsWay
  <2>6. LongestMatch'
    BY <2>2 DEF IInv, LongestMatch
  <2> QED BY <2>1, <2>2, <2>3, <2>5, <2>6 DEF IInv
<1>3. ASSUME NEW new_ip \in Address, Search(new_ip) PROVE Inv'
  <2>1. TypeOK' /\ TrieHoldsNetworks' /\ LongestMatch'
    BY <1>3 DEF IInv, TypeOK, TrieHoldsNetworks, LongestMatch, Search, OnTheWay
  <2>2. i = 0 /\ result = 0
    BY <1>3 DEF Search, IInv, OnItsWay
  <2>3. Prefix(new_ip, 0) = AtHead
    BY SamePath DEF AtHead
  <2>4. OnItsWay'
    BY <1>3, <2>2, <2>3 DEF Search, OnItsWay, TableAssumption
  <2> QED BY <1>3, <2>1, <2>4 DEF IInv, Search
<1>4. CASE Descend
  <2>1. /\ ip # NoFind /\ ip' = ip /\ i' = i + 1 /\ i < Width /\ Child \in DOMAIN trie
        /\ result' = IF Useful(Child) THEN i + 1 ELSE result
        /\ UNCHANGED <<table, inserted, trie, answer>>
    BY <1>4 DEF Descend, HasChild
  <2>2. i \in 0 .. Width /\ result \in 0 .. i /\ Width \in Nat
    BY DEF IInv, TypeOK, TableAssumption
  <2>3. TypeOK' /\ TrieHoldsNetworks' /\ LongestMatch'
    BY <2>1, <2>2 DEF IInv, TypeOK, TrieHoldsNetworks, LongestMatch, OnTheWay
  <2>4. \A p : Useful(p)' <=> Useful(p)
    BY <2>1 DEF Useful
  <2>5. \A n \in 0 .. i' : Prefix(ip', n) \in DOMAIN trie'
    <3> TAKE n \in 0 .. i'
    <3>1. n = i + 1 \/ n \in 0 .. i
      BY <2>1, <2>2
    <3> QED BY <2>1, <3>1 DEF IInv, OnItsWay, Child
  <2>6. CASE Useful(Child)
    <3>1. result' = i + 1 /\ result' + 1 .. i' = {}
      BY <2>1, <2>2, <2>6
    <3>2. Useful(Prefix(ip, result'))
      BY <2>6, <3>1 DEF Child
    <3> QED BY <2>1, <2>3, <2>5, <3>1, <3>2 DEF IInv, OnItsWay, Useful
  <2>7. CASE ~Useful(Child)
    <3>1. result' = result
      BY <2>1, <2>7
    <3>2. \A n \in result + 1 .. i' : ~Useful(Prefix(ip, n))
      <4> TAKE n \in result + 1 .. i'
      <4>1. n = i + 1 \/ n \in result + 1 .. i
        BY <2>1, <2>2
      <4> QED BY <2>1, <2>7, <4>1 DEF IInv, OnItsWay, Child
    <3> QED BY <2>1, <2>3, <2>5, <3>1, <3>2 DEF IInv, OnItsWay, Useful
  <2> QED BY <2>6, <2>7
<1>5. CASE Found
  <2>1. LongestMatch'
    BY <1>5, FoundIsLongest
  <2>2. /\ ip \in Address /\ Prefix(ip, result) \in DOMAIN trie
    BY <1>5 DEF Found, IInv, TypeOK, OnItsWay
  <2>3. TypeOK'
    BY <1>5, <2>2 DEF Found, IInv, TypeOK, Node, TableAssumption
  <2>4. TrieHoldsNetworks' /\ OnItsWay'
    BY <1>5 DEF Found, IInv, TrieHoldsNetworks, OnItsWay, OnTheWay
  <2> QED BY <1>5, <2>1, <2>3, <2>4 DEF IInv, Found
<1> QED BY <1>1, <1>2, <1>3, <1>4, <1>5 DEF Next

LEMMA Invariant == ASSUME TableAssumption PROVE Spec => []Inv
<1>1. Init => Inv
  BY DEF Init, Inv, IInv, TypeOK, TrieHoldsNetworks, OnItsWay, LongestMatch, TableAssumption
<1>2. Inv /\ [Next]_vars => Inv'
  BY Inductive
<1> QED BY <1>1, <1>2, PTL DEF Spec

(* Types.                                                                  *)
THEOREM Typing == ASSUME TableAssumption PROVE Spec => []TypeOK
<1>1. Inv => TypeOK
  BY DEF Inv, IInv
<1> QED BY <1>1, Invariant, PTL

(* BinaryTrie::find finds the longest matching network that it can return. *)
THEOREM FindsLongest == ASSUME TableAssumption PROVE Spec => []LongestMatch
<1>1. Inv => LongestMatch
  BY DEF Inv, IInv
<1> QED BY <1>1, Invariant, PTL
=============================================================================
