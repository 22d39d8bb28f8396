---------------------------- MODULE Router_proofs ----------------------------
(***************************************************************************)
(* Proofs about Router, for any hosts, ports, packets and tables.  For     *)
(* what the mappings do it is enough that the search ends only at a port   *)
(* that is not in portset; the last part is about the search itself.       *)
(***************************************************************************)
EXTENDS Router, FiniteSetTheorems, SequenceTheorems, WellFoundedInduction, TLAPS

USE DEF vars

(* The ports of all keys are in portset, so a free port makes a new key;   *)
(* and transtable still holds every translation ever made.                 *)
PortsAreTaken == \A e \in DOMAIN transtable : e.port \in portset

TranslationsAreHeld ==
    \A s \in translated : s.as \in DOMAIN transtable /\ transtable[s.as] = s.from

IInv == PortsAreTaken /\ TranslationsAreHeld

(* What an action other than FreePort leaves alone.                        *)
LEMMA OthersKeep ==
    ASSUME \/ \E p : Forward(p) \/ TranslateForward(p) \/ TranslateBack(p)
           \/ NextPort
           \/ UNCHANGED vars
    PROVE  UNCHANGED <<transtable, portset, translated>>
BY DEF Forward, TranslateForward, TranslateBack, NextPort

(* FreePort adds one new key and changes no other.                         *)
LEMMA FreePortAdds ==
    ASSUME PortsAreTaken, FreePort
    PROVE  LET p == search.packet IN
             /\ Public(p) \notin DOMAIN transtable
             /\ DOMAIN transtable' = DOMAIN transtable \cup {Public(p)}
             /\ \A e \in DOMAIN transtable : transtable'[e] = transtable[e]
             /\ transtable'[Public(p)] = p.source
             /\ portset' = portset \cup {Public(p).port}
             /\ translated' = translated \cup {[from |-> p.source, as |-> Public(p)]}
<1> DEFINE p == search.packet
<1>1. Public(p).port = search.port /\ search.port \notin portset
  BY DEF FreePort, Public
<1>2. Public(p) \notin DOMAIN transtable
  BY <1>1 DEF PortsAreTaken
<1>3. /\ transtable' = [e \in DOMAIN transtable \cup {Public(p)} |->
                           IF e = Public(p) THEN p.source ELSE transtable[e]]
      /\ portset' = portset \cup {search.port}
      /\ translated' = translated \cup {[from |-> p.source, as |-> Public(p)]}
  BY DEF FreePort, Map
<1> HIDE DEF p
<1>4. /\ DOMAIN transtable' = DOMAIN transtable \cup {Public(p)}
      /\ \A e \in DOMAIN transtable : transtable'[e] = transtable[e]
      /\ transtable'[Public(p)] = p.source
  BY <1>2, <1>3
<1> QED BY <1>1, <1>2, <1>3, <1>4 DEF p

LEMMA StepCases ==
    ASSUME [Next]_vars
    PROVE  \/ FreePort
           \/ \E p : Forward(p) \/ TranslateForward(p) \/ TranslateBack(p)
           \/ NextPort
           \/ UNCHANGED vars
BY DEF Next, RouteAndReport

LEMMA Invariant == Spec => []IInv
<1>1. Init => IInv
  BY DEF Init, IInv, PortsAreTaken, TranslationsAreHeld
<1>2. IInv /\ [Next]_vars => IInv'
  <2> SUFFICES ASSUME IInv, [Next]_vars PROVE IInv'
    OBVIOUS
  <2>1. CASE FreePort
    <3> DEFINE p == search.packet
    <3>1. PortsAreTaken'
      BY <2>1, FreePortAdds DEF IInv, PortsAreTaken
    <3>2. ASSUME NEW s \in translated' PROVE s.as \in DOMAIN transtable' /\ transtable'[s.as] = s.from
      <4>1. s \in translated \/ s = [from |-> p.source, as |-> Public(p)]
        BY <2>1, <3>2, FreePortAdds DEF IInv
      <4> QED BY <2>1, <4>1, FreePortAdds DEF IInv, TranslationsAreHeld
    <3> QED BY <3>1, <3>2 DEF IInv, TranslationsAreHeld
  <2>2. CASE UNCHANGED <<transtable, portset, translated>>
    BY <2>2 DEF IInv, PortsAreTaken, TranslationsAreHeld
  <2> QED BY <2>1, <2>2, StepCases, OthersKeep
<1> QED BY <1>1, <1>2, PTL DEF Spec

-----------------------------------------------------------------------------
(* Mappings are for good.                                                  *)
THEOREM MappingsStay == Spec => MappingsAreKept
<1>1. ASSUME IInv, [Next]_vars
      PROVE  \A e \in DOMAIN transtable :
                e \in DOMAIN transtable' /\ transtable'[e] = transtable[e]
  <2>1. CASE FreePort
    BY <1>1, <2>1, FreePortAdds DEF IInv
  <2>2. CASE UNCHANGED <<transtable, portset, translated>>
    BY <2>2
  <2> QED BY <1>1, <2>1, <2>2, StepCases, OthersKeep
<1> QED BY <1>1, Invariant, PTL DEF MappingsAreKept, Spec

(* No endpoint is given to two.                                            *)
THEOREM EndpointsAreUnshared == Spec => []NoSharedEndpoint
<1>1. IInv => NoSharedEndpoint
  BY DEF IInv, TranslationsAreHeld, NoSharedEndpoint
<1> QED BY <1>1, Invariant, PTL

(* Answers are passed on to the host that is waiting for them.             *)
THEOREM AnswersArrive == Spec => AnswersReachTheSender
<1>1. ASSUME IInv, [Next]_vars
      PROVE  \A s \in translated :
                /\ TranslationBegins => search'.packet.destination # s.as
                /\ PassedOn /\ report'.packet.destination = s.as =>
                      report'.destination.host = s.from.host
  <2> TAKE s \in translated
  <2>1. s.as \in DOMAIN transtable /\ transtable[s.as] = s.from
    BY <1>1 DEF IInv, TranslationsAreHeld
  <2>2. CASE FreePort \/ NextPort \/ UNCHANGED vars
    BY <2>2 DEF FreePort, NextPort, TranslationBegins, PassedOn
  <2>3. ASSUME NEW p, Forward(p)
        PROVE  report'.packet = p /\ p.destination # s.as /\ search' = search
    BY <2>1, <2>3 DEF Forward, Line
  <2>4. ASSUME NEW p, TranslateForward(p)
        PROVE  search'.packet = p /\ p.destination # s.as /\ report' = report
    BY <2>1, <2>4 DEF TranslateForward
  <2>5. ASSUME NEW p, TranslateBack(p)
        PROVE  /\ report'.packet = p /\ search' = search
               /\ report'.destination.host = transtable[p.destination].host
    BY <2>5 DEF TranslateBack, Line
  <2> QED BY <1>1, <2>1, <2>2, <2>3, <2>4, <2>5, StepCases DEF TranslationBegins, PassedOn
<1> QED BY <1>1, Invariant, PTL DEF AnswersReachTheSender, Spec

-----------------------------------------------------------------------------
(* Induction, as a fact about sets of numbers.                             *)
LEMMA Induction ==
    ASSUME NEW S, 0 \in S, \A n \in Nat : n \in S => n + 1 \in S
    PROVE  Nat \subseteq S
<1> DEFINE T == Nat \ S
<1>1. SUFFICES ASSUME T # {} PROVE FALSE
  OBVIOUS
<1>2. PICK n \in T : \A m \in T : <<m, n>> \notin OpToRel(<, Nat)
  <2>1. T \subseteq Nat
    OBVIOUS
  <2> HIDE DEF T
  <2> QED BY <1>1, <2>1, WFMin, NatLessThanWellFounded
<1>3. n \in Nat /\ n # 0 /\ n - 1 \in Nat /\ n - 1 < n
  OBVIOUS
<1>4. <<n - 1, n>> \in OpToRel(<, Nat)
  BY <1>3 DEF OpToRel
<1>5. n - 1 \in S
  BY <1>2, <1>3, <1>4
<1> QED BY <1>3, <1>5

LEMMA CompleteInduction ==
    ASSUME NEW S, \A n \in Nat : (\A m \in 0 .. n - 1 : m \in S) => n \in S
    PROVE  Nat \subseteq S
<1> DEFINE T == {n \in Nat : \A m \in 0 .. n - 1 : m \in S}
<1>1. 0 \in T
  OBVIOUS
<1>2. ASSUME NEW n \in Nat, n \in T PROVE n + 1 \in T
  <2>1. n \in S /\ \A m \in 0 .. n - 1 : m \in S
    BY <1>2
  <2>2. ASSUME NEW m \in 0 .. n PROVE m \in S
    BY <2>1
  <2> QED BY <2>2
<1>3. Nat \subseteq T
  <2> HIDE DEF T
  <2> QED BY <1>1, <1>2, Induction
<1> QED BY <1>3

(* What << writes for a number is well defined.                            *)
Written(f, n) == IF n < 10 THEN <<n>> ELSE Append(f[n \div 10], n % 10)
WrittenTo(f, n) == f = [k \in 0 .. n |-> Written(f, k)]

LEMMA WrittenOnce ==
    ASSUME NEW m \in Nat, NEW n \in Nat, NEW f, NEW g, WrittenTo(f, m), WrittenTo(g, n)
    PROVE  \A k \in Nat : k <= m /\ k <= n => f[k] = g[k]
<1> DEFINE S == {k \in Nat : k <= m /\ k <= n => f[k] = g[k]}
<1>1. ASSUME NEW k \in Nat, \A j \in 0 .. k - 1 : j \in S PROVE k \in S
  <2> SUFFICES ASSUME k <= m, k <= n PROVE f[k] = g[k]
    OBVIOUS
  <2>1. f[k] = Written(f, k) /\ g[k] = Written(g, k)
    <3>1. k \in 0 .. m /\ k \in 0 .. n
      OBVIOUS
    <3> QED BY <3>1, Zenon DEF WrittenTo
  <2>2. k >= 10 => k \div 10 \in 0 .. k - 1
    OBVIOUS
  <2>3. k >= 10 => f[k \div 10] = g[k \div 10]
    BY <1>1, <2>2
  <2> QED BY <2>1, <2>3 DEF Written
<1>2. Nat \subseteq S
  <2> HIDE DEF S
  <2> QED BY <1>1, CompleteInduction
<1> QED BY <1>2

LEMMA WrittenSomehow == \A n \in Nat : \E f : WrittenTo(f, n)
<1> DEFINE S == {n \in Nat : \E f : WrittenTo(f, n)}
<1>1. 0 \in S
  <2> DEFINE f == [k \in 0 .. 0 |-> <<k>>]
  <2>1. WrittenTo(f, 0)
    BY DEF WrittenTo, Written
  <2> QED BY <2>1
<1>2. ASSUME NEW n \in Nat, n \in S PROVE n + 1 \in S
  <2>1. PICK f : WrittenTo(f, n)
    BY <1>2
  <2> DEFINE g == [k \in 0 .. n + 1 |-> IF k <= n THEN f[k] ELSE Written(f, k)]
  <2>2. ASSUME NEW k \in 0 .. n + 1 PROVE g[k] = Written(g, k)
    <3>1. k >= 10 => k \div 10 \in 0 .. n
      OBVIOUS
    <3>2. k >= 10 => g[k \div 10] = f[k \div 10]
      BY <3>1
    <3>3. g[k] = Written(f, k)
      BY <2>1 DEF WrittenTo
    <3> HIDE DEF g
    <3> QED BY <3>2, <3>3 DEF Written
  <2>3. WrittenTo(g, n + 1)
    BY <2>2 DEF WrittenTo
  <2> QED BY <2>3
<1>3. Nat \subseteq S
  <2> HIDE DEF S
  <2> QED BY <1>1, <1>2, Induction
<1> QED BY <1>3

LEMMA DigitsAreWritten == Digits = [n \in Nat |-> Written(Digits, n)]
<1> DEFINE to(n) == CHOOSE f : WrittenTo(f, n)
           all == [n \in Nat |-> to(n)[n]]
<1>1. ASSUME NEW n \in Nat PROVE WrittenTo(to(n), n)
  BY WrittenSomehow
<1>2. ASSUME NEW n \in Nat PROVE all[n] = Written(all, n)
  <2>1. to(n)[n] = Written(to(n), n)
    <3>1. n \in 0 .. n
      OBVIOUS
    <3> QED BY <1>1, <3>1 DEF WrittenTo
  <2>2. ASSUME n >= 10 PROVE to(n)[n \div 10] = all[n \div 10]
    <3>1. PICK m \in Nat : m = n \div 10 /\ m <= n
      BY <2>2
    <3>2. to(n)[m] = to(m)[m]
      BY <1>1, <3>1, WrittenOnce
    <3> QED BY <3>1, <3>2
  <2> HIDE DEF to
  <2> QED BY <2>1, <2>2 DEF Written
<1>3. all = [n \in Nat |-> Written(all, n)]
  BY <1>2
<1> HIDE DEF all
<1> QED BY <1>3 DEF Digits, Written


LEMMA DigitsOf ==
    ASSUME NEW n \in Nat
    PROVE  /\ n < 10 => Digits[n] = <<n>>
           /\ n >= 10 => Digits[n] = Append(Digits[n \div 10], n % 10)
<1>1. Digits[n] = Written(Digits, n)
  BY DigitsAreWritten
<1> QED BY <1>1 DEF Written

LEMMA DigitsAreDigits ==
    ASSUME NEW n \in Nat
    PROVE  Digits[n] \in Seq(0 .. 9) /\ Digits[n] # << >>
<1> DEFINE S == {k \in Nat : Digits[k] \in Seq(0 .. 9) /\ Digits[k] # << >>}
<1>1. ASSUME NEW k \in Nat, \A j \in 0 .. k - 1 : j \in S PROVE k \in S
  <2>1. CASE k < 10
    <3>1. Digits[k] = <<k>> /\ k \in 0 .. 9
      BY <2>1, DigitsOf
    <3>2. <<k>> \in Seq(0 .. 9) /\ <<k>> # << >>
      BY <3>1
    <3> QED BY <3>1, <3>2
  <2>2. CASE k >= 10
    <3>1. PICK j \in Nat : j = k \div 10
      OBVIOUS
    <3>2. PICK d \in Nat : d = k % 10
      OBVIOUS
    <3>3. j \in 0 .. k - 1 /\ d \in 0 .. 9
      BY <2>2, <3>1, <3>2
    <3>4. Digits[k] = Append(Digits[j], d)
      <4>1. Digits[k] = Append(Digits[k \div 10], k % 10)
        BY <2>2, DigitsOf
      <4> QED BY <3>1, <3>2, <4>1, Zenon
    <3>5. Digits[j] \in Seq(0 .. 9)
      BY <1>1, <3>3
    <3>6. Append(Digits[j], d) \in Seq(0 .. 9) /\ Append(Digits[j], d) # << >>
      <4>1. ASSUME NEW s \in Seq(0 .. 9), NEW e \in 0 .. 9
            PROVE  Append(s, e) \in Seq(0 .. 9) /\ Append(s, e) # << >>
        BY AppendProperties
      <4> QED BY <3>3, <3>5, <4>1, Zenon
    <3> QED BY <3>4, <3>6, Zenon
  <2> QED BY <2>1, <2>2
<1>2. Nat \subseteq S
  <2> HIDE DEF S
  <2> QED BY <1>1, CompleteInduction
<1> QED BY <1>2

-----------------------------------------------------------------------------
(* What >> reads is well defined.                                          *)
Reads(text, f, k) == IF k = 0 THEN 0 ELSE 10 * f[k - 1] + text[k]
ReadsTo(text, f, n) == f = [k \in 0 .. n |-> Reads(text, f, k)]

LEMMA ReadOnce ==
    ASSUME NEW text, NEW m \in Nat, NEW n \in Nat, NEW f, NEW g,
           ReadsTo(text, f, m), ReadsTo(text, g, n)
    PROVE  \A k \in Nat : k <= m /\ k <= n => f[k] = g[k]
<1> DEFINE S == {k \in Nat : k <= m /\ k <= n => f[k] = g[k]}
<1>1. 0 \in S
  <2>1. f[0] = Reads(text, f, 0) /\ g[0] = Reads(text, g, 0)
    BY 0 \in 0 .. m, 0 \in 0 .. n, Zenon DEF ReadsTo
  <2> QED BY <2>1 DEF Reads
<1>2. ASSUME NEW k \in Nat, k \in S PROVE k + 1 \in S
  <2> SUFFICES ASSUME k + 1 <= m, k + 1 <= n PROVE f[k + 1] = g[k + 1]
    OBVIOUS
  <2>1. k + 1 \in 0 .. m /\ k + 1 \in 0 .. n /\ k + 1 # 0 /\ k + 1 - 1 = k
    OBVIOUS
  <2>2. f[k + 1] = Reads(text, f, k + 1) /\ g[k + 1] = Reads(text, g, k + 1)
    BY <2>1, Zenon DEF ReadsTo
  <2>3. f[k] = g[k]
    BY <1>2
  <2> QED BY <2>1, <2>2, <2>3 DEF Reads
<1>3. Nat \subseteq S
  <2> HIDE DEF S
  <2> QED BY <1>1, <1>2, Induction
<1> QED BY <1>3

LEMMA ReadSomehow == ASSUME NEW text PROVE \A n \in Nat : \E f : ReadsTo(text, f, n)
<1> DEFINE S == {n \in Nat : \E f : ReadsTo(text, f, n)}
<1>1. 0 \in S
  <2> DEFINE f == [k \in 0 .. 0 |-> 0]
  <2>1. ReadsTo(text, f, 0)
    BY DEF ReadsTo, Reads
  <2> QED BY <2>1
<1>2. ASSUME NEW n \in Nat, n \in S PROVE n + 1 \in S
  <2>1. PICK f : ReadsTo(text, f, n)
    BY <1>2
  <2> DEFINE g == [k \in 0 .. n + 1 |-> IF k <= n THEN f[k] ELSE Reads(text, f, k)]
  <2>2. ASSUME NEW k \in 0 .. n + 1 PROVE g[k] = Reads(text, g, k)
    <3>1. k # 0 => g[k - 1] = f[k - 1]
      OBVIOUS
    <3>2. g[k] = Reads(text, f, k)
      BY <2>1 DEF ReadsTo
    <3> HIDE DEF g
    <3> QED BY <3>1, <3>2 DEF Reads
  <2>3. ReadsTo(text, g, n + 1)
    BY <2>2 DEF ReadsTo
  <2> QED BY <2>3
<1>3. Nat \subseteq S
  <2> HIDE DEF S
  <2> QED BY <1>1, <1>2, Induction
<1> QED BY <1>3

(* The number read of the first k digits of a text.                        *)
ReadUpTo(text) == CHOOSE f : f = [k \in Nat |-> Reads(text, f, k)]

LEMMA NumberIsRead == ASSUME NEW text PROVE Number(text) = ReadUpTo(text)[Len(text)]
BY DEF Number, ReadUpTo, Reads

LEMMA ReadUpToIsRead ==
    ASSUME NEW text
    PROVE  ReadUpTo(text) = [k \in Nat |-> Reads(text, ReadUpTo(text), k)]
<1> DEFINE to(n) == CHOOSE f : ReadsTo(text, f, n)
           all == [n \in Nat |-> to(n)[n]]
<1>1. ASSUME NEW n \in Nat PROVE ReadsTo(text, to(n), n)
  BY ReadSomehow
<1>2. ASSUME NEW n \in Nat PROVE all[n] = Reads(text, all, n)
  <2>1. to(n)[n] = Reads(text, to(n), n)
    BY <1>1, n \in 0 .. n DEF ReadsTo
  <2>2. ASSUME n # 0 PROVE to(n)[n - 1] = all[n - 1]
    <3>1. PICK m \in Nat : m = n - 1 /\ m <= n
      BY <2>2
    <3>2. to(n)[m] = to(m)[m]
      BY <1>1, <3>1, ReadOnce
    <3> QED BY <3>1, <3>2
  <2> HIDE DEF to
  <2> QED BY <2>1, <2>2 DEF Reads
<1>3. all = [n \in Nat |-> Reads(text, all, n)]
  BY <1>2
<1> HIDE DEF all
<1> QED BY <1>3 DEF ReadUpTo

LEMMA NumbersAreNumbers ==
    ASSUME NEW text \in Seq(0 .. 9) PROVE Number(text) \in Nat
<1> DEFINE S == {k \in Nat : k <= Len(text) => ReadUpTo(text)[k] \in Nat}
<1>1. 0 \in S
  BY ReadUpToIsRead DEF Reads
<1>2. ASSUME NEW k \in Nat, k \in S PROVE k + 1 \in S
  <2> SUFFICES ASSUME k + 1 <= Len(text) PROVE ReadUpTo(text)[k + 1] \in Nat
    OBVIOUS
  <2>1. text[k + 1] \in 0 .. 9
    BY k + 1 \in 1 .. Len(text), ElementOfSeq
  <2>2. ReadUpTo(text)[k] \in Nat
    BY <1>2
  <2>3. ReadUpTo(text)[k + 1] = 10 * ReadUpTo(text)[k] + text[k + 1]
    BY ReadUpToIsRead, k + 1 \in Nat, k + 1 # 0, k + 1 - 1 = k DEF Reads
  <2> PICK d \in Nat : d = text[k + 1]
    BY <2>1
  <2> PICK m \in Nat : m = ReadUpTo(text)[k]
    BY <2>2
  <2> QED BY <2>3
<1>3. Nat \subseteq S
  <2> HIDE DEF S
  <2> QED BY <1>1, <1>2, Induction
<1>4. Len(text) \in S
  BY <1>3, LenProperties
<1> QED BY <1>4, LenProperties, NumberIsRead

LEMMA ReadStep ==
    ASSUME NEW text, NEW k \in Nat
    PROVE  /\ ReadUpTo(text)[0] = 0
           /\ ReadUpTo(text)[k + 1] = 10 * ReadUpTo(text)[k] + text[k + 1]
<1>1. ReadUpTo(text)[0] = 0
  BY ReadUpToIsRead DEF Reads
<1>2. k + 1 \in Nat /\ k + 1 # 0 /\ k + 1 - 1 = k
  OBVIOUS
<1>3. ReadUpTo(text)[k + 1] = Reads(text, ReadUpTo(text), k + 1)
  BY <1>2, ReadUpToIsRead
<1> QED BY <1>1, <1>2, <1>3 DEF Reads

LEMMA NumberOfAppend ==
    ASSUME NEW text \in Seq(0 .. 9), NEW d \in 0 .. 9
    PROVE  Number(Append(text, d)) = 10 * Number(text) + d
<1> PICK longer \in Seq(0 .. 9) : longer = Append(text, d)
  BY AppendProperties
<1> PICK n \in Nat : n = Len(text)
  BY LenProperties
<1>1. Len(longer) = n + 1 /\ longer[n + 1] = d /\ \A i \in 1 .. n : longer[i] = text[i]
  BY AppendProperties
<1> DEFINE S == {k \in Nat : k <= n => ReadUpTo(longer)[k] = ReadUpTo(text)[k]}
<1>2. 0 \in S
  BY ReadStep
<1>3. ASSUME NEW k \in Nat, k \in S PROVE k + 1 \in S
  <2> SUFFICES ASSUME k + 1 <= n PROVE ReadUpTo(longer)[k + 1] = ReadUpTo(text)[k + 1]
    OBVIOUS
  <2>1. ReadUpTo(longer)[k] = ReadUpTo(text)[k] /\ longer[k + 1] = text[k + 1]
    BY <1>1, <1>3
  <2> QED BY <2>1, ReadStep
<1>4. Nat \subseteq S
  <2> HIDE DEF S
  <2> QED BY <1>2, <1>3, Induction
<1>5. ReadUpTo(longer)[n] = ReadUpTo(text)[n]
  BY <1>4
<1>6. ReadUpTo(longer)[n + 1] = 10 * ReadUpTo(text)[n] + d
  <2>1. ReadUpTo(longer)[n + 1] = 10 * ReadUpTo(longer)[n] + longer[n + 1]
    BY ReadStep
  <2> QED BY <1>1, <1>5, <2>1
<1> QED BY <1>1, <1>6, NumberIsRead

(* What has been written is read as the same number.                       *)
LEMMA NumberOfDigits == ASSUME NEW n \in Nat PROVE Number(Digits[n]) = n
<1> DEFINE S == {k \in Nat : Number(Digits[k]) = k}
<1>1. ASSUME NEW k \in Nat, \A j \in 0 .. k - 1 : j \in S PROVE k \in S
  <2>1. CASE k < 10
    <3>1. Digits[k] = <<k>> /\ Len(<<k>>) = 1 /\ <<k>>[1] = k
      BY <2>1, DigitsOf
    <3>2. ReadUpTo(<<k>>)[0 + 1] = 10 * 0 + <<k>>[0 + 1]
      BY 0 \in Nat, ReadStep
    <3>3. Number(<<k>>) = ReadUpTo(<<k>>)[1]
      BY <3>1, NumberIsRead
    <3>4. Number(<<k>>) = k
      BY <3>1, <3>2, <3>3
    <3> QED BY <3>1, <3>4
  <2>2. CASE k >= 10
    <3>1. PICK j \in Nat : j = k \div 10
      OBVIOUS
    <3>2. PICK d \in Nat : d = k % 10
      OBVIOUS
    <3>3. j \in 0 .. k - 1 /\ d \in 0 .. 9 /\ 10 * j + d = k
      BY <2>2, <3>1, <3>2
    <3>4. Digits[k] = Append(Digits[j], d)
      <4>1. Digits[k] = Append(Digits[k \div 10], k % 10)
        BY <2>2, DigitsOf
      <4> QED BY <3>1, <3>2, <4>1, Zenon
    <3>5. Digits[j] \in Seq(0 .. 9) /\ Number(Digits[j]) = j
      BY <1>1, <3>3, DigitsAreDigits
    <3>6. Number(Append(Digits[j], d)) = 10 * Number(Digits[j]) + d
      BY <3>3, <3>5, NumberOfAppend
    <3> QED BY <3>3, <3>4, <3>5, <3>6
  <2> QED BY <2>1, <2>2
<1>2. Nat \subseteq S
  <2> HIDE DEF S
  <2> QED BY <1>1, CompleteInduction
<1> QED BY <1>2

LEMMA OneDigit == ASSUME NEW d \in 0 .. 9 PROVE Number(<<d>>) = d /\ Digits[d] = <<d>>
<1>1. Digits[d] = <<d>>
  BY DigitsOf
<1>2. Number(Digits[d]) = d
  BY NumberOfDigits
<1> QED BY <1>1, <1>2

LEMMA DigitsOfTens ==
    ASSUME NEW n \in Nat, NEW d \in 0 .. 9, n # 0
    PROVE  Digits[10 * n + d] = Append(Digits[n], d)
<1> PICK k \in Nat : k = 10 * n + d
  OBVIOUS
<1>1. k >= 10 /\ k \div 10 = n /\ k % 10 = d
  OBVIOUS
<1>2. Digits[k] = Append(Digits[k \div 10], k % 10)
  BY <1>1, DigitsOf
<1> QED BY <1>1, <1>2

(* What has been read is written as the same text, if it has no leading    *)
(* zeros.                                                                  *)
Plain(text) == text # << >> /\ (text[1] = 0 => Len(text) = 1)

LEMMA DigitsOfNumber ==
    ASSUME NEW text \in Seq(0 .. 9), Plain(text)
    PROVE  Digits[Number(text)] = text
<1> DEFINE P(t) == Digits[Number(t)] = t /\ (t[1] # 0 => Number(t) # 0)
           S == {k \in Nat : \A t \in Seq(0 .. 9) : Len(t) = k /\ Plain(t) => P(t)}
<1>1. 0 \in S
  BY EmptySeq DEF Plain
<1>2. ASSUME NEW k \in Nat, k \in S PROVE k + 1 \in S
  <2> SUFFICES ASSUME NEW t \in Seq(0 .. 9), Len(t) = k + 1, Plain(t) PROVE P(t)
    OBVIOUS
  <2>1. PICK s \in Seq(0 .. 9), d \in 0 .. 9 : t = Append(s, d)
    BY SequenceEmptyOrAppend DEF Plain
  <2>2. Number(s) \in Nat /\ Number(t) = 10 * Number(s) + d
    BY <2>1, NumberOfAppend, NumbersAreNumbers
  <2>3. Len(s) = k /\ \A i \in 1 .. k : t[i] = s[i]
    BY <2>1, AppendProperties, LenProperties
  <2>4. CASE k = 0
    <3>1. s = << >>
      BY <2>3, <2>4, EmptySeq
    <3>2. t = <<d>>
      BY <2>1, <3>1
    <3>3. t[1] = d
      BY <3>2
    <3> QED BY <3>2, <3>3, OneDigit
  <2>5. CASE k # 0
    <3>1. 1 \in 1 .. k /\ t[1] = s[1] /\ s # << >> /\ t[1] # 0
      BY <2>3, <2>5, EmptySeq DEF Plain
    <3>2. P(s)
      BY <1>2, <2>3, <3>1 DEF Plain
    <3>3. Number(s) # 0 /\ Digits[Number(s)] = s
      BY <3>1, <3>2
    <3>4. Digits[Number(t)] = t
      BY <2>1, <2>2, <3>3, DigitsOfTens
    <3>5. Number(t) # 0
      BY <2>2, <3>3
    <3> QED BY <3>4, <3>5
  <2> QED BY <2>4, <2>5
<1>3. Nat \subseteq S
  <2> HIDE DEF S
  <2> QED BY <1>1, <1>2, Induction
<1>4. Len(text) \in S
  BY <1>3, LenProperties
<1> QED BY <1>4

(* The next number does not have fewer digits.                             *)
LEMMA DigitsGrow == ASSUME NEW n \in Nat PROVE Len(Digits[n]) <= Len(Digits[n + 1])
<1> DEFINE S == {k \in Nat : Len(Digits[k]) <= Len(Digits[k + 1])}
<1>1. ASSUME NEW k \in Nat, \A j \in 0 .. k - 1 : j \in S PROVE k \in S
  <2>1. Len(Digits[k]) \in Nat /\ Len(Digits[k + 1]) \in Nat \ {0}
    BY DigitsAreDigits, EmptySeq, LenProperties, k + 1 \in Nat
  <2>2. CASE k < 10
    <3>1. Len(Digits[k]) = 1
      BY <2>2, OneDigit
    <3>2. Len(Digits[k]) <= Len(Digits[k + 1])
      <4> PICK a \in Nat \ {0} : a = Len(Digits[k + 1])
        BY <2>1
      <4> QED BY <3>1
    <3> QED BY <3>2
  <2>3. CASE k >= 10
    <3> PICK j \in Nat : j = k \div 10
      OBVIOUS
    <3> PICK m \in Nat : m = (k + 1) \div 10
      OBVIOUS
    <3>1. j \in 0 .. k - 1 /\ (m = j \/ m = j + 1)
      BY <2>3
    <3>2. Digits[k] = Append(Digits[j], k % 10) /\ Digits[k + 1] = Append(Digits[m], (k + 1) % 10)
      BY <2>3, DigitsOf, k + 1 \in Nat, k + 1 >= 10
    <3>3. k % 10 \in 0 .. 9 /\ (k + 1) % 10 \in 0 .. 9
      OBVIOUS
    <3>4. Digits[j] \in Seq(0 .. 9) /\ Digits[m] \in Seq(0 .. 9)
      BY DigitsAreDigits
    <3>5. Len(Digits[k]) = Len(Digits[j]) + 1 /\ Len(Digits[k + 1]) = Len(Digits[m]) + 1
      BY <3>2, <3>3, <3>4, AppendProperties
    <3>6. Len(Digits[j]) <= Len(Digits[j + 1]) /\ Len(Digits[j]) \in Nat /\ Len(Digits[m]) \in Nat
      BY <1>1, <3>1, <3>4, LenProperties
    <3>7. Len(Digits[j]) <= Len(Digits[m])
      BY <3>1, <3>6
    <3>8. Len(Digits[k]) <= Len(Digits[k + 1])
      BY <3>5, <3>6, <3>7
    <3> QED BY <3>8
  <2> QED BY <2>2, <2>3
<1>2. Nat \subseteq S
  <2> HIDE DEF S
  <2> QED BY <1>1, CompleteInduction
<1> QED BY <1>2

-----------------------------------------------------------------------------
(* A search begins with the port of the packet and goes on with what it    *)
(* has written itself.                                                     *)
SearchIsText ==
    search # NoSearch =>
        /\ search.text # << >>
        /\ search.get = 0 => search.text = search.packet.source.port

LEMMA SearchFacts ==
    ASSUME TypeOK, SearchIsText, search # NoSearch
    PROVE  /\ search.packet \in Packets
           /\ search.text \in Seq(0 .. 9) /\ search.port = search.text
           /\ search.get \in Nat /\ search.temp \in Nat
           /\ search.get <= Len(search.text) /\ Len(search.text) \in Nat \ {0}
           /\ search.get = 0 => Plain(search.text)
<1>1. /\ search.packet \in Packets
      /\ search.text \in Seq(0 .. 9) /\ search.port = search.text
      /\ search.get \in Nat /\ search.temp \in Nat
      /\ search.get <= Len(search.text)
  BY DEF TypeOK
<1>2. Len(search.text) \in Nat \ {0}
  BY <1>1, EmptySeq DEF SearchIsText
<1>3. search.packet.source.port \in Ports
  BY <1>1, RouterAssumption DEF Endpoint
<1>4. search.get = 0 => Plain(search.text)
  BY <1>3, RouterAssumption DEF SearchIsText, Plain
<1> QED BY <1>1, <1>2, <1>4

(* What one pass of the loop writes: a text that is not shorter, and from  *)
(* the second pass on a longer one.                                        *)
LEMMA PassWrites ==
    ASSUME TypeOK, SearchIsText, search # NoSearch
    PROVE  /\ Temp \in Nat /\ Buffer \in Seq(0 .. 9)
           /\ Len(search.text) <= Len(Buffer) /\ Buffer # search.text
           /\ search.get # 0 => Len(search.text) < Len(Buffer)
<1>1. Unread \in Seq(0 .. 9)
  <2>1. ASSUME NEW i \in search.get + 1 .. Len(search.text) PROVE search.text[i] \in 0 .. 9
    BY SearchFacts, i \in 1 .. Len(search.text), ElementOfSeq
  <2> QED BY <2>1, SearchFacts, SubSeqProperties DEF Unread
<1>2. Temp \in Nat
  BY <1>1, NumbersAreNumbers, SearchFacts DEF Temp
<1>3. Digits[Temp] \in Seq(0 .. 9) /\ Digits[Temp] # << >>
  BY <1>2, DigitsAreDigits
<1> PICK text \in Seq(0 .. 9) : text = search.text
  BY SearchFacts
<1>4. CASE search.get = 0
  <2>1. Unread = text /\ text # << >> /\ Plain(text) /\ Buffer = Digits[Temp]
    BY <1>4, SearchFacts, SubSeqFull DEF Unread, Buffer, SearchIsText
  <2> PICK n \in Nat : n = Number(text)
    BY NumbersAreNumbers
  <2>2. Temp = n + 1 /\ Digits[n] = text
    BY <2>1, DigitsOfNumber DEF Temp
  <2>3. Len(text) <= Len(Buffer)
    BY <2>1, <2>2, DigitsGrow
  <2>4. Buffer # text
    <3>1. Number(Buffer) = n + 1
      BY <2>1, <2>2, <1>2, NumberOfDigits
    <3> QED BY <3>1
  <2> QED BY <1>2, <1>3, <1>4, <2>1, <2>3, <2>4
<1>5. CASE search.get # 0
  <2> PICK new \in Seq(0 .. 9) : new = Digits[Temp]
    BY <1>3
  <2>1. Buffer = text \o new /\ new # << >>
    BY <1>3, <1>5 DEF Buffer
  <2>2. Buffer \in Seq(0 .. 9) /\ Len(Buffer) = Len(text) + Len(new)
    BY <2>1, ConcatProperties
  <2>3. Len(text) \in Nat /\ Len(new) \in Nat /\ Len(new) # 0
    BY <2>1, EmptySeq
  <2>4. ASSUME NEW k \in Nat, NEW m \in Nat, m # 0 PROVE k < k + m /\ k <= k + m /\ k # k + m
    BY <2>4
  <2>5. Len(text) < Len(Buffer) /\ Len(text) <= Len(Buffer) /\ Len(text) # Len(Buffer)
    BY <2>2, <2>3, <2>4, Zenon
  <2> QED BY <1>2, <2>2, <2>5, Zenon
<1> QED BY <1>4, <1>5

LEMMA InitTypeOK == Init => TypeOK /\ SearchIsText
BY DEF Init, TypeOK, SearchIsText

LEMMA StepKeepsTypeOK == TypeOK /\ SearchIsText /\ [Next]_vars => TypeOK' /\ SearchIsText'
<1> SUFFICES ASSUME TypeOK, SearchIsText, [Next]_vars PROVE TypeOK' /\ SearchIsText'
  OBVIOUS
<1>1. CASE UNCHANGED <<transtable, portset, search>>
  BY <1>1 DEF TypeOK, SearchIsText, Interface
<1>2. ASSUME NEW p \in Packets, TranslateForward(p) PROVE TypeOK' /\ SearchIsText'
  <2> DEFINE new == [packet |-> p, port |-> p.source.port, text |-> p.source.port, get |-> 0, temp |-> 0]
  <2>1. p.source.port \in Seq(0 .. 9) /\ p.source.port # << >>
    BY RouterAssumption DEF Endpoint
  <2>2. search' = new /\ Interface(p) \in DOMAIN table /\ UNCHANGED <<transtable, portset>>
    BY <1>2 DEF TranslateForward
  <2>3. /\ new \in [packet : Packets, port : Seq(0 .. 9), text : Seq(0 .. 9), get : Nat, temp : Nat]
        /\ new.packet = p /\ new.port = new.text /\ new.text = p.source.port /\ new.get = 0
    BY <2>1
  <2>4. 0 <= Len(p.source.port)
    BY <2>1, LenProperties
  <2> HIDE DEF new
  <2>5. TypeOK'
    BY <2>2, <2>3, <2>4 DEF TypeOK, Interface
  <2>6. SearchIsText'
    BY <2>1, <2>2, <2>3 DEF SearchIsText
  <2> QED BY <2>5, <2>6
<1>3. CASE NextPort
  <2> DEFINE new == [packet |-> search.packet, port |-> Buffer, text |-> Buffer,
                     get |-> Len(search.text), temp |-> Temp]
  <2>1. search # NoSearch /\ search' = new /\ UNCHANGED <<transtable, portset>>
    BY <1>3 DEF NextPort
  <2>4. Temp \in Nat /\ Buffer \in Seq(0 .. 9) /\ Len(search.text) <= Len(Buffer)
    BY <2>1, PassWrites
  <2>5. Len(search.text) \in Nat \ {0} /\ search.packet \in Packets
    BY <2>1, SearchFacts
  <2>6. Interface(search.packet) \in DOMAIN table
    BY <2>1 DEF TypeOK
  <2>7. /\ new \in [packet : Packets, port : Seq(0 .. 9), text : Seq(0 .. 9), get : Nat, temp : Nat]
        /\ new.packet = search.packet /\ new.port = Buffer /\ new.text = Buffer
        /\ new.get = Len(search.text)
    BY <2>4, <2>5
  <2>8. Buffer # << >>
    BY <2>4, <2>5, EmptySeq
  <2> HIDE DEF new
  <2>9. TypeOK'
    BY <2>1, <2>4, <2>6, <2>7 DEF TypeOK, Interface
  <2>10. SearchIsText'
    BY <2>1, <2>5, <2>7, <2>8 DEF SearchIsText
  <2> QED BY <2>9, <2>10
<1>4. CASE FreePort
  <2> DEFINE p == search.packet
             e == Public(p)
  <2>1. search # NoSearch /\ search' = NoSearch
    BY <1>4 DEF FreePort
  <2>2. p \in Packets /\ search.port \in Seq(0 .. 9) /\ Interface(p) \in DOMAIN table
    BY <2>1, SearchFacts DEF TypeOK
  <2>3. e \in [host : Hosts, port : Seq(0 .. 9)] /\ e.port = search.port /\ p.source \in Endpoint
    BY <2>2, RouterAssumption DEF Public
  <2>4. transtable' = [f \in DOMAIN transtable \cup {e} |-> IF f = e THEN p.source ELSE transtable[f]]
    BY <1>4 DEF FreePort, Map
  <2>5. portset' = portset \cup {e.port}
    BY <1>4, <2>3 DEF FreePort, Map
  <2> HIDE DEF e, p
  <2>6. DOMAIN transtable' = DOMAIN transtable \cup {e}
    BY <2>4
  <2>7. ASSUME NEW f \in DOMAIN transtable' PROVE transtable'[f] \in Endpoint
    BY <2>3, <2>4 DEF TypeOK
  <2>8. portset' = {f.port : f \in DOMAIN transtable'}
    BY <2>5, <2>6 DEF TypeOK
  <2> QED BY <2>1, <2>3, <2>6, <2>7, <2>8 DEF TypeOK, SearchIsText
<1>5. ASSUME NEW p, Forward(p) \/ TranslateBack(p) PROVE UNCHANGED <<transtable, portset, search>>
  BY <1>5 DEF Forward, TranslateBack
<1> QED BY <1>1, <1>2, <1>3, <1>4, <1>5 DEF Next, RouteAndReport

LEMMA TypeOKHolds == Spec => [](TypeOK /\ SearchIsText)
BY InitTypeOK, StepKeepsTypeOK, PTL DEF Spec

(* Every key is an address of the NAT's with a port of digits, and portset *)
(* holds just the ports of the keys; a search is about a packet that is to *)
(* be translated, and the stream is never read beyond its end.             *)
THEOREM TypeCorrect == Spec => []TypeOK
BY TypeOKHolds, PTL

(* The search gets ahead with every pass, however the ports collide and    *)
(* whatever the numbers written run into.                                  *)
PortsAreTexts == IsFiniteSet(portset) /\ portset \subseteq Seq(0 .. 9)

LEMMA PortsAreTextsHolds == Spec => []PortsAreTexts
<1>1. Init => PortsAreTexts
  BY FS_EmptySet DEF Init, PortsAreTexts
<1>2. ASSUME TypeOK, SearchIsText, PortsAreTexts, [Next]_vars PROVE PortsAreTexts'
  <2>1. CASE FreePort
    <3>1. portset' = portset \cup {search.port} /\ search.port \in Seq(0 .. 9)
      BY <1>2, <2>1, SearchFacts DEF FreePort, Map
    <3> QED BY <1>2, <3>1, FS_AddElement DEF PortsAreTexts
  <2>2. CASE UNCHANGED <<transtable, portset, translated>>
    BY <1>2, <2>2 DEF PortsAreTexts
  <2> QED BY <1>2, <2>1, <2>2, StepCases, OthersKeep
<1> QED BY <1>1, <1>2, TypeOKHolds, PTL DEF Spec

THEOREM SearchGetsAhead == Spec => SearchRunsOut
<1>1. ASSUME TypeOK, SearchIsText, PortsAreTexts, NextPort
      PROVE  /\ search'.port # search.port
             /\ search'.get # 0
             /\ search.get # 0 => Cardinality(InTheWay') < Cardinality(InTheWay)
  <2>1. /\ search # NoSearch /\ search.port \in portset /\ portset' = portset
        /\ search'.port = Buffer /\ search'.get = Len(search.text)
    BY <1>1 DEF NextPort
  <2>2. /\ search.port = search.text /\ search.text \in Seq(0 .. 9)
        /\ Len(search.text) # 0 /\ search.get \in Nat
    BY <1>1, <2>1, SearchFacts
  <2>3. /\ Buffer \in Seq(0 .. 9) /\ Buffer # search.text
        /\ search.get # 0 => Len(search.text) < Len(Buffer)
    BY <1>1, <2>1, PassWrites
  <2>4. ASSUME search.get # 0 PROVE Cardinality(InTheWay') < Cardinality(InTheWay)
    <3> PICK m \in Nat : m = Len(search.port)
      BY <2>2, LenProperties
    <3> PICK n \in Nat : n = Len(Buffer)
      BY <2>3, LenProperties
    <3>1. m < n
      BY <2>2, <2>3, <2>4
    <3>2. InTheWay = {port \in portset : Len(port) >= m} /\ InTheWay' = {port \in portset : Len(port) >= n}
      BY <2>1 DEF InTheWay
    <3>3. ASSUME NEW port \in portset, Len(port) >= n PROVE Len(port) >= m
      <4>1. Len(port) \in Nat
        BY <1>1, LenProperties DEF PortsAreTexts
      <4>2. ASSUME NEW l \in Nat, l >= n PROVE l >= m
        BY <3>1, <4>2
      <4> QED BY <3>3, <4>1, <4>2
    <3>4. InTheWay' \subseteq InTheWay
      BY <3>2, <3>3
    <3>5. search.port \in InTheWay /\ search.port \notin InTheWay'
      BY <2>1, <3>1, <3>2
    <3>6. IsFiniteSet(InTheWay)
      BY <1>1, <3>2, FS_Subset DEF PortsAreTexts
    <3>7. IsFiniteSet(InTheWay') /\ Cardinality(InTheWay') <= Cardinality(InTheWay)
      BY <3>4, <3>6, FS_Subset
    <3>8. Cardinality(InTheWay') # Cardinality(InTheWay)
      BY <3>4, <3>5, <3>6, FS_Subset
    <3>9. Cardinality(InTheWay) \in Nat /\ Cardinality(InTheWay') \in Nat
      BY <3>6, <3>7, FS_CardinalityType
    <3> QED BY <3>7, <3>8, <3>9
  <2> QED BY <2>1, <2>2, <2>3, <2>4
<1>2. TypeOK /\ SearchIsText /\ PortsAreTexts /\ [Next]_vars =>
        [NextPort => /\ search'.port # search.port
                     /\ search'.get # 0
                     /\ search.get # 0 => Cardinality(InTheWay') < Cardinality(InTheWay)]_vars
  BY <1>1
<1> QED BY <1>2, TypeOKHolds, PortsAreTextsHolds, PTL DEF SearchRunsOut, Spec
=============================================================================
