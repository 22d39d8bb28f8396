------------------------- MODULE HttpClient_proofs -------------------------
(***************************************************************************)
(* Proofs about HttpClient, for any header limit, receive buffer, request  *)
(* size, URLs, certificates and answers, and any cutting of the stream.    *)
(* What a response brings does not depend on the URL; what the server is   *)
(* asked for rests on what parse_URL makes of it.                          *)
(***************************************************************************)
EXTENDS HttpClient, FiniteSetTheorems, SequenceTheorems, TLAPS

USE DEF vars, readVars, clientVars

(***************************************************************************)
(* The invariant.  Who has an answer has sent a whole request over a       *)
(* connection that works.                                                  *)
(***************************************************************************)
AnswerIsAskedFor ==
    /\ pc \in {"parse", "connect"} => delivered = 0
    /\ pc = "write" => delivered < RequestSize
    /\ (pc = "write" /\ conn # "connected") => delivered = 0
    /\ delivered = RequestSize => conn \in Working
    /\ answer # NoAnswer => delivered = RequestSize
    /\ (answer = NoAnswer /\ delivered = RequestSize) => pc = "read"

(* Before the header is complete what was received is in its buffer.       *)
HeaderIsBuffered ==
    /\ received = 0 /\ answer = NoAnswer => ~headerFound
    /\ answer = NoAnswer => received = 0
    /\ answer # NoAnswer => received <= answer.sent
    /\ ~headerFound => out = << >>
    /\ (~headerFound /\ pc # "thrown") => headerSize = received
    /\ (~headerFound /\ answer # NoAnswer /\ pc # "thrown") => received < answer.head

(* Then what was received of the body is printed, and HW3 counts the rest. *)
BodyIsPrinted ==
    (headerFound /\ pc = "read") =>
        /\ answer.head <= received
        /\ out = Bytes(answer.head, received - answer.head)
        /\ program = "hw3" => toGo = answer.body - (received - answer.head)

IInv == TypeOK /\ AnswerIsAskedFor /\ HeaderIsBuffered /\ BodyIsPrinted
        /\ OutputIsBody /\ OutputIsWhole /\ RefusesOnlyLarge

LEMMA BytesAreNumbers ==
    ASSUME NEW from \in Nat, NEW n \in Nat
    PROVE  Bytes(from, n) \in Seq(Nat) /\ Len(Bytes(from, n)) = n
BY DEF Bytes

LEMMA BytesGoOn ==
    ASSUME NEW from \in Nat, NEW m \in Nat, NEW n \in Nat
    PROVE  Bytes(from, m) \o Bytes(from + m, n) = Bytes(from, m + n)
<1> DEFINE s == Bytes(from, m)
           t == Bytes(from + m, n)
           u == Bytes(from, m + n)
<1>1. s \in Seq(Nat) /\ t \in Seq(Nat) /\ u \in Seq(Nat)
  BY BytesAreNumbers, from + m \in Nat, m + n \in Nat
<1>2. Len(s) = m /\ Len(t) = n /\ Len(u) = m + n
  BY BytesAreNumbers, from + m \in Nat, m + n \in Nat
<1>3. \A i \in 1 .. m : s[i] = u[i]
  BY DEF Bytes
<1>4. \A i \in 1 .. n : t[i] = u[m + i]
  BY DEF Bytes
<1> HIDE DEF s, t, u
<1>5. /\ s \o t \in Seq(Nat) /\ Len(s \o t) = m + n
      /\ \A i \in 1 .. m + n : (s \o t)[i] = IF i <= m THEN s[i] ELSE t[i - m]
  BY <1>1, <1>2, ConcatProperties
<1>6. ASSUME NEW i \in 1 .. m + n PROVE (s \o t)[i] = u[i]
  <2>1. CASE i <= m
    BY <1>3, <1>5, <2>1
  <2>2. CASE ~(i <= m)
    <3>1. i - m \in 1 .. n /\ m + (i - m) = i
      BY <2>2
    <3>2. t[i - m] = u[m + (i - m)]
      BY <1>4, <3>1
    <3> QED BY <1>5, <2>2, <3>1, <3>2
  <2> QED BY <2>1, <2>2
<1>7. s \o t = u
  BY <1>1, <1>2, <1>5, <1>6, SeqEqual
<1> QED BY <1>7 DEF s, t, u

LEMMA NoBytes == \A from : Bytes(from, 0) = << >>
BY DEF Bytes

LEMMA InitIInv == Init => IInv
<1> SUFFICES ASSUME Init PROVE IInv
  OBVIOUS
<1>1. TypeOK
  <2>1. 0 \in 0 .. HeaderLimit - 1 /\ 0 \in 0 .. RequestSize
    BY ReadAssumption, ClientAssumption
  <2>2. ReadTypeOK
    <3>1. << >> \in Seq(Nat)
      OBVIOUS
    <3> QED BY <2>1, <3>1 DEF Init, ReadInit, ReadTypeOK
  <2> QED BY <2>1, <2>2 DEF Init, TypeOK
<1>2. AnswerIsAskedFor /\ HeaderIsBuffered /\ BodyIsPrinted
  BY ReadAssumption, ClientAssumption
     DEF Init, ReadInit, AnswerIsAskedFor, HeaderIsBuffered, BodyIsPrinted, Working
<1>3. OutputIsBody /\ OutputIsWhole /\ RefusesOnlyLarge
  BY DEF Init, ReadInit, OutputIsBody, OutputIsWhole, RefusesOnlyLarge
<1> QED BY <1>1, <1>2, <1>3 DEF IInv

LEMMA StepCases ==
    ASSUME [Next]_vars
    PROVE  \/ MainHttp \/ MainAny \/ Connect \/ SendSome \/ PutAll \/ WriteFails \/ ReadFails
           \/ ServerAnswers \/ Read
           \/ UNCHANGED vars
BY DEF Next, Client

(* Up to the answer nothing of the reading has happened.                   *)
LEMMA OthersKeepIInv ==
    ASSUME IInv,
           \/ MainHttp \/ MainAny \/ Connect \/ SendSome \/ PutAll \/ WriteFails \/ ReadFails
           \/ ServerAnswers
           \/ UNCHANGED vars
    PROVE  IInv'
<1> USE ReadAssumption, ClientAssumption
    DEF IInv, TypeOK, ReadTypeOK, AnswerIsAskedFor, HeaderIsBuffered, BodyIsPrinted,
        OutputIsBody, OutputIsWhole, RefusesOnlyLarge, Working, Dangling
<1>1. CASE MainHttp \/ MainAny
  BY <1>1 DEF MainHttp, MainAny
<1>2. CASE Connect
  BY <1>2 DEF Connect, ConnectToServer, NoContext, NoConnection, ConnectTls, Connected
<1>3. CASE SendSome \/ PutAll
  BY <1>3 DEF SendSome, PutAll, Written
<1>4. CASE WriteFails \/ ReadFails
  BY <1>4 DEF WriteFails, ReadFails
<1>5. CASE ServerAnswers
  BY <1>5, NoBytes DEF ServerAnswers, Answer
<1>6. CASE UNCHANGED vars
  BY <1>6
<1> QED BY <1>1, <1>2, <1>3, <1>4, <1>5, <1>6

(***************************************************************************)
(* Reading one piece.                                                      *)
(***************************************************************************)
LEMMA PieceFacts ==
    ASSUME IInv, NEW n \in 1 .. PieceMax, Piece(n)
    PROVE  /\ answer \in Answer /\ answer' = answer /\ answer # NoAnswer
           /\ received \in Nat /\ n \in Nat \ {0}
           /\ received' = received + n /\ received' \in Nat
           /\ received' <= answer.sent
           /\ answer.sent <= answer.head + answer.body
           /\ answer.length \in {answer.body, NoLength}
           /\ answer.head \in Nat \ {0} /\ answer.body \in Nat /\ answer.sent \in Nat
           /\ pc = "read" /\ program' = program /\ delivered = RequestSize
BY ReadAssumption
   DEF Piece, IInv, TypeOK, ReadTypeOK, AnswerIsAskedFor, Answer

(* What the reading leaves alone, wherever it leads.                       *)
LEMMA ReadKeepsAsked ==
    ASSUME IInv, answer # NoAnswer, answer' = answer, UNCHANGED clientVars,
           pc' \in {"read", "done", "thrown"}
    PROVE  AnswerIsAskedFor'
BY ClientAssumption DEF IInv, AnswerIsAskedFor, TypeOK

LEMMA HeaderTooLargeKeepsIInv ==
    ASSUME IInv, NEW n \in 1 .. PieceMax, HeaderTooLarge(n), UNCHANGED clientVars
    PROVE  IInv'
<1>1. Piece(n)
  BY DEF HeaderTooLarge
<1>2. AnswerIsAskedFor'
  BY <1>1, PieceFacts, ReadKeepsAsked DEF HeaderTooLarge
<1>3. /\ ~headerFound /\ pc' = "thrown"
      /\ UNCHANGED <<headerSize, headerFound, toGo, out>>
      /\ headerSize + n >= HeaderLimit
      /\ headerSize = received /\ received < answer.head /\ out = << >>
  BY <1>1, PieceFacts, ReadAssumption
     DEF HeaderTooLarge, Fits, IInv, HeaderIsBuffered, TypeOK, ReadTypeOK
<1>4. answer.head + PieceMax > HeaderLimit
  BY <1>1, <1>3, PieceFacts, ReadAssumption
<1>5. TypeOK'
  BY <1>1, <1>3, PieceFacts DEF IInv, TypeOK, ReadTypeOK
<1>6. HeaderIsBuffered' /\ BodyIsPrinted'
  BY <1>1, <1>3, PieceFacts DEF HeaderIsBuffered, BodyIsPrinted
<1>7. OutputIsBody' /\ OutputIsWhole' /\ RefusesOnlyLarge'
  BY <1>1, <1>3, <1>4, PieceFacts, NoBytes DEF OutputIsBody, OutputIsWhole, RefusesOnlyLarge
<1> QED BY <1>2, <1>5, <1>6, <1>7 DEF IInv

LEMMA MoreHeaderKeepsIInv ==
    ASSUME IInv, NEW n \in 1 .. PieceMax, MoreHeader(n), UNCHANGED clientVars
    PROVE  IInv'
<1>1. Piece(n)
  BY DEF MoreHeader
<1>2. AnswerIsAskedFor'
  BY <1>1, PieceFacts, ReadKeepsAsked DEF MoreHeader
<1>3. /\ ~headerFound /\ headerSize' = headerSize + n
      /\ UNCHANGED <<pc, headerFound, toGo, out>>
      /\ headerSize + n < HeaderLimit /\ headerSize + n < answer.head
      /\ headerSize = received /\ out = << >>
  BY <1>1, PieceFacts, ReadAssumption
     DEF MoreHeader, Fits, ContainHeader, IInv, HeaderIsBuffered, TypeOK, ReadTypeOK
<1>4. TypeOK'
  BY <1>1, <1>3, PieceFacts, ReadAssumption DEF IInv, TypeOK, ReadTypeOK
<1>5. HeaderIsBuffered' /\ BodyIsPrinted'
  BY <1>1, <1>3, PieceFacts DEF HeaderIsBuffered, BodyIsPrinted
<1>6. OutputIsBody' /\ OutputIsWhole' /\ RefusesOnlyLarge'
  BY <1>1, <1>3, PieceFacts, NoBytes DEF OutputIsBody, OutputIsWhole, RefusesOnlyLarge
<1> QED BY <1>2, <1>4, <1>5, <1>6 DEF IInv

(* The header is complete: its buffer holds the first bytes of the body.   *)
LEMMA HeaderCompleteKeepsIInv ==
    ASSUME IInv, NEW n \in 1 .. PieceMax, FindLength(n) \/ FirstBody(n), UNCHANGED clientVars
    PROVE  IInv'
<1>1. HeaderComplete(n)
  BY DEF FindLength, FirstBody
<1>2. Piece(n)
  BY <1>1 DEF HeaderComplete
<1>3. /\ ~headerFound /\ headerFound' = TRUE /\ headerSize' = received'
      /\ headerSize' < HeaderLimit /\ answer.head <= headerSize' /\ out = << >>
  BY <1>1, <1>2, PieceFacts, ReadAssumption
     DEF HeaderComplete, Fits, ContainHeader, IInv, HeaderIsBuffered, TypeOK, ReadTypeOK
<1> DEFINE m == headerSize' - answer.head
<1>4. m \in Nat /\ m <= answer.body /\ m = received' - answer.head
  BY <1>2, <1>3, PieceFacts
<1>5. Bytes(answer.head, m) \in Seq(Nat) /\ Len(Bytes(answer.head, m)) = m
  BY <1>2, <1>4, PieceFacts, BytesAreNumbers
<1>6. << >> \o Bytes(answer.head, m) = Bytes(answer.head, m)
  BY <1>5, ConcatEmptySeq
<1>7. CASE FindLength(n) /\ answer.length = NoLength
  <2>1. pc' = "thrown" /\ UNCHANGED <<toGo, out>> /\ program' = "hw3"
    BY <1>2, <1>7, PieceFacts DEF FindLength
  <2>2. AnswerIsAskedFor'
    BY <1>2, <2>1, PieceFacts, ReadKeepsAsked
  <2>3. TypeOK'
    BY <1>2, <1>3, <2>1, PieceFacts, ReadAssumption DEF IInv, TypeOK, ReadTypeOK
  <2>4. HeaderIsBuffered' /\ BodyIsPrinted'
    BY <1>2, <1>3, <2>1, PieceFacts DEF HeaderIsBuffered, BodyIsPrinted
  <2>5. OutputIsBody' /\ OutputIsWhole' /\ RefusesOnlyLarge'
    BY <1>2, <1>3, <1>7, <2>1, PieceFacts, NoBytes DEF OutputIsBody, OutputIsWhole, RefusesOnlyLarge
  <2> QED BY <2>2, <2>3, <2>4, <2>5 DEF IInv
<1>8. CASE FirstBody(n) \/ answer.length # NoLength
  <2>1. /\ out' = Bytes(answer.head, m) /\ pc' = "read" /\ toGo' \in Nat
        /\ program' = "hw3" => toGo' = answer.body - m
    BY <1>2, <1>3, <1>4, <1>6, <1>8, PieceFacts
       DEF FindLength, FirstBody, Fwrite, IInv, TypeOK, ReadTypeOK
  <2> HIDE DEF m
  <2>2. AnswerIsAskedFor'
    BY <1>2, <2>1, PieceFacts, ReadKeepsAsked
  <2>3. TypeOK'
    BY <1>2, <1>3, <1>5, <2>1, PieceFacts, ReadAssumption DEF IInv, TypeOK, ReadTypeOK
  <2>4. HeaderIsBuffered' /\ BodyIsPrinted'
    BY <1>2, <1>3, <1>4, <2>1, PieceFacts DEF HeaderIsBuffered, BodyIsPrinted
  <2>5. OutputIsBody' /\ OutputIsWhole' /\ RefusesOnlyLarge'
    BY <1>2, <1>4, <1>5, <2>1, PieceFacts DEF OutputIsBody, OutputIsWhole, RefusesOnlyLarge
  <2> QED BY <2>2, <2>3, <2>4, <2>5 DEF IInv
<1> QED BY <1>7, <1>8 DEF FindLength, FirstBody

(* A piece of body: m of its bytes are printed, and go on from the others. *)
LEMMA BodyKeepsIInv ==
    ASSUME IInv, NEW n \in 1 .. PieceMax, CountedBody(n) \/ Body(n), UNCHANGED clientVars
    PROVE  IInv'
<1>1. Piece(n) /\ headerFound /\ UNCHANGED <<headerSize, headerFound>>
  BY DEF CountedBody, Body
<1> DEFINE k == received - answer.head
           m == IF CountedBody(n) /\ ~(toGo > n) THEN toGo ELSE n
<1>2. /\ k \in Nat /\ out = Bytes(answer.head, k) /\ k + n <= answer.body
      /\ program = "hw3" => toGo = answer.body - k
      /\ toGo \in Nat
  <2>1. /\ answer.head <= received /\ out = Bytes(answer.head, k)
        /\ program = "hw3" => toGo = answer.body - k
    BY <1>1, PieceFacts DEF IInv, BodyIsPrinted
  <2>2. toGo \in Nat
    BY DEF IInv, TypeOK, ReadTypeOK
  <2>3. k \in Nat /\ k + n <= answer.body
    BY <1>1, <2>1, PieceFacts
  <2> QED BY <2>1, <2>2, <2>3
<1>3. program = "hw3" => toGo >= n
  BY <1>1, <1>2, PieceFacts
<1>4. m = n
  BY <1>1, <1>2, <1>3, PieceFacts DEF CountedBody
<1>5. Bytes(received, n) = Bytes(answer.head + k, n)
  BY <1>1, PieceFacts
<1>a. answer.head \in Nat /\ n \in Nat /\ k + n \in Nat
  BY <1>1, <1>2, PieceFacts
<1> HIDE DEF k
<1>6. out \o Bytes(received, n) = Bytes(answer.head, k + n)
  <2>1. Bytes(answer.head, k) \o Bytes(answer.head + k, n) = Bytes(answer.head, k + n)
    BY <1>2, <1>a, BytesGoOn
  <2> QED BY <1>2, <1>5, <2>1, Zenon
<1>7. out' = Bytes(answer.head, k + n)
  BY <1>4, <1>6 DEF CountedBody, Body, Fwrite
<1>8. Bytes(answer.head, k + n) \in Seq(Nat) /\ Len(Bytes(answer.head, k + n)) = k + n
  BY <1>a, BytesAreNumbers
<1>9. /\ pc' \in {"read", "done"} /\ toGo' \in Nat
      /\ (program = "hw3" /\ pc' = "read") => toGo' = answer.body - (k + n)
      /\ pc' = "done" => k + n = answer.body
  BY <1>1, <1>2, <1>3, PieceFacts DEF CountedBody, Body
<1>10. received' - answer.head = k + n /\ answer.head <= received' /\ k + n <= answer.body
  BY <1>1, <1>2, PieceFacts DEF k
<1> HIDE DEF m
<1>11. AnswerIsAskedFor'
  BY <1>1, <1>9, PieceFacts, ReadKeepsAsked
<1>12. TypeOK'
  BY <1>1, <1>7, <1>8, <1>9, PieceFacts, ReadAssumption DEF IInv, TypeOK, ReadTypeOK
<1>13. HeaderIsBuffered' /\ BodyIsPrinted'
  BY <1>1, <1>7, <1>9, <1>10, PieceFacts DEF HeaderIsBuffered, BodyIsPrinted
<1>14. OutputIsBody' /\ OutputIsWhole' /\ RefusesOnlyLarge'
  BY <1>1, <1>7, <1>8, <1>9, <1>10, PieceFacts DEF OutputIsBody, OutputIsWhole, RefusesOnlyLarge
<1> QED BY <1>11, <1>12, <1>13, <1>14 DEF IInv

LEMMA EndOfStreamKeepsIInv ==
    ASSUME IInv, EndOfStream, UNCHANGED clientVars
    PROVE  IInv'
<1>1. /\ pc = "read" /\ pc' = "done" /\ answer # NoAnswer /\ UNCHANGED <<program, readVars>>
      /\ answer.ends = "reset" \/ (answer.ends = "closed" /\ received = answer.sent)
  BY DEF EndOfStream
<1>2. /\ answer.head \in Nat \ {0} /\ answer.body \in Nat /\ answer.sent \in Nat
      /\ received \in Nat /\ received <= answer.sent
  BY <1>1, ReadAssumption DEF IInv, TypeOK, ReadTypeOK, HeaderIsBuffered, Answer
<1>3. AnswerIsAskedFor'
  BY <1>1, ReadKeepsAsked
<1>4. TypeOK'
  BY <1>1 DEF IInv, TypeOK, ReadTypeOK
<1>5. HeaderIsBuffered' /\ BodyIsPrinted' /\ OutputIsBody' /\ RefusesOnlyLarge'
  BY <1>1 DEF IInv, HeaderIsBuffered, BodyIsPrinted, OutputIsBody, RefusesOnlyLarge
<1>6. OutputIsWhole'
  <2> SUFFICES ASSUME answer.ends # "reset", answer.sent = answer.head + answer.body
               PROVE  Len(out) = answer.body
    BY <1>1 DEF OutputIsWhole
  <2>1. received = answer.head + answer.body
    BY <1>1
  <2>2. headerFound
    BY <1>1, <1>2, <2>1 DEF IInv, HeaderIsBuffered
  <2>3. out = Bytes(answer.head, answer.body)
    BY <1>1, <1>2, <2>1, <2>2 DEF IInv, BodyIsPrinted
  <2> QED BY <1>2, <2>3, BytesAreNumbers
<1> QED BY <1>3, <1>4, <1>5, <1>6 DEF IInv

LEMMA StepKeepsIInv == IInv /\ [Next]_vars => IInv'
<1> SUFFICES ASSUME IInv, [Next]_vars PROVE IInv'
  OBVIOUS
<1>1. CASE Read
  BY <1>1, HeaderTooLargeKeepsIInv, MoreHeaderKeepsIInv, HeaderCompleteKeepsIInv, BodyKeepsIInv,
     EndOfStreamKeepsIInv
     DEF Read, Receive
<1> QED BY <1>1, OthersKeepIInv, StepCases

LEMMA IInvHolds == Spec => []IInv
BY InitIInv, StepKeepsIInv, PTL DEF Spec

(* The buffers never overflow and the counters never go below zero,        *)
(* however the stream is cut.                                              *)
THEOREM HttpTypes == Spec => []TypeOK
<1>1. IInv => TypeOK
  BY DEF IInv
<1> QED BY <1>1, IInvHolds, PTL

(* What is printed is the body, from its beginning.                        *)
THEOREM PrintsTheBody == Spec => []OutputIsBody
<1>1. IInv => OutputIsBody
  BY DEF IInv
<1> QED BY <1>1, IInvHolds, PTL

(* A client that ends by itself has printed all of it.                     *)
THEOREM PrintsAll == Spec => []OutputIsWhole
<1>1. IInv => OutputIsWhole
  BY DEF IInv
<1> QED BY <1>1, IInvHolds, PTL

(* No header that leaves room for a piece is refused.                      *)
THEOREM RefusesLargeOnly == Spec => []RefusesOnlyLarge
<1>1. IInv => RefusesOnlyLarge
  BY DEF IInv
<1> QED BY <1>1, IInvHolds, PTL

(***************************************************************************)
(* The certificate.  Only a BIO that passed the check is ever open, and    *)
(* only what is open, or a plain socket, takes any of the request.         *)
(***************************************************************************)
HostIsVerified == certificate.verified /\ parsed.host \in certificate.names

VerifiedInv ==
    /\ pc \in {"parse", "connect"} => conn = "none" /\ delivered = 0
    /\ Https => /\ conn # "connected"
                /\ (conn = "open" \/ delivered # 0) => HostIsVerified

LEMMA StepKeepsVerifiedInv == VerifiedInv /\ [Next]_vars => VerifiedInv'
<1> SUFFICES ASSUME VerifiedInv, [Next]_vars PROVE VerifiedInv'
  OBVIOUS
<1> USE DEF VerifiedInv, HostIsVerified, Https
<1>1. CASE MainHttp \/ MainAny
  BY <1>1 DEF MainHttp, MainAny
<1>2. CASE Connect
  BY <1>2 DEF Connect, ConnectToServer, NoContext, NoConnection, ConnectTls, Connected,
              CheckCertificate
<1>3. CASE SendSome \/ PutAll
  BY <1>3 DEF SendSome, PutAll, Written
<1>4. CASE WriteFails \/ ReadFails
  BY <1>4 DEF WriteFails, ReadFails, Working
<1>5. CASE ServerAnswers \/ UNCHANGED vars
  BY <1>5 DEF ServerAnswers
<1>6. CASE Read
  <2>1. pc = "read" /\ pc' \in {"read", "done", "thrown"} /\ program' = program
    BY <1>6 DEF Read, Receive, HeaderTooLarge, MoreHeader, FindLength, FirstBody, HeaderComplete,
                CountedBody, Body, Piece, EndOfStream
  <2> QED BY <1>6, <2>1 DEF Read
<1> QED BY <1>1, <1>2, <1>3, <1>4, <1>5, <1>6, StepCases

(* HW5 goes on after every failure, yet no byte of an https request goes   *)
(* to a server whose verified certificate does not name the parsed host.   *)
THEOREM AsksVerifiedServersOnly ==
    Spec => [](Https /\ delivered # 0 => HostIsVerified)
<1>1. Init => VerifiedInv
  BY DEF Init, VerifiedInv, Https
<1>2. VerifiedInv => (Https /\ delivered # 0 => HostIsVerified)
  BY DEF VerifiedInv
<1> QED BY <1>1, <1>2, StepKeepsVerifiedInv, PTL DEF Spec

(***************************************************************************)
(* parse_URL.  What it finds depends on how many colons and slashes there  *)
(* are up to a character, so first these are counted, then the flags read  *)
(* off, and every part found to be taken from an interval of places.       *)
(***************************************************************************)
LEMMA CountAtLeast ==
    ASSUME NEW url, NEW ch, NEW i \in Nat, NEW S \in SUBSET (1 .. i),
           \A j \in S : url[j] = ch
    PROVE  Count(url, ch, i) \in Nat /\ Count(url, ch, i) >= Cardinality(S)
<1> DEFINE T == {j \in 1 .. i : url[j] = ch}
<1>1. IsFiniteSet(1 .. i)
  BY FS_Interval
<1>2. IsFiniteSet(T) /\ S \subseteq T
  BY <1>1, FS_Subset
<1>3. Cardinality(T) \in Nat /\ Cardinality(S) <= Cardinality(T)
  <2>1. S \in SUBSET T
    BY <1>2
  <2> QED BY <1>2, <2>1, FS_Subset, FS_CardinalityType
<1>4. Cardinality(S) \in Nat
  BY <1>2, FS_Subset, FS_CardinalityType
<1> QED BY <1>3, <1>4 DEF Count

LEMMA OneElement == \A x : IsFiniteSet({x}) /\ Cardinality({x}) = 1
BY FS_Singleton

LEMMA TwoElements ==
    ASSUME NEW x, NEW y, x # y
    PROVE  IsFiniteSet({x, y}) /\ Cardinality({x, y}) = 2
<1>1. IsFiniteSet({x} \cup {y}) /\ Cardinality({x} \cup {y}) = Cardinality({x}) + 1
  BY OneElement, FS_AddElement
<1>2. {x} \cup {y} = {x, y}
  OBVIOUS
<1>3. Cardinality({x}) = 1
  BY OneElement
<1>4. Cardinality({x} \cup {y}) = 2
  BY <1>1, <1>3
<1> QED BY <1>1, <1>2, <1>4, Zenon

LEMMA ThreeElements ==
    ASSUME NEW x, NEW y, NEW z, x # y, x # z, y # z
    PROVE  IsFiniteSet({x, y, z}) /\ Cardinality({x, y, z}) = 3
<1>1. IsFiniteSet({x, y}) /\ Cardinality({x, y}) = 2
  BY TwoElements
<1>2. IsFiniteSet({x, y} \cup {z}) /\ Cardinality({x, y} \cup {z}) = Cardinality({x, y}) + 1
  BY <1>1, FS_AddElement
<1>3. {x, y} \cup {z} = {x, y, z}
  OBVIOUS
<1>4. Cardinality({x, y} \cup {z}) = 3
  BY <1>1, <1>2
<1> QED BY <1>2, <1>3, <1>4, Zenon

(* part is in url after a places.                                          *)
Holds(url, a, part) == \A i \in a + 1 .. a + Len(part) : url[i] = part[i - a]

(* An interval is taken as it stands.                                      *)
LEMMA TakenInterval ==
    ASSUME NEW url, NEW a \in Nat, NEW part \in Seq(Token), Holds(url, a, part)
    PROVE  Taken(url, a + 1 .. a + Len(part)) = part
<1>0. PICK k \in Nat : k = Len(part)
  BY LenProperties
<1> DEFINE I == a + 1 .. a + k
<1>1. Cardinality(I) = k
  BY FS_Interval
<1>2. ASSUME NEW i \in I PROVE Cardinality({j \in I : j <= i}) = i - a
  <2>1. {j \in I : j <= i} = a + 1 .. i
    OBVIOUS
  <2>2. Cardinality(a + 1 .. i) = i - a
    BY FS_Interval
  <2> QED BY <2>1, <2>2
<1>3. ASSUME NEW n \in 1 .. k
      PROVE  (CHOOSE i \in I : Cardinality({j \in I : j <= i}) = n) = a + n
  <2>1. a + n \in I /\ Cardinality({j \in I : j <= a + n}) = n
    <3>1. a + n \in I
      OBVIOUS
    <3> QED BY <1>2, <3>1
  <2>2. \A i \in I : Cardinality({j \in I : j <= i}) = n => i = a + n
    BY <1>2
  <2> HIDE DEF I
  <2> QED BY <2>1, <2>2
<1>4. Taken(url, I) = [n \in 1 .. k |-> url[CHOOSE i \in I : Cardinality({j \in I : j <= i}) = n]]
  BY <1>1 DEF Taken
<1> HIDE DEF I
<1>5. ASSUME NEW n \in 1 .. k PROVE url[a + n] = part[n]
  <2>1. a + n \in a + 1 .. a + k /\ a + n - a = n
    OBVIOUS
  <2> QED BY <1>0, <2>1 DEF Holds
<1>6. Taken(url, I) = [n \in 1 .. k |-> part[n]]
  <2>1. \A n \in 1 .. k :
           url[CHOOSE i \in I : Cardinality({j \in I : j <= i}) = n] = part[n]
    BY <1>3, <1>5
  <2> QED BY <1>4, <2>1
<1>7. part = [n \in 1 .. k |-> part[n]]
  BY <1>0, LenProperties
<1> QED BY <1>0, <1>6, <1>7 DEF I

(* Where the colons and slashes of a URL are: a colon and two slashes      *)
(* after the scheme's s characters, the host's last character at b, then a *)
(* colon if there is a port, and at q + 1 the path, which begins with a    *)
(* slash.                                                                  *)
Laid(url, s, b, q) ==
    /\ s \in Nat /\ b \in Nat /\ q \in Nat /\ Len(url) \in Nat
    /\ DOMAIN url = 1 .. Len(url)
    /\ s + 3 <= b /\ b <= q /\ q <= Len(url)
    /\ \A j \in 1 .. q : url[j] = ":" <=> j \in {s + 1, b + 1}
    /\ \A j \in 1 .. q : url[j] = "/" <=> j \in {s + 2, s + 3}
    /\ q < Len(url) => url[q + 1] = "/"

LEMMA SlashesBefore ==
    ASSUME NEW url, NEW s, NEW b, NEW q, Laid(url, s, b, q), NEW i \in 0 .. q
    PROVE  Count(url, "/", i) = IF i < s + 2 THEN 0 ELSE IF i < s + 3 THEN 1 ELSE 2
<1> DEFINE S == {j \in 1 .. i : url[j] = "/"}
<1>1. \A j \in 1 .. i : j \in S <=> j \in {s + 2, s + 3}
  BY DEF Laid
<1>2. s \in Nat /\ b \in Nat /\ i \in Nat /\ s + 2 # s + 3
  BY DEF Laid
<1>3. Count(url, "/", i) = Cardinality(S)
  BY DEF Count
<1>4. S \subseteq 1 .. i
  OBVIOUS
<1> HIDE DEF S
<1>5. /\ Cardinality({}) = 0 /\ Cardinality({s + 2}) = 1
      /\ Cardinality({s + 2, s + 3}) = 2
  BY <1>2, FS_EmptySet, OneElement, TwoElements
<1>6. CASE i < s + 2
  <2>1. S = {}
    BY <1>1, <1>2, <1>4, <1>6
  <2> QED BY <1>2, <1>3, <1>5, <1>6, <2>1
<1>7. CASE i >= s + 2 /\ i < s + 3
  <2>1. s + 2 \in S /\ \A j \in S : j = s + 2
    BY <1>1, <1>2, <1>4, <1>7
  <2>2. S = {s + 2}
    BY <2>1
  <2> QED BY <1>2, <1>3, <1>5, <1>7, <2>2
<1>8. CASE i >= s + 3
  <2>1. s + 2 \in S /\ s + 3 \in S /\ \A j \in S : j = s + 2 \/ j = s + 3
    BY <1>1, <1>2, <1>4, <1>8
  <2>2. S = {s + 2, s + 3}
    BY <2>1
  <2> QED BY <1>2, <1>3, <1>5, <1>8, <2>2
<1> QED BY <1>2, <1>6, <1>7, <1>8

LEMMA ColonsBefore ==
    ASSUME NEW url, NEW s, NEW b, NEW q, Laid(url, s, b, q), NEW i \in 0 .. q
    PROVE  Count(url, ":", i) = IF i < s + 1 THEN 0 ELSE IF i < b + 1 THEN 1 ELSE 2
<1> DEFINE S == {j \in 1 .. i : url[j] = ":"}
<1>1. \A j \in 1 .. i : j \in S <=> j \in {s + 1, b + 1}
  BY DEF Laid
<1>2. s \in Nat /\ b \in Nat /\ i \in Nat /\ s + 3 <= b /\ s + 1 # b + 1
  BY DEF Laid
<1>3. Count(url, ":", i) = Cardinality(S)
  BY DEF Count
<1>4. S \subseteq 1 .. i
  OBVIOUS
<1> HIDE DEF S
<1>5. /\ Cardinality({}) = 0 /\ Cardinality({s + 1}) = 1
      /\ Cardinality({s + 1, b + 1}) = 2
  BY <1>2, FS_EmptySet, OneElement, TwoElements
<1>6. CASE i < s + 1
  <2>1. S = {}
    BY <1>1, <1>2, <1>4, <1>6
  <2> QED BY <1>2, <1>3, <1>5, <1>6, <2>1
<1>7. CASE i >= s + 1 /\ i < b + 1
  <2>1. s + 1 \in S /\ \A j \in S : j = s + 1
    BY <1>1, <1>2, <1>4, <1>7
  <2>2. S = {s + 1}
    BY <2>1
  <2> QED BY <1>2, <1>3, <1>5, <1>7, <2>2
<1>8. CASE i >= b + 1
  <2>1. s + 1 \in S /\ b + 1 \in S /\ \A j \in S : j = s + 1 \/ j = b + 1
    BY <1>1, <1>2, <1>4, <1>8
  <2>2. S = {s + 1, b + 1}
    BY <2>1
  <2> QED BY <1>2, <1>3, <1>5, <1>8, <2>2
<1> QED BY <1>2, <1>6, <1>7, <1>8

LEMMA PathIsCounted ==
    ASSUME NEW url, NEW s, NEW b, NEW q, Laid(url, s, b, q), NEW i \in q + 1 .. Len(url)
    PROVE  ForPath(url, i) /\ Count(url, ":", i) # 0
<1>1. /\ s \in Nat /\ q \in Nat /\ i \in Nat
      /\ s + 2 # s + 3 /\ s + 2 # q + 1 /\ s + 3 # q + 1
  BY DEF Laid
<1>2. Cardinality({s + 2, s + 3, q + 1}) = 3
  BY <1>1, ThreeElements
<1>3. Cardinality({s + 1}) = 1
  BY OneElement
<1>4. {s + 2, s + 3, q + 1} \in SUBSET (1 .. i) /\ {s + 1} \in SUBSET (1 .. i)
  BY DEF Laid
<1>5. \A j \in {s + 2, s + 3, q + 1} : url[j] = "/"
  BY DEF Laid
<1>6. \A j \in {s + 1} : url[j] = ":"
  BY DEF Laid
<1>7. Count(url, "/", i) >= 3
  BY <1>1, <1>2, <1>4, <1>5, CountAtLeast
<1>8. Count(url, ":", i) \in Nat /\ Count(url, ":", i) >= 1
  BY <1>1, <1>3, <1>4, <1>6, CountAtLeast
<1> QED BY <1>7, <1>8 DEF ForPath

LEMMA FlagsOf ==
    ASSUME NEW url, NEW s, NEW b, NEW q, Laid(url, s, b, q), NEW i \in 1 .. Len(url)
    PROVE  /\ ForPath(url, i) <=> i > q
           /\ ForPort(url, i) <=> i \in b + 1 .. q
           /\ ForHost(url, i) <=> i <= q /\ i \in s + 3 .. b
           /\ (Count(url, ":", i) = 0 /\ Count(url, "/", i - 1) < 3) <=> i <= s
<1>0. s \in Nat /\ b \in Nat /\ q \in Nat /\ i \in Nat /\ i > 0 /\ s + 3 <= b /\ b <= q
  BY DEF Laid
<1>1. CASE i > q
  <2>1. i \in q + 1 .. Len(url)
    BY <1>0, <1>1 DEF Laid
  <2>2. ForPath(url, i) /\ Count(url, ":", i) # 0
    BY <2>1, PathIsCounted
  <2> QED BY <1>0, <1>1, <2>2 DEF ForPort, ForHost
<1>2. CASE i <= q
  <2>1. \A j \in 0 .. i : 
           /\ Count(url, "/", j) = IF j < s + 2 THEN 0 ELSE IF j < s + 3 THEN 1 ELSE 2
           /\ Count(url, ":", j) = IF j < s + 1 THEN 0 ELSE IF j < b + 1 THEN 1 ELSE 2
    <3> TAKE j \in 0 .. i
    <3>1. j \in 0 .. q
      BY <1>0, <1>2
    <3> QED BY <3>1, SlashesBefore, ColonsBefore
  <2>2. ~ForPath(url, i)
    BY <1>0, <2>1 DEF ForPath
  <2>3. ForPort(url, i) <=> i >= b + 1
    <3>1. (\E j \in 1 .. i : At(url, j, 2, 2)) <=> \E j \in 1 .. i : j >= b + 1
      BY <1>0, <2>1 DEF At
    <3>2. (\E j \in 1 .. i : j >= b + 1) <=> i >= b + 1
      BY <1>0
    <3> QED BY <2>2, <3>1, <3>2 DEF ForPort
  <2>4. ForHost(url, i) <=> i >= s + 3 /\ i < b + 1
    <3>1. (\E j \in 1 .. i : At(url, j, 2, 1)) <=> \E j \in 1 .. i : j >= s + 3 /\ j < b + 1
      BY <1>0, <2>1 DEF At
    <3>2. i < b + 1 => ((\E j \in 1 .. i : j >= s + 3 /\ j < b + 1) <=> i >= s + 3)
      BY <1>0
    <3> QED BY <1>0, <2>2, <2>3, <3>1, <3>2 DEF ForHost
  <2> QED BY <1>0, <1>2, <2>1, <2>2, <2>3, <2>4
<1> QED BY <1>0, <1>1, <1>2

LEMMA Joined ==
    ASSUME NEW x \in Seq(Token), NEW y \in Seq(Token)
    PROVE  /\ x \o y \in Seq(Token) /\ Len(x \o y) = Len(x) + Len(y)
           /\ Len(x) \in Nat /\ Len(y) \in Nat
           /\ \A i \in 1 .. Len(x) + Len(y) :
                 (x \o y)[i] = IF i <= Len(x) THEN x[i] ELSE y[i - Len(x)]
<1>1. Len(x) \in Nat /\ Len(y) \in Nat
  BY LenProperties
<1> QED BY <1>1, ConcatProperties

(* Whatever the parts, parse_URL finds them again, if they fit the arrays. *)
LEMMA PartsAreFound ==
    ASSUME NEW a \in Urls
    PROVE  /\ SchemeText(Url(a)) = a.scheme /\ HostText(Url(a)) = a.host
           /\ PortText(Url(a)) = a.port /\ PathText(Url(a)) = a.path
<1>a. /\ a.scheme \in Seq(Token) /\ a.host \in Seq(Token) /\ a.port \in Seq(Token)
      /\ a.path \in Seq(Token)
      /\ \A i \in 1 .. Len(a.scheme) : a.scheme[i] \notin {":", "/"}
      /\ \A i \in 1 .. Len(a.host) : a.host[i] \notin {":", "/"}
      /\ \A i \in 1 .. Len(a.port) : a.port[i] \notin {":", "/"}
  <2>1. /\ a.scheme \in Seq(Names) /\ a.host \in Seq(Names) /\ a.port \in Seq(Names)
        /\ a.path \in Seq(Token)
    BY UrlAssumption DEF UrlParts, Part
  <2>2. \A x \in Seq(Names) : x \in Seq(Token)
    BY SeqMonotonic DEF Token
  <2>3. \A x \in Seq(Names) : \A i \in 1 .. Len(x) : x[i] \notin {":", "/"}
    <3> TAKE x \in Seq(Names)
    <3> TAKE i \in 1 .. Len(x)
    <3>1. x[i] \in Names
      BY ElementOfSeq
    <3> QED BY <3>1, UrlAssumption
  <2>4. a.scheme \in Seq(Token) /\ a.host \in Seq(Token) /\ a.port \in Seq(Token)
    BY <2>1, <2>2
  <2>5. /\ \A i \in 1 .. Len(a.scheme) : a.scheme[i] \notin {":", "/"}
        /\ \A i \in 1 .. Len(a.host) : a.host[i] \notin {":", "/"}
        /\ \A i \in 1 .. Len(a.port) : a.port[i] \notin {":", "/"}
    BY <2>1, <2>3, Zenon
  <2> QED BY <2>1, <2>4, <2>5, Zenon
<1>f. a.path # << >> => a.path[1] = "/"
  BY UrlAssumption
<1>b. PICK scheme \in Seq(Token) : scheme = a.scheme
  BY <1>a
<1>c. PICK host \in Seq(Token) : host = a.host
  BY <1>a
<1>d. PICK port \in Seq(Token) : port = a.port
  BY <1>a
<1>e. PICK path \in Seq(Token) : path = a.path
  BY <1>a
<1>1. /\ scheme = a.scheme /\ host = a.host /\ port = a.port /\ path = a.path
      /\ \A i \in 1 .. Len(scheme) : scheme[i] \notin {":", "/"}
      /\ \A i \in 1 .. Len(host) : host[i] \notin {":", "/"}
      /\ \A i \in 1 .. Len(port) : port[i] \notin {":", "/"}
      /\ path # << >> => path[1] = "/"
  BY <1>a, <1>b, <1>c, <1>d, <1>e, <1>f
<1>2. PICK mark \in Seq(Token) : mark = <<":", "/", "/">>
  <2>1. <<":", "/", "/">> \in Seq(Token)
    BY DEF Token
  <2> QED BY <2>1, Zenon
<1>3. PICK colonPort \in Seq(Token) :
         colonPort = IF port = << >> THEN << >> ELSE <<":">> \o port
  <2>1. <<":">> \in Seq(Token) /\ << >> \in Seq(Token)
    BY DEF Token
  <2> QED BY <2>1, Joined
<1>4. PICK s \in Nat : s = Len(scheme)
  BY LenProperties
<1>5. PICK h \in Nat : h = Len(host)
  BY LenProperties
<1>6. PICK p \in Nat : p = Len(port)
  BY LenProperties
<1>7. PICK t \in Nat : t = Len(colonPort)
  BY LenProperties
<1>8. PICK r \in Nat : r = Len(path)
  BY LenProperties
<1>9. PICK q \in Nat : q = s + 3 + h + t
  OBVIOUS
<1>10. PICK x, y, z, url : x = scheme \o mark /\ y = x \o host /\ z = y \o colonPort /\ url = z \o path
  OBVIOUS
<1>11. url = Url(a)
  BY <1>1, <1>2, <1>3, <1>10 DEF Url
<1>12. /\ x \in Seq(Token) /\ Len(x) = s + 3
      /\ \A i \in 1 .. s + 3 : x[i] = IF i <= s THEN scheme[i] ELSE mark[i - (s)]
  <2>1. scheme \in Seq(Token) /\ mark \in Seq(Token) /\ x = scheme \o mark /\ Len(scheme) = s /\ Len(mark) = 3
    BY <1>2, <1>4, <1>10
  <2>2. /\ scheme \o mark \in Seq(Token) /\ Len(scheme \o mark) = Len(scheme) + Len(mark)
        /\ \A i \in 1 .. Len(scheme) + Len(mark) :
              (scheme \o mark)[i] = IF i <= Len(scheme) THEN scheme[i] ELSE mark[i - Len(scheme)]
    BY <2>1, Joined
  <2> QED BY <2>1, <2>2
<1>13. /\ y \in Seq(Token) /\ Len(y) = s + 3 + h
      /\ \A i \in 1 .. s + 3 + h : y[i] = IF i <= s + 3 THEN x[i] ELSE host[i - (s + 3)]
  <2>1. x \in Seq(Token) /\ host \in Seq(Token) /\ y = x \o host /\ Len(x) = s + 3 /\ Len(host) = h
    BY <1>5, <1>10, <1>12
  <2>2. /\ x \o host \in Seq(Token) /\ Len(x \o host) = Len(x) + Len(host)
        /\ \A i \in 1 .. Len(x) + Len(host) :
              (x \o host)[i] = IF i <= Len(x) THEN x[i] ELSE host[i - Len(x)]
    BY <2>1, Joined
  <2> QED BY <2>1, <2>2
<1>14. /\ z \in Seq(Token) /\ Len(z) = s + 3 + h + t
      /\ \A i \in 1 .. s + 3 + h + t : z[i] = IF i <= s + 3 + h THEN y[i] ELSE colonPort[i - (s + 3 + h)]
  <2>1. y \in Seq(Token) /\ colonPort \in Seq(Token) /\ z = y \o colonPort /\ Len(y) = s + 3 + h /\ Len(colonPort) = t
    BY <1>7, <1>10, <1>13
  <2>2. /\ y \o colonPort \in Seq(Token) /\ Len(y \o colonPort) = Len(y) + Len(colonPort)
        /\ \A i \in 1 .. Len(y) + Len(colonPort) :
              (y \o colonPort)[i] = IF i <= Len(y) THEN y[i] ELSE colonPort[i - Len(y)]
    BY <2>1, Joined
  <2> QED BY <2>1, <2>2
<1>15. /\ url \in Seq(Token) /\ Len(url) = q + r
      /\ \A i \in 1 .. q + r : url[i] = IF i <= q THEN z[i] ELSE path[i - (q)]
  <2>1. z \in Seq(Token) /\ path \in Seq(Token) /\ url = z \o path /\ Len(z) = q /\ Len(path) = r
    BY <1>8, <1>9, <1>10, <1>14
  <2>2. /\ z \o path \in Seq(Token) /\ Len(z \o path) = Len(z) + Len(path)
        /\ \A i \in 1 .. Len(z) + Len(path) :
              (z \o path)[i] = IF i <= Len(z) THEN z[i] ELSE path[i - Len(z)]
    BY <2>1, Joined
  <2> QED BY <2>1, <2>2
<1>16. ASSUME NEW i \in 1 .. s PROVE url[i] = scheme[i]
  BY <1>9, <1>12, <1>13, <1>14, <1>15
<1>17. url[s + 1] = ":" /\ url[s + 2] = "/" /\ url[s + 3] = "/"
  <2>1. mark[s + 1 - s] = ":" /\ mark[s + 2 - s] = "/" /\ mark[s + 3 - s] = "/"
    BY <1>2
  <2>2. ASSUME NEW i \in s + 1 .. s + 3 PROVE url[i] = mark[i - s]
    BY <1>9, <1>12, <1>13, <1>14, <1>15
  <2> QED BY <2>1, <2>2
<1>18. ASSUME NEW i \in s + 4 .. s + 3 + h PROVE url[i] = host[i - (s + 3)]
  <2>1. url[i] = y[i]
    <3>1. i \in 1 .. q + r /\ i <= q /\ i \in 1 .. s + 3 + h + t /\ i <= s + 3 + h
      BY <1>9
    <3>2. url[i] = IF i <= q THEN z[i] ELSE path[i - (q)]
      BY <1>15, <3>1, Zenon
    <3>3. z[i] = IF i <= s + 3 + h THEN y[i] ELSE colonPort[i - (s + 3 + h)]
      BY <1>14, <3>1, Zenon
    <3> QED BY <3>1, <3>2, <3>3, Zenon
  <2>2. i \in 1 .. s + 3 + h /\ ~(i <= s + 3)
    OBVIOUS
  <2>3. y[i] = IF i <= s + 3 THEN x[i] ELSE host[i - (s + 3)]
    BY <1>13, <2>2, Zenon
  <2> QED BY <2>1, <2>2, <2>3, Zenon
<1>19. ASSUME NEW i \in s + 4 + h .. q PROVE url[i] = colonPort[i - (s + 3 + h)]
  <2>1. url[i] = z[i]
    <3>1. i \in 1 .. q + r /\ i <= q
      BY <1>9
    <3>2. url[i] = IF i <= q THEN z[i] ELSE path[i - (q)]
      BY <1>15, <3>1, Zenon
    <3> QED BY <3>1, <3>2, Zenon
  <2>2. i \in 1 .. s + 3 + h + t /\ ~(i <= s + 3 + h)
    BY <1>9
  <2>3. z[i] = IF i <= s + 3 + h THEN y[i] ELSE colonPort[i - (s + 3 + h)]
    BY <1>14, <2>2, Zenon
  <2> QED BY <2>1, <2>2, <2>3, Zenon
<1>20. ASSUME NEW i \in q + 1 .. q + r PROVE url[i] = path[i - q]
  BY <1>15
<1>21. t = IF port = << >> THEN 0 ELSE 1 + p
  BY <1>3, <1>6, <1>7
<1>22. port # << >> => /\ url[s + 4 + h] = ":"
                       /\ \A i \in s + 5 + h .. q : url[i] = port[i - (s + 4 + h)]
  <2> SUFFICES ASSUME port # << >>
               PROVE  /\ url[s + 4 + h] = ":"
                      /\ \A i \in s + 5 + h .. q : url[i] = port[i - (s + 4 + h)]
    OBVIOUS
  <2>1. <<":">> \in Seq(Token) /\ Len(<<":">>) = 1 /\ <<":">>[1] = ":"
    BY DEF Token
  <2>2. \A i \in 1 .. 1 + p : colonPort[i] = IF i <= 1 THEN <<":">>[i] ELSE port[i - 1]
    BY <1>3, <1>6, <2>1, Joined
  <2>3. url[s + 4 + h] = ":"
    <3>1. s + 4 + h \in s + 4 + h .. q /\ s + 4 + h - (s + 3 + h) = 1 /\ 1 \in 1 .. 1 + p
      BY <1>9, <1>21
    <3> QED BY <1>19, <2>1, <2>2, <3>1
  <2>4. ASSUME NEW i \in s + 5 + h .. q PROVE url[i] = port[i - (s + 4 + h)]
    <3>1. /\ i \in s + 4 + h .. q /\ i - (s + 3 + h) \in 1 .. 1 + p /\ ~(i - (s + 3 + h) <= 1)
          /\ i - (s + 3 + h) - 1 = i - (s + 4 + h)
      BY <1>9, <1>21
    <3> QED BY <1>19, <2>2, <3>1
  <2> QED BY <2>3, <2>4
<1>23. ASSUME NEW j \in 1 .. q
       PROVE  /\ url[j] = ":" <=> j \in {s + 1, s + 4 + h}
              /\ url[j] = "/" <=> j \in {s + 2, s + 3}
  <2>1. CASE j \in 1 .. s
    <3>1. url[j] \notin {":", "/"}
      BY <1>1, <1>4, <1>16, <2>1
    <3> QED BY <2>1, <3>1
  <2>2. CASE j \in s + 1 .. s + 3
    <3>1. j = s + 1 \/ j = s + 2 \/ j = s + 3
      BY <2>2
    <3> QED BY <1>17, <3>1
  <2>3. CASE j \in s + 4 .. s + 3 + h
    <3>1. url[j] = host[j - (s + 3)] /\ j - (s + 3) \in 1 .. h
      BY <1>18, <2>3
    <3>2. url[j] \notin {":", "/"}
      BY <1>1, <1>5, <3>1
    <3> QED BY <2>3, <3>2
  <2>4. CASE j = s + 4 + h
    <3>1. port # << >>
      BY <1>9, <1>21, <2>4
    <3> QED BY <1>22, <2>4, <3>1
  <2>5. CASE j \in s + 5 + h .. q
    <3>1. port # << >> /\ j - (s + 4 + h) \in 1 .. p
      BY <1>9, <1>21, <2>5
    <3>2. url[j] = port[j - (s + 4 + h)]
      BY <1>22, <2>5, <3>1
    <3>3. url[j] \notin {":", "/"}
      BY <1>1, <1>6, <3>1, <3>2
    <3> QED BY <2>5, <3>3
  <2> QED BY <2>1, <2>2, <2>3, <2>4, <2>5
<1>24. q < Len(url) => url[q + 1] = "/"
  <2> SUFFICES ASSUME q < Len(url) PROVE url[q + 1] = "/"
    OBVIOUS
  <2>1. q + 1 \in q + 1 .. q + r /\ q + 1 - q = 1 /\ path # << >>
    BY <1>8, <1>15
  <2> QED BY <1>1, <1>20, <2>1
<1>25. Len(url) = q + r /\ DOMAIN url = 1 .. q + r
  BY <1>15, LenProperties
<1>g. PICK b \in Nat : b = s + 3 + h
  OBVIOUS
<1>26. Laid(url, s, b, q)
  BY <1>9, <1>g, <1>23, <1>24, <1>25 DEF Laid
<1>27. Holds(url, 0, scheme) /\ Holds(url, s + 3, host) /\ Holds(url, q, path)
  <2>1. Holds(url, 0, scheme)
    BY <1>4, <1>16 DEF Holds
  <2>2. Holds(url, s + 3, host)
    BY <1>5, <1>18 DEF Holds
  <2>3. Holds(url, q, path)
    BY <1>8, <1>20 DEF Holds
  <2> QED BY <2>1, <2>2, <2>3
<1>28. /\ SchemeText(url) = Taken(url, 1 .. s)
       /\ HostText(url) = Taken(url, s + 4 .. b)
       /\ PortText(url) = Taken(url, b + 2 .. q)
       /\ PathText(url) = Taken(url, q + 1 .. q + r)
  <2>1. \A i \in 1 .. Len(url) :
           /\ ForPath(url, i) <=> i > q
           /\ ForPort(url, i) <=> i \in b + 1 .. q
           /\ ForHost(url, i) <=> i <= q /\ i \in s + 3 .. b
           /\ (Count(url, ":", i) = 0 /\ Count(url, "/", i - 1) < 3) <=> i <= s
    BY <1>26, FlagsOf
  <2>2. /\ \A j \in 1 .. q : url[j] = ":" <=> j \in {s + 1, b + 1}
        /\ \A j \in 1 .. q : url[j] = "/" <=> j \in {s + 2, s + 3}
        /\ s + 3 <= b /\ b <= q
    BY <1>26 DEF Laid
  <2>3. \A i \in 1 .. Len(url) : ForHost(url, i) /\ url[i] # "/" <=> i \in s + 4 .. b
    BY <1>25, <2>1, <2>2
  <2>4. \A i \in 1 .. Len(url) : ForPort(url, i) /\ url[i] # ":" <=> i \in b + 2 .. q
    BY <1>25, <2>1, <2>2
  <2>5. {i \in DOMAIN url : Count(url, ":", i) = 0 /\ Count(url, "/", i - 1) < 3} = 1 .. s
    BY <1>25, <2>1, <2>2
  <2>6. {i \in DOMAIN url : ForHost(url, i) /\ url[i] # "/"} = s + 4 .. b
    BY <1>25, <2>2, <2>3
  <2>7. {i \in DOMAIN url : ForPort(url, i) /\ url[i] # ":"} = b + 2 .. q
    BY <1>25, <2>2, <2>4
  <2>8. {i \in DOMAIN url : ForPath(url, i)} = q + 1 .. q + r
    BY <1>25, <2>1
  <2> QED BY <2>5, <2>6, <2>7, <2>8 DEF SchemeText, HostText, PortText, PathText
<1>29. Taken(url, 1 .. s) = scheme
  BY <1>4, <1>27, TakenInterval
<1>30. Taken(url, s + 4 .. b) = host
  BY <1>5, <1>27, <1>g, TakenInterval
<1>31. Taken(url, q + 1 .. q + r) = path
  BY <1>8, <1>27, TakenInterval
<1>32. Taken(url, b + 2 .. q) = port
  <2>1. CASE port = << >>
    <3>1. b + 2 .. q = {}
      BY <1>9, <1>g, <1>21, <2>1
    <3>2. Taken(url, {}) = << >>
      BY FS_EmptySet DEF Taken
    <3> QED BY <2>1, <3>1, <3>2
  <2>2. CASE port # << >>
    <3>1. q = b + 1 + p
      BY <1>9, <1>21, <2>2, <1>g
    <3>2. Holds(url, b + 1, port)
      BY <1>6, <1>g, <1>22, <2>2, <3>1 DEF Holds
    <3> QED BY <1>6, <3>1, <3>2, TakenInterval
  <2> QED BY <2>1, <2>2
<1> QED BY <1>1, <1>11, <1>28, <1>29, <1>30, <1>31, <1>32

(***************************************************************************)
(* What the client has made of the command line stays as it is.            *)
(***************************************************************************)
ParsedInv ==
    /\ program \in {"hw3", "hw5"} /\ asked \in Urls
    /\ (pc # "parse" /\ program = "hw3") =>
          parsed = ParseHttp(Url(asked)) /\ request = Message(parsed)
    /\ (pc # "parse" /\ program = "hw5") =>
          parsed = ParseAny(Url(asked)) /\ request = ClosingMessage(parsed)
    /\ (pc \notin {"parse", "done"} /\ program = "hw5") =>
          parsed.scheme \in {<<"http">>, <<"https">>}

LEMMA InitParsedInv == Init => ParsedInv
BY DEF Init, ParsedInv

LEMMA StepKeepsParsedInv == ParsedInv /\ [Next]_vars => ParsedInv'
<1> SUFFICES ASSUME ParsedInv, [Next]_vars PROVE ParsedInv'
  OBVIOUS
<1>1. CASE MainHttp
  BY <1>1 DEF MainHttp, ParsedInv
<1>2. CASE MainAny
  BY <1>2 DEF MainAny, ParsedInv
<1>3. ASSUME pc # "parse" /\ pc' # "parse", pc = "done" => pc' = "done",
             UNCHANGED <<program, asked, parsed, request>>
      PROVE  ParsedInv'
  BY <1>3 DEF ParsedInv
<1>4. CASE Connect
  BY <1>3, <1>4 DEF Connect, ConnectToServer, NoContext, NoConnection, ConnectTls, Connected
<1>5. CASE SendSome \/ PutAll \/ WriteFails \/ ReadFails
  BY <1>3, <1>5 DEF SendSome, PutAll, Written, WriteFails, ReadFails
<1>6. CASE ServerAnswers \/ UNCHANGED vars
  BY <1>6 DEF ServerAnswers, ParsedInv
<1>7. CASE Read
  <2>1. pc = "read" /\ pc' \in {"read", "done", "thrown"} /\ program' = program
    BY <1>7 DEF Read, Receive, HeaderTooLarge, MoreHeader, FindLength, FirstBody, HeaderComplete,
                CountedBody, Body, Piece, EndOfStream
  <2> QED BY <1>3, <1>7, <2>1 DEF Read
<1> QED BY <1>1, <1>2, <1>4, <1>5, <1>6, <1>7, StepCases

LEMMA ParsedInvHolds == Spec => []ParsedInv
BY InitParsedInv, StepKeepsParsedInv, PTL DEF Spec

(* The server is asked for the URL the user gave, whatever its parts, if   *)
(* each of them fits the array it is copied into (UrlAssumption).          *)
THEOREM ServerIsAskedForUrl == Spec => []AsksForUrl
<1>1. ParsedInv => AsksForUrl
  <2> SUFFICES ASSUME ParsedInv, pc \notin {"parse", "done"}
               PROVE  /\ request.host = asked.host
                      /\ request.path = PathOrRoot(asked.path)
                      /\ request.port = IF asked.port # << >> THEN asked.port
                           ELSE IF program = "hw5" /\ asked.scheme = <<"https">> THEN <<"443">>
                           ELSE <<"80">>
    BY DEF AsksForUrl
  <2>1. /\ SchemeText(Url(asked)) = asked.scheme /\ HostText(Url(asked)) = asked.host
        /\ PortText(Url(asked)) = asked.port /\ PathText(Url(asked)) = asked.path
    BY PartsAreFound DEF ParsedInv
  <2>2. CASE program = "hw3"
    BY <2>1, <2>2 DEF ParsedInv, ParseHttp, Message
  <2>3. CASE program = "hw5"
    <3>1. /\ parsed.host = asked.host /\ parsed.path = asked.path /\ parsed.scheme = asked.scheme
          /\ parsed.port = IF asked.port # << >> THEN asked.port
                           ELSE CASE asked.scheme = <<"http">> -> <<"80">>
                                  [] asked.scheme = <<"https">> -> <<"443">>
                                  [] OTHER -> << >>
      BY <2>1, <2>3 DEF ParsedInv, ParseAny
    <3>2. /\ request.host = parsed.host /\ request.path = PathOrRoot(parsed.path)
          /\ request.port = parsed.port
      BY <2>3 DEF ParsedInv, ClosingMessage
    <3>3. asked.scheme \in {<<"http">>, <<"https">>}
      BY <2>3, <3>1 DEF ParsedInv
    <3>4. <<"http">> # <<"https">>
      OBVIOUS
    <3>5. request.port = IF asked.port # << >> THEN asked.port
                         ELSE IF program = "hw5" /\ asked.scheme = <<"https">> THEN <<"443">>
                         ELSE <<"80">>
      <4>1. CASE asked.port # << >>
        BY <3>1, <3>2, <4>1
      <4>2. CASE asked.port = << >> /\ asked.scheme = <<"http">>
        BY <2>3, <3>1, <3>2, <3>4, <4>2
      <4>3. CASE asked.port = << >> /\ asked.scheme = <<"https">>
        BY <2>3, <3>1, <3>2, <3>4, <4>3
      <4> QED BY <3>3, <4>1, <4>2, <4>3
    <3> QED BY <3>1, <3>2, <3>5
  <2> QED BY <2>2, <2>3 DEF ParsedInv
<1> QED BY <1>1, ParsedInvHolds, PTL

(* What is asked for by https goes to nobody but a server whose verified   *)
(* certificate names the host of the URL.                                  *)
THEOREM UrlHostIsCertified == Spec => []ChecksCertificate
<1>1. Init => VerifiedInv
  BY DEF Init, VerifiedInv, Https
<1>2. VerifiedInv /\ ParsedInv => ChecksCertificate
  <2> SUFFICES ASSUME VerifiedInv, ParsedInv,
                      program = "hw5", asked.scheme = <<"https">>, delivered > 0
               PROVE  certificate.verified /\ asked.host \in certificate.names
    BY DEF ChecksCertificate
  <2>1. pc # "parse" /\ delivered # 0
    BY DEF VerifiedInv
  <2>2. parsed.host = asked.host /\ parsed.scheme = asked.scheme
    BY <2>1, PartsAreFound DEF ParsedInv, ParseAny
  <2> QED BY <2>1, <2>2 DEF VerifiedInv, HostIsVerified, Https
<1> QED BY <1>1, <1>2, StepKeepsVerifiedInv, ParsedInvHolds, PTL DEF Spec
=============================================================================
