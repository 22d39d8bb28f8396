------------------------------ MODULE HttpRead ------------------------------
(***************************************************************************)
(* How the HTTP clients take a response from the pieces of a byte stream:  *)
(* recv_print of 3/main.cpp (HW3) and Connection::read of                  *)
(* 5/Connection.cpp (HW5), which differ in one thing: HW3 stops after      *)
(* Content-Length bytes of body, HW5 at the end of the stream.             *)
(*                                                                         *)
(* A byte is named by its place in the response: 1 .. head is the header   *)
(* with its empty line, the rest the body.                                 *)
(***************************************************************************)
EXTENDS Integers, Sequences

CONSTANTS HeaderLimit,   \* HEADER_LIMIT, the size of the header buffer
          PieceMax,      \* N_MESSAGE, the size of the receive buffer
          Answers,       \* the answers a server may give
          NoLength,      \* no Content-Length header
          NoAnswer       \* the server has not answered

(* A response, how much of it the server sends, and what becomes of the    *)
(* connection then.  The length a header declares is that of the body.     *)
Answer == [head : Nat \ {0}, body : Nat, length : Nat \cup {NoLength}, sent : Nat,
           ends : {"open", "closed", "reset"}]

ASSUME ReadAssumption ==
    /\ HeaderLimit \in Nat \ {0}
    /\ PieceMax \in Nat \ {0}
    /\ NoLength \notin Nat
    /\ Answers \subseteq Answer
    /\ NoAnswer \notin Answers
    /\ \A a \in Answers : /\ a.length \in {a.body, NoLength}
                          /\ a.sent <= a.head + a.body
                          /\ a.ends = "open" => a.sent = a.head + a.body

VARIABLES program,       \* "hw3" or "hw5"
          pc,            \* how far main is
          answer,        \* what the server answers
          received,      \* bytes taken from the connection
          headerSize,    \* header_size
          headerFound,   \* headerfound
          toGo,          \* recv_length
          out            \* the bytes written to standard output

readVars == <<answer, received, headerSize, headerFound, toGo, out>>

ReadTypeOK == /\ answer \in Answers \cup {NoAnswer}
              /\ received \in Nat
              /\ headerSize \in 0 .. HeaderLimit - 1
              /\ headerFound \in BOOLEAN
              /\ toGo \in Nat
              /\ out \in Seq(Nat)

ReadInit == /\ answer = NoAnswer
            /\ received = 0
            /\ headerSize = 0
            /\ headerFound = FALSE
            /\ toGo = 0
            /\ out = << >>

-----------------------------------------------------------------------------
Bytes(from, n) == [i \in 1 .. n |-> from + i]

Fwrite(from, n) == out' = out \o Bytes(from, n)

(* recv or BIO_read returns n bytes.                                       *)
Piece(n) ==
    /\ pc = "read"
    /\ answer # NoAnswer
    /\ n \in 1 .. PieceMax
    /\ received + n <= answer.sent
    /\ received' = received + n
    /\ UNCHANGED <<program, answer>>

(* Mutants of Fits: one byte too many; the piece counted twice.            *)
FitsExactly(n) == headerSize + n <= HeaderLimit
FitsTwice(n) == headerSize + n + n < HeaderLimit

(* The header buffer must stay terminated: contain_header stops at a zero. *)
Fits(n) == headerSize + n < HeaderLimit

HeaderTooLarge(n) ==
    /\ Piece(n)
    /\ ~headerFound
    /\ ~Fits(n)
    /\ pc' = "thrown"
    /\ UNCHANGED <<headerSize, headerFound, toGo, out>>

ContainHeader(size) == size >= answer.head

MoreHeader(n) ==
    /\ Piece(n)
    /\ ~headerFound
    /\ Fits(n)
    /\ ~ContainHeader(headerSize + n)
    /\ headerSize' = headerSize + n
    /\ UNCHANGED <<pc, headerFound, toGo, out>>

(* The empty line has been found.  Body bytes that came in the same piece  *)
(* are in the header buffer and are printed from there.                    *)
HeaderComplete(n) ==
    /\ Piece(n)
    /\ ~headerFound
    /\ Fits(n)
    /\ ContainHeader(headerSize + n)
    /\ headerSize' = headerSize + n
    /\ headerFound' = TRUE

(* Mutant of FindLength: the bytes printed are not subtracted.             *)
FindLengthWhole(n) ==
    /\ program = "hw3"
    /\ HeaderComplete(n)
    /\ IF answer.length = NoLength
         THEN pc' = "thrown" /\ UNCHANGED <<toGo, out>>
         ELSE /\ Fwrite(answer.head, headerSize' - answer.head)
              /\ toGo' = answer.length
              /\ UNCHANGED pc

(* HW3 cannot do without a length.                                         *)
FindLength(n) ==
    /\ program = "hw3"
    /\ HeaderComplete(n)
    /\ IF answer.length = NoLength
         THEN pc' = "thrown" /\ UNCHANGED <<toGo, out>>
         ELSE /\ Fwrite(answer.head, headerSize' - answer.head)
              /\ toGo' = answer.length - (headerSize' - answer.head)
              /\ UNCHANGED pc

(* Mutant of FirstBody: the header buffer is printed from its beginning.   *)
FirstBodyWithHeader(n) ==
    /\ program = "hw5"
    /\ HeaderComplete(n)
    /\ Fwrite(0, headerSize')
    /\ UNCHANGED <<pc, toGo>>

FirstBody(n) ==
    /\ program = "hw5"
    /\ HeaderComplete(n)
    /\ Fwrite(answer.head, headerSize' - answer.head)
    /\ UNCHANGED <<pc, toGo>>

(* Mutant of CountedBody: the last piece is not printed.                   *)
CountedBodyLess(n) ==
    /\ program = "hw3"
    /\ headerFound
    /\ Piece(n)
    /\ IF toGo > n THEN /\ Fwrite(received, n)
                        /\ toGo' = toGo - n
                        /\ UNCHANGED pc
                   ELSE pc' = "done" /\ UNCHANGED <<toGo, out>>
    /\ UNCHANGED <<headerSize, headerFound>>

(* HW3's body: the last piece ends the loop without another recv.          *)
CountedBody(n) ==
    /\ program = "hw3"
    /\ headerFound
    /\ Piece(n)
    /\ IF toGo > n THEN /\ Fwrite(received, n)
                        /\ toGo' = toGo - n
                        /\ UNCHANGED pc
                   ELSE /\ Fwrite(received, toGo)
                        /\ pc' = "done"
                        /\ UNCHANGED toGo
    /\ UNCHANGED <<headerSize, headerFound>>

Body(n) ==
    /\ program = "hw5"
    /\ headerFound
    /\ Piece(n)
    /\ Fwrite(received, n)
    /\ UNCHANGED <<pc, headerSize, headerFound, toGo>>

(* recv or BIO_read returns 0 or less: everything was taken and the server *)
(* has closed, or the connection was reset, which may overtake data.       *)
EndOfStream ==
    /\ pc = "read"
    /\ answer # NoAnswer
    /\ \/ answer.ends = "closed" /\ received = answer.sent
       \/ answer.ends = "reset"
    /\ pc' = "done"
    /\ UNCHANGED <<program, readVars>>

Receive == \/ \E n \in 1 .. PieceMax : \/ HeaderTooLarge(n) \/ MoreHeader(n)
                                       \/ FindLength(n) \/ FirstBody(n)
                                       \/ CountedBody(n) \/ Body(n)
           \/ EndOfStream
=============================================================================
