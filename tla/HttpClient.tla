----------------------------- MODULE HttpClient -----------------------------
(***************************************************************************)
(* The HTTP client of HW3 (3/main.cpp) and the HTTP and HTTPS client of    *)
(* HW5 (5/main.cpp, 5/Connection.cpp): main from the URL to the last byte  *)
(* printed, the connection, and the server at its other end.               *)
(*                                                                         *)
(* HW5 goes on with a connection it has given up: after a failed           *)
(* certificate check the BIO is freed, then written to, read from and      *)
(* freed again; without a context the pointer was never set.  What such a  *)
(* call does is undefined: it fails, or it kills the program.              *)
(***************************************************************************)
EXTENDS HttpRead, UrlParse

CONSTANTS Names,         \* texts without a colon or a slash
          Size,          \* name -> how many characters it has
          Urls,          \* the parts of the URLs the user may give
          Certificates,  \* the certificates a server may show
          RequestSize    \* a request, in the units send() may split it into

ASSUME ClientAssumption == RequestSize \in Nat \ {0} /\ Size \in [Names -> Nat \ {0}]

(* A URL has a scheme, a host and perhaps a port, each a name, and a path  *)
(* of anything, if it begins with a slash or is empty.  (A host with an    *)
(* address in brackets is not one the programs know.)                      *)
(*                                                                         *)
(* The programs copy each part into an array of N characters and never ask *)
(* how long it is.  What a longer part does is undefined: only URLs whose  *)
(* parts fit, with the zero behind them, are considered.  HW5 writes the   *)
(* two slashes behind the scheme, too.                                     *)
N == 80

Characters(text) ==
    LET characters[n \in 0 .. Len(text)] ==
            IF n = 0 THEN 0
            ELSE characters[n - 1] + (IF text[n] \in Names THEN Size[text[n]] ELSE 1)
    IN  characters[Len(text)]

FitsArrays(a) == /\ Characters(a.scheme) + 2 < N
                 /\ \A part \in {a.host, a.port, a.path} : Characters(part) < N

Token == Names \cup {":", "/"}
Part == {text \in Seq(Names) : Len(text) <= 1}
UrlParts == [scheme : Part, host : Part, port : Part, path : Seq(Token)]

ASSUME UrlAssumption ==
    /\ Names \cap {":", "/"} = {}
    /\ Urls \subseteq {a \in UrlParts : /\ a.path # << >> => a.path[1] = "/"
                                      /\ FitsArrays(a)}

VARIABLES asked,         \* the parts of the URL in argv[1]
          parsed,        \* host, port, path and scheme
          request,       \* message
          conn,          \* sockfd or conn
          certificate,   \* history: what the server has shown
          delivered      \* how much of the request has gone out

clientVars == <<asked, parsed, request, conn, certificate, delivered>>
vars == <<program, pc, readVars, clientVars>>

Working == {"connected", "open"}
Dangling == {"garbage", "freed"}

TypeOK == /\ ReadTypeOK
          /\ program \in {"hw3", "hw5"}
          /\ pc \in {"parse", "connect", "write", "read", "done", "thrown", "killed"}
          /\ asked \in Urls
          /\ conn \in Working \cup Dangling \cup {"none", "unconnected", "null"}
          /\ delivered \in 0 .. RequestSize

Init == /\ ReadInit
        /\ program \in {"hw3", "hw5"}
        /\ pc = "parse"
        /\ asked \in Urls
        /\ parsed = [scheme |-> << >>, host |-> << >>, port |-> << >>, path |-> << >>]
        /\ request = Message(parsed)
        /\ conn = "none"
        /\ certificate = [verified |-> FALSE, names |-> {}]
        /\ delivered = 0

-----------------------------------------------------------------------------
(* The text of a URL.                                                      *)
Url(a) == a.scheme \o <<":", "/", "/">> \o a.host
          \o (IF a.port = << >> THEN << >> ELSE <<":">> \o a.port) \o a.path

MainHttp ==
    /\ program = "hw3"
    /\ pc = "parse"
    /\ parsed' = ParseHttp(Url(asked))
    /\ request' = Message(parsed')
    /\ pc' = "connect"
    /\ UNCHANGED <<program, readVars, asked, conn, certificate, delivered>>

(* HW5 does nothing for a scheme it does not know.                         *)
MainAny ==
    /\ program = "hw5"
    /\ pc = "parse"
    /\ parsed' = ParseAny(Url(asked))
    /\ request' = ClosingMessage(parsed')
    /\ pc' = IF parsed'.scheme \in {<<"http">>, <<"https">>} THEN "connect" ELSE "done"
    /\ UNCHANGED <<program, readVars, asked, conn, certificate, delivered>>

Https == program = "hw5" /\ parsed.scheme = <<"https">>

Connected(outcome) ==
    /\ pc = "connect"
    /\ pc' = "write"
    /\ conn' = outcome
    /\ UNCHANGED <<program, readVars, asked, parsed, request, delivered>>

(* connect_to_server returns nothing, so main goes on whatever happened:   *)
(* no socket, no address or none that answers, or a connection.            *)
ConnectToServer ==
    /\ ~Https
    /\ \E outcome \in {"none", "unconnected", "connected"} : Connected(outcome)
    /\ UNCHANGED certificate

(* create_ssl_context failed: conn is never assigned.                      *)
NoContext == Https /\ Connected("garbage") /\ UNCHANGED certificate

(* open_ssl_connection: SSL_VERIFY_PEER lets no handshake succeed with a   *)
(* certificate that is not verified.                                       *)
NoConnection == Https /\ Connected("null") /\ UNCHANGED certificate

(* Mutant of CheckCertificate: any name will do.                           *)
CheckCertificateOnly(c) == c.verified

(* check_certificate: one of the subject's common names is the host.       *)
CheckCertificate(c) == c.verified /\ parsed.host \in c.names

(* The other tests of check_certificate may fail for reasons of their own. *)
ConnectTls ==
    /\ Https
    /\ \E c \in Certificates :
          /\ c.verified
          /\ certificate' = c
          /\ \/ CheckCertificate(c) /\ Connected("open")
             \/ Connected("freed")

-----------------------------------------------------------------------------
Written(n) ==
    /\ pc = "write"
    /\ delivered' = delivered + n
    /\ pc' = IF delivered' = RequestSize THEN "read" ELSE pc
    /\ UNCHANGED <<program, readVars, asked, parsed, request, conn, certificate>>

(* One pass of the loop of send_all: send() takes some of what is left.    *)
SendSome == conn = "connected" /\ \E n \in 1 .. RequestSize - delivered : Written(n)

(* BIO_puts on an open connection.                                         *)
PutAll == conn = "open" /\ Written(RequestSize)

(* send() or BIO_puts fails, on a connection that is not or no longer one; *)
(* main reads all the same.  Writing to a socket without a connection      *)
(* raises SIGPIPE on some systems.                                         *)
WriteFails ==
    /\ pc = "write"
    /\ pc' \in (IF conn \in Dangling \cup {"connected", "unconnected"}
                  THEN {"read", "killed"} ELSE {"read"})
    /\ conn' = IF conn \in Working THEN "unconnected" ELSE conn
    /\ UNCHANGED <<program, readVars, asked, parsed, request, certificate, delivered>>

(* recv or BIO_read fails at once, and the destructor may free a second    *)
(* time.                                                                   *)
ReadFails ==
    /\ pc = "read"
    /\ conn \notin Working
    /\ pc' \in (IF conn \in Dangling THEN {"done", "killed"} ELSE {"done"})
    /\ UNCHANGED <<program, readVars, clientVars>>

Read == /\ conn \in Working
        /\ Receive
        /\ UNCHANGED clientVars

(* The server answers a whole request, and keeps the connection only if it *)
(* was not asked to close it.                                              *)
ServerAnswers ==
    /\ delivered = RequestSize
    /\ answer = NoAnswer
    /\ answer' \in {a \in Answers : request.close => a.ends # "open"}
    /\ UNCHANGED <<program, pc, received, headerSize, headerFound, toGo, out, clientVars>>

Connect == ConnectToServer \/ NoContext \/ NoConnection \/ ConnectTls
Client == MainHttp \/ MainAny \/ Connect \/ SendSome \/ PutAll \/ WriteFails \/ ReadFails \/ Read

Next == Client \/ ServerAnswers

Spec == Init /\ [][Next]_vars

(* The client goes on; a server that has a whole request answers it.       *)
LiveSpec == Spec /\ WF_vars(Client) /\ WF_vars(ServerAnswers)

-----------------------------------------------------------------------------
(* parse_URL finds the parts again, if they fit the arrays, whatever else  *)
(* they are: an empty path, a path with colons and slashes of its own, a   *)
(* port or none.  The server is asked for what the user has asked for.     *)
AsksForUrl ==
    pc \notin {"parse", "done"} =>
        /\ request.host = asked.host
        /\ request.path = PathOrRoot(asked.path)
        /\ request.port = IF asked.port # << >> THEN asked.port
                          ELSE IF program = "hw5" /\ asked.scheme = <<"https">> THEN <<"443">>
                          ELSE <<"80">>

(* Though HW5 goes on after every failure, what is asked for by https goes *)
(* to nobody but a server whose verified certificate names the host.       *)
ChecksCertificate ==
    (program = "hw5" /\ asked.scheme = <<"https">> /\ delivered > 0) =>
        certificate.verified /\ asked.host \in certificate.names

(* However the stream is cut into pieces, the output is the body from its  *)
(* beginning: nothing of the header, nothing twice, nothing left out.      *)
OutputIsBody ==
    IF answer = NoAnswer THEN out = << >>
    ELSE Len(out) <= answer.body /\ out = Bytes(answer.head, Len(out))

(* A client that ends by itself has printed the whole body, if the server  *)
(* sent it all and did not break the connection.                           *)
OutputIsWhole ==
    (pc = "done" /\ answer # NoAnswer /\ answer.ends # "reset"
        /\ answer.sent = answer.head + answer.body) => Len(out) = answer.body

(* The limit is meant for headers larger than 8K.  It also hits smaller    *)
(* ones, as body that comes with the header counts, but none that leaves   *)
(* room for a piece.  HW3 also refuses a response without a length.        *)
RefusesOnlyLarge ==
    pc = "thrown" => \/ answer.head + PieceMax > HeaderLimit
                     \/ program = "hw3" /\ answer.length = NoLength

(* The client ends if the server answers, with one exception: HW3 has all  *)
(* of the body when the header is complete, waits for more, and the server *)
(* keeps the connection.  (3/main.cpp:273, "no need to wait", is not       *)
(* reached then.)                                                          *)
ClientEnds ==
    <>(\/ pc \in {"done", "thrown", "killed"}
       \/ /\ program = "hw3" /\ headerFound /\ toGo = 0
          /\ received = answer.sent /\ answer.ends = "open")
=============================================================================
