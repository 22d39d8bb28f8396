------------------------------ MODULE UrlParse ------------------------------
(***************************************************************************)
(* parse_URL and generate_message of the two HTTP clients, 3/main.cpp      *)
(* (HW3) and 5/main.cpp with 5/Connection.cpp (HW5).                       *)
(*                                                                         *)
(* A URL is a sequence of tokens: colons, slashes, and names that have     *)
(* neither.  The loop treats all characters of a name alike, and what it   *)
(* does with one depends on the colons and slashes counted so far only.    *)
(***************************************************************************)
EXTENDS Naturals, Sequences, FiniteSets

(* colon_counter and back_slash_counter after i characters.                *)
Count(url, ch, i) == Cardinality({j \in 1 .. i : url[j] = ch})

At(url, i, slashes, colons) ==
    Count(url, "/", i) = slashes /\ Count(url, ":", i) = colons

(* for_path, for_port and for_host at the i-th character.                  *)
ForPath(url, i) == Count(url, "/", i) >= 3
ForPort(url, i) == ~ForPath(url, i) /\ \E j \in 1 .. i : At(url, j, 2, 2)
ForHost(url, i) == /\ ~ForPath(url, i) /\ ~ForPort(url, i)
                   /\ \E j \in 1 .. i : At(url, j, 2, 1)

(* The characters at the places in S, in their order.                      *)
Taken(url, S) ==
    [n \in 1 .. Cardinality(S) |->
        url[CHOOSE i \in S : Cardinality({j \in S : j <= i}) = n]]

(* Mutant of PathText: the fourth slash is taken for a second third one.   *)
PathTextToSlash(url) ==
    Taken(url, {i \in DOMAIN url : Count(url, "/", i) = 3})

HostText(url) == Taken(url, {i \in DOMAIN url : ForHost(url, i) /\ url[i] # "/"})
PortText(url) == Taken(url, {i \in DOMAIN url : ForPort(url, i) /\ url[i] # ":"})
PathText(url) == Taken(url, {i \in DOMAIN url : ForPath(url, i)})

(* HW5 collects the scheme as well, until a flag is set, but skips colons; *)
(* the place of the first is left zero and ends the text.                  *)
SchemeText(url) ==
    Taken(url, {i \in DOMAIN url : Count(url, ":", i) = 0 /\ Count(url, "/", i - 1) < 3})

(* HW3: the scheme is not looked at.                                       *)
ParseHttp(url) ==
    [scheme |-> << >>, host |-> HostText(url), path |-> PathText(url),
     port |-> IF PortText(url) = << >> THEN <<"80">> ELSE PortText(url)]

(* HW5: the default port depends on the scheme.                            *)
ParseAny(url) ==
    [scheme |-> SchemeText(url), host |-> HostText(url), path |-> PathText(url),
     port |-> IF PortText(url) # << >> THEN PortText(url)
              ELSE CASE SchemeText(url) = <<"http">> -> <<"80">>
                     [] SchemeText(url) = <<"https">> -> <<"443">>
                     [] OTHER -> << >>]

(* The request.  HW3 asks nothing about the connection, HW5 asks the       *)
(* server to close it after the answer.                                    *)
PathOrRoot(path) == IF path = << >> THEN <<"/">> ELSE path

Message(u) == [path |-> PathOrRoot(u.path), host |-> u.host, port |-> u.port, close |-> FALSE]

ClosingMessage(u) == [path |-> PathOrRoot(u.path), host |-> u.host, port |-> u.port, close |-> TRUE]
=============================================================================
