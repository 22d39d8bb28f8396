--------------------------- MODULE MCHttpClient ---------------------------
(* An instance of HttpClient for TLC.                                      *)
EXTENDS HttpClient

Hosts == {<<"rpi">>, <<"cnn">>}
NameSizes == [n \in Names |-> Len(n)]

Paths == {<< >>, <<"/">>, <<"/", "a", ":", "/", "b">>}

SomeUrls == [scheme : {<<"http">>, <<"https">>, <<"ftp">>}, host : {<<"rpi">>},
             port : {<< >>, <<"8080">>}, path : Paths]

SomeCertificates == [verified : BOOLEAN, names : SUBSET Hosts]

(* Headers smaller than the limit by more than a piece, by less, and       *)
(* larger; bodies of none, one and two pieces; answers cut short.          *)
SomeAnswers ==
    {a \in [head : {2, 4, 6}, body : 0 .. 3, length : 0 .. 3 \cup {NoLength},
            sent : 0 .. 9, ends : {"open", "closed", "reset"}] :
        /\ a.length \in {a.body, NoLength}
        /\ a.sent <= a.head + a.body
        /\ a.ends = "open" => a.sent = a.head + a.body}
=============================================================================
