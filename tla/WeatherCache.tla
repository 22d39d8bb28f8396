---------------------------- MODULE WeatherCache ----------------------------
(***************************************************************************)
(* The caching weather proxy: 8/weather_server.js (7/weather_server.js is  *)
(* the same file).  Node runs one callback at a time; the callbacks of     *)
(* concurrent requests interleave.                                         *)
(*                                                                         *)
(* An answer of api.openweathermap.org is abstracted to its chunks, each   *)
(* named by the request it was fetched for and its place in the answer.    *)
(***************************************************************************)
EXTENDS Integers, Sequences, FiniteSets

CONSTANTS Zips,          \* what comes after /weather/ in the URL
          Requests,      \* the GET requests that may arrive
          Chunks,        \* the chunks of one upstream answer
          Lifetime,      \* 30*60*1000, in ticks
          MaxTime,       \* bound: the last tick
          ClockMayBeSet, \* may the system clock be set back?
          UpstreamFails, \* may the weather service be unreachable or break off?
          Absent,        \* zip_key is not in cacheArray
          Undefined      \* the value of a property never assigned

ASSUME WeatherAssumption ==
    /\ Chunks \in Nat \ {0}
    /\ Lifetime \in Nat
    /\ MaxTime \in Nat
    /\ Undefined \notin 0 .. MaxTime

VARIABLES now,           \* new Date().getTime()
          up,            \* is the server running?
          cacheArray,    \* zip -> the entry under zip_key
          zip,           \* request -> req.params.zip
          status,        \* request -> how far it is
          result,        \* request -> the string its callbacks collect
          body,          \* request -> what was written to its response
          servedAge,     \* history: age of the entry a request was served from
          setBack        \* history: was the clock ever set back?

vars == <<now, up, cacheArray, zip, status, result, body, servedAge, setBack>>
upstreamVars == <<result, body>>
histories == <<servedAge, setBack>>

Text == Seq([by : Requests, part : 1 .. Chunks])

(* cacheArray[zip_key] = {} : neither data_ nor timecreated is there yet.  *)
Pending == [data_ |-> Undefined, timecreated |-> Undefined]

Entry == [data_ : Text \cup {Undefined}, timecreated : 0 .. MaxTime \cup {Undefined}]

ASSUME AbsentAssumption == Absent \notin Entry

TypeOK ==
    /\ now \in 0 .. MaxTime
    /\ up \in BOOLEAN
    /\ cacheArray \in [Zips -> Entry \cup {Absent}]
    /\ zip \in [Requests -> Zips \cup {Absent}]
    /\ status \in [Requests -> {"new", "fetching", "hanging", "answered", "reset"}]
    /\ result \in [Requests -> Text]
    /\ body \in [Requests -> Text]
    /\ servedAge \in [Requests -> -MaxTime .. MaxTime \cup {Undefined}]
    /\ setBack \in BOOLEAN

Init ==
    /\ now = 0
    /\ up = TRUE
    /\ cacheArray = [z \in Zips |-> Absent]
    /\ zip = [r \in Requests |-> Absent]
    /\ status = [r \in Requests |-> "new"]
    /\ result = [r \in Requests |-> << >>]
    /\ body = [r \in Requests |-> << >>]
    /\ servedAge = [r \in Requests |-> Undefined]
    /\ setBack = FALSE

-----------------------------------------------------------------------------
(* app.get('/weather/:zip'): the three cases.                              *)

(* timecreated - now > 30*60*1000, false when timecreated is undefined.    *)
Expired(z) ==
    /\ cacheArray[z].timecreated # Undefined
    /\ cacheArray[z].timecreated - now > Lifetime

Get(r, z) ==
    /\ up
    /\ status[r] = "new"
    /\ zip' = [zip EXCEPT ![r] = z]

GetWeatherRes(r) == status' = [status EXCEPT ![r] = "fetching"]

(* Mutant of NotInCache: line 25 left out, the entry made by 'end' only.   *)
NotInCacheUnmarked(r, z) ==
    /\ Get(r, z)
    /\ cacheArray[z] = Absent
    /\ GetWeatherRes(r)
    /\ UNCHANGED <<now, up, cacheArray, upstreamVars, histories>>

NotInCache(r, z) ==
    /\ Get(r, z)
    /\ cacheArray[z] = Absent
    /\ cacheArray' = [cacheArray EXCEPT ![z] = Pending]
    /\ GetWeatherRes(r)
    /\ UNCHANGED <<now, up, upstreamVars, histories>>

RecordExpired(r, z) ==
    /\ Get(r, z)
    /\ cacheArray[z] # Absent /\ Expired(z)
    /\ GetWeatherRes(r)
    /\ UNCHANGED <<now, up, cacheArray, upstreamVars, histories>>

(* res.send(undefined) sends an empty body.                                *)
RetrieveCached(r, z) ==
    /\ Get(r, z)
    /\ cacheArray[z] # Absent /\ ~Expired(z)
    /\ LET entry == cacheArray[z] IN
         IF entry.data_ = Undefined
           THEN UNCHANGED <<body, servedAge>>
           ELSE /\ body' = [body EXCEPT ![r] = entry.data_]
                /\ servedAge' = [servedAge EXCEPT ![r] = now - entry.timecreated]
    /\ status' = [status EXCEPT ![r] = "answered"]
    /\ UNCHANGED <<now, up, cacheArray, result, setBack>>

-----------------------------------------------------------------------------
(* get_weather_res: the callbacks of request r's upstream answer.          *)
NextChunk(r) == [by |-> r, part |-> Len(body[r]) + 1]

(* Mutant of OnData: result without its var, one string for all requests.  *)
OnDataShared(r) ==
    /\ status[r] = "fetching"
    /\ Len(body[r]) < Chunks
    /\ result' = [q \in Requests |-> Append(result[q], NextChunk(r))]
    /\ body' = [body EXCEPT ![r] = Append(@, NextChunk(r))]
    /\ UNCHANGED <<now, up, cacheArray, zip, status, histories>>

OnData(r) ==
    /\ status[r] = "fetching"
    /\ Len(body[r]) < Chunks
    /\ result' = [result EXCEPT ![r] = Append(@, NextChunk(r))]
    /\ body' = [body EXCEPT ![r] = Append(@, NextChunk(r))]
    /\ UNCHANGED <<now, up, cacheArray, zip, status, histories>>

(* Mutant of Finish: an entry stored only to replace an older one.         *)
FinishReplacing(r) ==
    /\ status' = [status EXCEPT ![r] = "answered"]
    /\ cacheArray' = IF cacheArray[zip[r]] = Pending THEN cacheArray
                      ELSE [cacheArray EXCEPT
                              ![zip[r]] = [data_ |-> result[r], timecreated |-> now]]
    /\ UNCHANGED <<now, up, zip, upstreamVars, histories>>

Finish(r) ==
    /\ status' = [status EXCEPT ![r] = "answered"]
    /\ cacheArray' = [cacheArray EXCEPT
                        ![zip[r]] = [data_ |-> result[r], timecreated |-> now]]
    /\ UNCHANGED <<now, up, zip, upstreamVars, histories>>

OnEnd(r) ==
    /\ status[r] = "fetching"
    /\ Len(body[r]) = Chunks
    /\ Finish(r)

(* The connection breaks in the middle of an answer.  Node up to version   *)
(* 12 emits 'end' all the same; later versions emit nothing that this code *)
(* listens to.                                                             *)
BreaksOff(r) ==
    /\ UpstreamFails
    /\ status[r] = "fetching"
    /\ Len(body[r]) < Chunks
    /\ \/ Finish(r)
       \/ /\ status' = [status EXCEPT ![r] = "hanging"]
          /\ UNCHANGED <<now, up, cacheArray, zip, upstreamVars, histories>>

(* http.get fails: nobody handles the request's 'error' event, so node     *)
(* prints it and exits, and every open response is reset.                  *)
Unreachable(r) ==
    /\ UpstreamFails
    /\ status[r] = "fetching"
    /\ body[r] = << >>
    /\ up' = FALSE
    /\ status' = [q \in Requests |-> IF status[q] \in {"fetching", "hanging"}
                                       THEN "reset" ELSE status[q]]
    /\ UNCHANGED <<now, cacheArray, zip, upstreamVars, histories>>

Restart ==
    /\ ~up
    /\ up' = TRUE
    /\ cacheArray' = [z \in Zips |-> Absent]
    /\ UNCHANGED <<now, zip, status, upstreamVars, histories>>

Tick == /\ now < MaxTime
        /\ now' = now + 1
        /\ UNCHANGED <<up, cacheArray, zip, status, upstreamVars, histories>>

SetClockBack ==
    /\ ClockMayBeSet
    /\ \E t \in 0 .. now - 1 : now' = t
    /\ setBack' = TRUE
    /\ UNCHANGED <<up, cacheArray, zip, status, upstreamVars, servedAge>>

Upstream(r) == OnData(r) \/ OnEnd(r)

Next == \/ \E r \in Requests, z \in Zips :
              NotInCache(r, z) \/ RecordExpired(r, z) \/ RetrieveCached(r, z)
        \/ \E r \in Requests : Upstream(r) \/ BreaksOff(r) \/ Unreachable(r)
        \/ Restart
        \/ Tick
        \/ SetClockBack

Spec == Init /\ [][Next]_vars

(* A reachable weather service answers every request in the end.           *)
LiveSpec == Spec /\ \A r \in Requests : WF_vars(Upstream(r))

-----------------------------------------------------------------------------
(* The first n chunks of what was fetched for request f.                   *)
Fetched(f, n) == [i \in 1 .. n |-> [by |-> f, part |-> i]]

(* Whatever requests overlap, a client gets a piece of one upstream        *)
(* answer, from its beginning, for the place it asked about; so does the   *)
(* cache.  result, zip and zip_key belong to one request.                  *)
AnswersAreUnmixed ==
    /\ \A r \in Requests : \E f \in Requests :
          /\ body[r] = Fetched(f, Len(body[r]))
          /\ body[r] # << >> => zip[f] = zip[r]
    /\ \A z \in Zips :
          (cacheArray[z] # Absent /\ cacheArray[z].data_ # Undefined) =>
              \E f \in Requests :
                 /\ cacheArray[z].data_ = Fetched(f, Len(cacheArray[z].data_))
                 /\ zip[f] = z

(* The entry {} made before the fetch keeps later requests for the same    *)
(* place from fetching too: as long as the clock only goes forward the     *)
(* service is asked about a place by at most one request at a time.        *)
OneFetchPerZip ==
    ~setBack =>
        \A z \in Zips :
            Cardinality({r \in Requests : status[r] = "fetching" /\ zip[r] = z}) <= 1

(* An entry {} answers every request for its place with nothing.  It is    *)
(* filled in the end, unless the answer it waits for broke off without an  *)
(* 'end' or the server went down.                                          *)
PendingIsFilled ==
    \A z \in Zips :
        (cacheArray[z] = Pending)
            ~> \/ cacheArray[z] # Pending
               \/ ~up
               \/ \E r \in Requests : status[r] = "hanging" /\ zip[r] = z

(* 8/README:7: the time check is there to make the result accurate.  No    *)
(* answer from the cache is older than half an hour.                       *)
CachedAnswersAreFresh ==
    \A r \in Requests : servedAge[r] # Undefined => servedAge[r] <= Lifetime
=============================================================================
