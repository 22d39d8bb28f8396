------------------------ MODULE WeatherCache_proofs ------------------------
(***************************************************************************)
(* Proofs about WeatherCache, for any places, requests and lifetimes, any  *)
(* number of chunks and any MaxTime.                                       *)
(***************************************************************************)
EXTENDS WeatherCache, FiniteSetTheorems, TLAPS

USE DEF vars, upstreamVars, histories

(***************************************************************************)
(* Type correctness.  The strengthening: an entry is {} or has both        *)
(* properties, so the age of what is served is a number.                   *)
(***************************************************************************)
FullEntry == [data_ : Text, timecreated : 0 .. MaxTime]

EntriesAreEmptyOrFull ==
    \A z \in Zips : cacheArray[z] \in FullEntry \cup {Absent, Pending}

PlaceIsKnown == \A r \in Requests : status[r] # "new" => zip[r] \in Zips

TypeInv == TypeOK /\ EntriesAreEmptyOrFull /\ PlaceIsKnown

LEMMA EmptyText == << >> \in Text
BY DEF Text

LEMMA TextGrows ==
    ASSUME NEW t \in Text, NEW c \in [by : Requests, part : 1 .. Chunks]
    PROVE  Append(t, c) \in Text
BY DEF Text

LEMMA EntryKinds == /\ FullEntry \subseteq Entry
                    /\ Pending \in Entry
BY DEF FullEntry, Pending, Entry

LEMMA InitTypeInv == Init => TypeInv
<1> SUFFICES ASSUME Init PROVE TypeInv
  OBVIOUS
<1>1. 0 \in 0 .. MaxTime
  BY WeatherAssumption
<1> QED BY <1>1, EmptyText DEF Init, TypeInv, TypeOK, EntriesAreEmptyOrFull, PlaceIsKnown

(* The entry of z becomes e, and the request is answered or fetches.       *)
LEMMA NewEntryKeepsTypes ==
    ASSUME TypeInv, NEW z \in Zips, NEW e \in FullEntry \cup {Pending},
           cacheArray' = [cacheArray EXCEPT ![z] = e]
    PROVE  cacheArray' \in [Zips -> Entry \cup {Absent}] /\ EntriesAreEmptyOrFull'
BY EntryKinds DEF TypeInv, TypeOK, EntriesAreEmptyOrFull, FullEntry, Pending, Text

LEMMA GetKeepsTypes ==
    ASSUME TypeInv, NEW r \in Requests, NEW z \in Zips,
           NotInCache(r, z) \/ RecordExpired(r, z) \/ RetrieveCached(r, z)
    PROVE  TypeInv'
<1>0. /\ zip' \in [Requests -> Zips \cup {Absent}]
      /\ status' \in [Requests -> {"new", "fetching", "hanging", "answered", "reset"}]
      /\ PlaceIsKnown'
  BY DEF NotInCache, RecordExpired, RetrieveCached, Get, GetWeatherRes, TypeInv, TypeOK,
         PlaceIsKnown
<1>1. CASE NotInCache(r, z)
  <2>1. cacheArray' = [cacheArray EXCEPT ![z] = Pending]
    BY <1>1 DEF NotInCache
  <2>2. cacheArray' \in [Zips -> Entry \cup {Absent}] /\ EntriesAreEmptyOrFull'
    BY <2>1, NewEntryKeepsTypes
  <2> QED BY <1>0, <1>1, <2>2 DEF NotInCache, TypeInv, TypeOK
<1>2. CASE RecordExpired(r, z)
  BY <1>0, <1>2 DEF RecordExpired, TypeInv, TypeOK, EntriesAreEmptyOrFull, FullEntry, Pending, Text
<1>3. CASE RetrieveCached(r, z)
  <2>1. EntriesAreEmptyOrFull'
    BY <1>3 DEF RetrieveCached, TypeInv, EntriesAreEmptyOrFull, FullEntry, Pending, Text
  <2>2. CASE cacheArray[z].data_ = Undefined
    BY <1>0, <1>3, <2>1, <2>2 DEF RetrieveCached, TypeInv, TypeOK
  <2>3. CASE cacheArray[z].data_ # Undefined
    <3>1. cacheArray[z] \in FullEntry
      BY <1>3, <2>3 DEF RetrieveCached, TypeInv, EntriesAreEmptyOrFull, Pending
    <3>2. body' \in [Requests -> Text]
      BY <1>3, <2>3, <3>1 DEF RetrieveCached, TypeInv, TypeOK, FullEntry
    <3>3. now - cacheArray[z].timecreated \in -MaxTime .. MaxTime
      BY <3>1, WeatherAssumption DEF TypeInv, TypeOK, FullEntry
    <3>4. servedAge' \in [Requests -> -MaxTime .. MaxTime \cup {Undefined}]
      BY <1>3, <2>3, <3>3 DEF RetrieveCached, TypeInv, TypeOK
    <3> QED BY <1>0, <1>3, <2>1, <3>2, <3>4 DEF RetrieveCached, TypeInv, TypeOK
  <2> QED BY <2>2, <2>3
<1> QED BY <1>1, <1>2, <1>3

LEMMA FinishKeepsTypes ==
    ASSUME TypeInv, NEW r \in Requests, status[r] # "new", Finish(r)
    PROVE  TypeInv'
<1>1. [data_ |-> result[r], timecreated |-> now] \in FullEntry
  BY DEF TypeInv, TypeOK, FullEntry
<1>2. cacheArray' \in [Zips -> Entry \cup {Absent}] /\ EntriesAreEmptyOrFull'
  BY <1>1, NewEntryKeepsTypes DEF Finish, TypeInv, PlaceIsKnown
<1> QED BY <1>2 DEF Finish, TypeInv, TypeOK, PlaceIsKnown

LEMMA StepCases ==
    ASSUME [Next]_vars
    PROVE  \/ \E r \in Requests, z \in Zips :
                 NotInCache(r, z) \/ RecordExpired(r, z) \/ RetrieveCached(r, z)
           \/ \E r \in Requests : OnData(r)
           \/ \E r \in Requests : status[r] = "fetching" /\ Finish(r)
           \/ \E r \in Requests : /\ status[r] = "fetching"
                                  /\ status' = [status EXCEPT ![r] = "hanging"]
                                  /\ UNCHANGED <<now, up, cacheArray, zip, upstreamVars, histories>>
           \/ \E r \in Requests : Unreachable(r)
           \/ Restart \/ Tick \/ SetClockBack
           \/ UNCHANGED vars
BY DEF Next, Upstream, OnEnd, BreaksOff

LEMMA StepKeepsTypes == TypeInv /\ [Next]_vars => TypeInv'
<1> SUFFICES ASSUME TypeInv, [Next]_vars PROVE TypeInv'
  OBVIOUS
<1> USE DEF TypeInv, EntriesAreEmptyOrFull, PlaceIsKnown, FullEntry, Pending, Text
<1>1. CASE \E r \in Requests, z \in Zips :
              NotInCache(r, z) \/ RecordExpired(r, z) \/ RetrieveCached(r, z)
  BY <1>1, GetKeepsTypes
<1>2. ASSUME NEW r \in Requests, OnData(r) PROVE TypeInv'
  <2>1. Append(result[r], NextChunk(r)) \in Text /\ Append(body[r], NextChunk(r)) \in Text
    <3>1. Len(body[r]) \in Nat /\ Len(body[r]) < Chunks
      BY <1>2 DEF OnData, TypeOK
    <3>2. NextChunk(r) \in [by : Requests, part : 1 .. Chunks]
      BY <3>1, WeatherAssumption DEF NextChunk
    <3> QED BY <3>2, TextGrows DEF TypeOK
  <2>2. result' \in [Requests -> Text] /\ body' \in [Requests -> Text]
    BY <1>2, <2>1 DEF OnData, TypeOK
  <2> QED BY <1>2, <2>2 DEF OnData, TypeOK
<1>3. CASE \E r \in Requests : status[r] = "fetching" /\ Finish(r)
  BY <1>3, FinishKeepsTypes
<1>4. CASE \E r \in Requests : /\ status[r] = "fetching"
                               /\ status' = [status EXCEPT ![r] = "hanging"]
                               /\ UNCHANGED <<now, up, cacheArray, zip, upstreamVars, histories>>
  BY <1>4 DEF TypeOK
<1>5. ASSUME NEW r \in Requests, Unreachable(r) PROVE TypeInv'
  BY <1>5 DEF Unreachable, TypeOK
<1>6. CASE Restart
  BY <1>6 DEF Restart, TypeOK
<1>7. CASE Tick
  <2>1. now' \in 0 .. MaxTime
    BY <1>7, WeatherAssumption DEF Tick, TypeOK
  <2> QED BY <1>7, <2>1 DEF Tick, TypeOK
<1>8. CASE SetClockBack
  <2>1. now' \in 0 .. MaxTime /\ setBack' \in BOOLEAN
    BY <1>8, WeatherAssumption DEF SetClockBack, TypeOK
  <2> QED BY <1>8, <2>1 DEF SetClockBack, TypeOK
<1>9. CASE UNCHANGED vars
  BY <1>9 DEF TypeOK
<1> QED BY <1>1, <1>2, <1>3, <1>4, <1>5, <1>6, <1>7, <1>8, <1>9, StepCases

(* Every variable stays in its type, an entry's age included, which is the *)
(* difference of two times.                                                *)
THEOREM WeatherTypes == Spec => []TypeOK
<1>1. Spec => []TypeInv
  BY InitTypeInv, StepKeepsTypes, PTL DEF Spec
<1>2. TypeInv => TypeOK
  BY DEF TypeInv
<1> QED BY <1>1, <1>2, PTL

(***************************************************************************)
(* One fetch per place.  While the clock only goes forward no entry is     *)
(* younger than now, so none expires; and who fetches has made an entry.   *)
(***************************************************************************)
NoEntryIsFromLater ==
    \A z \in Zips : cacheArray[z] \in FullEntry => cacheArray[z].timecreated <= now

FetchersAreMarked ==
    \A r \in Requests : status[r] = "fetching" => cacheArray[zip[r]] # Absent

FetchersDiffer ==
    \A q, r \in Requests :
        (status[q] = "fetching" /\ status[r] = "fetching" /\ zip[q] = zip[r]) => q = r

ServerIsDown == ~up => \A r \in Requests : status[r] # "fetching"

ForwardInv == NoEntryIsFromLater /\ FetchersAreMarked /\ FetchersDiffer

FetchInv == ServerIsDown /\ (~setBack => ForwardInv)

LEMMA InitFetchInv == Init => FetchInv
BY AbsentAssumption, EntryKinds
   DEF Init, FetchInv, ServerIsDown, ForwardInv, NoEntryIsFromLater, FetchersAreMarked, FetchersDiffer

LEMMA NothingExpires ==
    ASSUME TypeInv, NoEntryIsFromLater, NEW z \in Zips, cacheArray[z] # Absent
    PROVE  ~Expired(z)
BY WeatherAssumption
   DEF TypeInv, TypeOK, NoEntryIsFromLater, EntriesAreEmptyOrFull, FullEntry, Pending, Expired

LEMMA StepKeepsFetchInv == TypeInv /\ FetchInv /\ [Next]_vars => FetchInv'
<1> SUFFICES ASSUME TypeInv, FetchInv, [Next]_vars PROVE FetchInv'
  OBVIOUS
<1> USE DEF FetchInv, ServerIsDown
<1>1. ASSUME NEW r \in Requests, NEW z \in Zips, NotInCache(r, z) PROVE FetchInv'
  <2>1. ServerIsDown'
    BY <1>1 DEF NotInCache, Get
  <2>2. ASSUME ForwardInv PROVE ForwardInv'
    <3>1. /\ cacheArray[z] = Absent
          /\ cacheArray' = [cacheArray EXCEPT ![z] = Pending]
          /\ zip' = [zip EXCEPT ![r] = z]
          /\ status' = [status EXCEPT ![r] = "fetching"]
          /\ now' = now /\ setBack' = setBack
      BY <1>1 DEF NotInCache, Get, GetWeatherRes
    <3>2. Pending \notin FullEntry
      BY WeatherAssumption DEF Pending, FullEntry
    <3>3. Pending # Absent
      BY AbsentAssumption, EntryKinds
    <3>4. \A q \in Requests : status[q] = "fetching" => zip[q] # z
      BY <2>2, <3>1 DEF ForwardInv, FetchersAreMarked
    <3>5. NoEntryIsFromLater'
      BY <2>2, <3>1, <3>2 DEF ForwardInv, NoEntryIsFromLater, TypeInv, TypeOK, FullEntry
    <3>6. FetchersAreMarked'
      BY <2>2, <3>1, <3>3 DEF ForwardInv, FetchersAreMarked, TypeInv, TypeOK, PlaceIsKnown
    <3>7. FetchersDiffer'
      BY <2>2, <3>1, <3>4 DEF ForwardInv, FetchersDiffer, TypeInv, TypeOK
    <3> QED BY <3>5, <3>6, <3>7 DEF ForwardInv
  <2> QED BY <1>1, <2>1, <2>2 DEF NotInCache
<1>2. ASSUME NEW r \in Requests, NEW z \in Zips, RecordExpired(r, z) PROVE FetchInv'
  BY <1>2, NothingExpires DEF RecordExpired, Get, ForwardInv
<1>3. ASSUME NEW r \in Requests, NEW z \in Zips, RetrieveCached(r, z) PROVE FetchInv'
  BY <1>3 DEF RetrieveCached, Get, ForwardInv, NoEntryIsFromLater, FetchersAreMarked,
              FetchersDiffer, FullEntry, TypeInv, TypeOK
<1>4. ASSUME NEW r \in Requests, OnData(r) PROVE FetchInv'
  BY <1>4 DEF OnData, ForwardInv, NoEntryIsFromLater, FetchersAreMarked, FetchersDiffer, FullEntry
<1>5. ASSUME NEW r \in Requests, status[r] = "fetching", Finish(r) PROVE FetchInv'
  <2>1. [data_ |-> result[r], timecreated |-> now] # Absent
    BY AbsentAssumption, EntryKinds DEF FullEntry, TypeInv, TypeOK
  <2>2. zip[r] \in Zips
    BY <1>5 DEF TypeInv, PlaceIsKnown
  <2>3. ASSUME ForwardInv PROVE ForwardInv'
    <3>1. NoEntryIsFromLater'
      BY <1>5, <2>2, <2>3, WeatherAssumption
         DEF Finish, ForwardInv, NoEntryIsFromLater, FullEntry, TypeInv, TypeOK
    <3>2. FetchersAreMarked'
      BY <1>5, <2>1, <2>2, <2>3 DEF Finish, ForwardInv, FetchersAreMarked, TypeInv, TypeOK, PlaceIsKnown
    <3>3. FetchersDiffer'
      BY <1>5, <2>3 DEF Finish, ForwardInv, FetchersDiffer, TypeInv, TypeOK
    <3> QED BY <3>1, <3>2, <3>3 DEF ForwardInv
  <2> QED BY <1>5, <2>3 DEF Finish, TypeInv, TypeOK
<1>6. ASSUME NEW r \in Requests, status[r] = "fetching",
             status' = [status EXCEPT ![r] = "hanging"],
             UNCHANGED <<now, up, cacheArray, zip, upstreamVars, histories>>
      PROVE FetchInv'
  BY <1>6 DEF ForwardInv, NoEntryIsFromLater, FetchersAreMarked, FetchersDiffer, FullEntry, TypeInv, TypeOK
<1>7. ASSUME NEW r \in Requests, Unreachable(r) PROVE FetchInv'
  BY <1>7 DEF Unreachable, ForwardInv, NoEntryIsFromLater, FetchersAreMarked, FetchersDiffer, FullEntry
<1>8. CASE Restart
  <2>1. Absent \notin FullEntry
    BY AbsentAssumption, EntryKinds
  <2> QED BY <1>8, <2>1 DEF Restart, ForwardInv, NoEntryIsFromLater, FetchersAreMarked,
                            FetchersDiffer, FullEntry
<1>9. CASE Tick
  BY <1>9, WeatherAssumption DEF Tick, ForwardInv, NoEntryIsFromLater, FetchersAreMarked,
                                 FetchersDiffer, FullEntry, TypeInv, TypeOK
<1>10. CASE SetClockBack
  BY <1>10 DEF SetClockBack
<1>11. CASE UNCHANGED vars
  BY <1>11 DEF ForwardInv, NoEntryIsFromLater, FetchersAreMarked, FetchersDiffer, FullEntry
<1> QED BY <1>1, <1>2, <1>3, <1>4, <1>5, <1>6, <1>7, <1>8, <1>9, <1>10, <1>11, StepCases

LEMMA FetchersAreOne == FetchInv => OneFetchPerZip
<1> SUFFICES ASSUME FetchInv, ~setBack, NEW z \in Zips
             PROVE  Cardinality({r \in Requests : status[r] = "fetching" /\ zip[r] = z}) <= 1
  BY DEF OneFetchPerZip
<1> DEFINE F == {r \in Requests : status[r] = "fetching" /\ zip[r] = z}
<1>1. CASE F = {}
  BY <1>1, FS_EmptySet
<1>2. CASE F # {}
  <2>1. PICK r \in F : TRUE
    BY <1>2
  <2>2. F = {r}
    BY <2>1 DEF FetchInv, ForwardInv, FetchersDiffer
  <2> QED BY <2>2, FS_Singleton
<1> QED BY <1>1, <1>2

(* As long as the clock only goes forward the weather service is asked     *)
(* about a place by one request at a time, through breaks and restarts.    *)
THEOREM OneFetch == Spec => []OneFetchPerZip
<1>1. Spec => []TypeInv
  BY InitTypeInv, StepKeepsTypes, PTL DEF Spec
<1>2. Spec => [](TypeInv /\ FetchInv)
  BY <1>1, InitFetchInv, StepKeepsFetchInv, PTL DEF Spec
<1> QED BY <1>2, FetchersAreOne, PTL

(***************************************************************************)
(* Unmixed answers.  Until it is answered a request has collected, and     *)
(* written, the beginning of its own upstream answer; whatever was fetched *)
(* was fetched for a request whose place does not change any more.         *)
(***************************************************************************)
OwnAnswer ==
    \A r \in Requests : status[r] # "answered" =>
        /\ body[r] = Fetched(r, Len(body[r]))
        /\ result[r] = body[r]
        /\ status[r] = "new" => body[r] = << >>

FetchedFor(text, z) ==
    \E f \in Requests : /\ status[f] # "new" /\ zip[f] = z
                        /\ text = Fetched(f, Len(text))

BodiesAreUnmixed == \A r \in Requests : body[r] # << >> => FetchedFor(body[r], zip[r])

CacheIsUnmixed ==
    \A z \in Zips : cacheArray[z] \in FullEntry => FetchedFor(cacheArray[z].data_, z)

UnmixedInv == OwnAnswer /\ BodiesAreUnmixed /\ CacheIsUnmixed

LEMMA FetchedNothing == \A r \in Requests : Fetched(r, Len(<< >>)) = << >>
BY DEF Fetched

LEMMA FetchedGrows ==
    ASSUME NEW r \in Requests, NEW n \in Nat
    PROVE  /\ Append(Fetched(r, n), [by |-> r, part |-> n + 1]) = Fetched(r, n + 1)
           /\ Len(Fetched(r, n + 1)) = n + 1
<1> DEFINE c == [by |-> r, part |-> n + 1]
           s == Fetched(r, n)
           t == Fetched(r, n + 1)
<1>1. s \in Seq([by : Requests, part : Nat]) /\ Len(s) = n
  BY DEF Fetched
<1>2. t \in Seq([by : Requests, part : Nat]) /\ Len(t) = n + 1
  BY DEF Fetched
<1>3. c \in [by : Requests, part : Nat]
  OBVIOUS
<1>4. \A i \in 1 .. n : t[i] = s[i]
  BY DEF Fetched
<1>5. t[n + 1] = c
  BY DEF Fetched
<1> HIDE DEF s, t, c
<1>6. Append(s, c) = t
  BY <1>1, <1>2, <1>3, <1>4, <1>5
<1> QED BY <1>2, <1>6 DEF s, t, c

(* What was fetched for a place stays so.                                  *)
LEMMA FetchedForStays ==
    ASSUME TypeInv, NEW text, NEW z,
           \A f \in Requests : status[f] # "new" => status'[f] # "new" /\ zip'[f] = zip[f]
    PROVE  FetchedFor(text, z) => FetchedFor(text, z)'
BY DEF FetchedFor

LEMMA PlacesStay ==
    ASSUME TypeInv, [Next]_vars
    PROVE  \A f \in Requests : status[f] # "new" => status'[f] # "new" /\ zip'[f] = zip[f]
BY StepCases
   DEF NotInCache, RecordExpired, RetrieveCached, Get, GetWeatherRes, OnData, Finish,
       Unreachable, Restart, Tick, SetClockBack, TypeInv, TypeOK

LEMMA InitUnmixedInv == Init => UnmixedInv
<1> SUFFICES ASSUME Init PROVE UnmixedInv
  OBVIOUS
<1>1. Absent \notin FullEntry
  BY AbsentAssumption, EntryKinds
<1> QED BY <1>1, FetchedNothing DEF Init, UnmixedInv, OwnAnswer, BodiesAreUnmixed, CacheIsUnmixed

LEMMA StepKeepsUnmixedInv == TypeInv /\ UnmixedInv /\ [Next]_vars => UnmixedInv'
<1> SUFFICES ASSUME TypeInv, UnmixedInv, [Next]_vars PROVE UnmixedInv'
  OBVIOUS
<1> USE DEF UnmixedInv
<1>0. \A f \in Requests : status[f] # "new" => status'[f] # "new" /\ zip'[f] = zip[f]
  BY PlacesStay
<1>a. \A text, z : FetchedFor(text, z) => FetchedFor(text, z)'
  BY <1>0, FetchedForStays
<1>b. Absent \notin FullEntry /\ Pending \notin FullEntry
  BY AbsentAssumption, EntryKinds, WeatherAssumption DEF Pending, FullEntry
<1> HIDE DEF UnmixedInv
<1>1. ASSUME NEW r \in Requests, NEW z \in Zips, NotInCache(r, z) \/ RecordExpired(r, z)
      PROVE UnmixedInv'
  <2>1. /\ zip' = [zip EXCEPT ![r] = z]
        /\ status' = [status EXCEPT ![r] = "fetching"] /\ status[r] = "new"
        /\ UNCHANGED <<body, result>>
    BY <1>1 DEF NotInCache, RecordExpired, Get, GetWeatherRes
  <2>2. OwnAnswer'
    BY <2>1 DEF UnmixedInv, OwnAnswer, TypeInv, TypeOK
  <2>3. BodiesAreUnmixed'
    BY <1>a, <2>1 DEF UnmixedInv, OwnAnswer, BodiesAreUnmixed, TypeInv, TypeOK
  <2>4. CacheIsUnmixed'
    BY <1>1, <1>a, <1>b DEF UnmixedInv, CacheIsUnmixed, NotInCache, RecordExpired, TypeInv, TypeOK,
                            FullEntry
  <2> QED BY <2>2, <2>3, <2>4 DEF UnmixedInv
<1>2. ASSUME NEW r \in Requests, NEW z \in Zips, RetrieveCached(r, z) PROVE UnmixedInv'
  <2>1. /\ zip' = [zip EXCEPT ![r] = z]
        /\ status' = [status EXCEPT ![r] = "answered"] /\ status[r] = "new"
        /\ UNCHANGED <<cacheArray, result>>
    BY <1>2 DEF RetrieveCached, Get
  <2>2. \/ body' = body
        \/ /\ body' = [body EXCEPT ![r] = cacheArray[z].data_]
           /\ cacheArray[z] \in FullEntry
    BY <1>2 DEF RetrieveCached, TypeInv, EntriesAreEmptyOrFull, Pending
  <2>3. OwnAnswer'
    BY <2>1, <2>2 DEF UnmixedInv, OwnAnswer, TypeInv, TypeOK
  <2>4. ASSUME NEW q \in Requests, body'[q] # << >> PROVE FetchedFor(body[q], zip[q])'
    <3>1. CASE q # r
      BY <1>a, <2>1, <2>2, <2>4, <3>1 DEF UnmixedInv, BodiesAreUnmixed, TypeInv, TypeOK
    <3>2. CASE q = r
      <4>1. body'[r] = cacheArray[z].data_ /\ cacheArray[z] \in FullEntry /\ zip'[r] = z
        BY <2>1, <2>2, <2>4, <3>2 DEF UnmixedInv, OwnAnswer, TypeInv, TypeOK
      <4>2. FetchedFor(cacheArray[z].data_, z)
        BY <4>1 DEF UnmixedInv, CacheIsUnmixed
      <4>3. PICK f \in Requests : /\ status'[f] # "new" /\ zip'[f] = z
                                 /\ cacheArray[z].data_ = Fetched(f, Len(cacheArray[z].data_))
        BY <1>0, <4>2 DEF FetchedFor
      <4> QED BY <3>2, <4>1, <4>3 DEF FetchedFor
    <3> QED BY <3>1, <3>2
  <2>5. BodiesAreUnmixed'
    BY <2>4 DEF BodiesAreUnmixed
  <2>6. CacheIsUnmixed'
    BY <1>a, <2>1 DEF UnmixedInv, CacheIsUnmixed, FullEntry
  <2> QED BY <2>3, <2>5, <2>6 DEF UnmixedInv
<1>3. ASSUME NEW r \in Requests, OnData(r) PROVE UnmixedInv'
  <2> DEFINE n == Len(body[r])
             longer == Fetched(r, n + 1)
  <2>1. /\ status[r] = "fetching"
        /\ result' = [result EXCEPT ![r] = Append(result[r], NextChunk(r))]
        /\ body' = [body EXCEPT ![r] = Append(body[r], NextChunk(r))]
        /\ UNCHANGED <<cacheArray, zip, status>>
    BY <1>3 DEF OnData
  <2>2. n \in Nat
    BY DEF TypeInv, TypeOK, Text
  <2>3. body[r] = Fetched(r, n) /\ result[r] = Fetched(r, n)
    BY <2>1 DEF UnmixedInv, OwnAnswer
  <2>4. Append(body[r], NextChunk(r)) = longer /\ Append(result[r], NextChunk(r)) = longer
    BY <2>2, <2>3, FetchedGrows DEF NextChunk
  <2>5. longer = Fetched(r, Len(longer))
    BY <2>2, FetchedGrows
  <2> HIDE DEF longer, n
  <2>6. /\ body' = [body EXCEPT ![r] = longer]
        /\ result' = [result EXCEPT ![r] = longer]
    BY <2>1, <2>4
  <2>7. OwnAnswer'
    BY <2>1, <2>5, <2>6 DEF UnmixedInv, OwnAnswer, TypeInv, TypeOK
  <2>8. FetchedFor(longer, zip[r])
    BY <2>1, <2>5 DEF FetchedFor
  <2>9. BodiesAreUnmixed'
    BY <1>a, <2>1, <2>6, <2>8 DEF UnmixedInv, BodiesAreUnmixed, TypeInv, TypeOK
  <2>10. CacheIsUnmixed'
    BY <1>a, <2>1 DEF UnmixedInv, CacheIsUnmixed, FullEntry
  <2> QED BY <2>7, <2>9, <2>10 DEF UnmixedInv
<1>4. ASSUME NEW r \in Requests, status[r] = "fetching", Finish(r) PROVE UnmixedInv'
  <2> DEFINE e == [data_ |-> result[r], timecreated |-> now]
  <2>1. /\ status' = [status EXCEPT ![r] = "answered"]
        /\ cacheArray' = [cacheArray EXCEPT ![zip[r]] = e]
        /\ UNCHANGED <<zip, body, result>>
    BY <1>4 DEF Finish
  <2>2. OwnAnswer' /\ BodiesAreUnmixed'
    BY <1>4, <1>a, <2>1 DEF UnmixedInv, OwnAnswer, BodiesAreUnmixed, TypeInv, TypeOK
  <2>3. FetchedFor(e.data_, zip[r])
    BY <1>4 DEF UnmixedInv, OwnAnswer, FetchedFor
  <2> HIDE DEF e
  <2>4. CacheIsUnmixed'
    BY <1>4, <1>a, <2>1, <2>3 DEF UnmixedInv, CacheIsUnmixed, TypeInv, TypeOK, FullEntry
  <2> QED BY <2>2, <2>4 DEF UnmixedInv
<1>5. ASSUME /\ UNCHANGED <<body, result, zip>>
             /\ \/ cacheArray' = cacheArray
                \/ cacheArray' = [z \in Zips |-> Absent]
             /\ \A r \in Requests : \/ status'[r] = status[r]
                                    \/ /\ status[r] \in {"fetching", "hanging"}
                                       /\ status'[r] \in {"hanging", "reset"}
      PROVE UnmixedInv'
  <2>1. OwnAnswer'
    BY <1>5 DEF UnmixedInv, OwnAnswer
  <2>2. BodiesAreUnmixed'
    BY <1>5, <1>a DEF UnmixedInv, BodiesAreUnmixed
  <2>3. CacheIsUnmixed'
    BY <1>5, <1>a, <1>b DEF UnmixedInv, CacheIsUnmixed, FullEntry
  <2> QED BY <2>1, <2>2, <2>3 DEF UnmixedInv
<1>6. ASSUME NEW r \in Requests, status[r] = "fetching",
             status' = [status EXCEPT ![r] = "hanging"],
             UNCHANGED <<now, up, cacheArray, zip, upstreamVars, histories>>
      PROVE UnmixedInv'
  BY <1>5, <1>6 DEF TypeInv, TypeOK
<1>7. ASSUME NEW r \in Requests, Unreachable(r) PROVE UnmixedInv'
  BY <1>5, <1>7 DEF Unreachable
<1>8. CASE Restart \/ Tick \/ SetClockBack \/ UNCHANGED vars
  BY <1>5, <1>8 DEF Restart, Tick, SetClockBack
<1> QED BY <1>1, <1>2, <1>3, <1>4, <1>6, <1>7, <1>8, StepCases

LEMMA UnmixedIsEnough == TypeInv /\ UnmixedInv => AnswersAreUnmixed
<1> SUFFICES ASSUME TypeInv, UnmixedInv PROVE AnswersAreUnmixed
  OBVIOUS
<1>1. ASSUME NEW r \in Requests
      PROVE  \E f \in Requests : /\ body[r] = Fetched(f, Len(body[r]))
                                 /\ body[r] # << >> => zip[f] = zip[r]
  BY FetchedNothing DEF UnmixedInv, BodiesAreUnmixed, FetchedFor
<1>2. ASSUME NEW z \in Zips, cacheArray[z] # Absent, cacheArray[z].data_ # Undefined
      PROVE  \E f \in Requests : /\ cacheArray[z].data_ = Fetched(f, Len(cacheArray[z].data_))
                                 /\ zip[f] = z
  BY <1>2 DEF UnmixedInv, CacheIsUnmixed, FetchedFor, TypeInv, EntriesAreEmptyOrFull, Pending
<1> QED BY <1>1, <1>2 DEF AnswersAreUnmixed

(* Whatever requests overlap, and whatever breaks, a client and the cache  *)
(* get a piece of one upstream answer, for the place they asked about.     *)
THEOREM Unmixed == Spec => []AnswersAreUnmixed
<1>1. Spec => []TypeInv
  BY InitTypeInv, StepKeepsTypes, PTL DEF Spec
<1>2. Spec => [](TypeInv /\ UnmixedInv)
  BY <1>1, InitUnmixedInv, StepKeepsUnmixedInv, PTL DEF Spec
<1> QED BY <1>2, UnmixedIsEnough, PTL
=============================================================================
