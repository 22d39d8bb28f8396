# Models of Computer-Network-Codes

TLA+ models of the programs in this repository, with TLC configurations that
check them on small instances and TLAPS proofs for every value of the
constants. Paths are relative to the repository's root; definitions keep the
names the source uses wherever the notation allows.

    tlc -workers 2 -config CallReliable.cfg MCCallSystem     # any run below
    tlapm CallSystem_proofs.tla                              # any *_proofs module

## 1. What is in the repository

The repository holds the homework and the two projects of a networking course.
Each directory is a program of its own; they share no code. In the order of how
much they do:

| Part | Source | State it keeps | Operations | Modules |
|---|---|---|---|---|
| Streaming proxy, signalling | `Project2/main.cpp` | `register_table`, `call_port`, detached threads | REGISTER, CALL, ACK_CALL, CALL_FAILED; start of a session thread, what it learns, its end | `CallProxy` |
| Its client | `Project2/p2_sample_client.js` | signalling socket, media sockets, timers | registration timer, handlers of ACK_REGISTER, CALL, ACK_CALL, CALL_FAILED, MEDIA_PORT | `CallClient` |
| Its media threads | `Project2/main.cpp` 217-275 | `svc_user`, `svc_peer` | learn the two ends, relay, return | `MediaSession`, `MediaRelay` |
| Router with NAT | `Project1/` | trie of networks, ARP table, `transtable`, `portset` | insert, find; forward, translate out and back, report | `RouteTrie`, `Router` |
| Weather proxy | `8/weather_server.js` (= `7/`) | `cacheArray`, one closure per request | GET /weather/:zip, upstream 'data' and 'end' | `WeatherCache` |
| HTTP client (HW3) | `3/main.cpp` | receive and header buffers, lengths | parse the URL, connect, send, receive and print | `UrlParse`, `HttpRead`, `HttpClient` |
| HTTP and HTTPS client (HW5) | `5/` | the same, and the BIO | the same, and certificate check, destructor | the same |
| Fork server (HW4) | `4/main.cpp` | listeners, descriptors, children | read the configuration, set up, poll, accept, fork, exec | `ForkServer` |
| Multicast chat (HW2) | `2/main.cpp` | table of persons, shared by two threads | announce, receive, send to all or to one | `MulticastChat` |
| Rendezvous client (HW1) | `1/KeWu_main.cpp` | one socket, one peer | GET_ADDR, chat | not modelled |
| Weather page | `7/HW7.html`, `8/HW7.html` | the page | click, answer | not modelled |
| Back-pressure pipe | `8/gzip.js` | paused or not | data, drain, end | not modelled |
| Table files of the router | `Project1/RoutesAnalyser.cpp` | none | text processing | not modelled |
| Class examples, scratch programs, test driver | see `PROJECT.json` | none | single-shot | not modelled |

### How the parts interact, and what is hard

*Streaming proxy.* Clients talk to the proxy's port 34567 by UDP. A client
registers its name every ten seconds and, if it was given a second name, sends a
CALL right behind its first REGISTER without waiting for the answer. The proxy
forwards the CALL; the callee's ACK_CALL makes the proxy pass it on, take the
next port number, announce it to both with MEDIA_PORT and detach a thread on a
socket bound to it. Both clients then open a media socket each and send to that
port; the thread learns their source ports from the first packets and relays.
Hard: no order, no delivery and no single delivery is guaranteed; everything the
proxy knows is in memory, so it may forget while calls are under way; names are
looked up without a test; `bind` failures are ignored; the thread's two tests
are made on one packet one after the other; a session dies of one stray packet.
Correct means: calls of different users are never mixed up, nobody is connected
without an accepted call or to himself, the port announced is the port served,
the proxy does not die of what clients send, and calls and registrations end.

*Weather proxy.* One node process; the callbacks of different requests
interleave between any two chunks of an upstream answer. An entry `{}` is put
into the cache before the fetch and filled by its 'end'. Hard: requests that
arrive meanwhile; an upstream that fails (nobody handles 'error'); time. Correct
means: no answer is mixed of two fetches or served for another place, one fetch
at a time, an empty entry is filled, cached answers are fresh.

*Router.* One thread, one packet at a time; the difficulty is in the data:
networks inside networks, inserted in text order, and long sequences of packets
whose ports collide. Correct means: longest match; an address and port once
given out stand for one host for good; answers get back; ports are ports.

*HTTP clients.* One thread each, against a TCP stream that may be cut into
pieces anywhere and may end anywhere. Every step reports its errors to stderr and
`main` goes on with the next one whatever happened. Hard: the header ends inside
a piece, whose rest is body; counting what is still to come; a URL whose path has
colons and slashes of its own; going on after a failed connection or a failed
certificate check. Correct means: the server is asked for what the URL says,
over https only if its certificate names the host; what is printed is the body,
all of it; the client ends.

*Fork server.* One process that polls several blocking listeners, and one child
per connection, which inherits every descriptor the server has at that moment.
Hard: what changes between `poll` and `accept`; a set-up that fails half-way and
is not looked at; a `fork` that fails; a descriptor too many in the wrong
process, which keeps a connection open. Correct means: each connection gets its
own line's command, however late its child gets to run it, stays open while it runs and is closed after it, and whoever
waits is accepted.

*Multicast chat.* Three threads per run, on several machines, on UDP. Hard: the
table is written by one thread and read by another without a lock, in several
steps on both sides; announcements are lost; runs end and others begin under the
same address; exceptions that nobody catches end a run. Correct means: a run dies of
the three causes the code has and of no other (`CrashesAreKnown`), no entry
stays half made, private messages go to machines of the person named, and
members get to know each other.

`PROJECT.json` lists each hazard at its line, and the properties that cover it.

## 2. Modules and their relation to the code

    CallNetwork  <- CallProxy  <-+
         ^                       +- CallSystem <- MCCallSystem, CallSystem_proofs
         +------ CallClient  <-+
    Switchboard  <- (INSTANCE) CallSystem
    MediaRelay   <- (INSTANCE) MediaSession <- MCMediaSession, MediaSession_proofs
    RouteTrie    <- MCRouteTrie, RouteTrie_proofs
    Router       <- MCRouter, Router_proofs
    WeatherCache <- WeatherCache_proofs
    UrlParse, HttpRead <- HttpClient <- MCHttpClient, HttpClient_proofs
    Inetd        <- (INSTANCE) ForkServer <- MCForkServer, ForkServer_proofs
    AddressBook  <- (INSTANCE) MulticastChat <- MCMulticastChat, MulticastChat_proofs

**CallNetwork** is the UDP network, external to the program: two sets of
datagrams, which overtake each other as members of a set do. Identical datagrams
in flight are one; a second one would do nothing the first, duplicated, could
not. Those whose type is in `Lossy` may vanish; with `Duplicating` a received one stays
and may be delivered again, or never, which covers loss. A *client* is one run
of the client program and stands for the address of its socket too. That the
system might give a dead run's port to a later run is not modelled.

**CallProxy** has one action per branch of `main()` (lines 315-356), with all
the calls it makes: `RegisterUser`/`RejectName` (`register_user`), `ProcessCall`
(`process_call`), `FailCall` (`pass_call`), `AcceptCall` (`pass_call`,
`call_port++`, `set_media_path`). `PassCallCrashes` is `register_table[name][0]`
on an empty vector: a read through a null pointer, which kills the process. The
test on both names in `set_media_path` is not in the model because it cannot
fail: `pass_call` has just looked the same names up. `SetupSock` is the 16-bit
port and the ignored failure of `bind`. `Restart` is a new process: an empty
table and `call_port = 5000` again. The vector in `register_table` is modelled as
it is, an ever growing one of which only the first address is read.

A thread is a member of `sessions`, whose ports and hosts are those it was
started with (`StartedSession`). Each packet of a media socket that reaches it is
a `SessionReceive`: `Learn` is a pass of the first loop, with both tests on one
packet (`LearnUser`, then `LearnPeer`); `GiveUp` is the second loop's return on
a packet of a third source, after which `third` names it and the thread is gone
(its socket stays bound, so nothing else changes). Relaying changes nothing here
and is left to MediaSession. A media socket is its client and its number there
(`Socket`), and each is taken to have a port number of its own; that the code
compares only host and port number, and cannot tell two sockets of equal ones on
two machines, is in section 5. No packet is sent from a socket after its client
has ended, so what is on its way then counts as lost.

**CallClient** has one action per handler of the script, plus its start and its
end. The handlers of CALL and MEDIA_PORT test `to == myName` and otherwise do
nothing; the model has only the first case, since `NoticesReachTheirName` says,
checked and proved, that the second never occurs. The sample client always
accepts (`Math.random() < 1`); `Answers` also allows a client that hangs up,
which the proxy has a branch for. `accepted` is a history variable.

**CallSystem** composes the three, states the fairness and the properties.
`MediaStep` is a packet from a media socket to the thread whose socket is bound
to the port the client was told; none need ever be sent.

**Switchboard** is what setting up calls promises, with neither datagrams nor
processes: a call is made (`Call`), then agreed to (`Agree`), then connected
(`Connect`): a port this run of the proxy has not given out goes to exactly the
two, who are told of it in one step; what they know may be forgotten (`Forget`).
In the refinement `Board`, `called` is what the running and ended clients were
started with (`Called`), `agreed` is `accepted`, `given` the ports from 5001 to
`call_port`, and `uses` what MEDIA_PORTs in flight and media sockets say.

**MediaSession** is one `start_session` thread. `Learn` is one pass of the first
loop with both tests on one packet, the second seeing what the first has set
(`svcUser'`); the packet itself is thrown away. `RelayFromUser`,
`RelayFromPeer` and `UnrecognizedSource` are the second loop. `CString` is what
`strlen` leaves of a payload. **MediaRelay** is what such a port promises:
`Connect` two different sockets on the right machines once, then `Relay` from
one to the other, no more. In the refinement `ends` is empty until both services
are known, so the step of `Learn` that finds the second of them is `Connect`.

**WeatherCache** has the three cases of the request handler (`NotInCache`,
`RecordExpired`, `RetrieveCached`), the callbacks (`OnData`, `OnEnd`), and the
ways the upstream fails: `Unreachable` (an unhandled 'error' ends node),
`BreaksOff` (old nodes emit 'end', newer ones nothing this code listens to). A
chunk is named by the fetch it belongs to. Time is in ticks, `Lifetime` stands
for half an hour; `servedAge` and `setBack` are histories. No MC module is
needed: all its constants are plain values.

**RouteTrie** is `createBinaryTrie` with `BinaryTrie::insert`, one network a
step, and `BinaryTrie::find`, one bit a step. A node is named by the bits on the
way to it. A network is its bits and its size, and its text, which `find`
returns, is identified with it; the model inserts in any order, the code in the
order of the texts. A node without a network has the bits 0, as in the code:
`Useful` cannot tell it from one with the network 0.0.0.0/8.

**Router** is `route_and_report`: `Forward`, `TranslateForward`/`NextPort`/
`FreePort` and `TranslateBack`. The program has one thread; the steps are cut
only at its one loop, the search for a free port. `Info` is what
`report(search(host))` returns (RouteTrie's subject). Ports are texts because
the search works on a `stringstream` whose text is never cleared: `NextPort`
models reading position, buffer and number. The colon `substr` leaves in front
of the port of an answer is kept (`Colon`).

**UrlParse** is `parse_URL`, one pass over the characters that switches between
parts by the colons and slashes counted so far. A URL is a sequence of tokens:
`":"`, `"/"`, and names, whose characters the loop treats alike; `ForHost`,
`ForPort`, `ForPath` are the three flags at one character. `Message` and
`ClosingMessage` are the requests the two clients generate.

**HttpRead** is `recv_print` of HW3 and `Connection::read` of HW5. A byte is
named by its place in the response, so that "the body, in order, once" can be
said of what is printed. The loop's branches are actions: a piece that does not
fit (`HeaderTooLarge`), one that does not complete the header (`MoreHeader`), one
that does (`FindLength` in HW3, `FirstBody` in HW5), body (`CountedBody`, which
may end HW3's loop; `Body`), and the end of the stream. The header's text is
abstracted to its size and the length it declares.

The parts of a URL are copied into arrays of 80 bytes without a test
(`3/main.cpp:304-306`, `5/main.cpp:112-116`), and what a longer part does is
undefined. `UrlAssumption` therefore admits only URLs whose parts fit
(`FitsArrays`): each has fewer than `N` = 80 characters, names counted by `Size`,
and so has HW5's scheme with the two slashes it is collected with.

**HttpClient** is both `main`s, the connection and the server. `conn` tells what
`sockfd` or the BIO is: besides working connections there are a socket that is
none or not connected, a null BIO, one never assigned (`NoContext`: the
constructor does not set it) and one that has been freed (`ConnectTls` after a
failed check). What OpenSSL does with one of the last two is undefined: the call
fails, or kills the program; that it might still send something over a
connection `BIO_free_all` has closed is not considered. A server that was asked
to close the connection (HW5) does so after its answer.

**Inetd** is the life of one connection: absent, waiting, open, running, over,
closed. In the refinement `Life` the phase of a connection is read off the
queues, off who holds its descriptor and off what its child does (`Phase`). The
command of a line is its own, or, if it has none, that of the last line before it
that has one (`Command`): that is what the code does, section 5.

**ForkServer** is `main` of HW4 with the processes it makes. `pc` goes from
`read_config` (`ReadLine`, one line a step) and `setup_listeners` through the poll
loop and `do_accept`. The command of a connection is passed as the code passes
it: from `cmd_temp`, which keeps its value when a line has none, into `cmdList`;
from the index of the listener that is ready (`Scan`) into the argument `cmds` of
`do_accept`; by `fork` into the child's copy (`task`), which sleeps while the
server goes on with `cmds` of its own; and from there to `execl` (`served`). The
three arrays of the server are indexed alike, which a model with a wrong index
would show. What a connection should get, `Command` of the line it came in by,
is computed from the lines alone. `holders` says which processes have a
descriptor of a connection, which is what decides whether it is open.

A set-up that stops leaves "garbage" in the array, which `poll` may find ready or
not and `accept` fails on; garbage that happens to name another listener, and
`n_listeners`, which is never initialised (the model takes it to be zero before
the lines are counted), are not modelled. `Garbage` is what the first line's
variables hold when it is empty. A `poll` that fails ends `main` (`PollFails`);
the children live on, with copies of the listeners, and as long as one does the
kernel goes on queueing connections nobody will accept (`ListenerCloses` is the
end of that). What the inherited listeners do to a server that is started again
is not modelled. Queues, resets and backlogs are the kernel's.

**MulticastChat** is a run of HW2 per element of `Runs`, with its three threads:
`announcer`, `receiver` and `main`. `addr_table[name].push_back(...)` is
`MakeKey`, `PushIp` and `PushPort`; `send_message_to_person` is `FindPerson`,
`ReadIp`, `ReadPort`, `SendToPerson`, and any step of the one may come between
two of the other. `Racing` says when both are at one entry or the tree is being
changed; then a read may give what is there or crash. The vector is the code's:
address, port, address, port, of which only the first two are read. `Surviving`
names the runs whose announcement, a pointer into a temporary string, still reads
as it was; `Deaf` those whose IP_ADD_MEMBERSHIP fails; `Named` those during whose
time the system has a service name for port 23456.

What a text is to the receiver is decided by its beginning, whoever sent it and
whomever it was for: `Text` has announcements, texts that are ANNOUNCE and
nothing more (`Short`), and the rest (`Chat`). A line to everybody begins with
`From:` and is always of the last kind; a line to one person is sent as typed and
may be any (`Talks`). `RecvShort` is `message.substr(9)` beyond the end of the
text, and `StoiThrows` is `stoi` on a service name: nobody catches either, and
the process ends. Two things are assumed: texts are shorter than the 256-byte
buffer, and an announcement whose string is gone reads as no announcement or as
the beginning of one, not as that of another person.

**AddressBook** is what the table is for: one address per name, noted once and kept while the run is on,
and messages that go there. The names somebody goes by (`NamesOf`) are his own and
those he types announcements of. In the refinement `Book` the address of a name is the
first element of its entry, whatever follows; a run that has ended has none.

The `... of X` operators marked "Mutant of X" are plausible mistakes in the
code; each property is violated when its mutant takes X's place. No other
definition uses them.

## 3. What TLC checks

"Distinct" is the number of distinct states.

| Run | Properties | Instance and what it shows | Distinct |
|---|---|---|---|
| CallReliable | CallCompletes, ClientGetsRegistered | Two users and one with an illegal name, lost REGISTERs, reordering, hang-ups, ends of clients, one restart of the proxy: a call that finds both registered is settled, and every legal name is registered in the end | 99k |
| CallUnreliable | CrashOnlyAfterRestart, NoticesReachTheirName, NoMediaWithoutAccept, PortServesOnePair, AnnouncedPortIsServed, ImplementsSwitchboard | Two users call a third at once; loss, repetition, reordering, hang-ups, one restart: only an answer that outlives a restart kills the proxy; no media path nobody accepted; ports and threads of the two calls are not mixed up, and a thread that has heard one socket of each client stays; all of it is a switchboard | 247k |
| MediaOneMachine | SessionLasts, RelayedBetweenEnds, MediaFlows, ImplementsRelay | Both clients on one machine (`Project2/README`), where every packet passes both host tests, and a third socket there, over a lossy network | 29k |
| WeatherFaults | AnswersAreUnmixed, OneFetchPerZip, PendingIsFilled | Three requests, two places, clock set back, upstream failures, restarts | 112k |
| RouteLongest | LongestMatch | All tables of at most three networks of 3-bit addresses, all orders, all addresses | 20k |
| RouterNat | NoSharedEndpoint, MappingsAreKept, AnswersReachTheSender, SearchRunsOut, SearchEnds | Colliding ports, one of which grows a digit, expired packets, unasked packets to the public address from both sides | 3k |
| HttpClient | TypeOK, AsksForUrl, ChecksCertificate, OutputIsBody, OutputIsWhole, RefusesOnlyLarge, ClientEnds | Both programs; URLs with and without port and path, a path with colons and slashes; certificates verified or not, with every set of names; headers below, near and at the limit, bodies of none to three bytes, with and without a length, whole or cut short, then kept, closed or reset; all ways to cut them into pieces; every failure on the way | 83k |
| ForkServer | RightCommand, NoDescriptorLeaks, HungUpOnlyWhenOver, BlocksOnlyAfterReset, ImplementsInetd, WaitingIsAccepted, ConnectionEnds | Two lines with commands, one without, and an empty one; two clients that come and reset; socket, bind, listen, poll, accept, fork and execl may fail; a kernel that drops reset connections | 56k |
| MulticastChat | CrashesAreKnown, EntriesAreWhole, PrivateGoesToTheName, ImplementsAddressBook, MembersGetKnown | Ann, who cannot join the group; Bob, who types announcements in her name, and ANNOUNCE alone, to himself; Bob again on his machine, where the port has a name by then, who talks to Ann and to all; announcements lost, dropped at full sockets, spoiled, ended | 132k |
| CallStaleAddress | AddressIsUpdated, violated | see section 5 | |
| WeatherStale | CachedAnswersAreFresh, violated | see section 5 | |
| RouterPort | EndpointsHavePorts, violated | see section 5 | |

The type invariants are proved for every instance (section 4) and, but for
HttpClient's, in no run; nor is `EndsDiffer`, which is proved too and is part of
what MediaRelay asks of `Connect`.

**Bounds.** `MaxCalls` (ports a process hands out), `MaxRegs` (registrations
remembered per user), `MaxRestarts`, `MaxMedia` (media sockets per client),
`MaxTime`, `MaxMappings` are counters the code does not limit; `Chunks` and
`Width` size the data. Two calls are enough for two calls to meet; a second
registration is the first that is ignored; one restart separates a table that
knows a name from one that does not, two let it happen again; two chunks have
something between them for another callback to run in; with width 3 a table
holds a network, one inside it and one inside that, or one beside it; three
mappings let the search append twice. `CONSTRAINT Bounded` (CallUnreliable) cuts
off behaviours in which all three clients are up and somebody refuses a call or
the proxy is restarted: both happen among two users, and two calls meet among
three, in one run. Nor does it go on after a client has opened a second media
socket while all three are up; and the threads hear packets only as long as two
clients have been up, the proxy has not been restarted and no refusal is on its
way: that is where one client's second socket, from a MEDIA_PORT delivered
twice, is the third source. The theorem has no such bound. `Names` (HttpClient) are the texts without colon
or slash that the URLs are made of. `HeaderLimit` 6 and `PieceMax` 3 (8193 and 2048 in the code) leave room for two
pieces and let a piece hold the end of the header and the whole body, or reach
the limit; `RequestSize` 2 is a request sent in one part or two. With `Backlog` 2
both clients can be in one queue. `MaxEntries` 4 is two announcements of one
name, the second of which the code must not read; `QueueMax` 1 is a socket that
drops whatever comes before it is read, so that losses happen at every point;
both MulticastChat bounds are on data the code does not limit. The theorems of section 4 do not depend
on any of these values, except where stated.

`CHECK_DEADLOCK FALSE` stands where the instance really stops: all clients have
ended, all requests are answered and the clock is at its bound, the client has
printed its answer, or the fork server waits in `poll` or in `accept`.

**Fairness.** *CallSystem*: the proxy's loop reads what has arrived, registrations
apart (WF; what follows from calls is finite, so all of it is read), node runs a
client's handlers on what is not an ACK_REGISTER (WF per client) and
its interval timer (WF). A REGISTER is sent every ten seconds, so a network that
loses some but not all of them is strongly fair to it (SF); no such claim is
made of a CALL, which is sent once, and CallCompletes is checked without loss.
Nobody is obliged to start, stop, or restart anything. *MediaSession*: the
one-second timers (WF) and, again because packets are sent for ever, SF for
their reception. *WeatherCache*: a weather service that can be reached answers
(WF); no fairness for failures, restarts or time. *Router*: a loop goes on (WF).
No fairness is asked of media packets in CallSystem.
*HttpClient*: the program goes on and a server that has a whole request answers
it (WF). *ForkServer*: the server runs (WF), unless `poll` fails, `accept` does not fail for ever when
a connection is there (SF), commands end (WF per child); no client is obliged to
anything. *MulticastChat*: the receiving threads of runs that could join the
group run (WF); announcements are sent every 25 seconds, so a network and a
socket that drop some do not drop all (SF per announcer and listener), and not
every one that is received is spoiled (SF). Only runs in `Surviving` are
promised anything. Nobody is obliged to start, stop or type.

## 4. What is proved

TLAPS checks these for all values of the constants that meet the named
assumptions (`NetworkAssumption`, `ProxyAssumption`, `ClientAssumption`;
`RelayAssumption`, `SessionAssumption`; `TableAssumption`; `RouterAssumption`;
WeatherCache's `AbsentAssumption`; `ReadAssumption`, HttpClient's
`ClientAssumption`, `UrlAssumption`; `ForkAssumption`; `ChatAssumption`), which
say no more than what the constants are, with the exceptions named below.

| Theorem | States | Rests on |
|---|---|---|
| CallSystem_proofs!Typing | `TypeOK` | itself, one step per action |
| CallSystem_proofs!CrashNeedsRestart | `CrashOnlyAfterRestart` | `AnswersNameRegistered` |
| CallSystem_proofs!NoticesAreForTheReceiver | `NoticesReachTheirName` | `AddressesAreOwn` |
| CallSystem_proofs!MediaNeedsConsent | `NoMediaWithoutAccept` | `AcceptsAreRecorded` |
| CallSystem_proofs!PortsAreNotShared | `PortServesOnePair` | `PortsAreFresh` |
| CallSystem_proofs!AnnouncedPortsAreServed | `AnnouncedPortIsServed`, given `PortsAreFree` | `PortsHaveThreads`, `NoticesGoToAddresses`, `SourcesAreUsers` |
| CallSystem_proofs!SwitchboardImplemented | `ImplementsSwitchboard` | `AcceptsAreRecorded`, `CallsWereMade` |
| MediaSession_proofs!Typing, EndsAlwaysDiffer, OnlyEndsTakePart | `TypeOK`, `EndsDiffer`, `RelayedBetweenEnds` | `EndsLearned` |
| MediaSession_proofs!GivesUpOnThird | `SessionLasts` | `EndsLearned` |
| MediaSession_proofs!Implementation | `ImplementsRelay` | `EndsLearned` |
| RouteTrie_proofs!Typing, FindsLongest | `TypeOK`, `LongestMatch` | `IInv` |
| Router_proofs!MappingsStay, EndpointsAreUnshared, AnswersArrive | `MappingsAreKept`, `NoSharedEndpoint`, `AnswersReachTheSender` | `IInv` |
| Router_proofs!TypeCorrect, SearchGetsAhead | `TypeOK`, `SearchRunsOut` | `SearchIsText`, `PortsAreTexts` |
| WeatherCache_proofs!WeatherTypes | `TypeOK` | `TypeInv` |
| WeatherCache_proofs!OneFetch, Unmixed | `OneFetchPerZip`, `AnswersAreUnmixed` | `FetchInv`, `UnmixedInv` |
| HttpClient_proofs!HttpTypes | `TypeOK` | itself |
| HttpClient_proofs!PrintsTheBody, PrintsAll, RefusesLargeOnly | `OutputIsBody`, `OutputIsWhole`, `RefusesOnlyLarge` | `IInv` |
| HttpClient_proofs!AsksVerifiedServersOnly | https asks servers only whose verified certificate names the parsed host | `VerifiedInv` |
| HttpClient_proofs!ServerIsAskedForUrl, UrlHostIsCertified | `AsksForUrl`, `ChecksCertificate` | `PartsAreFound`, `ParsedInv`, `VerifiedInv` |
| ForkServer_proofs!ForkTypes | `TypeOK` | `TypeInv` |
| ForkServer_proofs!DescriptorsAreClosed, CommandsKeepTheirConnection | `NoDescriptorLeaks`, `HungUpOnlyWhenOver` | `HolderInv` |
| ForkServer_proofs!CommandsAreRight, BlocksAfterReset | `RightCommand`, `BlocksOnlyAfterReset` | `CommandInv`, `FoundInv` |
| ForkServer_proofs!InetdImplemented | `ImplementsInetd` | `LifeInv`, `HolderInv` |
| MulticastChat_proofs!ChatTypes, DiesOfThreeCauses, EntriesArePairs, PrivateArrives | `TypeOK`, `CrashesAreKnown`, `EntriesAreWhole`, `PrivateGoesToTheName` | `ChatInv` |
| MulticastChat_proofs!AddressBookImplemented | `ImplementsAddressBook` | `BookInv` |

None of the properties is inductive by itself.

- *The proxy lives.* An answer is processed long after the call that caused it;
  what is inductive is that, before any restart, every CALL and every answer
  still in flight names registered users only, and that names are never removed.
- *Notices.* They are sent to element 0 of a user's addresses, so every address
  in the table, and every REGISTER on its way to it, must be the user's own.
- *Consent.* MEDIA_PORT comes from an ACK_CALL, so every ACK_CALL in flight must
  have its accept recorded.
- *Ports.* Two calls cannot share one as long as `callPort` is at least every
  port anybody was told to use, in a notice or in a socket. That the thread
  listens to the right machines for good needs that a user who is told of a port
  is registered: only then does the first address stay what it was
  (`PortsHaveThreads`). That the thread stays needs that only the two clients at
  those addresses are told of the port (`NoticesGoToAddresses`), so that whatever
  it has heard is theirs, and that the two sources it has learned and the third
  differ (`SourcesAreUsers`): of three sockets of two clients two are of one,
  which is the exception the property names (`HearsTwoOfOne`). That exception is
  real: a MEDIA_PORT delivered twice, or a second ACK_CALL, opens a second
  socket, and its packet ends the session. The theorem
  assumes that the ports the proxy hands out are free and below 65536
  (`PortsAreFree`), which the code does not make sure of.
- *Switchboard.* `AcceptCall` is `Connect`: the ACK_CALL it reads has its accept
  recorded (`AcceptsAreRecorded`), the port is beyond all that were given out, and
  the uses that are new are those of its two MEDIA_PORTs (`ProxyUses`). A client's
  answer is `Agree`, which needs that the CALL it answers was made: every CALL in
  flight or at the proxy names somebody who called (`CallsWereMade`). Every other
  step of proxy, client or network at most forgets uses.
- *Media.* `EndsLearned` adds to the two properties what holds while only one
  end is known: nothing was relayed, and whoever is known has sent a packet.
  `Implementation` is the proof that `Learn`, when it finds the second end, is
  `Connect`, and that every other step is one of MediaRelay's or none.
- *Longest match.* The trie holds the inserted networks, the ways to them and
  nothing else (`TrieHoldsNetworks`), and on the way `find` has taken there is
  no useful node beyond the one it remembers (`OnItsWay`). The theorem assumes
  that the table names no network twice (`TableAssumption`).
- *NAT.* Every key's port is in `portset`, so a port that is not makes a new key
  (`PortsAreTaken`); every translation ever made is still in the table
  (`TranslationsAreHeld`).
- *The search ends.* The stream's text only grows, and what is read of it is the
  number it stands for, written again without loss: `Number(Digits[n]) = n`, and
  back for texts without a leading zero. Every pass after the first appends a
  number to the text, so the port it tries is longer than the last, and fewer of
  the used ones are as long (`InTheWay`). `Digits` and `Number` are recursive
  functions; that they exist and are what their equations say is proved by hand,
  with induction in the form of the least number of a set (`Induction`,
  `CompleteInduction`), since the library's theorems cannot be instantiated here.
- *Giving up.* `EndsLearned` also says that whoever is known has sent a packet; the
  two ends differ, and the packet the thread gives up on is from neither.
- *Weather.* That one request fetches a place needs that whoever fetches has
  marked the place with the empty entry, and that no entry is from the future,
  or an entry marked as fetched could expire under its fetch: `FetchInv` holds
  while the clock was never set back, which is also the property's condition.
  That answers are unmixed needs the same of half-received bodies and of the
  cache (`UnmixedInv`).
- *Responses.* `IInv` says where every received byte is: in the header buffer
  while the header is not complete (`HeaderIsBuffered`), then behind it, printed,
  with HW3's count the rest of the body (`BodyIsPrinted`); and that there is an
  answer only to a whole request over a working connection, so that `recv` on
  any other never yields a byte (`AnswerIsAskedFor`). `VerifiedInv` says that a
  BIO is open only after both tests of its certificate, and that nothing goes
  out over another one.
- *URLs.* For any scheme, host, port and path that fit the arrays, `PartsAreFound` says that
  `parse_URL` finds them again. The colons and slashes before each place are
  counted part by part (`SlashesBefore`, `ColonsBefore`; from the path on only
  that there are three slashes, `PathIsCounted`, since the path may have any); so
  each flag is up in one interval (`FlagsOf`), and what is taken of an interval is
  that piece of the URL (`TakenInterval`). With `VerifiedInv` this makes the host
  that is checked the host the user typed. A path must be empty or begin with a
  slash, and hosts in brackets, with colons, are excluded (`UrlAssumption`): the
  code does not know them.
- *Descriptors.* The server holds at most the connection in its hand
  (`ServerHoldsPeerOnly`), so a fork copies that one and no other.
- *Inetd.* A phase must be well defined and move only forward: `LifeInv` says
  that the queues are lists without repetition of connections nobody has taken,
  that the one in the server's hand has no child before the fork and one (if only
  a failed one) after it, and that a child holds its own no longer than it lives. `CommandInv` follows a command from the
  variables of `read_config` through `cmdList`, the argument of `do_accept` and the
  child's copy.
- *accept.* What `poll` has found stays in the queue until it is accepted or
  reset: only the server takes connections out (`FoundInv`).
- *Chat.* A run dies in three actions; that nobody but a sender who can have sent it
  such a text is behind `RecvShort` is an invariant of the datagrams on their way.
  `EntriesHold` says of every entry that it alternates addresses of the
  person named with ports, and lacks its second half only while the receiver is
  there; `MainHolds`, that what main has looked up stays in the table. Somebody
  who `Known` once stays known, which carries private messages from the
  announcement through table and main to the network (`DatagramsHold`).
- *Address book.* Appending does not change a first element (`FirstStays`), so
  what main holds between its two reads and its `sendto` is still the address in
  the book, however far the receiver got meanwhile (`SenderHolds`); and a run
  begins with an empty table (`NewIsBlank`).

The theorem about HW3 and HW5 assumes of a server that a Content-Length, when
there is one, is the length of the body (`ReadAssumption`); that about the chat
that the text of the port is no host's address; that about the router that
`nat.txt` gives each interface an address, and ports have no leading zeros
(`RouterAssumption`).

Only model-checked: the liveness properties (`CallCompletes`,
`ClientGetsRegistered`, `MediaFlows`, `PendingIsFilled`, `SearchEnds`,
`ClientEnds`, `WaitingIsAccepted`, `ConnectionEnds`, `MembersGetKnown`), which
need ENABLED; every safety property of the passing runs is proved. The mutants
and the MC modules play no part in the proofs.

## 5. Where code and documents disagree

Shown by a run that TLC finds violated:

- **CallStaleAddress.** `register_user` appends the new address and every reader
  takes the first, so a user is served at the first address for good; the comment
  at `Project2/main.cpp:152` says "always update the address without checking".
  Running the client again, the advice of `Project2/README:17`, does not help.
- **WeatherStale.** The age is `timecreated - now`, negative while time goes
  forward: entries never expire. `8/README:7` says the time check makes the
  result accurate.
- **RouterPort.** The third packet with source port 10001 goes out from port
  1000210003, since the stringstream keeps its text.

Met while modelling, without a run of their own:

*Streaming proxy, router and weather proxy:*

- `AnnouncedPortIsServed` fails once `bind` fails: the 353rd call of a process
  is given 5353, where a machine may have mDNS, the 29567th the proxy's own
  34567; after call 60535 the port no longer fits 16 bits.
- Two clients on two machines whose media sockets happen to have the same port
  number are never connected: neither test of the first loop holds for the second.
- A second media socket of one client, which a MEDIA_PORT delivered twice makes it
  open, ends the session for both (`Project2/main.cpp:267-271`); the port stays
  bound and nobody is told.
- Media is cut at its first zero byte (`strlen`, line 262).
- The port of a translated answer keeps its colon, `192.168.1.99::10001`; the
  expected output (`Project1/p1_part2output.txt`) has one colon. A host on a
  local network without an ARP entry is reported as `eth1-Not Found`.
- A network whose bits are all zero, such as 0.0.0.0/8, is never found; a table
  without a default route makes `main` read element 0 of an empty vector. Every
  packet that leaves through a translated interface takes a mapping for good,
  also one discarded because its time is over, and a second one for the same
  source; packets to the public address that answer nothing are translated too.
- A request for a place whose first fetch is under way is answered with an empty
  body (`8/weather_server.js:36`).

*HTTP clients:*

- HW3 waits once more when the whole body has come with the header; a server that
  keeps the connection leaves it there (`3/main.cpp:256`, `ClientEnds`). The
  comment at line 273, "no need to wait", holds for the other case only.
- `RefusesOnlyLarge` cannot be "refuses only headers of more than 8K": body bytes
  that come with the header count, so a smaller header may be refused when it
  comes in unlucky pieces.
- HW5 writes to, reads from and frees again a BIO it has freed after a failed
  certificate check (`5/Connection.cpp:222`, `Connection.h:61`), and does the same
  with a pointer that was never set when there is no context.
- Neither reports a body that was cut short; `Connection::read` returns a length
  it never sets.

*Fork server:*

- `n_listeners` is counted up from an uninitialised variable (`4/main.cpp:193`).
- After a failed set-up, and a trailing empty line is enough for one, the loop
  polls an unbound socket, which hangs up at once: the server serves, and spins.
- A connection that is reset at the wrong moment leaves the server in a blocking
  `accept`, deaf to its other listeners, on systems that drop it from the queue.
- A line without a command runs the command of the line before. Children inherit
  the listeners, so a server started again while one runs cannot bind its ports.

*Multicast chat:*

- The table is read while it is written (`2/main.cpp:85`, 175): a run may die.
- A text that is ANNOUNCE and nothing else kills who receives it: `message.substr(9)`
  (line 174) throws `out_of_range`. It can be typed to one person, or be what is
  left of an announcement whose string is gone.
- A person's first address is kept for ever; somebody else may run there now.
- The announcing thread reads a string that is gone (line 218), and ends for good
  at the first failed `sendto` (line 44).
- The first datagram is put into a buffer that was not cleared, so the first name
  announced may have a tail of what was there.
- The port is a service name where the system has one for 23456, and `stoi` (line
  90) then throws at the first private message. A private message that begins with ANNOUNCE is taken for an announcement.

## 6. Not modelled, and why

What was left out after the parts above, in the order in which it would be added:

1. *Media itself together with signalling.* CallSystem has what a thread learns and
   what ends it, MediaSession what it relays. Ports given out again after a restart
   while the clients of older calls still send to them are in CallSystem, and the
   code connects such strangers; the properties are about a proxy that was not
   restarted. The limit of descriptors is left out: every session keeps a socket
   for good, and nothing in the code reacts to the limit.
2. *Rendezvous client* (HW1): the server it depends on is not in the repository.
   It takes whatever datagram comes first for the answer (`1/KeWu_main.cpp:164`).
3. *Weather page*: shows the answer that came last, whatever was asked last
   (`8/HW7.html:27`). *Back-pressure pipe*: a class example; its difficulty is in
   node's streams.
4. Datagrams are whole messages in CallSystem; that the tail of a long
   unrecognised one is read as the end of the next (`Project2/main.cpp:350`)
   would need texts.
5. Text processing without state (command lines beyond URLs, the router's table
   files), the class examples, the scratch programs and the test driver.
