# FileZilla Server: TLA+ verification project

TLA+ models of the parts of FileZilla Server whose correctness depends on
interleavings, ordering, timers and error paths: the passive port pool, the
FTP session, the channel that moves its bytes, the TCP server with its listeners,
the two components that slow down or keep out those who guess passwords, the
users while they are logged in, the processes that access files in their name,
and of the web interface the HTTP session and the authorizations.  TLC checks each on small
instances.  TLAPS proves the safety properties of every one of them for every
instance (section 14).

Source paths are relative to `src/`; most of the server is in
`src/filezilla/` below it, and is cited here without that prefix.

## 1. Inventory

### The program

`src/server` starts the FTP server, the administration server and, if
configured, the web server.  All of them are built from the same parts.  An
`event_loop` (of libfilezilla, not in this repository) is a thread with a queue
of events; an `event_handler` belongs to one loop, its handlers run one at a
time, and its destructor calls `remove_handler()`, which waits for a handler
that runs in another thread.  `event_loop_pool` hands out loops:
with `number_of_session_threads` 0, the default, everything runs on the server's loop,
otherwise each session runs on one of that many threads.

| Component | State | Operations | Talks to | Hard behaviour | Right when |
|---|---|---|---|---|---|
| Passive port pool (`port_randomizer.cpp`) | per port: leases and expiry per peer under a mutex; an atomic "connecting" flag outside it | find a port, copy, release, mark connected | every FTP session, from its thread | probes between the two halves of a release; retries after a failed `listen()` | one connecting session per port; leases counted; the search ends |
| FTP session and commander (`ftp/`) | current command, line buffer, pending operation, login, timers, data connection | command lines, results, socket and channel events, timers | client, file system, authenticator, port pool, server | late results, ABOR, lines that are answered while a command is executed, a data connection that ends before its command | each command gets one answer, in order; nothing is left behind |
| TCP server and listeners (`tcp/`) | accepted sockets, listener status, sessions, their number | accept, drain, register, end, kick, reconfigure | three kinds of thread | events of a listener that goes away; bans between the check and the registration | no socket forgotten; bans work; the count is right |
| Autobanner (`authentication/autobanner.cpp`) | failures and timer per address | a failed login, a timer | sessions, server | a timer that has fired and waits for the mutex | bans are deserved, last and end |
| Throttled authenticator (`authentication/`) | workers, waiting logins, failures per user and per address, two timers | attempts, results, stopping | sessions, the wrapped authenticator | cancellation at any point, one timer for many waiters, waiting with a mutex held | failures are charged, delay, are forgotten; logins are answered |
| File-based authenticator, shared users (`authentication/`) | users, groups, live shared users, session limits | authenticate, reload, change | sessions, administrator | users changed or removed while sessions use them | limits hold, changes reach the sessions |
| Channel, pipe, adders and consumers (`channel.cpp`, `pipe.cpp`, `buffer_operator/`) | buffers, who waits for whom, the done event | add, consume, shut down | sockets, files, sessions | wakeups lost between the two sides of a buffer; stale done events | every byte moves or an error is reported, once |
| Receivers (`receiver/`) | handles of pending answers | receive, abort, expire | all asynchronous calls | an answer for somebody who has gone | at most one answer, never to the dead |
| Virtual file system (`tvfs/`) | mount tree, permissions, counts of open files | open, list, rename, remove | commander, impersonator | paths resolved now and used later | no operation beyond the permissions |
| Impersonator (`impersonator/`) | pool of processes, queue of messages | call, answer, failure | file system | a process that dies with calls in flight | every call is answered |
| Administration protocol (`rmp/`), administrator (`src/server`) | messages, sessions, configuration | commands | everything above | commands among running sessions | changes apply atomically enough |
| HTTP server and web interface (`http/`), token manager | pipelined transactions, tokens | requests, authorization | file system, authenticator | a second login on a loop before the first is answered | answers in order, to the one who asked |
| Update checker, ACME client and daemon | timers, state of an order | check, renew, retry | HTTP client | retries, time that passes while off | eventually done, never too often |
| Loggers, address lists, serialization, utilities, GUI, tools | files, lists | formatting, conversion | everything | rotation of a log that others write to | not modelled; see section 13 |

`PROJECT.json` lists the same parts with their files (`components`), and the
places where this code is hard to test (`hazards`), each with the properties that
watch it.

### Plan

Ordered by how much of the server depends on a part and how hard it is to test.

1. `PortManager`, with its proofs: done.
2. `FtpDialogue` (what a control connection promises) and `FtpSession`, which
   implements it: done.
3. `TcpServer`, 4. `Autobanner`, 5. `ThrottledAuthenticator`: done.
6. `Channel`, with both pipes, the socket adapter and the operators at the far ends: done.
7. `SharedUsers`, with the FTP sessions that hold them: done, but for the limits.
8. `Impersonator`: done.
9. `HttpSession`; `TokenManager`, and `Authorizator`, which extends it: done.
10. Proofs (section 14): `SharedTablesProofs` (the port pool and the autobanner), `ThrottledAuthenticatorProofs`,
   `SharedUsersProofs`, `FtpSessionProofs`, `AuthorizatorProofs`, `TcpServerProofs`, `HttpSessionProofs`,
   `EventLoopProofs` (the impersonator and the channel): done.

The parts that are left (section 13) have few interleavings, or none.

How the modules relate: each stands for one component and has, as actions of its environment, what
its neighbours may do to it; what it needs of a neighbour is a property of that
neighbour's module.  `FtpSession` has the channel's done event, which `Channel`
shows to come once and in time; it has logins that are answered, which `ThrottledAuthenticator` shows;
`SharedUsers` has its own sessions, cut down to what they do with a user.
`Authorizator` uses the operators of `TokenManager` on a data base, `Channel` and `Impersonator` the queue of
`EventLoop`, and `FtpSession` is checked against `FtpDialogue`.  Definitions of the autobanner and of the impersonator that every
module has (`Init`, `Next`, `Spec`, `TypeOK`) begin with `AB` and `IM`, so that one module of proofs can extend two
components.

Runs are one instance per question.  A component's safety and liveness share a
run where the instance is small enough.  Several statements are one property
where they answer one question: `LinesAreAnswered`, `SocketsAreDealtWith`, `BansAreKept` and
`LoginsTakeTheirTime` are conjunctions of named parts, and the `TypeOK` of a module includes the structural
facts that its other properties rest on.

## 2. Passive port pool: `PortManager`

A session that is asked for a passive port (`session::get_data_local_info`)
makes a `port_randomizer`, leases ports from the pool and calls `listen()` until one
works, at most fifteen times.

| Code | Model |
|---|---|
| `port_manager::connecting_`, `entries_` | `connecting`, `entries` (one possible entry per peer) |
| `port_randomizer` members | `rnd[s]` |
| `data_port_lease_`, `num_tries_left`, the listening socket | `lease`, `tries`, `listening` |
| `do_get_port()`: the exchange of the flag, then the critical section | `Probe`, then `TakeSame`, `TakeNew`, `PutBack`, `Leave` |
| `release()`: entry under the mutex, flag after it | `ReleaseEntry`, `ReleaseFlag` (`ReleaseNothing` for an empty lease) |
| the loop of `get_data_local_info` | `StartPasv`, `Settle`, `ListenFails`, `ListenSucceeds`, `NoPortLeft` |
| a peer connects: `set_connected()`, then the listening socket goes | `Accept`, `CloseListener` |
| `close_data_connection()` | `CloseDataConnection` |

A step is one critical section or one unguarded access, so that sessions
interleave wherever threads can.  `tried` is a history variable.  Bounds: `MaxTries`
stands for the fifteen attempts, `MaxTime` for the clock, `TimeWait` for four minutes.

Run `ports`: two sessions of one peer and two ports, given in the wrong order; `TypeOK`,
`ConnectingIsExclusive`, `LeasesAreCounted`, `GivesUpAfterFullPass` and, if every thread goes on,
`PasvEnds`.  Two ports are needed for the order of the search; sessions of one peer may share a port, so that a lease is counted twice.
A unit of time lets a released port come free while another session searches (`TimeWait = MaxTime = 1`).
What section 14 proves holds for sessions of different peers too, which the second relaxation is about; `PasvEnds`
is not checked for them, since such an instance is too large for the liveness check.

Fairness: a thread that can go on again and again does; it is strong since threads compete for the mutexes of the pool, which
are held for a few instructions.  No client has to do anything.

## 3. FTP session: `FtpSession`, `FtpDialogue`

A session runs on one event loop, so a handler is one step.  The record `st` has a
field for each member that decides something: the line buffer (`inbox`, `stalled`, `wake`,
`queued`), the current command and what is in flight for it (`cur`, `ops`, `recv`, `nested`,
`authing`), login and timers, and the data connection (`lsn`, `port`, `sock`, `chan`,
`done`, `xfer`, `info`, `prev`), and the protection of both connections (`tls`, `protP`).

| Code | Model |
|---|---|
| `commander::process_buffer_line` | `ProcessLine` (`LineOutcomes`, `Accept`, `Execute`) |
| `act_upon_command_reply`, `respond<>` | `Replied`, `Reply` |
| answers of file system, authenticator, resolver | `OpResult`, `AuthResult`, `LookupEvent` |
| `session::on_socket_event` on the data sockets | `PeerConnects`, `ConnectDone`, `HandshakeDone`, `DataSocketError`, `ShutdownDone` |
| AUTH, `make_secure`, the handshake | `Secure`, `ControlSecured`; a handshake that fails is `ControlDone` |
| data and control channel done | `ChannelDone`, `DoneEvent`, `ControlDone` |
| `commander::on_timer_event`, `set_timeouts` | `LoginTimer`, `ActivityTimer`, `SetTimeouts` |
| `on_shared_user_changed_event`, destruction | `UserRemoved`, `Destroy` |

Arguments and paths are abstracted to the outcomes they can have; commands that behave alike
share a name.  `BLANK` is a line that begins with a space: it is ignored if nothing follows, and refused with a 500 if
something does, also while a command is being executed, which that reply then ends (`commander.cpp:485`).
A timeout tells the client, except in the middle of the TLS handshake.
`owed` counts replies, and is a history variable like `torn` (a reply went into a
listing) and `overtaken` (a line was answered before the command that was being executed: ABOR, `BLANK`, or an illegal
command).  Where the code dereferences a null pointer (`LookupEvent`), the process
ends and another one starts.  A destroyed `socket_adapter` that the code could still refer to
after ABOR and PASV is not followed.  Bounds: `MaxInbox` lines in the buffer,
`MaxOps` operations and as many logins at a time, whose results come in any order, `fails` up to 6, `owed` from -1 to 2.

`FtpDialogue` is the abstract specification: one command at a time, the next
one only after the final reply, at most one preliminary reply, for
transfers only.  `KeepsDialogue` says that `FtpSession` implements it, under
the mapping `command <- cur`, `marked <- a transfer has begun`, `closed <- the session has shut the control connection, has asked to end,
or a command was overtaken`.  That is as far as the promise goes: once a line is answered out of its turn, the reply of the
command it has overtaken is still to come and ends whatever is executed then (`CommandIsFinished`, section 12).  The properties
say so themselves (`Promised`); what holds beyond it is said without it: `ClearIsNotKept`, `LeaseOfListener`, `SomeTimerRuns` and the ranges in `TypeOK`.

Runs.  `session`: a client that has to log in under TLS and uses one command of every kind,
with a port range and a host override to look up; it checks `KeepsDialogue`, `OneAnswerEach`,
`WorkBelongsToCommand`, `DataConnectionAgrees` and `TypeOK`, which says also that a timer runs
whenever the session waits for the client (`SomeTimerRuns`).  `WorkBelongsToCommand` includes that no line sent
in clear is left when the TLS handshake begins (`ClearIsNotKept`: AUTH has to be the last line in the
buffer), `DataConnectionAgrees` that no data is moved in clear beside a control connection under
TLS, even if the data connection is older (`DataIsProtected`).
The client may send ABOR, illegal commands and lines that begin with a space at any moment; the run follows it until a command is
overtaken (the constraint `UntilOvertaken`: what a session promises no more can hardly be broken, and `overtaken` is only reset
by the next session, which begins from `Fresh` in any case).  What follows is the matter of `session_live`, and of the theorems.  `session_live`: a client that logs in,
lists, transfers over active connections, aborts and sends lines that begin with a space, without a constraint; every line that was put off is
taken up, and every command is answered unless the session ends first (`LinesAreAnswered`).  It does not use
PASV, since a failed PASV can leave a transfer without an answer (section 12).

Fairness: the file system, the authenticator and the resolver answer; the loop delivers what is queued; the peer of an active
connection accepts or refuses.  No timer has to fire and the client has to send nothing.

## 4. TCP server: `TcpServer`

Three threads: the listeners' loop (`lpc`), the server's loop with the
administrator's commands (`spc`), and the sessions' loops.

| Code | Model |
|---|---|
| `listener::operator()`, then `on_socket_event()` | `EnterAccept`, `Accept`, `Push`, `Send` |
| the retry timer, `try_listen()` | `EnterRetry`, `Retry` |
| `server::on_connected_event()` with its `loop_count` | `OnConnected`, `Drain`, `Look` |
| `on_session_ended_event()`, `on_banned_event()` | `OnSessionEnded`, `OnBanned` |
| session ends, user removed, failed login, end of a ban | `SessionEnds`, `UserRemoved`, `FailLogin`, `Unban` |
| `ban_ip`, `end_sessions`, `start()`, `set_address_infos()` | `BanIp`, `EndSessions`, `Start`, `SetAddressInfos`, `StopListener`, `DestroyListener` |

What happens under one mutex is one step.  `DrainMax` stands for the ten sockets of `loop_count`, `SizeMax` for
the width of `std::size_t`, `MaxQuits` bounds how often a user is removed.  `crashed` marks
the use of a destroyed object, after which the behaviour ends; hence `CHECK_DEADLOCK FALSE`.
`early` is a history variable: the connections that were past the check when their address was banned.

Run `tcp_server`: one listener that comes and goes, two connections from
one address.  Two connections exceed `DrainMax`, so that the loop is given back with a socket
waiting.  Safety: `WaitingIsAnnounced` and `TypeOK`, with `RetryingTriesAgain` and
`CountsSessions`; liveness: `SocketsAreDealtWith`, which is `AcceptedIsServed` and `BannedAreBuried`.  Fairness: each loop runs the handlers that are due;
strong for the server's loop, whose queue also holds the administrator's commands and is first in,
first out; a session that was shut down ends.  Peers and the administrator owe nothing.

## 5. Autobanner: `Autobanner`

`SetFailedLogin` is `set_failed_login()`, `TimerFires` is the event loop that takes a
one-shot timer off its list and calls the handler, and `OnTimer` the handler once it has the
mutex: between the two `stop_timer()` has nothing left to stop.  Time is relative (ages and times to go).
`shared` tells whether sessions run on the server's loop.  The IPv4 and the IPv6 tables are one.  `TimerIds` bounds the number of
timers: the entries of stopped timers stay in the timer map, in the code too.
`last`, `owed` and `banning` are history variables; `banning` tells whether the timer of an address is to end a ban, since the
options may change while it runs.

Run `autobanner`: with and without session threads, `ABTypeOK` with `HandlesExpire`, `BanIsDeserved` and
`BansEnd`; without threads also `BansAreKept`, which is `BanLasts` and `FailuresMakeABan`.  One address suffices: no entry refers to another
address.  Fairness: time passes and due timers are handled.

## 6. Throttled authenticator: `ThrottledAuthenticator`

| Code | Model |
|---|---|
| `authenticate()` for USER, the next step for PASS | `User`, `Pass`, with `TryToAuthenticate` |
| the wrapped authenticator answers | `Evaluate` |
| `on_operation_result()`: entered, with the mutex, returned | `TakeResult`, `HandleResult`, `Return` |
| the answer reaches the session | `Deliver` |
| `stop_ongoing_authentications()` with `~worker` | `LoginTimeout`, `EndSession`, `Unblocked`, with `Destroy` |
| the two timers | `AuthTimer`, `PurgeTimer` |

A session that stops its login holds the mutex (`holder`) until the worker's handler has returned.  The per-user and per-address tables
are one table of `Keys`.  `Reconfigured` allows the administrator's change of timeouts during a login, which
starts the login timer again.  The branch for `method::none`, which no caller constructs, and `set_options()`, which nobody
calls, are left out.

Run `throttle`: two users behind one address; `WorkersOutliveTheirUse`, which includes that a failure is charged even if the client hangs up,
`TypeOK`, which includes that what is recorded will be purged, and `LoginsTakeTheirTime`, which is `FailuresDelay` and `LoginIsAnswered`.  The limit of one
failure and one unit of time are the smallest at which delays occur; two users share a key, so
that a login is delayed by another's failure.  Fairness: the loops run what is due, strongly,
since two sessions compete for the mutex; the wrapped authenticator answers.

## 7. Channel: `Channel`

A channel has a pipe from the socket to a consumer and a pipe from an adder to the socket.
Everything runs on one loop, whose queue `q` is part of the state; the state is one record `ch`,
and a handler is an operator on it.

| Code | Model |
|---|---|
| `pipe::on_buffer_adder_event`, `on_buffer_consumer_event` with their loops | `OnAdder`, `OnConsumer`, with `AddToBuffer`, `ConsumeBuffer` |
| `set_adder`, `set_consumer`, `filter_events` for one that goes | `SetAdder`, `SetConsumer`, `UnsetAdder`, `UnsetConsumer`, `ClearPipe`, with `Filtered` of `EventLoop` |
| `channel::on_pipe_done_event`, `shutdown`, `clear` | `OnPipeDone`, `ShutDownChannel`, `ClearChannel` |
| `socket_adapter` | `Read`, `Write`, `OnSocketRead`, `OnSocketWrite`, `OnShutdown` |
| `file_reader`, `file_writer`, `tvfs_entries_lister`, `line_consumer`, `streamed_adder` | `ReadFile`, `WriteFile`, `NextEntry`, `ReadLine`, `Streamed` with `Say` |
| the FTP session's transfers one after the other, and ABOR | `Connect`, `OnChannelDone`, `DataSocketShutdown`, `Abandon` |
| the socket, the peer and the answers of the file system | `ReadReady`, `WriteReady`, `PeerSends`, `PeerReceives`, `PeerEnds`, `Break`, `Entry`, `EntryFails`, `Spoil` |

A byte is the number of its transfer, so that a byte which ends in another transfer shows.
The peer sends nothing on the data connection of a download: the code ends such a transfer with
EINVAL, since nobody consumes what arrives (`pipe.cpp:229`).  Lines behind a QUIT that
arrive in one piece with it can end the control connection in the same way, before the goodbye is sent.
The nested adder of STAT is part of `FtpSession`; rate limits, the ascii layer and TLS are left out.

Run `channel`: two transfers, each of any kind, with a connection that breaks, a file that fails, and transfers that
are abandoned.  `CompleteWhenOk`, `TransferEnds` and `TypeOK`, which includes that an event in the
queue still has its target (`EventsHaveTargets`) and that a lister waits for one entry at a time (`OneEntryAsked`).
Three bytes exceed the buffer and the room of the socket, and take more turns than
`MaxLoops`, so that all the reasons to wait and to give the loop back occur; the second transfer meets what
the first has left.  It may end when there is nothing left to do (`CHECK_DEADLOCK FALSE`).  Fairness: the loop runs, entries
come, the socket tells that it is ready, the peer reads, and sends what it has to.

## 8. Impersonator: `Impersonator`

| Code | Model |
|---|---|
| `client::get_caller` and its destructor | `Get`, `Woken`, `Release`, with `GetCaller`, `MustWait`, `Erase` |
| `caller::call`, `send_next`, `on_can_send`, `on_can_recv`, `on_error`, the deadline | `Call`, `SendNext`, `OnCanSend`, `OnCanRecv`, `OnError`, `TimeOut` |
| `channel::send`, `recv`, `on_socket_event` and the events it queues | `ChannelSend`, `Received`, `OnChannelRead`, `OnChannelWrite`, `Notify` |
| the process | `Serve`, `Hang`, `Die` |
| a session that ends with a call under way | `SessionEnds` |

Threads call under the mutexes of the client and of the caller; callers and channels live on the client's loop, whose queue is `q`, from which
`Filtered` (`EventLoop`) takes the events of a channel that is closed.
`lost` and `gone` are history variables.

Run `impersonator`: three operations, each on a thread of its own, over a pool of one process whose socket takes one message.
`AnswerIsOwn`, `CallIsAnswered`, and `IMTypeOK` with the bound of the pool and `OldestIsTimed`.  Three
operations are what it takes for one to be answered, one to be sent and one to wait; `MaxCallers`
lets each find a fresh process after the one before has died.  Fairness: threads, the
loop, the socket and the timer make progress; a process serves, hangs or dies, but does one of them.
`CallIsAnswered` excepts the operations that `NoRequestIsLost` (section 12) is about.

## 9. HTTP session: `HttpSession`

The session is the consumer of the channel's input, called once for each step of the parser
(`Consume`, `Parse`), and the adder of its output.  `z.t` is the current transaction, `z.p` the parser.
What the client sends is a position in its requests, `<<request, piece>>`: `came` is how far it has
arrived, `used` how far the parser is.

| Code | Model |
|---|---|
| `message_consumer::consume_buffer` with its states | `StartLine`, `EndOfHeaders`, `BodyPiece`, `ZeroChunk`, `FinishBody`, `ProcessError` |
| `maybe_accept_next_request`, the keepalive and the activity timer | `Accept`, `Keepalive`, `Activity` |
| the responder: status, headers, body, end | `SendStatus`, `FlushHeaders`, `SendBody`, `SendStream`, `SendEnd` |
| the handlers: at once, with a stream, with an upload, after an authentication | `Handlers`, `Handle`, `OnEnd`, `Answer`, `SendTokens` |
| the channel's done event, the destruction of the session | `ChannelDone`, `Destroy` |

Run `http`: any two of seven kinds of requests, one behind the other; a third would find what the second finds, a session that has
answered one.  `ResponsesInOrder`, `UploadIsStored`, `RequestIsAnswered`, `SessionEnds` and `TypeOK`.  Fairness: the loop runs, the
client reads, logins are answered, streams end; a client need not send, and `SessionEnds` (if
the timers fire) is about one that stops.  A client that does not read keeps a session
that has been shut down: no timer runs then, and `SessionEnds` does not speak of it.
Left out: 100-continue, HEAD, `set_timeouts`, the TLS handshake, and the coding of chunked responses.

## 10. Tokens and authorizations: `TokenManager`, `Authorizator`

`TokenManager` is the data base as a value and the manager's functions as operators on it (`Insert`, `Refresh`, `Destroy`,
`Verifies`, `AfterVerify`, `Reset`).  `Authorizator` extends it.

| Code | Model |
|---|---|
| requests for a token, its refresh, a shared link, its creation, a revocation | `Login`, `DoRefresh`, `Share`, `CreateShare`, `Revoke` |
| the worker of a loop and its result | `AuthDone`, `OnAuthResult`, `Continue` |
| what a handler does after it has left the mutex | `pc`, with `Store`, `Send`, `EraseRevoked` |
| timers, changed users and the events of an authorization | `OnTimer`, `OnUserChanged`, `Expire`, `OnExpired` |
| the shared users of the authenticator; time and the administrator | `Dispose`, `Notify`; `Age`, `ResetAll` |

An authorization is an object apart from the map that owns it, since queued events and a
handler that sends tokens refer to it without owning it.  `crashed` marks the use of one that is gone.
Whatever decrypts is taken for a refresh token, the token of a shared link too (`authorizator.cpp:460`): `DoRefresh` presents any
token that was given out.  A link that is followed by one session while another exchanges its token thus gets an
authorization at a number that its row has left; `AuthorizationsAgree` excepts that one (`OfLink`), and section 12 names it.
`RevokedIsOut` is about ids that nobody is using at that moment (`InUse`): a token that is revoked
between its verification and the use of the result does come back.
A loop has one worker with one continuation, so that a second login on a loop
overwrites the first (`Overlap`): a request is then answered with the user of another.
The map of workers is used by several loops without a lock (`authorizator.cpp:248`); that race is not modelled.

Run `authorizator`: two users and two loops beside the main one, with four requests, removals, aged tokens and
resets in all (`MaxEvents`): enough for a login, two refreshes that race and a revocation.
`AuthorizationsAgree`, `AuthorizationsEnd`, `RevokedIsOut`, `TypeOK`.  Users are alike and so are loops (`Symmetry`), which is sound since no
liveness is checked.  The tokens are those of the data base in memory (`RowidsReused` is false), and a loop authenticates
one request at a time (`Overlap` is false), without which two of the properties do not hold (section 12).  The
file server, the router, cookies, encryption and SQL errors are left out.

## 11. Users while they are logged in: `SharedUsers`

| Code | Model |
|---|---|
| `file_based_authenticator::authenticate`, `get_shared_user` | `Authenticate` |
| `update()`, and what calls it | `Update`; `RemoveUser`, `SetUser`, `SetDefault`, `MakeTempUser`, `RemoveTempUser` |
| the directories of the mount points are there: holders are told | `Created` |
| the session's handler of a login: subscribes, then looks at the user | `OnAuthenticatorOperationResult`, `Section` |
| `on_shared_user_changed_event`, the end of a session | `OnSharedUserChanged`, `HangUp`, `OnEnded` |

What happens under the authenticator's mutex is one step.  Shared users live in `Slots` while somebody holds
them, and the authenticator knows them by a weak pointer.  `news` is a set: two notices of one change
to one session are handled alike, by reading the current state.

Run `shared_users`: two sessions, a user with or without an entry of his own, one from the operating system and a temporary
one, and two changes, the fewest with which a change meets another that has not been told yet.
`SharedUsersAreCurrent`, `ChangesAreOnTheirWay`, `RemovedIsOut`, `TypeOK`.  Fairness: the loops handle their events,
directories get made, a session that ends is destroyed.  Groups, the limits on sessions, the
rules on addresses and the check of passwords are left out.

## 12. Where the code does not do what it says

One run ends in a counterexample, listed under `findings`: `token_replay`.  A token that was exchanged for a newer one and is presented again
should invalidate the newer one (`token_manager.hpp:121`).  `verify()` removes the row with the wrong
number instead (`token_manager.cpp:43`, and :49 for an expired token): `refresh_id` is the count of refreshes,
the row goes by the other id.  Nothing is removed, or somebody else's token is.

The modules state some more things that the repository says and TLC refutes.  To see one, give
its definition as the INVARIANT of the instance named here; no run repeats them.

| Property | Source | What happens | Instance |
|---|---|---|---|
| `LookupHasHandler` | `ftp/session.cpp:800` | asserted, but a peer that connects before the lookup ends takes the listening socket away | `MCFtpSession`, `LookupCmds` |
| `EventsAreOfListeners` | `tcp/listener.cpp:24` | a listener is destroyed between queueing a socket and announcing it; the event arrives after it is gone | `MCTcpServer`, as `tcp_server` |
| `NoDeadlock` | `authentication/throttled_authenticator.cpp:379`, `NEWS:141` | with session threads a session waits for the worker's handler with the mutex that the handler needs | as `throttle`, `Reconfigured = TRUE` |
| `NoRequestIsLost` | `impersonator/channel.cpp:320` | "hence respond with the default values": a thread that looks for a caller erases the dead one, with its requests, before it is told | as `impersonator` |
| `NothingTrails` | `http/message_consumer.cpp:68`, `http/server/session/transaction.cpp:37` | tokens are sent behind a 408; a file that cannot be written to its end is answered twice | as `http` |
| `UploadIsStored` after partial writes | `http/message_consumer.cpp:112` | what is left in the body's buffer is dropped at the end of the body | as `http`, `ShortWrites = {"put"}` |
| `CompleteWhenOk` with late entries | `ftp/commander.hpp:51`, `buffer_operator/tvfs_entries_lister.hpp:66` | the entry that an abandoned listing asked for goes to the next listing | as `channel`, `LateEntries = TRUE` |
| `AuthorizationsAgree` without `OfLink` | `http/handlers/authorizator.cpp:460` | somebody refreshes with the token of a shared link while the link is being followed: the authorization made for the link stays at the number before | as `authorizator` |
| `AuthorizationsAgree`, `RevokedIsOut` with rows reused | `authentication/sqlite_token_db.cpp:207` | SQLite gives the id of a removed token to the next one | as `authorizator`, `RowidsReused = TRUE` |
| `AuthorizationsAgree`, `RevokedIsOut` with requests that overlap | `http/handlers/authorizator.cpp:26`, :248 | the second login of a loop takes the place of the first one's continuation, which then answers for another user or finishes a refresh after its token was revoked | one loop, `Overlap = TRUE`, `MaxEvents = 6` |
| `OwnEntryCounts` | `authentication/file_based_authenticator.cpp:329` | a user who has logged in from the system keeps these settings when he gets an entry of his own | as `shared_users` |
| `TempUserStays` | `authentication/file_based_authenticator.cpp:367` | any change of the entries disposes of the temporary users | as `shared_users` |
| `LeasedPortIsNotListening` | `ftp/session.cpp:756`, `port_randomizer.hpp:18` | the lease is marked connected before the listening socket is closed, and the port is handed out meanwhile | `MCPortManager`, as `ports` |
| `FailureMeansNotListening` | `ftp/session.cpp:318` | a success at the last attempt is reported as a failure | as `ports`, `MaxTries = 2` |
| `CommandIsFinished` | `ftp/commander.cpp:485`, :389 | "Queuing the new one until the current one is finished": a line that begins with a space is answered at once and ends the current command, whose transfer goes on and answers a later one | `MCFtpSession`, `BlankCmds`, preauthorized, no options |
| `NoReplyInsideListing` | `ftp/commander.cpp:421`, `buffer_operator/streamed_adder.hpp:53` | a refused line is answered in the middle of STAT's listing | `MCFtpSession`, `ListingCmds`, preauthorized, no options |
| `DoneEventFindsSocket` | `ftp/session.cpp:833` | after ABOR, or after a line that begins with a space, PASV destroys the socket whose done event is queued | `AbortCmds`, `MaxOps = 2`, or `BlankCmds` |
| `AbortedTransferIsClosed` | `ftp/commander.cpp:788` | ABOR answers 226 and the transfer goes on; its reply later ends another command | `AbortCmds`, `MaxOps = 2` |
| `WaitsForSomebody` | `ftp/session.cpp:573` | after a failed PASV a transfer waits for nobody | `PassiveCmds` |
| `LoginTimeExcludesServer` | `ftp/commander.cpp:252`, `NEWS:48` | new timeouts start the login timer during an authentication | `UserCmds`, `TlsRequired = FALSE` |
| `BannedAreKicked` | `tcp/listener.cpp:157`, `NEWS:106` | a socket between the check and the registration becomes a session of a banned address | as `tcp_server` |
| `CountsSessions` without `quits = 0` | `tcp/server.cpp:135` | a session ends twice and is subtracted twice | as `tcp_server` |
| `StoppedDoesNotListen` | `tcp/listener.cpp:151` | the listener is stopped after its status was read | as `tcp_server` |
| `BanLasts` without `shared` | `authentication/autobanner.cpp:91` | the handler of a stopped timer erases a new ban | as `autobanner` |
| `NobodyWaitsLonger` | `authentication/throttled_authenticator.cpp:283` | the timer is not shortened for a login that has less to wait | as `throttle`, with `OwnAddresses`, `ip2` among the `Keys`, and `Window`, `Delay` and `Cap` 2 |

PORT after PASV also keeps the lease of the port that PASV opened, until the
next PASV or the end of the session.

## 13. Only checked, not modelled

Only model-checked, for the bounds above: all liveness (`PasvEnds`, `LinesAreAnswered`, `SocketsAreDealtWith`, `BansEnd`, `LoginIsAnswered`, `TransferEnds`, `CallIsAnswered`, `RequestIsAnswered`,
`SessionEnds`, `RemovedIsOut`: TLAPS does not reason about fairness and ENABLED here).  Where a theorem has a hypothesis that the
run's property does not have (no short writes, no late entries), section 12 tells what happens without it.

Not modelled, beside what the sections leave out:

- sessions that begin under TLS, the timer that polls a socket every 100 ms, the text of
  replies and the parsing of arguments, rate limits;
- listeners on inherited file descriptors and the server's destructor, which runs at exit;
- the tree of mount points with its permissions, paths and address lists: functions of their arguments, without steps of several actors;
- the administration protocol: message classes and a dispatcher made of templates; what its messages do to
  a component is an action of that component's module;
- the update checker and ACME: chains of requests, each of which starts the next or
  ends the chain, that meet the rest of the server only by a result;
- loggers, serialization, platform services, the GUI and the tools: input and output, or conversions, without behaviour in
  time;
- libfilezilla, which is not in the repository: its loop, timers, mutexes and sockets appear as the code relies on them.

## 14. What is proved

The proofs are in modules of their own, for every value of the constants that the named
assumptions of the modules admit: one for each component, and one for two components where they share what they are about
(tables of peers, events of a loop).  A module of proofs defines the inductive invariant, shows in one lemma
per action or group of similar ones that it is kept, and derives the properties from it.
`TypeOK` is inductive in none of the modules: what a variable holds depends on where a thread is or on
who refers to it, and that is what the invariants add.

| Module | Theorems | Inductive invariant |
|---|---|---|
| `SharedTablesProofs` | `TypeCorrect`, `ConnectingExclusive`, `LeasesCounted`, `GivesUpLate` | `TypeInv` adds `WhereOK(s)`, what each program counter implies; relative to it `Exclusive`, the counts, and `SearchInv` |
| `TcpServerProofs` | `CountAndRetry`, `WaitingAnnounced` | `Inv`: `Types`, `Listening`, `HandlerOK`, `Accepted`, `Ended` and the properties |
| `SharedTablesProofs` | `HandlesAreErased`, `BansHold`, `BansAreDeserved` | `Inv`: `TimersOK`, `HistoryOK`, `OwnTimers`, `BansOK`, `WindowOK` |
| `ThrottledAuthenticatorProofs` | `FailuresAreBounded`, `WorkersLive`, `FailuresDelayLogins` | `Inv`: `FailuresOK`, `WorkersOK` |
| `SharedUsersProofs` | `HandlersHold`, `SharedUsersStayCurrent`, `NoChangeIsLost` | `Inv`: `References`, `Current`, `SessionsOK` |
| `FtpSessionProofs` | `SessionTyped`, `OneAnswer`, `WorkIsTheCommands`, `ConnectionAgrees`, `DialogueKept` | `Good(st)`: always `Sound` (`IsState`, `DataOK`, `LineOK`); until the session is shut down or ends, `TimerOK`; until a command is overtaken also `WorkOK` and one reply owed |
| `HttpSessionProofs` | `HttpTyped`, `ResponsesOrdered`, `ChunkedStored`, `UploadsStored` | `Inv`: `Sound(z)` (`Ordered`, `Stored`, `Turns`) and `Reading(z, used)` |
| `AuthorizatorProofs` | `ReferencesHold`, `NoneIsLeftBehind`; `AuthorizationsFollowRows`, `RevokedStaysOut` | `Structure`; relative to it `Agreement` |
| `EventLoopProofs` | `CallersAreShared`, `ResponsesReachTheirRequests` | `ImpersonatorInv`: `CallersGood` (for each caller `InOrder`, `Timed`, `ReadsOnce`), `ThreadsGood`, `PoolGood`, `AnswersGood` |
| `EventLoopProofs` | `EventsFindTheirTargets`, `TransfersAreWhole` | `ChannelInv`: `InPlace`; unless entries come late, `Accounted` and `Listed` |

**Port pool.**  `ConnectingIsExclusive` says that a set flag has exactly one owner, in exactly
one role: deciding on the port, installing its lease, or awaiting the peer.  The proof uses the
equivalent `Exclusive`, which is inductive relative to `TypeInv`.  Three lemmas carry
it: `Keep` (nothing about a port changes), `Acquire` (a free port gets one owner) and
`Drop` (the owner gives the flag back).  The interesting cases are `Probe` (the flag was clear, so nobody owned the
port), `ReleaseFlag` (the owner, unless the lease was connected and the flag is somebody else's
by now) and `Accept`.  The counts follow the sets of holders, whose sizes change by one with each step that
touches an entry, which is why the sessions have to be finitely many.  `GivesUpLate` follows the search: the ports tried in a pass
are the arc from its start to where it is.

**TCP server.**  `WaitingAnnounced` needs that an accepted socket belongs to a listener that listens or whose destructor
waits for the handler that is running (`Listening`, `HandlerOK`): otherwise a listener that is started could find sockets
that nobody is on the way to.  `num_sessions_` is the number of sessions since a socket is queued once, in one listener
(`Accepted`), and since a session announces its end once if it is not also told that its user is gone (`Ended`).
The connections are assumed to be finitely many and `std::size_t` to be large enough for them.  `Without`, the queue without the events of
a listener, counts positions instead of recursing, so that it can be reasoned about (`OfWithout`).

**Autobanner.**  The failures an address keeps are the last ones of all its failures (`HistoryOK`), so that a
ban is deserved.  Without session threads a timer that fires is never one that was stopped (`OwnTimers`), it runs
as long as its ban (`BansOK`), and the failures that were forgotten are out of the window (`WindowOK`), so that a
ban that is due is made: `BansHold`, which is about this mode as its property is.

**Throttled authenticator.**  A worker that an event, a handler or an operation refers to is there (`WorkerOK`),
since its destructor waits for its handler.  `FailuresDelayLogins` is the safety half of `LoginsTakeTheirTime`.

**Shared users.**  `Current` relates each shared user that somebody holds to the entry it was made from, and
`SessionOK` says of every step between subscribing and looking that a change meanwhile is either told or will be seen.

**FTP session.**  The theorems are about every client, one that aborts or sends lines that begin with a space included.  The invariant
has a part that always holds (`Sound`: the ranges, the line buffer, the lease, the protection) and one that holds until the
session is shut down or a command is overtaken (`OpenOK`); without that limit TLC finds states
that violate it, and section 12 tells what goes wrong.  A handler is
a composition of operators on `st`; each has a lemma that says which fields it may change and how (`Same`, `Ends`,
`Settled`, `Turn`), and an action composes a few of them.  `DialogueKept` is the refinement of `FtpDialogue`: every step is one of its
steps under the mapping of section 3, or leaves what it sees alone.

**HTTP session.**  `Ordered` counts: as many responses have begun as there are transactions, less the one of a
transaction whose head is not flushed, and all but the last have ended.  Every operation of the responder keeps
`Sound`, whether it is called in its turn or not; that is what keeps the tokens behind a 408 from
counting as a response (`TokensSound`).  `Turns` adds that a transaction is replaced only when its response has ended,
unless the session is closing, and that the continuation of a login belongs to a request that has been received completely.
`Reading` is the parser's half: `Stage` says for each kind of request
what the parser's state, its buffer and the file hold before each piece, until the session stops
reading.  A `204` is sent at the end of a body, where `Stage` leaves nothing unwritten.
`ChunkedStored` holds whatever the writes come to, since the parser waits in `finish` for what is left of a
chunked body.  `UploadsStored` assumes that a write for a body of known length takes all of a piece or fails
(`"put" \notin ShortWrites`), as writes to a file do as long as the disk has room; without it the property is refuted (section 12).

**Authorizations.**  `Structure`, in every mode: events, handlers and the map refer to authorizations that
have been made, each under its id, and each in the map has a timer or its expiry on the way.  `Agreement` holds under `~RowidsReused` and
`~Overlap`; without either TLC refutes both theorems (section 12).  The induction needs that a
new token which is going to be stored is newer than all that have been given out for its row (`Fresh`), that two handlers do
not store new tokens for the same row, and that ids which are out have no row.  The token of a shared link is the first of its row
and may be stored beside a newer one: whichever comes first, the other finds the id taken and removes the row.

**Impersonator.**  Responses carry no number, so what has to be shown is an order: `InOrder` says that the responses on
their way to a caller, in its channel or in the socket, are for the oldest of its requests, and as long as the process is there, that
what is on its way to the process is all the rest.  That order lasts only if a message is read once for each
response, which `ReadsOnce` says of the read events, of the events that tell of a message, and of the socket's
readiness; `filter_events`, when a channel is closed, must take all of them (`SocketEventsGone`).
`PoolGood` says that a caller is with one thread or available, never both; the bound of the pool follows.

**Channel.**  `InPlace` is about the operators: each event of the queue has its target, a socket that has gone has no event left,
the end of the channel is told once, a transfer that is about to begin finds an idle channel.  It holds with every fault and with late entries, and
`EventsFindTheirTargets` follows from it.  `Accounted` is about the bytes: all are of this transfer (`Ours`), what the reader has read and the
socket has not taken is in the buffer (`Flows`, and `Listed` for entries), a lister is called again
only after its entry came (`Asking`), a shutdown waits for the replies (`ShutsLate`), and the end of the data is told apart from a pause (`Ends`);
`Verdict` then says that "ok", from the pipe's event to what the owner is told, means that everything was moved
(`Settled`).  `Listed` alone fails between an entry that does not come and the end of its pipe, and for the control channel it matters
that replies are added while a line is consumed.  The two loops of the pipe
are recursive functions: what holds at each turn is a lemma about one turn (`AddStepGood`, `ConStepGood`), and induction over the number of the
turn does the rest.  `TransfersAreWhole` assumes `~LateEntries`, without which TLC refutes the property (section 12).

Induction over the natural numbers is proved rather than cited, in the form of sets (`Induction`, from the least element of a
set of numbers), and with it that a recursive function satisfies its equation (`Recursion`).  That is how
`Filtered` is shown to keep the order of a queue, each event once and no event that goes (`FilteredIsPart`).

Proving led to corrections of the models, where they were less than the code: failures are purged from the front of
the list and not one by one, ages are capped above the window instead of at it, a user that is not set is told apart from one with an empty name,
a timer remembers whether it was started for a ban, requests of one loop may overlap, which TLC had not been asked, lines are processed while an operation is in flight, and what `pipe::add_to_buffer` does
when the buffer is full is one case with the exception in it, where two cases overlapped and their order decided.

Liveness is out of reach of these proofs.

## 15. Running

`tlc -config X.cfg M` for each run of `PROJECT.json`; `tlapm M.tla` for each module of proofs (section 14).
Each property has a mutated form of some definition beside the definition, which breaks it
(`mutants`); `map` gives the source lines of each definition.
