# Verification of the AIM-Chat IM server

TLA+ models of the C++ server of AIM-Chat (`src/IMServer`), of the network library under it and of the Go services
beside it, TLC configurations that check them on small instances, and TLAPS proofs of the central safety properties.

## 1. The system and its parts

`IMServer` is one process. `main` (IMServer.cpp) connects to MySQL, loads the account directory, listens on
port 9527 and runs one muduo event loop. `IMSer::init` never sets a number of IO threads, so every request
handler runs in that loop's thread, to its end, before the next. The only other threads of the application are
those that `AgentGrpcClient::sendMessage` detaches for calls to the assistant.

| Part | State | Operations | What must hold |
|---|---|---|---|
| `UserManager` | list by name, map by id, id bases; tables `t_user`, `t_user_relationship` | register, create group, (un)friend, update profile and password, load at start | both indexes agree; ids are never reused; what was acknowledged is in memory and on disk; names resolve stably |
| `MySqlManager`, `MySQLTool` | connection, schema | `Execute`, `Query`, creation and repair of the tables | a statement may be applied although it is reported as failed; a server that runs has its tables |
| `IMSer` | connection → session map | connect, close, find session by user id | a message finds the session of its user |
| `ClientSession` | `m_user`, `m_seq` per connection | one handler per command | messages are neither lost nor doubled; replies go with their request |
| `MsgCacheManager` | one list of offline messages | append, take all of a user | one FIFO queue per user |
| `AgentGrpcClient` | detached threads | send, callback | the callback meets a live, bound session |
| `EventLoop` | functor queue, eventfd, flags | loop, queueInLoop, quit | no lost wakeup; functors once and in order |
| `TcpConnection`, `TcpServer`, `Channel`, pollers | connection state, output buffer, event mask | send, shutdown, close, destroy | callbacks once; bytes in order; buffered output before FIN |
| `TimerQueue` | timers by expiration and by identity, timerfd | add, cancel, expire, restart | no callback after cancel, none cancelled by mistake while its `TimerId` is right; every timer runs |
| `Connector`, `TcpClient` | attempt, retry timer, connection | start, retry, hand-over, reconnect, stop, destroy | one attempt at a time; no descriptor leaks; `stop()` is final |
| `EventLoopThread`, `EventLoopThreadPool` | latches, loops, next index | start, `getNextLoop`, destroy | start returns with all loops; loops in turn; threads end, unless `quit()` comes at a moment the source marks as open |
| `Channel`, `PollPoller`, `EPollPoller` | descriptors, `index_` | update, remove, poll | the kernel watches what the channels ask for |
| `Buffer`, `ProtobufCodecLite`, `IMCodec` | byte ranges | read, append, prepend; frame, check | a byte queue; decode inverts encode for any split of the stream |
| `HttpServer`, `HttpContext` | parser state, request | parse, answer | answers follow the requests, however cut and pipelined |
| `RpcChannel`, `RpcServer` | calls under way | call, dispatch, answer | each call answered once, with its own response, while the connection is up |
| `AsyncLogging`, `LogFile` | buffers of lines, file | append, swap, drop, flush, roll | each line once and in order, or dropped with a notice |
| `ThreadPool` | queue, conditions | run, take, stop | order kept, bound kept, nobody waits for ever |
| `Date`, `TimeZone` | zone data | load file, convert | conversions invert each other around every change of offset |
| `GoMailServer` | code per address | send, verify | a code works once and in time |
| `GoImageServer` | a file per user | save, delete | between requests, the file of the last upload, alone unless a removal failed |
| `goagent` | history per user | chat | the most recent messages, complete and in order |

Interaction: the loop calls channels, channels call `TcpConnection`, which calls the codec and the session; a
session calls `UserManager`, `MsgCacheManager`, the gRPC clients and, through `IMSer`, other sessions. Memory is
shared with the assistant threads only. The database is the only state that survives the process.

Hard behaviours: statements whose reply is lost and crashes between statement and cache update; handlers of two
statements; failed logins that leave `m_user` bound; late assistant callbacks; wakeups split from pushes; cancels and
reused addresses inside a batch of expired timers; a retry that races a stop; two latches at the start of a thread;
buffers that change hands between threads; streams cut anywhere; mails and answers that come late or never; requests
of one user that overlap. They are listed, each at its line, in `PROJECT.json` under `hazards`.

## 2. Modules

- **`UserManager`** models `UserManager.cpp`. Variables carry the names of the fields. Each operation is one
  action with the outcome of its SQL statement as a parameter: `ok`, `rejected` (nothing applied) or `replyLost`
  (applied, reported as an error). A crash between a statement and the cache update is `replyLost` followed by
  `Crash`. `Start(unread)` is `init`; `unread` are the accounts whose relationship query failed, which the code
  only prints. `disputedRel` and `disputedRow` are history variables: the pairs and accounts whose last change was
  answered with failure, for which no promise is made.
- **`MsgCacheManager`** holds the operators of the offline list; **`OfflineQueue`** is the abstract specification:
  one queue per user, and who is logged in where. A queue grows only at its end and only while its user is logged in
  nowhere; the step that logs its user in empties it, no other does while the process runs; it is lost with the process.
  A login is a step of the specification, so that a handler which empties a queue without it would not refine.
- **`ClientSession`** extends both: the session map of `IMSer`, one action per command, the process exit, and the
  assistant calls as a set of threads in two steps (read `m_user`; read `m_seq` and send), so that loop-thread
  handlers fall between them. A null `m_user` that is dereferenced ends the process. `accepted`, `sentTo`,
  `loggedIn`, `misbound` and `agentReply` are history variables. `CreateGroupWithOwner` is the two statements of
  one handler in one action; a process exit between them is the outcome `replyLost` of the second or of the first.
  The handlers that change no account and no message are actions of their own, one per command.
- **`EventLoop`** models `EventLoop.cc`: the phases of `loop()`, the eventfd, the functor queue and the swapped
  batch; callers push and wake in two steps.
- **`TcpConnection`** models one connection of `TcpServer` from `newConnection` to `connectDestroyed`, with its
  `Channel`, its index in `EPollPoller` and its functors. An iteration of the loop is: poll, handlers of other
  channels, this channel's events in the order of `handleEventWithGuard`, handlers of other channels, one batch of
  functors. Calls of the application in the loop thread happen in handlers; another thread's `send()` is two steps,
  the test of `state_` and the push. `Alive` counts the `shared_ptr`s; a `sendInLoop` functor has none, and running
  it on a destroyed connection is either nothing or the end of the process. The wakeup is `EventLoop`'s subject. A
  write takes any prefix, and nothing once the peer has reset or the FIN is out.
- **`TimerQueue`** models `addTimer`, `cancel` and `handleRead`. Other threads go through functors, callbacks act
  directly and in the middle of the batch. Another thread's `addTimer` is two steps: it queues the timer, and reads
  the sequence number for its `TimerId` later (TimerQueue.cc:123), when the loop may have run and deleted the timer.
  The number is then the one of whoever has the address, or what the memory still holds (the old number or a member of
  `Residue`). Times are relative to the present, so a repeating timer has finitely many states. The batch of expired
  timers is a set, as the order inside it is that of the `set` it was copied from and no property depends on it. A
  `Timer*` is an address the allocator may hand out again; a `TimerId` pairs it with the sequence number.
- **`Connector`** models a `TcpClient` and its `Connector`: a poll reports a set of events, handled in any order
  before the functors queued so far run. The `TcpConnection` is reduced to up, closed, destroyed. `leaving` marks the
  interval in `removeConnection` in which `stop()` of another thread is overtaken by `restart()`. The client may be
  destroyed in any handler or functor of its loop, its own connection callback included, and with any work left. Without
  a connection the destructor stops the connector and keeps it alive by a timer (`kept`); with one it does neither, and
  `hasty` records that the connector was at work. `ConnectorGone` is a connector that nothing keeps. When its channel is
  still there or a functor bound to it is queued (`ClientFailed`), `assert(!channel_)` fails or a dead object is called,
  and the model ends.
- **`LoopThreads`** models the start of IO threads through two latches, `getNextLoop` and the destructors. Of the
  loops only `quit_` is kept. `early` records a `quit()` that came before `loop()` cleared `quit_`. `~EventLoopThread`
  tests `loop_`, reads it again, and `quit()` sets the flag and wakes the loop, each a step, while the thread leaves
  `loop()`, resets `loop_` and ends, each a step too. When NULL or a loop that is gone is used, the base thread is at
  "undefined". The application may end a loop too, from a callback in it.
- **`AsyncLogging`** models `append`, the back end's swap, drop, write and recycling, and `LogFile`'s rolling. Lines
  have size one and are numbered. The history `out` keeps every buffer the back end is done with, written or dropped.
- **`ThreadPool`** models `run`, `take`, `stop` and the workers over one mutex and two condition variables; a step is
  what a thread does while it holds the mutex. Waiting threads may wake up for no reason.
- **`Buffer`** holds the member functions as operators on a record of the three fields, and a machine that calls them
  in any order beside the byte queue they promise to be, integers of 8, 16 and 32 bits in network order included.
  **`Codec`** uses these operators for the connection's input:
  the peer's frames, good and bad, arrive in pieces of any length, and every iteration of `onMessage` is a step. A bad
  frame may be whole and still shorter than the bytes `onMessage` waits for (`Short`).
- **`HttpContext`** models one connection of `HttpServer`. A line is a record, two pieces on the wire. The reference
  definition `Answers` reads the lines one by one.
- **`Poller`** gives both pollers the same calls and keeps their bookkeeping side by side, with the active channels
  of the last poll and the asserts of each (`asserted`, `epAsserted`).
- **`Schema`** models `MySqlManager::Init`: the connection, missing tables, and missing or different columns,
  statement by statement, any of which may fail or be the last before the process ends; the next start goes on with
  what is there.
- **`RpcChannel`** models a client's channel and the server's: callers in steps up to the next shared variable,
  services that answer in any order. The loss of the connection, which may fall into `CallMethod`, drops the server's
  channel and what is on the way; the client's channel stays, with its calls, until its owner deletes it.
- **`TimeZone`** models the calendar and the zone files. C++'s division rounds towards zero, which `TruncatedDiv`
  keeps. Days are walked by a calendar that only knows the lengths of the months. `WellFormed` is what the code expects
  of a zone file; the proofs need it, and TLC finds it true of the files of the run.
- **`MailService`** models `CodeStore` and `MailService` of GoMailServer with the verification of `MailGrpcClient`:
  mails that arrive late or never, lost answers, random codes that repeat.
- **`AvatarStore`** models uploads and deletions of GoImageServer on the directory, file operation by file operation.
  Any of them may fail, those included whose error the code ignores (`os.ReadDir` and `os.Remove` in `FileStore.Delete`,
  `os.Remove` after a failed encoding); `botched` records that.
- **`AgentHistory`** models requests of one user of goagent on `MemoryCache` (read and write under different locks)
  or `RedisCache` (one transaction).
- `MCEventLoop`, `MCThreads` and `MCServices` check components which share no state in one run each (`EventLoop` and
  `TimerQueue` in the first): the variable `part` names the component that moves, the others stay in their initial
  states, so the state space is the sum of theirs and not the product.
  Fairness is that of the component's own specification, guarded by `part`.
- The `…Proofs` modules hold the theorems (section 4); `MC*` modules and the `.cfg` files the instances.
  Definitions commented "Faulty" are variants with a plausible defect; no specification uses them. Each shows that
  a property fails when the code is wrong in that way.

## 3. Runs

| Run | Bounds | Shows |
|---|---|---|
| `user_manager` | 2 user ids, 1 group id, 1 name, 2 passwords, 1 profile | the indexes agree, ids are free, acknowledged rows are registered and names keep their meaning through every outcome, crash and partial load (about 259 000 states) |
| `sessions_chat` | 2 users and a group of both, 2 connections, 2 messages of up to 2 targets | copies are delivered or cached once, in order; the cache implements `OfflineQueue` (about 141 000 states) |
| `sessions_accounts` | 1 connection, 1 stored user, a name nobody has, room for one more user and a group, 2 passwords, 1 assistant call, all outcomes | handlers keep memory and tables in agreement, and an assistant call that can reach its session finds it bound (about 300 000 states) |
| `event_loop` | 2 threads, 4 functors; 3 timers in 2 addresses, once and repeating, 1 functor or call of `addTimer` under way, `Residue` {2} | order, wakeups, quit and progress of the loop, and of its timers (about 212 000 states) |
| `tcp_connection` | 1 thread beside the loop, 2 messages of 2 bytes each, 2 forced closes queued | stream, FIN, close and destruction of a connection (about 52 000 states) |
| `threads` | 2 sockets, 2 stops, delays 500, 1000, 1500; 2 IO threads, 3 picks; 6 lines in buffers of 3, dropped above 2, files of 3 lines; 2 workers, 2 submitters, queue of 2, 2 tasks each | client, IO threads, logging and thread pool, safety and progress (about 33 000 states) |
| `services` | buffer of 2 bytes beside the prepend area, 4 bytes of content; 2 frames, bad ones of length 0, 4 and 7 among them; 5 HTTP lines; the days from 1970 to 2101, 5 zone files; 3 descriptors; 1 address, 2 codes, 3 sends; 3 requests and a history of 3; 4 uploads and 1 deletion; 3 callers; 2 tables, one of them with a column of its own | the components that read a stream or keep records, against what they promise (about 1 002 000 states) |
| `friends_symmetric`, `agent_reply_seq`, `offline_is_cached`, `history_stored`, `handle_close_assert` | as above | violations, see section 6 |

Why the bounds are enough: every directory property relates at most two accounts and one pair, and two users with
one group give every relative order of ids; one name makes all names collide. Two connections give a sender and a
receiver, two sessions of one user, and a failed login beside a good one; two messages of two targets give up to
four cached copies of one user. In the loop two threads suffice for a wakeup of one to hide that of the other.
Messages of two bytes are split by a partial write; two per thread give a direct, a buffered and a late one.
`StopAnytime` says whether the application stops reading at any time or, as in flow control, only while output
waits (and does not force a stopped connection closed); the passing run assumes the latter, the finding shows why.

Three timers in two addresses force a reuse of an address inside one batch, a cancel by an old `TimerId`, and a
`TimerId` that is read when another timer has the address; `Residue` 2 is a number a live timer may have. Two sockets
are enough for a leak to end in a state with none free; three delays show doubling and its limit. Six lines fill both
buffers of the front end and leave one of more than `MaxBuffers` to be dropped; `Capacity` 3 and `rollSize` 3 roll
files by size, `rollPeriod` by time. A queue of two with four tasks makes submitters wait; with two of them and two
workers a signal can reach the wrong thread. A vector of two free bytes grows and moves with four bytes of content,
and `ExtraBuf` is larger than both; four bytes are also the widest integer. Two frames with any cut give a whole one
and part of the next; 0 and 7 are the ends of the lengths no message has (`kMinMessageLen` is 8 with a tag of four
bytes); five lines are two pipelined requests and a header, or a bad line. Descriptor 0 is its own negation, which is
why `PollPoller` marks an ignored one as `-fd - 1`. 1970 to 2101 includes 2000 (a leap year) and 2100 (none); `Around`
has the seconds next to a change of offset and the hours it skips or repeats. A request beyond the history's length
evicts; two uploads of one user can fall into one second.

`Cmds`, `Targets`, `Editors`, `DbOutcomes` and the `Max…` constants are bounds on the inputs only. The requests that
only read ("query" in `Cmds`) are sent in `sessions_accounts`.

`sessions_accounts` uses one connection because the handlers share only `UserManager`'s state, and a connection may
log in as any account in turn. Its constraint `AccountsOrCalls` keeps two questions apart that do not meet: assistant
calls, failed logins and changed passwords are followed while the tables are as stored, the outcomes of the account
handlers without them. `n2` is the name nobody registers, so that a login can fail at the name.

Deadlock is checked except where a component really may stop: in `event_loop` a stopped loop with all functors used,
or timers that are all done, in `tcp_connection` a process that ended, in `threads` and `services` a pool that was
stopped, a destroyed client, a loop used after its end, or a peer with nothing left to send.

Fairness. `event_loop`: weak fairness of the loop thread's own steps and of a caller's `wakeup` once it has pushed:
both are plain code the scheduler runs. The return of a blocked poll is fair only when the eventfd is readable;
traffic and the 10 s poll timeout may happen but are not relied on; for the timers, the loop reads an expired timerfd
and goes on with the batch, and time passes (`TimerRuns`). `tcp_connection`: the loop goes on with its iteration (the
poll has a timeout), a sender that has tested `state_` pushes, and, strongly, a socket the channel waits to write to
is reported and takes bytes: epoll is level-triggered and the peer is assumed to read. `ShutdownDrains` needs the last
one, `ClosedIsDestroyed` only the first. `threads`: the client's loop goes on with handlers, functors and polls, and,
strongly, an armed timer fires (`StopIsFinal`); every IO thread and the base thread go on (`PoolStartsAndEnds`); the
log's back end goes on, also from its wait, which has a time limit (`LineIsWritten`); every worker goes on when it is
not waiting (`PoolGoesOn`). Submitters, spurious wakeups and the application's calls are not assumed to happen.

## 4. Proofs

The theorems hold for every value of the constants: any sets of names, threads, sockets or timers, any lengths, sizes
and delays. The assumptions on the constants are the named `ASSUME`s of the modules, which TLC evaluates in the runs.
They are bounds being numbers, ids below the ranges' ends (`BoundsAssumption`), sizes the code needs to be positive
(`Capacity` above one line, `MaxBuffers` at least the two buffers the back end keeps), and values that mark an absence
being no member of the set (0 is no socket, "none" no code and no upload). The times `ttl` and `cool` of GoMailServer
are any natural numbers, in any relation; the environment variables they come from could also be negative, which is
left out. `CodecAssumption` says what the code leaves to its callers: a length fits the prependable bytes of a
`Buffer` and an `int32_t`, and no message is longer than `kMaxMessageLen`; `send` does not check that, and its peer
would refuse the frame. `ZoneFilesAssumption` says what `TimeZone` takes for granted of a file it accepts
(`WellFormed`): the indices of its transitions are in range, the transitions are sorted, each change of offset is over
on the clocks it turns before the next one begins, and the times are ones `Date` can compute with. Of this
`readDataBlock` tests the indices only (`localtimes.at`, whose exception makes the file invalid); `std::upper_bound`
on UTC and on local times relies on the order; RFC 8536 demands the order, and the changes of real zones lie days
apart. The runs of section 3 check the same properties on their instances.

Each proof has the same shape: an inductive invariant, one step per action, and PTL. What the invariant adds to the
property, and why the property alone is not inductive:

- `UserManagerProofs`, `IndInv`: the directory properties together. A registration could meet a row (needs
  `NextIdIsFree`); a new account could meet an old friendship row (needs `AckedRowsRegistered`, which says that such a
  row is in dispute). `NamesStable` is an action property: an append never changes the first match.
- `ClientSessionProofs`, `ServerInv`: `IndInv` with the sessions. A session is bound to nobody or to a cached account,
  and a process that is down has neither sessions nor calls; only then does a call that reaches its session find an
  account. Each handler is one or two operations of `UserManager`, whose lemmas are reused. The directory theorems so
  hold of the composed server too, where a group is made by two statements of one handler. The stored rows a server
  starts from may name ids nobody has; `SessionInit` counts those as disputed.
  `OfflineInv` adds to `MessagesAccounted` and `OfflineOrder` that nothing waits for a user who has a session, unless a
  failed login bound it: only then may a message written directly follow all that was taken. Every step of the server is
  then shown to be a step of `OfflineQueue` or none (`OfflineStep`, `CacheIsQueue`), the one that empties a queue the
  login of its user (`online` is the history `loggedIn`). What `Kept` selects of a list, and
  how it commutes with appending, joining and erasing, needs induction over sequences; the lemmas get it from the
  existence of a least number outside a set (`LeastNat`, `Climb`, `SeqClimb`), so that no theorem with an operator
  parameter is instantiated.
- `EventLoopProofs`, `WakeupInv`: `NoLostWakeup` speaks of a blocked poll; the inductive form extends it to all phases
  between the swap and the poll. `OrderInv` numbers the functors over the three places they can be in. `PollerInv`: the
  index of every channel finds its own entry of `pollfds_`, and every entry is a channel's. That survives the
  swap-and-pop removal, where the moved entry of an ignored channel has to be found by its negated descriptor. The epoll
  set and `channels_` follow `kNew`, `kAdded` and `kDeleted`, which gives the asserts of `EPollPoller` (`EpollKnows`).
- `TcpConnectionProofs`, `StreamInv`: until the close, write events are asked for exactly when bytes wait; from this
  follow `FinAfterDrain`, and that a message never overtakes what waits. `OrderInv` puts the messages in the stream
  before those in the functor queue, and every message passed on is in one of the two unless everything is dropped from
  now on. `CloseInv`: whatever may still close the connection finds its channel in the epoll set. The last needs the
  hypothesis `~StopAnytime` (reading is stopped only while output waits); the run `handle_close_assert` shows that the
  theorem `HandleCloseAsserted` fails without it.
- `TimerQueueProofs`, `TimerInv`: sequence numbers tell the timers of one address apart, entries of `timers_` and of
  the batch are live and disjoint, pending adds carry live timers not yet inserted, and a cancelled timer of the batch
  is remembered in `cancelingTimers_`. A timer that a call of `addTimer` still holds is a live one at its address or
  is deleted, and a `TimerId` was either read while its own timer lived, so that its number is the timer's, or belongs
  to one that is gone; a cancel by it hits another timer only in the second case, which `Mistaken` names.
- `ConnectorProofs`, `ConnInv`: there is one way on at a time (a queued start, a retry timer, an attempt, a connection),
  the channel of a socket that was handed over is reset before the next poll, events fit the state they were reported
  for, and every open descriptor has exactly one owner.
  `WorkIsKept` says what a destroyed client leaves behind: unless `hasty` holds, either its connector has nothing left
  to do, now or later (`Quiet`), or it is kept alive and its attempt is about to be stopped; and the removal timer comes
  only to a connector that is `Quiet`. Without it a functor queued before the destruction could call a dead connector.
- `ThreadsProofs`, `PoolInv`: taken tasks followed by queued ones are in the order `run()` accepted them, and nothing is
  refused while the pool runs. `LogInv`: the lines in the buffers done with, being written, full and current are 1 to
  `appended` in turn; `nextBuffer_` is missing only after a buffer was filled, so what is written suffices to replace
  the spares. Appending, swapping and dropping are three lemmas on sequences of buffers.
- `ServicesProofs`. `MailInv`: a stored code is the last generated (`last`), as old as that and unused, and one that
  is gone was accepted or has expired, which makes the cooldown hold whatever its relation to the time to live.
  `HistoryInv`: what a request has read was logged in that order, and without overlaps is the list as it still is.
  `SchemaInv`: the tables before the one `Init` is at are complete unless in trouble, and the columns it has passed
  are as declared. `RpcInv`: a registered call that was sent has exactly one message on its way, which bears its id
  and fits its kind, while the connection is up; after the loss nothing is on the way, and what is registered stays
  until the channel is deleted. `AvatarInv`: two requests of a user at once are noticed; of a user that never had
  them, the directory holds the last avatar and what the request at work has in hand, and nothing else of that user if
  its last removal met no error. `BufferInv`: the three fields are in order and the content is what lies between them,
  for any size of the vector; from it follow the assert of `makeSpace` (`kCheapPrepend < readerIndex_` when it moves
  the bytes), that an integer is read as it was appended or prepended, and that the searches find the first match or
  none. `HttpInv`: the connection stands at a line k of the stream; the walk of the reference up to k has given the
  answers so far and the request the parser holds, and the pieces still on the wire or in the buffer are those of the
  lines from k on. `CodecInv`: with `R[i]` the bytes sent behind the first i frames, buffer and wire together hold
  `R[k]` after k messages delivered, the k frames were good, the next one is bad once an error is reported, and
  `onMessage` returns only where it has to wait, in front of a part of a frame or of a whole one too short to be
  looked at. What it makes of a frame rests on `FramesOK`: the frames of `send`, built in a `Buffer` by appending and
  prepending, are cut back into length, tag, payload and checksum, and each kind of bad frame is refused. The
  existence of the walk and of the checksum's partial sums comes from `LeastNat` again. `ClockInv`: the date is one of
  the calendar, its number is that of the walk, and the zone came from a file. The rest of `TimesConvert` holds in any
  such zone, at the clocks it speaks of: those within a day of a change of offset, and 0. The two conversions of
  `Date` are inverse for every day (`NumberDateNumber`, `DateNumberDate`), and the day after has the next number
  whatever the ends of month, year, century and 400 years (`DayAfterNumber`). With k the first change that ends after
  a local time, only the moments after change k - 1 and before change k - 1 can show it (`Showing`): the first unless
  change k skips it, the second if change k - 1 repeats it; that is the case distinction of `findLocalTime`.

`TypeOK` is only proved. `CacheBackedByRows` and `AckedFriendshipsAgree` are checked in `sessions_accounts`, where all
outcomes of the handlers reach them.

Only model-checked:

- The liveness properties. Liveness under fairness, `ENABLED` and `RECURSIVE` operators are outside what the provers
  used here do.

## 5. Abstractions and what is not modelled

Messages, names, passwords and profiles are atoms; profile stands for every column `UpdateUserInfo` writes.
`EscapeSqlString` is the identity on them: it doubles quotes but does not escape backslashes (UserManager.cpp:12-23), so
a value with a backslash may be stored otherwise than it is kept in memory. A keyword that is no number, at which
`std::stoi` throws (ClientSession.cpp:387), is not sent. Response
texts, logging and status notifications are left out. `ownerid` is never read by the code. A multi-chat that names
the assistant among its targets is not enumerated (it is the chat followed by the assistant chat).
An owner deletes a client's `RpcChannel` after its connection is lost and when no thread is in `CallMethod`, and a
service runs its closure before the loss; the raw pointers to a channel ask for that. The timer of one second that
`~TcpClient` sets for its connector comes after the functors that were queued before it. The callback of
an assistant call on a destroyed session is undefined behaviour and modelled as either nothing or process exit.
Loop-thread code queues functors only from handlers and functors; a `queueInLoop` from the loop thread before
`loop()` would wait for the first poll to return (no code in IMServer does this). Not modelled: generated protobuf
code, protobuf parsing (a set of payloads it refuses), decoding and scaling of images, `forceCloseWithDelay`,
`~TcpServer`, connections on other loops, `Acceptor`, `SocketsOps` and `InetAddress` (system calls and address
conversion; what `accept` yields is an input), the formatting in `Logging` and `LogStream`, `ProcessInfo` and
`FileUtil` (readers of files), the inspector (prints what these read, no state beyond its table of commands), the
session and key-value operations of goagent's caches (no caller on the path of a chat) and jsoncpp (third party).

Observations that no run states:

- `MySqlManager::Init` returns true over a table whose repair failed (`SchemaSound` excepts such a table), and a column
  that is declared AUTO_INCREMENT cannot be added by a statement of its own.
- Names are not unique, and the account a name resolves to may differ after a restart (the list is loaded newest
  first); `User::status` is set at login and never reset.
- A `quit()` before `loop()` is forgotten (EventLoop.cc:108), and the destructor of the thread then waits for ever.
  `~EventLoopThread` reads `loop_` a second time after its test, and `quit()` wakes the loop after it set the flag
  (EventLoopThread.cc:30-35, EventLoop.cc:138-145): when the thread is ending by itself, NULL or a loop that is gone is
  used. The source says so at both places; `PoolStartsAndEnds` excepts both cases, and shows that there is no third.
- A `stop()` of a `TcpClient` from another thread may be overtaken by `restart()`
  (TcpClient.cc:174); `StopIsFinal` excepts it.
- A cancel that reaches the loop before the functor that adds the timer has no effect. `addTimer` on another thread
  reads `timer->sequence()` after it queued the timer (TimerQueue.cc:120-123): when the timer has run and was deleted by
  then, it reads freed memory, or the number of another timer at that address, which a cancel then hits.
  `TimersSound` and `TimerRuns` except the timers that were hit so.
- `~TcpClient` with a connection neither stops nor keeps its connector (TcpClient.cc:84-95). When the client is
  destroyed in its own connection callback, or with a functor of the connector queued, `assert(!channel_)`
  (Connector.cc:37) fails or the functor runs on a dead connector; `AssertionsHold` says that nothing else leads there.
- A bad frame of fewer bytes than a message has at least is not reported until more bytes follow
  (ProtobufCodecLite.cc:62); `NothingLeftBehind` excepts it.
- A call that `CallMethod` registers while or after the connection is lost, like one without an answer then, hangs
  until the owner of the channel deletes it, which deletes the closure without running it (RpcChannel.cc:34-43).
- Lines still in buffers when the log is stopped, and tasks still queued when the pool is, are not written and not run.
- A repeated hour at the first or last change of a zone is always read as the later instant; a zone file of version 3
  is read by its 32-bit block.
- A bad request line that is parsed again after more data arrives can meet the assert of `setMethod`
  (HttpRequest.h:55). The closure of an RPC holds a raw pointer to the server's channel, which may be gone when a
  service is done after the connection is lost (RpcServer.cc:56).
- `FileStore.Delete` ignores the errors of `os.ReadDir` and `os.Remove`, `GetFilename` those of `os.ReadDir`
  (filestore.go:73-81, 83-105): the old avatar may stay beside the new one, and `GetUrl` then names the old; a deletion
  that removed nothing is answered with success.
- With a cooldown longer than the time to live, one try with an expired code deletes the entry and the cooldown with it
  (codestore.go:70-72).
- Uploads over HTTP are all stored for user 0 (GoImageServer http.go:89). Overlapping requests of one user may leave
  two avatars or none, and may lose messages of the history in `MemoryCache`; the properties say what still holds.

## 6. Findings

1. `friends_symmetric`: adding an unregistered id fails but leaves the row and one direction (UserManager.cpp:214).
2. `agent_reply_seq`: an assistant reply carries the `seq` of a later request (ClientSession.cpp:850).
3. `offline_is_cached`: after a failed login the account's messages go to that session (ClientSession.cpp:241).
4. `history_stored`: the INSERT into `t_chatmsg` names a missing column (UserManager.cpp:335).
5. `handle_close_assert`: closing a connection whose channel `stopRead()` left without events registers the channel
   again, and a hang-up runs `handleClose` twice, against its assert (TcpConnection.cc:412). IMServer does not call
   `stopRead()`.

## 7. Plan

Done: the account directory, sessions, offline cache, event loop, connection, timers, client, IO threads, pollers,
buffer and codec, HTTP, RPC, logging, thread pool, time zones, the schema and the three Go services; proofs of every
safety property. Next:

1. `forceCloseWithDelay` on top of the timers, connections on other loops and `~TcpServer`.
