# A TLA+ development of ArsnServer

ArsnServer is a Windows IOCP server library (`ServerCore`), a chat-like game
server built on it (`GameServer`) and a load client (`DummyClient`); both log
through a vendored copy of plog. This directory holds TLA+ modules translated
from that code, TLC runs over small instances, and TLAPS proofs that hold for
any number of workers, sessions, messages and files.

## The system

| Part | State | Operations | What makes it correct |
|---|---|---|---|
| `Session` | `connected_`, `sendRegistered_`, `lock_`, `sendQueue_`, four events (OVERLAPPED + `owner`), `recvBuf_` | `Send`, `Disconnect`, `Register*`, `Process*` | each event has one user at a time; nothing accepted is lost, reordered or sent twice; one teardown; memory outlives the operations on it |
| `RecvBuf` | `readPos_`, `writePos_`, the bytes | `OnWrite`, `OnRead`, `Clean` | unread bytes are the stream; the window given to the kernel is free and never empty |
| `SendBuf` | bytes, `writeSize_` | `CopyData` | what is copied fits |
| `IOCPCore` | the completion port | constructor, `Register`, `Dispatch` | what is dequeued has an owner; a port that could not be made is noticed |
| `Service` | `sessions_`, `sessionCnt_` | `Start` (two), `CreateSession`, `AddSession`, `ReleaseSession` | a session is in the table from its connection to its release, released once; a start that fails half way announces nobody |
| `Listener` | `acceptEvents_` | `StartAccept`, `RegisterAccept`, `ProcessAccept` | the pool of posted accepts does not shrink |
| `GameSessionManager` | `Sessions_` | `Add`, `Remove`, `Broadcast` | a broadcast reaches those who stay, once; a sender's messages keep their order |
| `GameSession`, `ServerSession` | - | callbacks | they return what they consumed |
| `ThreadManager`, `GlobalCore`, the `main`s | threads, logger | constructors, `Launch`, `Join` | workers start after `Start`, never end |
| `SocketUtils` | three function pointers | `Init`, checked setters | a refusal is not overlooked |
| plog: logger, appenders | two mutexes, `m_file`, `m_fileSize`, `m_firstWrite`; the files | `operator+=`, `write`, `rollLogFiles`, `openLogFile` | what is in the files stays in order and bounded, and nobody but its writer changes it |
| plog: records, formatters, converters | - | streaming, `format`, `convert`, file names | what was logged can be read back |
| `NetAddr`, the rest of plog | - | - | not modelled, see below |

How they interact. The worker threads (five in the server, two in the client)
loop in `IOCPCore::Dispatch`: dequeue a completion, copy the event's `owner`,
call its `Dispatch`, which switches on the event type to a `Process*` handler.
The handlers call the virtual callbacks; these call `Send`, on the own session
(client) or on every listed one (server, through `GameSessionManager`), so that
any worker may be inside any session's `Send`. `Register*` functions post
the next operation and put a `shared_ptr` to the session into the event; it is
the event's `owner` that keeps a session alive between completions. Every
handler logs; server and client write the same `logs/GameServer.log` when
started in one directory.

What is hard. Nearly all of `Session` runs without a lock. `lock_` covers the
push and the exchange of `Send` and nothing else; the two mutexes of
`RegisterSend` and `ProcessSend` are local variables, and the `scoped_lock`s of
`GameSessionManager` lock nothing. What keeps threads apart is `sendRegistered_`
on the send side, the "one posted receive" discipline on the receive side,
and the exchange of `connected_` in the teardown. Failures come back from
Winsock calls at once or as completions with 0 bytes, and `Dispatch` does not
tell objects which of them was an error. The log is rolled by renames nobody
looks at the result of, under a mutex that other processes do not share.

`PROJECT.json` lists these places one by one, with their lines and the
properties that are about them.

## Modules

| Module | Models |
|---|---|
| `Session` | one connection run by a set of worker threads |
| `SessionProperties` | what it promises |
| `SendChannel` | abstract: what `Send` promises its callers |
| `SessionLifetime` | abstract: the life of one session, for `Session` and for `Listener` |
| `RecvBuf` | the receive buffer under `ProcessRecv` |
| `Listener` | start-up of the server, the accept events, the service's table, many sessions in outline |
| `ListenerProperties` | what they promise |
| `AcceptService` | abstract: what the server promises a client that connects |
| `GameBroadcast` | the list of `GameSessionManager`, walked and changed by all workers |
| `ClientStart` | start-up of the client, from Winsock to the first completions |
| `RollingLog` | a log statement on its way through the appenders, and the files |
| `RecordLog` | abstract: what the files promise whoever reads them |
| `LogText` | records, formatters, converters and file names, as functions |
| `LogFiles` | the two composed: the bytes of the files |
| `MC*` | TLC instances |
| `SessionProofs`, `SessionSendProofs` | theorems about `Session` |
| `RecvBufProofs`, `ListenerProofs`, `GameBroadcastProofs`, `ClientStartProofs`, `RollingLogProofs`, `LogFilesProofs` | theorems about the modules they are named after, the last also about `LogText` |

### Session

Each access to shared memory is a step of its own. `pc[t]` says where in the
code thread `t` is, `ret[t]` where a `Send` called from a callback returns to.

| Action | Code |
|---|---|
| `Dequeue` (in every `Process*`) | `IOCPCore::Dispatch`, and the `owner = nullptr` at the head of the handler |
| `ProcessConnect`, `AddSession`, `OnConnected` | `Session::ProcessConnect`, `Service::AddSession`, the callbacks |
| `RegisterRecv`, `WSARecv` | `Session::RegisterRecv`: the test of `connected_`, then the call |
| `ProcessRecv`, `OnRecv`, `FinishRecv` | `Session::ProcessRecv` before, in and after the callback |
| `SendCheck`, `SendLock`, `SendPush`, `SendExchange` | `Session::Send` line by line |
| `RegisterSend`, `Drain`, `Pop`, `WSASend`, `ClearFlag` | `Session::RegisterSend`: test, loop test, loop body, call, refused path |
| `ProcessSend`, `CheckEmpty`, `ClearFlag` | `Session::ProcessSend` |
| `Disconnect`, `RegisterDisconnect`, `ProcessDisconnect`, `ReleaseSession` | the functions of the same names |
| `Broadcast` | another session's `OnRecv` reaching this one through `GameSessionManager::Broadcast` |
| `Complete*`, `PeerClose` | the kernel and the peer (environment) |

Abstractions. A buffer is the number (ticket) drawn when it was pushed. An
event's OVERLAPPED is `idle`, `pending`, or completed with bytes (`ok`) or
without (`zero`); posting one that is not idle would be a `clash`, which is a
state and not a guard, so that the invariants have to exclude it. The `owner`
is whether it holds the session; setting it and posting, both by one
thread on an event nobody else uses, are one step, except in `RegisterSend`,
where the drain loop lies between them. For a server session the operation
called `Connect` is the listener's AcceptEx, whose `session_` holds the session.

The data race on `sendQueue_` (`push` under `lock_`, `front`/`pop` under a
mutex nobody else has) is undefined behaviour. With `Torn = TRUE` a push that
overlaps a pop may lose the pushed buffer, undo the pop's decrement or both,
leaving a stale slot (`PushResults`). Where it is FALSE both operations are
atomic, so that what fails there does not fail because of the race.

`AtRest` lets the system stutter when every worker waits and nothing is
queued; deadlock is checked.

### SendChannel

Buffers are numbered as accepted, handed over from the front in batches, or
dropped from the front when Winsock refuses them. `ImplementsChannel` maps
`accepted` to `pushes`, `sent` to `wire` and `outstanding` to `Unsent`: what has
been drained and not submitted, then what is queued.

### SessionLifetime

A session is made, connected, listed in the service's table, disconnected,
released from the table, each once; events and handlers hold it meanwhile, and
when table, events and handlers have let go of it nobody comes back to it.
Both detailed modules implement it: `Session` for one session with all its steps
(`Stage`, `Held`: an event's owner or a thread inside a handler), `Listener`
for every session it makes (`StageOf(s)`, `Held(s)`), with a few steps in place
of `Session`'s many. So `Listener`'s outline of the end of a session does
nothing that the common specification does not allow, in an order it does not
allow. That `Session`'s broadcast list is no reference of its own in this view is
`ListedIsCounted`.

### RecvBuf

Handlers are atomic here: `RecvEventExclusive`, proved for `Session`, is what
allows it. Bytes are named by their position in the stream. `Clean`'s `memcpy`
copies to `&buf_`, the vector object itself; the model goes to the state
`undefined` there and stops. `gone` is a session that posts no receive any more:
dropped by `ProcessRecv`, disconnected by another thread, or refused by
`WSARecv`. The kind of callback is chosen at the start: one that consumes all,
`GameSession::OnRecv`, which also echoes it, or one that returns what it likes.

### Listener

The server from `main` on. Threads are `Main`, which runs `StartAccept` alone, and
the workers, launched when `Start` has returned.

| Action | Code |
|---|---|
| `StartAccept`, `NewAcceptEvent`, `Launch` | `ServerService::Start` and `Listener::StartAccept` down to `Listen`; one turn of its loop; `main` after `Start` |
| `CreateSession`, `AcceptEx`, `Return` | `Listener::RegisterAccept`: `Service::CreateSession` and `session_`; the call, or the recursion after a refusal; the return of all frames |
| `Dispatch`, `CheckAccepted` | `Listener::Dispatch`; `ProcessAccept` up to its two early returns |
| `ProcessConnect`, `AddSession`, `OnConnected`, `RegisterRecv` | `Session::ProcessConnect` |
| `Disconnect`, `ReleaseSession`, `LastCompletion` | the end of a session in outline, by any other worker; `Session` has the detail, `SessionLifetime` what both have in common |
| `Arrive`, `Complete*` | clients and kernel (environment) |

A session is a number. `Alive` says whether a `shared_ptr` still holds it: an
`AcceptEvent`, a handler's frame (`held`), the table, or an event of its own
(`busy`). A refused `AcceptEx` calls `RegisterAccept` again inside itself, so
`held[t]` keeps the session of every frame above until all return. A completion
that carries an error is dispatched like a good one and meets `CheckAccepted`
without a client. `CreateSession` returning null is a crash (`phase`), like a
failed `Start`. How a session gets from `Announced` to `Disconnect` is left to
`Session`: here it happens at any time after `OnConnected`, also before
`RegisterRecv`, since a failed broadcast may disconnect it then. `Disconnect`
brings `connected_` down; if `DisconnectEx` is refused the socket is `stuck`: still
open, the session in the table for ever, and nobody who tries again (`Ended` is
either outcome).

`ImplementsService` maps a client to `served` while its session is connected, to
`closed` once the connection is down or nothing holds the session, to `abandoned`
when its `DisconnectEx` was refused, to `taken` before it is served. Two clients may
be closed in one step: a handler that has posted its event again still holds the
session it rejected, while a second handler rejects the next one created by the
first.

### GameBroadcast

A session is its address, because `std::set<shared_ptr>` is ordered by address
and an iterator goes to the next larger one. `Add`/`Inserted` and
`Remove`/`Erased` are the beginning and the end of an access that changes the
set; `Receive`, `Send`, `Advance`, `Done` are `OnRecv`, the two halves of the
loop's body, and the next `RegisterRecv`. An access that begins while another
changes the set, or an iterator that leaves an erased node, has no outcome
that C++ defines: `broken` is set and the model stops. What the other properties
say holds as long as that has not happened, which is all that can be said.

`stayed` (those listed and connected from the start of a walk on) is a history
variable. A message is named by its sender and its number.

### ClientStart

`pc` is the place of the main thread in `GlobalCore`'s constructor, the
constructor of the port, `ClientService::Start` and `main`. Each call of the
system may be refused at each place. `CreateIoCompletionPort` returns NULL when it
fails, the constructor asserts against `INVALID_HANDLE_VALUE`, and the program
goes on with `port = "null"`: from then on every `Register` makes a port of its
own, connects are `lost`, and the first worker dereferences the event it did not
get. `sessionCnt` counts the connects handled: `ReleaseSession`, which takes a
session off the count when its connection ends, belongs to `Session`.

### RollingLog, RecordLog, LogText, LogFiles

A file is the number `buildFileName` puts into its name. `rollLogFiles` is
taken apart into `Close`, `Unlink` and one `Rename` per turn of its loop, because
other processes and viewers act in between, and a process may die between any
two of them; `write` is `AppenderLock`, `openLogFile` and `FileWrite`. The mutex
is per process. A file that anybody has open can neither be renamed nor
deleted (`InUse`): the appender and `_wsopen` share nothing of the kind.

| Action or operator | Code |
|---|---|
| `LogStatement`, `NextAppender` | `IF_PLOG_`, `Logger::operator+=` |
| `ConsoleWrite` | `ConsoleAppender::write`, under a mutex of its own |
| `AppenderLock`, `Lock`, `Unlock` | the `MutexLock` in `RollingFileAppender::write`, the test for rolling |
| `Close`, `Unlink`, `Rename` | `rollLogFiles` |
| `openLogFile`: `openRefused`, `openGranted` | the function of that name: an open that fails; open, size, byte-order mark |
| `Exceeds`, `MustRoll` | the unsigned comparison of the sizes; the test for rolling |
| `FileWrite`, `FileWriteFails` | the write, of a record or of a part of it, and `m_fileSize += bytesWritten`; a write that gives -1 |
| `Crash`, `View` | a process dies; somebody opens a file to read it |
| `streamed`, `streamedAll`, `printf` | `operator<<` of strings and containers, `Record::printf` |
| `format`, `csvFormat`, `convert`, `header` | the formatters and converters |
| `splitFileName`, `buildFileName`, `isCsv` | file names |

An open fails if another process writes the file (`OpenFails`), and may fail for any
other reason (`openRefused`): a missing directory, no access, a viewer that does not
share writing. `m_fileSize` is -1 then, the largest number there is, and the appender
never opens again. `_write` may put part of a record into the file. Such a record
has its place and its size like any other; what `FilesReadBack` says of lines is for
records that were written whole.

`RecordLog` has no files: records are accepted one behind the other, and the oldest
may be given up, but not the last `Least`. `ImplementsLog` maps `kept` to what is in
any file and `Least` to `MaxFileSize`. So of everything a roll, a crash, a viewer or a
second process does to the files, a reader can see only that the `Unlink` of a file
takes the oldest records.

`LogFiles` puts `RollingLog` and `LogText` together: the bytes of a file are the mark,
if it has one, and the converted lines of its records; `Lines(Shown(...))` is what a
viewer makes of them, and the reference that `FilesReadBack` compares with. What is
logged is a constant (`Logged`): statements with a text over `Characters`, of which it
is only asked that they hold no line feed, which would split a line, and no byte-order
mark. A number in a file name is written out in digits (`decimal`), since whether two
names differ depends on it. `csvFormat` has the loop of the code: a turn takes what
`getline` finds, up to the next quote or the end. Neither program uses
`CsvFormatter` (both log with `TxtFormatter`, `GlobalCore.h:25`); it is here because
plog chooses it for a file name that ends in `.csv`.

## Runs

| Run | Instance | States | Shows |
|---|---|---|---|
| `server` | 3 workers, 4 messages, every call may be refused, illegal `OnRecv` lengths | 133 k | the safety of a server session, and that it implements `SendChannel` and `SessionLifetime` |
| `client` | 2 workers, 3 messages, failing connects, `Send` from callbacks, torn queue | 38 k | the right to send is not lost on a live connection, whatever the torn queue does |
| `live` | 2 workers, 3 messages, no refused call | 21 k | liveness of a session |
| `connect_fails` | 2 workers, client | - | violation, see Findings |
| `accept_pool` | 2 accept events, 2 workers and main, 3 clients, one refusal, every fault | 621 k | no accept event is lost or shared, sessions are fresh, only real connections are counted, each once, `AcceptService` is implemented, `SessionLifetime` by every session |
| `accept_live` | 1 accept event, 2 workers, 2 clients, one refusal | 8.8 k | everybody is served or closed, ended sessions are freed |
| `recvbuf` | 3-byte unit, capacity 9, 14 bytes, three kinds of callback | 24 k | unread bytes are the stream, the window is free, the `memcpy` in `Clean` is out of reach of a callback that consumes all |
| `recvbuf_copy` | the same, `SendBuf` smaller than the buffer | - | violation, see Findings |
| `broadcast` | 3 sessions, 2 workers, 2 receives | 389 k | who stays is neither missed nor served twice, each sender's messages keep their order |
| `broadcast_race` | 2 sessions, 2 workers, 1 receive | - | violation, see Findings |
| `start` | 3 sessions, 2 workers, every refusal | 0.6 k | the client serves all its sessions or none, and the start is decided |
| `log` | a process of two threads and one of one thread, 3 files, 2 of them viewed, 4 records, 3 starts | 1.2 M | the files stay in order, the writer knows its file, a full file is kept, a process whose open failed leaves the files alone, files read back, `RecordLog` is implemented |

Bounds. In `Session`, `MaxCalls` bounds receives and broadcasts together. Three
workers are the least for the race that matters: one pushes, one drains, one
completes; with four messages a drain takes several buffers, a batch is followed by
another and both windows of the flag (after `CheckEmpty`, after a refused `WSASend`)
are met. The states where a buffer is stranded, where a `WSASend` is posted with no
buffer and where a push races a pop are all reached. In `RecvBuf` the constants
0x10000 and 10 become 3 and 3: enough for partial consumption, for compaction with
data left, and for a full buffer. In `Listener`, three clients on two events make
one event serve twice while the other is in a handler; `MaxRefusals` bounds refused
and failed accepts and refused `DisconnectEx` calls together, and `MaxSessions` is
events plus clients plus refusals, so that it is never reached: a run that needed
one more would stop in a deadlock, and deadlock is checked. `accept_live` has one
event, so that the second client depends on its return. In `GameBroadcast`, three
addresses let a session come in before, at and behind an iterator, and two receives
of one sender can overtake each other on two workers. In `RollingLog`, files are
rolled when they hold more than one unit of size, three files give a roll two
renames, and four records, with the byte-order mark, make two rolls, so that two
processes can be in `rollLogFiles` at once and one can find the gap that a dead one
left. Threads are interchangeable; symmetry is used in safety runs only.
`CHECK_DEADLOCK FALSE` is set where the bounds stop everything (`MaxSent`, `broken`;
`MaxWrites`, `MaxStarts`).

Fairness. In `live`, each worker inside a handler is scheduled (the operating
system's), the workers together dequeue what is queued
(`GetQueuedCompletionStatus` wakes one of them), and the kernel completes what is
posted. Nothing makes a peer send or close, or another session broadcast, and
`lock_` needs only weak fairness because it is free again and again and a
run has finitely many calls. In `accept_live`, as above for main and the workers;
the kernel gives a waiting client to a posted accept, which is what a backlog
is for; a session whose `DisconnectEx` was accepted is released, which is
`ClosedIsReclaimed` of the `live` run. As in that run no `DisconnectEx` is refused:
what a stuck session has out ends when its client chooses. No client has to come or
leave. That `AcceptEx` is refused finitely
often is an assumption (`MaxRefusals`): the code recurses for ever if it
always is. In `start`, main and the workers are scheduled and the kernel ends every
connect, well or not.

### What the properties say of hard places

- `DisconnectHasCause` names, beside the end of the stream and an illegal
  length, a third cause: a `WSASend` posted with no buffer. A `Send` that
  has pushed but not reached its exchange is drained by the flag's owner, which
  sends, completes and clears the flag; the exchange then wins, `RegisterSend`
  finds an empty queue, submits nothing, and the completion of 0 bytes
  is taken for "Send 0": a healthy connection is dropped.
- `QueuedIsDrained` has the disjunct `Stranded`: a push that falls between
  `CheckEmpty` and `ClearFlag` leaves a buffer in the queue with the flag clear,
  until the next `Send`. `FlagHasOwner` holds all the same: the flag is never
  left *set* with nobody to clear it.
- `LiveSessionListens` excepts a refused `WSARecv`: `RegisterRecv` only logs it,
  and the session stays connected and deaf.
- `TornDownLeaves` excepts a refused `DisconnectEx`: `connected_` is down by
  then, nobody disconnects again, and both tables keep the session for ever.
- `ConnectedHasClient` holds for the listener and fails for the client side
  (`connect_fails`) for one reason: `ProcessAccept` asks the socket whether it is
  connected, `Session::ProcessConnect` does not.
- `CountedOnce` and `ImplementsService` know the same case from the listener's side:
  the session stays in the table, its client is `abandoned`, connected and served no
  more.
- `NothingLost` and `ImplementsChannel` are checked where the queue is not torn,
  although the code does not exclude it. What they say of the code as it is are the
  theorems `OnlyTearingLoses` and `SendImplementsChannel`, which leave `Torn` open:
  both hold in every behaviour in which no push overlaps a pop (`[]Apart`).
- `EventHasOneUser` bounds accepts, not sessions: as many as `maxSessionCnt_` are
  outstanding whatever `sessionCnt_` is.
- `SenderOrder` rests on `ProcessRecv` posting the next receive after `OnRecv`
  returned. Nothing orders the messages of two senders: two receivers may get
  them differently.
- `StartIsDecided` holds for a port that could not be made only because the
  workers dereference a null event: the program ends, by accident.
- `KeepsOneFull` holds as long as fewer processes write the log than there are
  files (three, so for the server and one client). As many that roll at once can
  each delete the last file the others moved there, until nothing full is left.
- `SilentTouchesNothing` is about an appender whose open failed. It never tries
  again and says nothing, so one refused open silences a process, and if that was
  the only one, or the one that has the file dies, there is no log any more: no line
  of the repository promises one. What the property says is that its size of -1,
  larger than any limit, does not make it roll what the others write.

### Findings

- `connect_fails`: `IOCPCore::Dispatch` passes a failed completion on like a good
  one, and `Session::ProcessConnect` takes every completion for success, so
  `OnConnected` ("Connected To Server") runs on a socket that is not connected.
- `recvbuf_copy`: `GameSession::OnRecv` copies up to 640 KB into a `SendBuf`
  of 4096 bytes, which `CopyData` asserts never happens.
- `broadcast_race`: `scoped_lock(lock_);` (`GameSessionManager.cpp:9`, `:15`,
  `:21`) declares an empty lock named `lock_` and locks nothing: two workers are
  inside an insert into `Sessions_` at once.

### Mutants

Every property of a passing run has a mutant: an operator beside the original,
with a comment that begins with "Mutant", which changes one action or function the
way a bug would, and under which TLC finds that property violated.

## Proofs

The theorems hold for every value of the constants that the named assumptions
allow: `SessionAssumption`, `RecvBufAssumption`, `ListenerAssumption`,
`BroadcastAssumption`, `StartAssumption`, `LogAssumption`, `LogTextAssumption`,
`LogFilesAssumption`, which give types, and
say that buffer sizes and the number of files are positive, that there are
finitely many workers (`ClientStart`), that processes do not share threads and
that texts hold no line feed.

| Theorem | Property |
|---|---|
| `TypeCorrect`, `SendEventIsExclusive`, `RecvEventIsExclusive` | `TypeOK`, `SendEventExclusive`, `RecvEventExclusive` |
| `DisconnectIsExclusive`, `ReleaseNeverCrashes`, `TornDownAlwaysLeaves` | `DisconnectExclusive`, `ReleaseFindsSession`, `TornDownLeaves` |
| `FlagAlwaysHasOwner`, `LiveSessionAlwaysListens` | `FlagHasOwner`, `LiveSessionListens` |
| `InFlightIsOwned`, `OwnersAreDropped` | `OwnedWhileInFlight`, `NoOwnerLeak` |
| `SessionImplementsLifetime`, `GoneStaysGone` | `ImplementsLifetime` of `Session`, `GoneIsFinal` |
| `ListedIsAlwaysCounted`, `NeverReconnects`, `RemovalStaysFinal` | `ListedIsCounted`, `NoReconnect`, `RemovalIsFinal` |
| `InFlightIsPinned`, `DisconnectAlwaysHasCause` | `InFlightPinned`, `DisconnectHasCause` |
| `SendImplementsChannel` (while no push overlaps a pop: `[]Apart`) | `ImplementsChannel` |
| `OnlyTearingLoses` (the same condition) | `AllOnTheirWay`, which is `NothingLost` where the queue is not torn |
| `BufTypeCorrect`, `UnreadIsAlwaysStream`, `WindowIsAlwaysFree` | `TypeOK` of `RecvBuf`, `UnreadIsStream`, `WindowIsFree` |
| `CleanIsAlwaysDefined`, `DroppedOnlyAtEnd` | `AllConsumedStaysDefined`, `DroppedAtEndOnly` |
| `ListenerTypeCorrect`, `EventAlwaysHasOneUser`, `PostedIsAlwaysFresh` | `TypeOK` of `Listener`, `EventHasOneUser`, `PostedIsFresh` |
| `ConnectedAlwaysHasClient`, `SessionsAreCountedOnce` | `ConnectedHasClient`, `CountedOnce` |
| `ListenerImplementsService`, `ListenerImplementsLifetime` | `ImplementsService`, `ImplementsLifetime` of `Listener` |
| `SendersStayInOrder`, `StayersAlwaysGetIt` | `SenderOrder`, `StayersGetIt` |
| `ServesAllOrNoneAlways`, `StartTypeCorrect` | `ServesAllOrNone`, `TypeOK` of `ClientStart` |
| `LogTypeCorrect`, `FilesStayInOrder` | `TypeOK` of `RollingLog`, `FilesInOrder` |
| `WriterAlwaysKnowsFile`, `SilentStaysHarmless` | `WriterKnowsFile`, `SilentTouchesNothing` |
| `FullFileIsKept`, `FilesImplementLog` (with fewer processes than files) | `KeepsOneFull`, `ImplementsLog` |
| `FilesAlwaysReadBack`, from `FilesGiveRecords`, `RecordsAlwaysReadBack`, `CsvAlwaysReadsBack`, `SeveritiesReadBack`, `NamesAlwaysDiffer` | `FilesReadBack` |
| `ShownConvert`, `CsvLine`, `CsvTellsMessages`, `NumbersTellNames`, `SplitName` | of the functions themselves, for texts of any length |

Actions that cannot disturb an invariant are treated together: a lemma says
what they all keep, another that this is enough; the rest of each proof has a
step per remaining action.

**Session.** `SessionProofs` proves
`Inv == TypeOK /\ SendInv /\ CalledInsideSend /\ RecvEventExclusive`.
`TypeOK` is not inductive alone: `Pop` takes the head of a queue, so one
needs `PopHasBuffer`, which in turn holds because only one thread drains.
`SendEventExclusive` is not inductive alone: nothing in it says why the
winner of the exchange finds nobody at work. `FlagCoversSend` does: while a
thread is between `RegisterSend` and the end of `ProcessSend`, or a `WSASend` is
out, the flag is set. So whoever finds it clear is alone, and whoever
dequeues the completion inherits it. `RecvEventExclusive` needs
`CalledInsideSend`: a callback's `Send` keeps the receive token through the
return address and gives it back on return.

Its second half builds on that: `Fresh` and `OpeningAlone` say that until
`OnConnected` has run nobody else can touch the session (nothing is posted and it
is not listed). Hence `connected_` rises once (`NoReconnect`), listing happens
once (`RemovalIsFinal`), and the token of the teardown, created by the exchange in
`Disconnect`, exists once (`DisconnectExclusive`). `CountedWhileAlive` follows the
table entry along that token, so the assertion of `ReleaseSession` cannot fire
(`ReleaseFindsSession`), and `TornDownLeaves` follows it to the release.
`OwnersMatch` shows that an owner is set exactly while its event is in use; the
step where a call is refused needs the exclusive use of that event, since
dropping the owner of an event in flight would free the memory the kernel
works on. From these follows the refinement of `SessionLifetime`. The opening
thread is alone, so the session is listed when `Disconnect` can first be called;
an event that is dequeued had an owner, so only a broadcast comes to a session
from outside, and it finds it in a table. Hence `GoneStaysGone`, that memory is
never used after its last reference.

`SessionSendProofs` is about the buffers. `InFlight` says that what is out is the end
of `wire`, and an empty batch is noted; `Caused` says that a thread on its way
to `Disconnect` has its reason; both whatever the torn queue does.
`AllOnTheirWay`, that buffers move between the queue, the event and the wire without
changing the concatenation `wire \o Unsent` (the lemmas on sequences), holds as long
as no push has overlapped a pop (`Untorn`), and each step of the send path is then a
step of `SendChannel` or a stutter. The two theorems about this assume `[]Apart` of
the behaviour and nothing of `Torn`: what tearing the queue can destroy is all they
leave out.

**RecvBuf.** The properties are proved together (`BufInv`). The window is
free because `Clean` leaves `bufSize_` bytes behind the unread ones, the unread
bytes are the stream because a completion fits the window, and the types follow
from both. For a handler that consumes everything,
`FrontWhenAllConsumed` (every receive starts at cell 0) is what is missing.

**Listener.** An accept event is a token that kernel, queue and threads pass on
(`PoolInv`); the numbers of sessions that were handed out are those below the next
one (`MadeInv`); the session of an event or a handler that has not been connected is
known to nobody else (`HolderInv`), so the handler that connects and counts it is
alone with it (`TableInv`). `SessionsAreCountedOnce` follows: the handler that adds
a session is the one that connected it, which nobody can disconnect before it is in
the table, and the number of an ended session does not come back.

For `ListenerImplementsService` the mapping chooses the session of a client, so
`ClientInv` first says that there is one and only one. It then carries the
client's place over to the session's (`ClientAtSession`), where most steps
are easy: they only let go of sessions (`Declines`), which is a `Close` of their
clients or nothing. What is left is one step each for `Arrive`, `Take`, `Serve` and
`Abandon`. That a connected session is not let go of needs `HeldInv`: the handler that
connected it holds it until the table does. `ListenerImplementsLifetime` needs it
too, for the same reason, and `ListedInv`: what is in the table and not connected
was disconnected.

**GameBroadcast.** A sender has one token, its posted receive or one walk
(`TokenInv`, `WalksAlone`), so a walk carries its sender's last message
(`CarriesLast`), newer than any an inbox holds (`NothingAhead`). A walk has given
its message to nobody it has not passed (`GivenIsPassed`) and to everybody who
stayed and was passed (`PassedIsGiven`); that the iterator skips nobody listed is
`FollowingIsNext`, from the well-foundedness of the natural numbers. Order of
one sender's numbers implies that nobody gets a message twice. The invariant
does not need `~broken`: that condition is in the properties because the model
gives the outcomes of a race no meaning, not because the proof depends on it.

**ClientStart.** Nothing is served before `Launch` (`NobodyBefore`), `Launch` is
reached when the loop has counted every session (`LoopMakesAll`, from the
cardinality of the sessions made), and what is counted plus what workers hold
is what was taken from the port (`EachCountedOnce`).

**RollingLog.** `FilesInOrder` is inductive once it is known that an absent
file has no records and that a rename goes to the next number (`AbsentIsEmpty`,
`RenameInRange`): each rename moves a file into a gap. `WriterKnowsFile` needs
that a file opened by the appender can be touched by nobody else. That a file with
-1 for its size is never rolled is part of `RollsOnlyFull`: a thread is on its way
through `rollLogFiles` only in a process whose `m_fileSize` was a real size when it
took the mutex, and no other thread of it writes that size meanwhile
(`LockedInside`, `ClosedWhileRolling`). Hence `SilentStaysHarmless`.

`FullFileIsKept` assumes that fewer processes share the directory than there are
files: `GlobalCore.h:25` keeps three, and two programs write them. A roll begins
with a full file 0 (`RollsOnlyFull`: what the appender believes of the size is
true), and moves a file once at most, since its loop goes down while the file
goes up. So a full file `f` is `Safe` when the processes that can still move it
(`Movers(f)`) are no more than all of them less the `f` renames it has behind it:
in the last number nobody is left to unlink it. `KeepsSafe`, that some file is
safe once a file has been unlinked or is about to be, is inductive: the roll that
begins makes file 0 safe (`CloseFindsFull`), a rename uses one mover up
(`RenameUsesUpMover`), an unlink spares the safe file (`UnlinkSpares`), and a refused
open or a crash only takes movers away.

`FilesImplementLog` follows. A file has as many records as its size says, but for one mark
(`SizesCount`), so the full file that remains has `MaxFileSize` of them; what is kept
has no gap up to the last record (`FilesInOrder`), so the last `MaxFileSize` are among
it (`LastAreThere`). A write accepts (`WriteAccepts`), an unlink gives up the records of
the last file, which are the oldest (`UnlinkGivesUp`), a rename moves records and loses
none (`RenameKeepsRecords`), and the other steps leave the files alone or mark an
empty one.

**LogFiles.** What the log does with text is written with functions that are
recursive over data: `FlattenSeq`, the turns of the CSV loop, `decimal`. To prove
what they give for every text, induction is needed, and the library's theorems for
it take an operator, which the provers cannot instantiate. A set can be: the
numbers for which a formula holds are a set, and `NatSetInduction` says that a set
that has 0 and the next of each of its numbers has them all. It follows from the
pigeonhole theorem of the library: below a number that is missing, "one less" would
map the missing ones into themselves, one to one and so onto. `SeqSetInduction`
carries it over to sequences, and `FlattenExists`, `TokensExist` and `SpellsExist`
show that the recursive definitions have a value, which the provers do not assume.

`fixLineEndings`, `toNarrow` and a reader (`Shown`) each make something of every
character in turn, so of `x \o y` they make what they make of `x` and of `y`
(`FixConcat`, `NarrowConcat`, `ShownConcat`). The last has a condition: a reader drops
a carriage return before a line feed, so `y` must not begin with a line feed, and
what the converters make of a text never does (`ConvertStart`). Hence
`ShownConvert`, one character at a time. Lines of joined texts are those of each if
the first ends its last line (`LinesConcat`), and a formatted record does
(`FormatLines`). A file is its mark and its converted records, so its lines are
those of its records (`FileReadsBack`): of the log only `TypeOK` is needed and the
bound on what is written (`WrittenWithin`), so this holds in every state it can
reach. In `csvFormat`, if the turns after one write the rest of the message quoted,
that turn and they write it quoted from its own token on, because two quotes that
meet are a doubled quote (`CsvTurn`, `TokensAre`). Quoting and `decimal` are injective
because their results end in what tells the last character or digit
(`DoublingTells`, `DecimalsDiffer`), which gives `CsvTellsMessages` and
`NumbersTellNames`.

Only model-checked: the liveness properties (`live`, `accept_live`,
`StartIsDecided`), which are out of the prover's reach. Every other property of a
passing run is a theorem, `NothingLost` as the case of `OnlyTearingLoses` in which
`Torn` is FALSE. Only proved: `ListedIsCounted`,
`NoReconnect`, `RemovalIsFinal`, `GoneIsFinal` and the types of
`RecvBuf`, `Listener`, `ClientStart` and `RollingLog`.

## Not modelled

- `NetAddr` holds and formats an address. The option setters of `SocketUtils` that
  nobody calls, the thread id of `CoreTLS`, which nobody reads, `CloseService` and
  `Listener::CloseSocket`, which nobody reaches, and console output.
- plog's other appenders and helpers (event log, colour console, debug output,
  Android, Arduino, dynamic; dumps), which neither program uses; its POSIX
  branches, its type traits and the streaming of other types than strings
  and containers; `setMaxFiles` and `setFileName` on a running appender.
- A record of which `_write` put only a part into the file keeps its place, but its
  line has no end: what a reader makes of the lines around it is not said.
- Time. `Dispatch` is called with `INFINITE`, so no wait ends without an answer;
  there are no retries but the recursion in `RegisterAccept`.
- The end of the programs: no worker returns, so nothing behind `Join` runs.

## Where it could go on

- `Session` and `GameBroadcast` composed: a broadcast calls the `Send` of an
  abstract connection here; `SendChannel` could take its place, so that the order
  of one sender's messages is shown down to the wire.
- The liveness half of `SessionLifetime` for both modules, so that the fairness of
  `Reclaim` in `accept_live` is a property of the abstract session.
