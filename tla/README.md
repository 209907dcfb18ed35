# A verification project for socket++

socket++ is a C++ library that wraps BSD sockets in stream buffers.  This
directory holds TLA+ modules of it, from the stream buffers to the services built
on them, the TLC configurations that check them on small instances, and TLAPS
proofs for every instance.  Source lines below refer to `src/socket++/`, the
manual is `src/doc/socket++.texi`.

## 1. The system

| part | source | state it keeps | operations | talks to | what is hard | module |
|---|---|---|---|---|---|---|
| output half of `basic_sockbuf` | sockstream.cpp 245-283, 356-397, 571-589, 755-759, 824-842 | put area (`pbase`..`epptr`), `rep->stmo` | `overflow`, `xsputn`, `sync`, `write`, `sendtimeout`, `shutdown(shut_write)` | the kernel (`select`, `::write`), the peer | partial writes, an error in the middle of a flush, timeouts and retries, characters wider than a byte | `SockBufPut` |
| input half | sockstream.cpp 286-350, 461-475, 762-784, 987-992, 1051-1067 | get area (`eback`..`egptr`), `rep->rtmo`, `rep->oob` | `underflow`, `uflow`, `xsgetn`, `read`, `recvtimeout`, `oob`, `shutdown(shut_read)` | the kernel (`select`, `ioctl`, `::read`), the peer | short reads, a throw in the middle of `xsgetn`, urgent data that arrives between the check and the read | `SockBufGet` |
| life of a sockbuf | sockstream.cpp 147-233, 824-842; sockstream.h 219-240 | `rep` (a counted `sockcnt`), the two areas, the descriptor | constructors, copy, destructor, `shutdown`, `close` | other sockbufs through `rep` | sharing, throwing destructors | `SockRep` |
| direct transfers, strings | sockstream.cpp 461-711 | none | `read`, `recv`, `recvfrom`, `write`, `send`, `sendto`, `send(string)`, `recv(string)`, wide strings | the kernel, past the areas | short counts of header and data, errors and timeouts between them | `StringFrames` |
| settings | sockstream.cpp 770-820, 846-1161; sockinet.cpp | options in the kernel, `stmo`, `rtmo`, `oob` in the record | setters that return the old value | every copy and every process that has the descriptor | read and write are two calls; shared values | `SockOptions` |
| `bind`, `connect`, `listen`, `accept` | sockstream.cpp 401-457, sockinet.cpp | an address | one system call each; `bind_until_success` | the kernel, DNS, services | the port search past 65535, ports that change hands | `InetPorts`, `EchoService` |
| `Fork` | fork.cpp, fork.h | the static list of `ForkProcess`, `killall`, signal handlers | `Fork`, `~Fork`, `suicide_signal`; the handlers `reaper_nohang`, `commit_suicide`; `~KillForks` at exit | the kernel (`fork`, `waitpid`, `kill`), its children | signal handlers that change the list the program is changing | `ForkProcess` |
| `sig` | sig.cpp, sig.h | a list of handlers per signal, sigactions, the mask | `set`, `unset`, `mask`, `unmask`, `kill`, `sig::hnd` objects | the kernel, user handlers | the handlers called by a walk change the list it walks; signals interrupt both, between the read of a sigaction and its write | `SigHandlers` |
| `pipestream` | pipestream.cpp, .h | socket pairs, the static chain `head` | command pipes, `iopipestream::fork` | the kernel, child processes | who inherits which end; streams deleted while in the chain | `PipeStream` |
| `ftp` client | ftp.cpp, .h | the reply code, control connection | commands, `get_response`, `ftpdata` | sockinetbuf, server | replies split by the network, who waits for whom around the data connection | `FtpClient` |
| `smtp` client | smtp.cpp, .h | control connection | commands, `get_response`, `data` | sockinetbuf, server | replies in step; dots at the borders of a chunk | `SmtpClient` |
| `protocol`, `echo` | protocol.cpp, echo.cpp, ../test/tcecho.C | - | bind or connect; echo loop | sockinetbuf | client and server that both write | `EchoService` |
| stream classes, manipulators | sockstream.cpp 1178-1252, sockstream.h, local.h | none | hand on to the sockbuf | sockbuf | - | - |
| `sockerr` | sockstream.cpp 1253-1396 | the errno | predicates on it | - | - | - |
| inet streams, `sockinit` | sockinet.cpp 164-179, 426-545; sockinet.h | `rdbuf()`, the use count of Winsock | constructors, destructors | sockinetbuf, Winsock | a stream's destructor that throws; copies that outlive a stream | `InetStreams` |
| `sockunix` | sockunix.cpp | a path | wrappers | sockbuf | - | - |
| `fifostream` | fifostream.cpp (in no build file) | registry entry, mutex, handles | create, register, retrieve, close | Windows | two servers that register at once | - |

The parts meet in four ways: streams and protocol clients *call* the sockbuf's
streambuf interface; sockbuf objects *share* a `sockcnt` through `rep`; the two
sockbufs of a connection exchange *bytes* through the kernel; and `Fork` and
`sig` are *called back* by signals at any point of the program.

### What makes each part correct

* **Output half.** Whatever `::write` takes, whatever fails and however often
  the caller retries, the kernel receives the characters the calls stored, in
  order, once each; a call that ended early says which of its characters it did
  not store; nothing follows a shutdown; every call ends while the peer reads.
* **Input half.** The same for the peer's bytes on their way to the callers;
  `eof` only at the end; `sockoob` only at the mark; calls end once the
  peer has closed, and with a timeout whatever it does.
* **Connection.** The two halves together are a byte stream.
* **Life.** No order of copying, shutdown and destruction frees a record or
  closes a descriptor under a live object, deletes an area twice, or closes a
  descriptor with output unflushed.  A stream has a buffer of its own, and Winsock
  is not cleaned up under a stream or a buffer.
* **Strings.** `send(string)` and `recv(string)` are a queue of messages: a
  string `recv` gives as whole is one that was sent, in its place, and a
  receiver that does not get everything is told.
* **Settings.** What a caller sets and puts back is as it was, for itself and
  for every copy.
* **Ports.** The search for a free port ends.
* **Fork.** The list is the children nobody has waited for; signals go to those
  only; exit and suicide leave no child behind, but for the ones the code is known
  to miss.
* **sig.** Every list is walked by an installed handler; a walk calls everyone
  who stays; a mask that was asked for holds.
* **pipestream.** Each process has its own end and no other, nobody waits for
  itself, and everybody ends when the program is done.
* **ftp, smtp.** Client and server stay in step: the code an operation returns
  is the answer to it, files and texts arrive whole, and neither waits for the
  other while the other waits for it.
* **echo.** Every client gets its own stream back, and ends.

## 2. The modules

    SockBufPut --+
                 +-- SockStream --refines--> ByteStream
    SockBufGet --+
    StringFrames --refines--> MessageQueue        InetStreams (SockRep)   ForkProcess
    EchoService  --refines--> EchoPromise         SigHandlers  PipeStream

    MCProcesses runs one of:  ForkProcess   PipeStream
    MCSockets   runs one of:  StringFrames  InetPorts   SockOptions
    MCServices  runs one of:  FtpClient     SmtpClient  EchoService

`ByteSeqs` holds `Take` and `Drop`, the two ends of a byte sequence.  The proofs
are in modules of their own: `ByteSeqProofs` (lemmas about cutting and joining
sequences), `SockBufPutProofs`, `SockBufGetProofs`, `SockStreamProofs`,
`SockBufProofs` (`SockRep`, `InetStreams` and `StringFrames`), `SigHandlersProofs`,
`ProcessProofs` (`PipeStream` and `ForkProcess`) and `ServiceProofs` (`EchoService`,
`SockOptions`, `SmtpClient` and `FtpClient`).

`MC*.tla` give the constants their values.  Operators under a comment that
begins with "Slip:" are not part of the model: each is a plausible mistake in
the definition that follows it, and with the slip in that definition's place TLC
finds a property violated.  They are there to show that the properties can fail.

### SockBufPut - the output half

State: `putOn` is `pbase() != 0`, `put` the bytes of `[pbase, pptr)`, `stmo` is
`rep->stmo`.  A call in progress is `ppc` (at the copy in `xsputn`, at
`is_writeready`, in the loop of `::write`), `pop` (which call), `rest` (the part
of its argument still to be stored) and `wlen` (`write`'s local).  `wire` and
`chan` are the kernel's side: everything `::write` has taken, and what the peer
has not read yet.  Characters are fresh numbers, `W` bytes each, so that a byte
lost, repeated or moved shows.

| action | code |
|---|---|
| `Sputn`, `XsputnFits`, `XsputnFills` | `xsputn` 381-397, one round of its recursion per step |
| `SputcStores`, `OverflowSyncs`, `OverflowDisabled` | `sputc`, `overflow` 356-377 |
| `Sync`, `SyncReturns` | `sync` 245-283 without error |
| `WriteReady`, `WriteTimesOut`, `SelectFails` | the timeout test 576-578 and `is_writeready` |
| `WriteSome(k)` | one `::write` of the loop that takes `k` bytes, 581-587 |
| `WriteFails` | `::write` returns -1: `throw wlen`, and `sync`'s handler that moves the rest to the front, 252-274 |
| `SendTimeout`, `ShutWrite` | 755-759; 830-841, with and without a failing `::shutdown` |
| `PeerReads` | the peer (environment) |

Each system call is a step of its own; the code between two is one step.

### SockBufGet - the input half

`get` holds the bytes of `[gptr, egptr)`; `gpc`, `gop`, `want` place a call
between `select`, `ioctl(SIOCATMARK)` and `::read`; `mark` is the stream
position of urgent data.  `XsgetnCopiesAll/Part`, `Sbumpc`, `Sgetc` are
`xsgetn`, `uflow` and `underflow` (286-346); `ReadReady`, `ReadTimesOut`,
`OobCheck`, `ReadSome`, `ReadEof`, `ReadFails` are the steps of `read` and
`underflow` (296-314, 461-475).  The kernel stops a read at the mark
(`BeforeMark`), as TCP does.

### SockStream and ByteStream - a connection

`SockStream` joins the two halves: the peer of each is the other, `chan` is the
one variable both write.  `ByteStream` is what the pair promises: `Extend`,
`Receive`, and `Truncate` (a shutdown may drop a tail nobody has received).
`RefinesByteStream` maps `sent` to what has been stored (after a shutdown: what
the kernel took), `received` to what was delivered, `open` to `putOn`.

### SockRep - objects that share a descriptor

`rep`, `cnt`, `sock`, `allocated` are the `sockcnt` records; `ptrs` says which
area pointers of an object are not null, `heap` which areas exist, `dirty` whose
put area holds something.  `Construct`, `CopyOf`, `Put`, `Flush`, `Shutdown`,
`Close`, `Destroy` and `DestroyThrows` are the constructors, the copy
constructor (which leaves the pointers null: `streambuf (sb)` is commented out at
line 186), the calls, and the destructor.  A descriptor number is used again
after it was closed.  The destructor may throw, as the code has it; that is the
meaning it had when destructors were not `noexcept` by default.  `close()` returns
true and does nothing (line 427): `Close` records the call in `closed` and changes
nothing else.  The manual (lines 298-301) says that it closes the socket under all
its sockbufs; that is `ClosedIsClosed`, which the code does not keep.
`LiveObjectsWork` promises nothing for a record whose `close()` was called, and
speaks of the others: what their copies do, short of that call, never takes the
socket from them.  Line 216 calls `close(rep->sock)`, which inside the class names
the member; the model takes it for the system's `close`, which the `closesocket` of
the other branch shows is meant.

### InetStreams - stream objects and the use count

`InetStreams` extends `SockRep`: `OpenStream` and `OpenOnCopy` are the constructors of
the three classes (each makes a buffer of its own), `CloseStream` their destructors,
`MakeBuf`, `CopyBuf` and `DeleteBuf` the buffers a program keeps beside its streams.
Streams and buffers have the base class `sockinit`; `Comes` and `Goes` are its
constructor and destructor as compiled for Windows, `started` is what WSAStartup and
WSACleanup make of it.  The program never deletes a stream's buffer itself.  A
constructor that throws leaves every count as it was and is not an action.

### ForkProcess - child processes

One process (`kid` is what each pid is to it) with its list (`list`, `next`),
its `Fork` objects, its signal dispositions and its place `pc`.  After a fork the
behaviour follows either side: `ForkParent`, `SetNext`, `SetHead` or `ForkChild`,
`ClearList`.  `Exit`, `WalkRound`, `WaitAny`, `WaitEnds` are `exit` and `~KillForks`;
`DtorKills`, `ReapChild`, `DtorUnlinks` are `~ForkProcess`, which both walks call and
which waits in `waitpid`.

The handlers run between any two steps, also those of the constructor, of `exit()` and
of each other.  `Reaper` is the `waitpid` of `reaper_nohang`, `ReaperUnlinks` the rest
of it (`handled` is the child between the two), `ReaperIdle` a call that finds
nothing.  `Suicide(sig)` enters `commit_suicide` wherever the program is, for each
signal it was installed for: a second signal comes on top of the first, or on top of
the `exit()` the first has called, which `exit` then ends (`LastExit`).  SIGCHLD is one
bit, as in the kernel.  Nothing in the repository blocks signals around `Fork`, so
nothing does here.

Three histories name what goes wrong by itself, so that the properties can say that
nothing else does: `unborn` is a child whose constructor a suicide signal
interrupted before `list = this`; `loose` are children waited for whose object is
still in the list (the reaper ran before the object was linked, or `wait(0)` took
the child in `~KillForks`, and then a signal came); `torn` says that a
signal between `next = list` and `list = this` left a freed object behind the new
one.  An access to a freed object ends the behaviour with `stray`, because nothing
can be said after it.

One walk of the list inside a handler or a destructor is one step.  `kill_process()`
(105-111), which nothing in the repository calls, has no action.

### StringFrames and MessageQueue - transfers past the areas

Two programs follow one protocol of plain transfers, strings and wide strings.
`spc` and `rpc` place the calls at `select`, at the header's `::send` or `::recv`
and at the data's; `wlen` is the local of that name.  A byte knows which transfer
it belongs to and whether to its header, so bytes taken for the wrong thing show:
a header made of anything but one whole header stands for any size (`SizesIn`).

| action | code |
|---|---|
| `Send`, `SendReady`, `SendTimesOut` | the timeout test of each send, 593-598, 621-626, 658-662, 697-700 |
| `SendHeader` | one `::send` of the header, of which only -1 is noticed (631-636) |
| `SendData`, `SendReturns` | the loop over the data (640-651, 681-690, 702-711) |
| `SendFails` | `throw wlen` |
| `Recv`, `RecvReady`, `RecvTimesOut` | the tests at the head of each recv |
| `RecvHeader` | one `::recv` of the header: 0 ends, a part of it throws (503-513) |
| `RecvData` | one `::recv` of the data, of any length (514-522) |

`MessageQueue` is the promise: messages are offered, withdrawn after a timeout,
and taken in order.  `RefinesMessageQueue` maps `taken` to what `recv` returned
with the count the header said, up to the first that came short (`Given`).  A caller can tell a whole string from a part by
comparing the count with the size of its buffer; the model counts a string as
given only then.  When `::send` takes a header in part the queue is `broken`, because
the code does not notice.

### SigHandlers - several handlers per signal

`smap`, `disp`, `samask` and `blocked` are the lists, the sigactions and the mask of
the process.  `stack` is what runs: the program, and above it a walk for each signal
being handled, each with its mask to restore, the node its iterator is at and the
call it is in.  A call goes in the steps of the code, and a signal, with all that its
handlers call, may come between any two:

| action | code |
|---|---|
| `SetLooks`, `Reads`, `SetWrites`, `SetPushes` | `set`: `find` on the list, `sigaction` to read and to install, `push_back` (43-74) |
| `UnsetFinds`, `UnsetMisses` | `unset(signo, hnd)` (76-91) |
| `UnsetAllErases`, `Reads`, `UnsetAllWrites` | `unset(signo)`: the list first, then `sigaction` (93-110) |
| `Reads`, `MaskWrites`, `UnmaskWrites` | `mask(siga, sigb)`, `unmask(siga, sigb)` (142-181) |
| `Block`, `Unblock` | one `sigprocmask` |
| `Deliver`, `CallHandler`, `HandlerReturns`, `WalkEnds` | `sighandler` and `for_each`, started by the kernel |
| `Kill` | `kill(signo)`: the same walk without the kernel |
| `Construct`, `Complete`, `Destroy` | an object of a class derived from `sig::hnd` |

A handler may make any of these calls for any signal, also one the program below is in
the middle of a call for.  Where that goes wrong without being undefined the model
goes on with what the code does: `undone` has the signals for which a `set` and an
`unset(signo)` met (the list and the disposition then disagree: `SigUninstalled.cfg`),
`lost` those for which a `mask(siga, sigb)` came between another call's read and
write of the sigaction and was overwritten (`SigMaskLost.cfg`).  The properties
promise the rest.  Only where C++ gives the code no meaning (`Races`: a list used
while a call below is in the middle of changing it; `ErasesUnderWalk`: the node under
an iterator erased; a handler called that is only half constructed) does
`undefined` say why and the behaviour end.  A list used while a call below stands just
before or just after its own change is the list as it is: the interleaving without a
race is there as well.

### PipeStream - who holds which end

`holds` has an entry for each end of each stream that a process has open; `chain`
is the list from `iopipestream::head`; `cpid` what `pid()` returns in each process.
`OpenCommand` is `createpipestream` (fork, close, dup2, exec, shutdown), `NewPair` the
constructor of an `iopipestream`, `Fork` the whole walk of `iopipestream::fork` in both
processes, `Destroy` the destructor, `ShutWrite` a shutdown on the sockbuf.
`ProcessEnds` is a child that has read its input to the end.

### FtpClient - the control and the data connection

`cpc` is what the client does, `stage` which reply of an operation it waits for
(`Answered` is the code behind each `get_response`).  A reply line travels as two
halves, and `get_response` (ftp.cpp 93-127) takes up to a line's end or, when none is
in the get area, whatever is there: `TakeCutLine`, after which client and server
are out of step and the model stops.  `Underflow` reads when the area is empty.
`ReplyAtEof` returns the code of the reply before.  `Accept`, `SendPiece`, `Sent`,
`ReceivePiece` are `ftpdata` (49-89); `ReceivingFails`, `PieceFails` and
`LastFlushFails` are the exceptions that leave it, out of `accept` or `sgetn`, out of
`sputn`, and out of the destructor of the data connection's buffer, which sends the
rest of its area as if the file ended there.  An exception leaves the reply to the command outstanding
(`Throws`).  The server is the environment, by RFC 959; it may give a transfer up
(`ServerAborts`).  `lost` is a history of what has gone wrong that no reply tells of: a
line that was cut, a call that threw, a connection the server could not make.

### SmtpClient - replies and texts

`Helo`, `Command`, `Data`, `TakeReplyLine`, `EndText` are the commands and their
replies.  When the server has gone (`ConnectionEnds`, `gone`), `get_response` ends
where the connection does (`EofEndsReply`), and the client goes
on as after an answer; a read error of the file ends `data`'s loop at any
piece (`EndText`).  After an exception (`CallThrows`) or a line that came in part
(`ReplyIsCut`) the client is `astray`, and the model follows it no further.  `ReadPiece` is one `::read` of `data(filename)`'s loop (145-146) with the
first look `send_buf` takes at what it read (102-107), `SendChar` one turn of
`send_buf`'s own loop (109-117), over a buffer that keeps what was in it.
`TakenForCommands` says what a server makes of the text: commands begin behind the
first line of a single dot.  `TextArrives` counts instead of decoding: the place `i`
of the wire that no doubled dot takes holds character number
`Cardinality(Kept(wire) \cap 1..i)` of the text.

### EchoService and EchoPromise - a service on the connection

The server's `serve()` and its clients with their connections: `ServerBinds`,
`ServerListens`, `ServerAccepts`, `ServerReads`, `ServerReadsEof`, `ServerWrites`,
`ServerFails`, `ServerExits` (echo.cpp 23-62) and the test client's `ClientConnects`,
`ClientWrites`, `ClientReads`, with refusal, reset and a client that is killed.  A `listen` or
`accept` that fails throws out of `serve()` and ends the server
(`ServerListens`, `ServerAcceptFails`).
`EchoPromise` is what the service promises: a client says more, or hears more of
what it said.

### InetPorts and SockOptions

`InetPorts` has the sockets that bind, among other processes that bind and close;
`TryBound`, `TryNext`, `TryThrows` are the loop of `bind_until_success` (sockinet.cpp
240-256), `Htons` the 16 bits of a port.  `SockOptions` has the setters: `GetOpt` and
`SetOpt` are the two system calls of one in the kernel, `SetField` the exchange in
the record; a caller that puts back what a setter returned has a bracket open.  Any
`setsockopt` may fail (`SetOptThrows`), also the one that was to put a value back: the
bracket stays open.

### MCProcesses, MCSockets, MCServices

Each of these gives the constants of two or three modules that do not interact, and
a behaviour of it runs one of them, chosen by `system`: the states TLC visits are the
union, not the product.

## 3. What the runs check

| run | bounds | shows |
|---|---|---|
| `put` | area 3, channel 2, 7 bytes, calls up to 5 characters, timeouts block/poll | `StreamIntegrity`, `EveryByteAccounted`, `SilentAfterShutdown`, `CallsReturn` |
| `get` | area 2, 5 bytes from the peer, calls up to 4 characters | `DeliveryIntegrity`, `EofOnlyAtEnd`, `OobOnlyAtMark`, `GetCallsReturn`, `RecvTimeoutBounds` |
| `stream` | areas 2, channel 2, 3 bytes | `FlushedIsReadable`, `RefinesByteStream` |
| `rep` | 4 buffers, 2 streams, 2 descriptors, symmetric | `CountIsHolders`, `LiveObjectsWork`, `PointersValid`, `ClosedFlushed`, `StreamsWork` |
| `processes` | Fork: 2 children and 2 signals for `commit_suicide`, or 3 children; pipe streams: 3 streams, 3 processes | `ListIsChildren`, `SignalsOwnChild`, `ExitLeavesNoChild`, `FlaggedKilledFirst`, `SuicideKillsAll`, `SuicideEnds`; `EndsApart`, `NoSelfWait`, `ProcessesEnd` |
| `sockets` | 4 transfers, strings of 0, 1, 3 characters, header 2, channel 4; 2 sockets, 4 ports; 2 callers, 2 options each | `RefinesMessageQueue`, `FramesArrive`; `BindSettles`; `BracketsRestore` |
| `sig` | 2 signals, 3 handlers, 3 contexts, 5 calls, symmetric | `HandlersAreInstalled`, `NestedMaskHolds`, `WalkCallsEach` |
| `services` | ftp: 4 commands, files of 2 pieces; smtp: 3 commands, texts of 3 characters, pieces of 2, commands and characters of a session together 5; echo: 2 clients, connections of 2 bytes, lines of 3, 5, 6 | `RepliesMatch`, `StoredWhole`, `OperationsEnd`; `NoEarlyEnd`, `TextArrives`, `RepliesInStep`; `EchoIsStream`, `EchoEnds` |

Why the bounds are enough for the cases to happen: in `put` the channel is
smaller than the area, so a flush is always split, and 7 bytes fill the area
twice, with one `sputn` longer than the area (the recursion of `xsputn`).  In `get`
a call asks for two areas' worth and the mark can lie before, inside and behind
what is read.  In `rep` four buffers allow two records with a copy each, held by streams or not, and two
descriptors make numbers come back.  In `processes` three children give a list with a
middle, and two children with two signals have each handler come in each other and
everywhere in the constructor and in `exit`; pids come in order, as nothing tells them
apart; three streams make a command between a pair and its fork, two forks and a
stream deleted in between.  In `sockets` the longest string behind its header is
longer than the channel, so header and data are cut at every place, and the protocol
has each kind behind each other; two sockets search four ports that others take and
give back; two callers nest two brackets on every pair of kinds of option.  In `sig`
five calls make a list of three with one taken off during a walk, a `set` or `mask` in the
middle of each other call, a walk that interrupts a walk of the same list (`kill`)
and of another, and a mask that outlives an emptied list.  In `services` four ftp
commands are two transfers, or a rename and two plain commands, each after any
outcome of the last; smtp texts of three characters in pieces of two have a dot
and a newline at every place of a piece and of its border, with what an earlier text left in the
buffer; echo lines of 3, 5 and 6 bytes over connections of 2 are below, at and
above what stops both sides.

Four runs end in a violation; each checks one sentence of a comment or of the
manual that the code does not keep:

| run | property | what the code does |
|---|---|---|
| `fork_unlinked` | `SuicideKillsEveryChild` | a signal between `fork()` and `list = this` starts `commit_suicide` on a list without the new child, which goes on running; the manual (2130) says all children are killed |
| `fork_zombies` | `NoZombies` | two children that end together raise one SIGCHLD, and the handler waits for one |
| `smtp_dots` | `EndsWhereItEnds` | `send_buf` looks at the character behind a newline also when the newline is the last of its piece: for a dot left there it puts a dot on the wire, and if the next piece begins with a newline that dot is a line of its own |
| `ftp_receive` | `ReceivingEnds` | the loop of `ftpdata` that receives waits for `sgetn` to return EOF, and `xsgetn` returns 0 at the end: it never gets to the last reply |

Further configurations refute other sentences in the same way; TLC finds each
of them violated:

| configuration (module) | property | what the code does |
|---|---|---|
| `PutTimeout` (`MCSockBufPut`) | `SendTimeoutBounds` | the send timeout is tested once, before the loop of blocking `::write` calls: a peer that stops reading blocks the call for ever |
| `GetOob` (`MCSockBufGet`) | `OobNeverSkipped` | `atmark()` is asked before `::read` waits; urgent data that comes while it waits is read without `sockoob` |
| `StreamWide` (`MCSockStream`) | `WideStream` | `sync` (251) gives a count of characters to `write`, which counts bytes; `underflow` (312) adds a count of bytes to a pointer to characters: with `W = 2` the reader is handed memory nobody wrote |
| `RepTorn` (`MCSockRep`) | `ClosedWithLast` | a flush that throws in the destructor skips `--rep->cnt`: the descriptor is never closed |
| `RepClosed` (`MCSockRep`) | `ClosedIsClosed` | `close()` closes nothing (427); the manual (300) says it closes the socket even if others refer to it |
| `ForkDangling` (`ForkProcess`) | `ForkHasProcess` | the handler, and in a child the constructor, delete the object `Fork::process` points to |
| `ForkReaped` (`ForkProcess`) | `KillsOnlyChildren` | `wait(0)` in `~KillForks` (44), or a reaper that runs before `list = this`, leaves a child that was waited for in the list: `commit_suicide` signals its pid, which may be another process by then; the comment at 169 speaks of the process's children |
| `FramesThrown` (`MCSockets`) | `ThrownCountIsWritten` | `send(string)` throws 0 when the data fails although the header has gone out |
| `SigPartial` (`MCSigHandlers`) | `HandlersAreWhole` | the constructor of `sig::hnd` sets the handler before the derived class exists: a signal calls a pure virtual function |
| `SigUninstalled` (`MCSigHandlers`) | `ListedAreInvoked` | `unset(signo)` empties the list and resets the disposition later: a `set` from a handler in between leaves its handler listed and never called |
| `SigMaskLost` (`MCSigHandlers`) | `NestedMaskKept` | `mask(siga, sigb)` from a handler, between the read and the write of another `mask`, is overwritten |
| `PipeUnclosed` (`PipeStream`) | `EndsAreClosed` | a command started between the making of a pair and its `fork()` inherits both ends and keeps them |

Met while reading and given no configuration: a copy has no areas (186); an object destroyed while another
shares its record leaks its areas (212; manual line 278); `~KillForks` reads
`cur->next` after `delete cur` (fork.cpp 39); `xsputn` flushes no newline (manual
line 502); a read that times out throws instead of returning 0 (463; manual line
393); `ftp::trans_mode` sends `STRU` (ftp.cpp 226), `append` sends `APPE` without
the name (287), `getfile` without a name goes on after it has reported the
error (235); `get_response` does not leave its loop for a first line shorter than a
code (ftp.cpp 100); a server that cannot connect leaves `ftpdata` in `accept` for ever;
the buffer sizes a setter returns and a caller puts back are doubled by the
kernel each time.  `ftp` and `smtp` derive from `protocol::protocolbuf`, which
`protocol.h` no longer has: they are modelled as written.

### Fairness

* `ThreadRuns`, `ReaderRuns`: weak fairness of the calling thread's own steps
  after a call has started.  The code never waits for anything but `select`,
  `::write` and `::read`, whose steps are enabled when the kernel lets them return.
* `PeerRuns` (only for `CallsReturn`): the peer goes on reading.  `SendTimeoutBounds`
  is checked without it.  Failing system calls are never forced.
* The peer's sending and closing are never fair; `GetCallsReturn` speaks of calls
  after the peer closed.
* `ForkFair`: the process runs, and a child that was sent SIGKILL or SIGTERM ends
  (a child that has the kill flag installs a handler for SIGTERM that exits).
  Other children may run for ever, so `SuicideEnds` depends on `commit_suicide`
  killing before it waits.
* `FramesSpec`: a thread inside a send or recv goes on when the kernel lets it,
  and the receiving program makes its next call.  The sender need not; `FramesArrive`
  speaks of what was sent.
* `PipeSpec`: a process that sees the end of everything it reads ends.  The
  program itself need do nothing.
* `FtpFair`: the client goes on with an operation it has begun, and the server
  answers the commands it gets.  It need not be able to connect, may give a transfer
  up and may close, and calls of the client may throw, all of it never by force;
  `OperationsEnd` excuses a missing connection, a close and an exception, not a
  transfer given up.
* `EchoFair`: server and clients go on with a call that can go on; nobody has
  to connect, nobody is killed and no `accept` fails by force.
* `PortFair`: the loop of `bind_until_success` runs.  It ends although the other
  processes may take each port just before it asks.

The deadlock check is off where a system may stop: a program may end with all
objects used up, a process exits, both ends of a connection may be done.  What
may not stop before its end is stated by the liveness properties instead.

## 4. What is proved

Every theorem holds for all values of the constants that satisfy the named
`ASSUME` of its module, and under the hypothesis it states, if any.

| theorem | property | hypothesis |
|---|---|---|
| `PutTypeCorrect`, `PutBounds`, `PutIntegrity`, `PutSyncFlushes`, `PutSilent`, `PutAccounted` | `PutTypeOK`, `PutInBounds`, `StreamIntegrity`, `SyncFlushes`, `SilentAfterShutdown`, `EveryByteAccounted` | `W = 1` |
| `GetTypeCorrect`, `GetBounds`, `GetIntegrity`, `GetEofAtEnd`, `GetOobAtMark` | `GetTypeOK`, `GetInBounds`, `DeliveryIntegrity`, `EofOnlyAtEnd`, `OobOnlyAtMark` | `W = 1` |
| `StreamFlushed`, `StreamRefines`, `NarrowStream` | `FlushedIsReadable`, `RefinesByteStream`, `WideStream` | `W = 1` |
| `RepCount`, `RepLiveWork`, `RepPointers`, `RepCloseFlushed` | `CountIsHolders`, `LiveObjectsWork`, `PointersValid`, `ClosedFlushed` | |
| `StreamsAlwaysWork`, `StreamsAreSockbufs` | `StreamsWork`, `StreamSpec => RepSpec` | |
| `FramesAreQueue` | `RefinesMessageQueue` | `PlainLen # 0` |
| `SigTyped`, `SigInstalled`, `SigMasked`, `SigWalks` | `SigTypeOK`, `HandlersAreInstalled`, `NestedMaskHolds`, `WalkCallsEach` | |
| `PipeEndsApart`, `PipeNoSelfWait` | `EndsApart`, `NoSelfWait` | |
| `ForkListed`, `ForkExits`, `ForkKillsFlagged`, `ForkKillsAll`, `ForkSignalsOwn` | `ListIsChildren`, `ExitLeavesNoChild`, `FlaggedKilledFirst`, `SuicideKillsAll`, `SignalsOwnChild` | |
| `EchoKeepsPromise` | `EchoIsStream` | |
| `OptionsRestored` | `BracketsRestore` | |
| `SmtpInStep`, `SmtpTextArrives`, `SmtpEndsOnce` | `RepliesInStep`, `TextArrives`, `NoEarlyEnd` | |
| `FtpReplies`, `FtpStored` | `RepliesMatch`, `StoredWhole` | |

`W = 1`: the properties of the sockbuf are false for wider characters, which
`StreamWide.cfg` shows.  `PlainLen # 0`: a `recv` of
no bytes is satisfied before anything was sent.

**SockBufPutProofs.**  The invariant is `PutShape == PutTypeOK /\ PutInBounds /\
PutControl`.  `PutControl` says where a call can stand: a call at `select` or
`::write` has a put area that is not empty, `wlen` is 0 outside the loop, a call in
progress has no result, a `sync` that returned left the area empty, and the direction
is only closed once the area is gone.  Without it `WriteSome` could advance past an
empty area.  Integrity then needs only that every step either moves bytes from the
unsent part to `wire` (`SliceProps`, `DropProps`) or appends what it stores to both
sides (`StoreKeepsIntegrity`).  For `EveryByteAccounted` the ledger is `ByteLedger`:
the bytes still to be copied are the last that were handed over, so what has
been stored and what has been refused share the others between them, the stored
ones in order; a call that stores, refuses or begins moves the line between the two
parts (`AccountStart` and the lemmas after it).  No run checks `SyncFlushes` by
itself: in `stream`, `FlushedIsReadable` says more.

**SockBufGetProofs.**  The invariant is `GetIInv == GetShape /\ Split`.
`GetControl`, the part of `GetShape` that matters, says that a call at `select`, the
mark or `::read` has an empty get area and a direction that is open: without it a
read would overwrite bytes nobody has seen.  `Split` says where the bytes are:
`taken \o chan = wire`, and `taken` is `delivered \o get`, plus a tail once
`shutdown(shut_read)` has dropped the area.  `DeliveryIntegrity` alone is not
inductive, because after the shutdown it no longer says what the area held.
Delivering bytes leaves `delivered \o get` as it is (`DeliverProps`), a read joins
what it cuts off the channel (`JoinCut`), and `NothingHeldBack` (open direction,
empty area: callers have all that left the kernel) gives `EofOnlyAtEnd` and
`OobOnlyAtMark`.

**SockStreamProofs.**  A step of the connection is a step of one half and, for the
other, one of its environment; so the invariant is the conjunction of those of the
halves, `PairInv`, taken from the two modules above as instances.  It gives
`StreamOrder`: what was delivered is a prefix of what the kernel took, which is a
prefix of what was stored.  From that every step extends the stream, receives
from its front, cuts its tail at a shutdown, or is a stutter (`StreamStep`).

**SockBufProofs.**  For `SockRep` (any finite set of objects) the invariant is
`RepShape`: types, `CountIsHolders`, `PointersValid` and `RecordsDisjoint` (allocated
records have open descriptors, each its own), and `DirtyHeld` for `ClosedFlushed`.
The heart is `DestroyLastKeeps` and `DestroyOtherKeeps`: a count of 1 means that the
object is the only holder, by the cardinality of `Holders`.  For `InetStreams` it is
`StreamShape`, in which `count` is the number of open streams and live buffers; each
stream's buffer has to be its own, or a buffer could go twice.
`StreamsAreSockbufs` carries the theorems about `SockRep` over to the buffers of
streams.

For `StringFrames` the invariant is `FrameIInv`.  The bytes of all transfers form one
stream, in which `After` names the successor of each byte.  `Carries` says that the
bytes in the kernel follow each other, that they begin where the receiver is
(`RecvPos`) and end where the sender is (`SendPos`); `Asks`, that the size taken from
a header is that of the transfer; `GivenOf`, that what was given was begun, and sent
if it can still be withdrawn.  A `::send` adds bytes at the end (`RunAdded`), a
`::recv` takes some off the front (`FrontCut`), and a part taken whole is the part
that was sent (`RunTaken`).  Nothing of this is claimed once a header was sent in
part, nor of the kernel's bytes once a call has told the receiver of a loss.
`QueueStep` then maps each step to one of `MessageQueue` or a stutter.

**SigHandlersProofs.**  For any handlers and any depth of walks that interrupt
each other, the invariant is `SigIInv`.  `NestedMaskHolds` speaks of two contexts of
the stack; what carries it are `HeldIsBlocked` and `HeldIsSaved` (what a running
handler was promised to hold off is in the mask of the process, and in every mask
that a walk above it will restore), and `AskedIsMasked` (what `mask` was asked for is in
the `sa_mask` that the kernel uses), each outside `lost`.  `CallsFit` says what a
call that has been interrupted may still rely on when it acts on what it read: a
`set` about to append finds `sighandler` installed, an `unset(signo)` about to write the
default finds the list empty, a `set`, `mask` or `unmask` about to write has the masks asked for in
its copy.  `CallsMet` is why it may: the calls above it that would break this are
noted in `undone` or `lost`.
`OwnersKnown` is needed because the destructor unsets an object from the list of the
signal it remembers.
`WalkCallsEach` rests on `WalksOrderly`: a walk has called, of the handlers that stayed,
exactly those its iterator has passed, and has called them in the order of the list.
It needs `ListsDistinct` (no handler is on a list twice) and, of each change of a list,
that it leaves the others in their order (`OrderOfAdded`, `OrderOfErased`); a step of
the walk moves one handler from ahead to behind (`OrderOfNext`).  Only `WalkEnds` takes
a context off the stack (`OnlyWalksEnd`), and there the iterator has passed them all.

**ProcessProofs.**  For `PipeStream` the invariant is `PipeIInv`: who holds which end
follows from the kind of the stream and the `cpid` of the process (`HoldsItsEnds`);
the pairs are the chain (`ChainIsPairs`), so a fork converts every one and no child
is left with a pair; and the two processes of a forked stream know each other
(`Parents`).  For `ForkProcess` it is
`ForkIInv`: while no freed object was touched, `Steady` and either `Core` or, once a
constructor has linked its object in front of a freed one (`torn`), `Adrift`; after
a freed object was touched, when the model stops, what was promised up to then.
The list is the set `Walked(list, Nil)` of the objects one comes to from `list`, the
least set closed under `next`, which needs no recursion.  `Core` is a conjunction:
`Path` (no two objects of the list have the same next) makes unlinking one object
take exactly that one out of the set (`UnlinkedNext`); `Alive`, `Complete` and `Exact` say
that the list is live objects, has all children nobody has waited for but `unborn`
and the one being linked, and no others but `loose` and the one the reaper has in hand;
`Working`, `Ending`, `FlaggedAhead` and `NoneLeft` say where the loops stand that kill
and reap, and that they have not missed a child although the handler takes objects
out of the list under them.  `Adrift` needs no more than that every loop is on its way
to the freed object and cannot end before it.

**ServiceProofs.**  *Echo* (any set of clients, lengths, sizes): `Conserved` says
where the bytes of the client served are: what it sent is what it has heard, then
what is on its way back, then `serve()`'s buffer, then what the server has not read.
It is not enough, because a server that goes takes its buffer with it:
`BackIsPrefix` says of every client, at all times, that what lies on the way back
goes on from what it has heard.  `Quiet` makes `Conserved` true when a client is
accepted and keeps it when the buffer is filled.  *Options*: `FirstOld` (the
outermost bracket on an option remembers its first value), `Between` (what
`getsockopt` read is still so at the `setsockopt`) and `Alone` (one caller at a time
uses an option that is not crossed).  *Smtp*: `InStep` gives for each place of the
client the replies and commands that can be outstanding while the server is there,
`LeftBehind` what can be left of them once it has gone (`PartOfReply`).  `TextIInv` is about the text
in the middle of a piece: what is left of the piece comes next in the text; a dot
that comes next finds the wire within a line, because it has been doubled
(`DotDue => ~LineOpen`), so it is kept; a dot that begins a line of the wire is
followed by one that comes next or by anything but a line end (`Followed`); at the
start of a line of the text the wire is at one too (`LinesAgree`), so a doubled dot
is dropped.  One character more or less is a lemma each (`CharKept`, `DotDropped`,
`FollowedOfMore`).  *Ftp*: `FtpIInv` lists what
the two sides can be doing together (`Resting`, `Asked`, `Replied`, `Begun`, `Accepting`,
`Storing`, `AllStored`, `Aborted`) as long as nothing has gone wrong (`Clean`); while a
file is being stored, what the server has and what is in
the connection are what was read of it (`Moving`).

Only model-checked:

* every liveness property (`CallsReturn`, `GetCallsReturn`, `RecvTimeoutBounds`,
  `SuicideEnds`, `FramesArrive`, `ProcessesEnd`, `OperationsEnd`, `EchoEnds`,
  `BindSettles`): fairness and ENABLED are out of the prover's reach;
* the sentences that the runs and configurations of section 3 refute.

## 5. Not modelled, and left out of what is

Section 1's parts without a module, for these reasons: the stream classes and
`sockunix` hand every operation on and keep no state; `sockerr` is a table from errno to
predicates;
`fifostream` is in no build file, and nothing in the repository says what the Windows
calls it makes promise.

In the modelled parts: the wording of errors, `sockname`, object files' names, the
value of `errno` where its kind is enough; two threads that use one sockbuf (the
library has no locks and promises nothing); memory that is used again after it
was freed; `kill_process()`, and a handler that runs in the middle of one walk of the
Fork list; `recvmsg` and `sendmsg` (compiled on neither
Linux nor Windows), `MSG_PEEK` and datagram addresses; a caller that mixes direct
transfers with buffered ones (each kind has its own order, and nothing promises one
between them); `nbio`, `async`, `closeonexec`, `clearerror`, `nread`, which nothing in the
library depends on; `sysresume`, `pending` and `ispending` of `sig`, which set a flag or
ask the kernel; a `::close` that fails inside `iopipestream::fork` or in a command's
child; names and addresses as text, `localaddr` and `peeraddr`; `ftp` and `smtp` operations
called with null names; an `smtp` client without an ostream, which reads no replies; what an `smtp` client does
after an exception or a cut line; an `ftp` client whose system calls fail on the control
connection or before the command of a transfer.  `BracketsRestore` says nothing of an
option on which two callers' brackets are crossed: read and write are two calls, and
the library promises nothing there.

## 6. What is left

* the buffered and the direct calls of one caller in one module;
* a failing `::close` in `iopipestream::fork`;
* the ftp client with the sockbuf's own areas in the place of its abstract get area.
