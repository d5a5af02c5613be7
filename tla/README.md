# Verification of Pancake

Pancake is a single-threaded, event-driven web server in C. This directory
holds TLA+ models of its core, the TLC configurations that check them on small
instances, and proofs about them for TLAPS. Every definition follows the source
at this commit; `PROJECT.json` (`map`) says which lines each one stands for.

    tlc -config MCPancakeScheduler.cfg MCPancakeScheduler.tla
    tlapm PancakeSchedulerProofs.tla
    tlapm PancakeLinuxPollProofs.tla
    tlapm PancakeHTTPRewriteProofs.tla
    tlapm PancakeProcessProofs.tla
    tlapm PancakeSelectProofs.tla
    tlapm PancakeHTTPConnectionProofs.tla
    tlapm PancakeHTTPFastCGIProofs.tla
    tlapm PancakeNetworkInterfaceProofs.tla

## The system

One process (or one per worker) runs one loop: a *server architecture* waits
for network events, calls the handlers installed in the sockets, then runs the
*scheduler*, and looks at a shutdown flag that a signal handler sets. Handlers
run to their end; concurrency is the interleaving of handlers of many sockets,
of timers, of the signal and of what the kernel and the peers do in between.

| part | state | operations | hard |
|---|---|---|---|
| Scheduler (`PancakeScheduler.c`) | circular list of events in order of time, cache of instances | schedule, unschedule, next offset, run, shutdown | recycled instances, deletion while iterating, time to sleep |
| LinuxPoll (`LinuxPoll/`) | epoll instance, flags in the socket, current socket, batch | nine registration operations, close notice, wait loop | flags against kernel, events of closed sockets in the batch |
| Select (`Select/`) | two descriptor sets, table, highest descriptor, scan | the same | bound of descriptors, counting reports, reuse of descriptors |
| Network (`PancakeNetwork.c`) | sockets, interfaces, connection caches, layers | accept, connect, read, write, close, bind, cache | partial writes, close inside handlers, order of configuration |
| HTTP (`HTTP/`) | per client: request or timer, handlers, buffers, flags | read header, serve, output, chunk, exception, end, hangup, timeout | partial reads and writes, aborts, keep-alive, `void*` by turns |
| Static, Deflate | open file, end of file; compressor | serve, write, close; chunk, end | refilling the buffer, end of file at its edge, release on every path |
| FastCGI (`HTTPFastCGI/`) | table of requests and sockets by id, connection cache | serve, records, hangup of client and of backend | multiplexing, each end failing, ids given back |
| Rewrite (`HTTPRewrite/`) | compiled rules, variables | compile, execute | jumps, lists, scopes |
| TLS (`OpenSSL/`) | session, previous handler | accept, read, write, close | wants of the other direction |
| Configuration (`PancakeConfiguration.c`) | tree of settings, scopes, groups | register, load, activate, unscope, destroy | settings left behind by another scope |
| Process (`Pancake.c`, `PancakeWorkers.c`) | modules, workers, shutdown flag | start, fork, signal, end | order of initialisation and of end |
| Authentication, MIME, Base64, allocator | tables | lookup, decode | edges of input |
| Logger, dates, generator, parser | | | output, build time, vendored |

How they meet: handlers are function pointers in a socket; the architecture
learns interest through its operations and calls back; HTTP arms timers whose
callbacks get a socket; a close tells the architecture (`onSocketClose`).
Configuration scopes are global and switched by the handlers.

What makes each part correct: timers fire, once, for their owner only, and
never a freed socket; an architecture calls a handler only for what its owner
asked for and never for a closed socket; a connection always has a reason to
wake up, sends its answer in order, and is left clean for the next request;
whatever is opened for a request is released with it; a shutdown ends.

## Plan

1. `PancakeScheduler` with its promise `TimerQueue`, and proofs (done).
2. `PancakeHTTPConnection` with static content and deflate (done), with proofs
   of its timers, handlers, files and of the order of answers.
3. `PancakeLinuxPoll` with its promise `ServerArchitecture`, and proofs (done);
   `PancakeSelect` (done), with proofs of its table, its bound and its scan.
4. `PancakeHTTPFastCGI`: multiplexed requests between clients and servers, ids,
   the connection cache, hangups of both ends (done), with proofs of its table,
   its cache and its handlers; a promise that every request is answered or
   aborted once.
5. `PancakeConfiguration`, scopes and groups, and `PancakeHTTPRewrite`, which
   composes them with the compiler, the virtual machine and the handlers that
   switch them (done, with proofs of what unscoping restores, of the compiler and
   of the settings every request is served with).
6. `PancakeProcess`: module initialisation with deferral, workers, signals and
   shutdown (done, with proofs).
7. `PancakeNetworkInterface`: from the file to listening sockets, with the
   contexts of TLS (done, with proofs); the exchange of handlers of a TLS session.
8. Algorithms against reference definitions on bounded inputs: percent
   decoding, chunk framing, FastCGI parameters, Base64, users file, MIME.
9. HTTP connections composed with timed timers.

Abstract specifications worth stating: the timers (`TimerQueue`), the
architecture (`ServerArchitecture`), the multiplexer of FastCGI. Theorems worth
proving: invariants of scheduler, architectures, connections, processes and
FastCGI ids, what unscoping restores and what compiled rulesets do, and the
refinements of the first two. Runs are kept to two or three interacting parties, one more than any property relates.

## The modules

**`TimerQueue`** is what the HTTP module relies on: one timer per owner, armed,
cancelled, or expired not before its time; timers expire in runs, which take
all that are due, or in the one that closes the queue all there are. **`PancakeScheduler`** models the
list as the sequence from the head on (the element after the last is the head
again, `NextOf`), the cache as a set because its order is not used, event
memory as a set that is recycled, owners with the pointer they keep, the clock,
and the loop: `EnterWait` computes the time to sleep, `WakeUp`/`Interrupted`
leave the wait, handlers call `Schedule`/`Unschedule`, then `StartRun`,
`RunEvent`, `EndRun`, and after a signal `DrainEvent`, `EndDrain`. A callback
ends its owner's use of the event, as both callbacks of the HTTP module do.

**`PancakeHTTPConnection`** maps the record of a client socket to the set of
records a handler can leave: one operator per function of `PancakeHTTP.c`, so
that the nesting of calls in the code is the nesting of operators here. Data
are tokens (`header`, `data`, `page`, `last`). The choice is what the kernel
takes of a write, whether a read completes a header, and what the request is.
What a request has opened, a file or the stream of the compressor, and is not
released when its socket is freed is kept in `leaked`; a deflated read of nothing
makes an end of the body (`last`) like the real one.
Timers are those of `TimerQueue` without time. The batch is one event with its
handlers `read`, `write`, `hangup`, in the order of the loops.

**`PancakeLinuxPoll`** and **`PancakeSelect`** model both architectures, with
handlers that do anything handlers of the code do: on their own socket, or,
with `Relays`, on others (`PancakeHTTPFastCGI.c`). **`ServerArchitecture`** is
their promise; LinuxPoll is shown to implement it for handlers that keep to
their socket. Select does not report hangups as events of their own and keeps
everybody in its read set, so its properties are stated directly. 

**`PancakeHTTPFastCGI`** has three parties: the sockets of clients (of which it
keeps what FastCGI reads and sets, and one operator per function of HTTP that
it calls), the connections to the server with their write buffers as sequences
of records, and the table between them. The server is part of the environment:
it works under the ids it has read (`live`) and answers any of them in any
order, in the step that reads the answer. Like the code, a handler that adds
records writes at once as much as the kernel takes (`Send`). `setup` is chosen
at the start: whether connections are kept, whether the server multiplexes, and
what clients ask for. `Initialized` is how far the table is set to zero
(`PancakeHTTPFastCGI.c:53` clears an eighth of it on a 64-bit machine).
Handlers are called for one event at a time: batches are the subject of the
architecture modules. `Habits` are three liberties that servers may take:
`early`, to answer before they have the whole body; `flushes`, to send the
headers in a record of their own and output later; `hasty`, to end a request
before they have said, over another connection, that they multiplex. The code
handles all three, each in a wrong way that has a run of its own; the run
`fastcgi` and the proofs are for servers without them. The environment is kept
to what is defined in two places: writes to the server fail only where nothing
of the socket is used afterwards, and the write of a last chunk in the middle of
a server's hangup does not fail (`hazards` says what happens otherwise).

**`PancakeConfiguration`** has what the configuration keeps at run time: the
memory the program reads settings from, and scopes of values that are copied
into it. Its operators are the functions of `PancakeConfiguration.c`
(`AddScope`, `AddValue` for the part of `CheckValue` that stores a value,
`ActivateScope`, `ActivateScopeGroup`, `Unscope`, `LoadGroupDefaultValues`,
`LoadRootScope` with its pruning). **`PancakeHTTPRewrite`** EXTENDS it and reads
a file, an element per action, in the order of the groups of the file: virtual
hosts, their settings, rulesets with conditions, `SET`, `CALL` and settings,
which the compiler turns into opcodes and pending scopes. Then it serves:
`HandleHeader` looks up the host and activates its scope, the actions of the
virtual machine execute the opcodes, `ServeContent` or `Exception` ends the
handler, and the handlers of FastCGI come back to the scopes of their request
later, but for those that end a request: the headers or the page they may write
show or hide the server's name by what is in memory (`BeginUnscoped`). `handler`
is the handler that runs, with what was in memory when it began (`found`);
`left` says that the last one did not unscope; `file` is what was read, from which
alone the properties compute what is meant (`Means`, over the settings there
are). `Listed` are the settings that only a list of groups registers, here the
document root of virtual hosts: `LoadGroupDefaultValues` does not come to them,
so the root scope never has one. Every value of a file is a number of its own, so
that a value in memory tells where it comes from. A host has one name, its place in the file;
of the callbacks only `ThrowException` is there; hosts with rulesets have the
parser hook "Rewrite". The body is complete when a FastCGI server hangs up.

**`PancakeNetworkInterface`** reads the elements of interfaces in any order and
keeps sockets in cells of memory, because the TLS layer reallocates them:
`hook` is the pointer of the configuration, `listenSockets` those of the network
module. A descriptor is the number of its interface and is bound at most once.
Contexts are numbers, with the protocol they negotiate, the callback for names
and, for the properties, the interface they are said of (`of`). `said` is what the file says. Certificates, keys and parameters are left
out, as are interfaces that name the layer without its group.

**`PancakeProcess`** has the master and up to `MaxWorkers` workers. What a
module does in its initialisation is a record (`needs`, `looksUp`, `adds`) per
module, over places in the tree of configuration. `pc` is where a process is;
`RunWorker` copies `flag`, `registry` and `heap` to the child as fork does. The
loop of a worker is that of `PancakeSelect` seen from outside: it blocks, finds
all that is there, and looks at the flag at the end of a round or when a signal
interrupts it. The master writes two bytes to a worker (a string of one byte
with its zero), each of which is an event. Signals come to any process at any
time from the installation of the handler on, also between the look at the
flag and the sleep, and workers may crash. A crash of the master, which would
leave its workers alone, is left out; under LinuxPoll a worker does not hear
the master at all (see the end).

The `MC` modules give the constants their values.

## Runs

| run | question | bounds | distinct states |
|---|---|---|---|
| `scheduler` | list, ownership, sleep, drain, every timer settles; refines `TimerQueue` | 3 owners, 3 instances, clock 0..2, timeouts 0 and 2 | 334k |
| `http_connection` | timers, handlers, files, streams, the answers token by token, shutdown; a signal ends the process | 2 clients, files of 0, 1, 3, 4 blocks, buffer 2..3 | 236k |
| `linux_poll` | flags, interest, closed sockets; refines `ServerArchitecture` | a listener, a worker's socket, 2 clients, batches of 2 | 11k |
| `linux_poll_stale` | no further events on a closed socket? **violated** | | |
| `select` | table, bound, closed sockets, count, reuse of descriptors; handlers that relay and that do not | 4 descriptors, FD_SETSIZE 8 | 96k |
| `fastcgi` | table, ids against the server, nobody forgotten, handlers, cache | 2 clients, 2 connections, 2 ids, of which one is cleared; all kinds of requests over connections of their own, one kind over kept ones, shared or not | 1.5M |
| `fastcgi_early` | is the whole body transmitted? **violated** | 1 client, a body of 2 parts | |
| `fastcgi_flush` | does the write handler leave the end of a request to the end? **violated** | 1 client, output in a later record | |
| `fastcgi_hasty` | is a connection in the cache once? **violated** | 1 client, 2 connections, a request that ends early | |
| `rewrite` | the settings in memory against the meaning of the file, unscoping, destruction of scopes | every file of up to 5 elements, 1 request at a time, 6 operations | 1.9M |
| `network_interface` | listening, pointers after reallocation, contexts by name | files of up to 10 elements, 3 cells, 2 domains, 3 contexts | 2.6M |
| `process` | order of modules, what is freed after a fork, all processes end | 6 modules in all 720 orders, 3 workers | 163k |

Why these are enough: three list elements give every position of an insertion
(front, middle, back, ties) and a recycled instance between two owners. Files
below, at and above the size of the buffer give every order of refill, partial
write and end of file. Two clients share the process but no data, so a second
one shows exactly the shared state; in FastCGI two requests share a connection, or
take over each other's id and memory. A batch of two with a listener shows a
socket closed, and its memory used again, while its event waits. Four
descriptors leave gaps above and below the special ones. Five elements are
enough for two hosts with a setting each and one for the server, and for two
rulesets with settings or conditions of one host, which is what the pruning
of the root scope, the order of a group and pending scopes can confuse; one
request at a time suffices because memory belongs to the handler that runs and
what is left of a request is in its group. Ten elements describe two interfaces
with a TLS group between them, or one with two contexts in any order, and a
third cell is one a socket can move to. The six modules of `process` are those
that others need, with a network layer and one that needs two; a third worker is
neither the first nor the last one. Histories (`interest`, `new`, `answer`, `sent`, `said`,
`file`) are read by properties only.

`CHECK_DEADLOCK FALSE` is set where the process stops at the end: the scheduler,
the connection, `rewrite`, `network_interface` and `process`; the architectures
and FastCGI run for ever and are checked for deadlock.

**Fairness.** The process is scheduled: handlers return, the loops over lists
go on, a wait that timed out returns (weak fairness of each step). No network
event, request or signal is obliged to come. `LeaveLoop` of the connection
module is strongly fair: batches are finite, so the flag is looked at again and
again although it is not enabled all the time. A handler of a socket that was
called returns (`HandlerReturns`). Draining is weakly fair. In `PancakeProcess`
every process that can go on does, and the sleep of the master ends (after an
hour, if nothing interrupts it; this hour is the answer to a signal between the
look at the flag and the sleep). No signal, connection or timer is obliged to
come, so that a worker that blocks is only woken by a byte of the master.

## What the violations show

* `PancakeLinuxPollOnSocketClose` (`:257`) protects the event at hand and not
  the rest of the batch; it matters as soon as a handler closes a socket of
  somebody else, as FastCGI's do.
* A FastCGI server that answers before it has the body never gets the rest of
  it: `PancakeHTTPOnWrite` (`HTTP/PancakeHTTP.c:1478`) resets the interest that
  `PancakeHTTPFastCGIServe` set.
* A server that flushes its headers first: the handler for output sets `onWrite`
  only together with headers (`HTTPFastCGI/PancakeHTTPFastCGI.c:547`). Output of
  a later record (`:456-470`) is watched for writing with whatever is there: an
  uninitialised pointer on a fresh connection (`onWrite` is NULL only in
  listening sockets), and on one that was kept the `PancakeHTTPFullWriteBuffer`
  of the last request, which ends a request that is still in the table.
* A server that ends a request before the answer to `FCGI_MPXS_CONNS`: its
  connection goes into the cache with the mark that it is not there (`:573-578`).
  Once the answer is yes, the end of its next request caches it again, and the
  hangup takes out one of the two: the other is a pointer to freed memory.

## Proofs

`PancakeSchedulerProofs` proves, for all constants that satisfy the named
assumptions (timeouts, clock and idle timeout are naturals, `NULL` is no event,
owner or number):

* `TypeCorrect`, `SchedulerCorrect`: types and `SchedulerInv`, which has five
  parts: the order, unique instances, ownership, the cursor, and the sleep. The inductive invariant is `IInv == TypeOK /\ SchedulerInv`.
  No part is inductive alone: the order needs instances to be in one place (a
  recycled instance gets a new time), ownership needs unique instances, and the
  cursor needs both. Lemmas say what `InsertAt`, `RemoveAt`, `Insert`, `Delete`
  and the sleep do to any list; then there is a lemma per action.
* `StopIsClean`: with `LoopInv`, that a stopped loop has nothing left.
* `RunsAreComplete`: stopping at the first event that is not due leaves none
  that was; it follows from the order and the cursor.
* `SchedulerImplementsTimers`: every step maps to a step of `TimerQueue` or a
  stutter.

`PancakeLinuxPollProofs` proves, for any set of sockets and batches of any size
(`SocketAssumption`: listening and early sockets are different sockets, `NULL`
is none; `BatchAssumption`):

* `TypeCorrect` and `FlagsCorrect` (`FlagsMatch` and `InterestKept`), also for
  handlers that relay. The inductive invariant is `IInv == TypeOK /\ Registered`:
  besides `Matches` for every open socket it needs that nothing is known of a
  closed one (its memory is used again by `Accept`), and that early sockets,
  which no handler touches, are flagged and not watched. That each of the nine
  operations keeps `Matches` is one lemma (`OperationKeeps`), used by all actions.
* `ClosedIsSilent`, under `~Relays`: `NoFurtherEvents`. It needs `BatchInv`: the
  batch names each socket once and not the one at hand, which is
  `currentSocket` until it is closed. This is what a relaying handler breaks.
* `LinuxPollImplementsArchitecture`, under `~Relays`: taking an event from the
  batch is a stutter of the promise, the call of a handler takes exactly one
  reported event, and a close drops what is left of its socket.

`PancakeHTTPRewriteProofs` proves, for files of any length, any operations of
rulesets and any number of requests (`RewriteAssumption`: the operations are
those the compiler knows; `NullAssumption`: `NULL` is no handler and no request):

* `UnscopedCorrect`: `RootInForce`, of all settings but those of lists (the
  document root). Load removes from the root scope what
  unscoping need not write, so it has to be shown that what was removed never
  leaves memory. The inductive invariant has four parts. `ScopeInv`: the settings
  with a value anywhere are those of the root and those with a scoped value, and
  other scopes have only the latter. `HostInv`: every scope a host or an opcode
  names exists, also while the compiler has one pending. `RequestInv`: the same
  for the scope groups of requests, and handlers run only while the server does.
  `MemoryInv`: until the end of the file the root scope is what was read
  (`RootIsMeant` says that the values and defaults then loaded are what the file
  means); from there it has exactly the settings with a scoped value, and memory
  agrees with the file on all others, and on all but those of lists between
  handlers and in those that activate nothing. Activating a scope or a group keeps that
  (`ActivationKeeps`, `GroupKeeps`), and activating the root gives the rest back
  (`UnscopeRestores`).
* `TypeCorrect`, from the same invariant (`IInv`).
* `DestroyedCorrect`: `ScopesDestroyed`, from `CompileInv`, which says what the
  compiler has made of the part of the file that was read, wherever the next
  element comes. `FileInv`: hosts and rulesets are those of the file, each host
  with a scope of its own that has its settings. `CompilerInv`, `DefaultInv`:
  which ruleset opcodes go to, when a scope is pending, and which host is the
  default. `RulesetInv` (of files that are `Orderly`): opcodes and items of a
  ruleset are `Compiled` to each other, that is, from whatever state, the opcodes
  set the variables that the items mean, the same conditions hold, and the items
  mean exactly the values of the ruleset's scope; an `ACTIVATE_SCOPE` comes last,
  never where opcodes are still made, and there are no more opcodes than items.
  `ScopeOfInv` and `Owned`: every scope but the root belongs to one host or to
  one ruleset. So each has one place that destroys it (`DestroyedOnce`).
* `SettingsCorrect`: `SettingsMean`, from `ServedInv`, which uses both. A request
  outlives the memory it was first served over, and a later handler may find
  another document root there; so what a request is meant to have is a function
  of what a handler finds, and `ServedInv` says it for every memory (`Memory`) at
  once: `Found` ties it to the one there is. While a
  request is at opcode k of ruleset j, the rulesets before j mean what its scope
  group has activated, its variables are those the first k - 1 opcodes make,
  their conditions held, and once the activation is passed the group has the
  settings of this ruleset too (`RewritingInv`; `Before`, `Within`); a condition
  that fails is the end of a ruleset because nothing applies after it
  (`StaysFalse`). After its rulesets a request keeps a group with what is meant
  for it (`MeantInv`), so a handler that activates the group again, after any
  number of other requests, has it in memory. A request for which an exception
  page is written has at least the header setting of its host, which no ruleset
  has.
* What the file means is a fold over rulesets of folds over items. A fold looks
  its result up in a table that is chosen, so `TableExists` shows that there is
  one for sequences of any length, by induction in the form of sets: a least
  number for which there is none cannot exist (`SetInduction`). `FoldAppend` and
  `FoldEmpty` then let all other lemmas take a fold one element at a time.

`PancakeProcessProofs` proves, for any set of modules in any order and any number
of workers (`ModuleAssumption`; `NeedsAreBuilt`: what a module needs is built
too, as it would not link otherwise):

* `ModulesCorrect`: `SameForEveryOrder`. Modules have ranks, one more than those
  they need; in pass n all of lower ranks are there (`PassInv`), so the fourth
  pass defers nobody. The HTTP module is put off once (`HTTPInv`), so all others
  that need nothing, OpenSSL among them, came before it and its list of layers
  is complete (`LayersInTime`). That a module finds what it looks up follows
  from what the modules it needs have added (`NeedsSuffice`).
* `FreedCorrect`: `FreedOnce`. The master's registry is what it has allocated; a
  worker has what was registered before it, and itself, which is not registered
  in its copy (`WorkerInv`).
* `TypeCorrect`, which needs that the master writes to a worker once (`BytesInv`).

`PancakeSelectProofs` proves, for any set of descriptors and any reports of
`select` (`DescriptorAssumption`: descriptors are at least 1 and below
`FD_SETSIZE`, listening and early ones differ):

* `TableCorrect`: `TableMatches`, and types. `TablesInv` is the chain: what is
  watched has an entry, what has an entry is open.
* `BoundCorrect`, for handlers that do not relay: `NobodyDeaf`. `BoundInv` adds
  that before the server runs the bound is above every descriptor; afterwards
  the scan down the table finds the highest entry (`Determined`).
* `ClosedIsSilent`: `NoFurtherEvents`. The handler called is that of the socket
  at the cursor, which is `currentSocket` until it is closed (`CursorInv`).
* `ScanCorrect`: `NobodySkipped`. `numEvents` is at least the number of reports
  from the cursor down, where the report of writing at the cursor still counts
  until it is looked at (`CountInv`); at 0 there is none left to skip. That a
  descriptor is removed from what is ahead of the cursor costs exactly the one
  it is decremented for, by the theorems about cardinality.
* `ReportsAreOwn`, for handlers that do not relay: `NoForeignEvents`. A handler
  closes only its own socket, so that a descriptor used again in this scan is
  behind the cursor (`ForeignInv`).

`PancakeHTTPConnectionProofs` proves, for any number of clients, sizes of files
and of buffers, and any architecture that works like LinuxPoll (`Polls`; under
Select reading is not disabled while an answer is sent, see below, and all that
follows fails there):

* `Inductive`: between two calls a socket is in one of five states. It is closed;
  `Reading` a request, with the timer for it; `Waiting` for the next one, with
  the timer for that and nothing of the last answer; `Filling` its buffer from a
  file that will be closed; or `Draining` what is left in the buffer. Each state
  says which handlers are installed, what the socket is watched for, and what
  was sent, is in the buffer and is still in the file. `IInv` says this for all
  sockets, that the handlers still to be called (`PendingMatches`) are those of an
  open socket that asked for them, and that a stopped process has no timer.
  The properties of the run hold in every state but do not carry over a handler:
  which one comes next depends on the state of request and file.
* The proof follows the calls. A lemma says where each function leaves a socket
  (`RequestEndAnswers`, `FullWriteBufferAnswers`, `ReadHeaderDataLeaves`, ...),
  and the actions only compose them.
* From it: `TimersCorrect`, `HandlersCorrect`, `ConnectionsRemembered`,
  `NothingLeftBehind` (no file; the stream of exactly the deflated answers that
  are cut), `AnswersOrdered` (the sequence sent, with the buffer and the rest of
  the file, is always the whole answer, token by token, with the second end of a
  deflated body where a read found nothing else), `NothingReadMeanwhile`,
  `StopsCorrect`, and the action property `ShutdownGrantsNothing`.

`PancakeHTTPFastCGIProofs` proves, for any number of clients and connections, any
size of the table (`TableAssumption`: at least one entry is cleared; the memory
of clients and that of connections are apart, `NULL` and what is in the rest of
the table are neither) and under `Patient`, that the server has no `Habits`:

* `Inductive`: a client is closed, `Idling`, `Relaying` or `Replying`, and it is
  `Relaying` exactly while it is in the table (`ClientsMatch`). An open connection
  is read, or written and has something to write (`ConnectionsMatch`). To these
  `Core` adds `TableMatches`, `ServerAgrees` and `CacheSound`, of which none is
  inductive alone: an answer finds the right client only if the server agrees, the
  id of a request is free again only if the table matches, and a connection is
  given to a second request only if the cache is sound. Two more facts are
  needed. The connection over which the server is asked what it can do serves
  nobody (`AskedApart`), as it is closed by the answer; and a connection that is
  still to be cached is not in the cache, unless the server does not multiplex
  (`MultiplexMatches`), or `PancakeHTTPFastCGI.c:578` would cache it twice.
* That the end of the table is not cleared does no harm to any of this: an id is
  only given out if its entry is NULL. What is lost are ids.
* Most steps leave the table alone (`Keeps`); lemmas about sequences say what
  leaving, entering and taking from the cache do (`TailFacts`, `PushFacts`,
  `RemoveFacts`), and what records begin (`BegunConcat`).
* From it: `TableCorrect`, `ServerCorrect`, `CacheCorrect`, `ClientsRemembered`,
  `HandlersCorrect`. The last one is false without `Patient`: a server that
  answers before it has the body, and goes, leaves its client to the handler that
  reads the body for a connection that is gone, and one that flushes headers is
  written for by the wrong handler; so is `CacheCorrect`, for a hasty one.

`PancakeNetworkInterfaceProofs` proves, for files of any length and order and any
number of interfaces, contexts, names and protocols (`InterfaceAssumption`, and
`SocketAssumption`: `NULL` is no socket):

* `InterfaceInductive`. Three groups of facts are invariant. `InterfacesCorrect`:
  what the place in the file says of the interface that is read, no two hooks are
  the same, the socket behind a hook is as the file says (`SocketCorrect`), a
  descriptor is bound as soon as the address is complete (`BoundCorrect`), and
  bound descriptors and pointers match one to one. `ServersCorrect`: the tables
  of an extended socket hold contexts of this interface and of no other, each
  with its protocol, and a name that the file gives to a context leads to it;
  the context that is read is the last one. `SessionCorrect`: what a client got.
* None of the properties is inductive: a socket that is moved keeps its pointer
  only because no other hook has its cell, and a protocol reaches all contexts of
  an interface, and no foreign ones, only because the tables hold exactly those.
* An element changes only the interface that was begun last. So a lemma says of
  every element what it does to that one (`PortRenews`, `DomainsRenews`,
  `ServerConfigurationMoves`, ...), in one of three forms, which also say that the
  others remain as they were: it is renewed in its cell (`Renews`), begun in a
  free one (`BeginsAt`) or moved to one (`Moves`).
* From it: `ListensCorrect`, `PointersAlwaysValid`, `NegotiatesCorrect`.

Only model-checked are the liveness properties (`TimersSettle`,
`ShutdownCompletes`, `AllEndTogether`), which are beyond the prover.
`ClientDataTransmitted` of FastCGI is the subject of a finding.

## Where code and comment disagree, without a run

* "Disable reading on socket", says `HTTP/PancakeHTTP.c:1280`, but
  `PancakeSelectSetSocket` (`Select/PancakeSelect.c:172`) sets the bit it should
  clear, as does `PancakeSelectRemoveReadSocket` (`:132`). Under Select a request
  can be parsed over one whose answer is under way. `ReadingDisabled` is checked
  and proved for LinuxPoll; with `Architecture = "Select"` in
  `MCPancakeHTTPConnection.cfg` TLC finds it violated within a second.
* "Register communication socket", says `PancakeWorkers.c:40`, but the call comes
  before `LinuxPoll/PancakeLinuxPoll.c:268` creates the epoll instance:
  `epoll_ctl` fails on the descriptor -1, the flags say that the socket is
  registered, and a worker is deaf to its master. `MasterHeard` states it; as an
  invariant of `MCPancakeLinuxPoll.cfg` it is violated at once. Under Select the
  same order of calls works (`NobodyDeaf` holds in the run `select`).
* The stream of a deflated answer is released by `onOutputEnd`, which
  `PancakeHTTPOnRequestEnd` alone calls (`HTTP/PancakeHTTP.c:1971`). A client that
  hangs up during its answer, or a failed write, leads to
  `PancakeHTTPCleanRequestData` (`:926`) without it, and the stream is lost.
  `NothingLeft` says of exactly which answers.
* "Make chunk out of compressed data", says `HTTPDeflate/PancakeHTTPDeflate.c:126`.
  When the last read of a file finds nothing but its end there are no data, and
  the chunk of length 0 ends the body; `PancakeHTTPSendLastChunk` ends it again,
  into a connection that is kept, where the next answer follows five bytes that
  belong to nothing. `AnswersInOrder` allows the second end there (`emptied`) and
  nowhere else.
* "Load default values into root scope where necessary", says
  `PancakeConfiguration.c:211`, but `:147-180` visits settings and groups and
  never the groups of lists: `DocumentRoot` (`HTTP/PancakeHTTP.c:826`), which
  only hosts and rulesets have, gets no default in the root scope, and
  unscoping does not restore it. A host without one serves from the document root
  of an earlier request, or from none. `RootInForce` leaves it out and
  `SettingsMean` says what a handler has instead: that which it found.
* Output and other handlers of FastCGI activate the scopes of the request; the
  end of a request and the hangup of the server (`HTTPFastCGI/PancakeHTTPFastCGI.c:595`,
  `:659`) do not, although the headers and pages they may have to write show or
  hide the server's name by a setting (`HTTP/PancakeHTTP.c:1369`, `:1413`, `:1722`):
  they do as the server says, not as the host does (`SettingsMean`).
* `HTTPRewrite/PancakeHTTPRewrite.c:161` says that the (pending) scope is
  activated before new conditions; `:163` and `:184` activate the scope of the
  virtual host instead, which is what `*scope` is there. `Condition` models the
  code; `SettingsMean` and `ScopesDestroyed` are for files with no condition
  after a setting of the same ruleset (`Orderly`), the others for all files.
* `PancakeHTTPFastCGIOnClientRead` (`:689`) and the early return of the hangup
  handler (`:728`) leave the scopes of a request on. `RootInForce` and
  `SettingsMean` say what holds unless the handler before was one of these.
* `PancakeNetwork.c:322` tests the address of an array, which is never NULL: an
  interface of IP 6 whose port comes first is bound before its address is known.
  `ListensAsSaid` leaves these out (`Doubtful`), and addresses of IP 4 that are
  all zero, which count as not given when the port comes after.

## Not modelled

The parts marked so in `PROJECT.json` are either planned (above) or outside:
logging and dates (output only), the vendored configuration parser, the
debugging allocator. The parsing of headers, the lookups of MIME types and
users and the decoders are sequential algorithms without state; the
configuration of FastCGI clients' addresses is like that of interfaces. The
exchange of handlers of a TLS session depends on what OpenSSL wants at any
call. Failing allocation ends the process and is left out, as are debug checks
of the heap. Select's missing check of descriptors against FD_SETSIZE is an
assumption of its model. A fork that fails ends the master and leaves the
workers that run without one (`AllEndTogether` excludes it).
