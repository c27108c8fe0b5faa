# Verification of dip_Distributed_LLM_Runtime

TLA+ specifications of the browser Runtime kept in this repository, the TLC
configurations that check them and the TLAPS proofs about them. Paths are
relative to the repository's root, except in `PROJECT.json`, where they start
with `src/`.

Run a check with `tlc -config MCPeer.cfg MCPeer.tla`, a proof with
`tlapm PeerProofs.tla`.

## 1. The system

A web page turns a browser into one node of a distributed llama.cpp. A
*requester* node runs the model and offloads layers to *peer* nodes over
llama.cpp's RPC protocol; both are the same WASM program (llmlet) started with
different arguments. The WASM program lives on worker threads which block in
`Atomics.wait()`; everything it needs from the page - a prompt, a connection,
bytes of the model file - it asks for through callbacks that run on the page's
one JavaScript thread.

| part | file | state it keeps | operations |
|---|---|---|---|
| requester handle | `runtime/llmlet-runtime.js` 636-839 | deferreds `ready`, `exited` and the live generation; the held prompt callback; `cancelRequested`, `stopRequested`, `stopped`; the IndexedDB connection | startup sequence; `pending_prompt`, `isDecodingCancel`, `onExit`, `onAbort`; `generate`, `cancel`, `stop` |
| peer handle | same, 535-623 | `ready`, `exited`, `stopping`, the IndexedDB connection | startup sequence; `onRuntimeInitialized`, `onExit`, `onAbort`; `stop` |
| harness PeerManager | `harness/runtime-only/harness-peer-manager.js` | connections and tombstones by fd, the live connection by remote, the queue and the waiters of `accept`, the next fd | `connect`, `accept`, `send`, `recv`, `close_connection`, `close`; frames `connect`, `accepted`, `data`, `close` |
| virtual model file | `runtime/llmlet-runtime.js` 89-159, 167-286 | the waiting table (an LRU of chunks, some loading), a sticky error, the chunk cache | `read`, asynchronous completions, `get`, `put` |
| model preparation | same, 288-397 | the preload's partial chunk | `HEAD`, range probe, preload |
| prompt limits, output | same, 399-460 | a streaming UTF-8 decoder | encode, `byte`, `line`, `flush` |
| harness page | `harness/runtime-only/index.html` | the running Runtime, cycle results | start, stop, automatic cycle, fd statistics |
| backend-ops summary | `harness/backend-ops/summary.mjs` | sections and their counts, orphans, the rest of an unfinished line, the expected number | `feed`, `flush`, `verdict` |
| LAN probe | `scripts/lan-probe.js` | per connection: the signalled candidates, the latest digest, an aggregate per candidate pair, a peer id | `snapshot`, `mergeObserved`, `describeStatCandidate`, `associate`, `refreshStats` |
| GGUF header probe | `scripts/lib/gguf-header.mjs`, `scripts/probe-gguf-header.mjs` | the bytes fetched so far, a streaming response, a cursor and the loops around it | `ensure`, `fetchTo`, `pump`, `readGgufHeader`, `close` |
| file server | `scripts/serve-runtime.py` | none | `parse_byte_range` |
| build and export | `scripts/*.ps1`, `scripts/make-lan-bundle.py` | staged and published artifacts | stage, publish, export |
| patches | `patches/` | the WASM side of the contract | 0001 frees the receive buffer, 0002 closes the accepted fd, 0003 keeps the WebGPU context alive |

How they interact: the page calls a handle; a handle passes callbacks and the
injected PeerManager to the WASM program; the program calls the PeerManager for
every RPC byte and the virtual model file for every byte of the model; a handle
closes the PeerManager and forces the program's exit when it must.

What is hard about it:

* **Two sides that cannot see each other.** A generation is finished when the
  program asks for the *next* prompt. Which call that settles, and how, depends
  on cancels, stops, exits and aborts that may come between.
* **Every `await` is a gap.** `stop()` may land in any of startup's four awaits
  and in `generate()`'s; what was checked before it has to be checked again.
* **Shutdown has several causes and two timers.** A natural end, an exit nobody
  asked for, an abort, a forced exit that may throw; several `stop()` calls.
* **Numbers that outlive what they name.** The Runtime keeps an fd after its
  connection died, and frames carry only the sender's name.
* **A parked thread is invisible.** Whoever drops a callback strands a thread
  that no timer of the Runtime watches.
* **Answers come back in any order.** `getStats()` promises settle late, out of
  order, or not with a report; chunks of text and of files end anywhere.
* **A judge can be fooled.** A test run that stops early, or whose output is cut
  inside a line, must never look like a pass.

The properties these call for are in section 4; `PROJECT.json` lists each
hazard at the line where it bites.

## 2. The modules

    Deferreds <- Requester <- MCRequester          Session  (abstract)
              |           <- RequesterProofs          ^
              |      Requester ---- refines ----------+
              <- Peer      <- MCPeer, PeerProofs
    PeerManager <- MCPeerManager, PeerManagerProofs
    Chunks <- ByteFile  (abstract)
           <- ModelFile <- MCModelFile, ModelFileProofs    refines ByteFile
           <- Preload   <- MCPreload, PreloadProofs
    BackendOpsSummary <- MCBackendOpsSummary, BackendOpsSummaryProofs
    LanProbe <- MCLanProbe, LanProbeProofs
    GgufLayout <- GgufProbe <- MCGgufProbe, GgufProbeProofs
    GgufFormat  (instanced by MCGgufProbe)

### Deferreds
What both handles share: a promise settled once (`settleResolve`,
`settleReject`) and the IndexedDB connection each opens and closes.

### Session (abstract)
What `startRequester`'s handle promises about `generate`, `cancel` and `stop`,
without WASM, callbacks or startup: one generation at a time; an answer is cut
short only for a caller that called `cancel()`; after `stop()` nothing begins
and nothing is answered.

### Requester
`startRequester`. The closure variables keep their names. Each callback and
each piece of an async function between two awaits is one action:

| action | code |
|---|---|
| `Imported`, `CacheOpened`, `ModelPrepared`, `FactoryResolves`, `StartupFails` | the startup function, per await, and its `catch` |
| `PendingPrompt`, `DecodeCut` | `pending_prompt`, `isDecodingCancel` |
| `WasmExits`, `WasmAborts` | `onExit`, `onAbort` |
| `GenerateCalled`, `GenerateBegins`, `GenerateRefused` | `generate`, before and after its await |
| `Cancel` | `cancel` |
| `StopCalled`, `StopSeesExit`, `StopForces`, `StopGivesUp` | `stop`: its start, its two waits and what follows |

The WASM program is external: `wasm`, `served` and `decode` follow llmlet's
`main.cpp` as the callbacks show it (ask, decode, ask again; end at the empty
prompt). It may exit or abort in the middle, and may hang. `safeForceExit` runs
`onExit` before it returns, or finds nothing to exit, or throws. The injected
`PeerManager.close()` may throw as well. `activeGeneration` is the *call* whose
deferred is live, so a property can say which one an answer belongs to.

### Peer
`startPeer`, along the same lines. Its program never returns by itself, so
`stop()` forces the exit at once. `onRuntimeInitialized` is called by some
builds and not by others: both are allowed.

### PeerManager
One manager per node (`pm[n]`), and `bus[from][to]`, the frames in flight, in
the sender's order, as on a BroadcastChannel. Each `connect()` numbers its
connection; the code has no such number, and properties use it to tell the
connections of one remote or of one fd apart. A slot of `conns` is free, live or
a tombstone (`dead`). A command of the RPC protocol is one frame: partial sends
and reads are left out. The Runtime above is external: `held` is what it was
given, `rpc` whose turn it is on a connection; a server serves one connection at
a time and closes the fd it accepted once `recv` or `send` fails (patch 0002); a
client opens or closes between commands, reads an fd from one thread, and
closes an fd when it failed.

### Chunks, ByteFile (abstract), ModelFile
A byte of the model is its position and a run of bytes is where it starts and
its length, so the model can tell right bytes from wrong ones without having
any. `Chunks` has what the reader and the preload must agree on - where a chunk
begins, how long it is, its key in IndexedDB - and the reader of the fork
(`read_raw_unsafe`: it repeats a read on EAGAIN, goes on after a short read,
takes a read of no bytes for the end). `ByteFile` is the promise: bytes in
order, at least one before the end, failure only after the source failed - save
in a chunk the source has sent too few bytes of (`cut`), where a read may find
no more bytes, or fail.

`ModelFile` is `addRemoteFile`. `read()` is split by its outcome (`ReadHit`,
`ReadMiss`, `ReadRefused`; the EAGAIN of a chunk that is loading changes
nothing); the promise chain of a load is `LookupHits`, `LookupMisses`, `Fetched`
and `FetchFails`. A completion whose entry is gone throws and sets
`remote_error`, as in the code. A lookup may always miss: `get` turns every
failure, a closed database included, into a miss. `put` may fail without effect.
The clock stands still as long as it likes, so time stamps tie. `Fetched` takes
the body of a range as the code does, without a look at its length: fewer bytes
than asked for, or more, and stores it under the whole chunk's key. What is
assumed of a body is that it begins where it was asked to. What IndexedDB holds
at the start is therefore any body for any key, those cut short included;
`Preload` shows why that is enough for what else this code stores. A read behind
the end of a chunk cut short copies nothing and returns the negative
`copySize`, which the program takes for an error (`Answered`).

### Preload
`prepareModel` for a URL and `fetchWholeModelToCache`: one action per await, and
one per turn of the inner loop. The body is as long as the server likes; the
announced size is `Size`.

### BackendOpsSummary
The class of that name. The program whose output it judges is external: it
prints headings and outcomes, each case at most once a section, and may end
anywhere. A line is three pieces - two of text and the newline - so that a
chunk can end inside one; text is where it starts and how many pieces it has,
and a line that is cut may be read as anything a prefix of it can be read as
(`ReadPart`). `Feed` is `feed()` up to its loop, `TakeLine` one turn of it,
`Flush` is `flush()` as the page calls it at the end, `Pass` is `verdict()`.

### LanProbe
What the probe records of each `RTCPeerConnection`. The browser is external: it
constructs connections, signals candidates and answers `getStats()` in any
order, with an error, or by throwing. `StateChange` and `RefreshStats` are the
two callers of `snapshot()`, the second for every connection, each of which may
throw on its own; `Settle` and `SettleError` its continuations, with
the latest-wins rule and `mergeObserved()` in `Apply`; `Wrapped` and `Look` are
`associate()` and its timer. A candidate is what identifies it; a report says
which pairs there are, so the order of the pairs in a report is abstracted to a
choice among the pairs that won.

### GgufLayout, GgufFormat, GgufProbe
`GgufLayout` says what a file is: the fields of its header, each with a place, a
width and the number it holds, and its size. `Taken` is what the reader accepts of a
field, `After` what a field says of those that follow, `LaidOut` the layout at the
head of `gguf-header.mjs`, up to the first field that is refused: behind that one
there may be anything. `GgufFormat` builds such files for TLC. `GgufProbe` parses one while it is fetched. The bytes that have arrived are
a prefix of the file, known by its length. `Ensure` asks for more; `Partial`,
`Full`, `Chunk`, `StreamEnds`, `FileRead` and `Rejected` are what the two sources
may answer - a 206 with any part of the range or nothing of it, a 200 that streams, a failure -
and `Close` cancels the stream. Each read of `readGgufHeader()` is one action,
named by the field the code takes the bytes for; `Value` looks up what the file
has there. The loops over entries, items, dimensions and tensors are the counts
in `todo`. Assumed of the outside: a 206 begins where it was asked to, the file
does not change between two requests, and a local read gives what it was asked
for.

## 3. What each run checks

| run | instance | shows |
|---|---|---|
| `requester_safety` | 3 `generate`, 2 `stop` calls | the safety properties, and that Requester implements Session |
| `requester_liveness` | 2 + 2, `TimerSpec` | `stop()` ends and leaves nobody parked, with no help from the program; generations settle and the connection ends closed if the program goes on |
| `peer` | 3 `stop` calls, `TimerSpec` | safety of Peer; `stop()` releases whoever awaits `ready` |
| `fd_manager` | 2 clients, 1 server, 2 fds, 4 connections, 1 `close()`, `FairSpec` | fd reuse, parked threads, the accept queue, streams, numbers; a server returns to `accept`, unless it dropped a `connect()` |
| `fd_tombstones_owned` | 1 + 1, 2 connections, 1 `close()` | a violation, see section 6 |
| `model_file_safety` | 2 readers, 3 chunks of which one empty, 1 entry, bodies of any length | the table's bookkeeping under loads, evictions and failures |
| `model_file_reader` | 1 reader, chunks of 2, 2 and 1 bytes, bodies of any length, 1 entry, `FairSpec` | ModelFile implements ByteFile; the table's limit; reads end |
| `preload` | chunks of 3, size 8, bodies to 10, pieces to 7 | stored chunks are those readers look for |
| `backend_ops_summary` | 2 cases, up to 4 lines, chunks of any length | a pass is earned; after `flush()` the verdict is exact |
| `lan_probe` | 1 connection, 2 pairs, 2 candidates of which one redacted, 3 `getStats()`, 1 further look, `FairSpec` | digests and aggregates do not depend on the order of the answers; addresses; association |
| `lan_probe_refresh` | 2 connections without candidates, 3 `getStats()`, `FairSpec` | `refreshStats()` ends, whichever of its requests throw, reject or answer |
| `gguf_probe` | 17 files, first read 32, limit 400, pieces to 12, `FairSpec` | types; the cursor, the verdicts on a file, what is fetched, the end of the probe |

**Bounds.** `Calls` and `Stops`: each call is used once, so three overlapping
generations and two stops cover a call refused because another runs, one that
begins after another ended, and a second `stop()` at every stage of the first.
The proofs cover every number. `FdMax = 2`: two numbers are the fewest at which
a number can be free while another is reserved, and as few as there are
clients, so that a server is without one while a client that left its
connection asks for another; with four connections the numbers wrap, run out and
are reused. `MaxFrames = 2` bounds the frames of one
node to another, in flight or delivered and not yet read: a close and the connect that follows
it travel together. `MaxConnects` and `MaxResets` bound the histories; they are
guards of the Runtime's calls only, never of deliveries. `MaxTime = 1` lets two entries have equal or different stamps,
and with room for one entry and three chunks every second load evicts; `model_file_reader` is
about the bytes and the end of a read and keeps the clock at one value. `MaxBody`
and `MaxPiece` go beyond the announced size and beyond a chunk. Four lines
(`MaxLines`) hold a heading with both cases and one line more: a second heading,
a case before the first heading, a failure. Three snapshots (`MaxSnapshots`) are
the fewest in which the middle one can settle last. In `lan_probe_refresh` two of the
three belong to one `refreshStats()`, of one connection each. The two candidates of
`lan_probe` differ only in foundation and priority, and its two reports have a
pair the transport names and two winners of which it names none. The files of `gguf_probe` cover each
thing the reader tells apart - scalars, strings, arrays shorter and longer than
the sample, dimensions, block sizes - a sound file of each kind, and one file for
each refusal; `MaxSafe` and `MaxRead` are small so that a file can exceed them,
and `FirstRead` is shorter than most headers, so that the window grows. Deadlock is not checked
anywhere: every one of these systems really stops, after `stop()` or when the
bounded calls are used up; that nobody is left waiting is stated as a property.

**Fairness.** `TimersFair`: the browser fires timers and runs the continuation
of a settled promise, so pending waits of `stop()` and of `generate()` go on.
It assumes nothing of WASM, the network or IndexedDB; `StopReleasesEveryone` and
`StopReleasesReady` use only this. `GenerationSettles` and `CacheIsReleased` have a
premise, `Progress`: startup's awaits settle, decoding ends and the program asks
for the next prompt; the code documents that it has no watchdog for a program
that does not.
`LoadFair`: a lookup and a fetch settle - `get` always resolves, while the code
has no timeout for a fetch that hangs - and a reader repeats its read, as the
fork does on EAGAIN. `ReadSettles` is checked for one reader: several could
evict each other's chunks for ever, and the program reads the model on one
thread.
`ServersFair`: the bus delivers, and a server's thread takes its next step when
it can. Clients are never assumed to act. `Fairness` of LanProbe: a timer
fires, and a `getStats()` promise settles in the end, one way or the other.
GgufProbe: a fetch and a read of a stream settle and the parser goes on; that a
request fails is never assumed.

## 4. The properties

Requester: `ParkedIsWakeable` (a program waiting for a prompt can be woken),
`ActiveIsServed` (the live deferred belongs to the prompt being decoded),
`DeathIsReported` (no exit or abort goes unseen), `StopCleansUp` (what a returned
`stop()` leaves), `NothingStartsAfterStop` (across every await),
`ImplementsSession`, and the liveness properties `StopReleasesEveryone`,
`GenerationSettles`, `CacheIsReleased`. Peer: `DeathIsReported`,
`NoOrphanServer`, `StopCleansUp`, `NothingStartsAfterStop`,
`StopReleasesReady`. PeerManager: `HeldFdKeepsItsConnection`,
`OneLivePerRemote`, `ParkedOnLive`, `NoConnectionStranded`, `StreamsDoNotMix`,
`OthersLeaveNumber` (with as many numbers as clients a server drops a `connect()` only
if its thread still holds a connection that is gone or that this client left),
`ConnectFindsNumber` (with one more it never drops one; proved only), `ServerReturnsToAccept` (it does not stay with a client that is
gone). ModelFile: `LoadingIsLoaded` (who repeats a read waits
for a load that is under way, and a load finds its entry), `ErrorIsGenuine` (proved only),
`TableIsBounded`, `ImplementsByteFile`, `ReadSettles`. Preload: `StoredIsExact`
(whatever length the body has), `PreloadIsComplete`. BackendOpsSummary:
`PassIsEarned` (at any moment, whatever the chunks), `VerdictIsExact` (after
`flush()`, in both directions). LanProbe: `StatsAreNewest` (the newest digest
stays), `AggregateIsFold` (the aggregate of a pair is a function of the set of
its digests), `AddressIsRight` (no candidate gets the address of another),
`RefreshIsOver`, `AssociationIsMade`. GgufProbe: `NeverSlips` (what is read at
the offset is what the file has there), `ParsedIsWhole`, `RefusalIsGenuine`
(for what the file is, or for one of the three things below that a server does), `OvershootIsBounded` (tensor data
is not downloaded), `ProbeIsOver`.

Exceptions the properties name are what the code does, not what the model
leaves out:

* After an abort (`onAbort`) the prompt callback is still held and `stopped` is
  still false, so a later `generate()` is accepted and stays pending until
  `stop()`; the IndexedDB connection stays open, because `stop()` sees `exited`
  settled and closes nothing. Hence `wasm = "aborted"` in `ActiveIsServed`,
  `StopCleansUp`, `GenerationSettles` and `CacheIsReleased`.
* A `stop()` that returns by timeout while startup prepares the model leaves the
  connection to startup (`phase = "prepare"`, `CacheIsReleased` shows it is
  closed later).
* If the injected `close()` throws, the requester's `stop()` rejects without
  forcing the exit and without its backstops; the peer's forces the exit but
  does not wait. The properties are about the calls of `stop()` that return.
* `StreamsDoNotMix` and `ServerReturnsToAccept` are about histories without
  `close()`: it posts no frame, so the other side goes on with a connection
  that is gone, and frames name no connection.
* A client that opens another connection to a server tombstones its old end
  without a close frame. If the server has no number for the new one, it drops
  the `connect()` (`harness-peer-manager.js` 156) and both wait for ever: the client
  in `connect()`, the server in `recv()` on the old connection. This is the
  second exception of `ServerReturnsToAccept` (`WaitsInVain`), and
  `OthersLeaveNumber` and `ConnectFindsNumber` say when it does not occur.
* Nothing compares the length of a 206 with the range
  (`llmlet-runtime.js` 386-390). A chunk cut short ends the file early for whoever
  reads behind its end, or fails the read, although the source reported no
  failure; and it is stored under the whole chunk's key, so that later sessions
  find it. `ByteFile` allows this in a chunk that was cut, and nowhere else.
* `PreloadIsComplete` needs a body of the announced size. With another the last
  chunk has another key, and its reader meets "unexpected cache miss": a failure
  that is reported, never wrong bytes.
* When the size is a multiple of CHUNK_MAX, a read at the end of the file asks
  for an empty chunk. A server refuses the range of an empty chunk, and the
  error sticks to the file. The model counts it as a failure of the source; the
  program has no reason to read there.
* A 200 without a `Content-Length` sets the source's size to `Number(null)`, which is 0
  (`probe-gguf-header.mjs` 99): a sound file is then refused because it "ends at"
  0 bytes as soon as the window must grow. A 206 with fewer bytes than asked for
  gets a sound file refused as well: `ensure` throws when it does not reach
  what the parser needs (78-80), and does not ask for the rest. So does a server
  that answers 206 first and 200 later (100). These are the three exceptions in
  `RefusalIsGenuine`; each is tied to the answer that causes it.
* The window doubles, so what is fetched may reach twice `MAX_READ`, and a
  stream adds the piece that passes the target: the bound `OvershootIsBounded`
  states.
* An address is matched weakly (side, protocol, port, type) when foundation and
  priority find nothing. A stat whose own candidate has not been signalled yet
  may so get the address of another; `AddressIsRight` is about candidates that
  have been.
* `VerdictIsExact` is about outputs that were fed to their end. Before that,
  and for a line cut by an abort, only `PassIsEarned` holds.

Each property has a mutant: a changed copy of one mapped definition, beside it
in its module, that makes the run fail.

## 5. What is proved

`RequesterProofs`, for every set of calls of `generate()` and `stop()`, from
`NoCall \notin Calls` alone: `TypeCorrect`, `Invariance` (the inductive
invariant `IInv`), `NeverParkedForever`, `AnswersTheRightCall`,
`DeathAlwaysReported`, `StopAlwaysCleansUp`, `StopStartsNothing` and
`RequesterImplementsSession`. `PeerProofs`, from no assumption: `Invariance`, `TypeCorrect`,
`DeathAlwaysReported`, `NoServerSurvivesStop`, `StopAlwaysCleansUp`,
`StopStartsNothing`.

The safety properties are not inductive by themselves. `IInv` adds

* `StartupShape`: before the factory is called there is no program and `exited`
  is pending, which is why a `stop()` in that phase is seen by startup;
* `StopShape`: a `stop()` under way has set `stopRequested`, and one in its
  second wait has closed the transport;
* `WaiterShape`: a held callback belongs to a program that is asking, or that
  aborted while it asked;
* `RunningShape`: the call marked running is the live one;
* `CacheShape`, `ExitShape`: a settled `exited` means the connection is closed
  or the program aborted, and that no program runs or will be started;
* `CutShape`: `cancelRequested` has a reason, and what is being decoded has not
  been answered, which is what makes a cut answer the caller's own doing.

`ModelFileProofs`, for every chunk size, file size, number of entries and set of
readers, from `ChunksAssumption` and `ModelFileAssumption` (`ChunkMax`, `Size` and
`MaxEntries` positive, `MaxTime` a natural number): `Invariance`, `TypeCorrect`, `LoadingNeverEvicted`,
`ErrorsAreGenuine` (the sticky error comes from the model's source, never from
the table's own bookkeeping), `TableAlwaysBounded` and `ModelFileImplementsByteFile`. The invariant adds that a loaded entry holds
bytes from where its chunk begins, and all of the chunk unless the source cut it
short (`BytesAreOwn`), and that a reader which reads wants something; `CopyIsExact`, on the division of a position into chunk and offset,
is what makes a copy the next bytes of the file. `PreloadProofs`, for every
body and every way of cutting it into pieces: `Invariance`, `TypeCorrect`,
`StoredAlwaysExact`, `PreloadAlwaysComplete`. The invariant is the loop's: stored chunks, buffer and
rest of the piece are the part of the body received, keys say what is stored
under them, and every chunk before `chunkPosition` is stored. `TableAlwaysBounded` is about
one reader, as the program has (`Readers = {single}`): at most one load is under
way, so at most one entry is beyond `MaxEntries`.

`BackendOpsSummaryProofs`, for every set of cases, of outcome texts and number of lines, from the
module's assumptions: `Invariance`, `TypeCorrect`, `PassAlwaysEarned`,
`VerdictAlwaysExact`. The argument is a count: in no section can `counts.OK` exceed
the number of cases that passed there, because each line is read once and a case is
printed once a section; so `expected` passes are all the cases. A second invariant,
`XInv`, on top of the first says that these counts are exact (`Exact`) as long as
`flush` had no cut line to read (`NoneCut`): `counts.OK` and the total of a section
are the numbers of cases that passed (`PassedBy`) and that have an outcome there
(`NamedBy`), every heading of the target counts, and orphans are the cases before the
first heading. That no two headings read are of one section (`HeadingOnce`) makes the
only target section the only such heading. `LanProbeProofs`, for every set of
connections, pairs, candidates and reports: `Invariance`, `TypeCorrect`,
`StatsAlwaysNewest`, `AggregateAlwaysFold`, `AddressAlwaysRight`. A request's
number is its index, so "newest" is a maximum; `MergeFolds` shows that one more
digest takes the fold of a set of digests to the fold of the larger set,
whichever comes first; `RightAddress` rests on foundation and priority telling
the candidates of one agent apart.

`PeerManagerProofs`, for any clients and servers, number of fds and bounds, from
`FdAssumption` and `BoundAssumption`: `Invariance`, `TypeCorrect`,
`HeldFdAlwaysKeepsIt`, `OneLiveEachRemote`, `NobodyParkedOnTombstone`,
`NoneEverStranded`, `OthersAlwaysLeaveNumber`, `EveryConnectFindsNumber`. No action touches the managers of two nodes, so the invariant
is one predicate, `Good(p, h)`, of a manager `p` and of the fds `h` its Runtime
holds: the four properties, that a live slot has a remote and a connection, and
that the queue of `accept` has no repetitions and is exactly the set of live
connections nobody was given or awaits. Each helper of the code (`Tombstone`,
`CreateConn`, and what each call does to a slot) has a lemma that says it keeps
`Good`; `close()`, which may come at any moment, is included.

Its second half adds `NodeAssumption` (no node is both client and server) and
proves `AlwaysInStep` and `CommandsNeverMix`. Frames name no connection; what keeps
the commands of two connections of one remote apart is that client and server take
turns. The invariant `InStep(c, s, F, G)` is about one client and one server: what
each knows of their connection (`View`: number, queue, who has it, whether a
command is under way) and the frames `F` and `G` on the way between them - after a
close only a connect follows, an answer is the only thing under way, at most one
request is anywhere. A lemma on two ends and two sequences stands for each thing
that can happen (`ClientSends`, `CloseArrives`...); a lemma per helper says what it
does to the views of one manager (`SlotViews`, `GoneViews`, `NewViews`); each
action is one of the second and one of the first, joined by `TwoNodes`. After a
`close()` nothing is claimed (section 4). The theorems on numbers count
the slots of a server with that invariant, for a finite set of clients: the Runtime
holds at most one fd and every tombstone is one it holds (`Attends`); each other
slot in use is of a client of its own, and of none whose `connect()` is still on
the way (`FewTaken`); one number more than clients is then always free
(`OneIsFree`).

`GgufProbeProofs`, for any files, limits and sizes of what arrives, an empty
206 included:
`Invariance`, `TypeCorrect`, `NeverSlipsEver`, `ParsedAlwaysWhole`,
`RefusalAlwaysGenuine`, `OvershootAlwaysBounded`. `FilesAssumption` says that each
file is `LaidOut` and has a size: no file whose header is refused somewhere is left
out, and a truncated file is one whose size is less than its header.
`LimitsAssumption` says that twice `MaxRead`, or the first read, and one piece of a
stream are safe integers; 1 MiB, 512 MiB and 2^53 - 1 satisfy it. The heart of the invariant is `At`: the
index of the field the cursor is at, that all before it was accepted (`Judged`;
three fields are judged only with the one after them, `Late`), and that the loops
around the read have as many turns left as the file has entries (`EntriesLeft`),
items (`ItemsLeft`) and dimensions (`DimsLeft`) behind it. Each read has a lemma
which shows that a field of the file follows there, or that what was refused makes
the file unsound (`Result`); `EntryIsOver` is where the four loops meet. A string
that is only skipped has no length check: `Stuck` is the state after reading such a
length, and as the window never reaches a safe integer, it is left only by a
refusal. That the end of skipped items is the end of the last of them, and that
fields do not overlap, are inductions over the fields; they are done on sets of
numbers (`SetInduction`, from the well-foundedness of the naturals).
`Fetched` bounds the pending target together with what was fetched.

In `RequesterProofs` the step lemma is split by conjunct (`TypeStep`, `ControlStep`,
`GenerationStep`, `ReleaseStep`), each with one case per action; the refinement
has one lemma per group of actions and uses `CutShape` and `ActiveIsServed` at
the one step that answers.

The type invariants of these components are theorems (`TypeCorrect`); the runs
repeat only that of GgufProbe, whose cursor could leave what was fetched. Every safety property of the passing runs and
both refinements are theorems. Only model-checked: the liveness properties, which are
outside the prover's reach (`StopReleasesEveryone`, `GenerationSettles`,
`CacheIsReleased`, `StopReleasesReady`, `ServerReturnsToAccept`, `ReadSettles`,
`RefreshIsOver`, `AssociationIsMade`, `ProbeIsOver`), and that the files `GgufFormat`
builds are `LaidOut`: TLC evaluates `FilesAssumption` on them.

## 6. Findings

`fd_tombstones_owned`: the comments on `tombstone` and `close` say that the
Runtime still owns the fd of a tombstone and will close it itself. For a
connection the Runtime was never given - one whose `connect()` is pending, or
one queued for `accept` - that is not so: `connect` answers -1, `accept` never
returns it, and the number stays reserved for good.

## 7. Not modelled

Text, logging and callbacks of the application; argument validation, the
prompt limits and the streaming UTF-8 decoder (conversions whose hazard, the bytes of
a cut character, is a single carried state); the harness page, a user of the handles;
the static server and the build, staging and export scripts (I/O from start to
end; their hazards are listed); the report, the command line and the cross-check
of the probes, which only print what the modelled parts found; the values of
GGUF metadata that nothing depends on; the contents of the model and of tensors; digests, so a file or
URL replaced by another with the same metadata; reads of no bytes or from beyond
the end of the file; a range answered with bytes from elsewhere; partial sends and
reads; ggml and WebGPU (patches 0003 to 0005), except that a forced exit may
throw; `register_buf` and the statistics of the PeerManager, which only record.

## 8. Plan

Done, in this order: Requester with Session and proofs, Peer with proofs,
PeerManager with proofs, ModelFile with ByteFile and proofs, Preload with proofs,
BackendOpsSummary and LanProbe with proofs, GgufProbe with proofs. Next:

1. `BuildPublish`: staging, publishing and exporting, failing between any two steps.
2. `ByteRange`: the server's ranges as operators against a reference definition.
3. `SoakHarness`: the page's automatic cycle, and a composition of the handles
   with PeerManager (who closes the transport, and what the other side sees).
