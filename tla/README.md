# Verification of the image server

The repository is an image server: nginx workers that make thumbnails on demand
with Lua and GraphicsMagick, a message path over 0MQ to programs that compress
the thumbnails, a router in front of several image roots, and two small node.js
proxies. The system's own code is about 3000 lines of Lua, JavaScript and nginx
configuration under `src/nginx`; the rest of the tree is software it ships with
(`src/nginx/program`), of which 0MQ 3.2.3 carries all of its messages and is
modelled here as well, as far as the image server uses it.

This directory holds TLA+ modules for that code, the TLC configurations that
check them, and TLAPS proofs. `PROJECT.json` maps every definition to its lines.

## 1. Inventory

| Component | Source (under `src/nginx`) | State it keeps | Operations | Talks to |
|---|---|---|---|---|
| Thumbnail server | `nginx-thumbnail-server/{thumbnail,ImageProcessor,Image}.lua`, `nginx.conf` | none of its own between requests, except one 0MQ context per worker process; thumbnails on the shared storage | resolve a request, generate and save a thumbnail, send messages of type 1 (every request) and 2 (generated) | storage, broker |
| Compressor | `compressimage/compressimage.lua` | one socket; files on the storage | receive, run `optimize_image`, `mv` its output over the file, resend, reply | broker, storage, monitor |
| `optimize_image` | `program/page-speed-1.9/pagespeed/samples/optimize_image.cc` | – | read the input whole, optimise, write the output | storage |
| Broker | `compressimage/rrbroker.lua` (= `msg-router/rrbroker.lua`) | 0MQ queues, the ROUTER's identity table | forward from 5559 to 5560 and back | all senders, compressors |
| Message helper | `zmsg.lua`, `compressimage/zhelpers.lua` | a list of parts | push, pop, wrap, unwrap, send, recv | – |
| Image monitor | not in the repository | thumbnails with the time of their original | learn of thumbnails, poll originals, delete thumbnails | storage |
| Image router | `router/`, `nginx-router/` (`ImageLocator.lua`, `*.conf`) | none | choose a location for a request | storage, thumbnail server |
| Shop proxy | `nginx-thumbnail-server/shop.js` | memcached entries with a 10 minute life, MySQL connections | route a host name to one of two sites | memcached, MySQL |
| Token gate | `nginx-thumbnail-server/thumbnail.js` | none | check an AES token and its age, then proxy | – |
| Older thumbnail server | `thumbnail-server/` | as the thumbnail server | the same with REQ sockets and other file names | – |
| 0MQ queues, mailboxes | `ypipe.hpp`, `yqueue.hpp`, `mailbox.cpp`, `signaler.cpp` (under `program/zeromq-3.2.3/src`) | chunks of slots, one atomic pointer, an eventfd | write, unwrite, flush, check_read, read, send, recv | every thread of 0MQ |
| 0MQ pipes | `pipe.cpp` | two queues, water marks, the state of each end | read, write, rollback, flush, hiccup, terminate, delimit | socket, session |
| 0MQ objects, sessions, contexts | `own.cpp`, `object.cpp`, `session_base.cpp`, `socket_base.cpp`, `reaper.cpp`, `ctx.cpp`, `tcp_connecter.cpp`, `tcp_listener.cpp` | the tree of objects with their sequence numbers and awaited acknowledgements; timers | connect, bind, attach, detach, linger, close, reap, terminate | each other, by commands through mailboxes |
| 0MQ ROUTER, DEALER | `router.cpp`, `dealer.cpp`, `lb.cpp`, `fq.cpp`, `array.hpp` | the table of identities, lists of pipes with the active ones in front | send and receive a part, pipes that come, fail, recover and go | pipes |
| 0MQ engines | `stream_engine.cpp`, `encoder.*`, `decoder.*`, `v1_*` | the greeting, bytes to write and bytes not yet accepted, a state machine per direction | plug, in_event, out_event, activate_in, activate_out | TCP, session |

What is hard here:

* **No locks anywhere.** 22 nginx workers (`nginx.conf`, line 3), several
  compressors and the monitor work on the same files; a thumbnail is looked for
  once and written in place under its final name.
* **Files have no owner.** `mv -f`, truncation and deletion of one file by three
  programs; a descriptor follows the file, not the name.
* **Messages are fire and forget.** Every message has a socket of its own that
  lingers after `close`; it may be lost with its process, and the context may
  run out of sockets.
* **Errors are half caught.** `resolveImageURI` looks at `pcall`'s status and
  not at the result; `out.write` and the exit status of `optimize_image` are not
  looked at; a failed save leaves its file.
* **Originals change** at any time, and what tells the monitor of a thumbnail
  does not say which version of the original it was made from.
* **Callbacks of two servers interleave** in the shop proxy, with a cache that is
  written by `add` under another spelling of the key than it is read under.
* **0MQ shares almost nothing between threads** and pays for it: a queue whose two
  ends meet in one compare-and-swap, a signal that must be neither lost nor sent
  twice, two ends of a pipe that close in any order, objects that may go only
  when no command is on its way to them, lists that change between two parts of
  a message, and a byte stream that stops and ends anywhere.

Correctness, per component:

* thumbnail server: only permitted sizes are stored; what is served is one
  complete image of one version of its original; every request is answered,
  broker or no broker;
* compressor: no temporary file is forgotten, no half written file published, a
  deleted or regenerated thumbnail is not replaced by an old one; every
  thumbnail reported to it reaches the monitor;
* monitor and pipeline: a thumbnail of a changed original goes away;
* broker and message helper: a message arrives whole and is handled once, or is
  lost whole; no cycle of blocked sends; the table of identities stays consistent;
* shop proxy: a request is answered exactly once; a change of the database takes
  effect once the cache's life time has passed;
* 0MQ: no assertion fails and nothing deleted is used in any interleaving; no
  wakeup is lost; what is sent arrives once, in order and whole, or is lost only
  with its connection; everything that is closed is taken down, and `zmq_term`
  returns.

## 2. Modules

| Module | Models | Extends |
|---|---|---|
| `ThumbRequest` | what a request path asks for: dimensions, the size string looked up in `permitedSizes`, the watermark, and the requests on which generation always raises | – |
| `ThumbnailConfig` | the tables of `thumbnail.lua` | `ThumbRequest` |
| `Deployment` | the processes, and the events an instance includes | – |
| `ImageStore` | the shared storage: thumbnails, temporary files, originals, write descriptors | `ThumbRequest`, `Deployment` |
| `MessagePath` | lingering sockets and the broker's queue | `ThumbRequest`, `Deployment` |
| `ThumbnailServer` | `ImageProcessor.lua` under `thumbnail.lua` | `ImageStore`, `MessagePath` |
| `Compressor` | `compressimage.lua` and the files `optimize_image` reads and writes | `ImageStore`, `MessagePath` |
| `ImageMonitor` | the monitor (external) | `ImageStore`, `MessagePath` |
| `ImagePipeline` | all of them together; the properties | the three above |
| `ImagePipelineProofs` | theorems for any number of processes and any failures | `ImagePipeline` |
| `TrackingProofs` | theorems: no thumbnail escapes the monitor | `ImagePipelineProofs` |
| `LifecycleProofs` | theorems: the life of a thumbnail under one worker | `TrackingProofs` |
| `MCImagePipeline` | instances for TLC | `ImagePipeline`, `ThumbnailConfig` |
| `PipeLists` | `lb_t`, `fq_t`: a socket's pipes, taken in turn | – |
| `RRBroker`, `MCRRBroker` | `rrbroker.lua` over a ROUTER and a DEALER, the sending side of the servers, the receiving and replying side of `compressimage.lua` | `PipeLists` |
| `RRBrokerProofs` | theorems: lists of pipes, the ROUTER's table, messages whole, once and moving | `RRBroker` |
| `ShopProxy`, `MCShopProxy` | `shop.js` with memcached and MySQL | – |
| `ShopProxyProofs` | theorems about the proxy | `ShopProxy` |
| `FlushQueue` | abstract: a queue whose items are invisible until flushed, and which knows whether its reader sleeps | – |
| `YPipe` | `ypipe_t` on `yqueue_t`, one shared access per step; **implements** `FlushQueue` | – |
| `YPipeProofs` | theorems: pointers, the refinement of `FlushQueue` | `YPipe` |
| `Mailbox`, `MCMailbox` | `mailbox_t` with its lock and `signaler_t` | `YPipe` |
| `MailboxProofs` | theorems for any number of senders | `Mailbox`, `YPipeProofs` |
| `Pipe`, `PipeTraffic` | `pipe_t`, both ends; two threads using a pair | –, `Pipe` |
| `PipeTrafficProofs` | theorems for every high watermark and any number of messages and hiccups | `PipeTraffic` |
| `SocketLife`, `SocketUse` | `own_t`, session, socket, reaper, context, connecter and listener; an application using them | `Pipe`, `SocketLife` |
| `StreamEngine` | `stream_engine_t` with its encoders and decoders | – |
| `Connection`, `MCConnection` | two engines over TCP | `StreamEngine` |

The chain of 0MQ modules goes from the bottom up, each taking the one below by
what that one was shown to do: `YPipe` implements `FlushQueue`; `Pipe` uses queues
with `FlushQueue`'s meaning and mailboxes that deliver in order, as `Mailbox` does;
`SocketLife` contains `Pipe`; `RRBroker` sees pipes as bounded queues that become
ready, full and closed; the pipeline sees broker and sockets as `MessagePath`, a
bounded bag of messages that a crash may empty.

**Requests.** A path `dir/name.WxH.ext` is a record of the original, the folder
that selects the watermark, and the two size tokens. A token is `*`, `0`, a
number, or a mixture of digits and stars, because the code treats them
differently: `*` and `0` leave a dimension out, `00` is the number 0, a mixture
is `nil` after `tonumber`. The record is also the name of the thumbnail: the code
builds the file name from the same pieces.

**Storage.** `file` gives for each path a state, the versions of the original
its bytes may come from, and its owner while it is being written. `partial` is a
file between `fopen(.., "wb")` and `fclose`; `torn` one whose writer failed or
died; `whole` and `small` are complete images as GraphicsMagick and
`optimize_image` write them; `damaged` decodes but was made from bytes that were
not one image. Two writers of one file mix their versions. `open` is each
process's write descriptor; `RenameTemp` takes descriptors along, and a
descriptor of a file that was unlinked or replaced is `gone`. A file is read in
one step: a read that a truncation interrupts has the outcomes that a read of a
`partial` file has.

**Thumbnail server.** A worker runs the Lua code of a request to its end before
it takes another one, so a worker is a program counter, the request, whether the
thumbnail was seen, and the version loaded. Each file operation and each message
is a step: `ExtractThumbInfo`, `Notify`, `CheckSource`, `LoadImage`, `Resize`,
`BeginSave`, `EndSave`, `Publish`, `Serve`, with the error exits `NotifyFails`
(outside the `pcall`: 500), `ProcessImageRaises`, `SaveRaises` and `PublishFails`
(404), and `NotPermited` and the missing original, which go on to `Serve` because
only `pcall`'s status is looked at. nginx opening the chosen file is part of
`Serve`: the response is what the file holds then.

**Message path.** A message is its type and its file. Order is not kept:
each message comes over its own connection. `linger[p]` counts the messages in
closed sockets of process p; `SendMessage` fails only when the context has no
socket left, in which case the server raises and the compressor goes on without.

**Compressor.** `Receive`, `CheckTarget`, `OptimizerReads` or `OptimizerFails`,
`CreateTemp`, `CloseTemp` or `WriteCutShort`, `CheckTemp`, `Move`, `Resend`. Type
1 messages have no `sourceImageName` and are ignored; type 3 messages, sent by
programs outside the repository, compress a file and are not resent. Their
`imagePath` is taken to name a thumbnail; one that names no file changes nothing.

**Monitor.** Not in the repository. On a message it notes the version of the
original it finds; `Poll` deletes the thumbnail of an original that has another
version now, or is gone. Originals are replaced in one step.

**Broker.** A client is one socket of a server's `sendMessage`: connect with an
identity, send one message of one part (two from a REQ socket, the first empty),
close. The broker's program counter follows `rrbroker.lua`: poll, receive a part,
send it on, ask for `RCVMORE`, the next one, in each direction; a send waits until
a pipe has room. The ROUTER prefetches an identity as `xrecv` and `xhas_in` do,
keeps connections that have not told theirs, or told one that is taken, among the
anonymous pipes, and drops replies to peers that are gone. `PipeLists` keeps the
order of pipes and the swaps of `array_t`, as the failures depend on it; the
poller's question whether the DEALER could send (`has_out`) moves pipes as well.
A pipe whose peer closed goes only after the poller has read the delimiter behind
its last message, and the poller reads nothing while a message is passed on: so the
pipe of a reply is not deleted between the reply's parts. `lb_t::terminated`'s
dropping of the rest of a message is modelled, though this broker does not come to
it: the pipe that a part was written to may refuse the next one or lose its place,
but does not go before.

**Shop proxy.** A request goes through `Arrive`, `CacheGet`, `Connect`,
`UseDatabase`, `Select`, `SelectCb`; each is a callback and each has its error
path. `CacheAdd` is a message of its own to memcached; rows change and time passes
(`Tick`) between any two. `lag` remembers for how long the answer a request got
had been wrong in the database.

**Queues.** In `YPipe` a pointer is an address, chunk and position, and chunks are
freed, kept as the spare one and used again, so that a stale pointer can be told
from a good one and a compare-and-swap could meet the address of an earlier life.
The refinement mapping to `FlushQueue` reads the queue off the linked chunks
between the pointers.

**Pipes and objects.** `pipe_t`'s methods and the handlers of commands are
operators from state to state, since handlers call one another; a thread's step
is one command or one call. `ok` and `failed` record assertions that do not hold
and uses of what is deleted.

**Engines.** Bytes are small numbers; `Esc` stands for 255 and a length of eight
bytes takes two. `StreamEngine` is a set of functions on one record, `Connection`
lets TCP cut the stream anywhere and take only `Window` bytes at once. A peer of
an earlier version begins with its identity message.

## 3. Runs

The pipeline's runs use the shipped tables of `thumbnail.lua` with `sendMessageFlag`
on. (`thumbnail.lua` ships it off, the older server's on; off, nothing is ever
compressed or tracked and only the thumbnail server is left.)

| Run | Instance | Checks |
|---|---|---|
| `one_worker` | 1 worker, 2 compressors, 2 thumbnails of one original, 2 versions, deletions; fairness | `EventuallyCompressed`, `TrackedChangeRemoves`, `OnlyMisnotedStay` |
| `crashes` | the same with 3 versions; compressors and broker die, GraphicsMagick and `optimize_image` fail | `ServedComplete`, `NoResurrection` |
| `many_workers` | 2 workers, 2 compressors, 1 thumbnail, 2 versions | `NoOrphanPartial`, `NoTempLeftBehind`, `NoThumbnailEscapes` |
| `request_kinds` | 1 worker, 1 compressor; a request of each kind; broker down for good, worker crashes, full disk, type 3 messages, 1 socket, both message flags; fairness of the worker | `TypeOK`, `OnlyPermitedStored`, `NoOrphanPartial`, `RequestsAnswered` |
| `stale_thumbnail` | 1 worker, 1 compressor, 2 versions; fairness | `StaleThumbnailsRemoved`, **violated** |
| `broker` | one day with two sockets of one identity and two compressors, one with five messages waiting for one compressor; room for one message and one reply; one connection breaks | `BrokerSound`, `WholeMessages`, `TableConsistent`, `NoStandstill`, `HandledOnce` |
| `torn_message` | three messages, three compressors, one connection breaks | `WholeMessages`, **violated** |
| `shop_proxy` | 2 requests, one host in two spellings and one known by rule; 2 changes of the row, 1 failure | `AnsweredOnce`, `ChangeTakesEffect` |
| `mailbox` | the queue alone, with items taken back, and under a mailbox with 2 senders of 2 commands; chunks of 2 slots, 3 addresses; fairness | `PointersLive`, `NoAbort`, `NoLostWakeup`, `SignalerOutlivesSend`, `ImplementsQueue`, `AllReceived` |
| `pipe` | high water marks 0 (none) to 3, one message more than that, one of two parts, 1 hiccup, both ends close with or without waiting | `PipeSound`, `WithinHwm`, `RestIsEmpty`, `AllReadBeforeAck`, `HandshakeEnds` |
| `lifecycle` | a socket that connects or is bound, 2 messages, lingers of none, some and for ever, 1 failed attempt, 1 broken connection, a second I/O thread or none | `LifeSound`, `NothingLeft`, `LingerKeeps`, `TermReturns` |
| `connection` | 3 exchanges with sizes on both sides of each limit of both framings, old or new peer, room for 1 message, 4 bytes at once, either side closes | `EngineSound`, `InOrder`, `AllArrive`, `EndDelivers` |

What they show, for the pipeline:

* With **one worker** (`worker_processes 1`, as in the older `nginx.conf`) the
  pipeline is sound although nothing is locked: a type 2 message for a thumbnail
  is only sent after the save, the monitor hears of it only after the `mv`, and
  nobody writes the file again before the monitor deleted it. This survives
  crashes of compressors and of the broker. It does not survive a failed save or
  a crash of the worker itself, whose torn file is served from then on, nor a
  full disk under the compressor, whose cut output `mv` publishes.
* With **several workers** `ServedComplete` and `NoResurrection` do not hold: a
  second worker serves the first one's unfinished file, and a second message lets
  a compressor work on a file that is rewritten or deleted. What is left, and
  checked, is that every half written file is still being written, that no
  temporary file is forgotten, and that no thumbnail escapes the monitor. Neither does
  `TrackedChangeRemoves` hold: two workers that generate one thumbnail send two
  messages, and the second makes the monitor take its note again. If the original
  changed after the first note and was not polled since, the old thumbnail stays,
  although it had been tracked rightly.
* A message queue that is full or gone never holds up a request; it makes the
  request fail once the context has no socket left.

For the broker and the proxy:

* Messages are handled at most once, and lost only where `HandledOnce` says: the
  older server's messages (their empty first part is taken for the payload), a
  sender whose identity another worker drew as well, and what a broken connection
  takes along. Broker and compressors never all wait for each other while
  connections hold: a round of the poller takes a reply for each message it passes
  on. A connection that breaks after its reply was taken leaves less room than was
  counted on, and then they may, until another compressor connects (`NoStandstill`
  allows it; with two compressors and room for one message it takes five messages).
* A request of the shop proxy is answered once unless the company is of a third
  type or the database fails; a change of the database is seen within the life
  time of a cache entry and the time commands are on their way.

For 0MQ: the queue is linearizable (it implements `FlushQueue`), with addresses
used again; mailboxes lose no wakeup and may be destroyed right after the last
command was read; pipes close from both sides at any time without losing what
must still be read; a socket is taken down completely in every order of closing,
connecting, breaking and terminating; framing, greeting and flow control deliver
what was sent however TCP cuts it.

**Findings.**

* `stale_thumbnail`: the description of the system says that a thumbnail is deleted
  once its original has changed. If the change falls between the load in
  `processImage` and the monitor's first look, the monitor takes the new version
  for the one the thumbnail was made from, and the old thumbnail stays. The
  message has no field that could tell it otherwise. With one worker, this is the
  only way in which an outdated thumbnail stays (`OnlyMisnotedStay`), and a change after
  the monitor's note leads to the removal (`TrackedChangeRemoves`, whose premise is
  `OneWorker`). `nginx.conf` ships 22 workers, and with two a second message may take
  the note again after the change, so the window is wider; that every stored thumbnail
  is tracked or has a message under way (`NoThumbnailEscapes`) holds with more, too.
* `torn_message`: `zmq_send`'s manual promises all parts of a message or none.
  `lb_t::terminated` swaps the pipe that goes with the last active one and then
  sets `current` to 0 if it is past the end: a message of which one part was written to the pipe that
  was moved is continued on another. It takes three connected compressors; with two
  the run `broker` shows `WholeMessages`.

**Known failures.** Invariants about assertions name the ones the model reaches, so
that all others it represents are checked. Assertions about what the model has no state
for, such as `router_t::xwrite_activated`'s flag or `fq_t`'s `more`, are not represented.

* `lifecycle`: the linger timer is not cancelled when the pipe is gone and finds no
  pipe when a connecter in a second I/O thread is slow to stop; the reaper is told
  to stop twice when `zmq_term` is called while it destroys the last socket.
* `lifecycle`, `LingerKeeps`: an engine that closes drops bytes that are encoded and
  not yet taken by TCP (`terminate` asks `has_data`, not `outsize`), also under an
  infinite linger, where the manual says that pending messages are not discarded
  (`NeverDiscarded` fails if TCP may be slow).
* `broker`: `lb_t::send` asserts that a pipe refuses first parts only; a connection
  that is about to go refuses a second one.
* `connection`: when the peer closes while a message waits for room, `activate_out`
  polls the removed descriptor if the application sends, and `activate_in` asserts
  that the message is accepted if the application reads a first part of a message,
  which activates the pipe without making room.

**Bounds.** Pipeline: `MaxVersion`, `MaxSockets`, `QueueLimit` and the sets of processes
and requests. Two workers and two compressors on one file give every pairwise race
(no step waits for two others). Two versions are enough to be stale; three let an
original change again after its thumbnail was deleted and made anew. One socket makes
running out of sockets immediate; `one_worker` and `many_workers` have as many as can be
in use at once. Broker: queues of one message make a full pipe, a blocked send and a
reply that waits happen at once; two compressors reach every swap of `PipeLists` but
the one of `torn_message`. Shop proxy: two requests overtake each other in every pair of
callbacks; `Ttl` is larger than the time a request may be open (`MaxOpen`), as ten minutes are.
Mailbox: three chunk addresses of two slots let the writer, the reader and the spare
chunk be apart and an address return. Pipe: marks up to 3 are on both sides of each case
of `compute_lwm` with `MaxWmDelta` 1, and one message more than the mark fills the
window. Lifecycle: two connecters, since a session that reconnects launches a second
while the first may not be gone. Connection: `Esc` 3 has sizes below, at and above the
limits of both framings in a few bytes; `Batch` 4 and `Window` 4 cut every one of them.
Workers, compressors and requests are symmetric in the runs without liveness properties.

**Fairness.** Each worker, each compressor, the delivery of each message and the
monitor's polling are weakly fair: they are running processes and 0MQ's I/O
threads, and none of their steps waits for another process except through a
queue. `request_kinds` assumes it of the workers only. In `mailbox` the owner's thread is
weakly fair, and a sender once it is inside `send`. Requests, changes of originals, crashes,
sends and the restart of the broker are never owed. The other modules state what must
happen in the end as invariants of states in which nothing can go on (`RestIsEmpty`,
`HandshakeEnds`, `TermReturns`, `NoStandstill`, `HandledOnce`, `AllArrive`), which need no fairness;
these runs do not check for deadlock, as a system whose work is done may stop.

**Mutants.** Each property of a passing run is shown to fail under a faulty
variant of an operation (the definitions commented as such): output written in
place, the monitor told first, branches swapped, a command not waited for, an
acknowledgement too early, bytes dropped on a refusal, and so on.

## 4. Proofs

Eight modules hold theorems. Each invariant was checked by TLC on the instance of a
run before it was proved. Nothing is assumed but the named assumptions on the
constants, which TLC evaluates on every run.

**The pipeline, whatever fails** (`ImagePipelineProofs`; `DeploymentAssumption`,
`StoreAssumption`, `PathAssumption`, `ServerAssumption`: workers and compressors are
different processes, there is a request and a version, limits are natural numbers,
flags are Boolean):

* `TypeCorrect`: `Spec => []TypeOK`, one lemma per component, on top of lemmas
  about the file and message operations;
* `NoFileOrphaned`: `Spec => []NoOrphanPartial`. The property is not inductive: a
  process that opened a second file would orphan the first. The invariant
  `WriteInv` adds that a process has a file open only at its `writing` step
  (`WritersOpen`) and that a file has an owner exactly while it is partial
  (`OwnerWrites`); the interesting case is `RenameTemp`, where the owner of the
  temporary file must be found writing to the thumbnail afterwards;
* `NoTempOrphaned`: `Spec => []NoTempLeftBehind`. It needs `OwnerWrites`, because
  closing a file must not make one appear, and the fact that `Move` leaves no
  temporary file whichever compressor made it;
* `PermitedStored`: `Spec => []OnlyPermitedStored`. The invariant `StoredInv` carries the
  one look at `permitedSizes` to where the file appears: a worker that is about to
  save, and a compressor that has seen the thumbnail and is yet to create its
  temporary file, have an allowed request, even when the file they saw is gone.

**No thumbnail escapes** (`TrackingProofs`), for any number of workers and compressors:

* `ReportsInvariance`: unless other programs publish (type 3), a compressor that is
  not idle, or has something to pass on, has a type 2 message, whatever fails;
* `NoneEscapes`: under `Undisturbed`, `Spec /\ []SocketsLeft => []NoThumbnailEscapes`. A
  stored thumbnail is followed by a token: the save in progress, the message in the
  worker's socket, in the broker, with a compressor, in the compressor's socket, and
  the monitor's note. Every step that takes the token from one place puts it down in
  the next, and only `Poll` destroys it, together with the file. The hard case is a
  `mv` that puts a deleted file back: the compressor that does it still holds a token.

`Undisturbed` says that messages are on, that no worker, compressor or broker dies, that
no write fails, and that nobody else publishes; `SocketsLeft` that no process is out of
sockets. Each is needed: a crash loses the token with its holder, a failed save or
a missing socket leaves a file without a report, and the compression of a type 3 message
puts a file back and reports nothing. Failures of GraphicsMagick and of
`optimize_image`, and replaced and deleted originals, are allowed.

**One worker** (`LifecycleProofs`), for any number of compressors and requests:

* `LifeInvariance`: the invariant `LifeInv`. For each thumbnail there is at most one of
  the tokens above, with its message there once (`SentOnce`, `OneToken`); without the
  thumbnail there is neither a token nor a temporary file, and while the worker is on
  its way to generate it there is no thumbnail (`ThumbSound`); while there is a token a
  temporary file is of the compressor that holds it and is made from the thumbnail as it
  is (`TempSound`); what a process has open is what it works on (`OpenSound`);
* `OneWorkerServesComplete`: `Spec => []ServedComplete`. A file that the worker serves was
  not left half written by itself, and nobody else writes under that name;
* `OneWorkerNoResurrection`: `Spec => NoResurrection`, an action property. The only steps
  that put a file in place are the worker's, which finds nothing there, and a
  `mv` whose output has the version of the thumbnail it replaces.

Neither property is inductive: that a late `mv` is harmless depends on where the only
message is, not on the file. `SingleWorker` asks for at most one worker, which does not
die, no failed write and no type 3 messages: two workers, a torn file and a second
message for one file each break the properties (section 3). Crashes of compressors and
broker and lost messages are allowed, as the argument never needs a token to arrive; after
a crash the temporary file may stay, but then there is no token left to move it.

**Shop proxy** (`ShopProxyProofs`; `ShopAssumption`: the time to live is positive, the other
limits are natural numbers, lower-casing maps hosts to hosts):

* `ShopInvariance`: the invariant `ShopInv`. Who is not done has been sent nothing
  (`Answering`); a row read, an `add` on its way and a cached value that differ from the
  database are no older than the last change and their trips allow (`RequestsAge`,
  `AddsAge`, `ValuesAge`);
* `RequestsAnsweredOnce`: `Spec => []AnsweredOnce`;
* `StaleForAtMostTtl`: `Spec => []ChangeTakesEffect`: an answer is outdated for less than
  `Ttl + 2 * MaxOpen`. The chain of ages is why it needs an invariant: what was
  read before a change can be added after it, up to `MaxOpen` later, live for `Ttl`, and be
  on its way to a request for `MaxOpen` more.

**Queues** (`YPipeProofs`; `YPipeAssumption`: chunks have at least one slot, `Null` is no
address):

* `YPipePointersLive`: `YPSpec => []PointersLive`;
* `YPipeImplementsQueue`: `YPSpec => ImplementsQueue`, the refinement of `FlushQueue`: initial
  states map to initial states and every step to a step or a stutter.

Both rest on `YPInv`: the list has no chunk twice and not the spare one (`Queue`); front, `r`,
`w`, `f` and back follow each other on the list, and `c` is `w` or `Null` (`Pointers`); the slots between
hold items, and `f` stands behind a complete one (`Stored`). That `c` is `w` or `Null` is
what makes the compare-and-swap safe when an address is used again. Lemmas give the position of an
address on a list, before and after a chunk is linked or unlinked, and what the
mapped queue becomes.

**Mailboxes** (`MailboxProofs`; `MailboxAssumption`: commands are values, `Null` is no sender),
for any number of senders:

* `MailboxInvariance`: the invariant `MBInv`, which is `YPInv` with who holds the mutex and
  what the holder has left in the pipe (`Locking`), one signal for each time the reader fell asleep, in
  the eventfd or with one sender on its way (`Waking`), and each sender's commands in
  order between the last received and the last sent (`Ordered`);
* `MailboxNeverAborts`: `Spec => []NoAbort`; `MailboxWakesOwner`: `Spec => []NoLostWakeup`;
  `MailboxOutlivesSend`: `Spec => []SignalerOutlivesSend`, from `Ordered`: the command of a sender that is
  yet to signal is still in the pipe;
* `MailboxPipe`: the pipe in the mailbox has live pointers and implements the queue: the mutex makes
  the senders one writer.

**Broker** (`RRBrokerProofs`; `BrokerAssumption`: limits are natural numbers and there is room
for one message and one reply; the ROUTER makes up an identity of its own for a REQ
socket; the clients whose messages wait at the start have different ones), for any number
of clients and compressors:

* `FrontInvariance`: the invariant `FrontInv`. The pipes that are there are in the table or
  anonymous, an anonymous pipe is not empty, and the fair queueing is a list in `Lists`
  (`Table`); a reply is under way only between its two parts, and to a pipe in the table
  (`Replying`). `TableConsistent` alone is not inductive: it needs that a pipe which goes
  was in the table, which holds because an anonymous pipe is never read, so it is never
  found empty and never acknowledges its end;
* `RouterTableConsistent`: `Spec => []TableConsistent`; `RouterSound`: `Spec => []BrokerSound`;
* `TwoGetWholeMessages`: with at most two connections of compressors (`AtMostTwo`),
  `Spec => []WholeMessages`. The invariant `BackInv` says that inside a message the current pipe
  of `lb_t` has the parts that were sent and the broker holds the rest, unless that pipe is
  gone and the rest is dropped (`Sending`). `AtMostTwo` is needed where a pipe goes: of two active
  pipes the current one is still current after `lb_t::terminated`, of three it need
  not be, which is the finding of `torn_message`;
* `BrokerInvariance`: with `FrontInv`, three more invariants, for any number of compressors.
  * `OnceInv`: the message of a client is yet to be read, held by the broker, or stored for
    one compressor at one place in its queue, or it was handled. It is stated of pieces that end in a body
    (`Pieces`) and not of whole messages, so that it holds also where `WholeMessages` does not;
  * `Awake`: a pipe with something to read is active in the ROUTER's `fq_t`, so no wakeup is lost;
  * `CalmInv`: while no connection has broken (`Unbroken`), `BackInv` holds without `AtMostTwo`; each queue is
    within its limit, a reply that waits is in an active pipe, nothing is being dropped (`Queues`);
    while the broker has a message to send some compressor can go on (`Roomy`); and no message
    that goes whole is lost (`Kept`);
* `NeverStandstill`: `Spec => []NoStandstill`, from `Roomy`. No count over the compressors is needed: the
  round of the poller that fetched the message took a reply from some pipe, which then has room, or
  found them all empty, and until the message is sent the broker takes nothing more, while
  what the compressors do only lets one of them go on;
* `MessagesHandledOnce`: `Spec => []HandledOnce`. At most once is `OnceInv`, whatever breaks; at least once is
  `Kept` at rest, where `Awake` shows that no message is left in front.

The lemmas say what each operation of `lb_t` and `fq_t` does to a list in `Lists`: no pipe twice, the
active ones in front, the current one among them. `Skip` is a recursive function; that its loop
ends, and what it keeps, is shown with the smallest counterexample in a set of numbers of
rounds (`Smallest`, from the library's `WFMin`), since induction theorems with an operator
parameter cannot be used.

**Pipes** (`PipeTrafficProofs`; `PipeAssumption`: `max_wm_delta` is a natural number;
`TrafficAssumption`: so are the high watermarks), for every high watermark, any number of
messages, of parts and of hiccups:

* `PipeInvariance`: `TSpec => []PipeInv`. Its parts, and what each is needed for:
  * `Handshake` lists the states of the two ends that can meet, each with the commands of the
    handshake on their way to it, and `Mails` has `pipe_term` once and `pipe_term_ack` once and last: no
    command reaches an end in a state in which it asserts, and none a deleted end;
  * `Pointers`, `HiccupChain`, `Lives` say who uses which ypipe. The hiccups under way to the
    writer name, in order, the ypipes between the one it writes to and the one the reader
    reads, and those are alive; that a hiccup always comes before the commands of the handshake keeps
    `process_hiccup` from finding no outbound ypipe;
  * `Fresh`, `Delimiters`: a ypipe the writer is yet to learn of is empty; a delimiter is the last item,
    and only of an end that is past `active` and `delimited`. So a delimiter is never read
    in a state in which `delimit` asserts;
  * `Leaving`: an end inside `terminate` is no longer open, and an open one means to wait;
  * `Counts`: what is in the ypipe and what was read make up what was written, exactly
    until there is a hiccup, and at most that afterwards;
  * `Window`, `Reports`: the reports under way rise from the one the writer knows to what was
    read, and the last one is less than a low watermark old. A writer that sleeps
    sleeps at a full window, so that it would take a whole high watermark unread to keep
    the reader from another report, and the low watermark is never larger;
  * `Sleeping`: a reader that sleeps has an empty ypipe that knows it, or is about to be woken;
    `Delimited`: the delimiter of an end that returned from `terminate` is let through;
* `PipeStaysSound`: `TSpec => []PipeSound`; `PipeWithinHwm`: `TSpec => []WithinHwm`;
  `PipeRestIsEmpty`: `TSpec => []RestIsEmpty`; `PipeHandshakeEnds`: `TSpec => []HandshakeEnds`;
* `PipeAllReadBeforeAck`: `TSpec => AllReadBeforeAck`, step by step: an end goes to `terminating` by
  reading the delimiter, behind which nothing is, or from `delimited`, when nothing
  is left.

The lemmas at the bottom say what the items of a ypipe become when one is written, read, flushed
or rolled back, and how many messages are among them (counting by cardinality, with the
library's facts on finite sets); those above them what sending and receiving a command does to each part of
the invariant that is about mailboxes. The two directions of the handshake are
one argument: `Shakes` is symmetric in the ends.

**Only model-checked.** Everything under fairness (`EventuallyCompressed`,
`TrackedChangeRemoves`, `OnlyMisnotedStay`, `RequestsAnswered`, `AllReceived`) is out of this prover's reach. What the folds of
`StreamEngine` over parts and bytes compute is induction over data, and with it `AllArrive`,
`InOrder`, `EndDelivers`, `EngineSound` of `Connection`. The properties of `SocketUse` (`LifeSound`, `NothingLeft`,
`LingerKeeps`, `TermReturns`) are not proved: `PipeInv` would be one part of the invariant, for a
pipe whose ends are driven by sessions, the reaper and the context.

## 5. Plan

1. (done) the pipeline, its runs, the first theorems.
2. (done) broker, shop proxy; 0MQ from the queue up to the engines.
3. (done) proofs: the pipeline's safety properties, the shop proxy, the queue with its
   refinement, the mailbox, the broker, the pipes.
4. Open: the life of objects over `PipeInv` (`LifeSound` first, then `TermReturns`).

## 6. Not modelled

* **Image router**: a choice between three locations by two existence tests, with no
  state of its own. **Token gate**: four tests of a token before a request is
  proxied. **Logger**: output only.
* **Pixels, encodings and sizes**: an image is its version and whether it is
  complete. The arithmetic of `thumbnail4LargeImgs` is left out for that reason.
* **Older thumbnail server**: its REQ sockets are in `RRBroker`; the handling of a
  request is an earlier form of the one in `ThumbnailServer`.
* In the pipeline: directory creation, nginx's own serving of a file over several
  events, the second broker on the way to the monitor (its queue is part of `linger`).
* In 0MQ: the engine's delayed `terminate` while its encoder is inside a message (in
  `SocketLife` no batch ends inside one), socket types the programs do not use, subscriptions, options, addresses,
  inproc connections, several sockets in one context, maxmsgsize, other pollers than
  epoll (of which only the calls to handlers appear).
* **Vendored programs**: page-speed (but for what `optimize_image` reads and writes),
  GraphicsMagick's binding beyond `load` and `save`, nginx modules and Lua
  libraries. They are most of the C and C++ lines of the tree: third-party image
  coding, parsing, protocol buffers and URL handling, in which there is no
  protocol of the image server to model, and a map of their lines would not be a
  model of them. For that reason the mapped share of all C and C++ lines stays
  small, although the components above are covered.
