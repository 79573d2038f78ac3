# Verification of QRT Pro

QRT Pro sends a file as an endless animation of QR codes or colour matrices and
receives it through a screen capture (the desktop receiver) or a camera (the
Android receiver). There is no way back from receiver to sender: frames are lost,
repeated and reordered as the receiver happens to look, and a transfer counts
only when the assembled content matches its checksum.

This directory holds TLA+ models of the program's stateful parts, TLC runs over
small instances, and TLAPS proofs for every instance. Paths below are relative to
`src/txqr/` unless they begin with `src/`.

## 1. Inventory

| Part | Source | State it keeps | Operations | Modules |
| --- | --- | --- | --- | --- |
| Receiver pipeline | `internal/scanner/scanner.go` | regions with a serial, `scanning`, `done`, `doneOnce`; `decQueue`, `saveQueue`; `closing`, `closed`; preview | AddRegion, RemoveRegion, Clear, Start, Stop, StartAll, StopAll, Close; capture, worker and saver goroutines | `ScanPipeline`, `ScanPreview`, `Delivery` |
| Receive session | `internal/scanner/decode.go` | mode, decoder, mismatch counter, name deadline, result | feedPayload, finishNameWait, reset | `TransferSession`, `SessionContract`, `SessionPhases` |
| Fountain decoder | `decimen/decimen.go` | solved blocks, pending frames with their lists, word slices | AddFrame, resolve | `PeelingDecoder` |
| Decimen carousel, DCF2 container | `decimen/decimen.go`, `internal/sender/sender.go` | none between calls | PackContainer, NewEncoder, Encode, ParseFrame, Assemble, UnpackContainer | `Carousel` |
| Sender sessions and memory | `internal/sender/sender.go`, `render_cache.go`, `worker.go` | sessions, raw frames, PNG caches with eviction order, `encodeSlot` | /encode, /md5, /frame, /cancel, cleanup | `SenderSessions` |
| Frame requests | `internal/sender/render_cache.go` | `pending` renders, render slots, prefetch contexts and queues | framePNG, prefetch, /cancel | `FrameRequests` |
| Server lifecycle | `internal/sender/sender.go`, `cmd/qrt-pro/app.go`, `overlay.go` | listener, `done`, Serve and cleanup goroutines of each run; `senderBusy` | Start, Close, Serve, cleanup; toggleSender, shutdown | `ServerLifecycle`, and Close in `FrameRequests` |
| Encode worker | `internal/sender/worker*.go` | a child process, its pipes, its budget, its memory limit | workerMain, encodeIsolated, readWorkerSession, renderFrameCount | `EncodeWorker` |
| Sender log | `internal/sender/diagnostics.go` | a file and two backups, shared by processes | record | `SenderLog` |
| Playback page | `internal/sender/index.html` | a frame number, pictures fetched | play loop, retry, cancel | not modelled |
| QRT2 frames, encoder, codecs | `frame.go`, `encode.go`, `codec.go`, `fountain.go`, `internal/sender/limits.go` | none between calls | pack, ParseFrame, SameTransfer, EncodeContext, withNameFrame, MaxFrameSize, validateClassicRequest | `ClassicFrames`; identity in `TransferSession` |
| QRT2 decoder | `decode.go` | manifest, codes seen, erasure decoder, result | Decode | inside `TransferSession` |
| Audit log | `internal/scanner/audit.go` | ring, sampling map, log file | Note, Always, rotate, Close | `AuditLog` |
| File publication | `internal/scanner/scanner.go:767`, `file.go`, `publish_*.go` | the save directory, temporary files | writeToDisk, uniquePath, writeAtomic, publishExclusive, SaveResult | `FilePublication` |
| Region overlay | `cmd/qrt-pro/overlay.go` | overlay, `resumeAfter` | beginSelect, finishSelect, cancelSelect | `RegionSelect` |
| Colour matrix | `qr/color.go` | none between calls | ColorMatrixEncode, ColorMatrixDecode | `ColourMatrix` |
| Android receiver | `src/txqr-reader/.../ReceiveSession.kt`, `LatestFrameProcessor.kt`, `ScannerViewModel.kt` | generation, session, the frame channel, the camera's guard, screen and save state | onQrCodeScanned, accept, startScan, ticker, saveDataToFile, onCleared | `AndroidReceiver` |
| Android decoders, screens | `src/txqr-reader/.../decoder/*.kt`, `ui/*.kt` | as the Go decoders; widgets | decode, draw | not modelled |
| QR symbols, capture, window, tools | `qr/qr.go`, `internal/w32`, `internal/uikit`, `cmd/` | pixels, widgets | drawing, system calls | not modelled |

How they interact. The UI thread calls `Manager`; each started scan owns a capture
goroutine that puts pictures into `decQueue`; workers decode without any lock and
feed the region's session under `Manager.mu`; whoever completes a session (a
worker, or the capture goroutine when a name wait ends) puts the result into
`saveQueue`; the saver writes files and reports them. On the other side browsers
call the sender's HTTP handlers concurrently; an upload is encoded by a child
process that may run for minutes, then admitted as a session whose frames are
rendered on demand into caches with shared limits.

What is hard here: captures and decodes that outlive the scan they belong to;
two goroutines that both see a completion; Close against goroutines blocked in
queues and locks; frames of other transfers in any order; word slices shared by
several data structures; budgets computed long before they are used; processes
that die with half of something written; log files that several programs rename.
The full list, line by line, is `hazards` in `PROJECT.json`.

What makes each part correct:

- Pipeline: no frame of an earlier scan reaches a session; each verified transfer
  is reported exactly once; Close returns, never panics, and settles everything.
- Session: equations of one transfer only; a switch after 15 foreign frames in a
  row, not earlier and not later; verified content never lost or renamed.
- Fountain decoder: solved blocks are the sender's; complete means whole; no
  solvable frame is left lying.
- Sender: limits on sessions and memory at every moment; an admitted encode is
  not refused in the end; PNGs that fit are kept and all are evictable.
- Frame requests: one render of a frame at a time; every request is answered; no
  frame is lost to prefetching; Close ends all prefetching and returns.
- Worker: no part of a session is published; the memory limit is there before the
  library runs; every call ends and leaves no process.
- Lifecycle: what the window reports about the server is true; clicks are answered.
- Publication: no received file replaces another; what is reported is there, whole.
- Logs: bounded, and the newest lines survive rotation.
- Formats: what one end produces within its limits the other end takes, at every size.
- Android: work of an earlier generation changes nothing; what is verified is shown.

## 2. What the modules say

**`ScanPipeline`** takes a critical section of `Manager.mu` as one step, and puts
everything the code does between two sections between two steps. `cap[r, gen]` is
`runCapture(r, gen)`: `Tick` (name wait, generation check), `Shoot` (the capture,
without a lock), `Submit` (the comparison with the last accepted picture and
`submitDecode`), and `CaptureSave`. `worker[w]` is a decode worker: `Take`,
`NoPayload`, `Commit` (`commitPayload`), `WorkerSave`. `submitSave` holds the read
lock of `qMu` while it waits for room, so `CloseQueues`, which needs the write
lock, waits for `Senders = {}`, and a waiting writer keeps readers out
(`CanRLock`), as Go's RWMutex does. The session inside a region is only a phase
(`SessionPhases`). `base`, `stale`, `verified` and `dropped` are history.

**`ScanPreview`** adds the preview pane: each step of the pipeline is joined with
what it does to `Manager.preview`.

**`Delivery`** is the promise of the pipeline: verified transfers are settled,
reported once, or dropped after Close began. `ScanPipeline` implements it with
`reported <- saved` (property `Delivers`, including its fairness).

**`TransferSession`** is `decodeState`. A transfer is its identity (what
`SameTransfer` or `sameHeader` compare), a frame is an identity and a code, or a
name. The erasure decoders answer nondeterministically: from `Need` equations on
an equation may make the content solvable, or solving may fail with an error
(`SolveFails`), after which the decoder has an equation that the session has not
counted until its frame is seen again. Solved equations are the content if
they are all of one transfer and that transfer is not corrupt.

**`SessionContract`** over **`SessionPhases`** is what the pipeline assumes of a
session; `TransferSession` is checked to implement it (`HonoursContract`), which
joins the two models.

**`PeelingDecoder`** is `LTDecoder`. The XOR of blocks is the set of them and XOR
the symmetric difference, so a wrong XOR shows. Slices are shared by reference:
`solved[b]` and the queue name the frame whose slice they use, as the code shares
`pf.words`. A step is one turn of `resolve`'s loop. `FrameComposition` is a
constant: any function from sequence numbers to nonempty sets of blocks. Neither
`FramesDup` nor the `solvedN > K` clamp appears: the count never exceeds K.

**`SenderSessions`** gives each buffer as the set of its bytes; a sum of lengths is
a cardinality. The critical sections that evict in a loop are several steps,
with `mu` held. `WorkerDone` is a worker's answer that `readWorkerSession`
accepted; `Alloc` restricts what the allocator may return, for TLC only. A
deleted session that a render still refers to cannot be stored into (`Rendered`
asks for the session); its buffers are garbage.

**`FrameRequests`** is who waits for whom. HTTP requests and prefetch goroutines are
agents; `agent[a].at` is where a goroutine is: about to enter `framePNG` ("ask"),
following a render ("follow", "woken" once `call.done` is closed), leading one
("slot", "render", "finish"), or out of it ("answered"). `pending` names the
leader. A leader's `Finish` hands its answer to everyone who follows it at that
moment, which is what `close(call.done)` and the fields of `call` amount to. The
loop that queues prefetch jobs is several steps with `mu` held (`Fill`), because
goroutines take jobs meanwhile. A prefetch context is an `Epoch` of its session; its
name is used again when its goroutines have returned. What a render may store is
free (`Caches`): `SenderSessions` has the limits. Of the lifecycle there is what
requests see: `CloseBegin` (the section under `mu`), `CloseListener` (the wait for
goroutines, then Shutdown), `CloseReturn` (connections closed by force).

**`FilePublication`** is the save directory and those who write into it. A saver
looks for a free name (`Probe`, one name at a time), then makes a temporary file,
writes, and publishes it: the directory may change between all of these. On Unix
`publishExclusive` links and removes, on Windows it moves; both are
`PublishExclusive`, with `TakesName` and `Moved`. `SaveResult` publishes over a file
(`PublishOver`), and the window's dialog writes in place (`WriteInPlace`). Any call
may fail, and a receiver may die. The last candidate name, with the time in it,
is taken without looking, as in the code.

**`AuditLog`** and **`SenderLog`** are the two log files. All of `Audit` is under one
mutex, so a call is a step; failures of each system call, restarts and the clock
are free. `record` of the sender holds a mutex that other senders do not share, so
there each system call is a step.

**`ServerLifecycle`** has the two goroutines of every run (Serve and cleanup), the
goroutine of the button and the shutdown, which both take `Server.lifecycle`. `port`
is what the operating system holds for a run: "9000", or another port when 9000 is
taken. `ServeFails` is the failure that `Server.listener` does not show.

**`EncodeWorker`** is a parent and a child process with two pipes. `parent` and
`child` are where `encodeIsolated` and `workerMain` are; a write is a token in `out`,
of which the pipe holds `PipeSize`. The child's renderers take jobs, render for
however long, and add to one counter. Contexts end, processes die, and Linux,
Windows and other systems differ in who limits the child's memory and when
(`configureWorker`, `limitWorkerData`).

**`RegionSelect`** is `beginSelect` and its ends. Listing and stopping are two steps,
because regions complete by themselves between them.

**`ClassicFrames`** follows the numbers from `validateClassicRequest` through
`MaxFrameSize`, the choice and fall-back of the codec and the spread of the name
frames to `ParseFrame`. The digits of numbers count: a header is text.
**`Carousel`** carries a file through container, word-padded block slots, frames and
back; a byte is its position, padding 0. **`ColourMatrix`** computes the cell of
each bit as the encoder does, and as each of the two decoders does. The second decoder
begins with three finders or not at all, and tells a finder by the light modules around
it: `LocateFinders` says for which pictures it goes on.

**`AndroidReceiver`** has a session for each scan generation. The steps are those of
the camera's thread (`Picture`, `Look`), of the main thread (`TaskEnds`, `ColourFrame`,
`Publish`, `StartScan`, saves) and of the worker (`Process`, `Ask`, each a call of the
synchronized `accept`). What decoders make of frames is a choice of `Reached`.

**`MCHost`**, **`MCFormats`** and **`MCReceivers`** each check several modules that share
no state: a behaviour picks one and the variables of the others stay.

## 3. Runs

| Run | Instance | Shows |
| --- | --- | --- |
| `scan_safety` | 1 region, 2 workers, 2 pictures, queues of 1, serials to 3 | nothing stale reaches a session; done is verified; Close is safe and settles |
| `scan_liveness` | the same with 1 picture, fair scheduling | delivery, end of the name wait, Close returns, refused pictures retried |
| `scan_preview` | 1 region, 1 worker, 1 scan | **violated**: a preview survives Clear |
| `session` | 3 QRT2 transfers (one corrupt), 2 Decimen, 3 codes, 2 needed, switch at 3; Android: 2 scans | the session's properties, that it honours its contract, and the Android receiver's |
| `session_switch` | the desktop part of the same | **violated**: a transfer of the other protocol is never adopted |
| `formats` | 3 blocks, 2 frames of every composition; sizes, splits, codecs and names around every limit; files to 10 bytes in blocks of 5; pictures of 3 lengths and 4 scales | right, whole and exhaustive peeling; frames, containers and bits arrive |
| `sender_sessions` | 3 ids, 2 requests, 2 frames each, 5 bytes, 3 of PNGs | limits, kept promises |
| `frame_requests` | 1 session of 2 frames (one does not render), 2 requests, 2 goroutines in each of 2 contexts, 1 slot, window of 1 | coalescing, prefetch bookkeeping, Close and deletion |
| `frame_liveness` | 3 frames, 1 request, 1 context, fair scheduling | requests are answered, Close returns |
| `prefetch_ends` | as `frame_requests` | **violated**: a deleted session's goroutines have ended |
| `host` | 2 receivers and the user on 2 names; logs of 2 lines, 2 processes; 3 server runs; 3 regions; a worker of 2 frames, 2 renderers, 3 platforms | publication, logs, lifecycle, worker, region selection |
| `colour_finders` | pictures with and without a margin, of matrices whose finders can be found and of others | **violated**: a picture whose finders are found is not read |

Why the bounds are enough. Regions share only the two queues, the locks and
Close; in `scan_*` a single region with two scans already fills a queue of
capacity one, meets its own predecessor's jobs, and has three goroutines (two
workers, its capture loop) compete for one completion. `MaxSerial = 3` means two
starts and one stop between them; the staleness hazards need exactly one restart.
In `session`, five transfers of two protocols give an own, a foreign, a second
foreign, a corrupt and an other-protocol one; the 15 of the code is 3 here
because only "less", "equal" and "interrupted" matter. In `formats` three blocks
give cascades of length three and blocks queued twice. In `sender_sessions` two
sessions fit, a third id is in the making, and five bytes make every limit bite;
`SizesView` forgets which bytes a buffer has, since nothing depends on it. In
`frame_*` sessions share only the slots and Close; four goroutines that want two
frames and one slot give every pair of leader and follower, and a window of one
job is full as soon as a second is wanted. `LiveView` forgets the queue of a context
without goroutines.
In `host` two receivers want one name while the user takes it; with two
candidates one is probed and one is taken blindly. Logs of two lines rotate within
four (`MaxCalls`) or eight (`MaxLines`) events, often enough for the second backup to
be replaced. Three runs let a run begin while the one before still ends and the
one before that has ended. Two PNG sizes and every `CacheBytes` to 5 put the
worker's budget below, at and above what it renders. In `formats` the lengths that
matter are at their real values (8192 chunks, 2331 bytes of a symbol, 1587 of a
matrix), except the container's, which are scaled so that names, types and files
reach their limits in ten bytes. Two Android scans are one restart: a third
generation meets nothing that the second does not.

Every passing run has, for each of its properties, a mutant of the model (a
definition that says "a bug to be caught") that TLC refutes.

Fairness. Goroutines are scheduled (weak fairness for each of them, for the
saver, for the UI thread inside Clear and Close); timers fire (`NameDeadline`).
Nobody is assumed to call Start, Stop or Close, and captures may fail for ever,
except in `PictureRetried`, which assumes that a capture tried again and again
succeeds sometimes (`CapturesWork`). `ResolveReturns` assumes that a loop that can
go on does. `frame_liveness` assumes strong fairness of the goroutines, since slots
and `mu` are free only now and then: Go serves waiters of a channel and of a mutex
first come, first served. Clients need not stay, sessions need not be deleted and
nobody need call Start or Close. `host` assumes of the server that its goroutines run
and that whoever waits for the lifecycle mutex gets it (`ServerFairness`), and of
the worker that both processes run, kills are carried out and the deadline
comes (`WorkerFairness`); the encoder library and a render may never return. In
`session` the tasks of the scanner end, coroutines run and time passes
(`AndroidFairness`); the camera need not deliver another picture. The other runs set
no fairness because they check safety.
`CHECK_DEADLOCK FALSE` is set where the modelled part may stop: in `formats` and
`colour_finders` all has been decoded, in `host` a bound is used up (`MaxCalls`,
`MaxLines`, `MaxRuns`), a saver is done or a worker has ended, and in `session` the
Android view model has been cleared.

## 4. Proofs

| Theorem | Module | Of |
| --- | --- | --- |
| `Inductive`, `BlocksAreRight`, `CompleteIsWhole`, `NothingLeftLying` | `FormatProofs` | `PeelInv` (the inductive invariant), `SolvedRight`, `CompleteHoldsAll`, `PeelingExhausted` |
| `FramesAreFit` | `FormatProofs` | `FramesFit`, from the inductive `ClassicInv` |
| `CarouselInvariant`, `FilesArrive` | `FormatProofs` | `CarouselInv` (the inductive invariant), `ContainerArrives` |
| `ColoursAreRead` | `FormatProofs` | `ColourReads`, from the inductive `ColourInv` |
| `Invariant`, `TypeCorrect`, `WithinLimits`, `NothingStranded`, `PromiseKept`, `RoomIsMade` | `SenderSessionsProofs` | `SessionsInv` (the inductive invariant), `TypeOK`, `LimitsKept`, `EveryPNGEvictable`, `AdmissionKept`, `StoreKept` |
| `SessionInvariant`, `NeverMixed`, `NamedRight`, `SwitchedInTime`, `SwitchedForCause`, `ImplementsContract` | `TransferSessionProofs` | `SessionInv` (the inductive invariant), `OneTransferOnly`, `NameOfContent`, `SwitchInTime`, `SwitchDeserved`, `HonoursContract` |
| `FrameInvariant`, `RendersAreCoalesced`, `QueuesAreExact`, `PrefetchedOnce`, `NobodyOutlivesClose` | `FrameRequestsProofs` | `FrameInv` (the inductive invariant), `RendersCoalesced`, `PrefetchAccounted`, `Exclusive`, `CloseStopsPrefetch` |
| `WorkerInvariant`, `SessionIsWhole`, `ChildIsContained` | `EncodeWorkerProofs` | `WorkerInv` (the inductive invariant), `SessionWhole`, `ChildContained` |
| `PublicationInvariant`, `ReportedIsThere`, `NothingReplaced` | `HostProofs` | `PubInv` (the inductive invariant), `SavedIsThere`, `NeverReplaces` |
| `ServerInvariant`, `WindowIsRight` | `HostProofs` | `ServerInv` (the inductive invariant), `ServerHonest` |
| `SelectionLeavesRegions` | `HostProofs` | `RegionsResumed`, from the inductive `SelectInv` |
| `LogInvariant`, `LogIsKept` | `HostProofs` | `LogInv` (the inductive invariant), `SenderLogKept` |
| `AuditInvariant`, `AuditIsKept` | `HostProofs` | `AuditInv` (the inductive invariant), `AuditKept` |
| `AndroidInvariant`, `ScansAreApart` | `AndroidReceiverProofs` | `AndroidInv` (the inductive invariant), `ScanIsolated` |
| `RegionsInvariant`, `NothingStale`, `DoneIsVerified`, `PipeInvariant`, `ClosedIsSettled` | `ScanPipelineProofs` | `RegionsSound` and `PipeInv` (the inductive invariants), `NoStaleFrame`, `DoneMeansVerified`, `CloseSettles` |
| `DeliveryInvariant`, `DeliversOnce` | `ScanPipelineProofs` | `DeliveryInv` (the inductive invariant), the safety part of `Delivers` |

*Peeling.* Assumed: blocks are a finite nonempty set, compositions nonempty sets
of blocks. `SolvedRight` alone is not inductive: a slice is right when it is used
only if it was right while it waited. `PeelInv` adds that a waiting frame is listed
under exactly its unsolved blocks and its slice is their XOR (`PendingOK`), that
queued and solved slices belong to frames that wait nowhere any more, so that
nothing writes to them (`QueueOK`, `SolvedOK`), and that a frame which waits no
more is used up or queued (`SeenOK`). `CountOK` makes `solvedN` a cardinality, from
which completeness follows. The proof has a lemma per action and conjunct.

*QRT2 frames.* Assumed: how the limits stand to each other, as the code's do (a header
is 154 bytes at most and `MaxFrameOverhead` allows for more; three frames for each source
block have codes; numbers stay below 10^9, since `Digits` looks no further), a split of at
most `MaxChunkBytes`, runes of 1 to 4 bytes. The estimate is made for the longest chunk
and the last code: `ChunksFit` says that chunks of a length s are as many as ceil(total / s)
and none is longer, `DigitsGrow` that no smaller code has more digits, and `NameCut` that a
name cut at whole runes is not empty and within its limit.
`Spread` is the arithmetic of the three places of the name.

*Carousel.* Assumed: limits are numbers, blocks are not empty and not longer than the
receiver allows, files have a byte or more, and gzip makes at least its own 18 bytes. A
container is cut and joined without loss because a place in the buffer is in the slot it
was copied to (`InSlot`, for slots of any width) and ceil(length / block) blocks are just
enough (`Enough`), which is also what `ValidHeader` demands. The receiver sanitizes a name
that was sanitized before; that this changes nothing needs that what is kept of a name
is plain and in its order. `BaseName` says so by rank, the k-th character kept being the
one with k - 1 before it, so that no induction over sequences is needed: a set of places
has a k-th member (`Ranked`) because a set of numbers has a least one.

*Colour matrix.* Assumed: a payload that fits between the finders, and scales of a pixel or
more. A pixel shows the module it lies in (`PixelShows`), and only one cell shows the first
bit of the header (`Written`), so a decoder that reads the header has row 15 and column 2
in their places. The direct decoder at the right scale is wrong by the same number of
modules everywhere, and that number is 0 when the header is read. The decoder by finders
fails where it finds no finders; where it does, it reads a header only if a module is
a pixel and there is no margin, and there it agrees with the direct one.

*Sender sessions.* Assumed: finitely many ids and bytes, positive limits. The
argument of the promise: an encode is let in with budget = limit - retained;
while it holds the slot no other session is inserted, so raw frames of the
sessions can only shrink, and PNGs can be evicted: raw + budget <= limit stays true
(`PromiseOK`), and when `admitLocked` has evicted what it must, the new session
fits. `LimitsKept` needs that the store looks at both limits after its loops;
`StoreKept` and `AdmissionKept` need `EveryPNGEvictable`: a session with an empty
eviction order holds no PNG.

*Frame requests.* Assumed: at least one frame, slot and prefetch job in the window, and
requests, prefetch goroutines and contexts are different things. `RendersCoalesced`
(every follower waits for a leader of its frame that is at work, and there is one
leader of a frame) is inductive once the agents' own records are right (`TypeOK`,
`AskersOK`). Prefetching needs `QueueOK`: a frame is marked exactly if it is once in the
queue or in the hand of one goroutine of the context, never both; only the
multiplicities make unmarking after a render right, and `PrefetchedOnce` states
them. `HelpersOK` says that a goroutine nobody has told to end is of the present context
of a session that is there, while the server is open: with it, Close has ended
everybody when it stops waiting.

*Encode worker.* Assumed: positive limits, and PNGs that are not empty. Parent and child only
share the stream: `StreamOK` numbers its tokens (acknowledgement, header, parts) and says
that what lies in the pipe is what follows the last token the parent has read, up to
where the child is. `Checked` is what the child knows before it writes its header: its
PNGs are within its budget, and those of the warm-up are there. `GotOK` is the parent's
side: it has the first parts, and has counted them. Both counts are cardinalities of
the same bytes (`Units`), so the parent's budget, which is never smaller, is never
exceeded by an honest child. `LimitOK` orders the job object, the input and the
library: on Windows the child reads nothing before it is confined.

*Receive session.* Assumed: the two protocols have different transfers, and the
threshold is above one (15 in the code; at one, no foreign frame is ever counted).
The decoder's equations and name are of its own transfer, in the protocol of the
mode (`DecoderOK`); `txqrSeen` holds codes of its equations, and what is counted is
their number (`CountOK`), so an equation that counts is one that was added. It may have
an equation more than are counted, after solving failed.
`PhaseOK` ties the phases to the result and the name: there is a result exactly when
the session waits for a name or is completed, it is the decoder's verified content,
and the name is the one the decoder has. `SwitchInTime` and `SwitchDeserved` speak of
the frames there were, the code looks at `candidate` and `mismatch` only: `RunOK` says
that while the session receives, the counter is the number of foreign frames in a
row, or stale for its own transfer and so of no effect. That each step is one of
`SessionContract` or a stutter is proved with the invariant; together with
`ImplementsContract` this is the refinement, `content` being `result`.

*Publication.* Assumed: there is a name, and receivers, the user, the absent value
and a partial content are different things. `TempOK` says who may own a temporary
file and that it is whole when it is to be published; `FilesOK` says that what a
receiver published is there from the moment of publication on, before it is
reported, unless the user touched the name. Nobody replaces a file because a
publication succeeds only under a free name; `NeverReplaces` follows without looking
at what `Probe` saw before.

*Server lifecycle.* Assumed: at least one run, and the value for "no run holds it" is
no port and no thread. Runs are numbered as they begin, and one that has not begun
has no port (`RunsOK`); whoever is inside Start or Close holds the lock, and who shuts
a run has taken it out of `listener` (`LockOK`). So a run with a port is the listener's
or is being shut (`PortOK`), and nobody else begins a run meanwhile. While the window
is open only the button's goroutine enters Start and Close, which makes what it
learned true until it has told the window (`ButtonOK`). A Serve that fails by itself
leaves `listener` set: the invariant allows a listener without a port for a run that
failed, and for no other.

*Drawing a region.* Nothing is assumed. While a selection is under way `resumeAfter` is
exactly the regions that scanned at its beginning, and the others are as they were,
although regions complete and fail between the listing and the stop.

*Sender's log.* Assumed: finitely many senders, positive limits, and a file that is not
there is no sequence. The limit holds with one line of slack for each other sender,
since each looks at the size before it writes: `RoomOK` counts those that have looked.
`NewestOK` says where each file ends, up to the first race: the first file with the
newest line, and, until it is full, the second where the first begins.

*Receiver's log.* Assumed: positive bounds. Units of occurrences are counted as a set,
so that a sum is a cardinality and one more line adds its repeats (`TellsMore`). Each key
knows the time of its last line, which the next one must keep away from (`TimesOK`).
The ring is cut to the newest lines at each line, and the newest of the newest and one
more are the newest of all (`NewestKept`). `FilesKept` puts the two files one behind the
other; it survives every failed write, open and restart, and is lost only with a
failed rename.

*Android receiver.* Assumed: at least one scan, and the absent value is neither a
generation nor an end of a session. A batch on its way names one generation as the
scan it was seen in, the one it is checked against and the session it goes to, and an
update on its way tells nothing that has not happened to its session, which stays so
(`WayOK`). A saver of the current scan exists only while the screen shows "saving"; the
savers of earlier scans have an older generation and are ignored when they end
(`ScreenOK`).

*Pipeline.* Assumed: queues of at least one, at least one serial and one worker
(`decodeWorkers` starts two or more). A region has no generation besides its serial number, and everything stale is kept
away by it: a session begins under the serial at its reset (`base`), a start takes
the next one, so while a region scans `base < serial`, and a frame of the current
serial is of this session (`Sound`). Stop increases the serial as well; it never
decreases. `done`, `doneOnce` and the phase change together because a completion stops
the region in the same critical section and a commit needs a scanning region.
`PipeInv` adds the goroutines and queues. Each verified transfer is reported, given
up, queued, or in the hand of a capture goroutine, a worker or the saver (`Settled`);
nobody sends once the queues are closed, and whoever has left for good left an empty
queue (`ClosingOK`); and a scan that begins has no goroutine yet, since their serials
are not above the region's (`Young`), so that no hand is emptied by a start. When
Close has waited for everybody no hand and no queue is left, which is `CloseSettles`.

`DeliveryInv` is what `Delivery` needs besides. A region verifies transfers in the order
of their sessions, each once (`InOrder`); a transfer is in one place at a time: one
hand, once in the queue, with the saver, or out (`InOnePlace`); and queues and contexts
are closed by Close only (`ByClose`). Every step of the pipeline is one of the six
`Moves` of a transfer, and each of these is a step of `Delivery` or a stutter. `DeliversOnce`
has no fairness; that every verified transfer is settled in the end is checked by TLC
(`Delivers` in `scan_liveness`).

Only model-checked: liveness and what rests on fairness or ENABLED (`scan_liveness`,
`frame_liveness`, `ResolveReturns`, `ServerSettles`, `CallEnds`, `ScanSettles`), since the
prover has no rules for them. Every invariant and every action property of the passing
runs is a theorem.

## 5. Findings

- `scan_preview`: a capture under way when Clear runs publishes its picture
  after Clear has dropped the preview (`scanner.go:617`); nothing drops it again.
- `session_switch`: a session that locked onto one protocol ignores the other
  (`decode.go:290`, `:451`), although comment and README promise a switch after 15
  frames of a new transfer.
- `prefetch_ends`: deleting a session cancels its prefetch but does not wait for it
  (`sender.go:921`), although `docs/sender-v2.0.3.md:24` says that cancelling and
  expiry do; only Close waits.
- `colour_finders`: the decoder that finds the matrix by its finders applies the map
  from pixels to modules to modules (`qr/color.go:379`), so it reads nothing that
  the direct decoder does not. The run ends with a full matrix three pixels into the
  picture, with a green module above the bottom-left finder: `LocateFinders` holds.

Observations that no run refutes. The bottom-left finder of a colour matrix begins in
the row below the last row of the payload, with no light module between them, and its
middle is found only if the module above it is green (`FinderSeen`). Behind a payload
of fewer than 1566 bytes that module is black padding, so for such a matrix
`locateFinders` returns nil (`qr/color.go:464`), and `colour_finders` needs the longer
of its two lengths. A colour matrix that begins some pixels off may be
read at a wrong scale, and then its header can be right by chance while its payload is
not (20 pixels to a module, 9 before it); the header's checksum covers the header alone.
`ColourReads` therefore promises a right payload only at the right scale; the checksum of
the frame inside tells the rest. And `rotateLocked` (`audit.go:284`) ignores a rename
that fails and then truncates the log, so the lines "right before the problem" are
lost; `AuditKept` promises them only while renames succeed. `record` of the sender
(`diagnostics.go:78`) is not protected against other senders: one that renames the
files under another costs lines, which is why `SenderLogKept` promises the newest
lines only without such a race, and bounds in any case.

## 6. Abstractions and what is left out

Pictures, payloads and names are model values; parsing either yields a frame or
nothing. Statistics, log notes, hints for the QR search and the settings flags are
left out. A transfer with no data completes in the code
without being handed to the saver (`len(data) > 0` in `completeRegionLocked`); the
model's transfers have data. `SaverWrite` reports success and failure alike: what
happens on disk is `FilePublication`'s. On shutdown `submitSave` gives a transfer up
although its comment says "block rather than drop": `Delivery` allows that from
Close on.

Not modelled:

- The browser's playback page (`index.html`): a timer, a frame number and a cache of
  pictures; its requests, cancellations and retries are the environment of
  `FrameRequests`. That a follower may get its leader's `context.Canceled`
  (`render_cache.go:104`) is in the model; nothing in the repository promises a
  follower more than an answer, and the page asks again.
- The erasure codes (RaptorQ, gofountain), gzip and hashes: third-party arithmetic.
- The search for finders, the measuring of colours, QR symbols: image processing.
  `ColourMatrix` assumes exact colours, and that nothing in a picture but a finder looks
  like one.
- The Android decoders, a port of the Go ones; the Android screens; tracking boxes
  and bitmaps; `FileSaver`'s use of the MediaStore (it saves or fails).
- Drawing, layout and Win32 calls of the desktop window, and the command-line
  tools, which keep no state of their own.

## 7. What is left

The compositions of `MCHost`, `MCReceivers` and `MCFormats` put parts side by side that
share no state, so there is nothing to prove of them beyond their parts. Still to be
stated as theorems are lemmas that the liveness runs show only by example: that the
measures behind `ResolveReturns` and `CloseReturns` (frames not yet solved, goroutines not
yet gone) decrease with every step. And `scan_preview`, `session_switch`, `prefetch_ends`
and `colour_finders` stay as they are until the code changes.
