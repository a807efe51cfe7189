# WarVK shadow resources: a verification project

WarVK is a fork of DXVK's Direct3D 9 layer that adds its own renderer to a closed game:
it captures the game's draws, freezes their geometry, and renders shadows, point lights
and post effects from the frozen copies. The upstream layer and the Vulkan back end are
taken as given. This project is about WarVK's own core: *who owns a piece of GPU memory or
a piece of work, until when, and under which epoch*, across the render thread, the
command-stream (CS) thread, the GPU, the workers and the game thread.

Paths below are relative to the repository. The C++ sources are under `src/d3d9/`, written
`d3d9/` here; `PROJECT.json` has the line of every definition.

## 1. Inventory

| Part | State | Operations | Who calls | What makes it correct |
|---|---|---|---|---|
| Snapshot slices, `war3/memory/war3_snapshot_slice.h` | lease slots (available, refs, owner, interval), hint, revision, negative cache | claim, hasSlot, findHole, incRef, decRef | render thread allocates; CS thread, completion thread and render thread release | an interval is re-used only when nobody refers to it; the page outlives its releasers |
| Snapshot page pool, `d3d9_device.cpp` 23745-24000 and the two page policies | page list, resident bytes, per-frame creation count, growth gate, heap | allocate, collect, reset | render thread | exact and capped accounting; never collect a page in use; fail only when no legal tail exists; no page of an old epoch |
| Adaptive budget, `war3_adaptive_memory_budget.h` | refusal of this frame | decide, canGrow, refuse | pool and arena | growth stays in the target |
| Shadow arena, `war3_shadow_arena.cpp` | generations of pages, cursor, retire serials, open bundle | init, begin/commit/rollback bundle, EndFrame, quarantine, BeginFrame | render thread, fence moved by CS and GPU | commands in flight never share bytes; every sealed generation comes back |
| Shadow session, `d3d9_device.cpp` (13357-13665, 17903-17990, 24120-24342, 33783-34025) | ready gate, map and device epochs (requested, applied), pending rebind, session, retired sessions, scene | unload, device reset, capture, insert, Present | any thread unloads; render thread does the rest; receiver on the CS thread | a frame never mixes epochs; a session outlives its uses; the gate neither opens early nor stays shut |
| Prepare worker, `war3_point_shadow_prepare_worker.h` | one request slot, one result slot, flags, two condition variables | submit, tryCollectExact, waitAndCollect, shutdown, worker loop | renderer threads | each request answered once, to its own generation, in order; no lost wake-up |
| Async screenshots, `war3_async_screenshot*.{h,cpp}`, `d3d9_swapchain.cpp` 1061-1116 | slots moved by compare-and-swap, copies, readbacks | request, burst, prepare, take, emit, reset, worker poll | game thread, Present, worker, GPU | pixels are read after their own copy; nothing recycled under a copy; every request settled once |
| Point-shadow receiver, `d3d9_war3_shadow.cpp` 3078-3152, 6202-7740, 7742-8767, 10580-11434 | plan, history, publication, cube image, one pending request with its seal | begin, collect, adopt, plan, ensure, record, hold, revoke, native fallback | CS thread, `std::async`, prepare worker | a cube that is sampled is whole and of this frame's lights and scene; a proposal is adopted only if it is the plan this frame would make; no request is orphaned |
| Frame evidence ring, `war3_frame_evidence_core.h`, `war3_frame_evidence.cpp` | state, writer count, tickets, cells, gate, trigger | arm, append, trigger, freeze, export, discard | every recording thread; one control command at a time | an export has every event that was accepted and not evicted, of its own session; nobody writes while the cells are read or freed; one session at a time |
| Frame history and recorder, `war3_frame_history.cpp`, `war3_frame_history_export_core.h` | image lifecycle, ring of readbacks, manifest, worker | arm, capture, trigger, freeze, export, discard, cancel, release | Present thread, control clients, recorder worker | a complete history is whole; a triggered one settles; Release returns |
| Shadow build lifecycle, `war3/shadow/war3_shadow_build_*.h` | build generation, work identity, progress | begin, publish, complete, cancel, reset | main-loop thread; readers anywhere | a replaced or reset build never publishes |
| Recorder trigger, `war3_frame_recorder_session.h` | armed and pending session | arm, request, consume | hotkey thread, recorder worker | a hotkey reaches only the recording it was pressed for |
| Frame sync owner, `war3_native_frame_sync_owner.h` | chain, thread, ready, fault | begin, complete, revoke, owns | every Present | at most one owner |
| Persistent GPU packages, `war3/gpu_skin/war3_persistent_gpu_package_*` | generations with upload and last-use proofs | register, publish, retire, reclaim | renderer (observe-only today) | nothing reclaimed before both fences pass |

How they meet: a draw is captured into the arena or, when it is to be cached, into a
snapshot page; the scene of captured casters is handed to the CS thread as a receiver run;
Present seals the arena's generation and signals the arena fence; a map unload or device
reset closes the producers, and the next Present moves everything captured so far into a
retired session that waits for the same fence. The receiver on the CS thread asks the
prepare worker for point-shadow plans, with generations made from its epochs. Screenshots
share nothing with shadows but Present and the fence type. The frame recorder uses the
screenshot service for its readbacks and runs beside the evidence ring, whose session it
records: Present captures and exports, hotkeys trigger it through a mailbox without a lock,
and in a self-contained build a worker arms both and signs what was exported.

What is hard to test here: the order in which unload, Present and the command stream meet;
releases on other threads in the middle of a page scan; failure half-way through
a bundle, a page creation or a rebind; a fence that lags by several frames; notifications
made outside a lock; a copy that completes after its time limit; a writer of the evidence
ring preempted between counting itself and looking at the state; a hotkey that answers for
a recording that has been armed anew; cube faces kept from earlier frames while policies,
light lists and epochs change. `PROJECT.json` lists these
as hazards, each at the line where it bites and with the properties that watch it.

Components of the repository that are not modelled (hooks into game code, mirrors of game
objects, GPU passes, tools, UI, shader packs, vendored code) are listed there too, each
with its reason.

## 2. Modules

| Module | Models | Actions correspond to |
|---|---|---|
| `SnapshotGeometry` | intervals of a page, tail test | operators |
| `SnapshotSlices` | one page and its lease table | every shared atomic access of findHole, claim and decRef is a step |
| `HoleCensus` | the sorted walk at the end of findHole, as a function of the spans seen; an `ASSUME` of `MCSnapshotSlices` ties it to `HolesIn`, what `SnapshotSlices` takes a scan to answer | operators |
| `AdaptiveBudget` | `DecideAdaptiveMemoryBudget` and the retry gate | operators |
| `Stage11Pages` | the pool: `War3AllocateStage11Snapshot`, collection, reset | one decision of the allocation; releases in between |
| `ShadowArena` | the arena and the Present calls around it | one arena call |
| `ShadowSession` | the gate, the epochs, Present's transaction, the receiver's epochs | one uninterruptible part of Present or of a producer; one command of the stream |
| `PrepareWorker` | mailbox and thread | one critical section or one notification |
| `PrepareMailbox` | what the worker promises its owner, without threads and locks | accept, finish, take, close, fault |
| `PointShadowReceiver` | the receiver's runs around one cube, over `PrepareMailbox` | one phase of a run; the async planner and the worker in between |
| `EvidenceSession` | what the evidence ring promises: sessions and their gate | arm, publish, request and its taking, trigger, freeze, cut, discard |
| `EvidenceRing` | the ring: writer count, tickets, cells, trigger claim, export, the hook before a freeze | one operation on the shared atomics |
| `FrameRecorder` | images, mailbox, commands, exports, worker, Release, over `EvidenceSession` | one critical section, split where a lock-free party can step in |
| `AsyncScreenshot` | slots, three threads, GPU, clock | one compare-and-swap or one call that cannot be interleaved observably |
| `*Proofs` | theorems about `SnapshotSlices`, `Stage11Pages`, `ShadowArena`, `ShadowSession`, `PrepareWorker`, `PointShadowReceiver` and `EvidenceRing`, one module each; `FrameRecorderProofs` is about `FrameRecorder` *and* `AsyncScreenshot`, and about what the one assumes of the other | |
| `MC*` | sets and symmetry for TLC | |

Definitions keep the code's names. A definition whose comment starts with `Mutant` is the
way a plausible bug would have written the definition below it; no specification uses it,
and each property of a run has one that TLC refutes.

### Refinement and composition

- `PrepareWorker` implements `PrepareMailbox` (`ImplementsMailbox`): the request slot, the
  worker's hands and the result slot are seen as one slot, `available` and `stopping` as one
  flag. The liveness of the mailbox is included: what is accepted is answered.
  `PointShadowReceiver` INSTANCEs the mailbox and takes its steps instead of the worker's, so
  what it shows holds with the worker of `PrepareWorker` behind it.
- `EvidenceRing` implements `EvidenceSession` (`ImplementsSession`); `FrameRecorder` INSTANCEs
  the session in the same way. The abstract `Cut` says openly what the ring does: a thread
  that saw the ring frozen may shut the gate late, when the next session is already published.
  So do `Request` and `TakeRequest`: the gate is read in one step and the request stored, or
  taken, in another, so either may come after the gate has shut or opened for another session.
- `SnapshotSlices` and `Stage11Pages` share `SnapshotGeometry`; `Stage11Pages` and
  `ShadowArena` share `AdaptiveBudget`.
- `FrameRecorder` and `AsyncScreenshot` meet in a readback, which the recorder hands over
  (`NextExportJob`) and the service answers (`ReadbackDone`). Both see of it only whether it is
  queued and whether it is done; `JobStep` is the contract between them, which one theorem
  proves of the service and another of the recorder. `FrameRecorderProofs` extends both
  modules, so the recorder's specification has names of its own (`RecorderSpec`, `RecorderNext`).

### Abstractions

- Sizes are counted in units of the 256-byte alignment; the rounding is the unit.
- `SnapshotSlices` has one page, because slots are never shared between pages;
  `Stage11Pages` has all pages but only the set of live intervals of each.
- `Stage11Pages` keeps a page's cursor, class, epoch and sharing. The budget report is any
  member of `Samples`; the bytes of some pages are the number of their granules (`Capacity`), a
  sum that can be reasoned about without recursion; creation may throw, come without storage,
  land on another heap or be rejected by the budget afterwards, and publishing may fail.
- `ShadowArena` lets the budget policy answer with any limit up to the fixed one. The fence
  moves at its own pace over the signals in the stream, in order.
- `ShadowSession` has the CS thread and the GPU as one queue, since the render thread sees
  only the fence. The request's two stores are one step: every reader tests both. Present's
  loads and its transaction are one step, because both run under
  `s_activePublicationMutex`, which the unload hook needs too. The capture mode
  (`DXVK_WAR3_SHADOW_ARENA_CAPTURE`) is chosen once, in `Init`.
- `PrepareWorker` merges frame serial and light generation, which the code only compares.
  Waiting and being notified are explicit; wake-ups may be spurious; the worker may fail
  before, during or after a job, and the constructor may fail to start it.
- `PointShadowReceiver` has one cube for the cubes of all lights, and a scene is what a face
  shows: a shape, which the content signature sees, and the pose of skinned casters, which it
  does not (they force a full update): scenes of one shape without skinned casters are one
  scene (`ShapeAssumption`; every buffer, range and matrix is hashed, 7389-7459). Hashes do not
  collide; a list of lights is named by
  who made it and its generation, and the two kinds of generation share one number space as
  in the code. There is one run per frame, as `ShadowSession` shows. The delay before
  resources are tried again is part of `RenderRefused`; the cap on face ages and the
  saturation of counters are out of reach of the bounds. In Observe mode a proposal is
  compared and dropped, which `ProposalIsCanonical` covers.
- `EvidenceRing` has events without contents; a cell keeps the sequence number and the session
  token of its writer. Of an export's header there are the two counters that its events must
  agree with, read one after the other. An export starts when its command does: the recorder's
  worker waits for the drained ring first (`FrozenForExport`), a client of the pipe does not, and
  both are there (`ControlExport`). A scope reads the gate again when it closes; the token it
  captured when it opened is what counts.
- `FrameRecorder` keeps of a readback that it is queued, done and well done, which is what
  `ServiceAnswersJobs` shows of the service; the slots of the screenshot service are always
  there unless the service has failed.
- `AsyncScreenshot` runs the loops of reset and release as one step: the slot moves of
  these loops commute with those of other threads. File encoding is one step that may fail.
  A readback has the size of the service, which `takeHistory` checks first, and a slot's fence
  value does not reach its maximum, so the mismatch at `war3_async_screenshot.cpp:441` cannot
  happen and has no step.

## 3. Runs

| Run | Module | Shows |
|---|---|---|
| `slices` | SnapshotSlices | `HoleIsRetired`, `NegativeCacheSound`, `PageOutlivesReleasers`, `DistinctUnlessStraddled`, `LeaseIsImmutable` under every interleaving of two releasers with the scan |
| `slices_overlap` | SnapshotSlices | finding 1: `DistinctRanges` is violated |
| `snapshot_pages` | Stage11Pages | `ResidentExact`, `ListedPagesLive`, `NoLegalTailOmitted`, `CreatedPageServes` |
| `arena` | ShadowArena | `InFlightDisjoint`, `CursorAtLastCommit`, `SealIsSignalled`, `GenerationsRetire` |
| `session` | ShadowSession | `ReceiverAgrees`, `SceneUnmixed`, `SessionOutlivesUse`, `RetiredSignalled`, `RebindResolves`, both capture modes |
| `session_stranded` | ShadowSession | finding 2: `RetiredSignalledInAnyMode` is violated |
| `worker` | PrepareWorker | `AnsweredOnce`, `ExactDelivery`, `ImplementsMailbox`, and that shutdown returns and a stop releases waiters |
| `receiver` | PointShadowReceiver | `CubeWhole`, `ProposalIsCanonical`, `PendingIsTheSlot` |
| `screenshot` | AsyncScreenshot | `ReadsCompleted`, `NothingRecycledUnderCopy`, `RequestsAccounted`, `SubmittedSettles` |
| `evidence_ring` | EvidenceRing | `StorageIsQuiet`, `ExportIsExact`, `FreezeEndsSession`, `NewestLapKept`, `ImplementsSession` |
| `recorder` | FrameRecorder | `CompleteIsWhole`, `RecordingSettles`, `ReleaseReturns`, both kinds of build |
| `recorder_hotkeys` | FrameRecorder | `HotkeyKept`: a press that was answered TRUE is not lost |

### Bounds, and why they are enough

- `slices`: two slots make a full table, a hole between live leases and a table with one
  free slot; sizes 1..3 in a page of 4 make exact fits, holes past the cursor and requests
  that fit nowhere; two releasers can be inside decRef of different slots or drop the last
  two references of one. `MaxRevision` 5 lets the page be filled and recycled twice.
- `snapshot_pages`: two pages of the regular size or one oversize page fill the cap of 4;
  one slot per page makes every second append unleased; two lifetimes and two heaps make
  borrowing and heap changes happen; three epoch steps include one of each kind.
- `arena`: two pages per generation and bundles of two parts cross a page; four generations
  include two spills; four serials let a generation be sealed, waited for and reused, and
  trimmed (window 2).
- `session`: three Presents, two unloads, two device resets and one overflow contain each
  transition inside each other one; four commands let the stream lag by more than a Present.
- `worker`: two callers are the smallest number at which shutdown meets shutdown and a
  waiter meets a collector; the generations of `MCGen` include an invalid one, two jobs of an
  epoch and a job of the next epoch. The theorems remove this bound.
- `receiver`: two faces are one drawn and one kept; two policies differ in period, face budget
  and resolution, so that each change makes a new image; a static scene and a dynamic one in
  two poses are told apart by the signature and not; three frames contain a reuse between two
  renders and a request that is answered one frame late; two author generations meet the
  frame serials of native lists; two epochs drop a worker in mid-request.
- `evidence_ring`: two producers and the control thread; four cells make a ring of three that
  laps and one behind the trigger; two sessions let a writer of the first meet the second.
  Three events of the first session and the terminal of its hook make a lap; in the second only
  a terminal and late writers record (`MCTickets`), and the game does not ask for what it has
  asked for already (`AsksAgain`). The theorems have none of these bounds.
- `recorder`: one slot before the trigger and two after it, so that the ring laps and the
  export has an order to keep. `recorder_hotkeys`: two keys and two evidence sessions, so that
  an old press meets a new arm.
- `screenshot`: two slots let one be reset while the other is encoded; two requests and a
  burst of two fill both.

Deadlock is checked in `snapshot_pages`, the arena, session and worker runs. It is not in
the slice runs (the bounded page has nothing left to do), in `receiver` (a pass that threw
is disabled for good), in `screenshot` (the service ends with its swapchain) and in the
evidence and recorder runs (sessions and images are bounded; Release ends them).

### Fairness

`ShadowArena` and `ShadowSession`: the fence and the stream advance, since the CS thread
drains its queue and a lost device is a fail-stop outside the model. `PrepareWorker`: processors
are finite, a thread inside a call goes on. `AsyncScreenshot`: the worker's waits are
bounded and the clock advances; neither the GPU nor Present owes anything, so
`SubmittedSettles` rests on the ten-second limit alone. `FrameRecorder`: the game keeps
presenting, and who asks for the owner's mutex or a screenshot slot that is free again and
again gets it (strong fairness: the holder changes); readbacks end, as `SubmittedSettles`
shows; the worker's waits are timed, except its wait for the game to be ready; Release, once
called, goes through. The slices, the pages, the
evidence ring and the receiver have safety properties only. Nobody is
ever obliged to make a call.

## 4. Findings

1. **Holes past the append cursor** (`slices_overlap`). The hole path grants holes up to the
   page's capacity and leaves the append cursor behind; a later, smaller request is appended
   inside the live hole. The policy header promises a "distinct, immutable logical range for
   every cache entry". Theorem `DistinctSafety` says this is the only way two live
   intervals can overlap.
2. **Stranded sessions without arena capture** (`session_stranded`). With arena capture
   off, Present collects retired sessions by the fence but never signals it; a
   session retired by a tombstone overflow stays until the next map or device transition.
   `RetiredSignalled`, which excepts this case, holds.

Noted on the way, without a run:

- When the heap headroom is exactly one page before a creation, the decision made after the
  creation rejects the page just made (`CreateRejected`). The arena's `ShadowArena_Reset` has
  no caller.
- Present tests for a pending map and then enqueues the receiver run; an unload in between is
  not seen. It is harmless: `ReceiverAgrees` holds, since the receiver still has that epoch.
- A worker thread of the screenshot service that dies leaves the readbacks of its submitted
  slots untold. If the service fails with jobs not yet taken, a frame-history export stays in
  `Exporting` until it is discarded or its swapchain goes; `RecordingSettles` names this case.
- Hotkey requests carry the evidence session and not the arm. A hotkey preempted before the
  images were armed again for the same session triggers the new recording, or is answered
  TRUE although the arm cleared its request, where `war3_frame_recorder_session.h:36` says a
  request is never taken by a later recording. `HotkeyKept` leaves these presses out
  (`stale`): two recordings within one evidence session are needed.
- `FrameHistory` compares the named session with one reading of the gate and binds another
  (`war3_frame_history.cpp:387-398`); when the evidence ends in between, the images are armed
  for session 0.
- A client of the pipe may export a session that is frozen while a writer is still inside
  `append`. The header is read first (`war3_frame_evidence.cpp:399`), the cells after it
  (`:407`), and only `visitFrozen` looks at the writers; when the last of them leaves in
  between, the file has one event more than its header accounts for, where
  `analyze_frame_evidence.py` and `test_palette_object_wire_roundtrip.py:826` demand `accepted ==
  evicted + exported`. No event is lost, and `ExportIsExact` says what does hold: the events are
  complete for every export, the header agrees for one that found the ring drained, as the
  recorder's does.
- A trigger request may be stored for a session that has ended and stay until the next one
  overwrites it. It triggers nothing: a writer takes only the request of its own token, and
  `Ring::trigger` compares the session again.
- A native light list takes the frame serial as its generation, in the number space of the
  light manager. The publication is safe from a coincidence only because the content signature
  names the lights one by one: with a signature by generation, TLC finds a cube sampled under
  the wrong lights (the mutant of `CubeWhole`).

## 5. Proofs

| Theorem | Statement | Rests on |
|---|---|---|
| `SlicesTypeCorrect`, `HoleSafety`, `PageSafety`, `InsideSafety`, `DistinctSafety`, `LeaseImmutability`, `NegativeCacheTrue` | safety in run `slices`, and that every lease is inside its page | `SlicesAssumption` (positive table, page and sizes) |
| `AccountingExact`, `NoPageCollectedInUse`, `FailsOnlyWithoutTail`, `PublishedPageServes` | all four properties of run `snapshot_pages`, two of them action properties, for any number of pages and leases | `PoolAssumption` (numbers are numbers, sizes positive) |
| `ArenaTypeCorrect`, `InFlightSafety`, `CursorSafety`, `SealSafety` | those of run `arena` | `ArenaAssumption` (positive sizes, no part larger than a page) |
| `WorkerTypeCorrect`, `MailboxSafety`, `DeliverySafety`, `StopSafety`, `DeliveryOrder` | the safety properties of run `worker` except the refinement; that a stop revokes what was not collected; that answers are delivered in the order of their generations | `WorkerAssumption` |
| `MailboxRefinement` | the worker implements `PrepareMailbox`: `ImplementsMailbox` without its fairness | `WorkerAssumption` (neither a generation nor an answer looks like an empty slot) |
| `QuietSafety`, `FreezeEnds`, `ExportSafety`, `LapOrder`, `SessionRefinement` | all five properties of run `evidence_ring`, without its bounds on sessions and tickets | `RingAssumption` (positive sizes, finitely many producers) |
| `ReceiverSafety`, `SceneSafety`, `OutlivesSafety`, `SignalledSafety`, `RebindSafety` | all five properties of run `session`, whatever its bounds | nothing |
| `PendingSafety`, `CubeSafety`, `PlannersAgree` | all three properties of run `receiver`, for any scenes, policies and number of faces, without its bounds | `ReceiverAssumption` (budgets between one face and all, positive periods), `EmptyAssumption` (an empty slot is neither request nor answer, an empty face no view); `CubeSafety` also `ShapeAssumption` |
| `HistorySafety`, `RingInvariance` | the safety property of run `recorder`, for any size of the ring and without its bounds on sessions and images | `RecorderAssumption` (positive sizes before and after the trigger) |
| `HotkeySafety`, `MailboxInvariance` | the property of run `recorder_hotkeys`, for any number of hotkeys and sessions | nothing |
| `ReadsOwnCompletedCopy`, `CopiesKeepTheirSlots`, `RequestsSettledOnce` | the safety properties of run `screenshot`, for any number of slots, bursts and requests | `ScreenshotAssumption` (positive sizes, no readback looks like none) |
| `ServiceAnswersJobs`, `RecorderJobsAreReadbacks` | the contract `JobStep` between the screenshot service and the recorder, on either side | those of the two modules |

The arguments:

- *Slices.* That a granted hole is free when it is claimed cannot be seen from the
  grant: the scan read its slots at different moments. The invariant `CensusCovers` says that
  every slot already read that is *still* taken is among the spans seen; releases only
  shrink that set, and only the scanning thread claims. `CountsAgree` ties a slot's
  availability to its count through the three steps of decRef, `ReleaserHoldsPage` keeps the
  page alive, and `BelowCursor` is the accounting of the cursor that holds until a hole
  straddles it.
- *Slices, negative cache.* A slot that is available again but whose release has not bumped
  the revision yet still counts as `Standing`. Within one revision this set only grows, so the
  intervals a scan saw are among it (`CacheInv`), and fewer spans never mean fewer holes
  (`HolesAntitone`): a request the cache refuses has no hole between what stands.
- *Pages.* `AccountingExact` needs sums over a changing set of pages without induction: the
  bytes are the cardinality of a set of granules, and the library's facts on cardinalities of
  differences and unions give what a creation adds and a collection takes (`CapacityGains`,
  `CapacityDrops`). `LeasesPast` says no lease is of an epoch to come, and none of this one
  while the gate is closed, which makes a reset harmless. `Growing`, `Published` and `Claiming`
  carry what the plan found through the decisions after it: releases in between only make pages
  freer, so a request that reached a creation still has no page of its class, the one published
  page is the one the next plan finds, and the chosen tail is there at the commit.
- *Arena.* A rewind is decided by comparing serials. `RangesHeld` says why that is safe: a
  range in flight is in a generation sealed with its frame or later, or in the open one.
  `CursorDivides` orders committed ranges, the open bundle and free space along the cursor;
  `SignalsOrdered` makes the fence monotone; `OwnerState` says that the open generation is
  open for the frame being recorded, which the mid-frame BeginFrame could have broken.
  `CommitKnown` remembers, while a bundle is open, where the last committed part ended and that
  the bundle began there, over however many pages it has crossed; a rewind then lands on it.
- *Worker.* `Linked` ties the running flag, the worker's position and the job in its hands;
  `Ordered` says that the last submission dominates all others, which makes the delivery
  order strict; `ResultExact` ties a payload to its state.
- *Mailbox.* Request, job in hand and result exclude each other (`AnsweredOnce`), so that what
  the mailbox shows is decided by any one of them (`Seen`). `OpenUntilStop` makes the two flags
  one: without it a worker that is gone could look open.
- *Session, epochs.* `Bindings`: the requested device epoch is the bound one, and a pending
  rebind is behind it or still to come; so an open gate means that the epochs a producer stamps
  are those of the last transition (`Ruling`). These govern the end of the stream (`Flow`),
  because a transition that bumps them emits the invalidation in the same step, and every run
  is emitted at the end.
- *Session, buffers.* `Kept`: in front of every command, neither the fence nor a queued signal
  has reached the serial that its session waits for, or would wait for if it were retired now.
  `Ordered` supplies this for a new command: queued signals are sorted and no larger than the
  frame under way, whose own signal is not out while producers run. `Signals` follows the frame's
  signal from the transition or `ShadowArenaBeginFrame` to the end of Present.
- *Evidence ring, quiet.* `Counted`: the writer count is the number of threads inside append
  or trigger *plus* the number of frames that the hook of a freeze interrupted there, because a
  terminal recorded by the hook counts its thread a second time. `HookLock` and `Nested` make
  sure there is only one such frame below another. A drained ring then has nobody inside
  (`Drained`), and `Quiet` is kept because a frozen or idle ring lets nobody in.
- *Evidence ring, session.* `Tokens` bounds every captured token by the published session,
  and `Late` is the price of the missing lock: a writer that saw a session frozen may shut the
  gate of a later one, never of the first. The same bound holds for the session the game has read
  and not stored yet. Every step has one of few effects on the session
  (`Effect`, `Between`), and each effect is a step of `EvidenceSession` or a stutter.
- *Evidence ring, freeze.* Who froze the ring is on a way that ends at the store of 0
  (`Carries`); the one exit without it, a trigger that did not freeze, is excluded by `Shape`.
- *Evidence ring, export.* `Balance`: evicted events and occupied cells are the accepted events
  and those a writer is about to count. When the cells are read nobody is about to, whoever was
  when the header was read. `Headed` is about the exports that found the ring drained: nobody
  entered since, so their header is still true.
- *Receiver.* `PendingIsTheSlot` is inductive once generations and slots have their types
  (`Typed`, which has to carry the run's input, because the next generation is made from it).
  Every step of a run but four leaves the worker alone (`RunStep`); the request enters the
  slot and the owner's hands in one step, leaves both in one step, and an epoch drops both.
- *Receiver, cube.* `CubeWhole` speaks of the end of a run; the invariant `CubeInv` follows the
  plan to it. `Whole`: a publication that is ready names an image of its resolution with all
  faces, of one scene of its shape, under the lights of its signature. This is false between a
  plan and the recording, where a forced plan has emptied the faces and loaded new matrices, so
  in this window (`PlanOpen`) `Fits` says what the plan owes instead: it draws every face, or it
  draws some over a whole cube of this very signature without skinned casters. `Timing`: only
  after its recording does a run have a publication of its own frame; this is why a pass that
  throws between planning and recording shows nothing, although the history is still ready. A
  policy that never keeps a face has all of them as its budget and draws them all
  (`OldestAll`), which is why its signature may leave the shape out. `PlannersAgree` compares
  two functions on one frozen input.
- *Screenshots.* `ReadingHeld`: what the worker is saving is Submitted with its own copy
  completed, since nobody but the worker moves a Submitted slot on; `PreparingHeld` is the same
  for Present between preparation and emission. `Balance` counts the slots that hold a request;
  each transfer moves one slot into this set or out of it together with its counter.

- *Recorder, mailbox.* There is no lock between a hotkey and Present, only the order of the
  sessions. `Sessions`: neither the mailbox nor a preempted hotkey names a session later than
  the gate's, nor, while images are recorded, later than theirs; so a swap by an old hotkey
  never overwrites a request of the armed session, because `request` only replaces a smaller
  one. `BoxBound`: the mailbox is open only for the session of armed images, and shut before
  those leave `Armed`. `OldRequests` is the cost of clearing it while it is shut: whoever
  already names the session that is about to open read it before this arm, and is `stale`.
  `Answers` then is the promise itself at the moment before the answer is read.
- *Recorder, ring.* `Before` and `After` say where each image is by its distance from the
  trigger, not by its position: the image `j` places back is in slot `(head - j) mod Pre`.
  `HeadMoves` is the arithmetic: when the head moves on, every distance grows by one and only
  the slot of distance `Pre` is written over, so a lap loses the oldest image and no other.
  `GatherOrders` says that the order made at the freeze lists these slots oldest first, and
  `Consecutive` keeps that until the ring is emptied.
- *Recorder, export.* `Complete` is decided by counting: as many jobs done as there are, and none
  failed. `RingComplete` turns the count into "each of them" by the cardinality of the jobs
  done. It cannot become false later, since a job that is done is neither queued nor answered
  again.
- *Recorder and service.* `Handed`: a slot that will answer for a readback was queued for it. With
  `RequestsSettledOnce` this leaves the service three kinds of step on one readback (handed
  over, found unprepared, answered), and each job of an export takes no others. This covers
  the steps, not their end: that every readback is answered is `SubmittedSettles`, which
  TLC checks.

`StopSafety` has one exception, in the code as in the property: after the worker thread
itself failed, the answer in the slot stays collectable.

Every safety property that a passing run checks is also a theorem. Only model-checked: all
liveness (`GenerationsRetire`, the returns of the worker's and the recorder's
callers, `RecordingSettles`, `SubmittedSettles`) and the fairness part of the mailbox
refinement, because the prover reasons neither about fairness nor about ENABLED.

## 6. Not modelled, and what would come next

Most of the repository is not a subject for these tools: vendored Vulkan, DXVK, JSON and
ImGui sources, shaders, offline scripts, research notes, and in WarVK itself the recording of
GPU passes, floating-point geometry, classification of draws by reading the memory of a
closed game, marshalling, files and user interface. `PROJECT.json` names each part with its
reason. Of the parts modelled:

- *Arena, session, screenshots, evidence, receiver* are `partly`: statistics, byte layout,
  file encoding, caster culling, the directional shadows of the receiver and the object
  recorder's chains are not there.
- *Recorder*: the files themselves and their hashes.

With state and concurrency of their own, and not modelled yet:

1. `ShadowBuild` (generation guard of a build, late progress of a replaced one) and
   `FrameSyncOwner` (two exchanges that claim a chain and a thread): small, lock-free, every
   access a step, fully provable. Their hazards are listed without a property.
2. `DrawTimeCache`: capture attempts, aliases and the active ledger over `Stage11Pages`.
3. `PackageLedger`: retirement of persistent GPU packages, observe-only in the renderer today.

New runs replace or absorb weaker ones: a run is kept for a question, not for a module.
