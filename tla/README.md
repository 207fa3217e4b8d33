# TLA+ models of drivers_peripheral

This directory holds TLA+ models of the concurrent and failure-prone parts of the
peripheral HDI drivers, checked with TLC. Almost all of the behaviour that is
hard to test lives in the USB host service
(`src/usb/hdi_service/src/usb_impl.cpp`). That is where the project starts.

## 1. Inventory

### USB host service (`UsbImpl`, usb_impl.cpp)

**State.**
- `devList_` is a map from (bus, address) to `HostDevice*`, under `lock_`.
- Each `HostDevice` keeps:
  - the sync request list `reqSyncList` under `reqSyncLock`;
  - the async request pool `reqASyncList` under `reqASyncLock`, whose entries have
    `status` 0 (free) or 1 (in use), a `UsbIfRequest` and its semaphore, and
    `compInfo.status`, which is -1 while the transfer is pending;
  - the completion FIFO `requestQueue` under `requestLock`;
  - the bulk-async list `bulkASyncList`;
  - the flag `initFlag` and the mutexes `readLock` and `writeLock`.

**Operations.**
- Device lifecycle:
  - `OpenDevice` and `CloseDevice`;
  - `SetConfig` and `ReOpenDevice`;
  - `ClaimInterface`, `ReleaseInterface` and `SetInterface`.
- Descriptor queries.
- Sync transfers: `BulkTransferRead`/`Write`, `InterruptTransferRead`/`Write`,
  `IsoTransferRead`/`Write` and `ControlTransferRead`/`Write`.
- Async requests: `RequestQueue`, `RequestWait` and `RequestCancel`.
- Bulk-async streaming: `RegBulkCallback`, `BulkRead`, `BulkWrite` and `BulkCancel`.
- Hot-plug: `UsbdPnpLoaderEventReceived`, `UsbdEventHandle`, `BindUsbSubscriber`.

**Interactions.**
- Every API call runs on an IPC thread of its own and finds its `HostDevice`
  through `FindDevFromService`.
- Completions arrive from the host controller. They post the request's
  semaphore, or run the bulk callback.
- Hot-plug events arrive on the PnP listener thread and add or free devices.

### Codec component node (`src/codec/hal/passthrough/adapter/src/component_node.cpp`)
- **State:** `state_` (the OMX state), the codec engine handle, the buffer map,
  `bufferId_` and `omxCallback_`.
- **Operations:**
  - `SendCommand(StateSet)`, which calls `ChangeComponentState`, which calls
    `CodecStart` or `CodecStop` and then `SetState`;
  - `SetCallbacks`, `UseBuffer`, `AllocateBuffer`, `FreeBuffer` and
    `Empty/FillThisBuffer`.
- **Interactions:** the engine calls back into `OnEvent` and into the buffer
  callbacks.

### Audio vendor manager (`src/audio/hdi_service/primary_impl/vendor_src/audio_manager_vendor.c`)
- **State:** the vendor library handle, the HWI manager function table, and the
  adapter descriptors with their loaded adapters.
- **Operations:** `GetAllAdapters`, `LoadAdapter`, `UnloadAdapter` and
  `ReleaseAudioManagerVendorObject`.

### Thin adapters
These are the display mapper, vibrator, intelligent-voice trigger, face-auth
service and driver. Each checks a pointer and forwards the call. They keep no
shared state and impose no ordering. The camera UVC node forwards Start, Stop
and Flush to the sensor controller and SourceNode. It keeps only the
controller pointer and a metadata snapshot (see Not modelled).

### Hard behaviours
- Threads race on the async pool and the completion queue.
- Completions come late, after a cancel or a timeout.
- Allocation and submit fail part-way through a call.
- The write cursor is 16 bits wide.
- A read loop has no time bound.
- Hot-plug frees a device while calls still use it.
- Configuration changes tear down pools in use.
- The codec engine is started before the state check that may reject the change.

### Properties that make them correct

**Async pool and queue**
- An entry has at most one owner.
- The queue returns requests oldest first.
- No pipe holds more than `MAX_REQUESTASYNC_NUM` entries.
- No entry is left in use with no owner.
- A wait returns only after its own transfer completed.

**Sync transfers**
- A write sends exactly its bytes, in `ceil(len/MPS)` chunks.
- A read stays inside its buffer.
- A read reports success exactly when it returned data.
- A read with a timeout returns.

**Registry**
- No call uses a freed device.
- No transfer is submitted on a closed device.

**Codec**
- The engine runs exactly when the state is Executing.
- The state moves only along the OMX transition table.

**Audio**
- No adapter call goes into an unloaded library.

## 2. Modules

### `UsbAsyncQueue` (+ `MC_UsbAsyncQueue`)
This module models `RequestQueue`, `RequestWait` and `RequestCancel` of any
number of threads (`Clients`) on one device, together with the host controller.

**State.** The pool is the sequence `reqList` of entries, each with its pipe
(`pipeOf`) and `status`. For each entry the module also keeps:
- `compPending` (`compInfo.status == -1`);
- the semaphore count `sem`;
- `inflight`, the submissions not yet completed, by call number;
- `subOf`, the call that last submitted it.

`requestQueue` is a sequence of entries. Each thread has a `pc` and the entry `ent` it holds.

**Actions.** Each action is one step between two points where another thread can
interleave:

| Action | Code it models |
|---|---|
| `RqFind` | the locked scan in `UsbdFindRequestASync`, up to the unlock at line 493 |
| `RqCreate` | creation of a new entry when the pool is under its cap |
| `RqMark` | `status = 1` |
| `RqAlloc` | the two `OsalMemAlloc` of `RequestQueue` |
| `RqSubmit` | `FunRequestQueueFillAndSubmit` |
| `RqEnqueue` | the `requestQueue` append |
| `RwPop` | the start of `RequestWait`: `GetRequestMsgFromQueue` (its own definition, also used by `RcStep`) and the check of `compInfo.status` |
| `RwWaitWake` / `RwWaitTimeout` | the semaphore wait and its front requeue |
| `RwData` | `GetRequestMsgData`, which sets `status = 0` |
| `RwCopy` | the end of `RequestWait`: the copy, then `UsbdRequestASyncReleaseData` (its own definition, also used by `RcStep`) |
| `RcStart` / `RcStep` | `RequestCancel` draining the queue |
| `HcComplete` | the controller finishing one in-flight submission of an entry |

### `UsbSyncTransfer` (+ `MC_UsbSyncTransfer`)
This module models one thread calling any of the eight sync APIs: bulk,
interrupt, iso and control, each as read and write. Each API is an action
(`BulkTransferRead`, ..., `ControlTransferWrite`), and all of them enter
through `Call`.

**Steps.**
- `FindRequestSync` is `UsbdFindRequestSyncAndCreat`.
- `CheckPipe` is the direction and type check of the wrapper.
- The read loop of `UsbdBulkReadSyncBase` has two steps. `ReadSubmit` fills the
  request and `ReadComplete` gives the device's answer: a full, short or empty
  packet, a timeout, or an error. `ReadEnd` exits the loop.
- `WriteChunk` and `WriteEnd` are the write loop of `UsbdBulkWriteSyncBase`.
  The cursor `tcur` is kept modulo 2^16 (`U16`), as the `uint16_t` in the code.
  `MaxChunks` bounds the chunks of one call. It is 1024 in `sync_transfers`,
  exactly what a 65535-byte write needs, so it never binds a correct write.
  The long-write run uses 1100, past the 1025th chunk where the wrapped cursor
  resends.
- Only a pipe read keeps the caller's timeout (`budget`). A write's or a
  control call's timeout bounds each submit, and a submit that times out is
  already one of the submit's free failures.
- `WrapperResult` is the wrapper's result conversion: any data read makes the
  call succeed.
- The control path has three steps:
  - `ControlCheckDir` is the direction-bit check and the allocation of the read
    buffer;
  - `UsbControlTransferEx` allocates the device's `ctrlReq` on first use, then
    runs setup, fill and submit, and for a read clamps the size to the
    device's `actualLength` (`CtrlSize`);
  - `ControlReturn` is the wrapper's `data.assign`.
- `READ_BUF_SIZE` and `MAX_CONTROL_BUFF_SIZE` are defined in headers outside
  the repository. The runs use 256 and 1024. The properties need only that a
  short packet is smaller than either.
- The device's answers are free choices (`\E`). Fairness is weak fairness on the
  thread's own steps (`WF_vars(Step)`) and never on the device. The code runs the
  thread's steps without waiting on anyone except the device, so WF is what its
  scheduling guarantees. A device may send zero-length packets forever.

### `UsbRequestFifo` (abstract)
This module states what the completion queue promises. A submitted
`RequestQueue` call joins the tail (`Put`). Only the head leaves (`Take`), either
to `RequestWait` or to `RequestCancel`. `UsbAsyncQueue` refines it
(`FifoRefinement`). The refinement mapping maps the queue to a sequence of call
numbers, with the entries that waiting threads have popped but not yet taken put
in front. A wait that times out and requeues at the front is therefore a
stutter, and so is a completion. With two waiters that both time out, the
front requeue puts the older request behind the newer. Spec line 76 accepts
that ("as closely as possible"), so no run checks the order with two waiters.

### `UsbHostDevice`
This module models the registry and the calls that borrow a `HostDevice` from
it, on any number of IPC threads (`Threads`) plus the PnP thread.

**Memory.** A `HostDevice` allocation is a number. `alive` holds the
allocations not yet freed, and `devList` holds the allocations in `devList_`.

**Actions.**

| Action | Code it models |
|---|---|
| `FindDevFromService` | the locked scan; the pointer is kept in `port` after the unlock |
| `UsbdPnpLoaderEventReceived` | the listener's dispatch, only while the listener is registered (`listening`); gadget events only notify the subscriber |
| `UsbdEventHandle`, `UsbdEventHandleRelease` | register the PnP listener (bind and register may fail; a second call leaves the first registration) and unregister it |
| `UsbdReleaseDevices` | `~UsbImpl`: every device of `devList_` is released and freed, and the service takes no more calls (`destroyed`). It runs only with no IPC call in progress, as the IPC stub holds a reference to the service while a call is running. The model also takes the driver to have released the listener first, which the destructor does not do itself (a hazard in PROJECT.json). |
| `PnpAdd`, `PnpRemove`, `HubRemove` | the add, remove and hub branches of `UsbdPnpNotifyAddAndRemoveDevice`; `UsbdDeviceCreateAndAttach` and `UsbdDeviceDettach` are in the host library and follow the spec |
| `BindUsbdSubscriber`, `HdfReadDevice` | the start-up scan `UsbdAddDevicesOnStart`: a snapshot of the plugged devices (`scan`), then one attach per device. A device unplugged meanwhile fails to open. |
| `OpenDevice`, `CloseDevice` | set `initFlag` |
| `GetConfig` | one control transfer |
| `SetConfigGetOld`, `SetConfigSet`, `SetConfigVerify` | the three control transfers of `SetConfig`, with their early returns |
| `ReOpenRelease`, `ReOpenInit` | `ReOpenDevice`; a failed `UsbdInit` removes and frees the device |
| `ClaimInterface` | opens `iface[0]` and `devHandle[0]` |
| `ReleaseInterface` | only checks the interface id: the interface stays claimed |
| `SetInterface` | releases every request list after a successful `UsbSelectInterfaceSetting` |
| `TransferFindRequest`, `TransferIo` | a sync transfer: `UsbdFindRequestSyncAndCreat`, then the transfer on the request it found |
| `GetDeviceDescriptor`, ..., `GetFileDescriptor` (`Query`) | one use of the borrowed device: a control transfer, or a read of its `ctrDevHandle` |

**Duplicate attach.** Neither the scan nor a PnP add checks whether the address
already has a `HostDevice`. A PnP add followed by the scan leaves two in
`devList_`; TLC reaches this in three steps. The spec's `Detach` removes the
device of the address, and the model removes every one. So the duplicate is
listed as a hazard, not checked: its effect depends on host-library code that
is not in the repository.

**Request lists.** The request lists are abstracted to a generation counter
`poolGen`. Each release bumps it. A transfer's request is dangling once the
counter has moved past the value the transfer recorded in `gen`.

### `UsbBulkAsync`
This module models the bulk-async list of one pipe.

**State.**
- the ring of `NodeCount` nodes, as `use` and `pending` (submitted, not yet
  completed);
- the `cancelled` requests;
- the mapped buffer, the callback, and `BulkCancel`'s saved `tcb`.

**Actions.**
- `BulkRead` and `BulkWrite` are one action, `BulkTransfer`. It covers:
  - the list init;
  - `InitAsmBufferHandle`, which unmaps, returns an error for a negative ashmem
    fd or size, and otherwise maps. A failed mmap returns `MAP_FAILED`, which
    the `nullptr` test (line 685) does not catch, so it is not a failure path;
  - the priming loop, which submits any subset of the free nodes.
- `BulkCancelStart`, `CancelNode` (the first loop, with its early return),
  `ForceReset` (the sleep and the second loop) and `BulkCancelRestore` are the
  steps of `BulkCancel`.
- `BulkCompletion` is the host library's completion path, modelled from the
  spec. It resubmits while a callback is set and the request was not cancelled.

**Timing assumption.** The model lets the sleep end only after every cancelled
request has completed. This is the grace period the code relies on.

### `CodecComponentNode` and `OmxComponent` (abstract)
`CodecComponentNode` models the passthrough codec adapter's `ComponentNode`,
with one client thread and the engine thread.

**State.**
- `state_`;
- whether the engine runs (`running`);
- the callback registration;
- `bufferId_`;
- the buffers queued to the engine, per port;
- the ports being flushed;
- the state changes reported to the client (`reported`);
- a bounded count of other notifications.

**Client actions.** `SetCallbacks`, `SendCommand` (which dispatches to
`ChangeComponentState` or `FlushComponent`), `UseBuffer`/`AllocateBuffer`, and
`EmptyThisBuffer`/`FillThisBuffer`. `GetParameter`, `SetParameter`,
`GetState`, `FreeBuffer` and `NotSupported` (`GetConfig`, `SetConfig`,
`GetExtensionIndex`) are steps that change nothing the node keeps. The
parameters live in the vendor engine. `FreeBuffer` returns `NOT_SUPPORT`, so
ids are never taken back.

**Engine actions.** `OnEmptyBufferDone`/`OnFillBufferDone` (the
buffer-available callbacks, through `BufferDone`), `FlushDone` and `OnEvent`.

**Engine results.** The vendor engine's results (`CodecStart`, `CodecStop`,
`CodecQueueInput`, ...) are free choices.

**Refinement.** `OmxComponent` is the OMX IL state diagram as the client sees
it. A state command moves along one edge and is reported once.
`CodecComponentNode` refines it (`OmxRefinement`), with `OMX_StateMax` mapped to
`Created`.

### `AudioManagerVendor`
This module models `audio_manager_vendor.c`, one call at a time.

**State.**
- the manager `priv` (`mgr`: none, live or freed);
- whether `priv->handle` holds the open vendor library (`libOpen`);
- `priv->descs` and `priv->descsCount`;
- each descriptor slot's `adapterName` (`name`: none, live or freed);
- the adapter table of `audio_adapter_vendor.c`, which is not in the
  repository (`loaded`, one flag per index);
- `misuse`, a history variable that records each read or free of a freed
  name and each call into the closed library.

Port arrays are not tracked separately: they are freed with their name, and
`AudioManagerReleasePort` nulls the pointer, so they never dangle. The caller
passes the same descriptor array to every `GetAllAdapters` and keeps it. That
is the case most favourable to the code.

**Actions.**

| Action | Code it models |
|---|---|
| `AudioManagerCreateIfInstance` | `AudioManagerCreateIfInstance` with `AudioManagerLoadVendorLib`. A failure changes nothing tracked. |
| `AudioManagerVendorGetAllAdapters` | the release of the old descriptors, then one of three outcomes: vendor failure, conversion of `m` descriptors failing at slot `f` (with `m = 0` counted as a failure), or success |
| `AudioManagerVendorLoadAdapter(i)` | lookup by pointer, the vendor `LoadAdapter`, and `AudioHwiCreateAdapter` |
| `AudioManagerVendorUnloadAdapter(j)` / `UnloadSlot` | the `strcmp` lookup, then the vendor `UnloadAdapter` and `AudioHwiReleaseAdapter` |
| `ReleaseAudioManagerVendorObject` | `dlclose`, the unload loop, `AudioManagerReleaseDescs`, and the free of `priv` |

### How they compose
- `UsbHostDevice` stands in front of the per-device modules:
  - `UsbAsyncQueue`, `UsbSyncTransfer` and `UsbBulkAsync` each model the
    structures of one live `HostDevice`;
  - `UsbHostDevice` models how a call gets at that device, and how the device
    and its lists are freed under it.
- The per-device modules are not instantiated inside `UsbHostDevice`. The
  product of their state spaces is out of TLC's reach.
- The property `UsbHostDevice` checks does not depend on what the lists hold:
  it is only about whether they are still allocated.

## 3. Runs

| Run | Result | What it shows |
|---|---|---|
| `async_single` (`UsbAsyncQueue_single.cfg`) | passes, about 960K states in about 1 min | One thread, 2 pipes, `MAX_REQUESTASYNC_NUM` 2, 4 calls. Every failure path fires. Each entry keeps one owner. The pipe cap is not checked: with one thread the guard at line 503 keeps it by construction, and the two-thread case that breaks it has no run. The queue refines `UsbRequestFifo`. |
| `async_status_race` | violates `SingleOwner` | `RequestWait` sets `status = 0` (line 607) before it reads the entry. Another thread's `RequestQueue` takes the entry, and the waiter then frees that thread's data. |
| `async_alloc_failure` | violates `NoOrphanInUse` | An allocation failure (line 1568) leaves the entry in use forever. |
| `async_cancel_reuse` | violates `WaitAfterOwnCompletion` | `RequestCancel` frees an entry whose transfer is in flight (line 1654). Reuse plus a late completion wakes the new waiter early. |
| `sync_transfers` | passes, about 177K states in 30 s | All eight sync APIs on a bulk-in, a bulk-out and an interrupt-in pipe, MPS 64, writes of 1, 300, 512 and 65535 bytes. Chunking is exact, reads stay in bounds, and the result agrees with the data returned. A successful control read returns exactly the bytes the device transferred (`ControlReadLength`, spec line 52). Every pipe write below 64 KiB returns (`WriteReturns`, under the thread's weak fairness). |
| `sync_long_write` | violates `WriteNeverResends` | A write of 65536 bytes wraps `tcur` (line 440) and resends. |
| `sync_read_hang` | violates `ReadReturns` | Endless zero-length packets keep a read with a timeout from returning (line 403). |
| `codec_state_machine` | passes, about 33K states | Every client call and engine callback, 2 buffer ids, up to 5 state changes. A node in Executing has a started engine, and the node refines the OMX IL state diagram. |
| `codec_engine_state` | violates `RunningOnlyWhenExecuting` | `CodecStart` runs (line 598) before `SetState` rejects a move to Executing (line 600); TLC's trace starts from Invalid. Executing→Idle never calls `CodecStop` (lines 592-594) either, which breaks the same property in the code but is not the trace TLC reports. |
| `usb_device_lifetime` | violates `NoDanglingUse` | A hot-unplug frees the `HostDevice` that an IPC call got from `FindDevFromService` (line 79). Deadlock is not checked, because the service really stops after `~UsbImpl`. |
| `audio_vendor_release` | violates `NoUseAfterRelease` | A repeated `GetAllAdapters` whose conversion fails frees a name a second time (line 165). Alone, a release with an adapter loaded calls the vendor `UnloadAdapter` after `dlclose` (line 273). |
| `bulk_cancel_reset` | violates `RingResetOnReturn` | One failed `UsbCancelRequest` (line 788) makes `BulkCancel` return success with requests in flight and the callback restored. |

**`NoDanglingUse` without hot-unplug.** The same property also fails when the PnP
remove actions are taken out. `SetInterface` releases the sync list (line 1294)
under another thread's transfer. The shortest trace TLC reports is the unplug
one.

**Both halves of `NoUseAfterRelease`.** Each half fails on its own, in four
calls. Checked separately, the double free takes Create, GetAllAdapters and a
failed GetAllAdapters. The closed-library call takes Create, GetAllAdapters,
LoadAdapter and Release.

**`RingResetOnReturn` when every cancel succeeds.** The property holds when every
`UsbCancelRequest` succeeds. The forced reset then leaves the ring clean. That
makes the early return the whole cause.

**Bounds.**
- Two entries per pipe, two pipes and four calls are enough for the single
  thread to reach:
  - a full pool (the `DEVICE_BUSY` path);
  - reuse of a freed entry;
  - a late completion after a cancel;
  - a timeout requeue with another request queued behind it.
- The violating runs use the smallest setup that shows each trace, 2 or 3 calls.
- The write lengths are chosen to hit each case: one short chunk (1), several
  chunks with a remainder (300), exact multiples (512), and the largest length
  that does not wrap (65535). `WriteSendsExactly` then covers both chunk-size
  branches.
- The codec run uses 2 buffer ids (one per port, or two on one port), 5 reported
  state changes and 2 other notices. That reaches:
  - a flush with a buffer still queued;
  - every `SetState` edge from Loaded to Pause and back;
  - Invalid from several states.
- `UsbHostDevice` uses 2 threads, one address, 2 allocations (a re-plug) and 2
  list releases per device.
- `AudioManagerVendor` uses a caller array of 2 slots. A second
  `GetAllAdapters` can then return fewer descriptors than the first, and a
  conversion can fail after one slot was filled.
- `UsbBulkAsync` uses a ring of 2 nodes. One node can be cancelled while the
  other is still in flight.

**Fairness.**
- `UsbSyncTransfer` assumes weak fairness of the calling thread's own steps and
  none on the device. `WriteReturns` and `ReadReturns` are checked under it.
  Writes below 64 KiB return, whatever the device answers. Reads can hang.
- The other modules state only safety properties and refinements, which need no
  fairness.

**Mutants.** Each property of a passing run is broken by a mutant of the code it
guards:
- a wait that ignores the semaphore;
- a scan that takes in-use entries;
- a tail requeue, which breaks `FifoRefinement`;
- a retry that never gives up;
- swapped chunk-size branches;
- a loose read-room check;
- a wrapper that ignores the data read;
- a control read that does not clamp its size to `actualLength`;
- a write cursor declared `uint8_t`, which wraps and never reaches the length
  (`WriteReturns`);
- a `SetState` that accepts every target;
- a `ChangeComponentState` that reaches `SetState` after a failed `CodecStart`;
- a transition table that lets Executing go to Loaded, which breaks
  `OmxRefinement`.

## 4. Plan

**Done.**
- `UsbAsyncQueue` with the abstract `UsbRequestFifo`.
- `UsbSyncTransfer`.
- `UsbHostDevice`.
- `UsbBulkAsync`.
- `AudioManagerVendor`.
- `CodecComponentNode` with the abstract `OmxComponent`.
- The remaining operations:
  - the USB listener registration, the destructor and `ReleaseInterface`;
  - the codec parameter, state and unsupported calls;
  - `RequestWait`'s entry and exit as their own steps.
- `WriteReturns`, a liveness property of the write loop.

**Next.**
1. Two threads creating the same sync request (line 324), in `UsbHostDevice`,
   with `TransferFindRequest` split at the unlock.
2. A run for the duplicate attach, once the host library's `UsbdDeviceDettach`
   is available to model from its source.
3. The control request's lazy allocation (line 132) with two threads. Today
   it is a hazard with a note.

**Constraint.** The project is at its budget of 12 runs. A new question needs a
run that asks it better than one of the current runs does.

## 5. Not modelled
- The thin adapters are stateless pass-throughs:
  - the display mapper;
  - the vibrator;
  - intelligent-voice trigger;
  - face-auth.

  They check a pointer and forward the call, with no state or ordering of their
  own to check.
- The camera UVC node hands every operation to the sensor controller and
  SourceNode, whose code is outside src/. Two hazards are listed without a
  property:
  - a failed constructor leaves `sensorController_` and `meta_` null, and
    `Start`, `SetBufferCallback`, `ProvideBuffers` and `GetUpdateFps`
    dereference them without a check;
  - the metadata callback writes `meta_` while `Start` reads it.

  Both turn on external code, and the run budget is spent on the USB and audio
  components.
- The descriptor bytes are not modelled. The descriptor queries are modelled
  only as uses of the borrowed device.
- The driver entry that calls `UsbdEventHandle`, `UsbdEventHandleRelease`
  and the destructor is outside the repository. The model lets them run in
  any order, except that the destructor follows the listener's release.
- `UnbindUsbdSubscriber` and the subscriber events are not modelled. Nor are
  `SetPortRole`, `QueryPort` and `Get`/`SetCurrentFunctions`, which forward
  to `UsbdPort` and `UsbdFunction` outside this file.
- The audio vendor manager runs one call at a time in the model. No lock
  guards `priv->descs`, so concurrent IPC calls could race on it. The
  sequential model already breaks its property.
- Codec `ComponentTunnelRequest`, `UseEglImage`, `ComponentRoleEnum` and
  `ComponentDeInit` return `HDF_ERR_NOT_SUPPORT` and are left out. Which pieces
  of a `SetParameter` the engine applied is engine state, also left out.
- Headers, tests and fuzzers are not system code.
- Buffer contents and lengths beyond what the properties distinguish are
  abstracted away. So are the bulk-async buffer cursors.
- The following code is outside `src/`. It is modelled from the spec and marked
  `spec_modelled`:
  - the library calls `UsbdDispatcher::UsbdRequestASyncCreatAndInsert`,
    `UsbdDeviceCreateAndAttach` and `UsbdDeviceDettach`;
  - the completion paths of the host library.
- The heap leak of the completion buffer (line 1622) has no state to check.
- A bulk completion later than `BulkCancel`'s fixed sleep (line 795) is a timing
  question. The untimed model assumes the sleep is long enough.
