# Formal models of the TEN framework (bindings and lifecycle)

This directory holds TLA+ models of parts of the TEN framework runtime under
`src/`. It also holds the TLC configurations that model-check them and the
TLAPS proofs of their main invariants. `PROJECT.json` lists the components,
runs, mutants, source map, findings, hazards and theorems in machine-readable
form.

## 1. The system and its parts

TEN runs *extensions* (user code in C++, Go, Python or JS) inside *engines*, one
per graph, inside *apps*. Every extension lives on the thread of its extension
group and is driven through a fixed lifecycle: `on_configure`, `on_init`,
`on_start`, then messages (`on_cmd`, `on_data`, frames), then `on_stop` and
`on_deinit`. Each phase is a barrier that ends when every extension has
called the matching `*_done` (spec 4.5, 4.7). Messages carry a reserved `_ten`
object (`cmd_id`, `timestamp`, ...) in their JSON form (spec 6).

The code under `src/` is a slice of the runtime:

| Part | Source | What it does |
|---|---|---|
| Go property read | `core/src/ten_runtime/binding/go/native/ten_env/ten_env_get_property.c` | cgo entry points that let a goroutine read a property of its extension. They hop to the extension thread and back. |
| Go value bridge | `core/src/ten_runtime/binding/go/native/value/value.c` | Converts between `ten_value_t` and Go. This covers type/size reporting, the `value_addr` getters of a two-step read, and Ptr values that reference pinned Go objects. |
| C++ extension binding | `core/include/ten_runtime/binding/cpp/internal/extension.h` | The `extension_t` base class: default callbacks, and the `proxy_on_*` / `invoke_cpp_extension_on_*` trampolines with their try/catch. |
| Message fields | `core/src/ten_runtime/msg/cmd_base/field/cmd_id.c`, `.../audio_frame/field/timestamp.c` | to_json, from_json, copy and process for two message fields. |
| Tests | `tests/...` | A msgpack TCP client, a Go stop test client, and a two-app smoke test. |
| Declarations | the remaining headers | Enums, structs and prototypes only. |

**How the parts interact.**

A goroutine runs on an OS thread of its own, while the extension's state
belongs to the extension thread. A Go getter:

1. enters the env's *alive region*, a read lock that the env's close takes
   for writing;
2. posts a closure with `ten_env_proxy_notify`;
3. blocks in `ten_event_wait(-1)`.

The extension thread runs closures in FIFO order, interleaved with its own
property sets. The closure peeks the property, stores a *clone* and sets the
event. The goroutine then either reads the clone and destroys it, or (for
`get_type_and_size`) hands the clone to Go as `value_addr`. Go sizes a buffer
from the reported size and makes a second cgo call, which reads the clone and
destroys it.

A Ptr value holds a `shared_ptr` to a Go handle. Cloning takes a reference
and destroying drops one. At zero, `ten_go_handle_unpin_from_go` unpins the
Go object.

In the C++ binding, every callback runs in try/catch. A caught exception is
logged and turned into a `stop_graph` command to the local app.

## 2. Modules

### `PropertyGet`: the cross-thread property read (Go binding)

**State.**

| Variable | Meaning |
|---|---|
| `prop` | The extension's properties. |
| `pin` | Each Go handle's `shared_ptr` count. |
| `used` | Handles ever pinned; a handle is never reused. |
| `closed` | The env is closed. |
| `queue` | The closures posted to the extension thread, in FIFO order. |
| `pc[g]` | Where goroutine `g` is: `idle`, `waiting` in `ten_event_wait`, or `holding` a `value_addr`. |
| `op[g]`, `path[g]` | The getter `g` called and the path it asked for. |
| `evset[g]` | The event of `g`'s call has been set. |
| `cval[g]` | `info->c_value`, and later `value_addr`. |
| `reported[g]` | The type and size returned by step 1. |
| `res[g]` | The status and handle of `g`'s last call. |

Values are abstracted to their TEN type, their reported size and, for a Ptr,
their handle.

**Actions and the code they model.**

| Action | Code |
|---|---|
| `CallClosed` | The alive region of a closed env. |
| `Call` | `..._get_and_check_if_exists` up to the wait. |
| `CallNotifyRejected` | `ten_env_proxy_notify` fails. |
| `RunNotify` | `ten_env_notify_get_property`. |
| `ReturnNotFound` | `c_value == NULL`. |
| `ReturnScalar` | The typed getters. `ten_value_get_<T>` may convert between integer or float types, so success is a nondeterministic outcome (`ReadOutcomes`). |
| `ReturnPtr` | `ten_go_ten_env_property_get_ptr`. |
| `ReturnJson` | `ten_go_ten_env_property_get_json_and_size`. |
| `ReturnTypeAndSize` | Step 1 of a two-step read. |
| `GoReadHeld` | Step 2, `ten_go_value_get_<T>` on `value_addr`. |
| `GoDestroyHeld` | `ten_go_value_destroy`. |
| `SetProperty` | The extension thread's property set, with `ten_go_ten_value_create_ptr` for a new Ptr value that owns one reference. |
| `Close` | The env's close, which waits for the alive regions. |

Each getter action includes the `ten_value_destroy` of the clone that ends
it. The variants whose names end in `NoSignal`, `NoDestroy`, `Repeek`,
`DoubleDestroy` and `WithoutRegion` are the mutants (section 4). They are not
part of `Next`.

### `ExtensionLifecycle`: one graph's lifecycle under the C++ binding

**State.**

| Variable | Meaning |
|---|---|
| `phase` | The engine's phase. |
| `stage[e]` | Per extension: `pending`, `async` (returned, `*_done` to come), `stuck` (threw before `*_done`) or `done`. |
| `stopQ` | `stop_graph` commands not yet handled. |
| `stopping` | A stop was accepted during start-up. |
| `extStop` | The client has sent its stop. |
| `msgs` | Messages delivered to each extension. |
| `owed[e]` | Commands whose `on_cmd` returned and will return the result later. |
| `dropped[e]` | Commands whose `on_cmd` threw before returning a result. |

**Actions.**

- `Invoke` runs a callback with one of the behaviours `sync` (the defaults),
  `async`, `throw_after` or `throw_before`. A throw issues a `stop_graph`
  (`IssueStopGraphCmd`). Its `ten_env_send_cmd` may fail when the cfg's
  `StopSendResults` allows it, and the failure is ignored.
- `AsyncDone` is a late `*_done`.
- `DeliverCmd` is `proxy_on_cmd` -> `invoke_cpp_extension_on_cmd`. With the
  same four behaviours, `on_cmd` has returned its result before returning
  (`sync`, which is the default `on_cmd`'s `"default"` result, and
  `throw_after`), owes it (`async`), or drops it (`throw_before`).
- `DeliverMsg` is `proxy_on_data` / `_audio_frame` / `_video_frame`. The
  handler is a no-op by default and may throw.
- `ReturnResult` is a late `return_result`.
- `Advance` is a barrier completing.
- `ExternalStop` is the client's `stop_graph`.
- `HandleStop` is the engine taking a `stop_graph`.

The engine side (`Advance`, `HandleStop`, `Successor`, `NextPhase`) is
modelled from the spec (4.5, 4.7, 8.5), because the engine is not under
`src/`.

### `PropertyRegister` and `PropertyGetRefinement`: what a read promises

`PropertyRegister` is the abstract specification of a property read, with no
threads, queues, clones or counts. The properties are a register per path. A
caller `Request`s a read. The read takes effect at one instant (`Read`: the
caller's snapshot becomes the register's value), and it `Return`s later with
that value, however often the register is `Write`n in between. `Close` empties
the registers, but never while a read is pending. Its fairness is
`WF(Read(g))`: every requested read takes effect.

`PropertyGetRefinement` maps `PropertyGet` onto it:

- `rprop`, `rclosed` and `rpath` are `prop`, `closed` and `path`.
- `rstate[g]` (`RState`) is `pending` while `g` waits and its event is not
  set, `answered` from the closure's `ten_event_set` until the value is
  returned to Go (through the second call of a two-step read, if there is
  one), and `idle` otherwise.
- `rsnap[g]` (`RSnap`) is the value `cval[g]` denotes.

So `Call` is the register's `Request`, and the closure's peek-and-clone
(`RunNotify`) is its `Read`. A getter's or Go's final destroy is `Return`,
`SetProperty` is `Write` and `Close` is `Close`. Every other step is a
stutter.

### `MsgFields`: the cmd_id and timestamp codecs

A JSON document is abstracted to its `_ten` member: absent, present but not an
object, or an object mapping some of the keys `cmd_id`, `timestamp` to a
string, an integer or something else.

| Variable | Meaning |
|---|---|
| `cmdId[c]` | The cmd_id of command `c`. |
| `stamp[f]` | The timestamp of audio frame `f`. |
| `doc` | The `_ten` member of the document being worked on. |
| `written` | History: the values put into `doc` since it arrived. |

| Action | Code |
|---|---|
| `Receive` | A document arrives from outside (any `_ten` shape). |
| `PutCmdIdToJson`, `PutTimestampToJson` | `put_*_to_json`: `peek_object_forcibly` replaces a missing or non-object `_ten` by an empty object, then `set_new`. |
| `GetCmdIdFromJson` | `get_cmd_id_from_json`: skips when there is no `_ten` object, no key, or a value that is not a string. |
| `GetTimestampFromJson` | `get_timestamp_from_json`: skips only when there is no `_ten` object; otherwise takes `ten_json_object_get_integer`, which yields 0 for an absent key. |
| `CopyCmdId`, `CopyTimestamp` | `copy_*`. |

`process_cmd_id` and `process_timestamp` only hand the field to a callback
supplied by their caller, and are not modelled.

### `ValueBridge`: the v1 Go value wrappers

| Variable | Meaning |
|---|---|
| `live` | Wrappers allocated and not yet freed. Memory is reused: a freed wrapper can be allocated again. |
| `wval[w]`, `own[w]` | The wrapper's `c_value`, abstracted to its type (and Go object for a Ptr), and whether it owns it. |
| `sp[w]` | The count of the `go_ref_id_shared` a Ptr wrapper made. |
| `pinned[r]` | Go references to object `r` handed to C and not yet returned by `tenGoUnrefObj`. |
| `ret[w]` | What Go got from its last v1 call. |
| `aborted` | The process died. |

| Action | Code |
|---|---|
| `CreateValue` | `ten_go_value_create_<T>`, `_byte_array`, `_from_json` (through `Wrap` = `create_empty_value` + `wrap_value`). |
| `CreatePtr` | `ten_go_value_create_ptr`: heap copy of the handle, a clone for the value, the local reference destroyed. |
| `GetScalarV1` | The number and bool `*_v1` getters. They drop the error, so a mismatch returns 0. |
| `GetStringV1`, `GetBufV1`, `GetPtrV1`, `ToJsonV1` | The other v1 getters. A type mismatch yields garbage or `NULL`, or takes the process down. |
| `Finalize` | `ten_go_value_finalize`, which runs `ten_go_value_destroy_v1` (`DestroyV1`). At count 0, `go_ref_unlink_handler` calls `tenGoUnrefObj`. |

### MC and proof modules

- `MC_PropertyGet` and `MC_PropertyGetRefinement` give TLC the type sets
  (and, for the former, the symmetry).
- `PropertyGet_proofs`, `PropertyGetRefinement_proofs`,
  `ExtensionLifecycle_proofs`, `ValueBridge_proofs` and `MsgFields_proofs`
  hold the TLAPS proofs.

## 3. Runs

| Run | Checks | Instance | Result |
|---|---|---|---|
| `propget_snapshot` | `TypeOK`, `HeldSnapshotStable` | 2 goroutines, 1 path, types `int8`, `int64`, `string` (size ≤ 1), `ptr` with 2 handles | pass, about 4M states |
| `propget_lifetime` | `PinCountAccurate` | same | pass |
| `propget_live` | `WaitersAnswered` | 2 goroutines, `int8`, `string` (size 0), 1 handle | pass |
| `propget_ptr_pin` | `ReturnedHandlePinned` | as live | **violation** (finding 1) |
| `lifecycle_stop` | `TypeOK`, `StopCompletes`, `CmdsSettled` | 2 extensions; callbacks `sync`, `async`, `throw_after`; `on_cmd` `sync`, `async`, `throw_before`; sends succeed; 1 message each | pass |
| `lifecycle_stop_fault` | `StopCompletes` | start and stop callbacks `sync`, `throw_before`; `on_cmd` `sync` | **violation** (finding 2) |
| `lifecycle_cmd_lost` | `CmdsSettled` | `on_cmd` `sync`, `throw_before`; the stop_graph send may fail | **violation** (finding 5) |
| `propget_refines` | `RegSpec` | 2 goroutines, 1 path, `int8`, `string` (size 0), 1 handle | pass, about a minute |
| `msgfields_roundtrip` | `TypeOK`, `RoundTrip` | 2 commands, 2 frames, 2 cmd_ids, timestamps {0, 7}, every `_ten` shape | pass |
| `msgfields_absent_timestamp` | `AbsentTimestampKept` | same | **violation** (finding 3) |
| `valuebridge_pins` | `PinsMatchLivePtrs` | 2 wrappers, 1 Go object, 2 scalar types | pass |
| `valuebridge_abort` | `NoAbort` | same | **violation** (finding 4) |

**Why these bounds are enough.**

- Two goroutines are the fewest that interleave two calls. That includes a
  closure queued behind another goroutine's, and one goroutine holding a
  value while another's closure clones.
- One path suffices, because every hazard is about the *same* property being
  read and overwritten.
- Two handles let a Ptr property be replaced by another Ptr while a clone of
  the first is held. The instance also has one scalar, one integer that
  converts, one sized type and a size that can change (0/1).
- With no bound on calls or sets, the state space is finite only because
  handles are never reused (`used`).
- The liveness run shrinks the types to keep the fair-cycle search under a
  minute. The ordering it checks does not depend on the value kinds.

- `propget_refines` keeps the liveness run's small types. The refinement is
  about which instant a read observes, and that does not depend on the kinds.
- `MsgFields` enumerates every shape `_ten` can have over the two keys, so
  documents with the key, without it, with a value of the wrong JSON type, and
  with no `_ten` object at all are all reached.
- `ValueBridge` uses two wrappers so that two Ptr values can share a Go
  object and a freed wrapper's memory can be reused while the other is live.

**Deadlock checking.** It is on for every PropertyGet and MsgFields run,
because a goroutine can always call again and a document can always arrive.
It is off for the lifecycle runs, because a closed graph really stops, and for
the value-bridge runs, because a process that aborted has stopped.

**Fairness.**

- `WF(RunNotify)`: the extension thread's runloop drains every posted
  closure.
- `WF` of each goroutine's return from the wait: the OS wakes a thread whose
  event is set.
- Sets, closes and new calls are the application's choices and get no
  fairness.
- In the lifecycle model: the engine passes complete barriers and takes
  queued commands, and the extension thread runs owed callbacks. An `async`
  callback is assumed to call `*_done` eventually (that is what `async`
  means); a callback that never does is `throw_before`. Likewise an `on_cmd`
  that keeps its command returns the result eventually (`WF(ReturnResult)`,
  spec 4.5: "must eventually return a result").

## 4. Properties and mutants

| Property | What it says | Mutant that breaks it |
|---|---|---|
| `TypeOK` (PropertyGet) | Every variable has its type. In particular, the pin counts stay natural. | `GoReadHeldDoubleDestroy`: step 2 destroys `value_addr` twice. |
| `HeldSnapshotStable` | While Go holds `value_addr`, the value has the type and size reported in step 1, whatever the extension thread did meanwhile. This is what makes the `memcpy` into the Go slice safe. | `ReturnTypeAndSizeRepeek`: reports the live property instead of the clone. |
| `PinCountAccurate` | Each handle's count equals the number of property values plus clones referencing it. | `ReturnPtrNoDestroy`: leaks the clone's reference. |
| `WaitersAnswered` | Every blocked getter is woken. | `RunNotifyNoSignal`: the closure forgets `ten_event_set`. |
| `TypeOK` (lifecycle) | The engine never takes more `stop_graph`s than were sent. | `HandleStopUnguarded`. |
| `StopCompletes` | A `stop_graph`, the client's or one sent after a caught exception, leads to `closed`, provided every callback that throws has called its `*_done` first (the pass run's callbacks). A throw before `*_done` is the fault run (finding 2). | `HandleStopRunningOnly`: a stop during start-up is dropped. |
| `CmdsSettled` | Every command delivered to `on_cmd` eventually has its result returned or, if `on_cmd` threw first, the graph closes. No command is left unanswered on a live graph. | `DeliverCmdNoStop`: the catch in `invoke_cpp_extension_on_cmd` only logs. |
| `RegSpec` | The getter implements the atomic register `PropertyRegister!Spec`, its fairness included. Every read observes the property's value at one instant while the getter waits, never a later write. | `RunNotifyShared`: the closure stores the property itself instead of a clone. |
| `TypeOK` (MsgFields) | cmd_ids stay strings. | `CmdIdFromJsonUnchecked`: from_json without the `ten_json_is_string` check. |
| `RoundTrip` | After any mix of puts on one document, get_from_json reads back the last values put, into any message. | `PutCmdIdToJsonPeek`: put peeks `_ten` instead of creating it. |
| `PinsMatchLivePtrs` | The Go references held by C are exactly the live Ptr wrappers: none leaks, none is returned early. | `CreatePtrKeepShared`: create_ptr forgets to destroy its local reference. |

`ReturnedHandlePinned` is an action property: a Ptr getter never returns a
handle whose count is zero. It is checked only in the violation run.

## 5. Findings

1. **A Ptr getter can return an unpinned Go handle** (`ten_env_get_property.c:628`,
   and the same at `value.c:1004`).

   The getter takes the handle out of its clone and then destroys the clone
   before Go uses the handle. TLC's trace:

   1. The extension sets `p` to Ptr `h1` (count 1).
   2. A goroutine calls `get_ptr`. The closure clones (count 2).
   3. The extension sets `p` to a non-Ptr (count 1).
   4. The getter destroys its clone (count 0, `h1` unpinned) and returns `h1`
      to Go.

   The comment at `value.c:628-663` requires the Go pointer to stay pinned
   until the consumer is done with it.

2. **A lifecycle callback that throws before its `*_done` wedges the graph**
   (`extension.h:297` for `on_configure`; likewise `on_init`, `on_start`, and
   `:369`, `:393` for `on_stop`, `on_deinit`).

   The catch only logs and sends a `stop_graph`. In start-up the engine can
   apply that stop only when the barrier completes. In the stop phase it is
   already stopping and ignores it. Either way the barrier waits forever for
   a `*_done` that will never come. TLC's trace: both extensions'
   `on_configure` throw before `configure_done`, and the graph stays in
   `configure`. Spec 4.5 says a misbehaving extension cannot wedge the
   framework.

3. **timestamp from_json resets a timestamp that is absent from `_ten`**
   (`timestamp.c:50`).

   Whenever `_ten` is an object, the frame's timestamp is set to
   `ten_json_object_get_integer(_ten, "timestamp")`, which is 0 for an absent
   key. `cmd_id` from_json skips an absent key (`cmd_id.c:52-56`, "skip the
   from_json process"). TLC's trace: a frame with timestamp 7 receives
   `{"_ten": {}}`, and its timestamp becomes 0.

   The spec says nothing of a message field absent from `_ten`, so this is
   recorded as a spec gap: the two codecs answer that question differently.

4. **The v1 getters take the process down on a type mismatch**
   (`value.c:478`, and `:423`, `:491`).

   `get_ptr_v1` dereferences the `NULL` shared_ptr that `ten_value_get_ptr`
   returns for a non-Ptr value. `get_string_v1` reads any value as a string,
   and `to_json` asserts on a Ptr. The current API
   (`ten_go_ten_value_get_ptr`, `ten_go_ten_value_to_json`) reports a status
   instead, as spec 7 says a type mismatch is reported.

   The abort on the `get_string_v1` path rests on the integrity check of
   `ten_value_peek_c_str`, which is outside `src/`, so the model lets that
   call return garbage or abort. The `NULL` dereference at `value.c:478` is
   certain.

5. **A command whose handler threw is never answered if the stop_graph is
   lost** (`extension.h:140`).

   `invoke_cpp_extension_on_cmd` catches the exception and calls
   `issue_stop_graph_cmd`. That function ignores the result of
   `ten_env_send_cmd`. TLC's trace: both extensions' `on_cmd` throw before
   replying, both stop_graph sends fail, and the graph keeps running with
   both commands unanswered. The spec calls the stop_graph best-effort (4.5)
   but promises exactly one terminal result per command (8). It does not
   say what happens in this case.

## 6. Proofs

`PropertyGet_proofs` proves, for every value of the constants:

- `TypeCorrect` (`Spec => []TypeOK`);
- `HeldSnapshotStableInvariant`;
- `PinCountAccurateInvariant`.

They rest on the assumptions `ConstAssumption` and `NullAssumption`: finitely
many goroutines and paths, and `NULL`/`Absent` distinct from every value.

None of the three is inductive on its own. `IInv` strengthens them with:

- `CvalIsClone`: a handed-over value is always a private clone;
- `CvalByPc`: an idle goroutine holds nothing, and a holding one holds a
  value;
- `QueueOK`: every queued closure belongs to a distinct, waiting,
  unsignalled goroutine that holds nothing;
- `UnusedUnreferenced`: a handle never pinned is referenced by no value;
- `NoStrandedWaiter`: once the env is closed, no getter waits and no
  closure is queued (Close waits for the alive regions, and Call skips a
  closed env). The refinement proof needs it at `Close`.

Why the strengthening is needed:

- The counts stay natural only because they are exact.
- They stay exact through `RunNotify` only because the head of the queue
  holds no clone yet (`QueueOK`).
- They stay exact through a Ptr `SetProperty` only because the fresh handle
  has no references (`UnusedUnreferenced`).

**Layout of the proof.**

- One lemma per action. The five actions that end a call by destroying a
  clone share `FinishCall`.
- The counting steps use `FS_AddElement`, `FS_RemoveElement`,
  `FS_Singleton` and `FS_EmptySet` on `PropRefs(h)` and `CloneRefs(h)`.
- `IInv` was model-checked as an invariant before it was proved.

`ExtensionLifecycle_proofs` proves `TypeCorrect` for the lifecycle, with no
strengthening.

`PropertyGetRefinement_proofs` proves `Refinement`:
`Spec => Reg!SafetySpec`, the safety part of the refinement. It reuses
`PropertyGet_proofs`' `IInv`. `InitRefines` shows that an initial state maps
to one of the register's. `NextRefines` shows, one lemma per action, that
every step maps to a register step or a stutter:

- `RunNotify` is `Read` of the head of the queue. `QueueOK` says that the
  head is waiting and unsignalled, so it is `pending`. `CvalIsClone` says
  that its new clone denotes the property's current value.
- A call that ends (`Returns`) is `Return`.
- `Call` is `Request`.
- `SetProperty` is `Write`. While a value is held it still denotes the old
  value, because the clone is private (`CloneSnap`).
- `Close` is `Close`. `NoStrandedWaiter` says that no read is pending then.

The fairness part of `RegSpec` is checked by TLC only.

`ValueBridge_proofs` proves `TypeCorrect` and `PinsMatchLivePtrsInvariant`
from `ConstAssumption` (finitely many wrappers). The inductive invariant adds:

- `LiveOwned`: a live wrapper owns a real value, and a Ptr wrapper's
  `go_ref_id_shared` has exactly one reference;
- `FreedEmpty`: a freed wrapper holds no value.

Without `LiveOwned`, `Finalize` could drop a count that is not 1 and leave the
Go reference pinned. Without `FreedEmpty`, a reused wrapper could already be
counted. The counting uses `FS_AddElement` and `FS_RemoveElement` on
`LivePtrs(r)`.

The same module proves the action property `UnpinOnlyByFinalize`
(`UnpinOnlyByFinalizeHolds`) from `IInv`: a Go reference is given back only in
the step that finalizes a live Ptr wrapper of that object, so no getter
releases the object behind a handle it hands Go. No run checks it, because it
follows from `PinsMatchLivePtrs` holding before and after each step (no step
changes a live wrapper's value, and only `Finalize` frees one). A bug that
breaks it breaks `PinsMatchLivePtrs` first. The getters and `CreateValue` leave
`pinned` alone, and `CreatePtr` only adds to it. `Finalize` lowers only the
count of its own wrapper's object, and `LiveOwned` says that wrapper's value is
a real Ptr record for that object.

`MsgFields_proofs` proves `TypeCorrect` and `RoundTripInvariant` for every
value of the constants. Neither `TypeOK` nor `RoundTrip` is inductive:

- A put of `cmd_id` must not disturb the `timestamp` already in the document.
- `forcibly` must not replace an object that holds an earlier put.

The strengthening says:

- `WrittenInDoc`: every field put since the document arrived sits under
  `_ten` with its JSON type.
- `WrittenTyped`: the history holds values of the field's type.

`IInv` was checked by TLC on the run's instance before the proof. The
operator lemmas are:

- `SetKeyFacts`: `ten_json_object_set_new` adds the key and keeps the others.
- `ForciblyObjectType`: peeking forcibly always yields an object.
- `FromJsonTypes`: `get_*_from_json` yields a value of the field's type.

Together with `FunInUnion`, they carry the set reasoning about the union of
function sets that types `_ten`.

**Left to TLC.** The liveness properties (`WaitersAnswered`,
`StopCompletes`, `CmdsSettled`, and the fairness of `RegSpec`) are only
model-checked. TLAPS does not handle liveness under fairness here.

## 7. Not modelled, and why

- The routing of a result back to the command's originator (and the test
  apps' forwarding) needs the engine's routing, which is not under `src/`.
  Hazard listed: the multi-app test extensions never answer other commands,
  which breaks the assumption that `on_cmd` eventually replies.
- `process_cmd_id` and `process_timestamp` only pass the field to a callback
  supplied by their caller.
- Why `ten_env_send_cmd` fails is in the runtime core, which is not under
  `src/`. The model only lets the send fail.
- The test client, the libuv pipe backend and the declaration-only headers
  are I/O or have no behaviour.

## 8. Plan for the next steps

1. `CmdPath`: the routing of commands and results between extensions (spec
   4.4) composed with `ExtensionLifecycle`, covering the multi-app test
   graph.
2. A TLAPS proof that `AbsentTimestampKept`'s counterpart for `cmd_id`
   holds (cmd_id from_json skips an absent key).
