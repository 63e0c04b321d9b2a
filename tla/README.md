# bsp_intel in TLA+

TLA+ specifications of the programs in `vinxue/bsp_intel`, the board support
package for Brillo on Intel Edison and Bay Trail, with TLC configurations that
check them on small instances and TLAPS proofs of what matters most. Paths
below are relative to the repository; `chaabi/` stands for
`peripheral/keystore/chaabi/` and `libcc54/` for `chaabi/libcc54/`.

Run a check with `tlc -config MCBootRace.cfg MCBoot`, a proof with
`tlapm BootCtrlProofs.tla`. `PROJECT.json` lists every run, what it expects, the
source lines behind every definition, and for every property a mutation of the
code under which the property fails.

## 1. The system

Most of the repository is configuration (init scripts, makefiles, sepolicy). The
programs are hardware abstraction libraries, loaded by other processes, and the
client library of the CryptoCell security processor ("chaabi").

| component | source | state it keeps | operations | how it is reached |
|---|---|---|---|---|
| A/B boot control HAL | `peripheral/bootctrl/bootctrl.c` | `boot_ctrl` on the misc partition; nothing in memory | mark successful, set active, set unbootable, four queries | loaded by the updater, the update verifier, `bootctl`: several processes at once |
| Driver interface | `libcc54/driver_interface/driver_interface.c`, `libcc54/dx_cclib.c` | static handles `diFileH`, `rpcFileH`, the priority; descriptors of TEE contexts | open, close, set priority; ioctls for symmetric crypto, RPC, applets | from every library above it, in one process |
| TEE client API | `libcc54/tee_client_api.c` | `TEEC_Context`, `TEEC_Session`, registered memory, on the caller's stack | initialise, open session, register, invoke and their inverses | from the applet clients |
| Applet clients | `libcc54/hwk_crypto.c`, `disk_enc.c`, `tee_token_lib.c`, `tee_applet_loading_lib.c`, `secure_channel/secure_channel.c`, `chaabi/libkeymaster/src/sep_keymaster.c` | only the secure channel's static response buffer | twelve functions that run one applet command each | from keystore, DRM and provisioning programs |
| RPC stubs | `libcc54/generated/*_stub.c`, written by `libcc54/utils/src/sep_rpc_gen` | none; contexts of the firmware in the caller's memory | 64 functions of the firmware (RSA, ECC, DH, KDF, RC4, random numbers, ...), each one message there and back | from applications; each call is one `DxDI_SepRpcCall` |
| CRYS | `libcc54/crys/*.c` | cached context sizes; contexts in buffers of the user | init, update, finish, free of hash, AES, DES, HMAC, AES-CCM; combined calls | from applications; each call goes to the driver interface |
| Token builder and queries | `libcc54/tee_token_lib.c` | a token under construction | start, write, end; counts and lists | through `pass_to_fw`, an applet client |
| Keymaster HAL | `chaabi/src/intel_keymaster.cpp`, `sep_keymaster.c` | none | keymaster0 calls as messages | through `send_to_sep`, an applet client |
| Audio HAL | `peripheral/audio/generic/audio_hal.c` | device, streams, shared profiles and card numbers | open, close, write, read, standby, get and set parameters | from the audio service's transfer and binder threads |
| Wifi HALs | `peripheral/wifi/*/*_hal.cpp` | none of their own | `set_mode` | from the wifi service |

The behaviours that are hard to test:

* *Boot control.* Nothing serialises two processes on the misc partition; a call
  reads, changes and writes the whole structure, in transfers that may be short,
  and power may be cut at any moment.
* *CryptoCell library.* Every client is a straight line of steps with a ladder of
  cleanup labels below it; any step may fail, and a wrong label leaks a
  context, closes one that does not exist, or closes a file of somebody else.
  Handles are numbers that the kernel reuses.
* *CRYS.* A context must not cross a page although its user may copy the buffer
  that holds it to another address at any time; every part of the process may
  open or close the driver under a running stream.
* *RPC stubs.* Every array is copied by a length that is given in its own unit,
  compared with a bound that is declared elsewhere, and copied back by a length
  that the firmware has replaced; the answer of a call that ran may be lost.
* *Audio.* Three kinds of lock, two threads per stream and more, state that is
  looked at under one lock and used under another, and a transfer thread that
  would starve everybody else.

What makes each component correct is the list of properties in section 4; the
places where each could go wrong are the hazards in `PROJECT.json`.

## 2. The modules

| module | models | |
|---|---|---|
| `BootCtrl` | the boot control HAL | one process per HAL user |
| `BootSlots` | what it promises: a table of two slots, atomic for calls that no other update overtakes | abstract |
| `DxDriver` | the static handles and the descriptor table | component |
| `TeeClients` | TEE client API and the twelve applet clients on top of `DxDriver` | composition |
| `TeeCall` | what a library call promises: at most one command, `ok` only if it ran | abstract |
| `AudioHal` | the audio HAL | one process per thread |
| `AudioStreams` | what it promises: streams whose calls take effect one after the other | abstract |
| `CtxLocation` | where a crypto context is placed | pure functions |
| `CrysStreams` | streams of all five kinds, and combined calls, in buffers that move | component on `CtxLocation` |
| `RpcTable` | the 64 stubs: parameters, message, numbers | data |
| `RpcStub` | what every stub does, with the firmware and a lossy driver | interpreter of the table |
| `MC*` | instances for TLC | |
| `BootCtrlProofs`, `TeeClientsProofs`, `AllClientsProofs`, `AudioHalProofs`, `CrysStreamsProofs`, `RpcStubProofs` | theorems | |

### BootCtrl and BootSlots

`misc` is the partition, `booted` the slot on the kernel command line; `pc`, `op`,
`arg`, `buf`, `pos`, `ret` are the local state of each process's call. `Call`
enters an operation, `ReadSome`/`ReadFor...` are the turns of the loop in
`bootctrl_read_metadata`, `ReadForUpdate` also the changes to the local copy
(`Marked`, `Activated`, `Unbootable`), `WriteSome`/`WriteLast` the turns of the loop
that writes it back. Every early return has its action: `RejectSlot`,
`ReadFails`, `ReadCorrupt`, `NoBootedSlot`, `WriteFails`, and `WriteEnds` for a
`write` that moves nothing, after which the call returns 0 with whatever has been
written. (A `read` that moves nothing is the end of the device; the misc
partition is assumed to hold the whole structure.) `Boot(s)` is a power cut
at any moment followed by the bootloader, which is not in this repository: it
starts the best bootable slot and spends a try.

The structure is three cells (header, slot A, slot B), the units in which another
process or a power cut can get in between. `Whole = TRUE` says that the kernel
moves a structure of a few bytes in one transfer; `Whole = FALSE` allows every
short transfer that the loops are written for.

`BootSlots` has no partition and no copies: each operation is one step, described
as a relation between the table before and after. The HAL has no lock, so what
it can promise depends on `late`, a history variable: the processes whose call
another process's update has overtaken since they read. A call that is not late
takes effect at one instant; one that is late still does to its own slot
what it was asked to and leaves at most one slot on top, but may undo the other
update.

### DxDriver, TeeClients and TeeCall

`fds` says what each descriptor of the process is open on; `open` takes the lowest
free number and `close` closes whatever the number stands for. That is what
makes a stale or zero handle dangerous, and it is the reason why the process's
own files are part of the model. `DxDI_Open`, `DxDI_Close`, `DX_CclibSetPriority`,
`DxDI_SepAppContextAlloc` and `DxDI_SepAppContextFree` are the C functions of that
name.

A client function is data: its steps, and the label that each step jumps to
when it fails. `HwkCrypto`, `SendToSep`, `SecureChannel` and the others are
read off the twelve C functions, gotos included, also where they go to the
wrong label. The actions (`InitLib`, `InitializeContext`, `OpenSession`,
`RegisterMem`, `AskLength`, `AllocateOutBuffer`, `InvokeCommand`, `StepFails`,
`AnswerLost`, `NoResponse`, and
`FiniLib`, `FinalizeContext`, `CloseSession`, `ReleaseMem`, `ResetBuffer` for the
labels) interpret them. A command that the applet has executed is counted in `ran`
whatever comes back: `AnswerLost` is the ioctl that fails after that
(`driver_interface.c:100-123`), `NoResponse` the secure channel that cannot allocate
room for an answer it could have. `TeeCall` therefore lets a call that ran its
command answer `error`, which the caller cannot tell from a command that did not
run; it never lets one answer `ok` without it. Uninitialised stack variables hold anything: a
`TEEC_Context` that was never filled holds any descriptor number, and closing
a session through a wild pointer is refused by the driver or kills the process
(`Die`). Between calls the process opens and closes files and uses the library
by itself (`AppFiles`, `AppCclib`). The library has no lock and is modelled for one
thread.

### AudioHal and AudioStreams

`handles` counts the PCM handles that a stream's proxy holds; `preLock`, `lock`,
`devLock` name their holders. A thread's `pc` goes `pre` → `lock` → `body` → `dev`
→ `hasDev` → ... → `unlock`, and each step is what the code does between two
places where another thread can get in. Each stream has its transfer thread
(`Transfer`); control threads make every other call. Playback and capture are
the same code twice and share actions. The framework opens and closes a
stream only when no other call is on it, which is what the HAL interface asks of
it. The alsa utility library (proxy, profile) is external.

`AudioStreams` has no threads, locks or handles: a stream is closed, in standby or
active, and a transfer is under way on it or not. `StateOf` reads the state of a
stream from `handles` and `opened`; a standby or close of a stream that has been
active is one step there, taken when `AudioHal` closes the PCM.

### CtxLocation and CrysStreams

`GetNonCrossingOffset` and `CtxOffset` are the arithmetic of
`crys_context_relocation.c`. In `CrysStreams` a buffer is an array of bytes; a byte is
`<<k, s, n>>`, "byte *k* of a context of size *s* into which *n* blocks have gone", or
`Junk`, so that moving a context wrongly, or an overlapping move done in the
wrong direction, can be seen. `Placed` is `DX_InitUserCtxLocation`, `Located` is
`DX_GetUserCtxLocation`, with which every call after Init begins; `CopyBuffer` is the
user's copy; `InitOrFini` is the library started or stopped by any part of the
process.

There is one action for every function of the API. Most end in `Drive`: the
contexts of the call's streams are located, the driver answers with one of
`DiOutcomes` (which is `doIoctl`: success, an error of the SeP, an error of the
driver, or no driver, when nobody sets `errorInfo` and it may be 0), and the streams
become what `After` says. The Init functions differ in what they check before
and after the context is placed: `RefuseInit` leaves the buffer alone, `RefuseLate`
(AES and HMAC) does not. An HMAC key longer than a block is hashed by
`CRYS_HASH` between the two (`HashKeyAndStart`), with a context on the stack.
`ContextSizes` is `GetContextSize`, which keeps the driver's answer, also the 0 of a
failed query; AES-CCM alone asks every time. A combined call is `Drive` on
several streams, which then share the outcome; its last call copies a result
into the caller's room, or fails with a result that is too large.

Read off the code and kept as it is:

* `CRYS_Combined_Finish` has an error for a result that is too large
  (`crys_combined.c:390`), which is never returned: `DxDI_CombinedFinalize` has
  already answered with a general error.
* `crys_hmac.c:232` lists MD5 among the modes; `InitHmacParams` always refuses it.

### RpcTable and RpcStub

The 64 stubs have one shape, so that shape is modelled once and the stubs are
data: `RpcTable` says for each function its message (agent, number, the room of
every array) and its parameters in the order of the stub (input, output or
both; by which argument and in which unit it is measured; the bound it is
compared with; whether the pointer to its size is compared with NULL; whether the
size that comes back is compared again). `Marshal` is the body of a stub up to
`DxDI_SepRpcCall`, `RefuseSize` its `SEP_RPC_ASSERT`s, `Crash` the pointer followed without a
comparison, `CopyBack` the rest. The firmware is external: `SepExecutes` runs the
function, sets sizes to anything and writes the memory references that are for
results by DMA (`written`; in a call in place that replaces the data), `SepRefuses` answers with an RPC error,
`IoctlFails` is a message or an answer that is lost, in the latter case with the
results already written. `Again` is the caller who goes on
with its context or tries a failed call again.

`DoIoctl` shows that the stubs' own conversion of RPC errors is dead code: the driver
interface has turned every error of the SeP into `DXDI_RET_ESEP` before
(`StubError` and the type invariant, which has no third RPC error). Read off the
code and kept as it is: `CRYS_RSA_Build_PrivKeyCRT` copies five arrays by the size of
one (`crys_rsa_seprpc_stub.c:1180-1198`), `CRYS_RND_GenerateVectorInRange` always a full
one, and `_DX_RSA_VerifyFinish` alone follows a pointer before it is compared with NULL
(line 857; `Crash`).

## 3. Bounds

Nothing is bounded but what is named here.

* Boot: the two slots of the code. Priorities have their real range 0..15 and the
  counters their real width; `MaxTries` is 7 where it is cheap and 2 where
  the number of reboots would only multiply states (1 and 2 tries are the
  cases that differ: the last and one before the last). Two updating processes
  are enough for a stale copy; in `boot_race` they are interchangeable (`Swap`), since
  both make every call, updating or not.
* TEE: descriptors 0..3. The library needs three (two queues and a context); a
  fourth leaves room for a file of the process, and when more are taken, `open`
  fails. `tee_exact` has one function of each shape with exact labels, `tee_all` all
  twelve.
* Audio: a playback and a capture stream with two control threads; every pair of
  calls on a stream and every call on the other direction meets. One card:
  a second only changes which number is kept. In `audio_safe` the two control
  threads are interchangeable (`ControlSymmetry`): they make the same calls, and no
  property of that run, none of which is about liveness, tells them apart.
  `audio_shared` has two capture streams instead and one control thread.
* CRYS: pages of 8 bytes, alignment 2, properties of 2 bytes; buffers of 6 to 18
  bytes, one size for each kind (too small for some mode, just large enough,
  over more than two pages), contexts of 2 to 6 bytes; a buffer at four of the 8
  places of a page, a context on the stack at all of them. Which branch of the
  search is taken depends only on these relations; the proofs are for all
  sizes. An AES and a hash stream run together, the other kinds alone: streams
  meet only in combined calls and in the state of the driver. One block
  (`MaxBlocks`) tells a context that has absorbed data from one that has not. One-shot
  calls are made only for kinds that have a stream (`KindInUse`), as each kind has
  cached sizes of its own.
* RPC: all 64 stubs with their real sizes (RSA keys of 3072 bits), numbers of 16
  instead of 32 bits (larger than every array, so that `(n + 7) / 8` still wraps). In
  one call at most one pointer is NULL and one size is unusual (0, one
  less, one more, 32 more, the largest number): the stubs check each
  parameter by itself. Two acknowledged updates of a context.

No cfg switches deadlock checking off: every system here can always take another step.

## 4. Runs

| run | checks | result |
|---|---|---|
| `boot_race` | `OneTop`, `NoTriesOnceSuccessful`; `CallsAreAtomic`: two processes that update and query, I/O errors and power cuts implement `BootSlots` | holds |
| `boot_torn` | `TypeOK`, `NeverStranded`, `MarkKeepsPriorities` with one updater, short transfers and power cuts between cells | holds |
| `boot_lost` | `MarkKeepsPriorities` with two updaters | **violated** |
| `tee_exact` | `HandlesLive`, `ClosesOnlyOpened`, `ContextClosedLast`; `KeepsCallPromise`: implements `TeeCall` | holds |
| `tee_all` | `TypeOK`, `NothingLeft`, `BufferOwned` for all twelve functions | holds |
| `tee_zeroed` | `AppFilesKept` for `send_to_sep` | **violated** |
| `tee_response` | `ResponseOrError` for the secure channel | **violated** |
| `audio_safe` | `TypeOK`, `PcmMatchesStandby`, `InfoReadInStandby`, `TransfersHavePcm`, `NoDeadlock`; `CallsAreSerial`: implements `AudioStreams` | holds |
| `audio_shared` | `InfoReadOnlyWhenIdle` with two capture streams | **violated** |
| `audio_live` | `CallsReturn` under fairness | holds |
| `crys_streams` | `TypeOK`, `InBuffer`, `NoCrossing`, `ContextKept`, `FailureTold` | holds |
| `rpc_stubs` | `TypeOK`, `SentInBounds`, `CopiedBackInBounds`, `RetryIsSafe` | holds |

The violations are disagreements between the code and its own comments:

* `boot_lost`: `markBootSuccessful` of one process writes back the table it read
  before `setActiveBootSlot` of another completed, and so undoes an activation
  that had returned 0 (`bootctrl.c:228` against the comment at 217). With one
  updater the same property holds (`boot_torn`, and proved for all).
* `tee_zeroed`: when `send_to_sep` cannot allocate its context it still finalises
  it, and the zero in it is descriptor 0 of the process (`sep_keymaster.c:90`,
  against `driver_interface.c:1116`).
* `tee_response`: when the secure channel cannot allocate the buffer for a
  response it returns 0 without one (`secure_channel.c:199`, against
  `secure_channel.h:33`).
* `audio_shared`: opening a second capture stream reads device info into the profile
  that all capture streams share while the first has its PCM open
  (`audio_hal.c:1014`, and 633 for playback, against the comments at 822 and 433).
  Only the stream that is called is checked; that part holds (`InfoReadInStandby`).

What the larger runs show:

* `boot_race`: with any two calls of two processes under way at once, the one that was
  overtaken is the only one that can do harm, and what it can do is `late` in
  `BootSlots`: undo the other update, never leave two slots on top or a marked slot
  with tries.
* `tee_exact`: these calls clean up what they opened, and no more
  (`ClosesOnlyOpened`: a label never closes a session or a context that its own call
  has not opened). `tee_unload_applet` breaks this and is not among
  them: it closes a session and a context that it has not initialised.
* `tee_all`: the labels of four functions undo what was not set up, and of two of
  those what was never initialised. Nothing stays behind with the driver for
  that (`NothingLeft`).
* `audio_safe`: `NoDeadlock` is more than the absence of a state without a step, which
  a system that can always begin another call never reaches: every thread that
  waits for a lock waits, after two others at most, for one that can go on. A lock
  that a call returned with, or two calls that wait for each other while a
  third runs, would violate it.
* `crys_streams`: wherever the buffers are copied and whenever the driver is closed,
  opened or fails, a context stays in its buffer and on one page, and a stream that
  the driver has not ended is whole (`ContextKept`), in combined calls too;
  `CRYS_OK` is never returned for what was not done, although `errorInfo` may hold 0
  (`FailureTold`). No property says that a refused Init is harmless: AES and HMAC check
  some parameters after they have placed the context (`RefuseLate`), and a refused
  Init on a buffer in use destroys the stream in it.
* `rpc_stubs`: no stub copies past an array of its message on the way there, whatever
  it is called with. On the way back this holds of the arrays whose size is compared
  again (`guarded`) whatever the firmware claims, and of the others, those of AES, ECC
  and the domain parameters, only if it claims no more than it was offered
  (`Honest`): for them the property says what the firmware is trusted with. A call
  whose answer is lost can be repeated without a block being absorbed twice; but the
  firmware's DMA has taken place by then, so a caller of `CRYS_RC4` or `CRYS_RC4_Stream`
  who passes one buffer for data and results retries with other data than before
  (`RetryIsSafe`, which excepts just those calls).

## 5. Fairness

Only `audio_live` assumes any. Steps that wait for nobody, and the step from
`pre_lock` to the lock, are weakly fair: only the holder of `pre_lock` contends for
the lock, so it has it as soon as it is given back and cannot be overtaken.
`pre_lock` and the device lock are strongly fair: both are held briefly and are free
during every transfer, so a thread that keeps trying gets them; a pthread
mutex promises no order, and no more than this is used. The stream lock is *not*
strongly fair: the transfer thread gives it back only to ask again at once,
the starvation the comment at `audio_hal.c:148` speaks of. The mutant that skips
`pre_lock` violates `CallsReturn` under the same fairness, so it is the code, not
the assumption, that makes the property true.

## 6. Proofs

Every theorem is for all values of the constants that the named `ASSUME`s allow.

**BootCtrlProofs.** `TypeCorrect`: counters never leave their bit fields, for any
processes and any `MaxTries` up to 7. `OneTopCorrect`: needs that no process's
*copy* has two slots of priority 15 either (`CopiesTop`), since copies are what is
written; holds for whole transfers, and the torn case is false, which is why it is
not claimed. `NoTriesOnceSuccessfulCorrect`: the same with `CopiesTidy`, and
because the property is one of each cell it survives any mixture of cells. `Refinement`:
with whole transfers and any number of updaters, `CallsAreAtomic`; the invariant is
`CopyIsCurrent`, that the copy of a call that is not `late` and is about to be
written is the update of the table as it is now, and `UpdateImplements` says what
a late one still achieves. `NeverStrandedCorrect`: one
updater, transfers of any length; `CopyKeeps` says that a copy that activates or
marks has a priority wherever the partition has one, as far as it has been read.
`MarkKeepsPrioritiesCorrect`: one updater again, transfers of any length and reboots
anywhere; `CopyMarks` says that a copy that marks has the partition's priorities, as
far as it has been read and all of them once it is written. So it is the second
updater, and not a torn transfer or a reboot, that run `boot_lost` needs.

**TeeClientsProofs.** The invariant relates the place in the ladder to what
exists: with `Done` the steps that have succeeded and are not yet undone,
`ContextInv` says that the context file exists exactly while step 2 is in `Done`,
`OnContextInv` that sessions and registrations belong to steps in `Done`, and
`Progress` whether the command has run and what the call will answer. It is inductive
for functions whose labels
are exact (`Regular`); `RegularFunctions` proves that the eight functions of
`hwk_crypto.c`, `disk_enc.c` and `tee_token_lib.c` are. From it follow
`HandlesLiveCorrect`, `ClosesOnlyOpenedCorrect`, `NothingLeftCorrect`, `ContextClosedLastCorrect`,
`AppFilesKeptCorrect` and `Refinement` (`KeepsCallPromise`, lost answers included), for any number of descriptors and for any such
function, not only the eight.

**AllClientsProofs.** What holds for any of the twelve functions, exact labels or
not. `Shape` is what their ladders have in common: one step allocates the context,
sessions and registrations come later, no label of a later step leaves the
context out, and the command is the last step. `AllShapes` proves it of all
twelve. The invariant (`AllInv`) then says that a context, session or registration
exists only while a context is to be finalised (`Pending`); it says nothing of who
else's files are closed, which is what the four inexact functions get wrong.
`TypeCorrectForAll` and `NothingLeftForAll` follow. `BufferOwnedCorrect`: between calls the
secure channel's response buffer is allocated exactly if it is to be given back; its
invariant (`OwnInv`) is one of its own: going down, the buffer exists from step 6 on;
going back, past the label that resets it, only if it is preserved.

**AudioHalProofs.** `Shape` and `Exclusion` tie a thread's place to the locks it
holds; `SeenInv` says that what a thread saw of `standby` under the stream's lock
still holds when it acts under the device's; `AloneInv` and `ClosedInv` that a stream
being opened or closed belongs to one thread, and that a close leaves standby
behind. They give `TypeCorrect` (no stream ever has two PCM handles),
`PcmMatchesStandbyCorrect` and `InfoReadInStandbyCorrect`, for any streams and threads. The
latter is of the stream that is called; of the other streams of its direction
nothing can be said, as run `audio_shared` shows.
`TransfersHavePcmCorrect` needs that a thread at its transfer has the stream out of
standby (`IoInv`), which `Exclusion` keeps true while a standby or close waits.
`NoDeadlockCorrect` needs the converse of `Exclusion`, that the holder of a lock is
a thread in the part of a call that has it (`Holders`): then the holder of the
device's lock waits for nothing, the holder of a stream's lock at most for the
device's, and the holder of a pre_lock at most for its stream's.
`Refinement` is `Spec => CallsAreSerial` for any streams and threads. It needs that
a transfer's thread is at its own stream (`OwnStream`), and so that no transfer is
under way on a stream whose lock somebody else has, or that is not open
(`Transferring`); then each step that changes a stream is one of `Abs!StreamsNext`
(`GoingToTransfer`, `StopImplements`, `PrepareImplements`, `BeginImplements`), and the
others leave every `StateOf` alone (`SameStreams`).

**CrysStreamsProofs.** Lemmas on page arithmetic (`PageOfFacts`, `SamePage`,
`PagesApart`, `AlignedGap`) lead to `GoodLocationFacts`: the place found is behind
the start, within the buffer and on one page, for every page size, alignment,
buffer and address. The invariant says of every stream by itself that its fields
are numbers (`FieldsOK`), its context where the search put it (`PlaceOK`), and whole if it
is active (`WholeIfActive`), of the cached sizes that they are the mode's or 0, and of the
last call that it told the truth (`LastOK`); there is one lemma per group of
operations, and combined calls need nothing more because an operation does the
same to each of its streams. `TypeCorrect`, `InBufferCorrect`, `NoCrossingCorrect`,
`ContextKeptCorrect` and `FailureToldCorrect` follow. They assume (`StreamsAssumption`) that
a context is a multiple of its alignment and at most a page less the properties plus one byte. The second is needed because
`DX_InitUserCtxLocation` adds the properties' size to the start but does not take it
off the buffer's size (line 122): with pages of 8, properties of 4, a context of 6
and a buffer of 16, all accepted by the code, the context found ends behind the
buffer. Real contexts are far below a page, so the code is right for them.

**RpcStubProofs.** For every table, word size and set of arguments: `TypeCorrect`,
`SentInBoundsCorrect`, `CopiedBackInBoundsCorrect` and `RetryIsSafeCorrect`, from what the
table must say (`TableAssumption`: a bound is not above its array's room, a size
that the function sets is one in bytes, no memory reference is for both directions,
no two functions have the same numbers). TLC evaluates that assumption for the table
of the 64 stubs, so the theorems are about them. The invariant: the caller's sizes
are as they were while a call runs (`Unchanged`), they have been compared before
anything is sent (`Checked`), the message has what the caller has, and one
update more once the function has succeeded (`MessageInv`), and of the caller's
buffers only those for results have been written unless the call is in place
(`DataKept`).

**Only model-checked.** `CallsReturn`, which is liveness; its safety half, that no
call waits in a circle or for a lock nobody gives back, is `NoDeadlockCorrect`. The
four violated properties are refuted by TLC, each for an instance; for one of them,
`MarkKeepsPriorities`, the theorem above says exactly what is at fault, for
`AppFilesKept` `AppFilesKeptCorrect` says that exact labels are enough, and of
`InfoReadOnlyWhenIdle` `InfoReadInStandbyCorrect` proves the part that holds.

## 7. Not modelled

* Data: keys, digests, sample conversion, volumes, message contents. Parameter
  checks are a nondeterministic refusal.
* `recovery_tries_remaining`, carried along unchanged by every call.
* Threads inside the CryptoCell library: it has no lock, and nothing in the
  repository calls it from two threads.
* The firmware (SeP) behind stubs, streams and applets is external: it may answer
  anything the code's own interface allows.
* What a stub sends for an array whose size pointer is NULL: neither the array nor
  its null flag is set (`crys_dh_seprpc_stub.c:93`), and the firmware decides.
* The generator `sep_rpc_gen.py`, except through what it generated.
* CRYS files that `Android.mk` does not build, the PAL wrappers, tests and
  configuration.
* Token builder and queries, keymaster messages and the wifi HALs: section 8 says
  how they would be modelled.

## 8. Plan

In this order:

1. `TokenBuilder`: `tee_token_unprotected_start/write/end` as edits of one flat block of
   words that is walked by the size fields in it. The sizes that the code keeps
   agree after any sequence of writes and refusals, the walk over subgroups ends at
   the end of the token, `current_length` never exceeds what is allocated. Abstract
   specification: a map from (subgroup, item) to data, in which a refused write
   loses at most the item it was to replace. Proof: the sizes agree, for all item
   sizes.
2. `TokenQuery` over `TeeCall` (which `TeeClients` is proved to implement): queries
   that ask for a count and then a list, against a token that changes.
3. `Keymaster`: the message layer of `intel_keymaster.cpp` over `send_to_sep`;
   lengths of nested messages at their limits, cleanup of OpenSSL objects on every
   failing path.
4. `WifiHal`: `set_mode` with a failure after each effect, and its descriptors.
5. One descriptor table below `TeeClients`, `CrysStreams` and `RpcStub` together. Today the
   latter two see of it only whether the driver is open.
