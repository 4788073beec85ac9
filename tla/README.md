# Verification of lineageos-echo-show-camera

TLA+ models, TLC runs and TLAPS proofs for the code that makes the camera and
the echo cancellation of the Echo Show boards (crown, checkers, cronos) work
under LineageOS.  All modules are translated from the source; line numbers of
every definition are in `PROJECT.json` under `map`.

    tlc -config AmznAec.cfg MCAmznAec         # one run, see the table of runs
    tlapm AmznAec_proofs.tla                  # the proofs of one component

## 1. Inventory

The repository is a set of interposed libraries ("shims") that run inside the
vendor's processes, a vendored copy of SpeexDSP that one of them is built with,
kernel and framework patches, and shell scripts that prepare a build tree, flash
a boot image and install or patch files on a device.

| Part | State it keeps | Operations | Interacts with | What is hard |
|---|---|---|---|---|
| **Echo cancellation shim** `shims/libamznaec/amznaec_shim.cpp` | `State g` (the session's `pcm`, settings, processors, `in`, `out`, log sums) under `g.lock`; three tinyalsa pointers | `pcm_open`, `pcm_read`, `pcm_close`, `resolve` | called by the threads of the audio HAL; calls tinyalsa, the WebRTC and Speex processors | unlocked look at `g.pcm`, a handle's address reused, a second open that takes the session over, reads that are no multiple of a block, combinations of settings, one of several processors failing, samples of three bytes |
| **Speex DSP** `shims/libamznaec/speexdsp` | the canceller: two filters, the far end, the error, its counters; the preprocessor: framing buffers, noise minima, gains; transform tables | `speex_echo_cancellation`, `_reset`, `_get_residual`, `speex_preprocess_run`, `spx_fft`, `spx_ifft` | made and called by the AEC shim, block by block | what is shifted, copied and tested before what; resets from the middle of a block; state kept for the next block; packed spectra |
| **AWB trim** `shims/libcmdqevent/cmdq_event_shim.c:358-498` | four trims, a call counter, what was last written at each word | `handleAWB` (wraps the blob's), `trim_prop` | the 3A library's output struct, `persist.camera.awbtrim.*` | in-place rescaling of a struct that is not rewritten on every frame, overlapping pattern matches |
| **Event translation** same file, `event_map.h`, `tools/cmdq-trace/gen_event_map.py` | none (a static table) | the `ioctl` wrapper rewrites event ids of a command buffer | camera blobs, the cmdq driver | a map made of two kernel sources that is only right if it inverts the kernel's table; in the caller's buffer; not idempotent |
| **Tracing and overrides** of the same shim | `isp_trace_on`'s statics, the trace flag | `ioctl`, `fopen`, logging | the ISP and sensor drivers, `debug.*` and `persist.camera.bayer` | in the path of every call of every thread, own commands before the caller's, statics without a lock |
| **Trace tools** `tools/cmdq-trace` | the hook's switch and counters; the probe's buffers | `ioctl_hook` (preloaded in the shim's stead), `camwrap`, `cmdqprobe` | cameraserver, the cmdq driver | a hook that must change nothing but what it reports; a verdict given before the call |
| **Display framework adapter** `shims/libdpframework_cam` | two `dlopen` handles, the adapters made | forwarders with another layout | the private and the system's libdpframework | a failed look-up is remembered |
| camera_shim `shims/libcamera_shim` | none | forwarders | | |
| **Privacy latch patches** `patches/0015`, `0016` | `gating_priv_ref`, `cam_gate->req_state`, the list of cameras | `gating_current_state`, `set_gate_state`, `kdCISModulePowerOn`, `adopt_CAMERA_HW_CheckIsAlive` | the button, the latch, the gating driver, cameraserver | presses that are not notified, a state that survives a reboot, a search that is done once, two looks at the latch in one search |
| CameraDevice@1.0 patches `patches/0005`, `0006` | the device remembered for callbacks without a cookie | callbacks, open, close | legacy HAL | several devices, callbacks late |
| Image sensor patches `patches/0004, 0007, 0008, 0010, 0014` | registers of the sensor | mode switches, standby | imgsensor framework | order of register writes |
| Device tree and build patches `patches/0011, 0012, 0013, 0017` | none | | | |
| **Boot flashing** `scripts/flash-boot.sh`, `adb-lib.sh` | files on host and device, the boot partition | the script, command by command | adb over a link that comes and goes | transfers that lie, errexit, a partition left half written |
| **Tuning patches** `scripts/patch-awb-d65.sh`, `patch-obc-pedestal.sh` | the tuning library and its `.orig` on the device | patch, restore | each other, `install-camera.sh`, ROM flashes | the shared backup, interruption between and inside commands |
| Camera and shim installation `scripts/install-*.sh` | files on the device | push, check | | re-runs |
| **Blob preparation** `scripts/fetch-camera-blobs.sh`, `install-blobs-to-tree.sh`, `install-private-dpframework.sh`, `patch-shim-needed.sh` | the cache `stock/lib` and its stamp, the blobs and the private library in the build tree | fetch, copy, patch, link with patchelf | each other's files, `CAMERA_DEVICE` | a run killed inside or between two steps, a cache of another device, steps repeated or out of order |
| Orientation patch `scripts/patch-camera-orientation.sh` | one library in the tree | patch | | |
| Checks and diagnostics `scripts/verify-build.sh`, `camera-test.sh`, ... | none | read and report | | |

What makes each of the core parts correct:

* **AEC shim**: the blob sees its microphone stream in order, complete, exactly
  one block late, or untouched; the underrun branch is never taken; the session
  belongs to an open handle; a session is only ended by its owner's close or a
  new open; nothing of an old session leaks into a new one; every processor that
  is called was made, for as many channels as it is given; a microphone comes back
  as its processor's output, silent if it is muted, or as it was, and no sample
  wraps around; the lock is always given back.
* **Speex**: a filter learns a delay only from sound of that delay, and nothing
  from a clipped microphone; the error it learns from is its own; changing
  filters makes no step in the sound; the wrap-around of the transforms does not
  stay in the weights; the residual echo that is suppressed is of the frames it
  was taken for, as far as the canceller is trusted; noise minima are neither lost nor kept for ever; the
  transforms, on their packed layout, transform, convolve and correlate.
* **AWB trim**: each gain is rescaled once per recomputation, for its own
  illuminant, and no other word is touched.
* **Privacy latch**: the sensor is not powered into a rail that is held down, a
  camera behind the latch is listed, and it opens as soon as the latch is clear.
* **Boot flashing**: only a byte-perfect copy of the image reaches the
  partition, a verified backup exists before, and every verdict is true.
* **Tuning patches**: the backup is never a patched library, and the two
  corrections stack.
* **Event translation**: the map inverts the kernel's table, and a submit whose
  events it knows is accepted and runs as the library meant it.
* **Tracing and overrides, trace tools**: every call reaches the driver once,
  nothing is added unless tracing was asked for, the structs of an answer agree,
  and what the hook says of a submit is what the kernel does with it.
* **Blob preparation**: what is reported about a device is of that device, and
  once the steps have reported every blob is whole and linked, whatever was cut
  off before.

The list of hazards, at their lines and with the properties that watch them, is
`PROJECT.json` `hazards`.

## 2. Modules

| Module | What it is | Code |
|---|---|---|
| `DelayLine` | what the blob may rely on: frames come back in order, one block late, or untouched | abstraction of the AEC shim |
| `AecConfig` | what `pcm_open` makes of the properties and `process_block_l` of that (operators only) | `amznaec_shim.cpp:103-138, 179-252, 284-312, 403-448, 486-510` |
| `AmznAec` | the shim, on top of `AecConfig`; implements `DelayLine` (`INSTANCE ... WITH`) | `amznaec_shim.cpp:100-592` |
| `AecSamples` | a sample on its way out of a frame and back | `amznaec_shim.cpp:270-281, 315-331, 386-389, 439-448` |
| `MCAmznAec` | the three studies for TLC | |
| `AmznAec_proofs` | the theorems, among them that the shim implements `DelayLine` | |
| `AecResolve` | the unlocked look-up of the tinyalsa symbols | `amznaec_shim.cpp:112-181` |
| `SpeexEcho` | the control of the canceller | `mdf.c:394-1279` |
| `SpeexPreprocess` | the control of the preprocessor | `preprocess.c:391-1007` |
| `SpeexBlock`, `SpeexBlock_proofs` | both, as `make_speex`, `run_speex` and `teardown_l` use them | `amznaec_shim.cpp:253-268, 334-381` |
| `SpeexFft` | the transforms and the products of packed spectra, exactly | `kiss_fft.c`, `kiss_fftr.c`, `fftwrap.c`, `mdf.c:309-345, 803-891` |
| `SpeexFft_proofs` | the theorems about them, of `EngineSpec` | |
| `SpeexEngine`, `MCSpeexEngine` | `SpeexBlock` and `SpeexFft` side by side | |
| `EventMap` | the generator's map, the translation of one meta, the kernel's table (operators only) | `gen_event_map.py:29-62`, `cmdq_event_shim.c:110-112, 568-578` |
| `CmdqShim` | the `ioctl` wrapper and its threads, on top of `EventMap` | `cmdq_event_shim.c:163-356, 522-673`, `event_map.h` |
| `CmdqHook` | the hook, `camwrap` and `cmdqprobe`, beside `CmdqShim` on the same drivers | `ioctl_hook.c`, `camwrap.c`, `cmdqprobe.c` |
| `AwbTrim` | the wrapper of `handleAWB` | `cmdq_event_shim.c:380-498` |
| `CmdqLibrary`, `MCCmdqLibrary` | what is preloaded into cameraserver, side by side | |
| `CmdqLibrary_proofs` | the theorems about it and about `CmdqShim` | |
| `PrivacyLatch`, `PrivacyLatch_proofs` | latch, gating driver, camera driver, cameraserver | patches 0015 and 0016 |
| `FlashBoot`, `FlashBoot_proofs` | the flash script, command by command | `flash-boot.sh`, `adb-lib.sh` |
| `TuningLibrary`, `TuningLibrary_proofs` | the two tuning scripts on one library | `patch-awb-d65.sh`, `patch-obc-pedestal.sh`, `install-camera.sh:62-72` |
| `BlobTree`, `BlobTree_proofs` | the four scripts that prepare the blobs | the four scripts |

Definitions marked `FAULTY` or "as it would be" are not part of any
specification.  Each is a plausible bug of one definition, kept beside it and
listed under `mutants`, and shows that the property named there really depends
on the code.

### AecConfig, AecSamples and AmznAec

`read_settings` reads the six settings the session's control depends on out of a
store of properties (those of Speex are arguments of `MakeSpeex`); `Selected`, `Mode`, `make_apm`, `Apms` and `build_geometry` follow
`pcm_open`.  A WebRTC processor is the number of channels it was made for and
whether it beamforms; `run_apms` is the set of calls of `process_block_l`, each
with its processor and its number of channels.  `Replaced` are the channels it puts a
result in, `Processed` those it copies to the caller with the gain, which the
code decides by two different conditions (`amznaec_shim.cpp:403-437` and `443`).
`Returned` is what the caller finds in a channel: zeroes if the property `mute`
names it, whether it was processed or not (444-445), otherwise a processor's
output, the microphone's own sound with the gain, or the frame as it was.  Positions are whole millimetres, and the 5 mm
test of the geometry compares squares as the code does.

`AecSamples` follows one sample: `s24f` takes it out of its three bytes, a
processor or the gain may change it to anything, and it is put back by `putf`,
zeroed, or left alone.  Bytes are bytes; a float is a whole number of sixteenths
of the lowest bit (`Part`), so clipping, the cast towards zero and the sign are the
code's; NaN is left out.  It shares no state with `AmznAec`, where a frame is a
value.

`AmznAec` has one action per stretch of code that no other thread can split.
`pcm_open` is `OpenReal` (tinyalsa's open, and the test for the FPGA's shape)
followed, for the microphone, by one of `OpenDisabled`, `OpenFailed`,
`OpenSession` under `g.lock`.  `pcm_read` is `ReadReal`, `ReadCheck` (the look at
`g.pcm` without the lock), `ReadEnter` (the lock, the second look, the append to
`g.in`), `ProcessBlock` once per block and `ReadExit`.  `pcm_close` is `CloseShim`
(teardown under the lock, before the real close) and `CloseReal`.  `pc[t]` is the
place of each thread in its call; `lock` is the holder of `g.lock` between two
actions, which only the block loop needs.

A frame is `[v, done]`: the value captured and whether it went through
`process_block_l`.  The arithmetic of the processors, the debug dump and replay
files and the level log are left out.  tinyalsa is external: a handle is any
address not open now, so a closed handle's address can come back; as the
library demands, one thread at a time uses a handle.  A real open that fails is
modelled by its NULL result, which changes nothing.

`DelayLine` knows the session's owner, the frames inside the shim and each
thread's buffer, nothing of blocks, processors or the lock's place.  The mapping
takes `out \o in` for its line.

### AecResolve

`resolve()` has no lock: the early return on `real_pcm_open`, `dlopen` and the
six `dlsym` calls (library first, then `RTLD_NEXT`) are steps of their own, so two
threads can interleave.  `Check` is `LOG_ALWAYS_FATAL`, which ends the process:
the runs allow deadlock for that reason.

### SpeexEcho, SpeexPreprocess and SpeexBlock

The build is floating point, `TWO_PATH`, one microphone and one or two
loudspeakers; only that configuration is modelled.

The numbers of the canceller are replaced by where they come from.  A frame is
its age; a spectrum of the far end is the set of ages in it; a block of a filter
is the delays it has learnt, whether a clipped error went into it, and the
gradients since its last constraint; the error carries the filter it is the
error of.  All the control around them is the code's: the shift of `X`, the
gradient for each block with `X` one block older, the round of the constraint by
`cancel_count`, the copy of the background to the foreground with its cross-fade,
the copy back with the error, `saturated`, `screwed_up` and the reset that returns
from the middle of the function, `last_y`, the two loudspeakers and the part of
the weights `speex_echo_state_reset` clears.  What energies and statistics decide
is an input of each block (`Courses`): whether it clips, which filter is better,
whether the sanity checks pass, how much it adapts.

`speex_echo_state_reset` does not touch the output that went out: `tail`, the
filter the last output ended with, stays, and the foreground behind it is emptied
without a cross-fade.  So a reset is a step in the sound, in the model as in the
code, and `SmoothHandOver` does not speak of the block after one.

Of the preprocessor, the framing (`inbuf`, `outbuf`), the age of the residual
echoes the gains are made from, the windows of the noise minima with their lengths
that change with `nb_adapt`, and which gains are applied are kept; the noise
estimate and the gain rules are numbers and are not.  `echo_noise` is the maximum of
the residual just taken and 0.6 of what it was (`preprocess.c:755-757`): which
of them it is in a bin is a number, so the model keeps all of the last `Fade`
residuals that can be, newest first.  Beside it `trust` remembers whether the
canceller was adapted after each of the last `Fade + 1` blocks, which
`ResidualTimely` compares them with.  The minima are over real
values, compared with the history of the powers seen.

### SpeexFft

The transforms are computed, on the code's factors, shuffles, stages, twiddles
and packed layout, in exact arithmetic: instead of floats, the integers modulo a
prime with an added `i`, whose numbers of norm 1 stand for the unit circle and
have points of every order the lengths need.  An identity that holds for
complex numbers holds there, and one that fails for a wrong index or sign fails
there.  Rounding is left out, and the stack limit on a radix (17).  `FieldAssumption`
and `CircleAssumption` say what the numbers are: P is a prime that is 3 modulo 4,
and `Root` generates its P + 1 numbers of norm 1; `JobsAssumption` that a length is
even and divides P + 1, so that every twiddle of it is there, and that the buffer of
an error has the error in its second half, as `speex_echo_cancellation` fills it.
Sums, powers, factors and the source of the shuffle are recursive functions.
`Program` runs the calls of `mdf.c` in their order:
a transform and its inverse; the constraint, the product and the inverse of a
filter; the conjugate product and the constraint of a gradient.

`SpeexBlock` has no numbers and `SpeexFft` no sessions.  `SpeexEngine` puts them
side by side: a behaviour explores one of the two.

### EventMap, CmdqShim and CmdqHook

The library names events by hardware value, the kernel by index.  A header is a
sequence of declarations `[name, index]`, a device tree a function from names to
hardware values; `hw_to_enum` is what the generator makes of both, with its
order (names sorted, the first declaration of a name) and its exceptions
(negative indices, hardware values several names share).  `EventTable` is the
kernel's table, `Accepted` and `Program` what it makes of a submit; they are
external and modelled from the shim's and the generator's comments.

`CmdqShim` has one action per stretch of `ioctl` between two commands to a driver
or two looks at shared memory.  `Call` is the dispatch; `Look` and `Count` are
`isp_trace_on`, split between the load and the store of `++calls`, so two threads
can lose counts; `Probe` is the sampling and poking of a traced wait; `Translate`
the loop over the metas; `Forward` the caller's own command; `Override` the
rewriting of a successful GETINFO to the order `bayer_override` reads from a
property of one digit, 0 to 3.  `sent[t]` is what a call has given to the driver,
`job[t]` what the engine was given.  Callers build the metas of each submit anew.

`CmdqHook` adds the clients the diagnosis tools bring, on the same threads and
drivers: cameraserver under `camwrap` with the older hook (`HookCall`, `HookTrace`,
`should_fix` with its environment variable, `HookJudge`, which judges and
translates meta by meta, `HookForward`, `HookReturn`), and `cmdqprobe`, which
submits its own cases and tells by the `job_id` of its struct; it has no property of
its own, since that verdict is what the kernel put there.  A behaviour is that of
one client.

### AwbTrim and CmdqLibrary

One call of `handleAWB` is one action: the blob's algorithm stores what it
recomputed (`Stored`, external), then the shim reads the properties every
`Reread` calls and scans the words.  `Hits` is the scan as a recursive function,
with the jump over a triple that was found.  That the algorithm recomputes
triples whole, or leaves them whole, is an assumption: the sources do not say
so (section 5).  The gains and trims are real values (the arithmetic is the
code's), few of them.

`CmdqLibrary` is the preloaded library as a whole.  Its two halves share nothing:
`ioctl` touches neither the output struct nor the trims, and `handleAWB` makes no
`ioctl`.  A behaviour explores one of them with the other at rest.

### PrivacyLatch

The latch moves at any time (`LongPress`, `ShortPress`); only long presses
notify.  `gating_probe` publishes the driver; `set_gate_state` asks the hardware
through `gating_current_state` and refuses or lets `RaisePower` follow, two
actions, since the latch can move between them.  A search
(`StartSearch`, `SearchRefused`, `SearchProbed`) looks again at the latch when
power-on was refused.  cronos is the board with `gating = FALSE`.

### FlashBoot

One action per command.  `set -euo pipefail` is modelled as the shell does it:
a command or an assigned pipeline that fails ends the script (`LinkDies`, `Die`),
one in a condition or behind `||` does not.  `Unplug` and `Replug` may happen
between any two commands.  A push leaves the whole file, a damaged one or none,
whatever it reports; so may the pulled header that tells the amonet generation
be damaged or empty, and the test for a word that is absent from it then lets
a 1.x device pass (`CheckGeneration`).  The image is a sequence of pieces with an identity of
their own, so a lost, repeated or displaced piece is seen.  A `dd` may stop after
any piece.

### TuningLibrary

A library is whether it is complete and what the sites of each of the two
patches hold.  Every command that writes on the device (`cp` to the backup, push,
restore) may be cut off and then leaves part of a file.  `InstallCamera` and
`ReinstallRom` happen between scripts.

### BlobTree

One action per file a script reads or writes.  Each write has an outcome in which
the script is cut off with the file half written, and `Killed` ends a script
between any two of them.  A blob is its device, whether it is whole, and which
entries were added to its DT_NEEDED; the private library its build, how much of
it is there (cut off before or behind the constant `PYCHECK` looks for), its
soname and its patches.  `said` holds the reports that still stand: a script
takes its own back when it starts, a copy those of both linking scripts.  patchelf
is external; it refuses a file that is not whole.  The fetch runs for any device,
the other scripts for `Home`: the trees of other devices share only the cache.
The three patches of the private library are one: they are applied in memory
and written at once.

## 3. Runs

| Run | Bounds | What it shows |
|---|---|---|
| `aec` | block 2, reads 0..3.  Study "turns": 2 threads, 2 handles, one frame value, the shim on and off.  Study "content": 1 thread, two values, no, one and two microphones, every array mode and an unknown one, both engines, positions that fit, are too close and are for another number of microphones, muted channels.  Study "samples": samples of the bytes 0, 127, 128, 255, levels around zero, around each limit and beyond | session, queues and lock are consistent in every interleaving; callers see `DelayLine`, in order and one block late; the lock is given back; a processor exists, with the right channels, wherever one is called; each microphone comes back as its output, silent or as it was; no sample wraps around |
| `aec_resolve_race` | 2 threads | *violation*: a call through pointers half filled |
| `speex_engine` | sessions of 7 blocks, a filter of 4, two loudspeakers, a reset after 2 bad blocks, noise windows of 1, 1, 1 and 2 blocks, the last 2 residuals (`Fade`); transforms of lengths 2 to 320, among them every radix the code has a butterfly for and the generic one, pulses at every place and noise | the seven properties of the sessions, and that the transforms transform, convolve and correlate |
| `speex_suppress` | sessions of 4 blocks, a filter of 2 | *violation*: suppression that was asked for does nothing |
| `privacy_latch` | boards with and without latch, early search, reboots | no power into a rail known to be held; undisturbed searches are true; a listed camera opens once the latch is clear |
| `privacy_latch_race` | the same, no early search | *violation*: a latch moved inside a search loses the camera |
| `cmdq_library` | 2 threads, recheck every 2nd look, headers with a placeholder, two indices for a name and two names for a hardware value, submits with known and unknown events and plain writes, properties of no, one and two digits; 7 words, two triples, the second last in the scan, gains below and above the anchors, trims unset, in and out of range | the map inverts the table, known events run as meant, one command per call, answers agree; the hook says what the kernel does; gains are rescaled once, for their own illuminant |
| `flash_boot` | 2 pieces, partition of 3, 2 polls, 3 tries, both amonet generations | only the image, backup first, true verdicts, the script ends |
| `flash_boot_poll` | the same | *violation*: errexit ends the poll |
| `tuning_library` | every device write may be cut off | the backup is unpatched, black level stacks |
| `blob_tree` | 2 devices, 2 blobs: one that both scripts link, fetched last, and the listener; legacy library or none | reports are about the device, and mean a whole, linked tree |
| `blob_tree_soname` | the same | *violation*: a library is reported whose soname was never set |

Why the bounds are enough.  The AEC shim tells threads apart only by their
handle, so two threads on two handles make every race there is over one
session; a third would repeat the part of one of them.  What a frame holds
matters only to the order of the stream, and threads do not exchange frames, so
the contents are explored with one thread, and the interleavings with frames
that are all alike.  Read lengths matter by their rest modulo the block, and
0..3 around a block of 2 has each rest with zero and one block in the loop, and
two with what an earlier read left.

A filter of 4 blocks has blocks that wait for their constraint, ones that were
just constrained and the first one, which is constrained always; 7 blocks are
more than a round of that schedule after a reset or a copy.  Each choice of a
block is varied on its own in the run, and all together in the theorems, which
hold for every length and bound.  The thresholds on counters (`AdaptLimit`,
`ScrewedLimit`, `Windows`, `IntMax`) are constants, small where what lies behind
them must happen; `Fade` is 2, so that the gains hold a residual that is not of
the last block (0.6 per block leaves 1 % after 9; the theorem holds for
every `Fade`); `AdaptCap` stops `nb_adapt` behind its last threshold.
`cancel_count` wraps after 2^31 blocks, more than 200 days of one session: beyond
`IntMax` the round of the constraint does not go on as before, and the runs do not
go there.  A transform is linear, so pulses at every place say all of one length;
each length is a case of its own, and the longest, 320, is that of the code's
block.

In `AwbTrim` a window of the scan sees three words; seven words hold two triples,
a word between them, and every overlap, with the second triple at the end.
`FlashBoot` needs two pieces for an order to go wrong and a partition one larger
than the image for a tail that must stay (that an image larger than the
partition is refused is a theorem, `RefusalsHold`); `PollLimit` counts polls that
have no other effect.  In `CmdqShim` threads share only the two statics of
`isp_trace_on`, in `CmdqHook` `fix_events` as well: two threads make their races,
and a recheck at every second look makes both branches of the test.  In
`BlobTree` the blobs of a loop meet only in where the loop stops: two, one of them
in both lists, make every half-done loop.  `PrivacyLatch` and `TuningLibrary` have
no bounds but the boards.

Deadlock is checked wherever a system goes on for ever.  `CHECK_DEADLOCK FALSE`
stands in `AecResolveRace.cfg`, where the process may be aborted; in
`SpeexEngine.cfg` and `SpeexSuppress.cfg`, where a job of transforms ends; and in
`CmdqLibrary.cfg`, where the probe ends and `camwrap` may fail to start its
program.

### Fairness

* `AmznAec`: `WF` of `ProcessBlock` and `ReadExit`.  They are the code between
  lock and unlock, which calls nothing that blocks.  No thread has to call.
* `PrivacyLatch`: `WF` of the steps of a call that was begun, and of `StartOpen`:
  the promise of the patch is about a user who tries again.  Nobody has to
  press the button, nothing has to be notified or restarted.
* `FlashBoot`: `WF` of the script's next command: adb returns, with or without a
  device.  Nothing is assumed of the link.

The Speex engine, the cmdq shim and the other scripts have no loop that waits for
anything, and no liveness property.

## 4. Proofs

TLAPS proves the following for every value of the constants, from the
assumptions named in the modules (`BlockAssumption` and so on: types, at least
one block, names distinct, an index declared for one name only).  The modules
about components with a session or a script also prove their type invariant.

**AmznAec_proofs**: `LoopOwnership`, `HandleOpen`, `Conservation`,
`UnderrunUnreachable`, `CleanTeardown`, `SessionEnd`, for any number of threads
and handles and any block and read length.  None of the properties is inductive
alone.  The invariant `SessionInv` joins `TypeOK`, `LoopOwnsSession`,
`SessionHandleOpen`, `Conserved` and `NothingLeftBehind` with `HandlesOwned`: two
threads never hold the same handle, and a thread inside a call holds an open
one.  From it follow the owner of the block loop and, from
`Conserved` with `Len(in) < Block`, that `out` has at least what the caller asked
for, the comment at `amznaec_shim.cpp:568`.  `ReadyToProcess` is about every
store of properties: a session's configuration, processors and geometry are
those `pcm_open` makes of one (`FromSettings`), and for these the lemmas say,
mode by mode and engine by engine, that each call of `process_block_l` is served
and that each channel comes back as it should (`Due`), which needs that the two
conditions of the write-back agree.

`SamplesSurvive` is about every three bytes and every level: what is put back
differs from what `near_` held by less than a bit, or is the limit it ran
into, and a sample no one changed comes back byte for byte.

`Refinement`: every behaviour of the shim is one of
`DelayLine` under the mapping of `AmznAec` (the owner is the thread that holds
the session's handle, the line is `out` followed by `in`).  A session begun is
`Take`, one torn down `Drop`, the entry of a read `Accept` and its exit `Deliver`;
a block that moves from `in` to `out` and every other step leave the line as it is.
`LineInv` adds to `SessionInv` that all of `out` was processed; that nothing comes
back unprocessed or short needs `Conserved` once more.

`LoopRunsDown`: while a thread holds `g.lock` in the block loop, `in` is at most a
block longer than what that thread read, each of its steps takes a block off `in`
or leaves, and no other thread touches `in`, `out` or the holder's frames.  So the
loop makes a bounded number of rounds; that the holder is scheduled at all is
fairness and stays with `LockReleased`.

**SpeexBlock_proofs**: `TimeAligned`, `ClippedLeftOut`, `ErrorIsBackgrounds`,
`OutputHandedOver`, `FloorTracked`, `ResidualIsTimely`, for any number of blocks
in the filter, loudspeakers, thresholds, powers and courses.  `EchoInv` says what
lies where between two frames: block j of the far end is j frames old, the error
is of the last frame and the background filter, a clipped one has the gradient
off, and the filters are clean.  A frame takes it through its stages, one lemma
each (shift, gradient, constraint, verdict, output, sanity, learning rate, echo
kept), because none of the stages keeps it by itself.  `PreInv` relates the two
minima to the powers seen since their windows began; `ResidualIsTimely` needs
both, since the age of what the canceller keeps and the framing of the
preprocessor have to agree.  It is an invariant of all residuals in `echo_noise`,
and tells four cases apart by whether the canceller was trusted after the block
one was taken in and after the block before: two frames of the right age; the
first block of the trust, whose older half is not; the block of a reset, which
takes the echo kept before it, a frame late and next to silence; and no trust
at all, where only what was kept before the last one is taken.
`OutputHandedOver` covers every block but the one after a reset.

`CircularBounded` follows the round of the constraint.  The bound itself is not
inductive: how old a block may be depends on where in the round the count is.
`Since(j, c)` is the number of gradients block j can have taken since its turn
when the count is c, and `SinceTurn` says that one more frame either brings the
turn of j or adds one, which is the arithmetic of `%` (`Rounds`,
`NextRemainder`).  `AgeInv` then bounds a block of the background by
`disturbed` rounds and `Since`, one of the foreground by a round more than
`disturbed`: a foreground that is taken back is within the bound of a background
that has lost a round, and so is whatever a reset leaves behind.  The theorem
assumes `MaxBlocks <= IntMax`, sessions that end before `cancel_count` wraps; the
remainder of a negative count is no turn of any block but the first two.

**SpeexFft_proofs**: `EngineTransforms`, `EngineConvolves`, `EngineCorrelates`, for
every field, every length that divides P + 1, of whatever prime factors, every
signal, every list of jobs, under the three assumptions of `SpeexFft`.  The run has
some lengths of one field; the theorems say that the factoring, the strides, the
five butterflies, the packing and the products are right for all.  The argument:

1. The complex numbers over the field are a ring (`AddRing`, `MulRing`, `ConjRing`),
   without divisors of zero, since P is prime; the powers of `Root` are a circle
   (`TurnAdd`, `TurnBack`), and `kf_cexp(i, n)` its n-th parts (`RootAdd`).
2. A recursive definition is pinned down by a function that satisfies its equation
   and by there being no other (`Recursion`, `HalvingExists`, `HalvingUnique`), with
   induction from the least element of a set of numbers.  So `CSum`, which adds by
   halves, is the sum from the left, and sums can be split, reordered, exchanged and
   interleaved.
3. The n-th parts of a turn add up to 0 or n (`RootsSum`), hence `Inversion`,
   `SpectrumUnique` and `Product`, the convolution theorem.
4. `FactorsOf`: the radices of `kf_factor` multiply up to the length.  `Offsets` is
   where `kf_shuffle` takes a value from, digit by digit.
5. `ButterflyTrue`: whichever butterfly a radix has, what it makes of a column are
   the twiddled sums; for radix 3 and 5 this needs that the real parts of the n-th
   parts of a turn are the halves the code uses, from `RootsSum`.
6. `Staged` is the state between two stages: every block is the transform of the
   part of the input it came from.  `StagedFirst`, `StagedStep`, `StagedLast`, together
   `KissFft`: after the last stage there is one block, the transform of it all.
7. `PostTrue` and `BackTrue`: the real transforms separate and join the transforms of
   the even and the odd half.  `SpectralUnique`: a packed spectrum has one signal.
8. `BinsMultiplied`, `BinsCorrelated`, `ConvolvedSum`, `FilterSum`, `GradientSum`: products of
   packed spectra are circular convolutions, and the zeroes in one half keep them
   from wrapping round.

`EngineInv` is the inductive invariant: `Has` says, for each kind of job, what time
domain and spectra hold before its c-th call, and `Halfway` that `buf` is `Staged` as
far as the stages have come.  `EngineRoundTrips` follows as well: the inverse gives
back what the forward transform was given.  All of it is about exact arithmetic;
what rounding does to floats is not touched.

**PrivacyLatch_proofs**: `NoPowerIntoRail` and `SteadySearch`, two action
properties, for both boards and early searches.  `SearchInv` says what a search
that nothing moved under has found out: it was refused on an engaged latch and
powers the sensor on a clear one.  `ClearNeverRefused`: `set_gate_state` never
turns a power-on away from a clear latch, though it decides by a cached state that
an early search, a board without the latch or a lost notification may have left
behind.  It needs `ColdInv`: before `gating_probe` is through nothing has been
notified and the cache holds what it was born with.

**FlashBoot_proofs**: `FlashesOnlyTheImage`, `BackupExists`, `RefusalsHold`,
`VerdictsTrue`, for an image and a partition of any size.  `RefusalsHold` speaks of a
1.x device only where its header reached the host whole; where it did not, the
code writes (section 5).  `FlashInv` carries
what each stage of the script has established (the image is plain from `clear`
on, the backup equals the untouched partition from `size` on, `dest` is the image
at `flash`), which is what the checks in the code are for.  `RunsDown` gives the
script a measure, `Left`, the commands still to come: a chunk costs at most three
tries of two commands and a verdict, the poll `PollLimit`, the rest 16, and
every command lowers it, whatever the link does.

**CmdqLibrary_proofs**, the shim: `MapIsInverse`, `KnownEventsRun`, `CommandsPassOnce`,
`AnswersUniform`, for any
threads, submits and recheck count, and for every header with one name for an
index (`OneNamePerIndex`: the kernel keeps one hardware value for each) and every
device tree.  `MapIsInverse` is about the operators alone: the name the generator
chooses for a hardware value has its index in the kernel's table, and every name
with that index is the same.  `KnownEventsRun` adds `SubmitInv`, how far each
thread has come with its submit, and the lemma `RoundTrip`: translating and
looking up gives back what was submitted.  `SentInv` is the same for the commands
of a call, `AnswerInv` for the structs of a GETINFO.

**CmdqLibrary_proofs**, the library: `ShimInLibrary`, `HookPassesOn`, `VerdictIsKernels`,
`RescaledOnce`, `FreshCorrected`, of `LibrarySpec`.  A behaviour
has one client, so `ClientInv` is the shim's invariant or the hook's.  `HookInv` is
how far the hook has come with each thread's submit (`Hooking`), and that
`fix_events`, which any thread may resolve at any time, is either unresolved or
what the environment says (`Environment`): a thread that resolves it late, after
another one has begun to translate, still resolves it to the same.  That the
hook's verdict is the kernel's rests on `HookAssumption`: no header declares an
index from `TokenMax` on, the first the hook calls bad.

The scan of `AwbTrim` is a recursive function over the indices of the struct.
`ScanExists` gives a function that satisfies its equation, the set of triples
that match, and `ScanUnique` that there is no other: of the indices where two
differ there would be a last one.  So `Hits` are the triples that match, once no
match lies astride of two triples (`MatchIsTriple`).  That is `UnityApart`, the
hypothesis of the two theorems: no word between the triples is 512, and either
nothing beside a triple looks like a gain, or no gain, computed or trimmed, is 512.
Either half is realistic, and the run assumes the same (`SmallUnityApart`).  It is
needed: with a gain of 512 and plausible words beside the triples, TLC finds a
triple that is left uncorrected, and with two adjacent triples one gain that is
rescaled twice (section 5).  `AwbInv` says of each triple that what stands in it is
what was computed or what was last written, which is how the code tells a
recomputed triple from its own work.

**BlobTree_proofs**: `StampsTrue`, `BlobsForDevice`, `ReportedTreesFit`, for any
devices, blobs and lists of blobs to link.  `DeviceInv` carries what a running
fetch relies on (the stamp is its device's or absent, and so is every blob).
`LinkInv` says what each loop has done, and (`Spared`) that blobs only one script
links cannot have been torn by the other since its report: when the second of
the two reports, all are whole.

**TuningLibrary_proofs**: `BackupStaysUnpatched` and `BlackLevelStacks`, for
whichever commands are cut off.  `BackupInv` needs that a library that is
patched has a backup; `StackInv` that the file on the host carries
the white balance of the library as it was when the script began.

Model-checked only: that something happens in the end (`LockReleased`,
`OpensOnceCleared`, `Ends`), which rests on fairness and is out of TLAPS's reach:
proved are the safety halves (`LoopRunsDown`, `ClearNeverRefused`, `RunsDown`),
which say that nothing the holder, the driver or the script does leads away
from it.  Every other property of a passing run is a theorem.

## 5. Findings

Runs with `expect: violation`; `PROJECT.json` `findings` quotes the line the code
disagrees with.

* `aec_resolve_race`: `resolve()` takes the first of three unlocked pointers for
  all of them.
* `speex_suppress`: `spx_echo_suppress` without `spx_denoise`, which is off by
  default, makes the preprocessor run and leaves every gain at 1
  (`preprocess.c:932-937`).
* `privacy_latch_race`: a search looks at the latch twice, and a short press in
  between loses a fitted camera.
* `flash_boot_poll`: errexit and pipefail end the script inside the poll that is
  there to tolerate the device being away.
* `blob_tree_soname`: a private library whose download was not followed by
  `--set-soname` is taken for finished by the next run.

Met while modelling, without a run of their own:

* `speex_echo_state_reset` clears `N*M` weights of both filters (`mdf.c:533-536`),
  of `N*M*C*K`, which lie block by block with the loudspeakers inside each block:
  with two loudspeakers, the default, the half of the blocks with the longer
  delays survives the reset, for both loudspeakers, in a filter that went wrong.  The far end and the error are
  cleared in part as well.  `EchoReset` does as the code does, and the properties
  of `SpeexEcho` hold over it.
* With the Speex engine and array 0 only the first selected microphone is
  processed (`amznaec_shim.cpp:402`), while the comment at lines 36-38 says each.
  `ProcessorsReady` has it as the code does (`OutputFor`): the others come back
  raw, or silent if they are muted.
* A reset is a step in the sound: it empties the foreground, and the next block's
  output does not fade from the filter before (`mdf.c:524-537`, 1032-1036).
* After a reset, and until the filter is adapted again, the residual echo is made
  from what was kept before it, over and over: the comment at `mdf.c:1181-1185`
  says the far end is taken instead, in code that is commented out.
* `flash-boot.sh` pulls the recovery's header and looks for a word that only 1.x
  has (69-72); if the header arrives empty or damaged, a 1.x device passes, where
  the repository's `README.md:129-130` says the script "detects a 1.x device and
  refuses to write to it".  A partition written then has its verified backup.
* The sums of the AEC shim's level log outlive the session, so the first window
  of a session mixes two (`amznaec_shim.cpp:453`).
* tinyalsa's `pcm_open` reports a failure with a handle that is not ready; the
  shim takes it for an open stream and gives it the session
  (`amznaec_shim.cpp:482`).
* A triple of which the algorithm recomputed one gain only would have the other
  rescaled again: the memory is per triple (`cmdq_event_shim.c:467`).
* A gain that is exactly 512 can make a green word look like a gain, so that a
  triple is missed or rescaled twice (`cmdq_event_shim.c:461`, `UnityApart`); one that is recomputed to what the trim wrote stays
  uncorrected for that frame (467).
* A chunk that never arrived fails the assignment of its hash and ends
  `flash-boot.sh` at the first try, the cause of `flash_boot_poll` again; a `dd`
  that fails ends it before "READBACK MISMATCH - do not reboot" is printed.
* A backup `.orig` that was cut off is taken for the backup from then on and put
  over the library by `--restore` (`patch-awb-d65.sh:57`).
* A library torn by a push that was cut off is patched and reported by the next
  run of `patch-obc-pedestal.sh`; and `patch-awb-d65.sh` run after it starts from
  the backup and takes the black level out again.
* A private library cut off behind the constant makes every later run of
  `install-private-dpframework.sh` fail until it is removed by hand; so do torn
  blobs for the linking scripts until the copy is run again.
* `install-blobs-to-tree.sh` does not look at the cache's stamp: after
  `fetch-camera-blobs.sh crown` without `CAMERA_DEVICE`, crown's blobs go into
  cronos's tree.
* The event map is not idempotent (5 goes to 9, 9 to 20): a buffer submitted
  twice would wait for other events; and hardware events without an entry pass
  through and are read as indices.

## 6. Not modelled, and the plan

Left out for good, and why:

* SpeexDSP outside of what the shim builds and calls: the fixed-point branches,
  `smallft.c`, the resampler, jitter buffer and other files that are not compiled;
  and inside it step sizes, leak estimation, noise estimation and gain rules,
  which are real-valued calculations without a property TLC could tell.
* The display framework adapter and `camera_shim` forward calls; the adapter's one
  state is a look-up that is remembered, also when it failed.
* Patches 0005 and 0006 and the sensor patches are hunks of drivers and of a
  service whose sources are not in the repository; a model would have to invent
  the life cycle around them.
* Device tree and build patches are configuration; the checks only read and
  report; the orientation patch and the install scripts repeat straight edits
  and pushes of the kind `TuningLibrary` and `BlobTree` model.
* In `bayer_override`, the fixed `v[16]` its property is read into: the model has the
  property's value only.
* The logging of the cmdq shim and the hook (their tables of what was seen, the
  dump of submits), the path redirection of `fopen`, and the programs that poke
  registers by hand (`sensorpoke`, `ispwait`, `isppoke`).

What remains worth doing, in order:

1. `Install`: `install-cmdq-event-shim.sh`, `install-amznaec-shim.sh`,
   `camera-bringup.rc` and patch 0013: cameraserver must not run before its shim
   is there, over installs cut off and run again.
