# Verification of the Coral NPU co-simulation

TLA+ models of the repository's own code, the TLC runs that check them on small
instances, and TLAPS proofs of the properties that hold for every instance.
`PROJECT.json` maps every definition to the lines it models and lists the runs,
the hazards they aim at, the findings and the theorems.

## The system

The repository couples a Verilated Coral NPU core to a gem5 full-system
simulation, and carries two older near-data devices for the same simulator.

| part | source (below `src/`) | modelled by |
|---|---|---|
| host commands: DMA test, vector add, model files, MobileNet test | `runtime/host/src/coral_runtime.c` | `HostCommands` |
| host runtime: open, run, close | `runtime/host/src/coral_runtime.c` | `CoralRuntime` |
| Linux driver | `runtime/kernel/opennpux_coral.c` | `CoralDriver` |
| device shell, Verilated backend | `sim/gem5/src/dev/npu/npu_device.cc`, `coral_verilated_backend.cc` | `NPUDevice`, `CommandDevice` |
| Stage-A backend | `sim/gem5/src/dev/npu/coral_stagea_backend.cc` | `CommandDevice` |
| bridge ABI | `sim/coralnpu/hw_sim/gem5_bridge/coralnpu_gem5_abi.cc`, `gem5_core_mini_axi_wrapper.h` | `CoralBridge`, `BridgePorts` |
| AXI adapters | `gem5_axi_master_drivers.h`, `gem5_dma_request_builder.h` | `AxiAdapters`, `BridgePorts` |
| custom MAC | `gem5_custom_mac.h`, `hdl/verilog/opennpux/OpenNpuXCustomMac.sv` | `CustomMac` |
| operator ABI, hybrid operators | `coral_operator_client.h`, `gem5_hybrid_operator.cc` | `HybridOperator` |
| NPU firmware | `gem5_command_smoke.c`, `gem5_dma_smoke.c`, `gem5_mobilenet.cc` | `CoralFirmware`, `BridgePorts` |
| NDP DMA engine | `sim/gem5/src/ndp/ndp.cc` | `NDP`, `NDPAnyDevice` |
| Gemmini device | `sim/gem5/src/gemmini_dev_a/gemmini_dev_a.cc` | `GemminiDevA`, `GemminiEngine` |
| Gemmini Linux driver | `sim/gem5/tests/test-progs/gemmini-apps/driver/gemmini_dev_a_drv.c` | `GemminiDriver` |
| search device | `sim/gem5/src/ndp_dev_a/ndp_dev_a.cc` | `NDPDevA` |
| guest tools, scripts, vendored gem5 | | no: I/O, or the models' environment |

How they interact: a host command prepares the shared window and calls
`opennpux_coral_run`. The runtime submits the run with the driver's START ioctl
and waits with poll(2); a delayed work item of the driver reads STATUS once per
period and wakes the poll. START pulses RESET_CONTROL of the shell, whose write
handler sets the backend running and schedules its event. Each event steps the
bridge for a batch of clocks, in which the core runs its firmware. Its AXI
accesses pass an adapter and reach a callback of the bridge. The callback answers
accesses to the MAC, to the operator registers and to the local EXTMEM in place;
any other it puts into the bridge's one request slot, the shell turns it into a
gem5 DMA, and the completion goes back through backend and bridge to the core. A
run ends when the core halts; the host then checks the mailbox that the firmware
left in the window. The drain manager may checkpoint the simulation in between.

The near-data devices share a DMA engine: `accessMemory` splits a burst into
packets, `sendData` sends them one event at a time while fewer than `maxReqs` are
out, and `memCallback` counts an answer out and, when its burst is complete, calls
the device's `recvData`, which may ask for the next burst at once. Programs reach
the Gemmini device through an ioctl that allocates the buffers, writes the
registers under a mutex and polls the status register for up to five seconds.

## The models

### `CoralBridge` and `NPUDevice`

The bridge has no thread of its own, so `CoralBridge` has no variables: a handle
is a record and every ABI function an operator from a handle to the set of
handles it may leave. The core is external: in a clock it may take the responses
offered to it, issue an access on a channel whose adapter is ready, halt, wait
for an interrupt or fault. `InOrderCore` restricts it to one access at a time.

`NPUDevice` keeps the members of shell and backend under their names. gem5 is
single threaded, so an action is a whole handler: `processBackendEvent`,
`completeBackendDma`, `MmioRead`, `WriteResetControl`, `drain`, `serialize`,
`drainResume`, `unserialize`. A `fatal_if` sets `exited`. The data of an access is
abstracted to its type and to where it goes: into the shared window, outside of
it, a malformed burst, or a register that the bridge answers itself. One clock
stands for a batch, which is the finest interleaving with the other handlers.
`env`, fixed in the initial state, says what core and what guest there are.

### `AxiAdapters`, `CustomMac`, `HybridOperator`, `BridgePorts`

These look into the bridge. `AxiAdapters` is the two adapters with the pins they
drive and read, one operator for each part of `OnFallingEdge`. `CustomMac` is the
MAC's registers and busy counter with words of `Words` values. `HybridOperator`
is the client's staging allocator and descriptor and the bridge's validation and
dispatch, with 32-bit arithmetic scaled to `U`. `BridgePorts` composes them with
a core that raises and drops its pins in every order AXI allows, and with two
pieces of firmware: `custom_add`, and the submission of a convolution. Its handle
maps to the one of `CoralBridge`, of which it is checked to be an implementation
(`ImplementsBridge`).

### `CoralFirmware`, `CommandDevice`, `HostCommands`

These follow the data. `CoralFirmware` gives each program as its accesses to the
window. `CommandDevice` is the shell with either backend, the core that runs such a
program, the window in memory and the local EXTMEM; `HostCommands` the host's side,
on the driver or on `/dev/mem`. A cell of the window carries a ghost bit: a run that
the current call started wrote it. That makes "the result is not left over from an
earlier run" an invariant.

### `CoralDriver` and `CoralRuntime`

`CoralDriver` interleaves system calls of several threads, the delayed work and
the device at every access to `running`, to a register, to the work item or to
the wait queue. `cancel_delayed_work_sync`, the mutex, poll(2)'s loop and the wait
queue are modelled by what the driver relies on: a cancelled item stays off the
queue and its execution is waited for; a wake-up between the driver's poll method
and the sleep is not lost. The device is what its registers show.

`CoralRuntime` extends it with processes that open the device, run and close,
through the driver or through `/dev/mem`, with signals, timeouts and kills.

### `NDP`, `NDPAnyDevice`, `GemminiDevA`, `GemminiEngine`, `GemminiDriver`, `NDPDevA`

`NDP` defines the engine as a record and its methods as operators, because
`memCallback` calls into the device in the middle of its own update.
`NDPAnyDevice` is the abstract specification: the engine under a device that may
ask for any burst at any time, from within `recvData` included. `GemminiDevA` and
`NDPDevA` are the two devices with their registers and job state machines; each
implements `NDPAnyDevice` (`UsesEngine`, the engine variable mapped to itself).
Addresses stand for chunks of `maxRSze` bytes. The memory answers in any order and
may refuse a packet and grant it later. `NDPDevA` computes its three scans on real
vectors and is compared with the benchmark's software baseline.

`GemminiDriver` puts callers of the ioctl on `GemminiDevA`, with the sizes that
driver, device and kernels each compute for themselves, allocations and copies
that fail, and the timeout. A chunk of memory holds whose data is in it: operands
of a caller, its result, zeros, or junk.

## The runs

| run | question | result |
|---|---|---|
| `npu_shell` | any guest and core; an in-order core with a guest that waits for its runs | a running NPU is never stranded, one DMA, counters agree, checkpoints are quiet; in the second environment responses match the accesses performed, no protocol `fatal_if`, accesses are answered, drains complete |
| `npu_drainwrite` | is the drain manager told when a write makes the device quiet? | violated |
| `bridge_ports` | the adapters pin by pin, with MAC, operators and local EXTMEM behind them | each access is performed once and gets its own beats, the adapters implement `CoralBridge`, `custom_add` adds, staged tensors are apart and accepted, no fall-back after a submission; programs end |
| `host_window` | host commands and firmware over the shared window, three kinds of device, timeouts | success is of this call's runs, refusals have a cause, prepared data is kept, the driver's device survives; runs end |
| `host_halt` | is the local EXTMEM written back before the halt is visible? | violated |
| `driver_threads` | two threads on one file, with START or RUN | cancelled work stays away, runs are tracked, a closed device is stopped; pollers are woken, calls return |
| `runtime_forced` | two processes on the driver; one on `/dev/mem` | each waits for its own run, is never refused, leaves no run behind and takes no old status for its own; runs return |
| `runtime_fallback` | is the driver used whenever its node exists? | violated |
| `ndp_engine` | the engine under any device, overlapping bursts | one sender, no request stranded |
| `gemmini_driver` | two callers of the ioctl; a program that uses the registers itself | no panic, own results, DMA within the buffers, nothing read after writing began; calls return |
| `ndpdeva_scan` | count and maximum over vectors that arrive in any order | the baseline's results, the engine used as `NDPAnyDevice` allows; jobs finish |
| `ndpdeva_hit` | the hit search against the baseline | violated |

Some of these properties name their exceptions, which are behaviours of the code:

* `NoPanic`, `DmaInBuffers` and `ResultIsOwn` hold until a call of the Gemmini driver
  times out. The driver then frees the buffers of a job that it does not stop, and
  the next start writes to a busy device.
* `SuccessIsFresh` and `RefusalHasCause` except runs that halt within a register
  access with local EXTMEM (`host_halt`), and the second also calls that begin while
  an earlier run, given up on `/dev/mem`, is still on the device.
* `DriverSurvives` excepts a MobileNet inference that fails: its firmware returns an
  error, ends in `ebreak`, and the backend makes that fatal.
* `MatchingResponse`, `NoProtocolFatal`, `AccessAnswered` and
  `DrainCompletes` are about a guest that waits for its runs. After a reset in the
  middle of one the request slot and the adapters keep the old access, and a
  restarted core can have a second one accepted.

### The violated ones

* `npu_drainwrite`: `NPUDevice::write` does not call `checkDrainDone`. If it stops
  the backend while the device is draining, it removes the event that would.
* `host_halt`: the shell writes the local EXTMEM back in the backend's event, but a
  STATUS read clocks the core. The halt can happen in that read and is visible
  before the copy; the RESET that the driver sends next removes the event, so the
  results are not published at all.
* `runtime_fallback`: a second process gets EBUSY from the driver, takes that for a
  missing node and uses `/dev/mem` under the first one's run.
* `ndpdeva_hit`: a search that misses keeps the result register of the job before.

Each finding in `PROJECT.json` quotes the document, comment or baseline it disagrees
with.

### Bounds

* `NPUDevice`: all four kinds of destination, both channels, and counters modulo 2
  so that they wrap within a few accesses. The rest of the state is finite by
  itself, so nothing else is cut off.
* `BridgePorts`: bursts of up to three beats (first, middle, last); MAC words of two
  values, enough to tell a stale operand or result from the right one; an address
  space of 4096, an EXTMEM of 192 bytes and a staging arena of 128, with
  convolutions that the kernel takes, that it refuses, that end with the arena,
  that are a byte too large, that have a zero dimension, and whose size wraps.
* `HostCommands`: two jobs of one and of two elements, so that a small job runs after
  a large one and leaves elements of it alone; models of two good commands, of a
  good and an invalid one, and of one with a wrong checksum. `MaxStarted` = 2 bounds
  the DMA requests counted since the host's last reading; only zero, equal and more
  are told apart. Calls follow one another without bound, and any of them may time
  out.
* `CoralDriver`: two threads, since the hazards are races of two calls or of a call
  and the worker; `MaxPolls` = 1 reaches both ends of the RUN loop. Threads make
  any number of calls in any order within a program of `MCCoralDriver`.
* `CoralRuntime`: two processes, since the device has one opener at a time;
  `MaxSignals` = 1 interrupts a poll once; `MaxPolls` = 2.
* `NDPAnyDevice`: three chunks, bursts that overlap or contain each other,
  `MaxReqs` = 2, at most three requests in the list and three packets out. The
  engine has no such limits; with `MaxReqs` = 2 three packets suffice for it to
  fill, sleep and wake with one left over.
* `GemminiDriver`, `NDPDevA`: up to four chunks a burst against `MaxReqs` = 2, so that
  every job sleeps at the limit; jobs follow one another without bound. Two callers
  contend for the mutex; six chunks of memory make allocations fail and chunks be
  reused; `Mod` = 128 lets a size wrap around; `MaxTimeouts` = 1, as a single
  timeout reaches the panic and the freed buffers. The allocator takes the first
  free place, which reuses chunks as early as possible.

Deadlock is checked in every run; where gem5 has stopped (`exited`, `panicked`) the
models stutter explicitly.

### Fairness

* `NPUDevice`, `HostCommands`: gem5 runs scheduled events and the memory answers
  (weak). In `NPUDevice` a core that is offered a response again and again takes it,
  and it does not compute for ever (strong); nothing obliges it to fault. Nothing is
  assumed of the host.
* `BridgePorts`: the memory answers (weak), and a core that is clocked again and
  again moves on at some of these clocks (strong): it puts up what it has to send
  and is ready for a response.
* `CoralDriver`: the scheduler runs every thread in the kernel and the work queue
  (weak); the mutex does not starve a waiter (strong on the two steps that take
  it). Nothing is assumed of the device, of timeouts or of what threads call.
* `CoralRuntime`: besides, a process goes on with a run it has begun, and its poll
  has a finite timeout; signals are finitely many.
* `GemminiDriver`, `NDPDevA`: events run, accepted packets are answered (weak), and a
  packet asked for again and again is granted (strong). Callers within the ioctl
  run (weak) and get the mutex (strong); nothing is assumed of the timeout.

## The proofs

`NPUDevice_proofs` proves, for every set of destinations, counter width, guest and
core, that `TypeOK`, `NeverStranded`, `OneDmaInFlight`, `DmaAccounting`,
`SlotUnanswered` and `StoppedIsQuiet` are invariants of `Spec`. The assumptions are
those of the constants: destinations are among the four kinds, the counter
modulus is positive. The inductive invariant `IInv` adds what the others need:

* `BridgeInv`: a queued response belongs to a request that its adapter holds, and
  the request in the slot is held and unanswered. Without it a clock could retire
  a request that is still in the slot.
* the event is scheduled exactly when the backend has a next one, it has one only
  while it runs, and a running backend has an event or a DMA. The completion
  handler re-arms the event from `running` alone, so the two facts go together.
* the checkpoint's two counters are equal, which makes a restore agree with an
  idle engine.

There is one lemma for each bridge operator (what it keeps of a handle), one for
each handler, and one theorem for each property.

`NDP_proofs` holds the lemmas about the engine's methods. `Sound(e, late)` carries a
parameter: inside `memCallback` the packet has left the memory but is not counted
out yet, so that while `recvData` asks for more `flyReqs` is one more than the
packets in memory (`late` = 1). `Called(e, late)` describes the moment when `sendData`
is about to run and nothing else will call it. Each method takes `Sound` or `Called`
to `Sound`, and `memCallback` is their chain. For an engine with one burst there are
sharper lemmas: the packets waiting and in memory are exactly the chunks that the
request still waits for, so it completes with the last of them.

`NDPAnyDevice_proofs` draws from the first kind that `FlyCounted`, `SingleSender` and
`SleeperWakes` hold for every set of bursts, every `maxReqs` and every device.

`GemminiDevA_proofs` draws from the second kind, for every set of jobs, that
`StatusTruthful`, `ReadsBeforeWrites` and `OperandsRead` are invariants. `DevInv` says
which burst is outstanding for each count of operands, and that its packets are
those of one register; `GemminiEngine_proofs` uses it to prove `Spec => UsesEngine`:
each step of the device is a step of `NDPAnyDevice` or leaves the engine alone.

`GemminiDriver_proofs` proves for every set of callers, requests and chunks, every
word width and chunk size, that `NoPanic`, `ResultIsOwn`, `DmaInBuffers`,
`KernelInBounds` and `NothingLeaked` are invariants of `DSpec`. The invariant `GInv`
is `DevInv`, and

* `DriverInv`: only the owner of the mutex is past it, and it alone holds buffers,
  which are apart and as long as the driver's sizes say; a job runs in the device
  only while that caller waits, and its registers are those buffers;
* `DataInv`: while it waits its operand buffers hold its operands, the device has
  read nothing else, and what was written of the result is its result.

That the registers describe the buffers needs `ElementsAgree`: whenever the driver
accepts a request, its checked products and the device's unchecked ones, which
are grouped in another way, are equal. The assumptions are those on the
constants, among them that pooling in gemm layout has a window of two.

Some theorems state properties that no run lists, because a proof for every instance
leaves nothing for a run to add: `TypeOK` and `SlotUnanswered` of `NPUDevice`,
`FlyCounted` and `SleeperWakes` of the engine, `StatusTruthful`, `OperandsRead` and
`UsesEngine` of the Gemmini device, `KernelInBounds` and `NothingLeaked` of its driver.
The type invariants of the other modules describe their state to the reader; they
are neither proved nor listed by a run.

Only model-checked: liveness and anything under fairness; `RequestsBacked`, whose
invariant has to follow each packet of overlapping bursts to its request; the
refinements `UsesEngine` of `NDPDevA` and `ImplementsBridge`; the properties that need
an in-order core or a guest that waits (`MatchingResponse`, `NoProtocolFatal`);
adapters, MAC, operators, host commands, the Coral driver and
the runtime.

## What is not modelled

* The RTL of the core, and gem5 itself: they are the environment. Of the core
  `BridgePorts` and `CommandDevice` assume that it has one access at a time and leaves
  a clock between two, and that after a restart it does not reach its first access
  before the access of the run before is answered. An erroneous read is taken to
  end with its one beat.
* The page cache of fast DMA for devices without local EXTMEM.
* The numeric kernels (MobileNet, hybrid operators, Gemmini's matrix code) beyond
  the ranges they touch: floating-point and quantised arithmetic on tensors is not
  a matter of states. Of the hybrid operators the convolution stands for all.
* Formats, addresses below a chunk, element types, printing and argument parsing;
  progress, trace and statistics output of the bridge.
* Loading the bridge library and the firmware, probe and remove of the drivers, and
  the mappings they hand out: done once before the modelled operations.
* The engine's pass-through of CPU packets, and a burst of zero bytes, which no
  program of the repository asks for.
