# TLA+ models and proofs of LZAMP / MailMsg

LZAMP runs Linux on most cores of an RK3588S and a Zephyr image on CPU3.  The two
exchange frames over *MailMsg*: one pair of lock-free rings per priority in shared
memory, and one mailbox doorbell bit per priority and direction that says "look at your
ring".  Linux owns the life of the other side: it loads the image, powers CPU3 on
through PSCI, waits for `SESSION_READY`, stops it and notices when it is gone.

Paths below are relative to `src/LZAMP/`; "the driver" is
`linux/drivers/lzamp_amp_mailmsg.c`, "the firmware" is `firmware/zephyr/app/src/main.c`.
(`src/src/mailmsg` and `src/src/zephyr-amp-shmem-ping` are earlier copies of the protocol and the
firmware with the same text.)

## Inventory

| Component | State | Operations | Interacts with |
|---|---|---|---|
| Ring (`protocol/mailmsg/mailmsg.c`) | `producer`, `consumer`, 8 slots with a commit word | push, pop, has_data, count | one producer CPU and one consumer CPU, no lock; cache maintenance through `publish`/`acquire` |
| Endpoint (`mailmsg_endpoint.c`) | sequence counter, bound generation, statistics | bind, send (push, then doorbell), receive, has_received | rings, notification adapter |
| Firmware | pending bits, semaphore, `session_ready_*` flags | mailbox interrupt, worker thread, `main()` | rings, doorbells, PSCI `CPU_OFF` |
| Driver, lifecycle | `mailmsg_state`, image progress, generation, deadline, three work items, open count | sysfs `image`, `start`, `rearm`, `mailmsg_stop`, `affinity_state`; work items; mailbox callback | PSCI, p0's rings, doorbells, user files |
| Driver, data devices `/dev/mailmsg-pN` | reader claim and count, wait queue, `rx_generation` | open, release, read, write, poll | lifecycle (data gate), rings, callback |
| Driver, test entries | injection counters | `mailmsg_ping`, `mailmsg_crc_inject`, `mailmsg_notify_inject`, `mailmsg_queue_push`, `doorbell`, `mailmsg_response` | rings and doorbells, behind the same gate |
| Diagnostics | observation lines with commit and inverse words, `status`, `mailmsg_stats` | `mailmsg_publish_*_observation()` on CPU3, `status_show()` on Linux | shared memory, no lock between the CPUs; people and test scripts act on them |
| Legacy `ping`/`response` | one request and one response line | `ping_store`, loop of `main()` | unreachable: `ping_store` fails in every state |
| Clients | agent (Python), user client, window benchmark | one request at a time, windowed traffic | data devices |
| Runtime script (`scripts/lzamp-runtime`) | what it has read and how far its upload is | `start`, `stop --with-zephyr` | sysfs entries of the driver, other runs of itself |

What is hard here:

* the rings are shared without a lock by cores that reorder stores, and slots keep stale commit words;
* a doorbell is one bit, merged with earlier ones and cleared by the other side, so a
  wakeup can be lost in the interrupt, in the worker's swap or in a reader that is about to sleep;
* the quota of the worker means that a priority must re-arm itself;
* a start or stop waits for the other CPU while three work items, the callback and
  late answers race with its deadline, and `cancel_delayed_work()` does not wait;
* PSCI's `AFFINITY_INFO` lags behind what the CPU does;
* an observation line is rewritten while it is read, and commit words repeat across restarts;
* the operator's script is a chain of reads and writes without a lock, each of which may fail or be the last;
* Linux wakes CPU3 (by `CPU_ON`, by a doorbell, and by committing a frame that a worker which is
  already awake will find) before its own handler has finished.

## Modules

| Module | Models |
|---|---|
| `MailQueue` | what one ring promises: a FIFO of bounded size with atomic operations |
| `MailRing` | one ring, store by store; refines `MailQueue` |
| `Cpu3Worker` | firmware: interrupt, worker, `main()`, with Linux as sender and reader |
| `Lifecycle` | driver: sessions, work items, gate, stop; with PSCI and CPU3 as environment |
| `UserRead` | driver: one data device, its files, readers and wakeups |
| `PingService` | what a client of one priority meets: endpoints, rings, gate, CPU3's test service |
| `WindowBench` | `tools/mailmsg_window_bench.c` on top of `PingService` |
| `Agent` | `agent/mailmsg_agent.py` and `tools/mailmsg_user_client.c` on top of `PingService` |
| `Observation` | one observation line: CPU3 publishing, `status_show()` reading |
| `RuntimeScript` | `scripts/lzamp-runtime` on top of `Lifecycle` |
| `MailRingProofs`, `Cpu3WorkerProofs`, `LifecycleProofs`, `UserReadProofs`, `WindowBenchProofs`, `AgentProofs`, `ObservationProofs`, `RuntimeScriptProofs` | theorems |
| `MC*` | instances for TLC |

The modules build on each other by assumption and guarantee: `MailRing` justifies that
`Cpu3Worker`, `Lifecycle` and `UserRead` treat a push or a pop as one step on a sequence; `Lifecycle`
justifies that `UserRead` begins a new session only with all files closed
(`OpenFilesKeepSession`), and that CPU3 in `Cpu3Worker` meets one session
(`SessionAgreement`).  Operators named `..._Something` and introduced by "Mutant" are plausible
bugs in the definition they precede; they are used by no specification and show that the
properties can fail.

### MailRing

Variables are the ring (`slot`, `producer`, `consumer`), the program counters and private data
of one producer and one consumer, and the results of their last calls.  Everything between two
`publish()` calls may become visible in any order, so a slot is stored field by field in any
order, and copied likewise.  `body` stands for generation, type, length and payload; the
checksum is the pair it was computed over, so it detects every corruption (a CRC-32 collision is not
modelled).  `PushBegin(s, b, w)` with `w # b` is `mailmsg_linux_ring_push()` with
`corrupt_payload`.  Sequence numbers are arbitrary for every push because they wrap.  The pop copies
before it releases the slot, in program order; there is no barrier between `mailmsg.c` lines 49
and 50, which is listed as a hazard.

### Cpu3Worker

CPU3 is one core: the interrupt preempts both threads, the worker (cooperative priority 0)
preempts `main()`, and `main()` runs only while the worker sleeps with the semaphore down.  A
`Worker...` action is a stretch of `mailmsg_worker()` between two points at which
another actor can matter: the semaphore, the swap, one receive, one reply push, its doorbell, the end
of a priority, the reschedule.  Linux is a critical section that pushes (`LinuxSend`,
`LinuxStop`) and then rings (`LinuxNotify`).  The interrupt handler is one step since Linux leaves
a pending bit and its command alone.  A frame is its sequence number and kind: `PING`, `BAD` (fails
the CRC), `STOP`, `LONG_STOP` (a stop request with a payload).

### Lifecycle

One variable per field of `struct r1_amp_cpu_on_data` that some guard reads.  All handlers run under
`data->lock` and are one action each, with two exceptions, `start_store()` and `mailmsg_stop_store()`,
which are split where they wake CPU3 (`StartBegin`/`StartEnd`, `StopBegin`/`StopEnd`), since CPU3
and the lock-free callback can run before the timeout is armed.  A handler that fails its
early checks changes nothing and has no action, except those that refresh the affinity on the way
(`StartBusy`, `RearmBusy`).  Time is one bit, `expired`: jiffies has reached
`lifecycle_deadline`.  `TimerFires` separates the expiry of the delayed work from the handler that
waits for the mutex, because in between it can no longer be cancelled.  `PreflightChecks` keeps
the integer results of `mailmsg_ring_has_data()` and the constant it is compared with.  PSCI
answers `AFFINITY_INFO` with OFF for a while after an accepted `CPU_ON` (`ON_ACCEPTED`); its error
results are left out.  CPU3 is coarse: `Cpu3Worker` has the detail.  A failed `start` or `stop` passes
through STARTING or STOPPING within its critical section; the callback could at that moment queue
a `control_work()` that finds nothing to do, which is left out.

### UserRead

Frames are counted.  A reader compares `rx_generation` with the value it read before it looked at
the ring; a poller is on the wait queue before it looks.  Both are the bit `event[t]`:
something happened since the snapshot.

### PingService, WindowBench, Agent

`PingService` composes the endpoint's send and receive (sequence numbers that wrap and leave out 0,
a number spent on a full ring), the data gate and the test service (an ACK and a PONG for a
reliable priority, a PONG otherwise, each dropped when the reverse ring is full).  The calls `write`,
`read` and `poll` are predicates that the clients use in their actions.  A request may be served at any time
or never, which covers failed doorbells.  `WindowBench` has one action per branch of the loop and of
the drain; the slots are the set of their values; the two deadlines are flags.  `Agent` has any
number of processes that run the tool or the user client repeatedly, with one action per branch of
`execute_zephyr_increment()` and of the client's `main()`; `quiet` (nothing of anybody else is
under way) and `stolen` (a sysfs read emptied the ring between a client's `poll()` and its blocking
`read()`) are history variables.  `NACK` is left out: these clients' frames pass the CRC.

### Observation

One line, written by `mailmsg_publish_tx_full_observation()` and read by `status_show()`; the
worker's line is written and read in the same way.  `count` is the counter of the line, `detail` the rest
of its event.  A publication is its stores, one by one, a barrier, and the commit word; the reader is its loads,
one by one, with the second invalidation between them.  Neither the architecture nor the code orders the plain
accesses before the barriers, so the model chooses in `Init` whether they keep program order (`ordered`)
and lets them take effect in any order otherwise.  `start_store()` clears the line and CPU3's
counters begin anew; it and `status_show()` both hold `data->lock`, so that never happens within a call.  The bound on `overlap`
says that one call of `status_show()` does not last for 2^32 - 2 publications.

### RuntimeScript

Every command of `start_zephyr()` and `stop_zephyr()` that reads or writes a sysfs file is one action, which is
an action of `Lifecycle` and a step of the script; a command that fails ends the run.  The upload is
one `write()` per chunk, at the offset `cat` has reached.  Runs may overlap, and `MaxKills` of them are
interrupted.  Everybody else (work items, callback, users, firmware, CPU3) moves between the commands.

## Runs

| Run | Bounds | Shows |
|---|---|---|
| `ring` | 3 slots, sequences {0,1}, 2 bodies | `NoSlotRace`, `LiveSlotsCommitted`, refinement of `MailQueue` |
| `worker` | 2 priorities (one reliable), ring and quota 1, 3 frames | `PendingHasWakeup`, `OneCriticalProducer`, `ReadyComesFirst`, `RungIsKept` |
| `worker_live` | 1 priority, ring and quota 2, 3 frames | `RungFramesDrained` |
| `lifecycle` | 2 priorities, rings of 2, generation modulo 3, 3 frames a session, 1 file | invariants and action properties of the sessions, `OperationEnds`, `OffIsNoticed` |
| `read` | 2 files, 2 threads, ring of 2 | `OneReader`, `NoLostWakeup`, `NoSleepOffline`, `BlockedThreadReturns` |
| `window` | rings of 5, windows 2, 3, 5, 6, both kinds of priority, 8 requests, sequences modulo 4, values modulo 8 | `NoReplyDropped`, `PongsMatchSlots`, `AnsweredRunSucceeds`, `BenchEnds` |
| `agent` | 2 processes, 3 runs of either program, rings of 2, values modulo 3 | `QuietRunIsSound`, `RunEnds` |
| `observation` | commit words 1 to 4, 6 events a session, 2 contents, any restarts | `StableSnapshot`, `QuietLineIsValid` |
| `runtime` | 2 runs at a time, 1 interruption, an image of 2 writes, 1 priority | `OwnImageStarted`, `UploadsWhileOff`, `NoLeftoverImage` |

Why the bounds suffice: three slots give a full ring, an empty ring, a wrap and a slot that is reused
while its old commit word is still there, and a single valid sequence number makes every stale word
match.  In the worker a ring of one fills, overflows in reverse (a reliable PING has two replies) and
reaches the quota with every frame.  In the lifecycle the generation wraps, and two stop
requests and a business frame fit into one session, which is what stale replies need.  Two threads on
two files cover a shared claim, a competing claim and a late release.  A ring of 5 is odd like the real 7,
so the largest reliable window that fits is half of it rounded down; the other windows overflow the reverse
ring (3 and 5, reliable) or the request ring (6), and the seventh request carries the largest value, whose
PONG wraps to 0.  Three agent runs give a late answer, a full ring and two concurrent runs.  Six events make four commit
words repeat within a session, and the reader may meet up to three publications in one call.  An image of two writes
can be left half written and mixed from two runs.  The proofs remove the
bounds for every invariant and action property, in all eight specifications; they remain for liveness.

Deadlock checking is off in the worker, window, agent and runtime runs: CPU3 may end powered off with Linux at
its bound, the clients end, and the script may be stuck behind a half-written image.

Three runs are expected to fail and document where the code departs from what its comments say:

| Run | Property | What happens |
|---|---|---|
| `lifecycle_drained` | `StopStartsDrained` | the preflight compares a 0/1 answer with `MAILMSG_RING_EMPTY` (-1) and returns after its first check; the stop starts over queued frames and pending doorbells |
| `worker_off` | `QuietAfterOff` | the doorbell of STOP_REQUEST arrives after CPU3 has served it and gone; rearm is blocked |
| `agent_own` | `SuccessIsOwn` | the late answers of a run that timed out are taken by the next run with the same value |

Seen while modelling, without a run of their own: a corrupted frame ends the pass over its ring below the
quota, so the frames behind it wait for another doorbell, and a doorbell that arrives before
`mailmsg_session_ready_published` is set is swallowed (`RungFramesDrained` excepts the two by `~BadBefore` and
`published` and holds of everything else); `control_work()` declares STOP_TIMEOUT without the affinity check
of the other timeout path, so a CPU3 that is off is STOP_TIMEOUT first and OFFLINE with the next sample; `mailmsg_response` drains a ring that a
file has claimed, and a user client between `poll()` and `read()` then blocks (`RunEnds` excepts it by `stolen`);
`rearm_store()` believes `AFFINITY_INFO` = OFF while an accepted `CPU_ON` does not show yet, and the image of a
CPU3 that is about to run can then be rewritten (the script never does, `UploadsWhileOff`); without the hypothesis
`ordered`, `StableSnapshot` fails with a torn snapshot that is reported as valid, although `main.c:254`
promises a stable one; an upload that is interrupted leaves `image_written` in the middle, where neither a new upload
(-ESPIPE) nor `rearm` (-EINVAL) gets past it; after a failed `CPU_ON` the state is unarmed with
`cpu_on_attempted` set, so the script never rearms and its upload answers -EBUSY.

### Fairness

* `Cpu3Worker`: weak fairness of the interrupt (level-triggered, unmasked), of the worker and of
  `main()` (nothing else runs on the core), and of `LinuxNotify` (the driver does not stop between a
  push and its doorbell).  Nobody is obliged to send or to read: a full reverse ring just drops replies.
* `Lifecycle`: weak fairness of the handlers that hold the mutex, the timer, the passing of time,
  `lifecycle_timeout_work()` and `affinity_work()`, which the kernel's timers and work queue provide.
  Neither CPU3 nor firmware nor `control_work()` owes anything: `OperationEnds` holds without an answer.
* `UserRead`: weak fairness of CPU3's doorbell after its push, interrupt delivery and runnable threads.
* `WindowBench`, `Agent`: weak fairness of the client process and of its deadlines; CPU3 owes nothing.

## Proofs

TLAPS checks every theorem; nothing is assumed but the named assumptions on the constants
(sizes are positive naturals, at least two slots, 0 is a priority, the generation has more than one
value).  Every invariant below was checked by TLC on the run's instance before it was proved.

`MailRingProofs` (any number of slots, any sequence numbers and bodies).  `NoSlotRace` is not inductive: that the two
sides stay apart follows from what each has seen of the other's index, and that what is
released is whole follows from what was stored.  `IInv` adds: a consumer past its empty test has a
non-empty ring and a producer past its full test a free slot (`IndexInv`); every slot between the
indices is a committed frame (`LiveInv`); the fields stored so far are those of the message
(`ImageInv`) and the fields copied so far are still those of the slot (`CopyInv`).  From it
follow the safety properties, that `INCOMPLETE` cannot occur (`NeverIncomplete`) and, step by step, the refinement `Spec => Queue!Spec` with the mapping
`queue <- Contents`, `offered <-` the frame being pushed.

`Cpu3WorkerProofs` (any set of priorities, ring sizes, quota and doorbells).  `PendingHasWakeup` is stated so
that it carries itself: a pending bit has the semaphore up, or the worker is awake and in front of its swap; "the
worker is awake" alone would be true but would not survive the swap.  `IInv` adds what the threads know
of each other (`ThreadInv`: the worker exists once `main()` has made it, serves only after `published`, has a list
exactly while it scans, and a reply to send while it replies), that a Linux that has not seen `SESSION_READY` has
queued nothing and can meet nothing else (`ClosedInv`), and that it cannot have seen it before it was pushed
(`OpenInv`).  `RungIsKept` is an action property: it follows the priority from the doorbell through bit, swap, list,
quota and reschedule, one case per action.  The worker scans the lowest listed priority, which exists because
a set of naturals has a least element.

`LifecycleProofs` (any set of priorities, ring size, wrap of the generation and bounds).  `IInv` strengthens the checked
properties with: what holding the mutex means (`HandlerInv`); that CPU3 executes only when powered, has bound the
current generation, and that a non-empty reverse ring was filled by the image of this session
(`Cpu3Inv`); that a live session has a CPU3 that serves or is off (`LiveInv`); that no sequence number
is ahead of the counter (`SequenceInv`); and that a stop request is the newest frame CPU3 gets until it is
answered, so that the refusal which carries its number was sent by a CPU3 that stayed (`RequestInv`).
Each conjunct has a lemma with one case per action; the theorems combine them.

`UserReadProofs` (any files and threads).  The conjunction of the four checked invariants is inductive.

`ObservationProofs` (any contents, any number of events, any width of the commit word above 2).  `IInv` adds to the types: what the line holds
at every point of a publication, in particular that its commit word is gone, the last one or, before it is cleared,
the one before (`WriterInv`); where the reader is and what its histories say (`ReaderInv`); that the fields loaded
so far are those of the first commit word as long as the line still has it, and that the counter is at most
`overlap` publications away from it, so that it does not come round to it within the call (`SnapshotInv`); and that nothing
moved in a quiet call (`QuietInv`).

`WindowBenchProofs` (any ring size, windows, number of requests, width of values and of sequence numbers; the
assumption is that a run does not use one value twice).  `IInv` says that slots, `outstanding` and `write_ok - pong`
agree (`CountInv`); that the values in use are the last ones before `next_value`, counted from the base value and across the wrap
(`FreshInv`); that every request on its way has a slot and is in one place only: queued, in CPU3's hand
or answered in the reverse ring (`PipeInv`); and, while the window fits, that the replies ahead, queued or still to be sent,
are exactly those of the requests on their way (`FitInv`).  For a reliable priority ACKs and PONGs alternate in the reverse ring, and `Lag`
says which of the two is next; so the replies ahead are at most two per slot, a reply that is to be sent
finds room (`RoomForReply`), and with nothing outstanding no ACK is missing.

`AgentProofs` (any processes, runs, inputs, ring size and widths).  `QuietRunIsSound` speaks of ended runs, so
`IInv` says what is under way before: as long as a run is alone, everything in the rings and in CPU3's hand carries its number and its value
(`OwnTraffic`), and its ACK and its PONG are met in this order and once each, in the ring or by the run, where either may have been
dropped by a full ring or taken by somebody else (`OneAnswer`); the validator's bound on the value holds until the end of the
tool's run (`Local`).  A client counts frames and does not look at them: that its two frames are one ACK and one PONG is the content of the theorem.

`RuntimeScriptProofs` (any runs, interruptions and image size, on top of `LifecycleProofs`).  First, every step of the script is a
step of `Lifecycle` or leaves it alone (`ScriptObeysLifecycle`), so the invariant of the lifecycle holds under the script.
`ScriptInv` adds: what has been written of an image belongs to the run that writes, and nobody has started it (`UploadInv`); a
session is OFFLINE only with CPU3 off (`PowerInv`); a lone run rearms only such a session (`AloneInv`); and a part of
an image has a run that goes on with it (`LeftoverInv`).

Only model-checked: all liveness (`RungFramesDrained`, `OperationEnds`, `OffIsNoticed`, `BlockedThreadReturns`, `BenchEnds`,
`RunEnds`), which rests on fairness and is beyond this prover.  The three properties that fail are shown by their counterexamples.

## Not modelled

* Frame layout, the CRC polynomial and little-endian packing: data, not control.
* `mailmsg_stats`, the endpoint's statistics other than `tx_full`, heartbeat, checkpoint and mailbox marks: counters nobody
  waits for, and lines without a commit word.
* Probe and registration: once, sequential, before anybody can call, no remove path.  (When creating the
  `image` file fails, the mailbox channels are not given back.)
* The legacy request lines and the loop of `main()` that serves them: `ping_store()` fails in every state.
* The mailbox controller driver, the kernel patches and PSCI: third-party; what they do is an external action.
* The RKLLM half of the runtime script, the grammar of a decision and the agent's dialogue with the language
  model: no contact with the driver.
* Test scripts and bring-up images.
* A weakly ordered `mailmsg_ring_pop()` (`mailmsg.c` lines 49 and 50): the copy is executed before the release.

## Plan

1. Done: ring and its refinement, firmware worker, lifecycle, data devices, agent, user client, window
   benchmark, observation lines and runtime script; proofs of every invariant and action property of theirs.
2. Proofs: the safety half of what liveness rests on, beyond `RungIsKept`: the enabling conditions of the timeout
   and of the wakeups as invariants.
3. Lifecycle and worker composed, with the stop handshake at the worker's granularity.
4. The session check and the statistics of both endpoints, and their conservation.
