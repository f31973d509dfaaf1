------------------------------ MODULE Lifecycle ------------------------------
(***************************************************************************)
(* The session lifecycle of the Linux driver                               *)
(* (LZAMP/linux/drivers/lzamp_amp_mailmsg.c): image upload, start, rearm   *)
(* and stop, the three work items (control, lifecycle timeout, affinity)   *)
(* and the mailbox callback; around it the parts that answer: the PSCI     *)
(* firmware, which powers CPU3, and the CPU3 image.                        *)
(*                                                                         *)
(* Every handler of the driver runs under one mutex, so a handler is one   *)
(* step, except start_store() and stop_store(): they wake CPU3 while they  *)
(* still hold the mutex, and CPU3 and the callback, which takes no mutex,  *)
(* may run before they arm the timeout and let go.                         *)
(*                                                                         *)
(* Time is one bit: whether jiffies has reached lifecycle_deadline.        *)
(***************************************************************************)
EXTENDS Integers, Sequences, FiniteSetsExt, SequencesExt

CONSTANTS
    Prios,        \* priorities; 0 carries the lifecycle frames
    Capacity,     \* MAILMSG_RING_SLOTS - 1
    ImageSize,    \* image_size, in chunks of one write
    GenWrap,      \* session_generation counts modulo GenWrap (2^32 in the code)
    StopReplies,  \* what the CPU3 image answers to STOP_REQUEST
    MaxOpen,      \* bound: user files open at a time
    MaxSeq        \* bound: sequence numbers used in one session

ASSUME PriosAssumption == Prios \subseteq Nat /\ 0 \in Prios
ASSUME SizesAssumption == Capacity \in Nat \ {0} /\ ImageSize \in Nat \ {0} /\ MaxOpen \in Nat /\ MaxSeq \in Nat
ASSUME WrapAssumption == GenWrap \in Nat /\ GenWrap > 1
ASSUME StopRepliesAssumption == StopReplies \subseteq {"STOP_READY", "STOP_REFUSED"}

VARIABLES
    \* struct r1_amp_cpu_on_data
    state,          \* mailmsg_state
    image,          \* image_written
    attempted,      \* cpu_on_attempted
    cpuOnRet,       \* cpu_on_ret
    seenOn,         \* affinity_seen_on
    generation,     \* session_generation, also shared->generation
    peerGen,        \* peer_generation
    nextSeq,        \* mailmsg_endpoint.next_sequence
    stopSeq,        \* stop_request_sequence
    stopReply,      \* stop_reply_type
    openCount,      \* mailmsg_user_open_count
    \* the mutex, the deadline and the work items
    lock,           \* "free", or who holds data->lock between two steps
    expired,        \* jiffies >= lifecycle_deadline
    timer,          \* lifecycle_timeout_work is pending
    timeoutRuns,    \* lifecycle_timeout_work has started and waits for the mutex
    control,        \* control_work is queued
    monitor,        \* affinity_work is pending
    \* shared with CPU3
    l2c, c2l,       \* the rings of each priority
    a2b, b2a,       \* the pending doorbells of each direction
    \* CPU3 and the firmware
    power,          \* what PSCI did with CPU3
    cpu3,           \* how far the image is
    cpu3Gen         \* the generation CPU3 has bound

session == <<state, image, attempted, cpuOnRet, seenOn, generation, peerGen,
             nextSeq, stopSeq, stopReply, openCount>>
works == <<lock, expired, timer, timeoutRuns, control, monitor>>
rings == <<l2c, c2l, a2b, b2a>>
peer == <<power, cpu3, cpu3Gen>>
vars == <<session, works, rings, peer>>

NoRings == [p \in Prios |-> <<>>]

\* Mutant: the generation does not wrap.
NextGeneration_NoWrap == generation + 1

NextGeneration == IF (generation + 1) % GenWrap = 0 THEN 1 ELSE (generation + 1) % GenWrap

Operation == {"STARTING", "STOPPING"}
Monitored == {"STARTING", "START_TIMEOUT", "ACTIVE", "STOPPING", "STOP_TIMEOUT"}

Init ==
    /\ state = "UNARMED" /\ image = 0 /\ attempted = FALSE /\ cpuOnRet = "EAGAIN"
    /\ seenOn = FALSE /\ generation = 0 /\ peerGen = 0
    /\ nextSeq = 0 /\ stopSeq = 0 /\ stopReply = "none" /\ openCount = 0
    /\ lock = "free" /\ expired \in BOOLEAN
    /\ timer = FALSE /\ timeoutRuns = FALSE /\ control = FALSE /\ monitor = FALSE
    /\ l2c = NoRings /\ c2l = NoRings /\ a2b = {} /\ b2a = {}
    /\ power = "OFF" /\ cpu3 = "reset" /\ cpu3Gen = 0

-----------------------------------------------------------------------------
(* PSCI.  CPU_ON may return before AFFINITY_INFO leaves OFF: "ON_ACCEPTED".   *)

AffinityInfo == IF power = "ON_ACCEPTED" THEN "OFF" ELSE power

PsciPowersOn ==
    /\ \/ power = "ON_ACCEPTED" /\ power' = "ON_PENDING"
       \/ power = "ON_PENDING" /\ power' = "ON"
    /\ UNCHANGED <<session, works, rings, cpu3, cpu3Gen>>

-----------------------------------------------------------------------------
(* r1_amp_refresh_affinity_locked() and r1_amp_mailmsg_mark_offline_locked() *)

\* Mutant: a stop that timed out is not watched for OFF.
BecomesOffline_NotAfterTimeout ==
    cpuOnRet = "OK" /\ seenOn /\ AffinityInfo = "OFF" /\ state \in Monitored \ {"STOP_TIMEOUT"}

BecomesOffline ==
    cpuOnRet = "OK" /\ seenOn /\ AffinityInfo = "OFF" /\ state \in Monitored

refresh_affinity ==
    /\ seenOn' = IF AffinityInfo # "OFF" THEN TRUE ELSE seenOn
    /\ state' = IF BecomesOffline THEN "OFFLINE" ELSE state
    /\ timer' = IF BecomesOffline THEN FALSE ELSE timer

affinity_state_show ==
    /\ lock = "free"
    /\ refresh_affinity
    /\ UNCHANGED <<image, attempted, cpuOnRet, generation, peerGen, nextSeq, stopSeq,
                   stopReply, openCount, lock, expired, timeoutRuns, control, monitor,
                   rings, peer>>

\* Mutant: the monitor re-arms itself only while an operation runs.
affinity_work_StopsActive ==
    /\ lock = "free" /\ monitor
    /\ IF state \in Monitored
       THEN /\ refresh_affinity
            /\ control' = IF state' \in Operation THEN TRUE ELSE control
            /\ monitor' = IF state' \in Operation THEN TRUE ELSE FALSE
       ELSE /\ monitor' = FALSE
            /\ UNCHANGED <<seenOn, state, timer, control>>
    /\ UNCHANGED <<image, attempted, cpuOnRet, generation, peerGen, nextSeq, stopSeq,
                   stopReply, openCount, lock, expired, timeoutRuns, rings, peer>>

\* affinity_work(): also the fallback that drains p0 while an operation runs.
affinity_work ==
    /\ lock = "free" /\ monitor
    /\ IF state \in Monitored
       THEN /\ refresh_affinity
            /\ control' = IF state' \in Operation THEN TRUE ELSE control
            /\ monitor' = IF state' \in Monitored THEN TRUE ELSE FALSE
       ELSE /\ monitor' = FALSE
            /\ UNCHANGED <<seenOn, state, timer, control>>
    /\ UNCHANGED <<image, attempted, cpuOnRet, generation, peerGen, nextSeq, stopSeq,
                   stopReply, openCount, lock, expired, timeoutRuns, rings, peer>>

-----------------------------------------------------------------------------
(* Loading and starting an image, and ending its session                     *)

image_write ==
    /\ lock = "free" /\ ~attempted /\ image < ImageSize
    /\ image' = image + 1
    /\ UNCHANGED <<state, attempted, cpuOnRet, seenOn, generation, peerGen, nextSeq,
                   stopSeq, stopReply, openCount, works, rings, peer>>

StartBusy ==
    /\ lock = "free" /\ ~attempted /\ image = ImageSize
    /\ AffinityInfo # "OFF"
    /\ refresh_affinity
    /\ UNCHANGED <<image, attempted, cpuOnRet, generation, peerGen, nextSeq, stopSeq,
                   stopReply, openCount, lock, expired, timeoutRuns, control, monitor,
                   rings, peer>>

\* start_store() up to the return of CPU_ON, which firmware refuses for a CPU
\* it is already powering on, and may refuse for reasons of its own.
StartBegin ==
    /\ lock = "free" /\ ~attempted /\ image = ImageSize
    /\ AffinityInfo = "OFF"
    /\ generation' = NextGeneration
    /\ l2c' = NoRings /\ c2l' = NoRings
    /\ nextSeq' = 0 /\ peerGen' = 0 /\ stopSeq' = 0 /\ stopReply' = "none"
    /\ seenOn' = FALSE
    /\ attempted' = TRUE
    /\ \/ /\ power = "OFF"
          /\ power' = "ON_ACCEPTED"
          /\ cpuOnRet' = "OK" /\ state' = "STARTING" /\ lock' = "start"
       \/ cpuOnRet' = "ERROR" /\ state' = "UNARMED" /\ UNCHANGED <<power, lock>>
    /\ UNCHANGED <<image, openCount, expired, timer, timeoutRuns, control, monitor,
                   a2b, b2a, cpu3, cpu3Gen>>

\* The rest of start_store().
StartEnd ==
    /\ lock = "start"
    /\ expired' = FALSE /\ timer' = TRUE /\ monitor' = TRUE
    /\ lock' = "free"
    /\ UNCHANGED <<session, timeoutRuns, control, rings, peer>>

RearmBusy ==
    /\ lock = "free" /\ attempted /\ openCount = 0
    /\ AffinityInfo # "OFF" \/ a2b # {}
    /\ refresh_affinity
    /\ UNCHANGED <<image, attempted, cpuOnRet, generation, peerGen, nextSeq, stopSeq,
                   stopReply, openCount, lock, expired, timeoutRuns, control, monitor,
                   rings, peer>>

\* Mutant: rearm_store() does not ask whether a start was attempted.
rearm_store_Always ==
    /\ lock = "free" /\ openCount = 0
    /\ AffinityInfo = "OFF" /\ a2b = {}
    /\ timer' = FALSE
    /\ image' = 0
    /\ attempted' = FALSE
    /\ cpuOnRet' = "EAGAIN"
    /\ seenOn' = FALSE
    /\ state' = "UNARMED"
    /\ nextSeq' = 0 /\ peerGen' = 0 /\ stopSeq' = 0 /\ stopReply' = "none"
    /\ UNCHANGED <<generation, openCount, lock, expired, timeoutRuns, control, monitor,
                   rings, peer>>

\* Mutant: rearm_store() forgets to forget the image.
rearm_store_KeepsImage ==
    /\ lock = "free" /\ attempted /\ openCount = 0
    /\ AffinityInfo = "OFF" /\ a2b = {}
    /\ timer' = FALSE
    /\ attempted' = FALSE
    /\ cpuOnRet' = "EAGAIN"
    /\ seenOn' = FALSE
    /\ state' = "UNARMED"
    /\ nextSeq' = 0 /\ peerGen' = 0 /\ stopSeq' = 0 /\ stopReply' = "none"
    /\ UNCHANGED <<image, generation, openCount, lock, expired, timeoutRuns, control, monitor,
                   rings, peer>>

rearm_store ==
    /\ lock = "free" /\ attempted /\ openCount = 0
    /\ AffinityInfo = "OFF" /\ a2b = {}
    /\ timer' = FALSE
    /\ image' = 0
    /\ attempted' = FALSE
    /\ cpuOnRet' = "EAGAIN"
    /\ seenOn' = FALSE
    /\ state' = "UNARMED"
    /\ nextSeq' = 0 /\ peerGen' = 0 /\ stopSeq' = 0 /\ stopReply' = "none"
    /\ UNCHANGED <<generation, openCount, lock, expired, timeoutRuns, control, monitor,
                   rings, peer>>

-----------------------------------------------------------------------------
(* Waiting for CPU3: the callback, control_work() and the timeout            *)

\* The mailbox interrupt clears the bit and calls r1_amp_mbox_rx_callback().
rx_callback(p) ==
    /\ p \in b2a
    /\ b2a' = b2a \ {p}
    /\ control' = IF state \in Operation THEN TRUE ELSE control
    /\ UNCHANGED <<session, lock, expired, timer, timeoutRuns, monitor, l2c, c2l, a2b, peer>>

DeadlinePasses ==
    /\ ~expired
    /\ expired' = TRUE
    /\ UNCHANGED <<session, lock, timer, timeoutRuns, control, monitor, rings, peer>>

\* Mutant: both operations time out into the same state.
set_timeout_Same == state' = IF state \in Operation THEN "STOP_TIMEOUT" ELSE state

set_timeout ==
    state' = IF state = "STARTING" THEN "START_TIMEOUT"
             ELSE IF state = "STOPPING" THEN "STOP_TIMEOUT" ELSE state

\* Mutant: a reply to an earlier stop request is taken for this one's.
Awaited_AnyRequest(f) ==
    /\ f.gen = generation
    /\ \/ state = "STARTING" /\ f.type = "SESSION_READY"
       \/ state = "STOPPING" /\ f.type \in {"STOP_READY", "STOP_REFUSED"}

\* What control_work() waits for on p0; it passes over every other frame, those
\* of another generation included.
Awaited(f) ==
    /\ f.gen = generation
    /\ \/ state = "STARTING" /\ f.type = "SESSION_READY"
       \/ state = "STOPPING" /\ f.type \in {"STOP_READY", "STOP_REFUSED"}
                             /\ f.peer = stopSeq

AwaitedAt == {i \in DOMAIN c2l[0] : Awaited(c2l[0][i])}
Consumed(n) == c2l' = [c2l EXCEPT ![0] = SubSeq(@, n + 1, Len(@))]

ControlIdle ==
    /\ lock = "free" /\ control /\ state \notin Operation
    /\ control' = FALSE
    /\ UNCHANGED <<session, lock, expired, timer, timeoutRuns, monitor, rings, peer>>

ControlExpired ==
    /\ lock = "free" /\ control /\ state \in Operation /\ expired
    /\ set_timeout
    /\ timer' = FALSE
    /\ control' = FALSE
    /\ UNCHANGED <<image, attempted, cpuOnRet, seenOn, generation, peerGen, nextSeq,
                   stopSeq, stopReply, openCount, lock, expired, timeoutRuns, monitor,
                   rings, peer>>

\* The deadline passes while the n-th frame is being received.
ControlLate(n) ==
    /\ lock = "free" /\ control /\ state \in Operation /\ ~expired
    /\ n \in DOMAIN c2l[0] /\ \A i \in AwaitedAt : n <= i
    /\ Consumed(n)
    /\ expired' = TRUE
    /\ set_timeout
    /\ timer' = FALSE
    /\ control' = FALSE
    /\ UNCHANGED <<image, attempted, cpuOnRet, seenOn, generation, peerGen, nextSeq,
                   stopSeq, stopReply, openCount, lock, timeoutRuns, monitor,
                   l2c, a2b, b2a, peer>>

ControlNothing ==
    /\ lock = "free" /\ control /\ state \in Operation /\ ~expired
    /\ AwaitedAt = {}
    /\ Consumed(Len(c2l[0]))
    /\ control' = FALSE
    /\ UNCHANGED <<session, lock, expired, timer, timeoutRuns, monitor, l2c, a2b, b2a, peer>>

\* Mutant: a refusal is taken for STOP_READY.
ControlAccept_RefusedIsReady(n) ==
    /\ lock = "free" /\ control /\ state \in Operation /\ ~expired
    /\ n \in AwaitedAt /\ \A i \in AwaitedAt : n <= i
    /\ Consumed(n)
    /\ IF c2l[0][n].type = "SESSION_READY"
       THEN /\ peerGen' = generation /\ seenOn' = TRUE
            /\ state' = "ACTIVE" /\ timer' = FALSE
            /\ UNCHANGED <<stopReply, expired>>
       ELSE /\ stopReply' = "STOP_READY"
            /\ expired' = FALSE /\ timer' = TRUE
            /\ UNCHANGED <<peerGen, seenOn, state>>
    /\ control' = FALSE
    /\ UNCHANGED <<image, attempted, cpuOnRet, generation, nextSeq, stopSeq, openCount,
                   lock, timeoutRuns, monitor, l2c, a2b, b2a, peer>>

\* The first frame it waits for is the n-th.
ControlAccept(n) ==
    /\ lock = "free" /\ control /\ state \in Operation /\ ~expired
    /\ n \in AwaitedAt /\ \A i \in AwaitedAt : n <= i
    /\ Consumed(n)
    /\ LET type == c2l[0][n].type IN
       \/ /\ type = "SESSION_READY"
          /\ peerGen' = generation /\ seenOn' = TRUE
          /\ state' = "ACTIVE" /\ timer' = FALSE
          /\ UNCHANGED <<stopReply, expired>>
       \/ /\ type = "STOP_READY"
          /\ stopReply' = type
          /\ expired' = FALSE /\ timer' = TRUE
          /\ UNCHANGED <<peerGen, seenOn, state>>
       \/ /\ type = "STOP_REFUSED"
          /\ stopReply' = type
          /\ state' = "ACTIVE" /\ timer' = FALSE
          /\ UNCHANGED <<peerGen, seenOn, expired>>
    /\ control' = FALSE
    /\ UNCHANGED <<image, attempted, cpuOnRet, generation, nextSeq, stopSeq, openCount,
                   lock, timeoutRuns, monitor, l2c, a2b, b2a, peer>>

\* The timer expires: from now on cancel_delayed_work() cannot call it back.
TimerFires ==
    /\ timer /\ expired /\ ~timeoutRuns
    /\ timer' = FALSE /\ timeoutRuns' = TRUE
    /\ UNCHANGED <<session, lock, expired, control, monitor, rings, peer>>

\* Mutant: the deadline is not looked at again under the mutex.
lifecycle_timeout_work_NoRecheck ==
    /\ lock = "free" /\ timeoutRuns
    /\ timeoutRuns' = FALSE
    /\ set_timeout
    /\ UNCHANGED <<image, attempted, cpuOnRet, seenOn, generation, peerGen, nextSeq, stopSeq,
                   stopReply, openCount, lock, expired, timer, control, monitor, rings, peer>>

\* Mutant: the handler only ever re-arms the timeout.
lifecycle_timeout_work_Rearms ==
    /\ lock = "free" /\ timeoutRuns
    /\ timeoutRuns' = FALSE
    /\ timer' = IF state \in Operation THEN TRUE ELSE timer
    /\ UNCHANGED <<session, lock, expired, control, monitor, rings, peer>>

lifecycle_timeout_work ==
    /\ lock = "free" /\ timeoutRuns
    /\ timeoutRuns' = FALSE
    /\ \/ state \notin Operation /\ UNCHANGED <<state, seenOn, timer>>
       \/ state \in Operation /\ ~expired /\ timer' = TRUE /\ UNCHANGED <<state, seenOn>>
       \/ /\ state \in Operation /\ expired
          /\ IF state = "STOPPING" /\ stopReply = "STOP_READY"
             THEN IF BecomesOffline
                  THEN refresh_affinity
                  ELSE /\ seenOn' = IF AffinityInfo # "OFF" THEN TRUE ELSE seenOn
                       /\ set_timeout
                       /\ UNCHANGED timer
             ELSE set_timeout /\ UNCHANGED <<seenOn, timer>>
    /\ UNCHANGED <<image, attempted, cpuOnRet, generation, peerGen, nextSeq, stopSeq,
                   stopReply, openCount, lock, expired, control, monitor, rings, peer>>

-----------------------------------------------------------------------------
(* The data plane, open only in ACTIVE                                       *)

data_gate == lock = "free" /\ state = "ACTIVE"

user_open ==
    /\ data_gate /\ openCount < MaxOpen
    /\ openCount' = openCount + 1
    /\ UNCHANGED <<state, image, attempted, cpuOnRet, seenOn, generation, peerGen, nextSeq,
                   stopSeq, stopReply, works, rings, peer>>

user_release ==
    /\ lock = "free" /\ openCount > 0
    /\ openCount' = openCount - 1
    /\ UNCHANGED <<state, image, attempted, cpuOnRet, seenOn, generation, peerGen, nextSeq,
                   stopSeq, stopReply, works, rings, peer>>

\* A frame is queued and its doorbell rung -- unless the notification is made to
\* fail, or the test entry without a doorbell is used.  The message type is the
\* caller's; only a stop request's sequence number comes back in a reply that
\* matters here.
user_write(p, k, rung) ==
    /\ data_gate
    /\ nextSeq < MaxSeq /\ nextSeq' = nextSeq + 1
    /\ IF Len(l2c[p]) = Capacity
       THEN UNCHANGED <<l2c, a2b>>
       ELSE /\ l2c' = [l2c EXCEPT ![p] =
                        Append(@, [kind |-> k, seq |-> IF k = "STOP" THEN nextSeq' ELSE 0])]
            /\ a2b' = IF rung THEN a2b \cup {p} ELSE a2b
    /\ UNCHANGED <<state, image, attempted, cpuOnRet, seenOn, generation, peerGen,
                   stopSeq, stopReply, openCount, works, c2l, b2a, peer>>

doorbell_store(p) ==
    /\ data_gate /\ p \notin a2b
    /\ a2b' = a2b \cup {p}
    /\ UNCHANGED <<session, works, l2c, c2l, b2a, peer>>

user_read(p) ==
    /\ data_gate /\ c2l[p] # <<>>
    /\ c2l' = [c2l EXCEPT ![p] = Tail(@)]
    /\ UNCHANGED <<session, works, l2c, a2b, b2a, peer>>

-----------------------------------------------------------------------------
(* mailmsg_stop_store()                                                      *)

RING_EMPTY == -1

\* mailmsg_ring_has_data() answers 0 or 1.
mailmsg_ring_has_data(ring) == IF ring = <<>> THEN 0 ELSE 1

ring_result_to_errno(ret) == IF ret = 0 THEN "OK" ELSE "ERROR"

\* The checks of stop_preflight_locked() in the order it makes them; the first
\* one that does not answer RING_EMPTY decides.
PreflightChecks ==
    FlattenSeq([i \in 1 .. Max(Prios) + 1 |->
        IF i - 1 \in Prios
        THEN <<mailmsg_ring_has_data(c2l[i - 1]), mailmsg_ring_has_data(l2c[i - 1])>>
        ELSE <<>>])

stop_preflight ==
    LET hits == {i \in DOMAIN PreflightChecks : PreflightChecks[i] # RING_EMPTY}
        ret  == PreflightChecks[Min(hits)]
    IN  IF openCount > 0 THEN "EBUSY"
        ELSE IF hits # {} THEN (IF ret > 0 THEN "EBUSY" ELSE ring_result_to_errno(ret))
        ELSE IF a2b # {} THEN "EBUSY" ELSE "OK"

\* Mutant: open files do not keep a session from being stopped.
StopAllowed_OpenFiles == lock = "free" /\ state = "ACTIVE" /\ c2l[0] = <<>>

\* Mutant: a stop that timed out may be tried again.
StopAllowed_Again ==
    lock = "free" /\ state \in {"ACTIVE", "STOP_TIMEOUT"} /\ stop_preflight = "OK"

StopAllowed == lock = "free" /\ state = "ACTIVE" /\ stop_preflight = "OK"

\* stop_store() up to the committed STOP_REQUEST, or to its failure.
StopBegin ==
    /\ StopAllowed
    /\ nextSeq < MaxSeq /\ nextSeq' = nextSeq + 1
    /\ stopSeq' = 0 /\ stopReply' = "none"
    /\ IF Len(l2c[0]) = Capacity
       THEN UNCHANGED <<state, l2c, lock>>
       ELSE /\ state' = "STOPPING"
            /\ l2c' = [l2c EXCEPT ![0] = Append(@, [kind |-> "STOP", seq |-> nextSeq'])]
            /\ lock' = "stop"
    /\ UNCHANGED <<image, attempted, cpuOnRet, seenOn, generation, peerGen, openCount,
                   expired, timer, timeoutRuns, control, monitor, c2l, a2b, b2a, peer>>

\* Mutant: stop_store() leaves the timeout unarmed.
StopEnd_NoTimer ==
    /\ lock = "stop"
    /\ a2b' = a2b \cup {0}
    /\ stopSeq' = nextSeq
    /\ expired' = FALSE
    /\ lock' = "free"
    /\ UNCHANGED <<state, image, attempted, cpuOnRet, seenOn, generation, peerGen, nextSeq,
                   stopReply, openCount, timer, timeoutRuns, control, monitor, l2c, c2l, b2a, peer>>

\* The doorbell and the rest.
StopEnd ==
    /\ lock = "stop"
    /\ a2b' = a2b \cup {0}
    /\ stopSeq' = nextSeq
    /\ expired' = FALSE /\ timer' = TRUE
    /\ lock' = "free"
    /\ UNCHANGED <<state, image, attempted, cpuOnRet, seenOn, generation, peerGen, nextSeq,
                   stopReply, openCount, timeoutRuns, control, monitor, l2c, c2l, b2a, peer>>

-----------------------------------------------------------------------------
(* CPU3's image, as far as the lifecycle meets it (see Cpu3Worker).  It may  *)
(* hang at any point.                                                        *)

Frame(type, sequence) == [type |-> type, gen |-> cpu3Gen, peer |-> sequence]

Cpu3Bind ==
    /\ power = "ON" /\ cpu3 = "reset"
    /\ cpu3' = "bound" /\ cpu3Gen' = generation
    /\ UNCHANGED <<session, works, rings, power>>

Cpu3Ready ==
    /\ power = "ON" /\ cpu3 = "bound"
    /\ c2l' = [c2l EXCEPT ![0] = Append(@, Frame("SESSION_READY", 0))]
    /\ b2a' = b2a \cup {0}
    /\ cpu3' = "ready"
    /\ UNCHANGED <<session, works, l2c, a2b, power, cpu3Gen>>

Cpu3Isr(p) ==
    /\ power = "ON" /\ cpu3 \in {"bound", "ready"} /\ p \in a2b
    /\ a2b' = a2b \ {p}
    /\ UNCHANGED <<session, works, l2c, c2l, b2a, peer>>

\* A frame and its reply; on p0 a stop request, or the test image's self-off
\* value, ends with CPU_OFF.  "PONG" stands for whatever else the image answers,
\* ACK, PONG or NOP: the lifecycle passes over all of them (Cpu3Worker has each).
Cpu3Serve(p) ==
    /\ power = "ON" /\ cpu3 = "ready" /\ l2c[p] # <<>>
    /\ l2c' = [l2c EXCEPT ![p] = Tail(@)]
    /\ LET f      == Head(l2c[p])
           full   == Len(c2l[p]) = Capacity
           Answer(type) ==
               IF full THEN UNCHANGED <<c2l, b2a>>
               ELSE c2l' = [c2l EXCEPT ![p] = Append(@, Frame(type, f.seq))]
                    /\ b2a' = b2a \cup {p}
       IN  \/ /\ f.kind = "STOP" /\ p = 0
              /\ \E type \in StopReplies :
                   /\ Answer(type)
                   /\ cpu3' = IF type = "STOP_READY" /\ ~full THEN "leaving" ELSE cpu3
           \/ f.kind = "PING" /\ p = 0 /\ cpu3' = "leaving" /\ UNCHANGED <<c2l, b2a>>
           \/ (f.kind = "PING" \/ p # 0) /\ Answer("PONG") /\ UNCHANGED cpu3
    /\ UNCHANGED <<session, works, a2b, power, cpu3Gen>>

\* mailmsg_cpu_off_after_ready()
Cpu3Off ==
    /\ power = "ON" /\ cpu3 = "leaving"
    /\ a2b' = {}
    /\ power' = "OFF" /\ cpu3' = "reset" /\ cpu3Gen' = 0
    /\ UNCHANGED <<session, works, l2c, c2l, b2a>>

-----------------------------------------------------------------------------
Requests ==
    \/ image_write \/ StartBusy \/ StartBegin \/ RearmBusy \/ rearm_store
    \/ affinity_state_show \/ StopBegin
    \/ user_open \/ user_release
    \/ \E p \in Prios : doorbell_store(p) \/ user_read(p)
    \/ \E p \in Prios, k \in {"PING", "STOP"}, rung \in BOOLEAN : user_write(p, k, rung)

control_work ==
    \/ ControlIdle \/ ControlExpired \/ ControlNothing
    \/ \E n \in 1 .. Capacity : ControlLate(n) \/ ControlAccept(n)

Cpu3 ==
    \/ Cpu3Bind \/ Cpu3Ready \/ Cpu3Off
    \/ \E p \in Prios : Cpu3Isr(p) \/ Cpu3Serve(p)

Next ==
    \/ Requests \/ StartEnd \/ StopEnd
    \/ affinity_work \/ control_work \/ lifecycle_timeout_work
    \/ TimerFires \/ DeadlinePasses
    \/ \E p \in Prios : rx_callback(p)
    \/ PsciPowersOn \/ Cpu3

\* The kernel runs its timers, its work items and a handler that holds the
\* mutex.  Neither users nor CPU3 nor firmware owe a step.
Fairness ==
    /\ WF_vars(StartEnd) /\ WF_vars(StopEnd)
    /\ WF_vars(DeadlinePasses) /\ WF_vars(TimerFires)
    /\ WF_vars(lifecycle_timeout_work)
    /\ WF_vars(affinity_work)

Spec == Init /\ [][Next]_vars /\ Fairness

-----------------------------------------------------------------------------
States == Monitored \cup {"UNARMED", "OFFLINE"}

SessionType ==
    /\ state \in States
    /\ image \in 0 .. ImageSize
    /\ attempted \in BOOLEAN
    /\ cpuOnRet \in {"EAGAIN", "OK", "ERROR"}
    /\ seenOn \in BOOLEAN
    /\ generation \in 0 .. GenWrap - 1
    /\ peerGen \in 0 .. GenWrap - 1
    /\ nextSeq \in 0 .. MaxSeq
    /\ stopSeq \in 0 .. MaxSeq
    /\ stopReply \in {"none", "STOP_READY", "STOP_REFUSED"}
    /\ openCount \in 0 .. MaxOpen

WorksType ==
    /\ lock \in {"free", "start", "stop"}
    /\ expired \in BOOLEAN /\ timer \in BOOLEAN /\ timeoutRuns \in BOOLEAN
    /\ control \in BOOLEAN /\ monitor \in BOOLEAN

Request == [kind : {"PING", "STOP"}, seq : 0 .. MaxSeq]
Reply == [type : {"SESSION_READY", "PONG", "STOP_READY", "STOP_REFUSED"},
          gen : 0 .. GenWrap - 1, peer : 0 .. MaxSeq]

RingsType ==
    /\ l2c \in [Prios -> Seq(Request)]
    /\ c2l \in [Prios -> Seq(Reply)]
    /\ a2b \subseteq Prios /\ b2a \subseteq Prios

PeerType ==
    /\ power \in {"OFF", "ON_ACCEPTED", "ON_PENDING", "ON"}
    /\ cpu3 \in {"reset", "bound", "ready", "leaving"}
    /\ cpu3Gen \in 0 .. GenWrap - 1

\* The type invariant.
TypeOK == SessionType /\ WorksType /\ RingsType /\ PeerType

\* A user file is open only on a session that is running or has ended by
\* itself: no stop, timeout, rearm or restart happens under an open file.
OpenFilesKeepSession == openCount > 0 => state \in {"ACTIVE", "OFFLINE"}

\* An operation that waits for CPU3 always has its timeout coming, whichever of
\* the three work items last touched it and although cancel_delayed_work() does
\* not wait for a timeout that is already running.
OperationHasTimeout == lock = "free" /\ state \in Operation => timer \/ timeoutRuns

\* The affinity monitor keeps sampling as long as CPU3 may be on.
MonitoredIsSampled == lock = "free" /\ state \in Monitored => monitor

\* Linux talks only to the image it started: once ACTIVE, the generation it
\* accepted is its own, and a CPU3 that is running has bound that same one.
SessionAgreement ==
    state \in {"ACTIVE", "STOPPING", "STOP_TIMEOUT"} =>
        /\ peerGen = generation
        /\ power \in {"ON", "OFF"}
        /\ power = "ON" => cpu3Gen = generation

\* STOP_READY is believed only when CPU3 has answered this very request: it is
\* on its way out, or out.
StopReadyIsTrue ==
    state \in {"STOPPING", "STOP_TIMEOUT"} /\ stopReply = "STOP_READY" =>
        cpu3 = "leaving" \/ power = "OFF"

\* "A timeout is a terminal lifecycle result": no late SESSION_READY, STOP_READY
\* or STOP_REFUSED takes the session anywhere; only OFF or a rearm does.
TimeoutIsFinal ==
    [][(state \in {"START_TIMEOUT", "STOP_TIMEOUT"}) =>
         (state' \in {state, "OFFLINE", "UNARMED"})]_vars

\* No operation times out before its own deadline, although a timeout of an
\* earlier operation may still be waiting for the mutex.
NoEarlyTimeout ==
    [][(state \in Operation /\ state' \in {"START_TIMEOUT", "STOP_TIMEOUT"}) => expired']_vars

\* A refused stop gives back a session whose CPU3 is still there.
RefusalKeepsCpu3 ==
    [][state = "STOPPING" /\ state' = "ACTIVE" => power = "ON" /\ cpu3 = "ready"]_vars

\* Every start and every stop comes to an end.
OperationEnds == \A s \in Operation : (state = s) ~> (state # s)

\* A CPU3 that was seen on and went off is noticed, in every state that can
\* still open the data plane, wait or time out.
OffIsNoticed ==
    (state \in Monitored /\ seenOn /\ power = "OFF") ~> (state \in {"OFFLINE", "UNARMED"})

\* "A controlled stop begins only after user space has drained" every priority,
\* and "Do not merge the lifecycle request into an earlier unobserved doorbell"
\* (lzamp_amp_mailmsg.c:1436, 1463).
StopStartsDrained ==
    [][state = "ACTIVE" /\ state' = "STOPPING" =>
         l2c = NoRings /\ c2l = NoRings /\ a2b = {}]_vars

-----------------------------------------------------------------------------
(* The inductive invariant behind the safety properties.                     *)

Live == {"ACTIVE", "STOPPING", "STOP_TIMEOUT"}

\* What holds the mutex, and a driver that is not attempting anything.
HandlerInv ==
    /\ lock = "start" => state = "STARTING"
    /\ lock = "stop" => state = "STOPPING"
    /\ lock # "start" /\ state \in Monitored => monitor
    /\ ~attempted => state = "UNARMED"

Serving == cpu3 \in {"ready", "leaving"}

\* CPU3 executes only when powered, has bound the current generation, and what
\* lies in its rings was sent by the image of this session.
Cpu3Inv ==
    /\ power # "ON" => cpu3 = "reset"
    /\ cpu3 # "reset" => cpu3Gen = generation
    /\ \A p \in Prios : c2l[p] # <<>> => power = "OFF" \/ Serving
    /\ \A p \in Prios : \A i \in DOMAIN c2l[p] :
         c2l[p][i].type = "STOP_READY" => power = "OFF" \/ cpu3 = "leaving"

LiveInv == state \in Live => peerGen = generation /\ (power = "OFF" \/ Serving)

\* No sequence number of the session is ahead of the counter.
SequenceInv ==
    state # "UNARMED" => \A p \in Prios :
        /\ \A i \in DOMAIN l2c[p] : l2c[p][i].seq <= nextSeq
        /\ \A i \in DOMAIN c2l[p] : c2l[p][i].peer <= nextSeq

\* A stop request is the newest frame CPU3 will ever get, until it is answered.
RequestInv ==
    state = "STOPPING" =>
        /\ lock = "free" => stopSeq = nextSeq
        /\ \/ /\ l2c[0] # <<>>
              /\ \A i \in DOMAIN l2c[0] : i < Len(l2c[0]) => l2c[0][i].seq < nextSeq
              /\ \A i \in DOMAIN c2l[0] : c2l[0][i].peer < nextSeq
           \/ /\ l2c[0] = <<>>
              /\ \A i \in DOMAIN c2l[0] :
                   c2l[0][i].type = "STOP_REFUSED" /\ c2l[0][i].peer = nextSeq => cpu3 = "ready"

IInv ==
    /\ TypeOK /\ OpenFilesKeepSession /\ OperationHasTimeout
    /\ HandlerInv /\ Cpu3Inv /\ LiveInv /\ StopReadyIsTrue /\ SequenceInv /\ RequestInv

=============================================================================
