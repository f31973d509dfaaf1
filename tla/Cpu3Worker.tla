----------------------------- MODULE Cpu3Worker -----------------------------
(***************************************************************************)
(* The Zephyr firmware on CPU3 (LZAMP/firmware/zephyr/app/src/main.c): the *)
(* A2B doorbell interrupt, the MailMsg worker thread that drains the       *)
(* rings, and main(), which publishes SESSION_READY; with the part of the  *)
(* Linux driver that feeds it: a frame is queued first, its doorbell is    *)
(* rung afterwards.                                                        *)
(*                                                                         *)
(* CPU3 is one core.  The interrupt preempts both threads; the worker      *)
(* (K_PRIO_COOP(0)) preempts main(), which therefore runs only while the   *)
(* worker waits for its semaphore.  Linux runs on other cores and may act  *)
(* between any two steps.  A push or a pop of a ring is one step: MailRing *)
(* is proved to implement such a queue.                                    *)
(***************************************************************************)
EXTENDS Integers, Sequences, FiniteSets, FiniteSetsExt

CONSTANTS
    Prios,        \* priorities, one ring and one doorbell bit each; 0 is critical
    Reliable,     \* MAILMSG_RELIABLE_PRIORITY_MASK
    Capacity,     \* MAILMSG_RING_SLOTS - 1, also the drain quota
    Kinds,        \* kinds of frames Linux queues
    StopControl,  \* the image is built with MAILMSG_ENABLE_STOP_CONTROL
    MaxSent       \* bound: frames Linux queues in one behaviour

ASSUME PriosAssumption == Prios \subseteq Nat /\ 0 \in Prios /\ IsFiniteSet(Prios)
ASSUME KindsAssumption == Kinds \subseteq {"PING", "BAD", "STOP", "LONG_STOP"}
ASSUME BoundsAssumption ==
    Capacity \in Nat \ {0} /\ MaxSent \in Nat /\ StopControl \in BOOLEAN

VARIABLES
    l2c,        \* shared->linux_to_cpu3: frames [seq, kind]
    c2l,        \* shared->cpu3_to_linux: frames [type, peer]
    a2b,        \* A2B_STATUS bits with the command they carry
    b2a,        \* B2A_STATUS bits
    linux,      \* "closed", "active" or "stopping": what Linux may queue
    lock,       \* the priority whose frame is queued and not yet rung, or NoPrio
    sent,       \* endpoint->next_sequence of Linux
    stopSeq,    \* stop_request_sequence
    cpu,        \* "on" or "off"
    pending,    \* mailmsg_pending_priorities
    sem,        \* mailmsg_work_sem, K_SEM_DEFINE(, 0, 1)
    mpc,        \* where main() is
    published,  \* mailmsg_session_ready_published
    wpc,        \* where mailmsg_worker() is
    todo,       \* priorities of this pass still to be scanned
    handled,    \* frames of the current priority taken in this pass
    leave,      \* the drain loop was left by its break
    out,        \* replies to the current frame still to be sent
    resched     \* the pass's reschedule bits

lvars == <<linux, lock, sent, stopSeq>>
mvars == <<mpc, published>>
wvars == <<wpc, todo, handled, leave, out, resched>>
vars == <<l2c, c2l, a2b, b2a, lvars, cpu, pending, sem, mvars, wvars>>

NoPrio == -1
Quota == Capacity

Init ==
    /\ l2c = [p \in Prios |-> <<>>]
    /\ c2l = [p \in Prios |-> <<>>]
    /\ a2b = [p \in Prios |-> "none"]
    /\ b2a = {}
    /\ linux = "closed" /\ lock = NoPrio /\ sent = 0 /\ stopSeq = 0
    /\ cpu = "on"
    /\ pending = {} /\ sem = 0
    /\ mpc = "boot" /\ published = FALSE
    /\ wpc = "none" /\ todo = {} /\ handled = 0 /\ leave = FALSE
    /\ out = <<>> /\ resched = {}

-----------------------------------------------------------------------------
(* Linux.  The driver's mutex makes a send one critical section, but CPU3    *)
(* may run between its push and its doorbell.                                *)

\* control_work() takes SESSION_READY and opens the data plane.
LinuxActivate ==
    /\ linux = "closed" /\ c2l[0] # <<>>
    /\ c2l' = [c2l EXCEPT ![0] = Tail(@)]
    /\ linux' = IF Head(c2l[0]).type = "SESSION_READY" THEN "active" ELSE linux
    /\ UNCHANGED <<l2c, a2b, b2a, lock, sent, stopSeq, cpu, pending, sem, mvars, wvars>>

\* Mutant: no data gate.
LinuxSend_NoGate(p, k) ==
    /\ lock = NoPrio /\ sent < MaxSent
    /\ sent' = sent + 1
    /\ IF Len(l2c[p]) = Capacity
       THEN UNCHANGED <<l2c, lock>>
       ELSE /\ l2c' = [l2c EXCEPT ![p] = Append(@, [seq |-> sent', kind |-> k])]
            /\ lock' = p
    /\ UNCHANGED <<c2l, a2b, b2a, linux, stopSeq, cpu, pending, sem, mvars, wvars>>

\* mailmsg_endpoint_send(), from a user's write or a sysfs test entry; the type
\* is the caller's.  The sequence number is spent even if the ring is full.
LinuxSend(p, k) ==
    /\ linux = "active" /\ lock = NoPrio /\ sent < MaxSent
    /\ sent' = sent + 1
    /\ IF Len(l2c[p]) = Capacity
       THEN UNCHANGED <<l2c, lock>>
       ELSE /\ l2c' = [l2c EXCEPT ![p] = Append(@, [seq |-> sent', kind |-> k])]
            /\ lock' = p
    /\ UNCHANGED <<c2l, a2b, b2a, linux, stopSeq, cpu, pending, sem, mvars, wvars>>

\* stop_store(): its preflight returns after the first check, the reverse ring
\* of p0 (see Lifecycle).
LinuxStop ==
    /\ linux = "active" /\ lock = NoPrio /\ sent < MaxSent
    /\ c2l[0] = <<>>
    /\ sent' = sent + 1
    /\ IF Len(l2c[0]) = Capacity
       THEN UNCHANGED <<l2c, lock, linux, stopSeq>>
       ELSE /\ l2c' = [l2c EXCEPT ![0] = Append(@, [seq |-> sent', kind |-> "STOP"])]
            /\ lock' = 0
            /\ linux' = "stopping"
            /\ stopSeq' = sent'
    /\ UNCHANGED <<c2l, a2b, b2a, cpu, pending, sem, mvars, wvars>>

\* mailmsg_queue_push, or a notification made to fail by mailmsg_notify_inject:
\* a committed frame without a doorbell.
LinuxQueuePush(p) ==
    /\ linux = "active" /\ lock = NoPrio /\ sent < MaxSent
    /\ Len(l2c[p]) < Capacity
    /\ sent' = sent + 1
    /\ l2c' = [l2c EXCEPT ![p] = Append(@, [seq |-> sent', kind |-> "PING"])]
    /\ UNCHANGED <<c2l, a2b, b2a, linux, lock, stopSeq, cpu, pending, sem, mvars, wvars>>

\* mailmsg_notify_locked(): a doorbell that is still pending is not rung again.
LinuxNotify ==
    /\ lock # NoPrio
    /\ a2b' = [a2b EXCEPT ![lock] = IF @ = "none" THEN "doorbell" ELSE @]
    /\ lock' = NoPrio
    /\ UNCHANGED <<l2c, c2l, b2a, linux, sent, stopSeq, cpu, pending, sem, mvars, wvars>>

\* doorbell_store(): a raw probe without a frame.
LinuxDoorbell(p) ==
    /\ linux = "active" /\ lock = NoPrio /\ a2b[p] = "none"
    /\ a2b' = [a2b EXCEPT ![p] = "raw"]
    /\ UNCHANGED <<l2c, c2l, b2a, lvars, cpu, pending, sem, mvars, wvars>>

\* The mailbox controller's B2A interrupt clears the bit and calls back.
LinuxIrq(p) ==
    /\ p \in b2a
    /\ b2a' = b2a \ {p}
    /\ UNCHANGED <<l2c, c2l, a2b, lvars, cpu, pending, sem, mvars, wvars>>

\* A reader takes one reply, at its own pace.
LinuxRead(p) ==
    /\ linux = "active" /\ lock = NoPrio /\ c2l[p] # <<>>
    /\ c2l' = [c2l EXCEPT ![p] = Tail(@)]
    /\ UNCHANGED <<l2c, a2b, b2a, lvars, cpu, pending, sem, mvars, wvars>>

\* While it is stopping, control_work() owns p0; a refusal reopens the data plane.
LinuxControl ==
    /\ linux = "stopping" /\ lock = NoPrio /\ c2l[0] # <<>>
    /\ c2l' = [c2l EXCEPT ![0] = Tail(@)]
    /\ linux' = IF Head(c2l[0]) = [type |-> "STOP_REFUSED", peer |-> stopSeq]
                THEN "active" ELSE linux
    /\ UNCHANGED <<l2c, a2b, b2a, lock, sent, stopSeq, cpu, pending, sem, mvars, wvars>>

Linux ==
    \/ LinuxActivate
    \/ \E p \in Prios, k \in Kinds : LinuxSend(p, k)
    \/ \E p \in Prios :
         LinuxQueuePush(p) \/ LinuxDoorbell(p) \/ LinuxIrq(p) \/ LinuxRead(p)
    \/ LinuxStop
    \/ LinuxControl
    \/ LinuxNotify

-----------------------------------------------------------------------------
(* mailmsg_mailbox_a2b_matrix_isr().  Nothing of CPU3 runs inside it, and    *)
(* Linux leaves a pending bit and its command alone, so it is one step.      *)

Isr(p) ==
    /\ cpu = "on" /\ mpc # "boot" /\ a2b[p] # "none"
    /\ b2a' = IF a2b[p] = "raw" THEN b2a \cup {p} ELSE b2a
    /\ a2b' = [a2b EXCEPT ![p] = "none"]
    /\ pending' = pending \cup {p}
    /\ sem' = 1
    /\ UNCHANGED <<l2c, c2l, lvars, cpu, mvars, wvars>>

-----------------------------------------------------------------------------
(* mailmsg_worker() and mailmsg_pingpong_test_service()                      *)

WorkerRuns(pc) == cpu = "on" /\ wpc = pc

WorkerTake ==
    /\ WorkerRuns("wait") /\ sem = 1
    /\ sem' = 0
    /\ wpc' = "woken"
    /\ UNCHANGED <<l2c, c2l, a2b, b2a, lvars, cpu, pending, mvars,
                   todo, handled, leave, out, resched>>

\* Mutant: the worker does not wait for SESSION_READY to be published.
WorkerSwap_Unpublished ==
    /\ WorkerRuns("woken")
    /\ pending' = {}
    /\ IF pending = {}
       THEN wpc' = "wait" /\ UNCHANGED todo
       ELSE wpc' = "drain" /\ todo' = pending
    /\ UNCHANGED <<l2c, c2l, a2b, b2a, lvars, cpu, sem, mvars,
                   handled, leave, out, resched>>

\* The swap, and the early returns: an empty wake, and a service that refuses
\* to run before SESSION_READY is published.
WorkerSwap ==
    /\ WorkerRuns("woken")
    /\ pending' = {}
    /\ IF pending = {} \/ ~published
       THEN wpc' = "wait" /\ UNCHANGED todo
       ELSE wpc' = "drain" /\ todo' = pending
    /\ UNCHANGED <<l2c, c2l, a2b, b2a, lvars, cpu, sem, mvars,
                   handled, leave, out, resched>>

Current == Min(todo)

\* The replies one frame causes.  A stop request counts only on p0, and only
\* with an empty payload.
Replies(p, f) ==
    LET reply(t) == [type |-> t, peer |-> IF t \in {"PONG", "NOP"} THEN 0 ELSE f.seq]
        pong     == IF f.kind = "PING" THEN "PONG" ELSE "NOP"
        stop     == f.kind \in {"STOP", "LONG_STOP"} /\ p = 0
        types    ==
            CASE f.kind = "BAD" -> IF p \in Reliable THEN <<"NACK">> ELSE <<>>
              [] stop /\ f.kind = "STOP" /\ StopControl -> <<"STOP_READY">>
              [] stop /\ ~(f.kind = "STOP" /\ StopControl) -> <<"STOP_REFUSED">>
              [] f.kind # "BAD" /\ ~stop ->
                   IF p \in Reliable THEN <<"ACK", pong>> ELSE <<pong>>
    IN  [i \in DOMAIN types |-> reply(types[i])]

WorkerReceive ==
    /\ WorkerRuns("drain")
    /\ ~leave /\ handled < Quota /\ l2c[Current] # <<>>
    /\ l2c' = [l2c EXCEPT ![Current] = Tail(@)]
    /\ handled' = handled + 1
    /\ leave' = (Head(l2c[Current]).kind = "BAD")
    /\ out' = Replies(Current, Head(l2c[Current]))
    /\ wpc' = IF out' = <<>> THEN "drain" ELSE "reply"
    /\ UNCHANGED <<c2l, a2b, b2a, lvars, cpu, pending, sem, mvars, todo, resched>>

\* The end of the loop over one priority.
WorkerNextPriority ==
    /\ WorkerRuns("drain")
    /\ leave \/ handled = Quota \/ l2c[Current] = <<>>
    /\ resched' = IF handled = Quota /\ l2c[Current] # <<>>
                  THEN resched \cup {Current} ELSE resched
    /\ todo' = todo \ {Current}
    /\ handled' = 0
    /\ leave' = FALSE
    /\ wpc' = IF todo' = {} THEN "end" ELSE "drain"
    /\ UNCHANGED <<l2c, c2l, a2b, b2a, lvars, cpu, pending, sem, mvars, out>>

\* Mutant: a reply is pushed into a full ring.
WorkerReply_NoFullCheck ==
    /\ WorkerRuns("reply")
    /\ c2l' = [c2l EXCEPT ![Current] = Append(@, Head(out))]
    /\ wpc' = "ring"
    /\ UNCHANGED <<l2c, a2b, b2a, lvars, cpu, pending, sem, mvars,
                   todo, handled, leave, out, resched>>

\* One endpoint send of the worker: the frame, then its doorbell.  A full ring
\* drops the reply, and no doorbell is rung for it.
WorkerReply ==
    /\ WorkerRuns("reply")
    /\ IF Len(c2l[Current]) = Capacity
       THEN /\ out' = Tail(out)
            /\ wpc' = IF out' = <<>> THEN "drain" ELSE "reply"
            /\ UNCHANGED c2l
       ELSE /\ c2l' = [c2l EXCEPT ![Current] = Append(@, Head(out))]
            /\ wpc' = "ring"
            /\ UNCHANGED out
    /\ UNCHANGED <<l2c, a2b, b2a, lvars, cpu, pending, sem, mvars,
                   todo, handled, leave, resched>>

\* mailmsg_cpu3_notify(); after STOP_READY, mailmsg_cpu_off_after_ready() masks
\* the interrupts, clears every doorbell bit and powers the core off.
WorkerRing ==
    /\ WorkerRuns("ring")
    /\ b2a' = b2a \cup {Current}
    /\ IF Head(out).type = "STOP_READY"
       THEN wpc' = "stop" /\ UNCHANGED out
       ELSE out' = Tail(out) /\ wpc' = IF out' = <<>> THEN "drain" ELSE "reply"
    /\ UNCHANGED <<l2c, c2l, a2b, lvars, cpu, pending, sem, mvars,
                   todo, handled, leave, resched>>

WorkerCpuOff ==
    /\ WorkerRuns("stop")
    /\ a2b' = [p \in Prios |-> "none"]
    /\ cpu' = "off"
    /\ UNCHANGED <<l2c, c2l, b2a, lvars, pending, sem, mvars, wvars>>

\* Mutant: the rescheduled priorities are marked, the worker is not woken.
WorkerReschedule_NoSem ==
    /\ WorkerRuns("end")
    /\ pending' = pending \cup resched
    /\ resched' = {}
    /\ wpc' = "wait"
    /\ UNCHANGED <<l2c, c2l, a2b, b2a, lvars, cpu, sem, mvars, todo, handled, leave, out>>

\* Mutant: atomic_set() instead of atomic_or().
WorkerReschedule_Set ==
    /\ WorkerRuns("end")
    /\ pending' = resched
    /\ sem' = IF resched # {} THEN 1 ELSE sem
    /\ resched' = {}
    /\ wpc' = "wait"
    /\ UNCHANGED <<l2c, c2l, a2b, b2a, lvars, cpu, mvars, todo, handled, leave, out>>

WorkerReschedule ==
    /\ WorkerRuns("end")
    /\ pending' = pending \cup resched
    /\ sem' = IF resched # {} THEN 1 ELSE sem
    /\ resched' = {}
    /\ wpc' = "wait"
    /\ UNCHANGED <<l2c, c2l, a2b, b2a, lvars, cpu, mvars, todo, handled, leave, out>>

Worker ==
    \/ WorkerTake \/ WorkerSwap \/ WorkerReceive \/ WorkerNextPriority
    \/ WorkerReply \/ WorkerRing \/ WorkerCpuOff \/ WorkerReschedule

-----------------------------------------------------------------------------
(* main() and mailmsg_service_session_ready()                                *)

MainRuns(pc) == cpu = "on" /\ mpc = pc /\ (pc = "boot" \/ (wpc = "wait" /\ sem = 0))

\* Bind the endpoint, create the worker, enable the interrupts.
MainBoot ==
    /\ MainRuns("boot")
    /\ mpc' = "push"
    /\ wpc' = "wait"
    /\ UNCHANGED <<l2c, c2l, a2b, b2a, lvars, cpu, pending, sem, published,
                   todo, handled, leave, out, resched>>

MainPushBegin ==
    /\ MainRuns("push")
    /\ mpc' = "pushing"
    /\ UNCHANGED <<l2c, c2l, a2b, b2a, lvars, cpu, pending, sem, published, wvars>>

MainPushEnd ==
    /\ MainRuns("pushing")
    /\ c2l' = [c2l EXCEPT ![0] = Append(@, [type |-> "SESSION_READY", peer |-> 0])]
    /\ mpc' = "ring"
    /\ UNCHANGED <<l2c, a2b, b2a, lvars, cpu, pending, sem, published, wvars>>

MainRing ==
    /\ MainRuns("ring")
    /\ b2a' = b2a \cup {0}
    /\ mpc' = "publish"
    /\ UNCHANGED <<l2c, c2l, a2b, lvars, cpu, pending, sem, published, wvars>>

MainPublish ==
    /\ MainRuns("publish")
    /\ published' = TRUE
    /\ mpc' = "loop"
    /\ UNCHANGED <<l2c, c2l, a2b, b2a, lvars, cpu, pending, sem, wvars>>

Main == MainBoot \/ MainPushBegin \/ MainPushEnd \/ MainRing \/ MainPublish

-----------------------------------------------------------------------------
Next == Linux \/ (\E p \in Prios : Isr(p)) \/ Worker \/ Main

\* The core executes and its interrupts are delivered; Linux leaves its
\* critical section.  Nothing obliges Linux to send or to read.
Fairness ==
    /\ \A p \in Prios : WF_vars(Isr(p))
    /\ WF_vars(Worker)
    /\ WF_vars(Main)
    /\ WF_vars(LinuxNotify)

Spec == Init /\ [][Next]_vars /\ Fairness

-----------------------------------------------------------------------------
Reply == [type : {"SESSION_READY", "ACK", "NACK", "PONG", "NOP",
                  "STOP_READY", "STOP_REFUSED"},
          peer : 0 .. MaxSent]

\* The type invariant.
TypeOK ==
    /\ l2c \in [Prios -> Seq([seq : 1 .. MaxSent, kind : Kinds \cup {"PING", "STOP"}])]
    /\ c2l \in [Prios -> Seq(Reply)]
    /\ \A p \in Prios : Len(l2c[p]) <= Capacity /\ Len(c2l[p]) <= Capacity
    /\ a2b \in [Prios -> {"none", "doorbell", "raw"}]
    /\ b2a \subseteq Prios
    /\ linux \in {"closed", "active", "stopping"}
    /\ lock \in Prios \cup {NoPrio}
    /\ sent \in 0 .. MaxSent
    /\ stopSeq \in 0 .. MaxSent
    /\ cpu \in {"on", "off"}
    /\ pending \subseteq Prios
    /\ sem \in {0, 1}
    /\ mpc \in {"boot", "push", "pushing", "ring", "publish", "loop"}
    /\ published \in BOOLEAN
    /\ wpc \in {"none", "wait", "woken", "drain", "reply", "ring", "stop", "end"}
    /\ todo \subseteq Prios
    /\ handled \in 0 .. Quota
    /\ leave \in BOOLEAN
    /\ out \in Seq(Reply)
    /\ resched \subseteq Prios

\* A priority marked pending always has the worker coming: the semaphore is up
\* or the worker is between the semaphore and the swap.  The bit and the semaphore are two
\* separate updates, made by the interrupt and by the worker itself.
PendingHasWakeup == cpu = "on" /\ pending # {} => sem = 1 \/ wpc = "woken"

\* The reverse ring of p0 has one producer at a time: the worker never replies
\* while main() is inside its SESSION_READY push, although it preempts main().
OneCriticalProducer ==
    mpc \in {"push", "pushing", "ring", "publish"} => wpc \notin {"reply", "ring", "stop"}

\* SESSION_READY is the first frame Linux meets on p0, so data-plane frames are
\* never taken for it and the data plane opens at most once.
ReadyComesFirst ==
    linux = "closed" => \A p \in Prios : \A i \in 1 .. Len(c2l[p]) :
        p = 0 /\ i = 1 /\ c2l[p][i].type = "SESSION_READY"

\* Somebody will look at ring p: its doorbell is pending, its bit is set, or the
\* worker has it on this pass's list or on the list for the next one.
Attended(p) == a2b[p] # "none" \/ p \in pending \cup todo \cup resched

\* Once SESSION_READY is published, a priority that has been rung is looked after
\* until its ring is empty: between interrupt, swap, scan, quota and reschedule it
\* is handed on and never dropped, except behind a corrupted frame.
RungIsKept ==
    [][\A p \in Prios :
         published /\ Attended(p) =>
             Attended(p)' \/ l2c'[p] = <<>> \/ (leave /\ p = Current) \/ cpu' = "off"]_vars

HasFrame(p, s) == \E i \in 1 .. Len(l2c[p]) : l2c[p][i].seq = s
BadBefore(p, s) == \E i \in 1 .. Len(l2c[p]) : l2c[p][i].seq < s /\ l2c[p][i].kind = "BAD"
Rung(p) == a2b[p] # "none"

\* A doorbell that arrives once SESSION_READY is published gets every frame
\* queued before it drained, whatever the quota, the rescheduling, the other
\* priorities and the doorbells it was merged with -- unless a corrupted frame
\* lies ahead in the same ring, or CPU3 is stopped.
RungFramesDrained ==
    \A p \in Prios, s \in 1 .. MaxSent :
        (published /\ Rung(p) /\ HasFrame(p, s) /\ ~BadBefore(p, s))
            ~> (~HasFrame(p, s) \/ cpu = "off")

\* "STOPPING has already closed the Linux data plane; no legitimate new A2B
\* producer can race this final owner-side acknowledgement" (main.c:719): when
\* CPU3 has powered itself off, no doorbell bit is left to block rearm_store().
QuietAfterOff == cpu = "off" => \A p \in Prios : a2b[p] = "none"

=============================================================================
