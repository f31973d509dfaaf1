------------------------------ MODULE UserRead ------------------------------
(***************************************************************************)
(* One /dev/mailmsg-pN device of the Linux driver: its files, the claim    *)
(* that makes one of them the reader, blocking reads and polls, and what   *)
(* wakes them: CPU3's doorbell through the mailbox interrupt, or the end   *)
(* of the session.                                                         *)
(*                                                                         *)
(* A sleeping thread compares rx_generation with the value it read before  *)
(* it looked at the ring (read), or was put on the wait queue before it    *)
(* looked (poll).  Both come to one bit per thread: an event since then.   *)
(* Frames are only counted.                                                *)
(***************************************************************************)
EXTENDS Integers, FiniteSets

CONSTANTS
    Files,       \* open file descriptions of the device
    Threads,     \* threads that read or poll
    Capacity     \* MAILMSG_RING_SLOTS - 1

ASSUME SizeAssumption == Capacity \in Nat \ {0} /\ IsFiniteSet(Files)

VARIABLES
    state,         \* mailmsg_state: "ACTIVE" or "OFFLINE" while files are open
    ring,          \* frames in the reverse ring of this priority
    sender,        \* where CPU3's endpoint send is
    b2a,           \* the B2A_STATUS bit of this priority
    irq,           \* the interrupt handler has cleared the bit, callback to come
    opened,        \* files that are open
    claimed,       \* files with reader_claimed
    readerCount,   \* reader_open_count
    pc,            \* where a thread is in read() or poll()
    file,          \* the file it uses
    mode,          \* "read" or "poll"
    event          \* rx_generation moved since the thread took its snapshot

fvars == <<opened, claimed, readerCount>>
tvars == <<pc, file, mode, event>>
vars == <<state, ring, sender, b2a, irq, fvars, tvars>>

NoFile == "none"

Init ==
    /\ state = "ACTIVE" /\ ring = 0 /\ sender = "idle" /\ b2a = FALSE /\ irq = FALSE
    /\ opened = {} /\ claimed = {} /\ readerCount = 0
    /\ pc = [t \in Threads |-> "idle"]
    /\ file = [t \in Threads |-> NoFile]
    /\ mode = [t \in Threads |-> "read"]
    /\ event = [t \in Threads |-> FALSE]

\* Mutant: an event wakes one thread.
AllWoken_One == event' = [event EXCEPT ![CHOOSE t \in Threads : TRUE] = TRUE]

AllWoken == event' = [t \in Threads |-> TRUE]

-----------------------------------------------------------------------------
(* CPU3, the mailbox controller and the lifecycle                            *)

Cpu3Push ==
    /\ state = "ACTIVE" /\ sender = "idle" /\ ring < Capacity
    /\ ring' = ring + 1
    /\ sender' = "notify"
    /\ UNCHANGED <<state, b2a, irq, fvars, tvars>>

\* mailmsg_cpu3_notify(): coalesced if the bit is still set.
Cpu3Notify ==
    /\ sender = "notify"
    /\ b2a' = TRUE
    /\ sender' = "idle"
    /\ UNCHANGED <<state, ring, irq, fvars, tvars>>

\* The controller's interrupt handler clears the status bit first.
IrqClear ==
    /\ b2a /\ ~irq
    /\ b2a' = FALSE
    /\ irq' = TRUE
    /\ UNCHANGED <<state, ring, sender, fvars, tvars>>

\* Mutant: the callback wakes nobody.
rx_callback_NoWake ==
    /\ irq
    /\ irq' = FALSE
    /\ UNCHANGED <<state, ring, sender, b2a, fvars, tvars>>

rx_callback ==
    /\ irq
    /\ irq' = FALSE
    /\ AllWoken
    /\ UNCHANGED <<state, ring, sender, b2a, fvars, pc, file, mode>>

\* Mutant: the end of the session wakes nobody.
mark_offline_NoWake ==
    /\ state = "ACTIVE" /\ sender = "idle"
    /\ state' = "OFFLINE"
    /\ UNCHANGED <<ring, sender, b2a, irq, fvars, tvars>>

\* CPU3 stops after a completed send and the affinity monitor finds it off.
mark_offline ==
    /\ state = "ACTIVE" /\ sender = "idle"
    /\ state' = "OFFLINE"
    /\ AllWoken
    /\ UNCHANGED <<ring, sender, b2a, irq, fvars, pc, file, mode>>

\* Rearm and a new start, which Lifecycle shows to need every file closed.
NewSession ==
    /\ state = "OFFLINE" /\ opened = {}
    /\ state' = "ACTIVE"
    /\ ring' = 0
    /\ UNCHANGED <<sender, b2a, irq, fvars, tvars>>

-----------------------------------------------------------------------------
(* Files                                                                     *)

user_open(f) ==
    /\ state = "ACTIVE" /\ f \notin opened
    /\ opened' = opened \cup {f}
    /\ UNCHANGED <<state, ring, sender, b2a, irq, claimed, readerCount, tvars>>

\* Mutant: the count goes down for a file without the claim, too.
user_release_AlwaysCounts(f) ==
    /\ f \in opened /\ \A t \in Threads : file[t] # f
    /\ opened' = opened \ {f}
    /\ claimed' = claimed \ {f}
    /\ readerCount' = readerCount - 1
    /\ UNCHANGED <<state, ring, sender, b2a, irq, tvars>>

\* The kernel releases a file when no call on it is left.
user_release(f) ==
    /\ f \in opened /\ \A t \in Threads : file[t] # f
    /\ opened' = opened \ {f}
    /\ claimed' = claimed \ {f}
    /\ readerCount' = IF f \in claimed THEN readerCount - 1 ELSE readerCount
    /\ UNCHANGED <<state, ring, sender, b2a, irq, tvars>>

\* Mutant: a second reader is admitted.
CanClaim_Any(f) == f \in opened

CanClaim(f) == f \in claimed \/ readerCount = 0

claim_reader(f) ==
    /\ CanClaim(f)
    /\ claimed' = claimed \cup {f}
    /\ readerCount' = IF f \in claimed THEN readerCount ELSE readerCount + 1

-----------------------------------------------------------------------------
(* r1_amp_mailmsg_user_read() and r1_amp_mailmsg_user_poll(); a file that    *)
(* cannot claim gets -EBUSY or EPOLLERR at once.                             *)

Call(t, f, m) ==
    /\ pc[t] = "idle" /\ f \in opened
    /\ claim_reader(f)
    /\ pc' = [pc EXCEPT ![t] = "snapshot"]
    /\ file' = [file EXCEPT ![t] = f]
    /\ mode' = [mode EXCEPT ![t] = m]
    /\ UNCHANGED <<state, ring, sender, b2a, irq, opened, event>>

\* generation = atomic_read(&rx_generation), or poll_wait().
Snapshot(t) ==
    /\ pc[t] = "snapshot"
    /\ event' = [event EXCEPT ![t] = FALSE]
    /\ pc' = [pc EXCEPT ![t] = "check"]
    /\ UNCHANGED <<state, ring, sender, b2a, irq, fvars, file, mode>>

Return(t) ==
    /\ pc' = [pc EXCEPT ![t] = "idle"]
    /\ file' = [file EXCEPT ![t] = NoFile]
    /\ mode' = [mode EXCEPT ![t] = "read"]
    /\ event' = [event EXCEPT ![t] = FALSE]

\* Under the mutex: the gate, then the ring.
CheckReturns(t) ==
    /\ pc[t] = "check"
    /\ state # "ACTIVE" \/ ring > 0
    /\ ring' = IF state = "ACTIVE" /\ mode[t] = "read" THEN ring - 1 ELSE ring
    /\ Return(t)
    /\ UNCHANGED <<state, sender, b2a, irq, fvars>>

CheckSleeps(t) ==
    /\ pc[t] = "check"
    /\ state = "ACTIVE" /\ ring = 0
    /\ pc' = [pc EXCEPT ![t] = "wait"]
    /\ UNCHANGED <<state, ring, sender, b2a, irq, fvars, file, mode, event>>

\* O_NONBLOCK, a signal or a poll timeout.
GiveUp(t) ==
    /\ pc[t] = "wait"
    /\ Return(t)
    /\ UNCHANGED <<state, ring, sender, b2a, irq, fvars>>

\* wait_event_interruptible() ends, or poll is entered again.
Wake(t) ==
    /\ pc[t] = "wait" /\ event[t]
    /\ pc' = [pc EXCEPT ![t] = "snapshot"]
    /\ UNCHANGED <<state, ring, sender, b2a, irq, fvars, file, mode, event>>

\* The sysfs attribute mailmsg_response drains every reverse ring.
mailmsg_response_show ==
    /\ state = "ACTIVE" /\ ring > 0
    /\ ring' = 0
    /\ UNCHANGED <<state, sender, b2a, irq, fvars, tvars>>

-----------------------------------------------------------------------------
Run(t) == Snapshot(t) \/ CheckReturns(t) \/ CheckSleeps(t) \/ Wake(t)

Next ==
    \/ Cpu3Push \/ Cpu3Notify \/ IrqClear \/ rx_callback
    \/ mark_offline \/ NewSession \/ mailmsg_response_show
    \/ \E f \in Files : user_open(f) \/ user_release(f)
    \/ \E t \in Threads :
         \/ Run(t) \/ GiveUp(t)
         \/ \E f \in Files, m \in {"read", "poll"} : Call(t, f, m)

\* CPU3 finishes a send, the interrupt is delivered and a runnable thread runs.
Fairness ==
    /\ WF_vars(Cpu3Notify) /\ WF_vars(IrqClear) /\ WF_vars(rx_callback)
    /\ \A t \in Threads : WF_vars(Run(t))

Spec == Init /\ [][Next]_vars /\ Fairness

-----------------------------------------------------------------------------
\* The type invariant.
TypeOK ==
    /\ state \in {"ACTIVE", "OFFLINE"}
    /\ ring \in 0 .. Capacity
    /\ sender \in {"idle", "notify"}
    /\ b2a \in BOOLEAN /\ irq \in BOOLEAN
    /\ opened \subseteq Files /\ claimed \subseteq Files
    /\ readerCount \in Nat
    /\ pc \in [Threads -> {"idle", "snapshot", "check", "wait"}]
    /\ file \in [Threads -> Files \cup {NoFile}]
    /\ mode \in [Threads -> {"read", "poll"}]
    /\ event \in [Threads -> BOOLEAN]

\* One file at most is the reader of the priority, the count says so, and every
\* thread inside read() or poll() holds that claim: a late release or a second
\* thread on the same file neither frees nor doubles it.
OneReader ==
    /\ \A f, g \in claimed : f = g
    /\ readerCount = IF claimed = {} THEN 0 ELSE 1
    /\ claimed \subseteq opened
    /\ \A t \in Threads : pc[t] # "idle" => file[t] \in claimed

\* A thread that sleeps without a wakeup on the way has nothing to wake up for:
\* the ring is empty, or the doorbell of its newest frame is still to be
\* delivered.
NoLostWakeup ==
    \A t \in Threads : pc[t] = "wait" /\ ~event[t] =>
        ring = 0 \/ sender = "notify" \/ b2a \/ irq

\* No thread keeps sleeping on a session that has ended.
NoSleepOffline == \A t \in Threads : pc[t] = "wait" /\ state = "OFFLINE" => event[t]

\* A blocked thread returns once the session has ended, and does not sleep
\* forever while frames wait.
BlockedThreadReturns ==
    \A t \in Threads :
        /\ (pc[t] = "wait" /\ state = "OFFLINE") ~> (pc[t] = "idle")
        /\ (pc[t] = "wait" /\ ring > 0) ~> (pc[t] = "idle" \/ ring = 0)

=============================================================================
