---------------------------- MODULE WindowBench ----------------------------
(***************************************************************************)
(* mailmsg_window_bench: one run of the benchmark on one priority.  It     *)
(* keeps up to Window requests in flight, matches PONGs to requests by     *)
(* their value, and after its duration drains for at most five seconds.    *)
(*                                                                         *)
(* The clock is two flags: the duration is over, the drain is over.        *)
(* Latencies are left out.  MaxWrites bounds the requests of a run.        *)
(***************************************************************************)
EXTENDS PingService, FiniteSets

CONSTANTS
    Windows,      \* the windows considered
    Base,         \* base value
    MaxWrites     \* bound on the requests of one run

\* parse_ulong() keeps the base value 1000000 below 2^32; a run of more requests
\* passes 0, but none repeats a value.
ASSUME BenchAssumption ==
    /\ Windows \subseteq Nat \ {0} /\ MaxWrites \in Nat
    /\ Base \in Value /\ MaxWrites <= ValueMod

VARIABLES
    window,        \* the window argument
    pc,            \* where main() is
    active,        \* the values of the active request slots
    next_value,    \* value of the next request
    outstanding, write_ok, ack, pong, duplicate, unknown, errors,
    over,          \* the measuring time has passed
    drained        \* the drain time has passed

counters == <<write_ok, ack, pong, duplicate, unknown, errors>>
bvars == <<window, pc, active, next_value, outstanding, counters, over, drained>>
vars == <<svars, bvars>>

Init ==
    /\ ServiceInit
    /\ window \in Windows
    /\ pc = "open"
    /\ active = {} /\ next_value = Base /\ outstanding = 0
    /\ write_ok = 0 /\ ack = 0 /\ pong = 0
    /\ duplicate = 0 /\ unknown = 0 /\ errors = 0
    /\ over = FALSE /\ drained = FALSE

\* open() and the initial poll(), which claims the reader; without a session
\* the run ends here.
Open ==
    /\ pc = "open"
    /\ pc' = IF online THEN "loop" ELSE "done"
    /\ errors' = IF online THEN errors ELSE errors + 1
    /\ UNCHANGED <<svars, window, active, next_value, outstanding, write_ok, ack, pong,
                   duplicate, unknown, over, drained>>

\* Mutant: the producer goes on polling after its time, as the comment in the
\* code warns.
Loop_NoDrain ==
    /\ pc = "loop"
    /\ pc' = IF ~over THEN "fill" ELSE IF outstanding = 0 THEN "drain" ELSE "poll"
    /\ UNCHANGED <<svars, window, active, next_value, outstanding, counters, over, drained>>

\* The test at the head of the loop: both exits lead to the drain.
Loop ==
    /\ pc = "loop"
    /\ pc' = IF over THEN "drain" ELSE "fill"
    /\ UNCHANGED <<svars, window, active, next_value, outstanding, counters, over, drained>>

\* Mutant: one request more than the window.
MayWrite_OneMore == outstanding <= window /\ write_ok < MaxWrites

\* find_free_slot() finds a slot, and the bound on the run is not reached.
MayWrite == outstanding < window /\ Cardinality(active) < window /\ write_ok < MaxWrites

Write ==
    /\ pc = "fill" /\ MayWrite
    /\ WriteOk(next_value)
    /\ active' = active \cup {next_value}
    /\ next_value' = (next_value + 1) % ValueMod
    /\ write_ok' = write_ok + 1
    /\ outstanding' = outstanding + 1
    /\ UNCHANGED <<reliable, online, window, c2l, cpu3Seq, serving, request, txFull, pc, ack, pong,
                   duplicate, unknown, errors, over, drained>>

\* ENOSPC ends the filling.
WriteRefused ==
    /\ pc = "fill" /\ MayWrite
    /\ WriteFull
    /\ pc' = "poll"
    /\ UNCHANGED <<reliable, online, window, c2l, cpu3Seq, serving, request, txFull, active, next_value,
                   outstanding, counters, over, drained>>

\* Any other error of write() leads to the drain.
WriteFails ==
    /\ pc = "fill" /\ MayWrite /\ ~online
    /\ errors' = errors + 1
    /\ pc' = "drain"
    /\ UNCHANGED <<svars, window, active, next_value, outstanding, write_ok, ack, pong,
                   duplicate, unknown, over, drained>>

Filled ==
    /\ pc = "fill" /\ ~MayWrite
    /\ pc' = "poll"
    /\ UNCHANGED <<svars, window, active, next_value, outstanding, counters, over, drained>>

\* poll() for 10 ms: frames, the end of the session, or nothing.
Poll ==
    /\ pc = "poll"
    /\ pc' = IF PollIn THEN "read" ELSE IF online THEN "loop" ELSE "drain"
    /\ errors' = IF online THEN errors ELSE errors + 1
    /\ UNCHANGED <<svars, window, active, next_value, outstanding, write_ok, ack, pong,
                   duplicate, unknown, over, drained>>

\* Mutant: the slot of an answered request stays in use.
Tally_KeepSlot(f) ==
    /\ ack' = IF f.type = "ACK" THEN ack + 1 ELSE ack
    /\ pong' = IF f.type = "PONG" THEN pong + 1 ELSE pong
    /\ outstanding' = IF f.type = "PONG" THEN outstanding - 1 ELSE outstanding
    /\ UNCHANGED <<active, duplicate, unknown>>

\* One frame: an ACK is counted; a PONG is matched by find_value() with an
\* active slot; value 0 is nobody's answer.
Tally(f) ==
    LET isPong  == f.type = "PONG"
        known   == isPong /\ f.value # 0
        matched == known /\ f.value - 1 \in active
    IN  /\ ack' = IF f.type = "ACK" THEN ack + 1 ELSE ack
        /\ unknown' = IF isPong /\ ~known THEN unknown + 1 ELSE unknown
        /\ duplicate' = IF known /\ ~matched THEN duplicate + 1 ELSE duplicate
        /\ active' = IF matched THEN active \ {f.value - 1} ELSE active
        /\ outstanding' = IF matched THEN outstanding - 1 ELSE outstanding
        /\ pong' = IF matched THEN pong + 1 ELSE pong

\* read() until EAGAIN, in the loop and in the drain.
Read ==
    /\ pc \in {"read", "drainRead"}
    /\ ReadOk
    /\ Tally(Head(c2l))
    /\ UNCHANGED <<reliable, online, window, l2c, linuxSeq, cpu3Seq, serving, request, txFull, pc,
                   next_value, write_ok, errors, over, drained>>

ReadAgain ==
    /\ pc \in {"read", "drainRead"}
    /\ ReadEmpty
    /\ pc' = IF pc = "read" THEN "loop" ELSE "drain"
    /\ UNCHANGED <<reliable, online, window, l2c, linuxSeq, cpu3Seq, serving, request, txFull, active,
                   next_value, outstanding, counters, over, drained>>

ReadFails ==
    /\ pc \in {"read", "drainRead"} /\ ~online
    /\ errors' = errors + 1
    /\ pc' = "drain"
    /\ UNCHANGED <<svars, window, active, next_value, outstanding, write_ok, ack, pong,
                   duplicate, unknown, over, drained>>

\* The drain ends with nothing outstanding, at its deadline, or when poll()
\* returns without POLLIN; with nothing to report it polls again.
Drain ==
    /\ pc = "drain"
    /\ pc' = IF outstanding = 0 \/ drained \/ ~online THEN "done"
             ELSE IF PollIn THEN "drainRead" ELSE "drain"
    /\ UNCHANGED <<svars, window, active, next_value, outstanding, counters, over, drained>>

DurationEnds ==
    /\ ~over /\ pc \notin {"open", "done"}
    /\ over' = TRUE
    /\ UNCHANGED <<svars, window, pc, active, next_value, outstanding, counters, drained>>

DrainEnds ==
    /\ ~drained /\ pc \in {"drain", "drainRead"}
    /\ drained' = TRUE
    /\ UNCHANGED <<svars, window, pc, active, next_value, outstanding, counters, over>>

Bench ==
    \/ Open \/ Loop \/ Write \/ WriteRefused \/ WriteFails \/ Filled
    \/ Poll \/ Read \/ ReadAgain \/ ReadFails \/ Drain

Next ==
    \/ Bench \/ DurationEnds \/ DrainEnds
    \/ Service /\ UNCHANGED bvars

\* The process is scheduled and time passes; CPU3 owes nothing.
Spec == Init /\ [][Next]_vars /\ WF_vars(Bench) /\ WF_vars(DurationEnds) /\ WF_vars(DrainEnds)

-----------------------------------------------------------------------------
(* Properties                                                                *)

\* The exit status of the run.
ExitOk ==
    /\ errors = 0 /\ duplicate = 0 /\ unknown = 0
    /\ reliable => outstanding = 0 /\ ack = write_ok /\ pong = write_ok

TypeOK ==
    /\ ServiceTypeOK
    /\ pc \in {"open", "loop", "fill", "poll", "read", "drain", "drainRead", "done"}
    /\ window \in Windows
    /\ active \subseteq Value /\ next_value \in Value /\ outstanding \in Nat
    /\ {write_ok, ack, pong, duplicate, unknown, errors} \subseteq Nat
    /\ over \in BOOLEAN /\ drained \in BOOLEAN

\* A reliable request has two replies, so the window fits when all replies to
\* a whole window find room in the reverse ring.
WindowFits == (IF reliable THEN 2 ELSE 1) * window <= Capacity

\* With a window that fits, CPU3 never meets a full reverse ring, however
\* seldom the benchmark reads (doc/note/mailmsg-protocol.md: "response
\* amplification"; the replies to every request in flight, ACKs of requests
\* whose PONG was read included, stay below the capacity).
NoReplyDropped == WindowFits => txFull = 0

\* Every PONG answers exactly one active slot: find_value() never misses, also
\* after dropped replies, refused writes and during the drain.  The only one
\* that is nobody's is the answer to 2^32 - 1, in a run that gets so far.
PongsMatchSlots ==
    /\ duplicate = 0
    /\ unknown = 0 \/ (unknown = 1 /\ ValueMod - 1 \in active)
    /\ outstanding = Cardinality(active) /\ outstanding = write_ok - pong

\* A run whose window fits and that got all its answers succeeds: when the
\* last PONG has been read, so has the ACK of every request, although the run
\* stops reading as soon as nothing is outstanding.
AnsweredRunSucceeds ==
    pc = "done" /\ outstanding = 0 /\ errors = 0 /\ WindowFits => ExitOk

\* The run ends whatever CPU3 does: "Without this branch an incomplete response
\* could leave the producer polling forever after the deadline".
BenchEnds == <>(pc = "done")

=============================================================================
