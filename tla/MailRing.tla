------------------------------ MODULE MailRing ------------------------------
(***************************************************************************)
(* One single-producer single-consumer ring of the MailMsg protocol        *)
(* (LZAMP/protocol/mailmsg/mailmsg.c), step by step as the two CPUs see    *)
(* the shared memory.                                                      *)
(*                                                                         *)
(* Every store between two publish() calls may become visible to the other *)
(* CPU at any moment and in any order; publish() ends with a barrier, so   *)
(* the next store follows only when all of them are visible.  The four     *)
(* fields of a slot that matter (sequence, body, crc, commit) are          *)
(* therefore stored one at a time in an arbitrary order, and read one at a *)
(* time in an arbitrary order by the consumer.  "body" stands for          *)
(* generation, type, length and payload.                                   *)
(*                                                                         *)
(* Sequence numbers are chosen freely for every push: they wrap in the     *)
(* code, so the ring may not depend on them being fresh.                   *)
(***************************************************************************)
EXTENDS Integers, Sequences

CONSTANTS
    Slots,       \* MAILMSG_RING_SLOTS
    SeqNums,  \* sequence numbers a caller may use, 0 (an invalid one) included
    Bodies,      \* frame contents
    ZeroBody     \* the content of a slot start_store() has cleared

ASSUME SlotsAssumption == Slots \in Nat /\ Slots >= 2
ASSUME SeqNumsAssumption == SeqNums \subseteq Nat /\ 0 \in SeqNums
ASSUME BodiesAssumption == ZeroBody \in Bodies

VARIABLES
    slot,        \* ring->slot
    producer,    \* ring->producer
    consumer,    \* ring->consumer
    ppc,         \* where the producer is in mailmsg_ring_push()
    image,       \* the slot content the producer is storing
    stored,      \* the fields of image that are visible already
    txResult,    \* result of the last completed push
    cpc,         \* where the consumer is in mailmsg_ring_pop()
    copy,        \* *message, the consumer's private copy
    copied,      \* the fields of copy that were read already
    rxResult,    \* result of the last completed pop
    received     \* the frame returned by the last pop that released a slot

pvars == <<ppc, image, stored, txResult>>
cvars == <<cpc, copy, copied, rxResult, received>>
vars == <<slot, producer, consumer, pvars, cvars>>

Index == 0 .. Slots - 1
Fields == {"sequence", "body", "crc", "commit"}

\* The checksum identifies the contents it was computed over; a slot cleared
\* to zero holds no valid one.
NoCrc == <<>>
mailmsg_frame_crc32(s, b) == <<s, b>>
Crcs == {NoCrc} \cup (SeqNums \X Bodies)

Slot == [sequence : SeqNums, body : Bodies, crc : Crcs, commit : SeqNums]
ZeroSlot == [sequence |-> 0, body |-> ZeroBody, crc |-> NoCrc, commit |-> 0]

\* Mutant: the index does not wrap.
mailmsg_next_NoWrap(value) == value + 1

mailmsg_next(value) == (value + 1) % Slots

Init ==
    /\ slot = [i \in Index |-> ZeroSlot]
    /\ producer = 0
    /\ consumer = 0
    /\ ppc = "idle"
    /\ image = ZeroSlot
    /\ stored = {}
    /\ txResult = "NONE"
    /\ cpc = "idle"
    /\ copy = ZeroSlot
    /\ copied = {}
    /\ rxResult = "NONE"
    /\ received = ZeroSlot

-----------------------------------------------------------------------------
(* mailmsg_ring_push(), and its fault-injecting twin of the Linux driver,    *)
(* which stores another body than the one the checksum was computed over.    *)

PushInvalid ==
    /\ ppc = "idle"
    /\ txResult' = "INVALID"
    /\ UNCHANGED <<slot, producer, consumer, ppc, image, stored, cvars>>

PushFull ==
    /\ ppc = "idle"
    /\ mailmsg_next(producer) = consumer
    /\ txResult' = "FULL"
    /\ UNCHANGED <<slot, producer, consumer, ppc, image, stored, cvars>>

\* Mutant: no test for a full ring.
PushBegin_NoFullCheck(s, b, w) ==
    /\ ppc = "idle"
    /\ s # 0
    /\ image' = [sequence |-> s, body |-> w,
                 crc |-> mailmsg_frame_crc32(s, b), commit |-> 0]
    /\ ppc' = "frame"
    /\ UNCHANGED <<slot, producer, consumer, stored, txResult, cvars>>

\* s, b: the message's sequence and body; w: the body that reaches the slot.
PushBegin(s, b, w) ==
    /\ ppc = "idle"
    /\ s # 0
    /\ mailmsg_next(producer) # consumer
    /\ image' = [sequence |-> s, body |-> w,
                 crc |-> mailmsg_frame_crc32(s, b), commit |-> 0]
    /\ ppc' = "frame"
    /\ UNCHANGED <<slot, producer, consumer, stored, txResult, cvars>>

PushStore(f) ==
    /\ ppc = "frame"
    /\ f \notin stored
    /\ slot' = [slot EXCEPT ![producer][f] = image[f]]
    /\ stored' = stored \cup {f}
    /\ UNCHANGED <<producer, consumer, ppc, image, txResult, cvars>>

\* Mutant: no barrier between the frame and its commit word.
PushCommit_NoBarrier ==
    /\ ppc = "frame"
    /\ slot' = [slot EXCEPT ![producer].commit = image.sequence]
    /\ ppc' = "commit"
    /\ UNCHANGED <<producer, consumer, image, stored, txResult, cvars>>

PushCommit ==
    /\ ppc = "frame"
    /\ stored = Fields
    /\ slot' = [slot EXCEPT ![producer].commit = image.sequence]
    /\ ppc' = "commit"
    /\ UNCHANGED <<producer, consumer, image, stored, txResult, cvars>>

PushPublish ==
    /\ ppc = "commit"
    /\ producer' = mailmsg_next(producer)
    /\ ppc' = "idle"
    /\ image' = ZeroSlot
    /\ stored' = {}
    /\ txResult' = "OK"
    /\ UNCHANGED <<slot, consumer, cvars>>

-----------------------------------------------------------------------------
(* mailmsg_ring_pop() *)

PopEmpty ==
    /\ cpc = "idle"
    /\ consumer = producer
    /\ rxResult' = "EMPTY"
    /\ UNCHANGED <<slot, producer, consumer, pvars, cpc, copy, copied, received>>

\* Mutant: the empty ring is not recognised.
PopAcquire_NoEmptyCheck ==
    /\ cpc = "idle"
    /\ cpc' = "check"
    /\ UNCHANGED <<slot, producer, consumer, pvars, copy, copied, rxResult, received>>

PopAcquire ==
    /\ cpc = "idle"
    /\ consumer # producer
    /\ cpc' = "check"
    /\ UNCHANGED <<slot, producer, consumer, pvars, copy, copied, rxResult, received>>

PopCheck ==
    /\ cpc = "check"
    /\ IF slot[consumer].commit # slot[consumer].sequence
       THEN cpc' = "idle" /\ rxResult' = "INCOMPLETE"
       ELSE cpc' = "copy" /\ UNCHANGED rxResult
    /\ UNCHANGED <<slot, producer, consumer, pvars, copy, copied, received>>

PopCopy(f) ==
    /\ cpc = "copy"
    /\ f \notin copied
    /\ copy' = [copy EXCEPT ![f] = slot[consumer][f]]
    /\ copied' = copied \cup {f}
    /\ UNCHANGED <<slot, producer, consumer, pvars, cpc, rxResult, received>>

\* The result that goes with a released frame.
Verdict(m) ==
    IF m.sequence = 0 THEN "INVALID"
    ELSE IF m.crc # mailmsg_frame_crc32(m.sequence, m.body) THEN "BAD_CRC"
    ELSE "OK"

PopRelease ==
    /\ cpc = "copy"
    /\ copied = Fields
    /\ consumer' = mailmsg_next(consumer)
    /\ received' = copy
    /\ rxResult' = Verdict(copy)
    /\ cpc' = "idle"
    /\ copy' = ZeroSlot
    /\ copied' = {}
    /\ UNCHANGED <<slot, producer, pvars>>

Push ==
    \/ PushInvalid
    \/ PushFull
    \/ \E s \in SeqNums, b, w \in Bodies : PushBegin(s, b, w)
    \/ \E f \in Fields : PushStore(f)
    \/ PushCommit
    \/ PushPublish

Pop ==
    \/ PopEmpty
    \/ PopAcquire
    \/ PopCheck
    \/ \E f \in Fields : PopCopy(f)
    \/ PopRelease

Next == Push \/ Pop

Spec == Init /\ [][Next]_vars

-----------------------------------------------------------------------------
(* mailmsg_ring_count(), and what the ring contains as a queue.              *)

mailmsg_ring_count ==
    IF producer >= consumer THEN producer - consumer
                            ELSE Slots - consumer + producer

\* The slot k places after the consumer's.
At(k) == IF consumer + k < Slots THEN consumer + k ELSE consumer + k - Slots

Committed(m) == [m EXCEPT !.commit = m.sequence]

Contents == [k \in 1 .. mailmsg_ring_count |-> slot[At(k - 1)]]

Frames == {m \in Slot : m.sequence # 0 /\ m.commit = m.sequence}

Queue == INSTANCE MailQueue WITH
    Capacity <- Slots - 1,
    Frame    <- Frames,
    NoFrame  <- ZeroSlot,
    queue    <- Contents,
    offered  <- IF ppc = "idle" THEN ZeroSlot ELSE Committed(image)

-----------------------------------------------------------------------------
TxResults == {"NONE", "OK", "FULL", "INVALID"}
RxResults == {"NONE", "OK", "EMPTY", "INCOMPLETE", "BAD_CRC", "INVALID"}

\* The type invariant.
TypeOK ==
    /\ slot \in [Index -> Slot]
    /\ producer \in Index
    /\ consumer \in Index
    /\ ppc \in {"idle", "frame", "commit"}
    /\ image \in Slot
    /\ stored \in SUBSET Fields
    /\ txResult \in TxResults
    /\ cpc \in {"idle", "check", "copy"}
    /\ copy \in Slot
    /\ copied \in SUBSET Fields
    /\ rxResult \in RxResults
    /\ received \in Slot

\* The slot mailmsg_ring_push() is writing is never the slot that
\* mailmsg_ring_pop() is reading on the other CPU: neither side takes a lock,
\* only the order of the index stores keeps them apart.
NoSlotRace == ppc # "idle" /\ cpc # "idle" => producer # consumer

\* Every slot between the two indices holds one whole, committed frame: a
\* half-written frame is never within the consumer's reach, although a slot
\* keeps the commit word of the frame that occupied it a lap earlier.
LiveSlotsCommitted ==
    \A k \in 0 .. Slots - 1 : k < mailmsg_ring_count =>
        slot[At(k)].sequence # 0 /\ slot[At(k)].commit = slot[At(k)].sequence

\* mailmsg_ring_pop() never meets an uncommitted slot: with the index
\* published last, its INCOMPLETE result cannot occur.
NeverIncomplete == rxResult # "INCOMPLETE"

\* The lock-free ring implements the queue of MailQueue with Slots - 1 places:
\* nothing is lost, duplicated, torn or reordered, and FULL and EMPTY are
\* reported only when they are true.
ImplementsQueue == Queue!Spec

-----------------------------------------------------------------------------
(* The inductive invariant behind these properties.                          *)

\* Slot i lies between the two indices.
Live(i) == IF consumer <= producer THEN consumer <= i /\ i < producer
                                   ELSE consumer <= i \/ i < producer

\* The consumer reads only a live slot, and the slot being written stays free
\* until it is published.
IndexInv ==
    /\ cpc # "idle" => consumer # producer
    /\ ppc # "idle" => mailmsg_next(producer) # consumer

LiveInv == \A i \in Index : Live(i) => slot[i] \in Frames

\* What push has stored so far is what it was given.
ImageInv ==
    /\ ppc = "idle" => stored = {}
    /\ ppc # "idle" => image.sequence # 0 /\ image.commit = 0
    /\ ppc = "frame" => \A f \in stored : slot[producer][f] = image[f]
    /\ ppc = "commit" => slot[producer] = Committed(image)

\* What pop has copied so far is what the slot still holds.
CopyInv ==
    /\ cpc # "copy" => copied = {}
    /\ \A f \in copied : copy[f] = slot[consumer][f]

IInv == TypeOK /\ IndexInv /\ LiveInv /\ ImageInv /\ CopyInv /\ NeverIncomplete

=============================================================================
