--------------------------- MODULE MailRingProofs ---------------------------
(***************************************************************************)
(* Proofs about the ring of MailRing, for every number of slots (at least  *)
(* two), every set of sequence numbers and every set of frame contents.    *)
(*                                                                         *)
(* NoSlotRace and NeverIncomplete are not inductive: a step that publishes *)
(* an index keeps them only because the slot being published is known to   *)
(* be whole (ImageInv), the slots in reach of the consumer are known to be *)
(* committed (LiveInv) and the index the producer is about to publish is   *)
(* known to stay off the consumer's (IndexInv).  IInv adds these facts.    *)
(***************************************************************************)
EXTENDS MailRing, SequenceTheorems, TLAPS

\* mailmsg_next() steps to the next slot and wraps from the last to the first.
LEMMA NextIndex ==
  \A v \in Index : mailmsg_next(v) = IF v = Slots - 1 THEN 0 ELSE v + 1
  BY SlotsAssumption DEF mailmsg_next, Index

\* The ring start_store() has cleared satisfies the invariant.
LEMMA InitIInv == Init => IInv
  <1> SUFFICES ASSUME Init PROVE IInv
    OBVIOUS
  <1>1. ZeroSlot \in Slot
    BY SeqNumsAssumption, BodiesAssumption DEF ZeroSlot, Slot, Crcs, NoCrc
  <1>2. TypeOK
    BY <1>1, SlotsAssumption DEF Init, TypeOK, Index, TxResults, RxResults
  <1>3. LiveInv
    BY DEF Init, LiveInv, Live, Index
  <1>4. IndexInv /\ ImageInv /\ CopyInv /\ NeverIncomplete
    BY DEF Init, IndexInv, ImageInv, CopyInv, NeverIncomplete
  <1>5. QED
    BY <1>2, <1>3, <1>4 DEF IInv

\* Taking a free slot after the FULL test of mailmsg_ring_push() keeps the
\* invariant.
LEMMA PushBeginIInv ==
  ASSUME IInv, NEW s \in SeqNums, NEW b \in Bodies, NEW w \in Bodies,
         PushBegin(s, b, w)
  PROVE  IInv'
  <1>1. TypeOK'
    BY SeqNumsAssumption
    DEF IInv, TypeOK, PushBegin, cvars, Slot, Crcs, mailmsg_frame_crc32
  <1>2. IndexInv' /\ NeverIncomplete' /\ CopyInv' /\ LiveInv'
    BY DEF IInv, IndexInv, NeverIncomplete, CopyInv, LiveInv, Live,
           PushBegin, cvars
  <1>3. ImageInv'
    BY DEF IInv, ImageInv, PushBegin
  <1>4. QED
    BY <1>1, <1>2, <1>3 DEF IInv

\* Storing one field of the frame disturbs no slot in the consumer's reach and
\* nothing the consumer has copied.
LEMMA PushStoreIInv ==
  ASSUME IInv, NEW f \in Fields, PushStore(f)
  PROVE  IInv'
  <1>1. TypeOK'
    BY DEF IInv, TypeOK, PushStore, Fields, Slot, cvars
  <1>2. \A i \in Index : i # producer => slot'[i] = slot[i]
    BY DEF IInv, TypeOK, PushStore
  <1>3. ~Live(producer)
    BY DEF IInv, TypeOK, Index, Live
  <1>4. LiveInv'
    BY <1>2, <1>3 DEF IInv, LiveInv, Live, PushStore
  <1>5. IndexInv' /\ NeverIncomplete'
    BY DEF IInv, IndexInv, NeverIncomplete, PushStore, cvars
  <1>6. CopyInv'
    <2>1. CASE cpc = "copy"
      <3>1. consumer # producer
        BY <2>1 DEF IInv, IndexInv
      <3>2. slot'[consumer] = slot[consumer]
        BY <1>2, <3>1 DEF IInv, TypeOK
      <3>3. QED
        BY <3>2 DEF IInv, CopyInv, PushStore, cvars
    <2>2. CASE cpc # "copy"
      BY <2>2 DEF IInv, CopyInv, PushStore, cvars
    <2>3. QED
      BY <2>1, <2>2
  <1>7. ImageInv'
    <2>1. slot'[producer][f] = image[f]
      BY DEF IInv, TypeOK, PushStore, Slot, Fields
    <2>2. \A g \in stored : g # f => slot'[producer][g] = slot[producer][g]
      BY DEF IInv, TypeOK, PushStore, Slot, Fields
    <2>3. QED
      BY <2>1, <2>2 DEF IInv, ImageInv, PushStore
  <1>8. QED
    BY <1>1, <1>4, <1>5, <1>6, <1>7 DEF IInv

\* The commit store completes the frame, still out of the consumer's reach.
LEMMA PushCommitIInv ==
  ASSUME IInv, PushCommit
  PROVE  IInv'
  <1>1. TypeOK'
    BY DEF IInv, TypeOK, PushCommit, Slot, cvars
  <1>2. \A i \in Index : i # producer => slot'[i] = slot[i]
    BY DEF IInv, TypeOK, PushCommit
  <1>3. ~Live(producer)
    BY DEF IInv, TypeOK, Index, Live
  <1>4. LiveInv'
    BY <1>2, <1>3 DEF IInv, LiveInv, Live, PushCommit
  <1>5. IndexInv' /\ NeverIncomplete'
    BY DEF IInv, IndexInv, NeverIncomplete, PushCommit, cvars
  <1>6. CopyInv'
    <2>1. CASE cpc = "copy"
      <3>1. consumer # producer
        BY <2>1 DEF IInv, IndexInv
      <3>2. slot'[consumer] = slot[consumer]
        BY <1>2, <3>1 DEF IInv, TypeOK
      <3>3. QED
        BY <3>2 DEF IInv, CopyInv, PushCommit, cvars
    <2>2. CASE cpc # "copy"
      BY <2>2 DEF IInv, CopyInv, PushCommit, cvars
    <2>3. QED
      BY <2>1, <2>2
  <1>7. ImageInv'
    <2>1. slot[producer].sequence = image.sequence /\ slot[producer].body = image.body
          /\ slot[producer].crc = image.crc
      BY DEF IInv, ImageInv, PushCommit, Fields
    <2>2. slot[producer] \in Slot /\ image \in Slot
      BY DEF IInv, TypeOK
    <2>3. slot'[producer] = [slot[producer] EXCEPT !.commit = image.sequence]
      BY DEF IInv, TypeOK, PushCommit
    <2>4. slot'[producer] = Committed(image)
      BY <2>1, <2>2, <2>3 DEF Slot, Committed
    <2>5. QED
      BY <2>4 DEF IInv, ImageInv, PushCommit, Committed
  <1>8. QED
    BY <1>1, <1>4, <1>5, <1>6, <1>7 DEF IInv

\* The store to ring->producer brings exactly one slot, a whole frame, into
\* the consumer's reach.
LEMMA PushPublishIInv ==
  ASSUME IInv, PushPublish
  PROVE  IInv'
  <1>1. producer \in Index /\ consumer \in Index /\ producer' \in Index
    BY NextIndex, SlotsAssumption DEF IInv, TypeOK, PushPublish, Index
  <1>2. ZeroSlot \in Slot
    BY SeqNumsAssumption, BodiesAssumption DEF ZeroSlot, Slot, Crcs, NoCrc
  <1>3. TypeOK'
    BY <1>1, <1>2 DEF IInv, TypeOK, PushPublish, TxResults, cvars
  <1>4. producer' # consumer
    BY DEF IInv, IndexInv, PushPublish
  <1>5. \A i \in Index : Live(i)' => Live(i) \/ i = producer
    BY <1>1, NextIndex, SlotsAssumption DEF Live, PushPublish, Index
  <1>6. slot[producer] \in Frames
    <2>1. Committed(image) \in Slot
      BY DEF IInv, TypeOK, Committed, Slot
    <2>2. slot[producer] = Committed(image) /\ image.sequence # 0 /\ image \in Slot
      BY DEF IInv, TypeOK, ImageInv, PushPublish
    <2>3. QED
      BY <2>1, <2>2 DEF Frames, Committed, Slot
  <1>7. LiveInv'
    BY <1>5, <1>6 DEF IInv, LiveInv, PushPublish
  <1>8. IndexInv' /\ NeverIncomplete' /\ CopyInv' /\ ImageInv'
    BY <1>4 DEF IInv, IndexInv, NeverIncomplete, CopyInv, ImageInv, PushPublish, cvars
  <1>9. QED
    BY <1>3, <1>7, <1>8 DEF IInv

\* The commit test of mailmsg_ring_pop() always succeeds.
LEMMA PopCheckIInv ==
  ASSUME IInv, PopCheck
  PROVE  IInv'
  <1>1. Live(consumer) /\ consumer \in Index
    BY DEF IInv, TypeOK, IndexInv, PopCheck, Live, Index
  <1>2. slot[consumer].commit = slot[consumer].sequence
    BY <1>1 DEF IInv, LiveInv, Frames
  <1>3. cpc' = "copy" /\ rxResult' = rxResult
    BY <1>2 DEF PopCheck
  <1>4. TypeOK'
    BY <1>3 DEF IInv, TypeOK, PopCheck, pvars
  <1>5. LiveInv' /\ IndexInv' /\ ImageInv' /\ CopyInv' /\ NeverIncomplete'
    BY <1>3 DEF IInv, LiveInv, Live, IndexInv, ImageInv, CopyInv,
                NeverIncomplete, PopCheck, pvars
  <1>6. QED
    BY <1>4, <1>5 DEF IInv

\* Copying a field keeps the copy equal to the slot.
LEMMA PopCopyIInv ==
  ASSUME IInv, NEW f \in Fields, PopCopy(f)
  PROVE  IInv'
  <1>1. slot[consumer] \in Slot
    BY DEF IInv, TypeOK
  <1>2. TypeOK'
    BY <1>1 DEF IInv, TypeOK, PopCopy, Fields, Slot, pvars
  <1>3. LiveInv' /\ IndexInv' /\ ImageInv' /\ NeverIncomplete'
    BY DEF IInv, LiveInv, Live, IndexInv, ImageInv, NeverIncomplete,
           PopCopy, pvars
  <1>4. CopyInv'
    <2>1. copy'[f] = slot[consumer][f]
      BY DEF IInv, TypeOK, PopCopy, Slot, Fields
    <2>2. \A g \in copied : g # f => copy'[g] = copy[g]
      BY DEF IInv, TypeOK, PopCopy, Slot, Fields
    <2>3. QED
      BY <2>1, <2>2 DEF IInv, CopyInv, PopCopy
  <1>5. QED
    BY <1>2, <1>3, <1>4 DEF IInv

\* The store to ring->consumer frees one slot and never reaches the slot the
\* producer is about to publish.
LEMMA PopReleaseIInv ==
  ASSUME IInv, PopRelease
  PROVE  IInv'
  <1>1. consumer \in Index /\ producer \in Index /\ consumer' \in Index
    BY NextIndex, SlotsAssumption DEF IInv, TypeOK, PopRelease, Index
  <1>2. ZeroSlot \in Slot
    BY SeqNumsAssumption, BodiesAssumption DEF ZeroSlot, Slot, Crcs, NoCrc
  <1>3. TypeOK'
    BY <1>1, <1>2 DEF IInv, TypeOK, PopRelease, RxResults, Verdict, pvars
  <1>4. consumer # producer
    BY DEF IInv, IndexInv, PopRelease
  <1>5. \A i \in Index : Live(i)' => Live(i)
    BY <1>1, <1>4, NextIndex, SlotsAssumption DEF Live, PopRelease, Index
  <1>6. LiveInv'
    BY <1>5 DEF IInv, LiveInv, PopRelease
  <1>7. ppc # "idle" => mailmsg_next(producer) # consumer'
    BY <1>1, <1>4, NextIndex, SlotsAssumption DEF PopRelease, Index
  <1>8. IndexInv'
    BY <1>7 DEF IndexInv, PopRelease, pvars, mailmsg_next
  <1>9. NeverIncomplete' /\ ImageInv' /\ CopyInv'
    BY DEF IInv, NeverIncomplete, ImageInv, CopyInv, PopRelease, Verdict, pvars
  <1>10. QED
    BY <1>3, <1>6, <1>8, <1>9 DEF IInv

\* Every step keeps the invariant.
LEMMA NextIInv == IInv /\ [Next]_vars => IInv'
  <1> SUFFICES ASSUME IInv, [Next]_vars PROVE IInv'
    OBVIOUS
  <1> USE DEF IInv, TypeOK, IndexInv, LiveInv, Live, ImageInv, CopyInv,
              NeverIncomplete, pvars, cvars, TxResults, RxResults
  <1>1. CASE PushInvalid
    BY <1>1 DEF PushInvalid
  <1>2. CASE PushFull
    BY <1>2 DEF PushFull
  <1>3. CASE \E s \in SeqNums, b, w \in Bodies : PushBegin(s, b, w)
    BY <1>3, PushBeginIInv
  <1>4. CASE \E f \in Fields : PushStore(f)
    BY <1>4, PushStoreIInv
  <1>5. CASE PushCommit
    BY <1>5, PushCommitIInv
  <1>6. CASE PushPublish
    BY <1>6, PushPublishIInv
  <1>7. CASE PopEmpty
    BY <1>7 DEF PopEmpty
  <1>8. CASE PopAcquire
    BY <1>8 DEF PopAcquire
  <1>9. CASE PopCheck
    BY <1>9, PopCheckIInv
  <1>10. CASE \E f \in Fields : PopCopy(f)
    BY <1>10, PopCopyIInv
  <1>11. CASE PopRelease
    BY <1>11, PopReleaseIInv
  <1>12. CASE UNCHANGED vars
    BY <1>12 DEF vars
  <1>13. QED
    BY <1>1, <1>2, <1>3, <1>4, <1>5, <1>6, <1>7, <1>8, <1>9, <1>10, <1>11,
       <1>12 DEF Next, Push, Pop

\* The inductive invariant holds in every behaviour of the ring.
THEOREM RingInvariant == Spec => []IInv
  BY InitIInv, NextIInv, PTL DEF Spec

\* Indices stay within the slot array and every field keeps its type.
THEOREM TypeCorrect == Spec => []TypeOK
  <1>1. IInv => TypeOK
    BY DEF IInv
  <1>2. QED
    BY <1>1, RingInvariant, PTL

\* The producer and the consumer of a ring never touch the same slot at the
\* same time, although mailmsg_ring_push() and mailmsg_ring_pop() share no lock.
THEOREM SlotsNeverRace == Spec => []NoSlotRace
  <1>1. IInv => NoSlotRace
    BY DEF IInv, IndexInv, NoSlotRace
  <1>2. QED
    BY <1>1, RingInvariant, PTL

\* mailmsg_ring_pop() never returns INCOMPLETE.
THEOREM IncompleteUnreachable == Spec => []NeverIncomplete
  <1>1. IInv => NeverIncomplete
    BY DEF IInv
  <1>2. QED
    BY <1>1, RingInvariant, PTL

\* mailmsg_ring_count() is at most Slots - 1.
LEMMA CountType ==
  ASSUME TypeOK
  PROVE  mailmsg_ring_count \in 0 .. Slots - 1
  BY SlotsAssumption DEF TypeOK, Index, mailmsg_ring_count

\* The first mailmsg_ring_count() slots from the consumer's on are the live ones.
LEMMA AtLive ==
  ASSUME TypeOK, NEW k \in 0 .. Slots - 1, k < mailmsg_ring_count
  PROVE  At(k) \in Index /\ Live(At(k))
  BY SlotsAssumption DEF TypeOK, Index, mailmsg_ring_count, At, Live

\* Every slot within the consumer's reach holds a whole committed frame.
THEOREM CommittedSlots == Spec => []LiveSlotsCommitted
  <1>1. IInv => LiveSlotsCommitted
    BY AtLive DEF IInv, LiveInv, LiveSlotsCommitted, Frames
  <1>2. QED
    BY <1>1, RingInvariant, PTL

\* The ring's contents, read as a queue, form a sequence of mailmsg_ring_count()
\* slots.
LEMMA ContentsSeq ==
  ASSUME TypeOK
  PROVE  /\ Contents \in Seq(Slot)
         /\ Len(Contents) = mailmsg_ring_count
         /\ \A k \in 1 .. mailmsg_ring_count : Contents[k] = slot[At(k - 1)]
  <1>1. mailmsg_ring_count \in 0 .. Slots - 1
    BY CountType
  <1>2. \A k \in 1 .. mailmsg_ring_count : slot[At(k - 1)] \in Slot
    <2> TAKE k \in 1 .. mailmsg_ring_count
    <2>1. k - 1 \in 0 .. Slots - 1 /\ k - 1 < mailmsg_ring_count
      BY <1>1, SlotsAssumption
    <2>2. At(k - 1) \in Index
      BY <2>1, AtLive
    <2>3. QED
      BY <2>2 DEF TypeOK
  <1>3. mailmsg_ring_count \in Nat
    BY <1>1, SlotsAssumption
  <1>4. QED
    BY <1>2, <1>3 DEF Contents

\* A step that moves no index and writes no live slot leaves the contents alone.
LEMMA ContentsUnchanged ==
  ASSUME TypeOK, UNCHANGED <<producer, consumer>>,
         \A i \in Index : Live(i) => slot'[i] = slot[i]
  PROVE  Contents' = Contents
  <1>1. mailmsg_ring_count' = mailmsg_ring_count
    BY DEF mailmsg_ring_count
  <1>2. \A k : At(k)' = At(k)
    BY DEF At
  <1>3. \A k \in 1 .. mailmsg_ring_count : slot'[At(k - 1)] = slot[At(k - 1)]
    <2> TAKE k \in 1 .. mailmsg_ring_count
    <2>1. k - 1 \in 0 .. Slots - 1 /\ k - 1 < mailmsg_ring_count
      BY CountType, SlotsAssumption
    <2>2. QED
      BY <2>1, AtLive
  <1>4. QED
    BY <1>1, <1>2, <1>3 DEF Contents

\* Publishing the producer index appends the slot just written.
LEMMA PublishAppends ==
  ASSUME IInv, PushPublish
  PROVE  Contents' = Append(Contents, slot[producer])
  <1>1. TypeOK /\ TypeOK'
    BY PushPublishIInv DEF IInv
  <1>2. producer \in Index /\ consumer \in Index /\ producer' # consumer
    BY <1>1 DEF TypeOK, IInv, IndexInv, PushPublish
  <1>3. mailmsg_ring_count' = mailmsg_ring_count + 1
    BY <1>2, NextIndex, SlotsAssumption DEF mailmsg_ring_count, PushPublish, Index
  <1>4. At(mailmsg_ring_count) = producer
    BY <1>2, SlotsAssumption DEF mailmsg_ring_count, At, Index
  <1>5. mailmsg_ring_count \in Nat
    BY <1>1, CountType
  <1>6. \A k : At(k)' = At(k)
    BY DEF At, PushPublish
  <1>7. Contents' = [k \in 1 .. mailmsg_ring_count + 1 |-> slot[At(k - 1)]]
    BY <1>3, <1>6 DEF Contents, PushPublish
  <1>8. Append(Contents, slot[producer]) =
          [k \in 1 .. mailmsg_ring_count + 1 |->
             IF k = mailmsg_ring_count + 1 THEN slot[producer] ELSE Contents[k]]
    BY <1>1, <1>5, ContentsSeq
  <1>9. \A k \in 1 .. mailmsg_ring_count + 1 :
          slot[At(k - 1)] = IF k = mailmsg_ring_count + 1 THEN slot[producer] ELSE Contents[k]
    <2> TAKE k \in 1 .. mailmsg_ring_count + 1
    <2>1. CASE k = mailmsg_ring_count + 1
      BY <2>1, <1>4, <1>5
    <2>2. CASE k # mailmsg_ring_count + 1
      <3>1. k \in 1 .. mailmsg_ring_count
        BY <2>2, <1>5
      <3>2. QED
        BY <3>1, <2>2, <1>1, ContentsSeq
    <2>3. QED
      BY <2>1, <2>2
  <1>10. QED
    BY <1>7, <1>8, <1>9

\* Releasing a slot takes the oldest frame, and that is what was copied.
LEMMA ReleaseTakes ==
  ASSUME IInv, PopRelease
  PROVE  /\ Contents # <<>>
         /\ Head(Contents) = copy
         /\ Contents' = Tail(Contents)
  <1>1. TypeOK /\ TypeOK'
    BY PopReleaseIInv DEF IInv
  <1>2. producer \in Index /\ consumer \in Index /\ consumer # producer
    BY <1>1 DEF TypeOK, IInv, IndexInv, PopRelease
  <1>3. mailmsg_ring_count' = mailmsg_ring_count - 1
    BY <1>2, NextIndex, SlotsAssumption DEF mailmsg_ring_count, PopRelease, Index
  <1>4. mailmsg_ring_count \in 1 .. Slots - 1
    BY <1>2, SlotsAssumption DEF mailmsg_ring_count, Index
  <1>5. Contents \in Seq(Slot) /\ Len(Contents) = mailmsg_ring_count
        /\ \A k \in 1 .. mailmsg_ring_count : Contents[k] = slot[At(k - 1)]
    BY <1>1, ContentsSeq
  <1>6. Contents # <<>> /\ Head(Contents) = slot[At(0)]
    <2>1. 1 \in 1 .. mailmsg_ring_count
      BY <1>4, SlotsAssumption
    <2>2. Contents # <<>>
      BY <1>4, <1>5
    <2>3. Head(Contents) = Contents[1]
      BY <1>5, <2>2
    <2>4. Contents[1] = slot[At(1 - 1)]
      BY <1>5, <2>1
    <2>5. QED
      BY <2>2, <2>3, <2>4
  <1>7. At(0) = consumer
    BY <1>2, SlotsAssumption DEF At, Index
  <1>8. copy = slot[consumer]
    <2>1. copy \in Slot /\ slot[consumer] \in Slot
      BY <1>1 DEF TypeOK
    <2>2. \A f \in Fields : copy[f] = slot[consumer][f]
      BY DEF IInv, CopyInv, PopRelease
    <2>3. /\ copy.sequence = slot[consumer].sequence
          /\ copy.body = slot[consumer].body
          /\ copy.crc = slot[consumer].crc
          /\ copy.commit = slot[consumer].commit
      BY <2>2 DEF Fields
    <2>4. QED
      BY <2>1, <2>3 DEF Slot
  <1>9. \A k \in 1 .. mailmsg_ring_count - 1 : At(k - 1)' = At(k)
    BY <1>2, <1>4, NextIndex, SlotsAssumption DEF At, PopRelease, Index
  <1>10. Contents' = [k \in 1 .. mailmsg_ring_count - 1 |-> slot[At(k)]]
    BY <1>3, <1>9 DEF Contents, PopRelease
  <1>11. \A k \in 1 .. mailmsg_ring_count - 1 : Contents[k + 1] = slot[At(k)]
    <2> TAKE k \in 1 .. mailmsg_ring_count - 1
    <2>1. k + 1 \in 1 .. mailmsg_ring_count /\ (k + 1) - 1 = k
      BY <1>4, SlotsAssumption
    <2>2. QED
      BY <1>5, <2>1
  <1>12. /\ Tail(Contents) \in Seq(Slot)
         /\ Len(Tail(Contents)) = mailmsg_ring_count - 1
         /\ \A k \in 1 .. Len(Tail(Contents)) : Tail(Contents)[k] = Contents[k + 1]
    BY <1>5, <1>6, HeadTailProperties
  <1>13. /\ Contents' \in Seq(Slot)
         /\ Len(Contents') = mailmsg_ring_count - 1
         /\ \A k \in 1 .. mailmsg_ring_count - 1 : Contents'[k] = slot[At(k)]
    <2>1. mailmsg_ring_count - 1 \in Nat
      BY <1>4, SlotsAssumption
    <2>2. \A k \in 1 .. mailmsg_ring_count - 1 : slot[At(k)] \in Slot
      <3> TAKE k \in 1 .. mailmsg_ring_count - 1
      <3>1. k \in 0 .. Slots - 1 /\ k < mailmsg_ring_count
        BY <1>4, SlotsAssumption
      <3>2. QED
        BY <1>1, <3>1, AtLive DEF TypeOK
    <2>3. QED
      BY <1>10, <2>1, <2>2
  <1>14. Contents' = Tail(Contents)
    BY <1>11, <1>12, <1>13, SeqEqual
  <1>15. QED
    BY <1>6, <1>7, <1>8, <1>14

\* A cleared ring is an empty queue.
LEMMA InitRefines == Init => Queue!Init
  <1> SUFFICES ASSUME Init PROVE Queue!Init
    OBVIOUS
  <1>1. TypeOK
    BY InitIInv DEF IInv
  <1>2. mailmsg_ring_count = 0
    BY DEF Init, mailmsg_ring_count
  <1>3. Contents = <<>>
    BY <1>1, <1>2, ContentsSeq
  <1>4. QED
    BY <1>3 DEF Init, Queue!Init

\* Every step of the ring is a step of the queue or leaves it unchanged.
LEMMA NextRefines == IInv /\ [Next]_vars => [Queue!Next]_(Queue!vars)
  <1> SUFFICES ASSUME IInv, [Next]_vars
               PROVE  [Queue!Next]_(Queue!vars)
    OBVIOUS
  <1> USE DEF Queue!Next, Queue!vars, pvars, cvars
  <1>1. TypeOK /\ Len(Contents) = mailmsg_ring_count
    BY ContentsSeq DEF IInv
  <1>2. producer \in Index /\ consumer \in Index
    BY <1>1 DEF TypeOK
  <1>3. CASE PushInvalid
    <2>1. Contents' = Contents
      BY <1>1, <1>3, ContentsUnchanged DEF PushInvalid
    <2>2. Queue!Refuse
      BY <1>3, <2>1 DEF PushInvalid, Queue!Refuse
    <2>3. QED
      BY <2>2
  <1>4. CASE PushFull
    <2>1. Contents' = Contents
      BY <1>1, <1>4, ContentsUnchanged DEF PushFull
    <2>2. mailmsg_ring_count = Slots - 1
      BY <1>2, <1>4, NextIndex, SlotsAssumption DEF PushFull, mailmsg_ring_count, Index
    <2>3. Queue!Refuse
      BY <1>1, <1>4, <2>1, <2>2 DEF PushFull, Queue!Refuse
    <2>4. QED
      BY <2>3
  <1>5. CASE \E s \in SeqNums, b, w \in Bodies : PushBegin(s, b, w)
    <2>1. PICK s \in SeqNums, b \in Bodies, w \in Bodies : PushBegin(s, b, w)
      BY <1>5
    <2>2. Contents' = Contents
      BY <1>1, <2>1, ContentsUnchanged DEF PushBegin
    <2>3. mailmsg_ring_count < Slots - 1
      BY <1>2, <2>1, NextIndex, SlotsAssumption DEF PushBegin, mailmsg_ring_count, Index
    <2>4. Committed(image)' \in Frames
      BY <2>1, SeqNumsAssumption
      DEF PushBegin, Committed, Frames, Slot, Crcs, mailmsg_frame_crc32
    <2>5. Queue!Offer(Committed(image)')
      BY <1>1, <2>1, <2>2, <2>3 DEF PushBegin, Queue!Offer
    <2>6. QED
      BY <2>4, <2>5
  <1>6. CASE \E f \in Fields : PushStore(f)
    <2>1. PICK f \in Fields : PushStore(f)
      BY <1>6
    <2>2. ~Live(producer)
      BY <1>2 DEF Live, Index
    <2>3. \A i \in Index : Live(i) => slot'[i] = slot[i]
      BY <1>1, <2>1, <2>2 DEF TypeOK, PushStore
    <2>4. Contents' = Contents
      BY <1>1, <2>1, <2>3, ContentsUnchanged DEF PushStore
    <2>5. QED
      BY <2>1, <2>4 DEF PushStore, Committed
  <1>7. CASE PushCommit
    <2>1. ~Live(producer)
      BY <1>2 DEF Live, Index
    <2>2. \A i \in Index : Live(i) => slot'[i] = slot[i]
      BY <1>1, <1>7, <2>1 DEF TypeOK, PushCommit
    <2>3. Contents' = Contents
      BY <1>1, <1>7, <2>2, ContentsUnchanged DEF PushCommit
    <2>4. QED
      BY <1>7, <2>3 DEF PushCommit, Committed
  <1>8. CASE PushPublish
    <2>1. Contents' = Append(Contents, slot[producer])
      BY <1>8, PublishAppends
    <2>2. slot[producer] = Committed(image)
      BY <1>8 DEF IInv, ImageInv, PushPublish
    <2>3. Committed(image) # ZeroSlot
      <3>1. Committed(image).sequence = image.sequence
        BY <1>1 DEF TypeOK, Committed, Slot
      <3>2. image.sequence # 0
        BY <1>8 DEF IInv, ImageInv, PushPublish
      <3>3. QED
        BY <3>1, <3>2 DEF ZeroSlot
    <2>4. Queue!Accept
      BY <1>8, <2>1, <2>2, <2>3 DEF PushPublish, Queue!Accept
    <2>5. QED
      BY <2>4
  <1>9. CASE PopEmpty
    <2>1. Contents' = Contents
      BY <1>1, <1>9, ContentsUnchanged DEF PopEmpty
    <2>2. mailmsg_ring_count = 0
      BY <1>2, <1>9 DEF PopEmpty, mailmsg_ring_count, Index
    <2>3. Contents = <<>>
      BY <1>1, <2>2, ContentsSeq
    <2>4. Queue!NothingToTake
      BY <1>9, <2>1, <2>3 DEF PopEmpty, Queue!NothingToTake, Committed
    <2>5. QED
      BY <2>4
  <1>10. CASE PopAcquire
    <2>1. Contents' = Contents
      BY <1>1, <1>10, ContentsUnchanged DEF PopAcquire
    <2>2. QED
      BY <1>10, <2>1 DEF PopAcquire, Committed
  <1>11. CASE PopCheck
    <2>1. Contents' = Contents
      BY <1>1, <1>11, ContentsUnchanged DEF PopCheck
    <2>2. rxResult' = rxResult
      BY <1>11, PopCheckIInv DEF PopCheck, IInv, NeverIncomplete
    <2>3. QED
      BY <1>11, <2>1, <2>2 DEF PopCheck, Committed
  <1>12. CASE \E f \in Fields : PopCopy(f)
    <2>1. PICK f \in Fields : PopCopy(f)
      BY <1>12
    <2>2. Contents' = Contents
      BY <1>1, <2>1, ContentsUnchanged DEF PopCopy
    <2>3. QED
      BY <2>1, <2>2 DEF PopCopy, Committed
  <1>13. CASE PopRelease
    <2>1. Contents # <<>> /\ Head(Contents) = copy /\ Contents' = Tail(Contents)
      BY <1>13, ReleaseTakes
    <2>2. Queue!Take
      BY <1>13, <2>1 DEF PopRelease, Queue!Take, Committed
    <2>3. QED
      BY <2>2
  <1>14. CASE UNCHANGED vars
    <2>1. Contents' = Contents
      BY <1>1, <1>14, ContentsUnchanged DEF vars
    <2>2. QED
      BY <1>14, <2>1 DEF vars, Committed
  <1>15. QED
    BY <1>3, <1>4, <1>5, <1>6, <1>7, <1>8, <1>9, <1>10, <1>11, <1>12, <1>13,
       <1>14 DEF Next, Push, Pop

\* The lock-free ring of mailmsg.c is a FIFO queue of Slots - 1 places: nothing
\* is lost, duplicated, torn or reordered, whatever the interleaving and the
\* order in which the stores between two publishes become visible.
THEOREM RingImplementsQueue == Spec => ImplementsQueue
  BY RingInvariant, InitRefines, NextRefines, PTL
  DEF Spec, ImplementsQueue, Queue!Spec
====
