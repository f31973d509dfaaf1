-------------------------- MODULE Cpu3WorkerProofs --------------------------
(***************************************************************************)
(* For any number of priorities, any ring size and any frames: the         *)
(* firmware loses no wakeup, p0's reverse ring has one producer at a time, *)
(* and SESSION_READY is the first frame Linux meets.                       *)
(***************************************************************************)
EXTENDS Cpu3Worker, SequenceTheorems, WellFoundedInduction, TLAPS

-----------------------------------------------------------------------------
(* The inductive invariant                                                   *)

\* The worker is inside the service: it has passed the check of the published
\* flag and not yet finished its pass.
Serving == {"drain", "reply", "ring", "stop", "end"}

\* The worker exists once main() has created it, and serves only after main() has
\* published SESSION_READY; it scans exactly while there is a priority to scan, its
\* lists are empty between two passes, and while it replies, there is a reply to send.
ThreadInv ==
    /\ mpc = "boot" <=> wpc = "none"
    /\ published <=> mpc = "loop"
    /\ wpc \in Serving => published
    /\ wpc \in Serving \ {"end"} <=> todo # {}
    /\ wpc \notin Serving => resched = {}
    /\ wpc \in {"reply", "ring", "stop"} => out # <<>>

\* Before Linux has taken SESSION_READY it queues nothing, so the worker has
\* nothing to answer, and the only frame in a reverse ring is SESSION_READY.
ClosedInv ==
    linux = "closed" =>
        /\ lock = NoPrio
        /\ \A p \in Prios : l2c[p] = <<>>
        /\ wpc \notin {"reply", "ring", "stop"}
        /\ \A p \in Prios \ {0} : c2l[p] = <<>>
        /\ IF mpc \in {"boot", "push", "pushing"}
           THEN c2l[0] = <<>>
           ELSE c2l[0] = <<[type |-> "SESSION_READY", peer |-> 0]>>

\* Linux cannot open the data plane before main() has pushed SESSION_READY.
OpenInv == linux # "closed" => mpc \in {"ring", "publish", "loop"}

IInv == TypeOK /\ ThreadInv /\ PendingHasWakeup /\ ClosedInv /\ OpenInv

-----------------------------------------------------------------------------
(* Priorities, rings and replies                                             *)

\* A set of priorities that is not empty has a first one.
LEMMA MinIsMember ==
  ASSUME NEW S \in SUBSET Nat, S # {}
  PROVE  Min(S) \in S
<1> DEFINE R == {ss \in Nat \X Nat : ss[1] < ss[2]}
<1>1. IsWellFoundedOn(R, Nat)
  BY NatLessThanWellFounded, Zenon DEF OpToRel
<1> HIDE DEF R
<1>2. \E x \in S : \A y \in S : ~(<<y, x>> \in R)
  BY <1>1, WFMin, Zenon
<1>3. PICK x \in S : \A y \in S : ~(<<y, x>> \in R)
  BY <1>2
<1>4. ASSUME NEW y \in S PROVE x <= y
  <2>1. x \in Nat /\ y \in Nat OBVIOUS
  <2>2. <<y, x>> \notin R BY <1>3
  <2>3. ~(y < x)
    <3>1. <<y, x>>[1] = y /\ <<y, x>>[2] = x OBVIOUS
    <3> QED BY <2>1, <2>2, <3>1, Zenon DEF R
  <2> QED BY <2>1, <2>3
<1> QED BY <1>4 DEF Min

\* The worker scans a priority of its list.
LEMMA CurrentIsTodo ==
  ASSUME IInv, wpc \in Serving \ {"end"}
  PROVE  Current \in todo /\ Current \in Prios
<1>1. todo \in SUBSET Nat /\ todo # {}
  BY PriosAssumption DEF IInv, TypeOK, ThreadInv
<1> QED BY <1>1, MinIsMember DEF Current, IInv, TypeOK

\* Taking the head of a ring.
LEMMA Popped ==
  ASSUME NEW T, NEW s \in Seq(T), s # <<>>
  PROVE  /\ Tail(s) \in Seq(T) /\ Head(s) \in T /\ Len(Tail(s)) = Len(s) - 1 /\ Len(s) \in Nat
         /\ Head(s) = s[1]
  BY HeadTailProperties, LenProperties, EmptySeq

\* Appending a frame to a ring.
LEMMA Pushed ==
  ASSUME NEW T, NEW s \in Seq(T), NEW e \in T
  PROVE  /\ Append(s, e) \in Seq(T) /\ Append(s, e) # <<>>
         /\ Len(Append(s, e)) = Len(s) + 1 /\ Len(s) \in Nat
  BY AppendProperties, LenProperties

\* Ring p of a direction is replaced by a ring that fits.
LEMMA RingChanged ==
  ASSUME NEW T, NEW r \in [Prios -> Seq(T)], \A p \in Prios : Len(r[p]) <= Capacity,
         NEW q \in Prios, NEW d \in Seq(T), Len(d) <= Capacity
  PROVE  /\ [r EXCEPT ![q] = d] \in [Prios -> Seq(T)]
         /\ \A p \in Prios : Len([r EXCEPT ![q] = d][p]) <= Capacity
  OBVIOUS

Frame == [seq : 1 .. MaxSent, kind : Kinds \cup {"PING", "STOP"}]

\* The replies to a frame are replies.
LEMMA RepliesTyped ==
  ASSUME NEW p \in Prios, NEW f \in Frame
  PROVE  Replies(p, f) \in Seq(Reply)
<1> DEFINE Types == {"ACK", "NACK", "PONG", "NOP", "STOP_READY", "STOP_REFUSED"}
           reply(t) == [type |-> t, peer |-> IF t \in {"PONG", "NOP"} THEN 0 ELSE f.seq]
           pong     == IF f.kind = "PING" THEN "PONG" ELSE "NOP"
           stop     == f.kind \in {"STOP", "LONG_STOP"} /\ p = 0
           types    ==
             CASE f.kind = "BAD" -> IF p \in Reliable THEN <<"NACK">> ELSE <<>>
               [] stop /\ f.kind = "STOP" /\ StopControl -> <<"STOP_READY">>
               [] stop /\ ~(f.kind = "STOP" /\ StopControl) -> <<"STOP_REFUSED">>
               [] f.kind # "BAD" /\ ~stop ->
                    IF p \in Reliable THEN <<"ACK", pong>> ELSE <<pong>>
<1>1. \A t \in Types : reply(t) \in Reply
  BY BoundsAssumption DEF Frame, Reply
<1>2. types \in Seq(Types)
  <2>1. pong \in Types OBVIOUS
  <2> HIDE DEF pong
  <2>2. /\ <<"NACK">> \in Seq(Types) /\ <<>> \in Seq(Types) /\ <<"STOP_READY">> \in Seq(Types)
        /\ <<"STOP_REFUSED">> \in Seq(Types) /\ <<"ACK", pong>> \in Seq(Types)
        /\ <<pong>> \in Seq(Types)
    BY <2>1
  <2> HIDE DEF Types
  <2>3. CASE f.kind = "BAD" BY <2>2, <2>3
  <2>4. CASE f.kind # "BAD" BY <2>2, <2>4
  <2> QED BY <2>3, <2>4
<1>3. Replies(p, f) = [i \in DOMAIN types |-> reply(types[i])]
  BY DEF Replies
<1> HIDE DEF types, reply, Types
<1>4. DOMAIN types = 1 .. Len(types) /\ Len(types) \in Nat /\ \A i \in DOMAIN types : types[i] \in Types
  BY <1>2, LenProperties, ElementOfSeq
<1>5. [i \in 1 .. Len(types) |-> reply(types[i])] \in Seq(Reply)
  BY <1>1, <1>4
<1> QED BY <1>3, <1>4, <1>5

-----------------------------------------------------------------------------
(* Types                                                                     *)

RingsType ==
    /\ l2c \in [Prios -> Seq(Frame)]
    /\ c2l \in [Prios -> Seq(Reply)]
    /\ \A p \in Prios : Len(l2c[p]) <= Capacity
    /\ \A p \in Prios : Len(c2l[p]) <= Capacity
    /\ out \in Seq(Reply)

StateType ==
    /\ a2b \in [Prios -> {"none", "doorbell", "raw"}]
    /\ b2a \subseteq Prios
    /\ linux \in {"closed", "active", "stopping"}
    /\ lock \in Prios \cup {NoPrio}
    /\ sent \in 0 .. MaxSent
    /\ stopSeq \in 0 .. MaxSent
    /\ cpu \in {"on", "off"}
    /\ pending \subseteq Prios
    /\ sem \in {0, 1}
    /\ mpc \in {"boot", "push", "pushing", "ring", "publish", "loop"}
    /\ published \in BOOLEAN
    /\ wpc \in {"none", "wait", "woken", "drain", "reply", "ring", "stop", "end"}
    /\ todo \subseteq Prios
    /\ handled \in 0 .. Quota
    /\ leave \in BOOLEAN
    /\ resched \subseteq Prios

\* The type invariant is about the rings and about the rest.
LEMMA TypeParts ==
    /\ TypeOK <=> RingsType /\ StateType
    /\ TypeOK' <=> RingsType' /\ StateType'
  BY DEF TypeOK, RingsType, StateType, Frame

\* Every frame that is queued has its type and finds room.
LEMMA StepRings ==
  ASSUME IInv, [Next]_vars
  PROVE  RingsType'
<1> USE DEF lvars, mvars, wvars, RingsType
<1>a. RingsType /\ StateType BY TypeParts DEF IInv
<1> USE <1>a
<1>1. CASE LinuxActivate
  <2> DEFINE d == Tail(c2l[0])
  <2>1. 0 \in Prios /\ c2l[0] \in Seq(Reply) /\ c2l[0] # <<>> /\ c2l' = [c2l EXCEPT ![0] = d]
    BY <1>1, PriosAssumption DEF LinuxActivate
  <2>2. d \in Seq(Reply) /\ Len(d) <= Capacity
    BY <2>1, Popped, BoundsAssumption
  <2> HIDE DEF d
  <2>3. c2l' \in [Prios -> Seq(Reply)] /\ \A p \in Prios : Len(c2l'[p]) <= Capacity
    BY <2>1, <2>2, RingChanged
  <2> QED BY <1>1, <2>3 DEF LinuxActivate
<1>2. ASSUME NEW q \in Prios, NEW k \in Kinds, LinuxSend(q, k) PROVE RingsType'
  <2>1. CASE Len(l2c[q]) = Capacity BY <1>2, <2>1 DEF LinuxSend
  <2>2. CASE Len(l2c[q]) # Capacity
    <3> DEFINE e == [seq |-> sent + 1, kind |-> k]
               d == Append(l2c[q], e)
    <3>0. sent + 1 \in 1 .. MaxSent BY <1>2, BoundsAssumption DEF LinuxSend, StateType
    <3>1. q \in Prios /\ e \in Frame /\ l2c[q] \in Seq(Frame)
      BY <3>0, PriosAssumption DEF Frame
    <3>2. d \in Seq(Frame) /\ Len(d) <= Capacity
      BY <3>1, <2>2, Pushed, BoundsAssumption
    <3>3. l2c' = [l2c EXCEPT ![q] = d]
      BY <1>2, <2>2 DEF LinuxSend
    <3> HIDE DEF d
    <3> QED BY <1>2, <3>1, <3>2, <3>3, RingChanged DEF LinuxSend
  <2> QED BY <2>1, <2>2
<1>3. ASSUME NEW q \in Prios, LinuxQueuePush(q) PROVE RingsType'
  <2> DEFINE e == [seq |-> sent + 1, kind |-> "PING"]
             d == Append(l2c[q], e)
  <2>0. sent + 1 \in 1 .. MaxSent BY <1>3, BoundsAssumption DEF LinuxQueuePush, StateType
  <2>1. e \in Frame /\ l2c[q] \in Seq(Frame)
    BY <2>0 DEF Frame
  <2>2. d \in Seq(Frame) /\ Len(d) <= Capacity
    BY <1>3, <2>1, Pushed, BoundsAssumption DEF LinuxQueuePush
  <2>3. l2c' = [l2c EXCEPT ![q] = d]
    BY <1>3 DEF LinuxQueuePush
  <2> HIDE DEF d
  <2> QED BY <1>3, <2>1, <2>2, <2>3, RingChanged DEF LinuxQueuePush
<1>4. ASSUME NEW q \in Prios, LinuxDoorbell(q) PROVE RingsType' BY <1>4 DEF LinuxDoorbell
<1>5. ASSUME NEW q \in Prios, LinuxIrq(q) PROVE RingsType' BY <1>5 DEF LinuxIrq
<1>6. ASSUME NEW q \in Prios, LinuxRead(q) PROVE RingsType'
  <2> DEFINE d == Tail(c2l[q])
  <2>1. q \in Prios /\ c2l[q] \in Seq(Reply) /\ c2l[q] # <<>> /\ c2l' = [c2l EXCEPT ![q] = d]
    BY <1>6, PriosAssumption DEF LinuxRead
  <2>2. d \in Seq(Reply) /\ Len(d) <= Capacity
    BY <2>1, Popped, BoundsAssumption
  <2> HIDE DEF d
  <2>3. c2l' \in [Prios -> Seq(Reply)] /\ \A p \in Prios : Len(c2l'[p]) <= Capacity
    BY <2>1, <2>2, RingChanged
  <2> QED BY <1>6, <2>3 DEF LinuxRead
<1>7. CASE LinuxStop
  <2>1. CASE Len(l2c[0]) = Capacity BY <1>7, <2>1 DEF LinuxStop
  <2>2. CASE Len(l2c[0]) # Capacity
    <3> DEFINE e == [seq |-> sent + 1, kind |-> "STOP"]
               d == Append(l2c[0], e)
    <3>0. sent + 1 \in 1 .. MaxSent BY <1>7, BoundsAssumption DEF LinuxStop, StateType
    <3>1. 0 \in Prios /\ e \in Frame /\ l2c[0] \in Seq(Frame)
      BY <3>0, PriosAssumption DEF Frame
    <3>2. d \in Seq(Frame) /\ Len(d) <= Capacity
      BY <3>1, <2>2, Pushed, BoundsAssumption
    <3>3. l2c' = [l2c EXCEPT ![0] = d]
      BY <1>7, <2>2 DEF LinuxStop
    <3> HIDE DEF d
    <3> QED BY <1>7, <3>1, <3>2, <3>3, RingChanged DEF LinuxStop
  <2> QED BY <2>1, <2>2
<1>8. CASE LinuxControl
  <2> DEFINE d == Tail(c2l[0])
  <2>1. 0 \in Prios /\ c2l[0] \in Seq(Reply) /\ c2l[0] # <<>> /\ c2l' = [c2l EXCEPT ![0] = d]
    BY <1>8, PriosAssumption DEF LinuxControl
  <2>2. d \in Seq(Reply) /\ Len(d) <= Capacity
    BY <2>1, Popped, BoundsAssumption
  <2> HIDE DEF d
  <2>3. c2l' \in [Prios -> Seq(Reply)] /\ \A p \in Prios : Len(c2l'[p]) <= Capacity
    BY <2>1, <2>2, RingChanged
  <2> QED BY <1>8, <2>3 DEF LinuxControl
<1>9. CASE LinuxNotify BY <1>9 DEF LinuxNotify
<1>10. ASSUME NEW q \in Prios, Isr(q) PROVE RingsType' BY <1>10 DEF Isr
<1>11. CASE WorkerTake BY <1>11 DEF WorkerTake, WorkerRuns
<1>12. CASE WorkerSwap BY <1>12 DEF WorkerSwap, WorkerRuns
<1>13. CASE WorkerReceive
  <2> DEFINE d == Tail(l2c[Current])
  <2>1. Current \in Prios
    BY <1>13, CurrentIsTodo DEF WorkerReceive, WorkerRuns, Serving
  <2>2. l2c[Current] \in Seq(Frame) /\ l2c[Current] # <<>> /\ l2c' = [l2c EXCEPT ![Current] = d]
    BY <1>13, <2>1 DEF WorkerReceive
  <2>3. d \in Seq(Frame) /\ Len(d) <= Capacity /\ Head(l2c[Current]) \in Frame
    BY <2>1, <2>2, Popped, BoundsAssumption
  <2>4. out' \in Seq(Reply)
    BY <1>13, <2>1, <2>3, RepliesTyped DEF WorkerReceive
  <2> HIDE DEF d
  <2> QED BY <1>13, <2>1, <2>2, <2>3, <2>4, RingChanged DEF WorkerReceive
<1>14. CASE WorkerNextPriority BY <1>14 DEF WorkerNextPriority, WorkerRuns
<1>15. CASE WorkerReply
  <2>1. Current \in Prios /\ out # <<>>
    BY <1>15, CurrentIsTodo DEF WorkerReply, WorkerRuns, Serving, ThreadInv, IInv
  <2>2. out \in Seq(Reply) /\ Head(out) \in Reply /\ Tail(out) \in Seq(Reply)
    BY <2>1, Popped
  <2>3. CASE Len(c2l[Current]) = Capacity BY <1>15, <2>2, <2>3 DEF WorkerReply
  <2>4. CASE Len(c2l[Current]) # Capacity
    <3> DEFINE d == Append(c2l[Current], Head(out))
    <3>1. c2l[Current] \in Seq(Reply) BY <2>1
    <3>2. d \in Seq(Reply) /\ Len(d) <= Capacity
      BY <2>1, <2>2, <2>4, <3>1, Pushed, BoundsAssumption
    <3>3. c2l' = [c2l EXCEPT ![Current] = d]
      BY <1>15, <2>4 DEF WorkerReply
    <3> HIDE DEF d
    <3> QED BY <1>15, <2>1, <2>4, <3>2, <3>3, RingChanged DEF WorkerReply
  <2> QED BY <2>3, <2>4
<1>16. CASE WorkerRing
  <2>1. out # <<>>
    BY <1>16 DEF WorkerRing, WorkerRuns, Serving, ThreadInv, IInv
  <2>2. out \in Seq(Reply) /\ Tail(out) \in Seq(Reply)
    BY <2>1, Popped
  <2> QED BY <1>16, <2>2 DEF WorkerRing
<1>17. CASE WorkerCpuOff BY <1>17 DEF WorkerCpuOff, WorkerRuns
<1>18. CASE WorkerReschedule BY <1>18 DEF WorkerReschedule, WorkerRuns
<1>19. CASE MainBoot BY <1>19 DEF MainBoot, MainRuns
<1>20. CASE MainPushBegin BY <1>20 DEF MainPushBegin, MainRuns
<1>21. CASE MainPushEnd
  <2> DEFINE e == [type |-> "SESSION_READY", peer |-> 0]
             d == Append(c2l[0], e)
  <2>1. 0 \in Prios /\ c2l[0] = <<>>
    BY <1>21, PriosAssumption DEF MainPushEnd, MainRuns, ClosedInv, OpenInv, IInv
  <2>2. e \in Reply /\ c2l[0] \in Seq(Reply) /\ Len(c2l[0]) = 0
    BY <2>1, BoundsAssumption DEF Reply
  <2>3. d \in Seq(Reply) /\ Len(d) <= Capacity
    BY <2>2, Pushed, BoundsAssumption
  <2>4. c2l' = [c2l EXCEPT ![0] = d]
    BY <1>21 DEF MainPushEnd
  <2> HIDE DEF d
  <2> QED BY <1>21, <2>1, <2>3, <2>4, RingChanged DEF MainPushEnd
<1>22. CASE MainRing BY <1>22 DEF MainRing, MainRuns
<1>23. CASE MainPublish BY <1>23 DEF MainPublish, MainRuns
<1>24. CASE UNCHANGED vars BY <1>24 DEF vars
<1> QED
  BY <1>1, <1>2, <1>3, <1>4, <1>5, <1>6, <1>7, <1>8, <1>9, <1>10, <1>11, <1>12, <1>13,
     <1>14, <1>15, <1>16, <1>17, <1>18, <1>19, <1>20, <1>21, <1>22, <1>23, <1>24
     DEF Next, Linux, Worker, Main

\* The other variables keep their types.
LEMMA StepState ==
  ASSUME IInv, [Next]_vars
  PROVE  StateType'
<1> USE PriosAssumption, BoundsAssumption DEF lvars, mvars, wvars, StateType, Quota
<1>a. StateType BY TypeParts DEF IInv
<1> USE <1>a
<1>1. CASE LinuxActivate BY <1>1 DEF LinuxActivate
<1>2. ASSUME NEW q \in Prios, NEW k \in Kinds, LinuxSend(q, k) PROVE StateType'
  BY <1>2 DEF LinuxSend, NoPrio
<1>3. ASSUME NEW q \in Prios, LinuxQueuePush(q) PROVE StateType' BY <1>3 DEF LinuxQueuePush
<1>4. ASSUME NEW q \in Prios, LinuxDoorbell(q) PROVE StateType' BY <1>4 DEF LinuxDoorbell
<1>5. ASSUME NEW q \in Prios, LinuxIrq(q) PROVE StateType' BY <1>5 DEF LinuxIrq
<1>6. ASSUME NEW q \in Prios, LinuxRead(q) PROVE StateType' BY <1>6 DEF LinuxRead
<1>7. CASE LinuxStop BY <1>7 DEF LinuxStop, NoPrio
<1>8. CASE LinuxControl BY <1>8 DEF LinuxControl
<1>9. CASE LinuxNotify BY <1>9 DEF LinuxNotify, NoPrio
<1>10. ASSUME NEW q \in Prios, Isr(q) PROVE StateType' BY <1>10 DEF Isr
<1>11. CASE WorkerTake BY <1>11 DEF WorkerTake, WorkerRuns
<1>12. CASE WorkerSwap BY <1>12 DEF WorkerSwap, WorkerRuns
<1>13. CASE WorkerReceive
  <2>1. leave' \in BOOLEAN BY <1>13, Zenon DEF WorkerReceive
  <2>2. handled' \in 0 .. Quota /\ wpc' \in {"drain", "reply"} BY <1>13 DEF WorkerReceive
  <2> QED BY <1>13, <2>1, <2>2 DEF WorkerReceive
<1>14. CASE WorkerNextPriority
  <2>1. Current \in Prios BY <1>14, CurrentIsTodo DEF WorkerNextPriority, WorkerRuns, Serving
  <2>2. resched' \subseteq Prios /\ todo' \subseteq Prios BY <1>14, <2>1 DEF WorkerNextPriority
  <2>3. wpc' \in {"end", "drain"} BY <1>14 DEF WorkerNextPriority
  <2>4. leave' \in BOOLEAN BY <1>14, Zenon DEF WorkerNextPriority
  <2>5. handled' \in 0 .. Quota BY <1>14 DEF WorkerNextPriority
  <2> QED BY <1>14, <2>2, <2>3, <2>4, <2>5 DEF WorkerNextPriority
<1>15. CASE WorkerReply BY <1>15 DEF WorkerReply, WorkerRuns
<1>16. CASE WorkerRing
  <2>1. Current \in Prios BY <1>16, CurrentIsTodo DEF WorkerRing, WorkerRuns, Serving
  <2> QED BY <1>16, <2>1 DEF WorkerRing
<1>17. CASE WorkerCpuOff BY <1>17 DEF WorkerCpuOff, WorkerRuns
<1>18. CASE WorkerReschedule BY <1>18 DEF WorkerReschedule, WorkerRuns
<1>19. CASE MainBoot BY <1>19 DEF MainBoot, MainRuns
<1>20. CASE MainPushBegin BY <1>20 DEF MainPushBegin, MainRuns
<1>21. CASE MainPushEnd BY <1>21 DEF MainPushEnd, MainRuns
<1>22. CASE MainRing BY <1>22 DEF MainRing, MainRuns
<1>23. CASE MainPublish BY <1>23 DEF MainPublish, MainRuns
<1>24. CASE UNCHANGED vars BY <1>24 DEF vars
<1> QED
  BY <1>1, <1>2, <1>3, <1>4, <1>5, <1>6, <1>7, <1>8, <1>9, <1>10, <1>11, <1>12, <1>13,
     <1>14, <1>15, <1>16, <1>17, <1>18, <1>19, <1>20, <1>21, <1>22, <1>23, <1>24
     DEF Next, Linux, Worker, Main

-----------------------------------------------------------------------------
(* The invariant is inductive                                                *)

\* main() publishes before the worker serves; the worker has something to scan and to send.
LEMMA StepThread ==
  ASSUME IInv, [Next]_vars
  PROVE  ThreadInv'
<1> USE DEF lvars, mvars, wvars, Serving
<1>a. ThreadInv /\ StateType BY TypeParts DEF IInv
<1> USE <1>a DEF ThreadInv, StateType
<1>1. CASE LinuxActivate BY <1>1 DEF LinuxActivate
<1>2. ASSUME NEW q \in Prios, NEW k \in Kinds, LinuxSend(q, k) PROVE ThreadInv'
  BY <1>2 DEF LinuxSend
<1>3. ASSUME NEW q \in Prios, LinuxQueuePush(q) PROVE ThreadInv' BY <1>3 DEF LinuxQueuePush
<1>4. ASSUME NEW q \in Prios, LinuxDoorbell(q) PROVE ThreadInv' BY <1>4 DEF LinuxDoorbell
<1>5. ASSUME NEW q \in Prios, LinuxIrq(q) PROVE ThreadInv' BY <1>5 DEF LinuxIrq
<1>6. ASSUME NEW q \in Prios, LinuxRead(q) PROVE ThreadInv' BY <1>6 DEF LinuxRead
<1>7. CASE LinuxStop BY <1>7 DEF LinuxStop
<1>8. CASE LinuxControl BY <1>8 DEF LinuxControl
<1>9. CASE LinuxNotify BY <1>9 DEF LinuxNotify
<1>10. ASSUME NEW q \in Prios, Isr(q) PROVE ThreadInv' BY <1>10 DEF Isr
<1>11. CASE WorkerTake BY <1>11 DEF WorkerTake, WorkerRuns
<1>12. CASE WorkerSwap BY <1>12 DEF WorkerSwap, WorkerRuns
<1>13. CASE WorkerReceive BY <1>13 DEF WorkerReceive, WorkerRuns
<1>14. CASE WorkerNextPriority BY <1>14 DEF WorkerNextPriority, WorkerRuns
<1>15. CASE WorkerReply BY <1>15 DEF WorkerReply, WorkerRuns
<1>16. CASE WorkerRing BY <1>16 DEF WorkerRing, WorkerRuns
<1>17. CASE WorkerCpuOff BY <1>17 DEF WorkerCpuOff, WorkerRuns
<1>18. CASE WorkerReschedule BY <1>18 DEF WorkerReschedule, WorkerRuns
<1>19. CASE MainBoot BY <1>19 DEF MainBoot, MainRuns
<1>20. CASE MainPushBegin BY <1>20 DEF MainPushBegin, MainRuns
<1>21. CASE MainPushEnd BY <1>21 DEF MainPushEnd, MainRuns
<1>22. CASE MainRing BY <1>22 DEF MainRing, MainRuns
<1>23. CASE MainPublish BY <1>23 DEF MainPublish, MainRuns
<1>24. CASE UNCHANGED vars BY <1>24 DEF vars
<1> QED
  BY <1>1, <1>2, <1>3, <1>4, <1>5, <1>6, <1>7, <1>8, <1>9, <1>10, <1>11, <1>12, <1>13,
     <1>14, <1>15, <1>16, <1>17, <1>18, <1>19, <1>20, <1>21, <1>22, <1>23, <1>24
     DEF Next, Linux, Worker, Main

\* Whoever sets a bit raises the semaphore, and whoever lowers it goes on to the swap.
LEMMA StepPending ==
  ASSUME IInv, [Next]_vars
  PROVE  PendingHasWakeup'
<1> USE DEF lvars, mvars, wvars
<1>a. PendingHasWakeup /\ StateType BY TypeParts DEF IInv
<1> USE <1>a DEF PendingHasWakeup, StateType
<1>1. CASE LinuxActivate BY <1>1 DEF LinuxActivate
<1>2. ASSUME NEW q \in Prios, NEW k \in Kinds, LinuxSend(q, k) PROVE PendingHasWakeup'
  BY <1>2 DEF LinuxSend
<1>3. ASSUME NEW q \in Prios, LinuxQueuePush(q) PROVE PendingHasWakeup' BY <1>3 DEF LinuxQueuePush
<1>4. ASSUME NEW q \in Prios, LinuxDoorbell(q) PROVE PendingHasWakeup' BY <1>4 DEF LinuxDoorbell
<1>5. ASSUME NEW q \in Prios, LinuxIrq(q) PROVE PendingHasWakeup' BY <1>5 DEF LinuxIrq
<1>6. ASSUME NEW q \in Prios, LinuxRead(q) PROVE PendingHasWakeup' BY <1>6 DEF LinuxRead
<1>7. CASE LinuxStop BY <1>7 DEF LinuxStop
<1>8. CASE LinuxControl BY <1>8 DEF LinuxControl
<1>9. CASE LinuxNotify BY <1>9 DEF LinuxNotify
<1>10. ASSUME NEW q \in Prios, Isr(q) PROVE PendingHasWakeup' BY <1>10 DEF Isr
<1>11. CASE WorkerTake BY <1>11 DEF WorkerTake, WorkerRuns
<1>12. CASE WorkerSwap BY <1>12 DEF WorkerSwap, WorkerRuns
<1>13. CASE WorkerReceive BY <1>13 DEF WorkerReceive, WorkerRuns
<1>14. CASE WorkerNextPriority BY <1>14 DEF WorkerNextPriority, WorkerRuns
<1>15. CASE WorkerReply BY <1>15 DEF WorkerReply, WorkerRuns
<1>16. CASE WorkerRing BY <1>16 DEF WorkerRing, WorkerRuns
<1>17. CASE WorkerCpuOff BY <1>17 DEF WorkerCpuOff, WorkerRuns
<1>18. CASE WorkerReschedule BY <1>18 DEF WorkerReschedule, WorkerRuns
<1>19. CASE MainBoot BY <1>19 DEF MainBoot, MainRuns, ThreadInv, IInv
<1>20. CASE MainPushBegin BY <1>20 DEF MainPushBegin, MainRuns
<1>21. CASE MainPushEnd BY <1>21 DEF MainPushEnd, MainRuns
<1>22. CASE MainRing BY <1>22 DEF MainRing, MainRuns
<1>23. CASE MainPublish BY <1>23 DEF MainPublish, MainRuns
<1>24. CASE UNCHANGED vars BY <1>24 DEF vars
<1> QED
  BY <1>1, <1>2, <1>3, <1>4, <1>5, <1>6, <1>7, <1>8, <1>9, <1>10, <1>11, <1>12, <1>13,
     <1>14, <1>15, <1>16, <1>17, <1>18, <1>19, <1>20, <1>21, <1>22, <1>23, <1>24
     DEF Next, Linux, Worker, Main

\* Only SESSION_READY opens the data plane.
LEMMA StepOpen ==
  ASSUME IInv, [Next]_vars
  PROVE  OpenInv'
<1> USE DEF lvars, mvars, wvars
<1>a. OpenInv /\ ClosedInv /\ StateType BY TypeParts DEF IInv
<1> USE <1>a DEF OpenInv, StateType
<1>1. CASE LinuxActivate BY <1>1 DEF LinuxActivate, ClosedInv
<1>2. ASSUME NEW q \in Prios, NEW k \in Kinds, LinuxSend(q, k) PROVE OpenInv'
  BY <1>2 DEF LinuxSend
<1>3. ASSUME NEW q \in Prios, LinuxQueuePush(q) PROVE OpenInv' BY <1>3 DEF LinuxQueuePush
<1>4. ASSUME NEW q \in Prios, LinuxDoorbell(q) PROVE OpenInv' BY <1>4 DEF LinuxDoorbell
<1>5. ASSUME NEW q \in Prios, LinuxIrq(q) PROVE OpenInv' BY <1>5 DEF LinuxIrq
<1>6. ASSUME NEW q \in Prios, LinuxRead(q) PROVE OpenInv' BY <1>6 DEF LinuxRead
<1>7. CASE LinuxStop BY <1>7 DEF LinuxStop
<1>8. CASE LinuxControl BY <1>8 DEF LinuxControl
<1>9. CASE LinuxNotify BY <1>9 DEF LinuxNotify
<1>10. ASSUME NEW q \in Prios, Isr(q) PROVE OpenInv' BY <1>10 DEF Isr
<1>11. CASE WorkerTake BY <1>11 DEF WorkerTake, WorkerRuns
<1>12. CASE WorkerSwap BY <1>12 DEF WorkerSwap, WorkerRuns
<1>13. CASE WorkerReceive BY <1>13 DEF WorkerReceive, WorkerRuns
<1>14. CASE WorkerNextPriority BY <1>14 DEF WorkerNextPriority, WorkerRuns
<1>15. CASE WorkerReply BY <1>15 DEF WorkerReply, WorkerRuns
<1>16. CASE WorkerRing BY <1>16 DEF WorkerRing, WorkerRuns
<1>17. CASE WorkerCpuOff BY <1>17 DEF WorkerCpuOff, WorkerRuns
<1>18. CASE WorkerReschedule BY <1>18 DEF WorkerReschedule, WorkerRuns
<1>19. CASE MainBoot BY <1>19 DEF MainBoot, MainRuns
<1>20. CASE MainPushBegin BY <1>20 DEF MainPushBegin, MainRuns
<1>21. CASE MainPushEnd BY <1>21 DEF MainPushEnd, MainRuns
<1>22. CASE MainRing BY <1>22 DEF MainRing, MainRuns
<1>23. CASE MainPublish BY <1>23 DEF MainPublish, MainRuns
<1>24. CASE UNCHANGED vars BY <1>24 DEF vars
<1> QED
  BY <1>1, <1>2, <1>3, <1>4, <1>5, <1>6, <1>7, <1>8, <1>9, <1>10, <1>11, <1>12, <1>13,
     <1>14, <1>15, <1>16, <1>17, <1>18, <1>19, <1>20, <1>21, <1>22, <1>23, <1>24
     DEF Next, Linux, Worker, Main

\* Until then, nothing is queued but SESSION_READY.
LEMMA StepClosed ==
  ASSUME IInv, [Next]_vars
  PROVE  ClosedInv'
<1> USE PriosAssumption DEF lvars, mvars, wvars
<1>a. /\ ClosedInv /\ OpenInv /\ StateType /\ RingsType
      /\ published <=> mpc = "loop"
  BY TypeParts DEF IInv, ThreadInv
<1> USE <1>a DEF ClosedInv, StateType
<1>1. CASE LinuxActivate
  <2>1. Head(c2l[0]).type = "SESSION_READY"
    BY <1>1 DEF LinuxActivate
  <2> QED BY <1>1, <2>1 DEF LinuxActivate
<1>2. ASSUME NEW q \in Prios, NEW k \in Kinds, LinuxSend(q, k) PROVE ClosedInv'
  BY <1>2 DEF LinuxSend
<1>3. ASSUME NEW q \in Prios, LinuxQueuePush(q) PROVE ClosedInv' BY <1>3 DEF LinuxQueuePush
<1>4. ASSUME NEW q \in Prios, LinuxDoorbell(q) PROVE ClosedInv' BY <1>4 DEF LinuxDoorbell
<1>5. ASSUME NEW q \in Prios, LinuxIrq(q) PROVE ClosedInv' BY <1>5 DEF LinuxIrq
<1>6. ASSUME NEW q \in Prios, LinuxRead(q) PROVE ClosedInv' BY <1>6 DEF LinuxRead
<1>7. CASE LinuxStop BY <1>7 DEF LinuxStop
<1>8. CASE LinuxControl
  <2>1. linux # "closed" /\ linux' # "closed" BY <1>8 DEF LinuxControl
  <2> QED BY <2>1
<1>9. CASE LinuxNotify BY <1>9 DEF LinuxNotify
<1>10. ASSUME NEW q \in Prios, Isr(q) PROVE ClosedInv' BY <1>10 DEF Isr
<1>11. CASE WorkerTake BY <1>11 DEF WorkerTake, WorkerRuns
<1>12. CASE WorkerSwap BY <1>12 DEF WorkerSwap, WorkerRuns
<1>13. CASE WorkerReceive
  <2>1. Current \in Prios
    BY <1>13, CurrentIsTodo DEF WorkerReceive, WorkerRuns, Serving
  <2>2. linux # "closed" BY <1>13, <2>1 DEF WorkerReceive
  <2> QED BY <1>13, <2>2 DEF WorkerReceive
<1>14. CASE WorkerNextPriority BY <1>14 DEF WorkerNextPriority, WorkerRuns
<1>15. CASE WorkerReply BY <1>15 DEF WorkerReply, WorkerRuns
<1>16. CASE WorkerRing BY <1>16 DEF WorkerRing, WorkerRuns
<1>17. CASE WorkerCpuOff BY <1>17 DEF WorkerCpuOff, WorkerRuns
<1>18. CASE WorkerReschedule BY <1>18 DEF WorkerReschedule, WorkerRuns
<1>19. CASE MainBoot BY <1>19 DEF MainBoot, MainRuns
<1>20. CASE MainPushBegin BY <1>20 DEF MainPushBegin, MainRuns
<1>21. CASE MainPushEnd
  <2>1. linux = "closed" /\ c2l[0] = <<>> /\ mpc' = "ring"
    BY <1>21 DEF MainPushEnd, MainRuns, OpenInv
  <2>2. c2l'[0] = <<[type |-> "SESSION_READY", peer |-> 0]>>
    BY <1>21, <2>1 DEF MainPushEnd, RingsType
  <2>3. \A p \in Prios \ {0} : c2l'[p] = c2l[p]
    BY <1>21 DEF MainPushEnd, RingsType
  <2> QED BY <1>21, <2>1, <2>2, <2>3 DEF MainPushEnd
<1>22. CASE MainRing BY <1>22 DEF MainRing, MainRuns
<1>23. CASE MainPublish BY <1>23 DEF MainPublish, MainRuns
<1>24. CASE UNCHANGED vars BY <1>24 DEF vars
<1> QED
  BY <1>1, <1>2, <1>3, <1>4, <1>5, <1>6, <1>7, <1>8, <1>9, <1>10, <1>11, <1>12, <1>13,
     <1>14, <1>15, <1>16, <1>17, <1>18, <1>19, <1>20, <1>21, <1>22, <1>23, <1>24
     DEF Next, Linux, Worker, Main


\* CPU3 begins with everything empty.
LEMMA InitIInv == Init => IInv
<1> SUFFICES ASSUME Init PROVE IInv
  OBVIOUS
<1> USE PriosAssumption, BoundsAssumption DEF Init
<1>1. RingsType BY EmptySeq DEF RingsType
<1>2. StateType
  <2>1. published \in BOOLEAN /\ leave \in BOOLEAN BY Zenon
  <2> QED BY <2>1 DEF StateType, Quota, NoPrio
<1>3. ThreadInv /\ PendingHasWakeup /\ ClosedInv /\ OpenInv
  BY DEF ThreadInv, Serving, PendingHasWakeup, ClosedInv, OpenInv
<1> QED BY <1>1, <1>2, <1>3, TypeParts DEF IInv

\* Every step preserves the invariant.
LEMMA NextIInv == IInv /\ [Next]_vars => IInv'
  BY StepRings, StepState, StepThread, StepPending, StepOpen, StepClosed, TypeParts DEF IInv

-----------------------------------------------------------------------------
(* Theorems                                                                  *)

\* The inductive invariant holds in every reachable state.
THEOREM WorkerInvariant == Spec => []IInv
  BY InitIInv, NextIInv, PTL DEF Spec

\* Type correctness: no ring overflows, and the worker's list, quota and replies
\* stay in their ranges.
THEOREM TypeCorrect == Spec => []TypeOK
<1>1. IInv => TypeOK BY DEF IInv
<1> QED BY <1>1, WorkerInvariant, PTL

\* mailmsg_worker() loses no wakeup: a pending bit has the semaphore up or the
\* worker in front of the swap, whichever of the two set it.
THEOREM WakeupsAreNotLost == Spec => []PendingHasWakeup
<1>1. IInv => PendingHasWakeup BY DEF IInv
<1> QED BY <1>1, WorkerInvariant, PTL

\* main() and the worker never produce on p0's reverse ring at the same time.
THEOREM ProducersAlternate == Spec => []OneCriticalProducer
<1>1. IInv => OneCriticalProducer
  BY DEF IInv, ThreadInv, OneCriticalProducer, Serving
<1> QED BY <1>1, WorkerInvariant, PTL

\* SESSION_READY is the only frame Linux can meet before the data plane is open.
THEOREM ReadyIsFirst == Spec => []ReadyComesFirst
<1>1. ASSUME IInv PROVE ReadyComesFirst
  <2> SUFFICES ASSUME linux = "closed", NEW p \in Prios, NEW i \in 1 .. Len(c2l[p])
               PROVE  p = 0 /\ i = 1 /\ c2l[p][i].type = "SESSION_READY"
    BY DEF ReadyComesFirst
  <2>1. c2l[p] # <<>> OBVIOUS
  <2>2. p = 0 BY <1>1, <2>1 DEF IInv, ClosedInv
  <2>3. c2l[0] = <<[type |-> "SESSION_READY", peer |-> 0]>>
    BY <1>1, <2>1, <2>2 DEF IInv, ClosedInv
  <2> QED BY <2>2, <2>3
<1> QED BY <1>1, WorkerInvariant, PTL

\* What RungIsKept says of one step.
Kept ==
    \A p \in Prios :
        published /\ Attended(p) =>
            Attended(p)' \/ l2c'[p] = <<>> \/ (leave /\ p = Current) \/ cpu' = "off"

\* A step takes a priority off one list only to put it on the next, unless its
\* ring is empty, its pass was ended by a corrupted frame, or CPU3 goes off.
LEMMA StepKept ==
  ASSUME IInv, [Next]_vars
  PROVE  Kept
<1> USE DEF lvars, mvars, wvars, Kept, Attended
<1>a. StateType /\ ThreadInv BY TypeParts DEF IInv
<1> USE <1>a DEF StateType
<1>1. CASE LinuxActivate BY <1>1 DEF LinuxActivate
<1>2. ASSUME NEW q \in Prios, NEW k \in Kinds, LinuxSend(q, k) PROVE Kept BY <1>2 DEF LinuxSend
<1>3. ASSUME NEW q \in Prios, LinuxQueuePush(q) PROVE Kept BY <1>3 DEF LinuxQueuePush
<1>4. ASSUME NEW q \in Prios, LinuxDoorbell(q) PROVE Kept BY <1>4 DEF LinuxDoorbell
<1>5. ASSUME NEW q \in Prios, LinuxIrq(q) PROVE Kept BY <1>5 DEF LinuxIrq
<1>6. ASSUME NEW q \in Prios, LinuxRead(q) PROVE Kept BY <1>6 DEF LinuxRead
<1>7. CASE LinuxStop BY <1>7 DEF LinuxStop
<1>8. CASE LinuxControl BY <1>8 DEF LinuxControl
<1>9. CASE LinuxNotify BY <1>9 DEF LinuxNotify
<1>10. ASSUME NEW q \in Prios, Isr(q) PROVE Kept BY <1>10 DEF Isr
<1>11. CASE WorkerTake BY <1>11 DEF WorkerTake, WorkerRuns
<1>12. CASE WorkerSwap
  <2>1. pending # {} /\ published => todo' = pending BY <1>12 DEF WorkerSwap
  <2>2. wpc = "woken" BY <1>12 DEF WorkerSwap, WorkerRuns
  <2> QED BY <1>12, <2>1, <2>2 DEF WorkerSwap, ThreadInv, Serving
<1>13. CASE WorkerReceive BY <1>13 DEF WorkerReceive, WorkerRuns
<1>14. CASE WorkerNextPriority
  <2> SUFFICES ASSUME NEW p \in Prios, published, Attended(p), ~Attended(p)'
               PROVE  l2c'[p] = <<>> \/ (leave /\ p = Current)
    OBVIOUS
  <2>1. p = Current BY <1>14 DEF WorkerNextPriority
  <2>2. ~(handled = Quota /\ l2c[Current] # <<>>) BY <1>14, <2>1 DEF WorkerNextPriority
  <2> QED BY <1>14, <2>1, <2>2 DEF WorkerNextPriority
<1>15. CASE WorkerReply BY <1>15 DEF WorkerReply, WorkerRuns
<1>16. CASE WorkerRing BY <1>16 DEF WorkerRing, WorkerRuns
<1>17. CASE WorkerCpuOff BY <1>17 DEF WorkerCpuOff, WorkerRuns
<1>18. CASE WorkerReschedule BY <1>18 DEF WorkerReschedule, WorkerRuns
<1>19. CASE MainBoot BY <1>19 DEF MainBoot, MainRuns
<1>20. CASE MainPushBegin BY <1>20 DEF MainPushBegin, MainRuns
<1>21. CASE MainPushEnd BY <1>21 DEF MainPushEnd, MainRuns
<1>22. CASE MainRing BY <1>22 DEF MainRing, MainRuns
<1>23. CASE MainPublish BY <1>23 DEF MainPublish, MainRuns
<1>24. CASE UNCHANGED vars BY <1>24 DEF vars
<1> QED
  BY <1>1, <1>2, <1>3, <1>4, <1>5, <1>6, <1>7, <1>8, <1>9, <1>10, <1>11, <1>12, <1>13,
     <1>14, <1>15, <1>16, <1>17, <1>18, <1>19, <1>20, <1>21, <1>22, <1>23, <1>24
     DEF Next, Linux, Worker, Main

\* No step drops a priority that has been rung and still has frames.
THEOREM RungPrioritiesAreKept == Spec => RungIsKept
<1>1. IInv /\ [Next]_vars => Kept BY StepKept
<1> QED BY <1>1, WorkerInvariant, PTL DEF Spec, RungIsKept, Kept

=============================================================================
