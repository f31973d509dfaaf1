--------------------------- MODULE LifecycleProofs ---------------------------
(***************************************************************************)
(* For any number of priorities, slots, image chunks and open files: the   *)
(* safety of the session lifecycle.                                        *)
(***************************************************************************)
EXTENDS Lifecycle, SequenceTheorems, TLAPS

-----------------------------------------------------------------------------
(* What the rings' updates do to their elements.                             *)

\* Dropping n frames leaves some of the old ones.
LEMMA Dropped ==
  ASSUME NEW T, NEW s \in Seq(T), NEW n \in 0 .. Len(s)
  PROVE  /\ SubSeq(s, n + 1, Len(s)) \in Seq(T)
         /\ \A i \in DOMAIN SubSeq(s, n + 1, Len(s)) :
              \E j \in DOMAIN s : SubSeq(s, n + 1, Len(s))[i] = s[j]
<1> DEFINE d == SubSeq(s, n + 1, Len(s))
<1>1. /\ d \in Seq(T)
      /\ Len(d) = Len(s) - n
      /\ \A i \in 1 .. Len(s) - n : d[i] = s[i + n]
  BY SubSeqProperties
<1>2. ASSUME NEW i \in DOMAIN d PROVE \E j \in DOMAIN s : d[i] = s[j]
  <2>1. i \in 1 .. Len(s) - n BY <1>1, LenProperties
  <2>2. i + n \in DOMAIN s /\ d[i] = s[i + n] BY <1>1, <2>1, LenProperties
  <2> QED BY <2>2
<1> QED BY <1>1, <1>2

\* Taking the head leaves the others, one place earlier.
LEMMA Popped ==
  ASSUME NEW T, NEW s \in Seq(T), s # <<>>
  PROVE  /\ Tail(s) \in Seq(T) /\ Head(s) \in T /\ Head(s) = s[1] /\ 1 \in DOMAIN s
         /\ Len(Tail(s)) = Len(s) - 1
         /\ \A i \in DOMAIN Tail(s) : i + 1 \in DOMAIN s /\ Tail(s)[i] = s[i + 1]
  BY HeadTailProperties, LenProperties, EmptySeq

\* What is left of a ring of several frames.
LEMMA Shorter ==
  ASSUME NEW T, NEW s \in Seq(T), NEW d \in Seq(T), 1 \in DOMAIN s,
         Len(s) # 1, Len(d) = Len(s) - 1
  PROVE  /\ 1 < Len(s) /\ d # <<>>
         /\ \A i \in DOMAIN d : i < Len(d) => i + 1 < Len(s)
<1>1. DOMAIN s = 1 .. Len(s) /\ Len(s) \in Nat /\ DOMAIN d = 1 .. Len(d) BY LenProperties
<1>2. 1 < Len(s) /\ Len(d) > 0 BY <1>1
<1>3. d # <<>> BY <1>2, EmptySeq
<1> QED BY <1>1, <1>2, <1>3

\* Appending adds one.
LEMMA Pushed ==
  ASSUME NEW T, NEW s \in Seq(T), NEW e \in T
  PROVE  /\ Append(s, e) \in Seq(T) /\ Append(s, e) # <<>>
         /\ Len(Append(s, e)) = Len(s) + 1
         /\ \A i \in DOMAIN Append(s, e) :
              \/ i = Len(s) + 1 /\ Append(s, e)[i] = e
              \/ i \in DOMAIN s /\ Append(s, e)[i] = s[i]
  BY AppendProperties, LenProperties

-----------------------------------------------------------------------------
\* The invariant holds at power-up.
LEMMA InitIInv == Init => IInv
<1> SUFFICES ASSUME Init PROVE IInv
  OBVIOUS
<1> USE DEF Init, NoRings
<1>1. TypeOK BY PriosAssumption, SizesAssumption, WrapAssumption, EmptySeq DEF TypeOK, States
<1>2. OpenFilesKeepSession /\ OperationHasTimeout BY DEF OpenFilesKeepSession, OperationHasTimeout, Operation
<1>3. HandlerInv BY DEF HandlerInv, Monitored
<1>4. Cpu3Inv BY DEF Cpu3Inv
<1>5. LiveInv /\ StopReadyIsTrue /\ SequenceInv /\ RequestInv
  BY DEF LiveInv, Live, StopReadyIsTrue, SequenceInv, RequestInv
<1> QED BY <1>1, <1>2, <1>3, <1>4, <1>5 DEF IInv

-----------------------------------------------------------------------------
(* What the actions do to the rings.                                         *)

\* The reverse rings only lose frames.
Shrunk ==
    /\ c2l' \in [Prios -> Seq(Reply)]
    /\ \A p \in Prios : \A i \in DOMAIN c2l'[p] : \E j \in DOMAIN c2l[p] : c2l'[p][i] = c2l[p][j]
    /\ \A p \in Prios : c2l[p] = <<>> => c2l'[p] = <<>>

\* control_work() drains p0.
LEMMA ConsumedShrinks ==
  ASSUME RingsType, NEW n \in 0 .. Len(c2l[0]), Consumed(n)
  PROVE  Shrunk
<1> DEFINE d == SubSeq(c2l[0], n + 1, Len(c2l[0]))
<1>1. c2l[0] \in Seq(Reply) /\ c2l' = [c2l EXCEPT ![0] = d]
  BY PriosAssumption DEF RingsType, Consumed
<1>2. /\ d \in Seq(Reply)
      /\ \A i \in DOMAIN d : \E j \in DOMAIN c2l[0] : d[i] = c2l[0][j]
  BY <1>1, Dropped
<1>3. ASSUME c2l[0] = <<>> PROVE d = <<>>
  <2>1. DOMAIN d = {} BY <1>2, <1>3
  <2> QED BY <1>2, <2>1, LenProperties, EmptySeq
<1> HIDE DEF d
<1>4. c2l' \in [Prios -> Seq(Reply)] BY <1>1, <1>2 DEF RingsType
<1>5. ASSUME NEW p \in Prios
      PROVE  /\ \A i \in DOMAIN c2l'[p] : \E j \in DOMAIN c2l[p] : c2l'[p][i] = c2l[p][j]
             /\ c2l[p] = <<>> => c2l'[p] = <<>>
  <2>1. CASE p = 0
    <3>1. c2l'[p] = d BY <1>1, <2>1 DEF RingsType
    <3> QED BY <3>1, <1>2, <1>3, <2>1
  <2>2. CASE p # 0
    <3>1. c2l'[p] = c2l[p] BY <1>1, <2>2 DEF RingsType
    <3> QED BY <3>1
  <2> QED BY <2>1, <2>2
<1> QED BY <1>4, <1>5 DEF Shrunk

\* A reader takes the oldest frame of its priority.
LEMMA ReadShrinks ==
  ASSUME RingsType, NEW q \in Prios, user_read(q)
  PROVE  Shrunk
<1> DEFINE d == Tail(c2l[q])
<1>1. c2l[q] \in Seq(Reply) /\ c2l[q] # <<>> /\ c2l' = [c2l EXCEPT ![q] = d]
  BY DEF RingsType, user_read
<1>2. /\ d \in Seq(Reply)
      /\ \A i \in DOMAIN d : \E j \in DOMAIN c2l[q] : d[i] = c2l[q][j]
  BY <1>1, Popped
<1> HIDE DEF d
<1>4. c2l' \in [Prios -> Seq(Reply)] BY <1>1, <1>2 DEF RingsType
<1>5. ASSUME NEW p \in Prios
      PROVE  /\ \A i \in DOMAIN c2l'[p] : \E j \in DOMAIN c2l[p] : c2l'[p][i] = c2l[p][j]
             /\ c2l[p] = <<>> => c2l'[p] = <<>>
  <2>1. CASE p = q
    <3>1. c2l'[p] = d BY <1>1, <2>1 DEF RingsType
    <3> QED BY <3>1, <1>1, <1>2, <2>1
  <2>2. CASE p # q
    <3>1. c2l'[p] = c2l[p] BY <1>1, <2>2 DEF RingsType
    <3> QED BY <3>1
  <2> QED BY <2>1, <2>2
<1> QED BY <1>4, <1>5 DEF Shrunk

\* Ring r after frame e was appended to the ring of priority q.
Grown(r, new, q, e, T) ==
    /\ new \in [Prios -> Seq(T)]
    /\ \A p \in Prios : p # q => new[p] = r[p]
    /\ new[q] # <<>> /\ Len(new[q]) = Len(r[q]) + 1
    /\ \A i \in DOMAIN new[q] :
         \/ i = Len(r[q]) + 1 /\ new[q][i] = e
         \/ i \in DOMAIN r[q] /\ new[q][i] = r[q][i]

\* An append is such a change.
LEMMA AppendGrows ==
  ASSUME NEW T, NEW r \in [Prios -> Seq(T)], NEW q \in Prios, NEW e \in T
  PROVE  Grown(r, [r EXCEPT ![q] = Append(@, e)], q, e, T)
<1>1. r[q] \in Seq(T) OBVIOUS
<1>2. /\ Append(r[q], e) \in Seq(T) /\ Append(r[q], e) # <<>>
      /\ Len(Append(r[q], e)) = Len(r[q]) + 1
      /\ \A i \in DOMAIN Append(r[q], e) :
           \/ i = Len(r[q]) + 1 /\ Append(r[q], e)[i] = e
           \/ i \in DOMAIN r[q] /\ Append(r[q], e)[i] = r[q][i]
  BY <1>1, Pushed
<1> DEFINE d == Append(r[q], e)
<1> HIDE DEF d
<1>3. [r EXCEPT ![q] = Append(@, e)] = [r EXCEPT ![q] = d] BY DEF d
<1>4. /\ [r EXCEPT ![q] = d] \in [Prios -> Seq(T)] /\ [r EXCEPT ![q] = d][q] = d
      /\ \A p \in Prios : p # q => [r EXCEPT ![q] = d][p] = r[p]
  BY <1>2 DEF d
<1> QED BY <1>2, <1>3, <1>4 DEF Grown, d

\* A frame of the driver is the newest of its ring, or the ring was full.
LEMMA WriteGrows ==
  ASSUME TypeOK, NEW p \in Prios, NEW k \in {"PING", "STOP"}, NEW rung \in BOOLEAN,
         user_write(p, k, rung)
  PROVE  \/ l2c' = l2c
         \/ Grown(l2c, l2c', p, [kind |-> k, seq |-> IF k = "STOP" THEN nextSeq' ELSE 0], Request)
<1> DEFINE e == [kind |-> k, seq |-> IF k = "STOP" THEN nextSeq' ELSE 0]
<1>1. e \in Request
  BY SizesAssumption DEF user_write, Request, TypeOK, SessionType
<1>2. l2c' = l2c \/ l2c' = [l2c EXCEPT ![p] = Append(@, e)] BY DEF user_write
<1> HIDE DEF e
<1>3. l2c \in [Prios -> Seq(Request)] BY DEF TypeOK, RingsType
<1>4. Grown(l2c, [l2c EXCEPT ![p] = Append(@, e)], p, e, Request) BY <1>1, <1>3, AppendGrows
<1>5. l2c' = l2c \/ Grown(l2c, l2c', p, e, Request) BY <1>2, <1>4
<1> QED BY <1>5 DEF e

\* The same for the stop request.
LEMMA StopGrows ==
  ASSUME TypeOK, StopBegin
  PROVE  \/ l2c' = l2c
         \/ Grown(l2c, l2c', 0, [kind |-> "STOP", seq |-> nextSeq'], Request)
<1> DEFINE e == [kind |-> "STOP", seq |-> nextSeq']
<1>1. e \in Request
  BY SizesAssumption DEF StopBegin, StopAllowed, Request, TypeOK, SessionType
<1>2. l2c' = l2c \/ l2c' = [l2c EXCEPT ![0] = Append(@, e)] BY DEF StopBegin, StopAllowed
<1> HIDE DEF e
<1>3. l2c \in [Prios -> Seq(Request)] BY DEF TypeOK, RingsType
<1>4. Grown(l2c, [l2c EXCEPT ![0] = Append(@, e)], 0, e, Request)
  BY <1>1, <1>3, AppendGrows, PriosAssumption
<1>5. l2c' = l2c \/ Grown(l2c, l2c', 0, e, Request) BY <1>2, <1>4
<1> QED BY <1>5 DEF e

\* The fields of a frame in a ring.
LEMMA FrameRanges ==
  ASSUME TypeOK, NEW p \in Prios
  PROVE  /\ \A i \in DOMAIN l2c[p] : l2c[p][i].seq \in Nat /\ l2c[p][i].kind \in {"PING", "STOP"}
         /\ \A i \in DOMAIN c2l[p] : c2l[p][i].peer \in Nat
         /\ nextSeq \in Nat
<1>1. l2c[p] \in Seq(Request) /\ c2l[p] \in Seq(Reply) BY DEF TypeOK, RingsType
<1>2. \A i \in DOMAIN l2c[p] : l2c[p][i] \in Request BY <1>1
<1>3. \A i \in DOMAIN c2l[p] : c2l[p][i] \in Reply BY <1>1
<1> QED BY <1>2, <1>3, SizesAssumption DEF Request, Reply, TypeOK, SessionType

\* CPU3's first frame.
LEMMA ReadyGrows ==
  ASSUME TypeOK, Cpu3Ready
  PROVE  Grown(c2l, c2l', 0, Frame("SESSION_READY", 0), Reply)
<1>1. Frame("SESSION_READY", 0) \in Reply
  BY SizesAssumption DEF Frame, Reply, TypeOK, PeerType
<1> QED BY <1>1, AppendGrows, PriosAssumption DEF Cpu3Ready, TypeOK, RingsType

\* CPU3 takes the oldest frame of its ring.
Taken(q) ==
    /\ l2c' \in [Prios -> Seq(Request)]
    /\ \A p \in Prios : p # q => l2c'[p] = l2c[p]
    /\ Head(l2c[q]) \in Request /\ Head(l2c[q]) = l2c[q][1] /\ 1 \in DOMAIN l2c[q]
    /\ Len(l2c'[q]) = Len(l2c[q]) - 1
    /\ \A i \in DOMAIN l2c'[q] : i + 1 \in DOMAIN l2c[q] /\ l2c'[q][i] = l2c[q][i + 1]

\* The handling of a frame takes it.
LEMMA ServeTakes ==
  ASSUME RingsType, NEW q \in Prios, Cpu3Serve(q)
  PROVE  Taken(q)
<1>1. l2c[q] \in Seq(Request) /\ l2c[q] # <<>> /\ l2c' = [l2c EXCEPT ![q] = Tail(l2c[q])]
  BY DEF RingsType, Cpu3Serve
<1>2. /\ Tail(l2c[q]) \in Seq(Request) /\ Head(l2c[q]) \in Request /\ Head(l2c[q]) = l2c[q][1]
      /\ 1 \in DOMAIN l2c[q] /\ Len(Tail(l2c[q])) = Len(l2c[q]) - 1
      /\ \A i \in DOMAIN Tail(l2c[q]) :
           i + 1 \in DOMAIN l2c[q] /\ Tail(l2c[q])[i] = l2c[q][i + 1]
  BY <1>1, Popped
<1> DEFINE d == Tail(l2c[q])
<1> HIDE DEF d
<1>3. l2c' \in [Prios -> Seq(Request)] /\ l2c'[q] = d /\ \A p \in Prios : p # q => l2c'[p] = l2c[p]
  BY <1>1, <1>2 DEF d, RingsType
<1> QED BY <1>2, <1>3 DEF Taken, d

\* The answers CPU3 can give to a frame.
Answered(q) ==
    LET f == Head(l2c[q]) IN
    \/ /\ f.kind = "PING" /\ q = 0 /\ cpu3' = "leaving" /\ c2l' = c2l /\ b2a' = b2a
    \/ /\ c2l' = c2l /\ b2a' = b2a /\ cpu3' = cpu3
    \/ \E type \in {"PONG", "STOP_READY", "STOP_REFUSED"} :
         /\ type # "PONG" => q = 0 /\ f.kind = "STOP"
         /\ cpu3' = IF type = "STOP_READY" THEN "leaving" ELSE cpu3
         /\ b2a' = b2a \cup {q}
         /\ Grown(c2l, c2l', q, Frame(type, f.seq), Reply)

\* The handling of a frame is one of those.
LEMMA ServeAnswers ==
  ASSUME RingsType, PeerType, NEW q \in Prios, Cpu3Serve(q)
  PROVE  Answered(q)
<1>1. Taken(q) BY ServeTakes
<1> DEFINE f == Head(l2c[q])
<1>2. f.kind \in {"PING", "STOP"} /\ f.seq \in 0 .. MaxSeq BY <1>1 DEF Taken, Request
<1>3. ASSUME NEW type \in {"PONG", "STOP_READY", "STOP_REFUSED"},
             c2l' = [c2l EXCEPT ![q] = Append(@, Frame(type, f.seq))]
      PROVE  Grown(c2l, c2l', q, Frame(type, f.seq), Reply)
  <2>1. Frame(type, f.seq) \in Reply BY <1>2 DEF Frame, Reply, PeerType
  <2> QED BY <1>3, <2>1, AppendGrows DEF RingsType
<1>4. CASE /\ f.kind = "STOP" /\ q = 0
           /\ \E type \in StopReplies :
                /\ IF Len(c2l[q]) = Capacity THEN UNCHANGED <<c2l, b2a>>
                   ELSE /\ c2l' = [c2l EXCEPT ![q] = Append(@, Frame(type, f.seq))]
                        /\ b2a' = b2a \cup {q}
                /\ cpu3' = IF type = "STOP_READY" /\ Len(c2l[q]) # Capacity THEN "leaving" ELSE cpu3
  <2> PICK type \in StopReplies :
                /\ IF Len(c2l[q]) = Capacity THEN UNCHANGED <<c2l, b2a>>
                   ELSE /\ c2l' = [c2l EXCEPT ![q] = Append(@, Frame(type, f.seq))]
                        /\ b2a' = b2a \cup {q}
                /\ cpu3' = IF type = "STOP_READY" /\ Len(c2l[q]) # Capacity THEN "leaving" ELSE cpu3
    BY <1>4
  <2>1. type \in {"STOP_READY", "STOP_REFUSED"} BY StopRepliesAssumption
  <2>2. CASE Len(c2l[q]) = Capacity BY <2>2 DEF Answered
  <2>3. CASE Len(c2l[q]) # Capacity
    <3>1. Grown(c2l, c2l', q, Frame(type, f.seq), Reply) BY <2>1, <2>3, <1>3
    <3> QED BY <3>1, <2>1, <2>3, <1>4 DEF Answered
  <2> QED BY <2>2, <2>3
<1>5. CASE f.kind = "PING" /\ q = 0 /\ cpu3' = "leaving" /\ UNCHANGED <<c2l, b2a>>
  BY <1>5 DEF Answered
<1>6. CASE /\ UNCHANGED cpu3
           /\ IF Len(c2l[q]) = Capacity THEN UNCHANGED <<c2l, b2a>>
              ELSE /\ c2l' = [c2l EXCEPT ![q] = Append(@, Frame("PONG", f.seq))]
                   /\ b2a' = b2a \cup {q}
  <2>2. CASE Len(c2l[q]) = Capacity BY <1>6, <2>2 DEF Answered
  <2>3. CASE Len(c2l[q]) # Capacity
    <3>1. Grown(c2l, c2l', q, Frame("PONG", f.seq), Reply) BY <1>6, <2>3, <1>3
    <3> QED BY <3>1, <2>3, <1>6 DEF Answered
  <2> QED BY <2>2, <2>3
<1> QED BY <1>4, <1>5, <1>6 DEF Cpu3Serve

-----------------------------------------------------------------------------
(* Every step keeps the types.                                               *)

\* start_store() never runs out of generations: the counter wraps past 0.
LEMMA GenerationRange == SessionType => NextGeneration \in 0 .. GenWrap - 1
  BY WrapAssumption DEF SessionType, NextGeneration

\* The driver's state.
LEMMA StepSessionType ==
  ASSUME IInv, [Next]_vars
  PROVE  SessionType'
<1> USE SizesAssumption, WrapAssumption
    DEF session, works, rings, peer, IInv, TypeOK, SessionType, States, Monitored, Operation
<1>1. CASE \/ UNCHANGED vars \/ StartEnd \/ DeadlinePasses \/ ControlIdle
           \/ ControlNothing \/ TimerFires \/ PsciPowersOn \/ Cpu3Bind \/ Cpu3Ready
           \/ Cpu3Off
           \/ \E p \in Prios : rx_callback(p) \/ doorbell_store(p) \/ user_read(p) \/ Cpu3Isr(p) \/ Cpu3Serve(p)
  <2>1. UNCHANGED <<state, image, attempted, cpuOnRet, seenOn, generation, peerGen, nextSeq, stopSeq, stopReply, openCount>>
    BY <1>1 DEF vars, session, works, rings, peer, StartEnd, DeadlinePasses, ControlIdle,
      ControlNothing, TimerFires, PsciPowersOn, Cpu3Bind, Cpu3Ready, Cpu3Off, rx_callback,
      doorbell_store, user_read, Cpu3Isr, Cpu3Serve
  <2> QED BY <2>1
<1>2. CASE affinity_state_show
  BY <1>2 DEF affinity_state_show, refresh_affinity, BecomesOffline, AffinityInfo
<1>3. CASE affinity_work
  BY <1>3 DEF affinity_work, refresh_affinity, BecomesOffline, AffinityInfo
<1>4. CASE image_write BY <1>4 DEF image_write
<1>5. CASE StartBusy
  BY <1>5 DEF StartBusy, refresh_affinity, BecomesOffline, AffinityInfo
<1>6. CASE StartBegin
  <2>1. NextGeneration \in 0 .. GenWrap - 1 BY GenerationRange
  <2>2. 0 \in 0 .. GenWrap - 1 /\ 0 \in 0 .. MaxSeq OBVIOUS
  <2> QED BY <1>6, <2>1, <2>2 DEF StartBegin
<1>7. CASE RearmBusy
  BY <1>7 DEF RearmBusy, refresh_affinity, BecomesOffline, AffinityInfo
<1>8. CASE rearm_store
  <2>1. 0 \in 0 .. GenWrap - 1 /\ 0 \in 0 .. MaxSeq /\ 0 \in 0 .. ImageSize OBVIOUS
  <2> QED BY <1>8, <2>1 DEF rearm_store
<1>9. CASE ControlExpired BY <1>9 DEF ControlExpired, set_timeout
<1>10. ASSUME NEW n \in 1 .. Capacity, ControlLate(n) PROVE SessionType'
  BY <1>10 DEF ControlLate, set_timeout
<1>11. ASSUME NEW n \in 1 .. Capacity, ControlAccept(n) PROVE SessionType'
  BY <1>11 DEF ControlAccept
<1>12. CASE lifecycle_timeout_work
  BY <1>12 DEF lifecycle_timeout_work, set_timeout, refresh_affinity, BecomesOffline,
     AffinityInfo
<1>13. CASE user_open BY <1>13 DEF user_open, data_gate
<1>14. CASE user_release BY <1>14 DEF user_release
<1>15. ASSUME NEW p \in Prios, NEW k \in {"PING", "STOP"}, NEW rung \in BOOLEAN, user_write(p, k, rung)
       PROVE SessionType'
  BY <1>15 DEF user_write, data_gate
<1>16. CASE StopBegin BY <1>16 DEF StopBegin, StopAllowed, stop_preflight
<1>17. CASE StopEnd BY <1>17 DEF StopEnd
<1> QED
  BY <1>1, <1>2, <1>3, <1>4, <1>5, <1>6, <1>7, <1>8, <1>9, <1>10, <1>11, <1>12, <1>13,
     <1>14, <1>15, <1>16, <1>17 DEF Next, Requests, control_work, Cpu3

\* The mutex and the work items.
LEMMA StepWorksType ==
  ASSUME IInv, [Next]_vars
  PROVE  WorksType'
<1> USE DEF session, works, rings, peer, IInv, TypeOK, WorksType
<1>1. CASE \/ UNCHANGED vars \/ image_write \/ user_open \/ user_release
           \/ PsciPowersOn \/ Cpu3Bind \/ Cpu3Ready \/ Cpu3Off
           \/ \E p \in Prios : doorbell_store(p) \/ user_read(p) \/ Cpu3Isr(p) \/ Cpu3Serve(p)
           \/ \E p \in Prios, k \in {"PING", "STOP"}, rung \in BOOLEAN : user_write(p, k, rung)
  <2>1. UNCHANGED <<lock, expired, timer, timeoutRuns, control, monitor>>
    BY <1>1 DEF vars, session, works, rings, peer, image_write, user_open, user_release,
      PsciPowersOn, Cpu3Bind, Cpu3Ready, Cpu3Off, doorbell_store, user_read, Cpu3Isr,
      Cpu3Serve, user_write
  <2> QED BY <2>1
<1>2. CASE affinity_state_show
  BY <1>2 DEF affinity_state_show, refresh_affinity, BecomesOffline, AffinityInfo
<1>3. CASE affinity_work
  BY <1>3 DEF affinity_work, refresh_affinity, BecomesOffline, AffinityInfo
<1>4. CASE StartBusy
  BY <1>4 DEF StartBusy, refresh_affinity, BecomesOffline, AffinityInfo
<1>5. CASE StartBegin BY <1>5 DEF StartBegin, AffinityInfo
<1>6. CASE StartEnd BY <1>6 DEF StartEnd
<1>7. CASE RearmBusy
  BY <1>7 DEF RearmBusy, refresh_affinity, BecomesOffline, AffinityInfo
<1>8. CASE rearm_store BY <1>8 DEF rearm_store, AffinityInfo
<1>9. ASSUME NEW p \in Prios, rx_callback(p) PROVE WorksType' BY <1>9 DEF rx_callback
<1>10. CASE DeadlinePasses BY <1>10 DEF DeadlinePasses
<1>11. CASE ControlIdle BY <1>11 DEF ControlIdle
<1>12. CASE ControlExpired BY <1>12 DEF ControlExpired, set_timeout
<1>13. ASSUME NEW n \in 1 .. Capacity, ControlLate(n) PROVE WorksType'
  BY <1>13 DEF ControlLate, set_timeout
<1>14. CASE ControlNothing BY <1>14 DEF ControlNothing
<1>15. ASSUME NEW n \in 1 .. Capacity, ControlAccept(n) PROVE WorksType'
  BY <1>15 DEF ControlAccept
<1>16. CASE TimerFires BY <1>16 DEF TimerFires
<1>17. CASE lifecycle_timeout_work
  BY <1>17 DEF lifecycle_timeout_work, set_timeout, refresh_affinity, BecomesOffline,
     AffinityInfo
<1>18. CASE StopBegin BY <1>18 DEF StopBegin, StopAllowed, stop_preflight
<1>19. CASE StopEnd BY <1>19 DEF StopEnd
<1> QED
  BY <1>1, <1>2, <1>3, <1>4, <1>5, <1>6, <1>7, <1>8, <1>9, <1>10, <1>11, <1>12, <1>13,
     <1>14, <1>15, <1>16, <1>17, <1>18, <1>19 DEF Next, Requests, control_work, Cpu3

\* The rings.
LEMMA StepRingsType ==
  ASSUME IInv, [Next]_vars
  PROVE  RingsType'
<1> USE DEF session, works, rings, peer, IInv, TypeOK, RingsType
<1>1. CASE \/ UNCHANGED vars \/ affinity_state_show \/ affinity_work \/ image_write
           \/ StartBusy \/ StartEnd \/ RearmBusy \/ rearm_store \/ DeadlinePasses
           \/ ControlIdle \/ ControlExpired \/ TimerFires \/ lifecycle_timeout_work
           \/ user_open \/ user_release \/ PsciPowersOn \/ Cpu3Bind
  <2>1. UNCHANGED <<l2c, c2l, a2b, b2a>>
    BY <1>1 DEF vars, session, works, rings, peer, affinity_state_show, affinity_work,
      image_write, StartBusy, StartEnd, RearmBusy, rearm_store, DeadlinePasses,
      ControlIdle, ControlExpired, TimerFires, lifecycle_timeout_work, user_open,
      user_release, PsciPowersOn, Cpu3Bind
  <2> QED BY <2>1
<1>2. CASE StartBegin
  <2>1. NoRings \in [Prios -> Seq(Request)] /\ NoRings \in [Prios -> Seq(Reply)]
    BY EmptySeq DEF NoRings
  <2> QED BY <1>2, <2>1 DEF StartBegin
<1>3. ASSUME NEW p \in Prios, rx_callback(p) PROVE RingsType' BY <1>3 DEF rx_callback
<1>4. ASSUME NEW n \in 1 .. Capacity, ControlLate(n) PROVE RingsType'
  <2>1. n \in 0 .. Len(c2l[0]) /\ Consumed(n)
    BY <1>4, PriosAssumption, LenProperties DEF ControlLate
  <2>2. Shrunk BY <2>1, ConsumedShrinks
  <2> QED BY <1>4, <2>2 DEF ControlLate, set_timeout, Shrunk
<1>5. CASE ControlNothing
  <2>1. Len(c2l[0]) \in 0 .. Len(c2l[0]) /\ Consumed(Len(c2l[0]))
    BY <1>5, PriosAssumption, LenProperties DEF ControlNothing
  <2>2. Shrunk BY <2>1, ConsumedShrinks
  <2> QED BY <1>5, <2>2 DEF ControlNothing, Shrunk
<1>6. ASSUME NEW n \in 1 .. Capacity, ControlAccept(n) PROVE RingsType'
  <2>1. n \in 0 .. Len(c2l[0]) /\ Consumed(n)
    BY <1>6, PriosAssumption, LenProperties DEF ControlAccept, AwaitedAt
  <2>2. Shrunk BY <2>1, ConsumedShrinks
  <2> QED BY <1>6, <2>2 DEF ControlAccept, Shrunk
<1>7. ASSUME NEW p \in Prios, NEW k \in {"PING", "STOP"}, NEW rung \in BOOLEAN, user_write(p, k, rung)
       PROVE RingsType'
  <2>2. \/ l2c' = l2c
        \/ Grown(l2c, l2c', p, [kind |-> k, seq |-> IF k = "STOP" THEN nextSeq' ELSE 0], Request)
    BY <1>7, WriteGrows DEF TypeOK
  <2> QED BY <1>7, <2>2 DEF user_write, data_gate, Grown
<1>8. ASSUME NEW p \in Prios, doorbell_store(p) PROVE RingsType'
  BY <1>8 DEF doorbell_store
<1>9. ASSUME NEW p \in Prios, user_read(p) PROVE RingsType'
  <2>2. Shrunk BY <1>9, ReadShrinks
  <2> QED BY <1>9, <2>2 DEF user_read, data_gate, Shrunk
<1>10. CASE StopBegin
  <2>2. l2c' = l2c \/ Grown(l2c, l2c', 0, [kind |-> "STOP", seq |-> nextSeq'], Request)
    BY <1>10, StopGrows DEF TypeOK
  <2> QED BY <1>10, <2>2 DEF StopBegin, StopAllowed, Grown
<1>11. CASE StopEnd BY <1>11, PriosAssumption DEF StopEnd
<1>12. CASE Cpu3Ready
  <2>2. Grown(c2l, c2l', 0, Frame("SESSION_READY", 0), Reply) BY <1>12, ReadyGrows DEF TypeOK
  <2> QED BY <1>12, <2>2 DEF Cpu3Ready, Grown
<1>13. ASSUME NEW p \in Prios, Cpu3Isr(p) PROVE RingsType' BY <1>13 DEF Cpu3Isr
<1>14. ASSUME NEW p \in Prios, Cpu3Serve(p) PROVE RingsType'
  <2>1. Taken(p) /\ Answered(p) BY <1>14, ServeTakes, ServeAnswers
  <2> QED BY <1>14, <2>1 DEF Cpu3Serve, Taken, Answered, Grown
<1>15. CASE Cpu3Off BY <1>15 DEF Cpu3Off
<1> QED
  BY <1>1, <1>2, <1>3, <1>4, <1>5, <1>6, <1>7, <1>8, <1>9, <1>10, <1>11, <1>12, <1>13,
     <1>14, <1>15 DEF Next, Requests, control_work, Cpu3

\* CPU3.
LEMMA StepPeerType ==
  ASSUME IInv, [Next]_vars
  PROVE  PeerType'
<1> USE WrapAssumption DEF session, works, rings, peer, IInv, TypeOK, PeerType
<1>1. CASE \/ UNCHANGED vars \/ affinity_state_show \/ affinity_work \/ image_write
           \/ StartBusy \/ StartEnd \/ RearmBusy \/ rearm_store \/ DeadlinePasses
           \/ ControlIdle \/ ControlExpired \/ ControlNothing \/ TimerFires
           \/ lifecycle_timeout_work \/ user_open \/ user_release \/ StopBegin
           \/ StopEnd
           \/ \E p \in Prios : rx_callback(p) \/ doorbell_store(p) \/ user_read(p) \/ Cpu3Isr(p)
           \/ \E n \in 1 .. Capacity : ControlLate(n) \/ ControlAccept(n)
           \/ \E p \in Prios, k \in {"PING", "STOP"}, rung \in BOOLEAN : user_write(p, k, rung)
  <2>1. UNCHANGED <<power, cpu3, cpu3Gen>>
    BY <1>1 DEF vars, session, works, rings, peer, affinity_state_show, affinity_work,
      image_write, StartBusy, StartEnd, RearmBusy, rearm_store, DeadlinePasses,
      ControlIdle, ControlExpired, ControlNothing, TimerFires, lifecycle_timeout_work,
      user_open, user_release, StopBegin, StopAllowed, StopEnd, rx_callback, doorbell_store, user_read,
      Cpu3Isr, ControlLate, ControlAccept, user_write
  <2> QED BY <2>1
<1>2. CASE StartBegin BY <1>2 DEF StartBegin, AffinityInfo
<1>3. CASE PsciPowersOn BY <1>3 DEF PsciPowersOn
<1>4. CASE Cpu3Bind BY <1>4 DEF Cpu3Bind, SessionType
<1>5. CASE Cpu3Ready BY <1>5 DEF Cpu3Ready
<1>6. ASSUME NEW p \in Prios, Cpu3Serve(p) PROVE PeerType'
  <2>1. Answered(p) BY <1>6, ServeAnswers
  <2> QED BY <1>6, <2>1 DEF Cpu3Serve, Answered
<1>7. CASE Cpu3Off BY <1>7 DEF Cpu3Off
<1> QED
  BY <1>1, <1>2, <1>3, <1>4, <1>5, <1>6, <1>7 DEF Next, Requests, control_work, Cpu3

-----------------------------------------------------------------------------
(* Every step keeps the rest of the invariant.                               *)

\* A session with open files.
LEMMA StepOpenFiles ==
  ASSUME IInv, [Next]_vars
  PROVE  OpenFilesKeepSession'
<1> USE DEF session, works, rings, peer, IInv, TypeOK, SessionType, WorksType, States, Monitored, Operation, OpenFilesKeepSession, HandlerInv
<1>1. CASE \/ UNCHANGED vars \/ image_write \/ StartEnd \/ DeadlinePasses
           \/ ControlIdle \/ ControlNothing \/ TimerFires \/ StopEnd \/ PsciPowersOn
           \/ Cpu3Bind \/ Cpu3Ready \/ Cpu3Off
           \/ \E p \in Prios : rx_callback(p) \/ doorbell_store(p) \/ user_read(p) \/ Cpu3Isr(p) \/ Cpu3Serve(p)
           \/ \E p \in Prios, k \in {"PING", "STOP"}, rung \in BOOLEAN : user_write(p, k, rung)
  <2>1. UNCHANGED <<openCount, state>>
    BY <1>1 DEF vars, session, works, rings, peer, image_write, StartEnd, DeadlinePasses,
      ControlIdle, ControlNothing, TimerFires, StopEnd, PsciPowersOn, Cpu3Bind, Cpu3Ready,
      Cpu3Off, rx_callback, doorbell_store, user_read, Cpu3Isr, Cpu3Serve, user_write
  <2> QED BY <2>1
<1>2. CASE affinity_state_show
  BY <1>2 DEF affinity_state_show, refresh_affinity, BecomesOffline, AffinityInfo
<1>3. CASE affinity_work
  BY <1>3 DEF affinity_work, refresh_affinity, BecomesOffline, AffinityInfo
<1>4. CASE StartBusy
  BY <1>4 DEF StartBusy, refresh_affinity, BecomesOffline, AffinityInfo
<1>5. CASE StartBegin BY <1>5 DEF StartBegin, AffinityInfo
<1>6. CASE RearmBusy
  BY <1>6 DEF RearmBusy, refresh_affinity, BecomesOffline, AffinityInfo
<1>7. CASE rearm_store BY <1>7 DEF rearm_store, AffinityInfo
<1>8. CASE ControlExpired BY <1>8 DEF ControlExpired, set_timeout
<1>9. ASSUME NEW n \in 1 .. Capacity, ControlLate(n) PROVE OpenFilesKeepSession'
  BY <1>9 DEF ControlLate, set_timeout
<1>10. ASSUME NEW n \in 1 .. Capacity, ControlAccept(n) PROVE OpenFilesKeepSession'
  BY <1>10 DEF ControlAccept
<1>11. CASE lifecycle_timeout_work
  BY <1>11 DEF lifecycle_timeout_work, set_timeout, refresh_affinity, BecomesOffline,
     AffinityInfo
<1>12. CASE user_open BY <1>12 DEF user_open, data_gate
<1>13. CASE user_release BY <1>13 DEF user_release
<1>14. CASE StopBegin BY <1>14 DEF StopBegin, StopAllowed, stop_preflight
<1> QED
  BY <1>1, <1>2, <1>3, <1>4, <1>5, <1>6, <1>7, <1>8, <1>9, <1>10, <1>11, <1>12, <1>13,
     <1>14 DEF Next, Requests, control_work, Cpu3

\* An operation and its timeout.
LEMMA StepHasTimeout ==
  ASSUME IInv, [Next]_vars
  PROVE  OperationHasTimeout'
<1> USE DEF session, works, rings, peer, IInv, TypeOK, SessionType, WorksType, States, Monitored, Operation, OperationHasTimeout, HandlerInv
<1>1. CASE \/ UNCHANGED vars \/ image_write \/ DeadlinePasses \/ ControlIdle
           \/ ControlNothing \/ user_open \/ user_release \/ PsciPowersOn \/ Cpu3Bind
           \/ Cpu3Ready \/ Cpu3Off
           \/ \E p \in Prios : rx_callback(p) \/ doorbell_store(p) \/ user_read(p) \/ Cpu3Isr(p) \/ Cpu3Serve(p)
           \/ \E p \in Prios, k \in {"PING", "STOP"}, rung \in BOOLEAN : user_write(p, k, rung)
  <2>1. UNCHANGED <<lock, state, timer, timeoutRuns>>
    BY <1>1 DEF vars, session, works, rings, peer, image_write, DeadlinePasses,
      ControlIdle, ControlNothing, user_open, user_release, PsciPowersOn, Cpu3Bind,
      Cpu3Ready, Cpu3Off, rx_callback, doorbell_store, user_read, Cpu3Isr, Cpu3Serve,
      user_write
  <2> QED BY <2>1
<1>2. CASE affinity_state_show
  BY <1>2 DEF affinity_state_show, refresh_affinity, BecomesOffline, AffinityInfo
<1>3. CASE affinity_work
  BY <1>3 DEF affinity_work, refresh_affinity, BecomesOffline, AffinityInfo
<1>4. CASE StartBusy
  BY <1>4 DEF StartBusy, refresh_affinity, BecomesOffline, AffinityInfo
<1>5. CASE StartBegin BY <1>5 DEF StartBegin, AffinityInfo
<1>6. CASE StartEnd BY <1>6 DEF StartEnd
<1>7. CASE RearmBusy
  BY <1>7 DEF RearmBusy, refresh_affinity, BecomesOffline, AffinityInfo
<1>8. CASE rearm_store BY <1>8 DEF rearm_store, AffinityInfo
<1>9. CASE ControlExpired BY <1>9 DEF ControlExpired, set_timeout
<1>10. ASSUME NEW n \in 1 .. Capacity, ControlLate(n) PROVE OperationHasTimeout'
  BY <1>10 DEF ControlLate, set_timeout
<1>11. ASSUME NEW n \in 1 .. Capacity, ControlAccept(n) PROVE OperationHasTimeout'
  BY <1>11 DEF ControlAccept
<1>12. CASE TimerFires BY <1>12 DEF TimerFires
<1>13. CASE lifecycle_timeout_work
  BY <1>13 DEF lifecycle_timeout_work, set_timeout, refresh_affinity, BecomesOffline,
     AffinityInfo
<1>14. CASE StopBegin BY <1>14 DEF StopBegin, StopAllowed, stop_preflight
<1>15. CASE StopEnd BY <1>15 DEF StopEnd
<1> QED
  BY <1>1, <1>2, <1>3, <1>4, <1>5, <1>6, <1>7, <1>8, <1>9, <1>10, <1>11, <1>12, <1>13,
     <1>14, <1>15 DEF Next, Requests, control_work, Cpu3

\* The mutex, the monitor and a driver at rest.
LEMMA StepHandler ==
  ASSUME IInv, [Next]_vars
  PROVE  HandlerInv'
<1> USE DEF session, works, rings, peer, IInv, TypeOK, SessionType, WorksType, States, Monitored, Operation, HandlerInv
<1>1. CASE \/ UNCHANGED vars \/ image_write \/ DeadlinePasses \/ ControlIdle
           \/ ControlNothing \/ TimerFires \/ user_open \/ user_release
           \/ PsciPowersOn \/ Cpu3Bind \/ Cpu3Ready \/ Cpu3Off
           \/ \E p \in Prios : rx_callback(p) \/ doorbell_store(p) \/ user_read(p) \/ Cpu3Isr(p) \/ Cpu3Serve(p)
           \/ \E p \in Prios, k \in {"PING", "STOP"}, rung \in BOOLEAN : user_write(p, k, rung)
  <2>1. UNCHANGED <<lock, state, monitor, attempted>>
    BY <1>1 DEF vars, session, works, rings, peer, image_write, DeadlinePasses,
      ControlIdle, ControlNothing, TimerFires, user_open, user_release, PsciPowersOn,
      Cpu3Bind, Cpu3Ready, Cpu3Off, rx_callback, doorbell_store, user_read, Cpu3Isr,
      Cpu3Serve, user_write
  <2> QED BY <2>1
<1>2. CASE affinity_state_show
  BY <1>2 DEF affinity_state_show, refresh_affinity, BecomesOffline, AffinityInfo
<1>3. CASE affinity_work
  BY <1>3 DEF affinity_work, refresh_affinity, BecomesOffline, AffinityInfo
<1>4. CASE StartBusy
  BY <1>4 DEF StartBusy, refresh_affinity, BecomesOffline, AffinityInfo
<1>5. CASE StartBegin BY <1>5 DEF StartBegin, AffinityInfo
<1>6. CASE StartEnd BY <1>6 DEF StartEnd
<1>7. CASE RearmBusy
  BY <1>7 DEF RearmBusy, refresh_affinity, BecomesOffline, AffinityInfo
<1>8. CASE rearm_store BY <1>8 DEF rearm_store, AffinityInfo
<1>9. CASE ControlExpired BY <1>9 DEF ControlExpired, set_timeout
<1>10. ASSUME NEW n \in 1 .. Capacity, ControlLate(n) PROVE HandlerInv'
  BY <1>10 DEF ControlLate, set_timeout
<1>11. ASSUME NEW n \in 1 .. Capacity, ControlAccept(n) PROVE HandlerInv'
  BY <1>11 DEF ControlAccept
<1>12. CASE lifecycle_timeout_work
  BY <1>12 DEF lifecycle_timeout_work, set_timeout, refresh_affinity, BecomesOffline,
     AffinityInfo
<1>13. CASE StopBegin BY <1>13 DEF StopBegin, StopAllowed, stop_preflight
<1>14. CASE StopEnd BY <1>14 DEF StopEnd
<1> QED
  BY <1>1, <1>2, <1>3, <1>4, <1>5, <1>6, <1>7, <1>8, <1>9, <1>10, <1>11, <1>12, <1>13,
     <1>14 DEF Next, Requests, control_work, Cpu3

\* CPU3 and what it has sent.
LEMMA StepCpu3 ==
  ASSUME IInv, [Next]_vars
  PROVE  Cpu3Inv'
<1> USE PriosAssumption
    DEF session, works, rings, peer, IInv, TypeOK, RingsType, PeerType, Cpu3Inv, Serving
<1>1. CASE \/ UNCHANGED vars \/ affinity_state_show \/ affinity_work \/ image_write
           \/ StartBusy \/ StartEnd \/ RearmBusy \/ rearm_store \/ DeadlinePasses
           \/ ControlIdle \/ ControlExpired \/ TimerFires \/ lifecycle_timeout_work
           \/ user_open \/ user_release \/ StopBegin \/ StopEnd
           \/ \E p \in Prios : rx_callback(p) \/ doorbell_store(p) \/ Cpu3Isr(p)
           \/ \E p \in Prios, k \in {"PING", "STOP"}, rung \in BOOLEAN : user_write(p, k, rung)
  <2>1. UNCHANGED <<power, cpu3, cpu3Gen, generation, c2l>>
    BY <1>1 DEF vars, session, works, rings, peer, affinity_state_show, affinity_work,
      image_write, StartBusy, StartEnd, RearmBusy, rearm_store, DeadlinePasses,
      ControlIdle, ControlExpired, TimerFires, lifecycle_timeout_work, user_open,
      user_release, StopBegin, StopAllowed, StopEnd, rx_callback, doorbell_store, Cpu3Isr, user_write
  <2> QED BY <2>1
<1>2. CASE StartBegin BY <1>2 DEF StartBegin, NoRings, AffinityInfo
<1>3. ASSUME NEW n \in 1 .. Capacity, ControlLate(n) PROVE Cpu3Inv'
  <2>1. n \in 0 .. Len(c2l[0]) /\ Consumed(n)
    BY <1>3, PriosAssumption, LenProperties DEF ControlLate
  <2>2. Shrunk BY <2>1, ConsumedShrinks
  <2> QED BY <1>3, <2>2 DEF ControlLate, set_timeout, Shrunk
<1>4. CASE ControlNothing
  <2>1. Len(c2l[0]) \in 0 .. Len(c2l[0]) /\ Consumed(Len(c2l[0]))
    BY <1>4, PriosAssumption, LenProperties DEF ControlNothing
  <2>2. Shrunk BY <2>1, ConsumedShrinks
  <2> QED BY <1>4, <2>2 DEF ControlNothing, Shrunk
<1>5. ASSUME NEW n \in 1 .. Capacity, ControlAccept(n) PROVE Cpu3Inv'
  <2>1. n \in 0 .. Len(c2l[0]) /\ Consumed(n)
    BY <1>5, PriosAssumption, LenProperties DEF ControlAccept, AwaitedAt
  <2>2. Shrunk BY <2>1, ConsumedShrinks
  <2> QED BY <1>5, <2>2 DEF ControlAccept, Shrunk
<1>6. ASSUME NEW p \in Prios, user_read(p) PROVE Cpu3Inv'
  <2>2. Shrunk BY <1>6, ReadShrinks
  <2> QED BY <1>6, <2>2 DEF user_read, data_gate, Shrunk
<1>7. CASE PsciPowersOn BY <1>7 DEF PsciPowersOn
<1>8. CASE Cpu3Bind BY <1>8 DEF Cpu3Bind
<1>9. CASE Cpu3Ready
  <2>2. Grown(c2l, c2l', 0, Frame("SESSION_READY", 0), Reply) BY <1>9, ReadyGrows DEF TypeOK
  <2> QED BY <1>9, <2>2 DEF Cpu3Ready, Grown, Frame
<1>10. ASSUME NEW p \in Prios, Cpu3Serve(p) PROVE Cpu3Inv'
  <2>1. Answered(p) BY <1>10, ServeAnswers
  <2>2. power = "ON" /\ power' = power /\ cpu3 = "ready" /\ cpu3Gen' = cpu3Gen /\ generation' = generation
    BY <1>10 DEF Cpu3Serve
  <2>3. cpu3' \in {"ready", "leaving"} BY <2>1, <2>2 DEF Answered
  <2>4. \A q \in Prios : \A i \in DOMAIN c2l[q] : c2l[q][i].type # "STOP_READY" BY <2>2
  <2>5. ASSUME NEW q \in Prios, NEW i \in DOMAIN c2l'[q], c2l'[q][i].type = "STOP_READY"
        PROVE  cpu3' = "leaving"
    <3>1. ASSUME c2l'[q] = c2l[q] PROVE FALSE BY <3>1, <2>4, <2>5
    <3>2. PICK type \in {"PONG", "STOP_READY", "STOP_REFUSED"} :
             /\ cpu3' = IF type = "STOP_READY" THEN "leaving" ELSE cpu3
             /\ Grown(c2l, c2l', p, Frame(type, Head(l2c[p]).seq), Reply)
      BY <3>1, <2>1 DEF Answered
    <3>3. q = p BY <3>1, <3>2 DEF Grown
    <3>4. c2l'[q][i] = Frame(type, Head(l2c[p]).seq) BY <3>2, <3>3, <2>4, <2>5 DEF Grown
    <3> QED BY <3>2, <3>4, <2>5 DEF Frame
  <2> QED BY <2>2, <2>3, <2>5
<1>11. CASE Cpu3Off BY <1>11 DEF Cpu3Off
<1> QED
  BY <1>1, <1>2, <1>3, <1>4, <1>5, <1>6, <1>7, <1>8, <1>9, <1>10, <1>11 DEF Next,
     Requests, control_work, Cpu3

\* A session that has been accepted.
LEMMA StepLive ==
  ASSUME IInv, [Next]_vars
  PROVE  LiveInv'
<1> USE PriosAssumption
    DEF session, works, rings, peer, IInv, TypeOK, SessionType, RingsType, PeerType, States, Monitored, Operation,
        LiveInv, Live, Cpu3Inv, Serving
<1>1. CASE \/ UNCHANGED vars \/ image_write \/ StartEnd \/ DeadlinePasses
           \/ ControlIdle \/ ControlNothing \/ TimerFires \/ user_open \/ user_release
           \/ StopEnd
           \/ \E p \in Prios : rx_callback(p) \/ doorbell_store(p) \/ user_read(p) \/ Cpu3Isr(p)
           \/ \E p \in Prios, k \in {"PING", "STOP"}, rung \in BOOLEAN : user_write(p, k, rung)
  <2>1. UNCHANGED <<state, peerGen, generation, power, cpu3>>
    BY <1>1 DEF vars, session, works, rings, peer, image_write, StartEnd, DeadlinePasses,
      ControlIdle, ControlNothing, TimerFires, user_open, user_release, StopEnd,
      rx_callback, doorbell_store, user_read, Cpu3Isr, user_write
  <2> QED BY <2>1
<1>2. CASE affinity_state_show
  BY <1>2 DEF affinity_state_show, refresh_affinity, BecomesOffline, AffinityInfo
<1>3. CASE affinity_work
  BY <1>3 DEF affinity_work, refresh_affinity, BecomesOffline, AffinityInfo
<1>4. CASE StartBusy
  BY <1>4 DEF StartBusy, refresh_affinity, BecomesOffline, AffinityInfo
<1>5. CASE StartBegin BY <1>5 DEF StartBegin, AffinityInfo
<1>6. CASE RearmBusy
  BY <1>6 DEF RearmBusy, refresh_affinity, BecomesOffline, AffinityInfo
<1>7. CASE rearm_store BY <1>7 DEF rearm_store, AffinityInfo
<1>8. CASE ControlExpired BY <1>8 DEF ControlExpired, set_timeout
<1>9. ASSUME NEW n \in 1 .. Capacity, ControlLate(n) PROVE LiveInv'
  BY <1>9 DEF ControlLate, set_timeout
<1>10. ASSUME NEW n \in 1 .. Capacity, ControlAccept(n) PROVE LiveInv'
  BY <1>10 DEF ControlAccept, AwaitedAt, Awaited
<1>11. CASE lifecycle_timeout_work
  BY <1>11 DEF lifecycle_timeout_work, set_timeout, refresh_affinity, BecomesOffline,
     AffinityInfo
<1>12. CASE StopBegin BY <1>12 DEF StopBegin, StopAllowed, stop_preflight
<1>13. CASE PsciPowersOn BY <1>13 DEF PsciPowersOn
<1>14. CASE Cpu3Bind BY <1>14 DEF Cpu3Bind
<1>15. CASE Cpu3Ready BY <1>15 DEF Cpu3Ready
<1>16. ASSUME NEW p \in Prios, Cpu3Serve(p) PROVE LiveInv'
  <2>1. Taken(p) /\ Answered(p) BY <1>16, ServeTakes, ServeAnswers
  <2> QED BY <1>16, <2>1 DEF Cpu3Serve, Answered
<1>17. CASE Cpu3Off BY <1>17 DEF Cpu3Off
<1> QED
  BY <1>1, <1>2, <1>3, <1>4, <1>5, <1>6, <1>7, <1>8, <1>9, <1>10, <1>11, <1>12, <1>13,
     <1>14, <1>15, <1>16, <1>17 DEF Next, Requests, control_work, Cpu3

\* A STOP_READY that was believed.
LEMMA StepStopReady ==
  ASSUME IInv, [Next]_vars
  PROVE  StopReadyIsTrue'
<1> USE PriosAssumption
    DEF session, works, rings, peer, IInv, TypeOK, SessionType, RingsType, PeerType, States, Monitored, Operation,
        StopReadyIsTrue, Cpu3Inv
<1>1. CASE \/ UNCHANGED vars \/ image_write \/ StartEnd \/ DeadlinePasses
           \/ ControlIdle \/ ControlNothing \/ TimerFires \/ user_open \/ user_release
           \/ StopEnd
           \/ \E p \in Prios : rx_callback(p) \/ doorbell_store(p) \/ user_read(p) \/ Cpu3Isr(p)
           \/ \E p \in Prios, k \in {"PING", "STOP"}, rung \in BOOLEAN : user_write(p, k, rung)
  <2>1. UNCHANGED <<state, stopReply, cpu3, power>>
    BY <1>1 DEF vars, session, works, rings, peer, image_write, StartEnd, DeadlinePasses,
      ControlIdle, ControlNothing, TimerFires, user_open, user_release, StopEnd,
      rx_callback, doorbell_store, user_read, Cpu3Isr, user_write
  <2> QED BY <2>1
<1>2. CASE affinity_state_show
  BY <1>2 DEF affinity_state_show, refresh_affinity, BecomesOffline, AffinityInfo
<1>3. CASE affinity_work
  BY <1>3 DEF affinity_work, refresh_affinity, BecomesOffline, AffinityInfo
<1>4. CASE StartBusy
  BY <1>4 DEF StartBusy, refresh_affinity, BecomesOffline, AffinityInfo
<1>5. CASE StartBegin BY <1>5 DEF StartBegin, AffinityInfo
<1>6. CASE RearmBusy
  BY <1>6 DEF RearmBusy, refresh_affinity, BecomesOffline, AffinityInfo
<1>7. CASE rearm_store BY <1>7 DEF rearm_store, AffinityInfo
<1>8. CASE ControlExpired BY <1>8 DEF ControlExpired, set_timeout
<1>9. ASSUME NEW n \in 1 .. Capacity, ControlLate(n) PROVE StopReadyIsTrue'
  BY <1>9 DEF ControlLate, set_timeout
<1>10. ASSUME NEW n \in 1 .. Capacity, ControlAccept(n) PROVE StopReadyIsTrue'
  BY <1>10 DEF ControlAccept, AwaitedAt, Awaited
<1>11. CASE lifecycle_timeout_work
  BY <1>11 DEF lifecycle_timeout_work, set_timeout, refresh_affinity, BecomesOffline,
     AffinityInfo
<1>12. CASE StopBegin BY <1>12 DEF StopBegin, StopAllowed, stop_preflight
<1>13. CASE PsciPowersOn BY <1>13 DEF PsciPowersOn
<1>14. CASE Cpu3Bind BY <1>14 DEF Cpu3Bind
<1>15. CASE Cpu3Ready BY <1>15 DEF Cpu3Ready
<1>16. ASSUME NEW p \in Prios, Cpu3Serve(p) PROVE StopReadyIsTrue'
  <2>1. Taken(p) /\ Answered(p) BY <1>16, ServeTakes, ServeAnswers
  <2> QED BY <1>16, <2>1 DEF Cpu3Serve, Answered
<1>17. CASE Cpu3Off BY <1>17 DEF Cpu3Off
<1> QED
  BY <1>1, <1>2, <1>3, <1>4, <1>5, <1>6, <1>7, <1>8, <1>9, <1>10, <1>11, <1>12, <1>13,
     <1>14, <1>15, <1>16, <1>17 DEF Next, Requests, control_work, Cpu3

\* Sequence numbers.
LEMMA StepSequence ==
  ASSUME IInv, [Next]_vars
  PROVE  SequenceInv'
<1> USE PriosAssumption
    DEF session, works, rings, peer, IInv, TypeOK, SessionType, RingsType, States, Monitored, Operation,
        SequenceInv, HandlerInv
<1>1. CASE \/ UNCHANGED vars \/ image_write \/ StartEnd \/ DeadlinePasses
           \/ ControlIdle \/ TimerFires \/ user_open \/ user_release \/ StopEnd
           \/ PsciPowersOn \/ Cpu3Bind \/ Cpu3Off
           \/ \E p \in Prios : rx_callback(p) \/ doorbell_store(p) \/ Cpu3Isr(p)
  <2>1. UNCHANGED <<state, l2c, c2l, nextSeq>>
    BY <1>1 DEF vars, session, works, rings, peer, image_write, StartEnd, DeadlinePasses,
      ControlIdle, TimerFires, user_open, user_release, StopEnd, PsciPowersOn, Cpu3Bind,
      Cpu3Off, rx_callback, doorbell_store, Cpu3Isr
  <2> QED BY <2>1
<1>2. CASE affinity_state_show
  BY <1>2 DEF affinity_state_show, refresh_affinity, BecomesOffline, AffinityInfo
<1>3. CASE affinity_work
  BY <1>3 DEF affinity_work, refresh_affinity, BecomesOffline, AffinityInfo
<1>4. CASE StartBusy
  BY <1>4 DEF StartBusy, refresh_affinity, BecomesOffline, AffinityInfo
<1>5. CASE StartBegin BY <1>5 DEF StartBegin, NoRings, AffinityInfo
<1>6. CASE RearmBusy
  BY <1>6 DEF RearmBusy, refresh_affinity, BecomesOffline, AffinityInfo
<1>7. CASE rearm_store BY <1>7 DEF rearm_store, AffinityInfo
<1>8. CASE ControlExpired BY <1>8 DEF ControlExpired, set_timeout
<1>9. ASSUME NEW n \in 1 .. Capacity, ControlLate(n) PROVE SequenceInv'
  <2>1. n \in 0 .. Len(c2l[0]) /\ Consumed(n)
    BY <1>9, PriosAssumption, LenProperties DEF ControlLate
  <2>2. Shrunk BY <2>1, ConsumedShrinks
  <2> QED BY <1>9, <2>2 DEF ControlLate, set_timeout, Shrunk
<1>10. CASE ControlNothing
  <2>1. Len(c2l[0]) \in 0 .. Len(c2l[0]) /\ Consumed(Len(c2l[0]))
    BY <1>10, PriosAssumption, LenProperties DEF ControlNothing
  <2>2. Shrunk BY <2>1, ConsumedShrinks
  <2> QED BY <1>10, <2>2 DEF ControlNothing, Shrunk
<1>11. ASSUME NEW n \in 1 .. Capacity, ControlAccept(n) PROVE SequenceInv'
  <2>1. n \in 0 .. Len(c2l[0]) /\ Consumed(n)
    BY <1>11, PriosAssumption, LenProperties DEF ControlAccept, AwaitedAt
  <2>2. Shrunk BY <2>1, ConsumedShrinks
  <2> QED BY <1>11, <2>2 DEF ControlAccept, Shrunk
<1>12. CASE lifecycle_timeout_work
  BY <1>12 DEF lifecycle_timeout_work, set_timeout, refresh_affinity, BecomesOffline,
     AffinityInfo
<1>13. ASSUME NEW p \in Prios, NEW k \in {"PING", "STOP"}, NEW rung \in BOOLEAN, user_write(p, k, rung)
       PROVE SequenceInv'
  <2>1. state' = state /\ nextSeq' = nextSeq + 1 /\ c2l' = c2l BY <1>13 DEF user_write
  <2>2. \/ l2c' = l2c
        \/ Grown(l2c, l2c', p, [kind |-> k, seq |-> IF k = "STOP" THEN nextSeq' ELSE 0], Request)
    BY <1>13, WriteGrows DEF IInv
  <2> SUFFICES ASSUME state # "UNARMED", NEW q \in Prios
               PROVE  /\ \A i \in DOMAIN l2c'[q] : l2c'[q][i].seq <= nextSeq'
                      /\ \A i \in DOMAIN c2l'[q] : c2l'[q][i].peer <= nextSeq'
    BY <2>1 DEF SequenceInv
  <2>3. /\ \A i \in DOMAIN l2c[q] : l2c[q][i].seq \in Nat /\ l2c[q][i].seq <= nextSeq
        /\ \A i \in DOMAIN c2l[q] : c2l[q][i].peer \in Nat /\ c2l[q][i].peer <= nextSeq
        /\ nextSeq \in Nat
    BY FrameRanges DEF IInv, SequenceInv
  <2>4. \A i \in DOMAIN c2l'[q] : c2l'[q][i].peer <= nextSeq' BY <2>1, <2>3
  <2>5. ASSUME NEW i \in DOMAIN l2c'[q] PROVE l2c'[q][i].seq <= nextSeq'
    <3>1. CASE l2c'[q] = l2c[q] BY <3>1, <2>1, <2>3
    <3>2. CASE /\ q = p
               /\ Grown(l2c, l2c', p, [kind |-> k, seq |-> IF k = "STOP" THEN nextSeq' ELSE 0], Request)
      <4>1. [kind |-> k, seq |-> IF k = "STOP" THEN nextSeq' ELSE 0].seq <= nextSeq' BY <2>1, <2>3
      <4>2. \/ l2c'[q][i] = [kind |-> k, seq |-> IF k = "STOP" THEN nextSeq' ELSE 0]
            \/ \E j \in DOMAIN l2c[q] : l2c'[q][i] = l2c[q][j]
        BY <3>2 DEF Grown
      <4>3. ASSUME NEW j \in DOMAIN l2c[q], l2c'[q][i] = l2c[q][j]
            PROVE  l2c'[q][i].seq <= nextSeq'
        BY <4>3, <2>1, <2>3
      <4> QED BY <4>1, <4>2, <4>3
    <3> QED BY <3>1, <3>2, <2>2 DEF Grown
  <2> QED BY <2>4, <2>5
<1>14. ASSUME NEW p \in Prios, user_read(p) PROVE SequenceInv'
  <2>1. state' = state /\ nextSeq' = nextSeq /\ l2c' = l2c BY <1>14 DEF user_read, session
  <2>2. Shrunk BY <1>14, ReadShrinks DEF IInv, TypeOK
  <2> SUFFICES ASSUME state # "UNARMED", NEW q \in Prios
               PROVE  /\ \A i \in DOMAIN l2c'[q] : l2c'[q][i].seq <= nextSeq'
                      /\ \A i \in DOMAIN c2l'[q] : c2l'[q][i].peer <= nextSeq'
    BY <2>1 DEF SequenceInv
  <2>3. /\ \A i \in DOMAIN l2c[q] : l2c[q][i].seq \in Nat /\ l2c[q][i].seq <= nextSeq
        /\ \A i \in DOMAIN c2l[q] : c2l[q][i].peer \in Nat /\ c2l[q][i].peer <= nextSeq
        /\ nextSeq \in Nat
    BY FrameRanges DEF IInv, SequenceInv
  <2>4. \A i \in DOMAIN c2l'[q] : c2l'[q][i].peer <= nextSeq' BY <2>1, <2>2, <2>3 DEF Shrunk
  <2> QED BY <2>1, <2>3, <2>4
<1>15. CASE StopBegin
  <2>1. state = "ACTIVE" /\ nextSeq' = nextSeq + 1 /\ c2l' = c2l BY <1>15 DEF StopBegin, StopAllowed
  <2>2. l2c' = l2c \/ Grown(l2c, l2c', 0, [kind |-> "STOP", seq |-> nextSeq'], Request)
    BY <1>15, StopGrows DEF IInv
  <2> SUFFICES ASSUME state # "UNARMED", NEW q \in Prios
               PROVE  /\ \A i \in DOMAIN l2c'[q] : l2c'[q][i].seq <= nextSeq'
                      /\ \A i \in DOMAIN c2l'[q] : c2l'[q][i].peer <= nextSeq'
    BY <2>1 DEF SequenceInv
  <2>3. /\ \A i \in DOMAIN l2c[q] : l2c[q][i].seq \in Nat /\ l2c[q][i].seq <= nextSeq
        /\ \A i \in DOMAIN c2l[q] : c2l[q][i].peer \in Nat /\ c2l[q][i].peer <= nextSeq
        /\ nextSeq \in Nat
    BY FrameRanges DEF IInv, SequenceInv
  <2>4. \A i \in DOMAIN c2l'[q] : c2l'[q][i].peer <= nextSeq' BY <2>1, <2>3
  <2>5. ASSUME NEW i \in DOMAIN l2c'[q] PROVE l2c'[q][i].seq <= nextSeq'
    <3>1. CASE l2c'[q] = l2c[q] BY <3>1, <2>1, <2>3
    <3>2. CASE q = 0 /\ Grown(l2c, l2c', 0, [kind |-> "STOP", seq |-> nextSeq'], Request)
      BY <3>2, <2>1, <2>3 DEF Grown
    <3> QED BY <3>1, <3>2, <2>2 DEF Grown
  <2> QED BY <2>4, <2>5
<1>16. CASE Cpu3Ready
  <2>1. state' = state /\ nextSeq' = nextSeq /\ l2c' = l2c BY <1>16 DEF Cpu3Ready, session
  <2>2. Grown(c2l, c2l', 0, Frame("SESSION_READY", 0), Reply) BY <1>16, ReadyGrows DEF IInv
  <2> SUFFICES ASSUME state # "UNARMED", NEW q \in Prios
               PROVE  /\ \A i \in DOMAIN l2c'[q] : l2c'[q][i].seq <= nextSeq'
                      /\ \A i \in DOMAIN c2l'[q] : c2l'[q][i].peer <= nextSeq'
    BY <2>1 DEF SequenceInv
  <2>3. /\ \A i \in DOMAIN l2c[q] : l2c[q][i].seq \in Nat /\ l2c[q][i].seq <= nextSeq
        /\ \A i \in DOMAIN c2l[q] : c2l[q][i].peer \in Nat /\ c2l[q][i].peer <= nextSeq
        /\ nextSeq \in Nat
    BY FrameRanges DEF IInv, SequenceInv
  <2>4. \A i \in DOMAIN c2l'[q] : c2l'[q][i].peer <= nextSeq'
    BY <2>1, <2>2, <2>3 DEF Grown, Frame
  <2> QED BY <2>1, <2>3, <2>4
<1>17. ASSUME NEW p \in Prios, Cpu3Serve(p) PROVE SequenceInv'
  <2>1. state' = state /\ nextSeq' = nextSeq BY <1>17 DEF Cpu3Serve, session
  <2>2. Taken(p) /\ Answered(p) BY <1>17, ServeTakes, ServeAnswers DEF IInv, TypeOK
  <2> SUFFICES ASSUME state # "UNARMED", NEW q \in Prios
               PROVE  /\ \A i \in DOMAIN l2c'[q] : l2c'[q][i].seq <= nextSeq'
                      /\ \A i \in DOMAIN c2l'[q] : c2l'[q][i].peer <= nextSeq'
    BY <2>1 DEF SequenceInv
  <2>3. /\ \A i \in DOMAIN l2c[q] : l2c[q][i].seq \in Nat /\ l2c[q][i].seq <= nextSeq
        /\ \A i \in DOMAIN c2l[q] : c2l[q][i].peer \in Nat /\ c2l[q][i].peer <= nextSeq
        /\ nextSeq \in Nat
    BY FrameRanges DEF IInv, SequenceInv
  <2>4. \A i \in DOMAIN l2c[p] : l2c[p][i].seq \in Nat /\ l2c[p][i].seq <= nextSeq
    BY FrameRanges DEF IInv, SequenceInv
  <2>5. ASSUME NEW i \in DOMAIN l2c'[q] PROVE l2c'[q][i].seq <= nextSeq'
    BY <2>1, <2>2, <2>3, <2>4 DEF Taken
  <2>6. ASSUME NEW i \in DOMAIN c2l'[q] PROVE c2l'[q][i].peer <= nextSeq'
    <3>1. CASE c2l'[q] = c2l[q] BY <3>1, <2>1, <2>3
    <3>2. ASSUME q = p, NEW type, Grown(c2l, c2l', p, Frame(type, Head(l2c[p]).seq), Reply)
          PROVE  c2l'[q][i].peer <= nextSeq'
      <4>1. Head(l2c[p]).seq <= nextSeq BY <2>2, <2>4 DEF Taken
      <4>2. \/ c2l'[q][i] = Frame(type, Head(l2c[p]).seq)
            \/ \E j \in DOMAIN c2l[q] : c2l'[q][i] = c2l[q][j]
        BY <3>2 DEF Grown
      <4>3. CASE c2l'[q][i] = Frame(type, Head(l2c[p]).seq) BY <4>1, <4>3, <2>1 DEF Frame
      <4>4. ASSUME NEW j \in DOMAIN c2l[q], c2l'[q][i] = c2l[q][j]
            PROVE  c2l'[q][i].peer <= nextSeq'
        BY <4>4, <2>1, <2>3
      <4> QED BY <4>2, <4>3, <4>4
    <3>3. \/ c2l' = c2l
          \/ \E type \in {"PONG", "STOP_READY", "STOP_REFUSED"} :
               Grown(c2l, c2l', p, Frame(type, Head(l2c[p]).seq), Reply)
      BY <2>2 DEF Answered
    <3>4. q # p => c2l'[q] = c2l[q] BY <3>3 DEF Grown
    <3> QED BY <3>1, <3>2, <3>3, <3>4
  <2> QED BY <2>5, <2>6
<1> QED
  BY <1>1, <1>2, <1>3, <1>4, <1>5, <1>6, <1>7, <1>8, <1>9, <1>10, <1>11, <1>12, <1>13,
     <1>14, <1>15, <1>16, <1>17 DEF Next, Requests, control_work, Cpu3

\* The stop request.
LEMMA StepRequest ==
  ASSUME IInv, [Next]_vars
  PROVE  RequestInv'
<1> USE PriosAssumption
    DEF session, works, rings, peer, IInv, TypeOK, SessionType, RingsType, States, Monitored, Operation,
        RequestInv, SequenceInv, HandlerInv
<1>1. CASE \/ UNCHANGED vars \/ image_write \/ DeadlinePasses \/ ControlIdle
           \/ TimerFires \/ user_open \/ user_release \/ PsciPowersOn
           \/ \E p \in Prios : rx_callback(p) \/ doorbell_store(p) \/ Cpu3Isr(p)
  <2>1. UNCHANGED <<state, lock, stopSeq, nextSeq, l2c, c2l, cpu3>>
    BY <1>1 DEF vars, session, works, rings, peer, image_write, DeadlinePasses,
      ControlIdle, TimerFires, user_open, user_release, PsciPowersOn, rx_callback,
      doorbell_store, Cpu3Isr
  <2> QED BY <2>1
<1>2. CASE affinity_state_show
  BY <1>2 DEF affinity_state_show, refresh_affinity, BecomesOffline, AffinityInfo
<1>3. CASE affinity_work
  BY <1>3 DEF affinity_work, refresh_affinity, BecomesOffline, AffinityInfo
<1>4. CASE StartBusy
  BY <1>4 DEF StartBusy, refresh_affinity, BecomesOffline, AffinityInfo
<1>5. CASE StartBegin BY <1>5 DEF StartBegin, NoRings, AffinityInfo
<1>6. CASE StartEnd BY <1>6 DEF StartEnd
<1>7. CASE RearmBusy
  BY <1>7 DEF RearmBusy, refresh_affinity, BecomesOffline, AffinityInfo
<1>8. CASE rearm_store BY <1>8 DEF rearm_store, AffinityInfo
<1>9. CASE ControlExpired BY <1>9 DEF ControlExpired, set_timeout
<1>10. ASSUME NEW n \in 1 .. Capacity, ControlLate(n) PROVE RequestInv'
  <2>1. n \in 0 .. Len(c2l[0]) /\ Consumed(n)
    BY <1>10, PriosAssumption, LenProperties DEF ControlLate
  <2>2. Shrunk BY <2>1, ConsumedShrinks
  <2> QED BY <1>10, <2>2 DEF ControlLate, set_timeout, Shrunk
<1>11. CASE ControlNothing
  <2>1. Len(c2l[0]) \in 0 .. Len(c2l[0]) /\ Consumed(Len(c2l[0]))
    BY <1>11, PriosAssumption, LenProperties DEF ControlNothing
  <2>2. Shrunk BY <2>1, ConsumedShrinks
  <2> QED BY <1>11, <2>2 DEF ControlNothing, Shrunk
<1>12. ASSUME NEW n \in 1 .. Capacity, ControlAccept(n) PROVE RequestInv'
  <2>1. n \in 0 .. Len(c2l[0]) /\ Consumed(n)
    BY <1>12, PriosAssumption, LenProperties DEF ControlAccept, AwaitedAt
  <2>2. Shrunk BY <2>1, ConsumedShrinks
  <2> QED BY <1>12, <2>2 DEF ControlAccept, Shrunk
<1>13. CASE lifecycle_timeout_work
  BY <1>13 DEF lifecycle_timeout_work, set_timeout, refresh_affinity, BecomesOffline,
     AffinityInfo
<1>14. ASSUME NEW p \in Prios, NEW k \in {"PING", "STOP"}, NEW rung \in BOOLEAN, user_write(p, k, rung)
       PROVE RequestInv'
  BY <1>14 DEF user_write, data_gate
<1>15. ASSUME NEW p \in Prios, user_read(p) PROVE RequestInv'
  <2>2. Shrunk BY <1>15, ReadShrinks
  <2> QED BY <1>15, <2>2 DEF user_read, data_gate, Shrunk
<1>16. CASE StopBegin
  <2>1. /\ nextSeq \in Nat /\ nextSeq' = nextSeq + 1 /\ state = "ACTIVE"
        /\ c2l' = c2l
        /\ \A i \in DOMAIN l2c[0] : l2c[0][i].seq \in Nat /\ l2c[0][i].seq <= nextSeq
        /\ \A i \in DOMAIN c2l[0] : c2l[0][i].peer \in Nat /\ c2l[0][i].peer <= nextSeq
    BY <1>16, FrameRanges DEF StopBegin, StopAllowed
  <2>2. CASE Len(l2c[0]) = Capacity BY <1>16, <2>1, <2>2 DEF StopBegin, StopAllowed
  <2>3. CASE Len(l2c[0]) # Capacity
    <3>1. lock' = "stop" BY <1>16, <2>3 DEF StopBegin, StopAllowed
    <3>2. Grown(l2c, l2c', 0, [kind |-> "STOP", seq |-> nextSeq'], Request)
      BY <1>16, <2>3, StopGrows DEF StopBegin, StopAllowed
    <3>3. l2c[0] \in Seq(Request) OBVIOUS
    <3>4. l2c'[0] # <<>> /\ \A i \in DOMAIN l2c'[0] : i < Len(l2c'[0]) => l2c'[0][i].seq < nextSeq'
      BY <3>2, <3>3, <2>1 DEF Grown
    <3> QED BY <3>1, <3>4, <2>1
  <2> QED BY <2>2, <2>3
<1>17. CASE StopEnd BY <1>17 DEF StopEnd
<1>18. CASE Cpu3Bind BY <1>18 DEF Cpu3Bind
<1>19. CASE Cpu3Ready
  <2>1. state # "STOPPING" BY <1>19 DEF Cpu3Ready, LiveInv, Live, Serving, Cpu3Inv
  <2> QED BY <1>19, <2>1 DEF Cpu3Ready
<1>20. ASSUME NEW p \in Prios, Cpu3Serve(p) PROVE RequestInv'
  <2>1. state' = state /\ nextSeq' = nextSeq /\ stopSeq' = stopSeq /\ lock' = lock /\ cpu3 = "ready"
    BY <1>20 DEF Cpu3Serve
  <2>2. Taken(p) /\ Answered(p) BY <1>20, ServeTakes, ServeAnswers
  <2> SUFFICES ASSUME state = "STOPPING" PROVE RequestInv' BY <2>1
  <2>3. CASE p # 0
    <3>1. l2c'[0] = l2c[0] BY <2>2, <2>3 DEF Taken
    <3>2. c2l'[0] = c2l[0] /\ cpu3' = cpu3 BY <2>2, <2>3 DEF Answered, Grown
    <3> QED BY <3>1, <3>2, <2>1
  <2>4. CASE p = 0
    <3>1. /\ l2c[0] # <<>> /\ nextSeq \in Nat
          /\ \A i \in DOMAIN l2c[0] : i < Len(l2c[0]) => l2c[0][i].seq < nextSeq
          /\ \A i \in DOMAIN c2l[0] : c2l[0][i].peer \in Nat /\ c2l[0][i].peer < nextSeq
      BY <1>20, <2>4, FrameRanges DEF Cpu3Serve
    <3>2. l2c[0] \in Seq(Request) /\ l2c'[0] \in Seq(Request) BY <2>2, <2>4 DEF Taken
    <3>3. /\ Len(l2c'[0]) = Len(l2c[0]) - 1
          /\ \A i \in DOMAIN l2c'[0] : i + 1 \in DOMAIN l2c[0] /\ l2c'[0][i] = l2c[0][i + 1]
          /\ 1 \in DOMAIN l2c[0] /\ Head(l2c[0]) = l2c[0][1]
      BY <2>2, <2>4 DEF Taken
    <3>4. \/ c2l' = c2l
          \/ \E type \in {"PONG", "STOP_READY", "STOP_REFUSED"} :
               /\ type = "STOP_REFUSED" => cpu3' = cpu3
               /\ Grown(c2l, c2l', 0, Frame(type, Head(l2c[0]).seq), Reply)
      BY <2>2, <2>4 DEF Answered
    <3>5. ASSUME NEW i \in DOMAIN c2l'[0]
          PROVE  \/ c2l'[0][i].peer < nextSeq
                 \/ /\ c2l'[0][i].peer = l2c[0][1].seq
                    /\ c2l'[0][i].type = "STOP_REFUSED" => cpu3' = cpu3
      <4>1. CASE c2l' = c2l BY <4>1, <3>1
      <4>2. ASSUME NEW type \in {"PONG", "STOP_READY", "STOP_REFUSED"},
                   type = "STOP_REFUSED" => cpu3' = cpu3,
                   Grown(c2l, c2l', 0, Frame(type, Head(l2c[0]).seq), Reply)
            PROVE  \/ c2l'[0][i].peer < nextSeq
                   \/ /\ c2l'[0][i].peer = l2c[0][1].seq
                      /\ c2l'[0][i].type = "STOP_REFUSED" => cpu3' = cpu3
        <5>1. \/ c2l'[0][i] = Frame(type, Head(l2c[0]).seq)
              \/ \E j \in DOMAIN c2l[0] : c2l'[0][i] = c2l[0][j]
          BY <4>2 DEF Grown
        <5>2. CASE c2l'[0][i] = Frame(type, Head(l2c[0]).seq) BY <5>2, <4>2, <3>3 DEF Frame
        <5>3. ASSUME NEW j \in DOMAIN c2l[0], c2l'[0][i] = c2l[0][j]
              PROVE  c2l'[0][i].peer < nextSeq
          BY <5>3, <3>1
        <5> QED BY <5>1, <5>2, <5>3
      <4> QED BY <4>1, <4>2, <3>4
    <3>6. CASE Len(l2c[0]) = 1
      <4>1. l2c'[0] = <<>> BY <3>6, <3>2, <3>3, EmptySeq
      <4>2. ASSUME NEW i \in DOMAIN c2l'[0], c2l'[0][i].peer = nextSeq,
                   c2l'[0][i].type = "STOP_REFUSED"
            PROVE  cpu3' = "ready"
        BY <4>2, <3>5, <3>1, <2>1
      <4> QED BY <4>1, <4>2, <2>1
    <3>7. CASE Len(l2c[0]) # 1
      <4>1. /\ 1 < Len(l2c[0]) /\ l2c'[0] # <<>>
            /\ \A i \in DOMAIN l2c'[0] : i < Len(l2c'[0]) => i + 1 < Len(l2c[0])
        BY <3>7, <3>2, <3>3, Shorter
      <4>2. l2c[0][1].seq < nextSeq BY <4>1, <3>1, <3>3
      <4>3. \A i \in DOMAIN l2c'[0] : i < Len(l2c'[0]) => l2c'[0][i].seq < nextSeq'
        BY <4>1, <3>1, <3>3, <2>1
      <4>4. \A i \in DOMAIN c2l'[0] : c2l'[0][i].peer < nextSeq' BY <4>2, <3>5, <2>1
      <4> QED BY <4>1, <4>3, <4>4, <2>1
    <3> QED BY <3>6, <3>7
  <2> QED BY <2>3, <2>4
<1>21. CASE Cpu3Off BY <1>21 DEF Cpu3Off
<1> QED
  BY <1>1, <1>2, <1>3, <1>4, <1>5, <1>6, <1>7, <1>8, <1>9, <1>10, <1>11, <1>12, <1>13,
     <1>14, <1>15, <1>16, <1>17, <1>18, <1>19, <1>20, <1>21 DEF Next, Requests,
     control_work, Cpu3

-----------------------------------------------------------------------------
\* Every step keeps the invariant.
LEMMA NextIInv == IInv /\ [Next]_vars => IInv'
<1> SUFFICES ASSUME IInv, [Next]_vars PROVE IInv'
  OBVIOUS
<1>1. TypeOK'
  BY StepSessionType, StepWorksType, StepRingsType, StepPeerType DEF TypeOK
<1>2. OpenFilesKeepSession' /\ OperationHasTimeout' /\ HandlerInv'
  BY StepOpenFiles, StepHasTimeout, StepHandler
<1>3. Cpu3Inv' /\ LiveInv' /\ StopReadyIsTrue'
  BY StepCpu3, StepLive, StepStopReady
<1>4. SequenceInv' /\ RequestInv'
  BY StepSequence, StepRequest
<1> QED BY <1>1, <1>2, <1>3, <1>4 DEF IInv

\* The inductive invariant holds in every state the driver, CPU3 and the
\* firmware can reach.
THEOREM LifecycleInvariant == Spec => []IInv
<1> QED BY InitIInv, NextIInv, PTL DEF Spec

\* Every variable of the lifecycle keeps its type: the generation stays in range
\* when it wraps, and no frame carries a foreign type.
THEOREM TypeCorrect == Spec => []TypeOK
<1>1. IInv => TypeOK BY DEF IInv
<1> QED BY <1>1, LifecycleInvariant, PTL

\* No stop, timeout, rearm or restart happens under an open user file.
THEOREM FilesKeepSession == Spec => []OpenFilesKeepSession
<1>1. IInv => OpenFilesKeepSession BY DEF IInv
<1> QED BY <1>1, LifecycleInvariant, PTL

\* A start or a stop that waits has a timeout pending or running, whatever the
\* order of control_work(), affinity_work() and lifecycle_timeout_work().
THEOREM TimeoutIsComing == Spec => []OperationHasTimeout
<1>1. IInv => OperationHasTimeout BY DEF IInv
<1> QED BY <1>1, LifecycleInvariant, PTL

\* The affinity monitor stays armed while CPU3 may be on.
THEOREM MonitorIsArmed == Spec => []MonitoredIsSampled
<1>1. IInv => MonitoredIsSampled
  BY DEF IInv, HandlerInv, MonitoredIsSampled
<1> QED BY <1>1, LifecycleInvariant, PTL

\* Linux and a running CPU3 agree on the generation of every accepted session.
THEOREM SessionsAgree == Spec => []SessionAgreement
<1>1. IInv => SessionAgreement
  BY DEF IInv, TypeOK, PeerType, LiveInv, Live, Cpu3Inv, Serving, SessionAgreement
<1> QED BY <1>1, LifecycleInvariant, PTL

\* STOP_READY is believed only from a CPU3 that is leaving or off.
THEOREM StopReadyTrue == Spec => []StopReadyIsTrue
<1>1. IInv => StopReadyIsTrue BY DEF IInv
<1> QED BY <1>1, LifecycleInvariant, PTL

\* A timed-out operation stays timed out, goes OFFLINE or is rearmed.
LEMMA StepTimeoutFinal ==
  ASSUME IInv, [Next]_vars
  PROVE  (state \in {"START_TIMEOUT", "STOP_TIMEOUT"}) => (state' \in {state, "OFFLINE", "UNARMED"})
<1> USE DEF session, works, rings, peer, IInv, TypeOK, SessionType, States, Monitored, Operation, HandlerInv
<1> DEFINE Goal == (state \in {"START_TIMEOUT", "STOP_TIMEOUT"}) => (state' \in {state, "OFFLINE", "UNARMED"})
<1>1. CASE \/ UNCHANGED vars \/ image_write \/ StartEnd \/ DeadlinePasses
           \/ ControlIdle \/ ControlNothing \/ TimerFires \/ user_open \/ user_release
           \/ StopEnd \/ PsciPowersOn \/ Cpu3Bind \/ Cpu3Ready \/ Cpu3Off
           \/ \E p \in Prios : rx_callback(p) \/ doorbell_store(p) \/ user_read(p) \/ Cpu3Isr(p) \/ Cpu3Serve(p)
           \/ \E p \in Prios, k \in {"PING", "STOP"}, rung \in BOOLEAN : user_write(p, k, rung)
  <2>1. UNCHANGED state
    BY <1>1 DEF vars, session, works, rings, peer, image_write, StartEnd, DeadlinePasses,
      ControlIdle, ControlNothing, TimerFires, user_open, user_release, StopEnd,
      PsciPowersOn, Cpu3Bind, Cpu3Ready, Cpu3Off, rx_callback, doorbell_store, user_read,
      Cpu3Isr, Cpu3Serve, user_write
  <2> QED BY <2>1
<1>2. CASE affinity_state_show
  BY <1>2 DEF affinity_state_show, refresh_affinity, BecomesOffline, AffinityInfo
<1>3. CASE affinity_work
  BY <1>3 DEF affinity_work, refresh_affinity, BecomesOffline, AffinityInfo
<1>4. CASE StartBusy
  BY <1>4 DEF StartBusy, refresh_affinity, BecomesOffline, AffinityInfo
<1>5. CASE StartBegin BY <1>5 DEF StartBegin, AffinityInfo
<1>6. CASE RearmBusy
  BY <1>6 DEF RearmBusy, refresh_affinity, BecomesOffline, AffinityInfo
<1>7. CASE rearm_store BY <1>7 DEF rearm_store, AffinityInfo
<1>8. CASE ControlExpired BY <1>8 DEF ControlExpired, set_timeout
<1>9. ASSUME NEW n \in 1 .. Capacity, ControlLate(n) PROVE Goal
  BY <1>9 DEF ControlLate, set_timeout
<1>10. ASSUME NEW n \in 1 .. Capacity, ControlAccept(n) PROVE Goal
  BY <1>10 DEF ControlAccept
<1>11. CASE lifecycle_timeout_work
  BY <1>11 DEF lifecycle_timeout_work, set_timeout, refresh_affinity, BecomesOffline,
     AffinityInfo
<1>12. CASE StopBegin BY <1>12 DEF StopBegin, StopAllowed, stop_preflight
<1> QED
  BY <1>1, <1>2, <1>3, <1>4, <1>5, <1>6, <1>7, <1>8, <1>9, <1>10, <1>11, <1>12 DEF Next,
     Requests, control_work, Cpu3

\* A timeout is final: no late answer of CPU3 revives the operation.
THEOREM TimeoutsAreFinal == Spec => TimeoutIsFinal
<1>1. IInv /\ [Next]_vars =>
        [(state \in {"START_TIMEOUT", "STOP_TIMEOUT"}) =>
           (state' \in {state, "OFFLINE", "UNARMED"})]_vars
  BY StepTimeoutFinal
<1> QED BY <1>1, LifecycleInvariant, PTL DEF Spec, TimeoutIsFinal

\* An operation that times out has passed its deadline.
LEMMA StepNoEarlyTimeout ==
  ASSUME IInv, [Next]_vars
  PROVE  (state \in Operation /\ state' \in {"START_TIMEOUT", "STOP_TIMEOUT"}) => expired'
<1> USE DEF session, works, rings, peer, IInv, TypeOK, SessionType, States, Monitored, Operation, HandlerInv
<1> DEFINE Goal == (state \in Operation /\ state' \in {"START_TIMEOUT", "STOP_TIMEOUT"}) => expired'
<1>1. CASE \/ UNCHANGED vars \/ image_write \/ StartEnd \/ DeadlinePasses
           \/ ControlIdle \/ ControlNothing \/ TimerFires \/ user_open \/ user_release
           \/ StopEnd \/ PsciPowersOn \/ Cpu3Bind \/ Cpu3Ready \/ Cpu3Off
           \/ \E p \in Prios : rx_callback(p) \/ doorbell_store(p) \/ user_read(p) \/ Cpu3Isr(p) \/ Cpu3Serve(p)
           \/ \E p \in Prios, k \in {"PING", "STOP"}, rung \in BOOLEAN : user_write(p, k, rung)
  <2>1. UNCHANGED state
    BY <1>1 DEF vars, session, works, rings, peer, image_write, StartEnd, DeadlinePasses,
      ControlIdle, ControlNothing, TimerFires, user_open, user_release, StopEnd,
      PsciPowersOn, Cpu3Bind, Cpu3Ready, Cpu3Off, rx_callback, doorbell_store, user_read,
      Cpu3Isr, Cpu3Serve, user_write
  <2> QED BY <2>1
<1>2. CASE affinity_state_show
  BY <1>2 DEF affinity_state_show, refresh_affinity, BecomesOffline, AffinityInfo
<1>3. CASE affinity_work
  BY <1>3 DEF affinity_work, refresh_affinity, BecomesOffline, AffinityInfo
<1>4. CASE StartBusy
  BY <1>4 DEF StartBusy, refresh_affinity, BecomesOffline, AffinityInfo
<1>5. CASE StartBegin BY <1>5 DEF StartBegin, AffinityInfo
<1>6. CASE RearmBusy
  BY <1>6 DEF RearmBusy, refresh_affinity, BecomesOffline, AffinityInfo
<1>7. CASE rearm_store BY <1>7 DEF rearm_store, AffinityInfo
<1>8. CASE ControlExpired BY <1>8 DEF ControlExpired, set_timeout
<1>9. ASSUME NEW n \in 1 .. Capacity, ControlLate(n) PROVE Goal
  BY <1>9 DEF ControlLate, set_timeout
<1>10. ASSUME NEW n \in 1 .. Capacity, ControlAccept(n) PROVE Goal
  BY <1>10 DEF ControlAccept
<1>11. CASE lifecycle_timeout_work
  BY <1>11 DEF lifecycle_timeout_work, set_timeout, refresh_affinity, BecomesOffline,
     AffinityInfo
<1>12. CASE StopBegin BY <1>12 DEF StopBegin, StopAllowed, stop_preflight
<1> QED
  BY <1>1, <1>2, <1>3, <1>4, <1>5, <1>6, <1>7, <1>8, <1>9, <1>10, <1>11, <1>12 DEF Next,
     Requests, control_work, Cpu3

\* No start or stop times out before its own deadline.
THEOREM NoTimeoutIsEarly == Spec => NoEarlyTimeout
<1>1. IInv /\ [Next]_vars =>
        [(state \in Operation /\ state' \in {"START_TIMEOUT", "STOP_TIMEOUT"}) => expired']_vars
  BY StepNoEarlyTimeout
<1> QED BY <1>1, LifecycleInvariant, PTL DEF Spec, NoEarlyTimeout

\* A refusal that is accepted comes from a CPU3 that still serves.
LEMMA StepRefusal ==
  ASSUME IInv, [Next]_vars
  PROVE  (state = "STOPPING" /\ state' = "ACTIVE") => (power = "ON" /\ cpu3 = "ready")
<1> USE DEF session, works, rings, peer, IInv, TypeOK, SessionType, States, Monitored, Operation, HandlerInv
<1> DEFINE Goal == (state = "STOPPING" /\ state' = "ACTIVE") => (power = "ON" /\ cpu3 = "ready")
<1>1. CASE \/ UNCHANGED vars \/ image_write \/ StartEnd \/ DeadlinePasses
           \/ ControlIdle \/ ControlNothing \/ TimerFires \/ user_open \/ user_release
           \/ StopEnd \/ PsciPowersOn \/ Cpu3Bind \/ Cpu3Ready \/ Cpu3Off
           \/ \E p \in Prios : rx_callback(p) \/ doorbell_store(p) \/ user_read(p) \/ Cpu3Isr(p) \/ Cpu3Serve(p)
           \/ \E p \in Prios, k \in {"PING", "STOP"}, rung \in BOOLEAN : user_write(p, k, rung)
  <2>1. UNCHANGED state
    BY <1>1 DEF vars, session, works, rings, peer, image_write, StartEnd, DeadlinePasses,
      ControlIdle, ControlNothing, TimerFires, user_open, user_release, StopEnd,
      PsciPowersOn, Cpu3Bind, Cpu3Ready, Cpu3Off, rx_callback, doorbell_store, user_read,
      Cpu3Isr, Cpu3Serve, user_write
  <2> QED BY <2>1
<1>2. CASE affinity_state_show
  BY <1>2 DEF affinity_state_show, refresh_affinity, BecomesOffline, AffinityInfo
<1>3. CASE affinity_work
  BY <1>3 DEF affinity_work, refresh_affinity, BecomesOffline, AffinityInfo
<1>4. CASE StartBusy
  BY <1>4 DEF StartBusy, refresh_affinity, BecomesOffline, AffinityInfo
<1>5. CASE StartBegin BY <1>5 DEF StartBegin, AffinityInfo
<1>6. CASE RearmBusy
  BY <1>6 DEF RearmBusy, refresh_affinity, BecomesOffline, AffinityInfo
<1>7. CASE rearm_store BY <1>7 DEF rearm_store, AffinityInfo
<1>8. CASE ControlExpired BY <1>8 DEF ControlExpired, set_timeout
<1>9. ASSUME NEW n \in 1 .. Capacity, ControlLate(n) PROVE Goal
  BY <1>9 DEF ControlLate, set_timeout
<1>10. ASSUME NEW n \in 1 .. Capacity, ControlAccept(n) PROVE Goal
  <2> SUFFICES ASSUME state = "STOPPING", state' = "ACTIVE"
               PROVE  power = "ON" /\ cpu3 = "ready"
    OBVIOUS
  <2>1. c2l[0][n].type = "STOP_REFUSED" /\ n \in DOMAIN c2l[0] /\ c2l[0][n].peer = stopSeq /\ lock = "free"
    BY <1>10 DEF ControlAccept, AwaitedAt, Awaited
  <2>2. c2l[0][n].peer = nextSeq BY <2>1 DEF RequestInv
  <2>3. cpu3 = "ready" BY <2>1, <2>2, FrameRanges, PriosAssumption DEF RequestInv
  <2> QED BY <2>3 DEF Cpu3Inv
<1>11. CASE lifecycle_timeout_work
  BY <1>11 DEF lifecycle_timeout_work, set_timeout, refresh_affinity, BecomesOffline,
     AffinityInfo
<1>12. CASE StopBegin BY <1>12 DEF StopBegin, StopAllowed, stop_preflight
<1> QED
  BY <1>1, <1>2, <1>3, <1>4, <1>5, <1>6, <1>7, <1>8, <1>9, <1>10, <1>11, <1>12 DEF Next,
     Requests, control_work, Cpu3

\* A refused stop gives back a session whose CPU3 is on and serving.
THEOREM RefusalsKeepCpu3 == Spec => RefusalKeepsCpu3
<1>1. IInv /\ [Next]_vars =>
        [(state = "STOPPING" /\ state' = "ACTIVE") => (power = "ON" /\ cpu3 = "ready")]_vars
  BY StepRefusal
<1> QED BY <1>1, LifecycleInvariant, PTL DEF Spec, RefusalKeepsCpu3

=============================================================================
