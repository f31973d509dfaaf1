------------------------- MODULE WindowBenchProofs -------------------------
(***************************************************************************)
(* For every ring size, window, number of requests and width of values and *)
(* sequence numbers: the benchmark's PONGs match its slots, a window that  *)
(* fits the reverse ring loses no reply, and a run that is answered        *)
(* succeeds.                                                               *)
(***************************************************************************)
EXTENDS WindowBench, SequenceTheorems, FiniteSetTheorems, TLAPS

-----------------------------------------------------------------------------
(* The inductive invariant                                                   *)

\* The request a PONG answers: mailmsg_send_pong() adds one modulo 2^32.
Asked(f) == IF f.value = 0 THEN ValueMod - 1 ELSE f.value - 1

IsPong(i) == c2l[i].type = "PONG"

\* A slot is in use from its write to its PONG, and only the PONG of 2^32 - 1,
\* whose value is 0, is not recognised.
CountInv ==
    /\ IsFiniteSet(active) /\ outstanding = Cardinality(active)
    /\ outstanding = write_ok - pong
    /\ duplicate = 0 /\ unknown \in {0, 1}
    /\ unknown = 1 => ValueMod - 1 \in active
    /\ outstanding <= window /\ write_ok <= MaxWrites

\* How many requests after the first one a value is used.
Position(v) == IF v >= Base THEN v - Base ELSE v - Base + ValueMod

\* No value in use comes again: values are used in order, once round at most.
FreshInv ==
    /\ \A v \in active : Position(v) < write_ok
    /\ write_ok < ValueMod => Position(next_value) = write_ok

\* A request is on its way while it is queued, in CPU3's hand, or answered in the
\* reverse ring.  Every request that is on its way has a slot, is there once, and is not the
\* one whose PONG has not been recognised.
PipeInv ==
    /\ serving # 0 => request.value \in active
    /\ \A i \in DOMAIN l2c : l2c[i].value \in active
    /\ \A i \in DOMAIN c2l : IsPong(i) => Asked(c2l[i]) \in active
    /\ \A i, j \in DOMAIN l2c : i # j => l2c[i].value # l2c[j].value
    /\ \A i, j \in DOMAIN c2l : i # j /\ IsPong(i) /\ IsPong(j) => c2l[i].value # c2l[j].value
    /\ \A i \in DOMAIN l2c, j \in DOMAIN c2l : IsPong(j) => l2c[i].value # Asked(c2l[j])
    /\ serving # 0 => /\ \A i \in DOMAIN l2c : l2c[i].value # request.value
                      /\ \A i \in DOMAIN c2l : IsPong(i) => Asked(c2l[i]) # request.value
    /\ unknown = 1 => /\ \A i \in DOMAIN l2c : l2c[i].value # ValueMod - 1
                      /\ \A i \in DOMAIN c2l : IsPong(i) => Asked(c2l[i]) # ValueMod - 1
                      /\ serving # 0 => request.value # ValueMod - 1

ServingInv == serving <= Len(Replies)

\* Replies still to be sent for the request in hand, and replies the bench has
\* still to read for all requests on their way.
ToGo == IF serving = 0 THEN 0 ELSE Len(Replies) + 1 - serving
Ahead == Len(c2l) + ToGo + Len(Replies) * Len(l2c)

\* A reliable request has its ACK before its PONG: Lag is 1 while the PONG of the
\* oldest request on its way is to be read next, and 0 while its ACK is.
Lag == 2 * (outstanding - unknown) - Ahead

\* As long as the window fits, nothing is dropped, and the replies ahead are those
\* of the requests on their way, in order.
ReliableFit ==
    /\ Lag \in {0, 1}
    /\ write_ok - ack = outstanding - unknown - Lag
    /\ \A i \in DOMAIN c2l : i + 1 \in DOMAIN c2l => c2l[i].type # c2l[i + 1].type
    /\ c2l # <<>> => /\ c2l[1].type = "ACK" <=> Lag = 0
                     /\ c2l[Len(c2l)].type = "ACK" <=> serving = 2
    /\ c2l = <<>> => (Lag = 1 <=> serving = 2)

UnreliableFit ==
    /\ outstanding - unknown = Ahead
    /\ \A i \in DOMAIN c2l : IsPong(i)

FitInv == WindowFits => txFull = 0 /\ IF reliable THEN ReliableFit ELSE UnreliableFit

IInv == TypeOK /\ CountInv /\ FreshInv /\ PipeInv /\ ServingInv /\ FitInv

-----------------------------------------------------------------------------
(* Values, replies and rings                                                 *)

\* The modulo of a successor.
LEMMA Successor ==
  ASSUME NEW M \in Nat \ {0}, NEW v \in 0 .. M - 1
  PROVE  (v + 1) % M = IF v + 1 = M THEN 0 ELSE v + 1
<1>1. CASE v + 1 = M BY <1>1
<1>2. CASE v + 1 # M BY <1>2
<1> QED BY <1>1, <1>2

\* The value of a PONG tells the request it answers.
LEMMA AskedProperties ==
  ASSUME NEW v \in Value, NEW f, NEW g, f.value \in Value, g.value \in Value
  PROVE  /\ Asked(f) \in Value
         /\ f.value = (v + 1) % ValueMod => Asked(f) = v
         /\ (v + 1) % ValueMod \in Value
         /\ f.value # g.value => Asked(f) # Asked(g)
<1>1. ValueMod \in Nat \ {0} BY ServiceAssumption
<1>2. v \in 0 .. ValueMod - 1 BY DEF Value
<1>3. (v + 1) % ValueMod = IF v + 1 = ValueMod THEN 0 ELSE v + 1 BY <1>1, <1>2, Successor
<1> DEFINE w == (v + 1) % ValueMod
<1>4. w = IF v + 1 = ValueMod THEN 0 ELSE v + 1 BY <1>3
<1> HIDE DEF w
<1>5. w \in Value /\ (f.value = w => Asked(f) = v) BY <1>1, <1>2, <1>4 DEF Asked, Value
<1>6. Asked(f) \in Value /\ (f.value # g.value => Asked(f) # Asked(g))
  BY <1>1 DEF Asked, Value
<1> QED BY <1>5, <1>6 DEF w

LEMMA SequenceProperties ==
  ASSUME NEW s \in Sequence
  PROVE  next_sequence(s) \in Sequence
BY ServiceAssumption DEF Sequence, next_sequence

LEMMA ReplyLengths ==
  /\ Len(<<"ACK", "PONG">>) = 2 /\ <<"ACK", "PONG">>[1] = "ACK" /\ <<"ACK", "PONG">>[2] = "PONG"
  /\ Len(<<"PONG">>) = 1 /\ <<"PONG">>[1] = "PONG"
OBVIOUS

\* The reply that is sent last is the PONG, and the one before it an ACK.
LEMMA RepliesProperties ==
  ASSUME serving \in 1 .. 2, ServingInv
  PROVE  /\ Replies[serving] = IF serving = Len(Replies) THEN "PONG" ELSE "ACK"
         /\ serving # Len(Replies) => serving = 1 /\ Len(Replies) = 2
         /\ Len(Replies) \in Nat
BY ReplyLengths DEF Replies, ServingInv

\* Taking the head leaves the others, one place earlier.
LEMMA Popped ==
  ASSUME NEW T, NEW s \in Seq(T), s # <<>>
  PROVE  /\ Tail(s) \in Seq(T) /\ Head(s) \in T /\ Head(s) = s[1] /\ 1 \in DOMAIN s
         /\ Len(s) \in Nat \ {0} /\ Len(Tail(s)) = Len(s) - 1
         /\ DOMAIN s = 1 .. Len(s) /\ DOMAIN Tail(s) = 1 .. Len(s) - 1
         /\ \A i \in DOMAIN Tail(s) : i + 1 \in DOMAIN s /\ Tail(s)[i] = s[i + 1]
  BY HeadTailProperties, LenProperties, EmptySeq

\* Appending adds one.
LEMMA Pushed ==
  ASSUME NEW T, NEW s \in Seq(T), NEW e \in T
  PROVE  /\ Append(s, e) \in Seq(T) /\ Append(s, e) # <<>>
         /\ Len(s) \in Nat /\ Len(Append(s, e)) = Len(s) + 1
         /\ DOMAIN s = 1 .. Len(s) /\ DOMAIN Append(s, e) = 1 .. Len(s) + 1
         /\ Append(s, e)[Len(s) + 1] = e
         /\ \A i \in DOMAIN s : Append(s, e)[i] = s[i]
  BY AppendProperties, LenProperties

-----------------------------------------------------------------------------
\* The invariant holds when the benchmark starts.
LEMMA InitIInv == Init => IInv
<1> SUFFICES ASSUME Init PROVE IInv
  OBVIOUS
<1> USE DEF Init, ServiceInit
<1>1. ServiceTypeOK
  BY ServiceAssumption, EmptySeq
  DEF ServiceTypeOK, NoRequest, Request, Sequence, Value
<1>2. TypeOK
  <2>1. {write_ok, ack, pong, duplicate, unknown, errors} \subseteq Nat /\ outstanding \in Nat OBVIOUS
  <2>2. over \in BOOLEAN /\ drained \in BOOLEAN BY Zenon
  <2> QED BY <1>1, <2>1, <2>2, BenchAssumption DEF TypeOK
<1>3. CountInv BY BenchAssumption, FS_EmptySet DEF CountInv
<1>4. FreshInv BY BenchAssumption, ServiceAssumption DEF FreshInv, Position, Value
<1>5. DOMAIN l2c = {} /\ DOMAIN c2l = {} /\ Len(l2c) = 0 /\ Len(c2l) = 0 BY EmptySeq
<1>6. PipeInv BY <1>5 DEF PipeInv
<1>7. ServingInv BY ReplyLengths DEF ServingInv, Replies
<1>8. FitInv
  <2>1. Ahead = 0 BY <1>5, ReplyLengths DEF Ahead, ToGo, Replies
  <2>2. Lag = 0 BY <2>1 DEF Lag
  <2> QED BY <1>5, <2>1, <2>2 DEF FitInv, ReliableFit, UnreliableFit
<1> QED BY <1>2, <1>3, <1>4, <1>6, <1>7, <1>8 DEF IInv

-----------------------------------------------------------------------------
(* Steps that move no frame                                                  *)

\* The state the invariant is about, types aside.
core == <<reliable, l2c, c2l, serving, request, txFull, window, active, next_value,
          outstanding, write_ok, ack, pong, duplicate, unknown>>

LEMMA CoreKept ==
  ASSUME IInv, TypeOK', UNCHANGED core
  PROVE  IInv'
<1> USE DEF core
<1>1. CountInv' BY DEF IInv, CountInv
<1>2. FreshInv' BY DEF IInv, FreshInv, Position
<1>3. PipeInv' BY DEF IInv, PipeInv, IsPong, Asked
<1>4. ServingInv' BY DEF IInv, ServingInv, Replies
<1>5. WindowFits' = WindowFits BY DEF WindowFits
<1>6. Ahead' = Ahead BY DEF Ahead, ToGo, Replies
<1>7. Lag' = Lag BY <1>6 DEF Lag
<1>8. ReliableFit' = ReliableFit BY <1>7 DEF ReliableFit
<1>9. UnreliableFit' = UnreliableFit BY <1>6 DEF UnreliableFit, IsPong
<1>10. FitInv' BY <1>5, <1>8, <1>9 DEF IInv, FitInv
<1> QED BY <1>1, <1>2, <1>3, <1>4, <1>10 DEF IInv

\* The steps of the benchmark's loop that neither write nor read, the passing of
\* time, and the end of the session.
Quiet ==
    \/ Open \/ Loop \/ WriteRefused \/ WriteFails \/ Filled \/ Poll \/ ReadAgain
    \/ ReadFails \/ Drain \/ DurationEnds \/ DrainEnds
    \/ SessionEnds /\ UNCHANGED bvars

LEMMA QuietStep ==
  ASSUME IInv, Quiet
  PROVE  IInv'
<1> USE DEF svars, bvars, counters
<1>0. TypeOK /\ ServiceTypeOK BY DEF IInv, TypeOK
<1>1. UNCHANGED core
  BY DEF Quiet, Open, Loop, WriteRefused, WriteFails, Filled, Poll, ReadAgain, ReadFails, Drain,
         DurationEnds, DrainEnds, SessionEnds, WriteFull, ReadEmpty, core
<1>2. ServiceTypeOK'
  <2>1. /\ online' \in BOOLEAN /\ cpu3Seq' = cpu3Seq
        /\ linuxSeq' = linuxSeq \/ linuxSeq' = next_sequence(linuxSeq)
    BY <1>0 DEF Quiet, Open, Loop, WriteRefused, WriteFails, Filled, Poll, ReadAgain, ReadFails, Drain,
         DurationEnds, DrainEnds, SessionEnds, WriteFull, ReadEmpty, ServiceTypeOK
  <2>2. linuxSeq' \in Sequence BY <1>0, <2>1, SequenceProperties DEF ServiceTypeOK
  <2> QED BY <1>0, <1>1, <2>1, <2>2 DEF ServiceTypeOK, core
<1>3. pc' \in {"open", "loop", "fill", "poll", "read", "drain", "drainRead", "done"}
  BY <1>0 DEF Quiet, Open, Loop, WriteRefused, WriteFails, Filled, Poll, ReadAgain, ReadFails, Drain,
         DurationEnds, DrainEnds, SessionEnds, WriteFull, ReadEmpty, TypeOK
<1>5. errors \in Nat /\ errors' \in {errors, errors + 1}
  BY <1>0 DEF Quiet, Open, Loop, WriteRefused, WriteFails, Filled, Poll, ReadAgain, ReadFails, Drain,
         DurationEnds, DrainEnds, SessionEnds, WriteFull, ReadEmpty, TypeOK
<1>6. errors' \in Nat BY <1>5
<1>7. over' \in {over, TRUE} /\ drained' \in {drained, TRUE}
  BY <1>0 DEF Quiet, Open, Loop, WriteRefused, WriteFails, Filled, Poll, ReadAgain, ReadFails, Drain,
         DurationEnds, DrainEnds, SessionEnds, WriteFull, ReadEmpty, TypeOK
<1>8. over' \in BOOLEAN /\ drained' \in BOOLEAN BY <1>0, <1>7, Zenon DEF TypeOK
<1>4. TypeOK' BY <1>0, <1>1, <1>2, <1>3, <1>6, <1>8 DEF TypeOK, core
<1> QED BY <1>1, <1>4, CoreKept

-----------------------------------------------------------------------------
(* A request is written                                                      *)

\* What Write does, and that the value it uses is not in use.
LEMMA WriteFacts ==
  ASSUME IInv, Write
  PROVE  /\ next_value \in Value /\ next_value \notin active
         /\ write_ok \in Nat /\ write_ok < MaxWrites /\ write_ok < ValueMod
         /\ outstanding < window /\ write_ok' = write_ok + 1 /\ outstanding' = outstanding + 1
         /\ active' = active \cup {next_value}
         /\ l2c' = Append(l2c, [seq |-> linuxSeq', value |-> next_value])
         /\ [seq |-> linuxSeq', value |-> next_value] \in Request
         /\ l2c \in Seq(Request) /\ Len(l2c) < Capacity /\ Len(l2c) \in Nat
         /\ linuxSeq' \in Sequence
         /\ next_value' = IF next_value + 1 = ValueMod THEN 0 ELSE next_value + 1
<1>1. TypeOK /\ ServiceTypeOK BY DEF IInv, TypeOK
<1>2. linuxSeq' \in Sequence
  BY <1>1, SequenceProperties DEF Write, WriteOk, ServiceTypeOK
<1>3. next_value \in Value /\ write_ok \in Nat BY <1>1 DEF TypeOK
<1>4. write_ok < MaxWrites /\ outstanding < window BY DEF Write, MayWrite
<1>5. write_ok < ValueMod BY <1>3, <1>4, BenchAssumption, ServiceAssumption
<1>6. Position(next_value) = write_ok /\ \A v \in active : Position(v) < write_ok
  BY <1>5 DEF IInv, FreshInv
<1>7. next_value \notin active BY <1>3, <1>6
<1>8. Len(l2c) \in Nat /\ l2c \in Seq(Request) BY <1>1, LenProperties DEF ServiceTypeOK
<1>9. Len(l2c) < Capacity BY <1>1, <1>8, ServiceAssumption DEF Write, WriteOk, Full, ServiceTypeOK
<1>10. next_value' = IF next_value + 1 = ValueMod THEN 0 ELSE next_value + 1
  <2>1. next_value' = (next_value + 1) % ValueMod BY DEF Write
  <2>2. ValueMod \in Nat \ {0} /\ next_value \in 0 .. ValueMod - 1
    BY <1>3, ServiceAssumption DEF Value
  <2> QED BY <2>1, <2>2, Successor
<1>11. [seq |-> linuxSeq', value |-> next_value] \in Request BY <1>2, <1>3 DEF Request
<1> QED BY <1>2, <1>3, <1>4, <1>5, <1>7, <1>8, <1>9, <1>10, <1>11 DEF Write, WriteOk

LEMMA WriteStep ==
  ASSUME IInv, Write
  PROVE  IInv'
<1> DEFINE e == [seq |-> linuxSeq', value |-> next_value]
<1>1. TypeOK /\ ServiceTypeOK BY DEF IInv, TypeOK
<1>2. /\ UNCHANGED <<reliable, online, window, c2l, cpu3Seq, serving, request, txFull, pc, ack, pong,
                     duplicate, unknown, errors, over, drained>>
      /\ CountInv /\ FreshInv /\ PipeInv /\ ServingInv /\ FitInv
  BY DEF Write, IInv
<1>3. /\ next_value \in Value /\ next_value \notin active
      /\ write_ok \in Nat /\ write_ok < MaxWrites /\ write_ok < ValueMod
      /\ outstanding < window /\ write_ok' = write_ok + 1 /\ outstanding' = outstanding + 1
      /\ active' = active \cup {next_value}
      /\ l2c' = Append(l2c, e) /\ e \in Request /\ e.value = next_value
      /\ l2c \in Seq(Request) /\ Len(l2c) < Capacity /\ Len(l2c) \in Nat
      /\ linuxSeq' \in Sequence
      /\ next_value' = IF next_value + 1 = ValueMod THEN 0 ELSE next_value + 1
  BY WriteFacts
<1>4. /\ l2c' \in Seq(Request) /\ l2c' # <<>>
      /\ Len(l2c') = Len(l2c) + 1
      /\ DOMAIN l2c = 1 .. Len(l2c) /\ DOMAIN l2c' = 1 .. Len(l2c) + 1
      /\ l2c'[Len(l2c) + 1] = e
      /\ \A i \in DOMAIN l2c : l2c'[i] = l2c[i]
  <2> HIDE DEF e
  <2> QED BY <1>3, Pushed
<1> HIDE DEF e
<1>5. ValueMod \in Nat \ {0} /\ Capacity \in Nat \ {0} /\ Base \in Value /\ window \in Nat
  BY <1>1, ServiceAssumption, BenchAssumption DEF TypeOK
<1>6. TypeOK'
  <2>1. next_value' \in Value BY <1>3, <1>5 DEF Value
  <2>2. ServiceTypeOK' BY <1>1, <1>2, <1>3, <1>4, <1>5 DEF ServiceTypeOK
  <2>3. active' \subseteq Value BY <1>1, <1>3 DEF TypeOK
  <2>4. write_ok' \in Nat /\ outstanding' \in Nat BY <1>1, <1>3 DEF TypeOK
  <2> QED BY <1>1, <1>2, <2>1, <2>2, <2>3, <2>4 DEF TypeOK
<1>7. CountInv'
  <2>1. IsFiniteSet(active') /\ Cardinality(active') = Cardinality(active) + 1
    BY <1>2, <1>3, FS_AddElement DEF CountInv
  <2>2. outstanding' <= window /\ write_ok' <= MaxWrites
    BY <1>1, <1>3, <1>5, BenchAssumption DEF TypeOK
  <2>3. outstanding' = write_ok' - pong'
    BY <1>1, <1>2, <1>3 DEF CountInv, TypeOK
  <2> QED BY <1>2, <1>3, <2>1, <2>2, <2>3 DEF CountInv
<1>8. FreshInv'
  <2>1. Position(next_value) = write_ok BY <1>2, <1>3 DEF FreshInv
  <2>2. ASSUME NEW v \in active' PROVE Position(v) < write_ok'
    <3>1. CASE v = next_value BY <1>3, <2>1, <3>1
    <3>2. CASE v \in active
      <4>1. Position(v) < write_ok BY <1>2, <3>2 DEF FreshInv
      <4>2. Position(v) \in Int BY <1>1, <1>5, <3>2 DEF Position, TypeOK, Value
      <4> QED BY <1>3, <4>1, <4>2
    <3> QED BY <1>3, <2>2, <3>1, <3>2
  <2>3. ASSUME write_ok' < ValueMod PROVE Position(next_value') = write_ok'
    BY <1>3, <1>5, <2>1, <2>3 DEF Position, Value
  <2>4. \A v \in active' : Position(v) < write_ok' BY <2>2
  <2>5. write_ok' < ValueMod => Position(next_value') = write_ok' BY <2>3
  <2> QED BY <2>4, <2>5 DEF FreshInv, Position
<1>9. PipeInv'
  <2>1. \A i \in DOMAIN l2c' : \/ i = Len(l2c) + 1 /\ l2c'[i].value = next_value
                               \/ i \in DOMAIN l2c /\ l2c'[i].value = l2c[i].value
    BY <1>3, <1>4
  <2>2. /\ \A i \in DOMAIN l2c : l2c[i].value \in active
        /\ \A i \in DOMAIN c2l : c2l[i].type = "PONG" => Asked(c2l[i]) \in active
        /\ serving # 0 => request.value \in active
        /\ unknown = 1 => ValueMod - 1 \in active
    BY <1>2 DEF PipeInv, IsPong, CountInv
  <2>3. \A i \in DOMAIN l2c' : l2c'[i].value \in active' BY <1>3, <2>1, <2>2
  <2>4. \A i, j \in DOMAIN l2c' : i # j => l2c'[i].value # l2c'[j].value
    BY <1>2, <1>3, <2>1, <2>2 DEF PipeInv
  <2>5. \A i \in DOMAIN l2c', j \in DOMAIN c2l : c2l[j].type = "PONG" => l2c'[i].value # Asked(c2l[j])
    BY <1>2, <1>3, <2>1, <2>2 DEF PipeInv, IsPong
  <2>6. serving # 0 => \A i \in DOMAIN l2c' : l2c'[i].value # request.value
    BY <1>2, <1>3, <2>1, <2>2 DEF PipeInv
  <2>7. unknown = 1 => \A i \in DOMAIN l2c' : l2c'[i].value # ValueMod - 1
    BY <1>2, <1>3, <2>1, <2>2 DEF PipeInv
  <2>8. active \subseteq active' BY <1>3
  <2> QED BY <1>2, <2>2, <2>3, <2>4, <2>5, <2>6, <2>7, <2>8 DEF PipeInv, IsPong, Asked
<1>10. ServingInv' BY <1>2 DEF ServingInv, Replies
<1>11. FitInv'
  <2>1. WindowFits' = WindowFits BY <1>2 DEF WindowFits
  <2>2. Len(c2l) \in Nat /\ serving \in 0 .. 2 BY <1>1, LenProperties DEF ServiceTypeOK
  <2>3. ASSUME WindowFits, reliable PROVE ReliableFit' /\ txFull' = 0
    <3>1. ReliableFit /\ txFull = 0 BY <1>2, <2>3 DEF FitInv
    <3>2. Ahead \in Int /\ Ahead' = Ahead + 2
      <4>1. Len(Replies) = 2 /\ Len(Replies)' = 2 BY <1>2, <2>3, ReplyLengths DEF Replies
      <4>2. ToGo \in Int /\ ToGo' = ToGo BY <1>2, <2>2, <4>1 DEF ToGo
      <4> QED BY <1>2, <1>3, <1>4, <2>2, <4>1, <4>2 DEF Ahead
    <3>3. unknown \in Int /\ outstanding \in Int /\ ack \in Int BY <1>1 DEF TypeOK
    <3>4. Lag' = Lag /\ Lag \in Int BY <1>2, <1>3, <3>2, <3>3 DEF Lag
    <3>5. (write_ok - ack = outstanding - unknown - Lag)'
      BY <1>2, <1>3, <3>1, <3>3, <3>4 DEF ReliableFit
    <3> QED BY <1>2, <3>1, <3>4, <3>5 DEF ReliableFit
  <2>4. ASSUME WindowFits, ~reliable PROVE UnreliableFit' /\ txFull' = 0
    <3>1. UnreliableFit /\ txFull = 0 BY <1>2, <2>4 DEF FitInv
    <3>2. Ahead \in Int /\ Ahead' = Ahead + 1
      <4>1. Len(Replies) = 1 /\ Len(Replies)' = 1 BY <1>2, <2>4, ReplyLengths DEF Replies
      <4>2. ToGo \in Int /\ ToGo' = ToGo BY <1>2, <2>2, <4>1 DEF ToGo
      <4> QED BY <1>2, <1>3, <1>4, <2>2, <4>1, <4>2 DEF Ahead
    <3>3. unknown \in Int /\ outstanding \in Int BY <1>1 DEF TypeOK
    <3> QED BY <1>2, <1>3, <3>1, <3>2, <3>3 DEF UnreliableFit, IsPong
  <2> QED BY <1>2, <2>1, <2>3, <2>4 DEF FitInv
<1> QED BY <1>6, <1>7, <1>8, <1>9, <1>10, <1>11 DEF IInv

-----------------------------------------------------------------------------
(* CPU3 takes a request                                                      *)

LEMMA TakeStep ==
  ASSUME IInv, ServiceTake, UNCHANGED bvars
  PROVE  IInv'
<1> DEFINE d == Tail(l2c)
<1>1. TypeOK /\ ServiceTypeOK BY DEF IInv, TypeOK
<1>2. /\ UNCHANGED <<reliable, online, c2l, linuxSeq, cpu3Seq, txFull>>
      /\ UNCHANGED <<window, pc, active, next_value, outstanding, write_ok, ack, pong,
                     duplicate, unknown, errors, over, drained>>
      /\ CountInv /\ FreshInv /\ PipeInv /\ ServingInv /\ FitInv
      /\ serving = 0 /\ serving' = 1 /\ l2c # <<>> /\ request' = Head(l2c) /\ l2c' = d
  BY DEF ServiceTake, IInv, bvars, counters
<1>3. l2c \in Seq(Request) /\ Len(l2c) <= Capacity /\ Capacity \in Nat
  BY <1>1, ServiceAssumption DEF ServiceTypeOK
<1>4. /\ d \in Seq(Request) /\ request' \in Request /\ request' = l2c[1] /\ 1 \in DOMAIN l2c
      /\ Len(l2c) \in Nat \ {0} /\ Len(d) = Len(l2c) - 1
      /\ DOMAIN d = 1 .. Len(l2c) - 1
      /\ \A i \in DOMAIN d : i + 1 \in DOMAIN l2c /\ d[i] = l2c[i + 1] /\ i + 1 # 1
  <2>1. /\ d \in Seq(Request) /\ request' \in Request /\ request' = l2c[1] /\ 1 \in DOMAIN l2c
        /\ Len(l2c) \in Nat \ {0} /\ Len(d) = Len(l2c) - 1
        /\ DOMAIN d = 1 .. Len(l2c) - 1
        /\ \A i \in DOMAIN d : i + 1 \in DOMAIN l2c /\ d[i] = l2c[i + 1]
    BY <1>2, <1>3, Popped
  <2> HIDE DEF d
  <2>2. \A i \in DOMAIN d : i + 1 # 1 BY <2>1
  <2> QED BY <2>1, <2>2
<1> HIDE DEF d
<1>5. TypeOK'
  <2>1. ServiceTypeOK' BY <1>1, <1>2, <1>3, <1>4 DEF ServiceTypeOK
  <2> QED BY <1>1, <1>2, <2>1 DEF TypeOK
<1>6. CountInv' BY <1>2 DEF CountInv
<1>7. FreshInv' BY <1>2 DEF FreshInv, Position
<1>8. PipeInv'
  <2>1. /\ \A i \in DOMAIN l2c : l2c[i].value \in active
        /\ \A i, j \in DOMAIN l2c : i # j => l2c[i].value # l2c[j].value
        /\ \A i \in DOMAIN l2c, j \in DOMAIN c2l : c2l[j].type = "PONG" => l2c[i].value # Asked(c2l[j])
        /\ unknown = 1 => \A i \in DOMAIN l2c : l2c[i].value # ValueMod - 1
    BY <1>2 DEF PipeInv, IsPong
  <2>2. /\ request'.value \in active
        /\ \A j \in DOMAIN c2l : c2l[j].type = "PONG" => Asked(c2l[j]) # request'.value
        /\ unknown = 1 => request'.value # ValueMod - 1
    BY <1>4, <2>1
  <2>3. /\ \A i \in DOMAIN d : d[i].value \in active /\ d[i].value # request'.value
        /\ \A i \in DOMAIN d, j \in DOMAIN c2l : c2l[j].type = "PONG" => d[i].value # Asked(c2l[j])
        /\ unknown = 1 => \A i \in DOMAIN d : d[i].value # ValueMod - 1
    BY <1>4, <2>1
  <2>4. ASSUME NEW i \in DOMAIN d, NEW j \in DOMAIN d, i # j PROVE d[i].value # d[j].value
    <3>1. i + 1 # j + 1 BY <1>4, <2>4
    <3> QED BY <1>4, <2>1, <3>1
  <2> QED BY <1>2, <2>2, <2>3, <2>4 DEF PipeInv, IsPong, Asked
<1>9. ServingInv' BY <1>2, ReplyLengths DEF ServingInv, Replies
<1>10. FitInv'
  <2>1. WindowFits' = WindowFits BY <1>2 DEF WindowFits
  <2>2. Len(c2l) \in Nat BY <1>1, LenProperties DEF ServiceTypeOK
  <2>3. ASSUME reliable PROVE Ahead \in Int /\ Ahead' = Ahead
    <3>1. Len(Replies) = 2 /\ Len(Replies)' = 2 BY <1>2, <2>3, ReplyLengths DEF Replies
    <3>2. ToGo = 0 /\ ToGo' = 2 BY <1>2, <3>1 DEF ToGo
    <3> QED BY <1>2, <1>4, <2>2, <3>1, <3>2 DEF Ahead
  <2>4. ASSUME ~reliable PROVE Ahead \in Int /\ Ahead' = Ahead
    <3>1. Len(Replies) = 1 /\ Len(Replies)' = 1 BY <1>2, <2>4, ReplyLengths DEF Replies
    <3>2. ToGo = 0 /\ ToGo' = 1 BY <1>2, <3>1 DEF ToGo
    <3> QED BY <1>2, <1>4, <2>2, <3>1, <3>2 DEF Ahead
  <2>5. reliable => Lag' = Lag BY <1>2, <2>3 DEF Lag
  <2>6. ASSUME WindowFits, reliable PROVE ReliableFit' /\ txFull' = 0
    BY <1>2, <2>5, <2>6 DEF FitInv, ReliableFit
  <2>7. ASSUME WindowFits, ~reliable PROVE UnreliableFit' /\ txFull' = 0
    BY <1>2, <2>4, <2>7 DEF FitInv, UnreliableFit, IsPong
  <2> QED BY <1>2, <2>1, <2>6, <2>7 DEF FitInv
<1> QED BY <1>5, <1>6, <1>7, <1>8, <1>9, <1>10 DEF IInv

-----------------------------------------------------------------------------
(* CPU3 sends a reply                                                        *)

\* While the window fits, a reply that is still to be sent finds room.
LEMMA RoomForReply ==
  ASSUME IInv, serving # 0, WindowFits
  PROVE  ~Full(c2l)
<1>1. /\ TypeOK /\ ServiceTypeOK /\ CountInv /\ ServingInv /\ FitInv
      /\ Capacity \in Nat /\ window \in Nat
  BY ServiceAssumption, BenchAssumption DEF IInv, TypeOK
<1>2. /\ Len(c2l) \in Nat /\ Len(l2c) \in Nat /\ serving \in 1 .. 2
      /\ unknown \in Nat /\ outstanding \in Nat /\ outstanding <= window
  BY <1>1, LenProperties DEF ServiceTypeOK, TypeOK, CountInv
<1>3. CASE reliable
  <2>1. Len(Replies) = 2 BY <1>3, ReplyLengths DEF Replies
  <2>2. ToGo \in Int /\ ToGo >= 1 BY <1>1, <1>2, <2>1 DEF ToGo
  <2>3. Len(c2l) < Ahead /\ Ahead \in Int BY <1>2, <2>1, <2>2 DEF Ahead
  <2>4. Ahead <= 2 * window BY <1>1, <1>2, <1>3, <2>3 DEF FitInv, ReliableFit, Lag
  <2>5. 2 * window <= Capacity BY <1>3 DEF WindowFits
  <2> QED BY <1>1, <1>2, <2>3, <2>4, <2>5 DEF Full
<1>4. CASE ~reliable
  <2>1. Len(Replies) = 1 BY <1>4, ReplyLengths DEF Replies
  <2>2. ToGo \in Int /\ ToGo >= 1 BY <1>1, <1>2, <2>1 DEF ToGo, ServingInv
  <2>3. Len(c2l) < Ahead /\ Ahead \in Int BY <1>2, <2>1, <2>2 DEF Ahead
  <2>4. Ahead <= window BY <1>1, <1>2, <1>4, <2>3 DEF FitInv, UnreliableFit
  <2>5. window <= Capacity BY <1>1, <1>4 DEF WindowFits
  <2> QED BY <1>1, <1>2, <2>3, <2>4, <2>5 DEF Full
<1> QED BY <1>3, <1>4

\* The reply on its way into the ring.
Sent == [seq |-> cpu3Seq', type |-> Replies[serving],
         peer |-> request.seq, value |-> ReplyValue(Replies[serving])]

\* What a step of CPU3's service does: an ACK is followed by a PONG, and the PONG
\* is the last reply.
LEMMA ReplyFacts ==
  ASSUME IInv, ServiceReply, UNCHANGED bvars
  PROVE  /\ UNCHANGED <<reliable, online, l2c, linuxSeq, window, pc, active, next_value, outstanding,
                        write_ok, ack, pong, duplicate, unknown, errors, over, drained>>
         /\ \/ serving = Len(Replies) /\ Sent.type = "PONG" /\ serving' = 0 /\ Asked(Sent) = request.value
            \/ /\ serving = 1 /\ Len(Replies) = 2 /\ Sent.type = "ACK" /\ serving' = 2
               /\ request' = request
         /\ serving \in 1 .. 2 /\ Sent \in Reply /\ cpu3Seq' \in Sequence /\ request' \in Request
         /\ \/ Full(c2l) /\ c2l' = c2l /\ txFull' = txFull + 1
            \/ ~Full(c2l) /\ c2l' = Append(c2l, Sent) /\ txFull' = txFull
<1>1. TypeOK /\ ServiceTypeOK BY DEF IInv, TypeOK
<1>2. serving \in 1 .. 2 /\ request \in Request /\ cpu3Seq' \in Sequence
  BY <1>1, SequenceProperties DEF ServiceReply, SendReply, ServiceTypeOK
<1>3. /\ Replies[serving] = IF serving = Len(Replies) THEN "PONG" ELSE "ACK"
      /\ serving # Len(Replies) => serving = 1 /\ Len(Replies) = 2
  BY <1>2, RepliesProperties DEF IInv
<1>4. request.value \in Value /\ request.seq \in Sequence BY <1>2 DEF Request
<1>5. (request.value + 1) % ValueMod \in Value
  <2>1. NoRequest.value \in Value BY ServiceAssumption DEF NoRequest, Value
  <2> QED BY <1>4, <2>1, AskedProperties
<1>6. ReplyValue(Replies[serving]) \in Value
  BY <1>5, ServiceAssumption DEF ReplyValue, Value
<1>7. Sent \in Reply BY <1>2, <1>3, <1>4, <1>6 DEF Sent, Reply
<1>8. ASSUME serving = Len(Replies) PROVE Sent.type = "PONG" /\ Asked(Sent) = request.value
  <2>1. Sent.type = "PONG" /\ Sent.value = (request.value + 1) % ValueMod
    BY <1>3, <1>8 DEF Sent, ReplyValue
  <2> QED BY <1>4, <1>5, <2>1, AskedProperties
<1>9. serving # Len(Replies) => Sent.type = "ACK" BY <1>3 DEF Sent
<1>10. IF serving = Len(Replies)
       THEN serving' = 0 /\ request' = NoRequest
       ELSE serving' = serving + 1 /\ request' = request
  BY DEF ServiceReply
<1>11. NoRequest \in Request BY ServiceAssumption DEF NoRequest, Request, Sequence, Value
<1>12. \/ serving = Len(Replies) /\ Sent.type = "PONG" /\ serving' = 0 /\ Asked(Sent) = request.value
       \/ serving = 1 /\ Len(Replies) = 2 /\ Sent.type = "ACK" /\ serving' = 2 /\ request' = request
  BY <1>3, <1>8, <1>9, <1>10
<1>13. request' \in Request BY <1>2, <1>10, <1>11
<1>14. \/ Full(c2l) /\ c2l' = c2l /\ txFull' = txFull + 1
       \/ ~Full(c2l) /\ c2l' = Append(c2l, Sent) /\ txFull' = txFull
  BY DEF ServiceReply, SendReply, Sent
<1>15. UNCHANGED <<reliable, online, l2c, linuxSeq, window, pc, active, next_value, outstanding,
                   write_ok, ack, pong, duplicate, unknown, errors, over, drained>>
  BY DEF ServiceReply, bvars, counters
<1> QED BY <1>2, <1>7, <1>12, <1>13, <1>14, <1>15

\* Where the replies of the new ring come from.
LEMMA ReplyRing ==
  ASSUME IInv, ServiceReply, UNCHANGED bvars
  PROVE  /\ c2l' \in Seq(Reply) /\ Len(c2l') <= Capacity
         /\ Len(c2l) \in Nat /\ DOMAIN c2l = 1 .. Len(c2l)
         /\ \A i \in DOMAIN c2l' : \/ i \in DOMAIN c2l /\ c2l'[i] = c2l[i]
                                   \/ i = Len(c2l) + 1 /\ c2l'[i] = Sent
         /\ WindowFits => /\ txFull' = txFull /\ Len(c2l') = Len(c2l) + 1 /\ c2l' # <<>>
                          /\ c2l'[Len(c2l) + 1] = Sent
                          /\ \A i \in DOMAIN c2l : c2l'[i] = c2l[i]
                          /\ DOMAIN c2l' = 1 .. Len(c2l) + 1
<1>1. c2l \in Seq(Reply) /\ Len(c2l) <= Capacity /\ Capacity \in Nat
  BY ServiceAssumption DEF IInv, TypeOK, ServiceTypeOK
<1>2. Len(c2l) \in Nat /\ DOMAIN c2l = 1 .. Len(c2l) BY <1>1, LenProperties
<1>3. serving \in 1 .. 2 /\ Sent \in Reply BY ReplyFacts
<1>4. CASE Full(c2l) /\ c2l' = c2l
  <2>1. ~WindowFits BY <1>3, <1>4, RoomForReply
  <2> QED BY <1>1, <1>2, <1>4, <2>1
<1>5. CASE ~Full(c2l) /\ c2l' = Append(c2l, Sent) /\ txFull' = txFull
  <2>1. Len(c2l) # Capacity BY <1>5 DEF Full
  <2>2. Len(c2l) \in Nat /\ Capacity \in Nat /\ Len(c2l) <= Capacity BY <1>1, <1>2
  <2>3. Len(c2l) < Capacity BY <2>1, <2>2
  <2>4. /\ c2l' \in Seq(Reply) /\ c2l' # <<>> /\ Len(c2l') = Len(c2l) + 1
        /\ DOMAIN c2l' = 1 .. Len(c2l) + 1 /\ c2l'[Len(c2l) + 1] = Sent
        /\ \A i \in DOMAIN c2l : c2l'[i] = c2l[i]
    BY <1>1, <1>3, <1>5, Pushed
  <2> QED BY <1>1, <1>2, <1>5, <2>3, <2>4
<1> QED BY <1>4, <1>5, ReplyFacts

LEMMA ReplyStep ==
  ASSUME IInv, ServiceReply, UNCHANGED bvars
  PROVE  IInv'
<1>1. TypeOK /\ ServiceTypeOK /\ CountInv /\ FreshInv /\ PipeInv /\ ServingInv /\ FitInv
  BY DEF IInv, TypeOK
<1>2. /\ UNCHANGED <<reliable, online, l2c, linuxSeq, window, pc, active, next_value, outstanding,
                     write_ok, ack, pong, duplicate, unknown, errors, over, drained>>
      /\ \/ serving = Len(Replies) /\ Sent.type = "PONG" /\ serving' = 0 /\ Asked(Sent) = request.value
         \/ /\ serving = 1 /\ Len(Replies) = 2 /\ Sent.type = "ACK" /\ serving' = 2
            /\ request' = request
      /\ serving \in 1 .. 2 /\ Sent \in Reply /\ cpu3Seq' \in Sequence /\ request' \in Request
      /\ \/ Full(c2l) /\ c2l' = c2l /\ txFull' = txFull + 1
         \/ ~Full(c2l) /\ c2l' = Append(c2l, Sent) /\ txFull' = txFull
  BY ReplyFacts
<1>3. /\ c2l' \in Seq(Reply) /\ Len(c2l') <= Capacity
      /\ Len(c2l) \in Nat /\ DOMAIN c2l = 1 .. Len(c2l)
      /\ \A i \in DOMAIN c2l' : \/ i \in DOMAIN c2l /\ c2l'[i] = c2l[i]
                                \/ i = Len(c2l) + 1 /\ c2l'[i] = Sent
      /\ WindowFits => /\ txFull' = txFull /\ Len(c2l') = Len(c2l) + 1 /\ c2l' # <<>>
                       /\ c2l'[Len(c2l) + 1] = Sent
                       /\ \A i \in DOMAIN c2l : c2l'[i] = c2l[i]
                       /\ DOMAIN c2l' = 1 .. Len(c2l) + 1
  BY ReplyRing
<1>4. TypeOK'
  <2>1. txFull' \in Nat BY <1>1, <1>2 DEF ServiceTypeOK
  <2>2. serving' \in 0 .. 2 BY <1>2
  <2>3. ServiceTypeOK' BY <1>1, <1>2, <1>3, <2>1, <2>2 DEF ServiceTypeOK
  <2> QED BY <1>1, <1>2, <2>3 DEF TypeOK
<1>5. CountInv' BY <1>1, <1>2 DEF CountInv
<1>6. FreshInv' BY <1>1, <1>2 DEF FreshInv, Position
<1>7. PipeInv'
  <2>1. /\ request.value \in active
        /\ \A i \in DOMAIN c2l : c2l[i].type = "PONG" =>
             /\ Asked(c2l[i]) \in active /\ Asked(c2l[i]) # request.value
             /\ unknown = 1 => Asked(c2l[i]) # ValueMod - 1
             /\ \A j \in DOMAIN l2c : l2c[j].value # Asked(c2l[i])
        /\ \A j \in DOMAIN l2c : l2c[j].value # request.value
        /\ unknown = 1 => request.value # ValueMod - 1
    BY <1>1, <1>2 DEF PipeInv, IsPong
  <2>2. /\ \A i \in DOMAIN c2l' : c2l'[i].type = "PONG" =>
             /\ Asked(c2l'[i]) \in active
             /\ unknown = 1 => Asked(c2l'[i]) # ValueMod - 1
             /\ \A j \in DOMAIN l2c : l2c[j].value # Asked(c2l'[i])
    BY <1>2, <1>3, <2>1
  <2>3. ASSUME NEW i \in DOMAIN c2l, c2l[i].type = "PONG", Sent.type = "PONG"
        PROVE  c2l[i].value # Sent.value
    BY <1>2, <2>1, <2>3 DEF Asked
  <2>4. \A i, j \in DOMAIN c2l' : i # j /\ c2l'[i].type = "PONG" /\ c2l'[j].type = "PONG"
                                    => c2l'[i].value # c2l'[j].value
    BY <1>1, <1>3, <2>3 DEF PipeInv, IsPong
  <2>5. serving' # 0 => /\ request' = request
                        /\ \A i \in DOMAIN c2l' : c2l'[i].type = "PONG" => Asked(c2l'[i]) # request.value
    BY <1>2, <1>3, <2>1
  <2> QED BY <1>1, <1>2, <2>1, <2>2, <2>4, <2>5 DEF PipeInv, IsPong, Asked
<1>8. ServingInv'
  <2>1. Replies' = Replies BY <1>2 DEF Replies
  <2>2. Len(Replies) \in Nat BY ReplyLengths DEF Replies
  <2>3. serving' = 0 \/ (serving' = 2 /\ Len(Replies) = 2) BY <1>2
  <2> QED BY <2>1, <2>2, <2>3 DEF ServingInv
<1>9. FitInv'
  <2>1. WindowFits' = WindowFits BY <1>2 DEF WindowFits
  <2>2. Len(l2c) \in Nat BY <1>1, LenProperties DEF ServiceTypeOK
  <2>3. unknown \in Int /\ outstanding \in Int /\ ack \in Int /\ write_ok \in Int BY <1>1 DEF TypeOK
  <2>4. ASSUME WindowFits, reliable PROVE ReliableFit' /\ txFull' = 0
    <3>1. ReliableFit /\ txFull = 0 BY <1>1, <2>4 DEF FitInv
    <3>2. Len(Replies) = 2 /\ Len(Replies)' = 2 BY <1>2, <2>4, ReplyLengths DEF Replies
    <3>3. ToGo \in Int /\ ToGo' = ToGo - 1 BY <1>2, <3>2 DEF ToGo
    <3>4. Ahead \in Int /\ Ahead' = Ahead BY <1>2, <1>3, <2>2, <2>4, <3>2, <3>3 DEF Ahead
    <3>5. Lag' = Lag BY <1>2, <3>4 DEF Lag
    <3>6. Sent.type = "ACK" <=> serving' = 2 BY <1>2, <3>2
    <3>7. Sent.type = "ACK" <=> serving = 1 BY <1>2, <3>2
    <3>8. ASSUME c2l = <<>> PROVE c2l'[1].type = "ACK" <=> Lag = 0
      <4>1. c2l'[1] = Sent BY <1>3, <2>4, <3>8, EmptySeq
      <4> QED BY <1>2, <3>1, <3>2, <3>8, <4>1 DEF ReliableFit
    <3>9. ASSUME c2l # <<>> PROVE c2l'[1] = c2l[1]
      <4>1. 1 \in DOMAIN c2l BY <1>1, <1>3, <3>9, EmptySeq DEF ServiceTypeOK
      <4> QED BY <1>3, <2>4, <4>1
    <3>10. ASSUME NEW i \in DOMAIN c2l', i + 1 \in DOMAIN c2l' PROVE c2l'[i].type # c2l'[i + 1].type
      <4>1. i \in DOMAIN c2l /\ c2l'[i] = c2l[i] /\ i \in Nat BY <1>3, <2>4, <3>10
      <4>2. CASE i + 1 \in DOMAIN c2l BY <1>3, <2>4, <3>1, <4>1, <4>2 DEF ReliableFit
      <4>3. CASE i + 1 \notin DOMAIN c2l
        <5>1. i = Len(c2l) /\ c2l'[i + 1] = Sent BY <1>3, <2>4, <3>10, <4>1, <4>3
        <5>2. c2l # <<>> BY <4>1
        <5>3. c2l[i].type = "ACK" <=> serving = 2 BY <3>1, <5>1, <5>2 DEF ReliableFit
        <5>4. c2l[i] \in Reply BY <1>1, <1>3, <4>1, ElementOfSeq DEF ServiceTypeOK
        <5>5. c2l[i].type \in {"ACK", "PONG"} BY <5>4 DEF Reply
        <5> QED BY <1>2, <3>7, <4>1, <5>1, <5>3, <5>5
      <4> QED BY <4>2, <4>3
    <3>11. c2l'[1].type = "ACK" <=> Lag = 0 BY <3>1, <3>8, <3>9 DEF ReliableFit
    <3>12. c2l'[Len(c2l')].type = "ACK" <=> serving' = 2 BY <1>3, <2>4, <3>6
    <3>13. (write_ok - ack = outstanding - unknown - Lag)' BY <1>2, <3>1, <3>5 DEF ReliableFit
    <3>14. c2l' # <<>> BY <1>3, <2>4
    <3>15. txFull' = 0 BY <1>3, <2>4, <3>1
    <3>16. Lag' \in {0, 1} BY <3>1, <3>5 DEF ReliableFit
    <3> QED BY <3>5, <3>10, <3>11, <3>12, <3>13, <3>14, <3>15, <3>16 DEF ReliableFit
  <2>5. ASSUME WindowFits, ~reliable PROVE UnreliableFit' /\ txFull' = 0
    <3>1. UnreliableFit /\ txFull = 0 BY <1>1, <2>5 DEF FitInv
    <3>2. Len(Replies) = 1 /\ Len(Replies)' = 1 BY <1>2, <2>5, ReplyLengths DEF Replies
    <3>3. ToGo \in Int /\ ToGo' = ToGo - 1 /\ Sent.type = "PONG" BY <1>2, <3>2 DEF ToGo
    <3>4. Ahead \in Int /\ Ahead' = Ahead BY <1>2, <1>3, <2>2, <2>5, <3>2, <3>3 DEF Ahead
    <3>5. \A i \in DOMAIN c2l' : c2l'[i].type = "PONG"
      BY <1>3, <3>1, <3>3 DEF UnreliableFit, IsPong
    <3> QED BY <1>2, <1>3, <2>5, <3>1, <3>4, <3>5 DEF UnreliableFit, IsPong
  <2> QED BY <1>2, <2>1, <2>4, <2>5 DEF FitInv
<1> QED BY <1>4, <1>5, <1>6, <1>7, <1>8, <1>9 DEF IInv

-----------------------------------------------------------------------------
(* The benchmark reads a reply                                               *)

\* What Read does: the frame is an ACK, the PONG of an active slot, or the PONG of
\* 2^32 - 1, which is met once.
LEMMA ReadFacts ==
  ASSUME IInv, Read
  PROVE  /\ UNCHANGED <<reliable, online, window, l2c, linuxSeq, cpu3Seq, serving, request, txFull, pc,
                        next_value, write_ok, errors, over, drained, duplicate>>
         /\ c2l \in Seq(Reply) /\ c2l # <<>> /\ c2l' = Tail(c2l) /\ c2l[1] \in Reply
         /\ \/ /\ c2l[1].type = "ACK" /\ ack' = ack + 1
               /\ UNCHANGED <<active, outstanding, pong, unknown>>
            \/ /\ c2l[1].type = "PONG" /\ c2l[1].value # 0 /\ Asked(c2l[1]) \in active /\ ack' = ack
               /\ active' = active \ {Asked(c2l[1])} /\ outstanding' = outstanding - 1
               /\ pong' = pong + 1 /\ unknown' = unknown
            \/ /\ c2l[1].type = "PONG" /\ c2l[1].value = 0 /\ Asked(c2l[1]) = ValueMod - 1
               /\ ValueMod - 1 \in active /\ unknown = 0 /\ unknown' = 1
               /\ UNCHANGED <<active, outstanding, pong, ack>>
<1>1. TypeOK /\ ServiceTypeOK /\ CountInv /\ PipeInv BY DEF IInv, TypeOK
<1>2. c2l \in Seq(Reply) /\ c2l # <<>> /\ c2l' = Tail(c2l) /\ Tally(Head(c2l))
  BY <1>1 DEF Read, ReadOk, ServiceTypeOK
<1>3. Head(c2l) = c2l[1] /\ c2l[1] \in Reply /\ 1 \in DOMAIN c2l BY <1>2, Popped
<1>4. UNCHANGED <<reliable, online, window, l2c, linuxSeq, cpu3Seq, serving, request, txFull, pc,
                  next_value, write_ok, errors, over, drained>>
  BY DEF Read
<1> DEFINE f == c2l[1]
<1>5. Tally(f) BY <1>2, <1>3
<1>6. f.type \in {"ACK", "PONG"} /\ f.value \in Value BY <1>3 DEF Reply
<1>7. f.type = "PONG" => Asked(f) \in active BY <1>1, <1>3 DEF PipeInv, IsPong
<1>8. f.type = "PONG" /\ f.value = 0 => unknown # 1 /\ Asked(f) = ValueMod - 1
  BY <1>1, <1>3 DEF PipeInv, IsPong, Asked
<1> HIDE DEF f
<1>9. CASE f.type = "ACK"
  <2>1. ack' = ack + 1 /\ UNCHANGED <<active, outstanding, pong, unknown, duplicate>>
    BY <1>5, <1>9 DEF Tally
  <2> QED BY <1>2, <1>3, <1>4, <1>9, <2>1 DEF f
<1>10. CASE f.type = "PONG" /\ f.value # 0
  <2>1. Asked(f) = f.value - 1 /\ f.value - 1 \in active BY <1>7, <1>10 DEF Asked
  <2>2. /\ active' = active \ {f.value - 1} /\ outstanding' = outstanding - 1
        /\ pong' = pong + 1 /\ unknown' = unknown /\ ack' = ack /\ duplicate' = duplicate
    BY <1>5, <1>10, <2>1 DEF Tally
  <2> QED BY <1>2, <1>3, <1>4, <1>10, <2>1, <2>2 DEF f
<1>11. CASE f.type = "PONG" /\ f.value = 0
  <2>1. unknown' = unknown + 1 /\ UNCHANGED <<active, outstanding, pong, ack, duplicate>>
    BY <1>5, <1>11 DEF Tally
  <2>2. unknown = 0 BY <1>1, <1>8, <1>11 DEF CountInv
  <2> QED BY <1>2, <1>3, <1>4, <1>7, <1>8, <1>11, <2>1, <2>2 DEF f
<1> QED BY <1>6, <1>9, <1>10, <1>11

LEMMA ReadStep ==
  ASSUME IInv, Read
  PROVE  IInv'
<1> DEFINE d == Tail(c2l)
           f == c2l[1]
           Acked == f.type = "ACK" /\ ack' = ack + 1 /\ UNCHANGED <<active, outstanding, pong, unknown>>
           Matched == /\ f.type = "PONG" /\ f.value # 0 /\ Asked(f) \in active /\ ack' = ack
                      /\ active' = active \ {Asked(f)} /\ outstanding' = outstanding - 1
                      /\ pong' = pong + 1 /\ unknown' = unknown
           Missed == /\ f.type = "PONG" /\ f.value = 0 /\ Asked(f) = ValueMod - 1
                     /\ ValueMod - 1 \in active /\ unknown = 0 /\ unknown' = 1
                     /\ UNCHANGED <<active, outstanding, pong, ack>>
<1>1. TypeOK /\ ServiceTypeOK /\ CountInv /\ FreshInv /\ PipeInv /\ ServingInv /\ FitInv
  BY DEF IInv, TypeOK
<1>2. /\ UNCHANGED <<reliable, online, window, l2c, linuxSeq, cpu3Seq, serving, request, txFull, pc,
                     next_value, write_ok, errors, over, drained, duplicate>>
      /\ c2l \in Seq(Reply) /\ c2l # <<>> /\ c2l' = d /\ f \in Reply
      /\ Acked \/ Matched \/ Missed
  BY ReadFacts
<1>3. /\ d \in Seq(Reply) /\ 1 \in DOMAIN c2l
      /\ Len(c2l) \in Nat \ {0} /\ Len(d) = Len(c2l) - 1
      /\ DOMAIN c2l = 1 .. Len(c2l) /\ DOMAIN d = 1 .. Len(c2l) - 1
      /\ \A i \in DOMAIN d : i + 1 \in DOMAIN c2l /\ d[i] = c2l[i + 1] /\ i + 1 # 1 /\ i \in Nat
  <2>1. /\ d \in Seq(Reply) /\ 1 \in DOMAIN c2l
        /\ Len(c2l) \in Nat \ {0} /\ Len(d) = Len(c2l) - 1
        /\ DOMAIN c2l = 1 .. Len(c2l) /\ DOMAIN d = 1 .. Len(c2l) - 1
        /\ \A i \in DOMAIN d : i + 1 \in DOMAIN c2l /\ d[i] = c2l[i + 1]
    BY <1>2, Popped
  <2> HIDE DEF d
  <2>2. \A i \in DOMAIN d : i + 1 # 1 /\ i \in Nat BY <2>1
  <2> QED BY <2>1, <2>2
<1> HIDE DEF d, f
<1>4. ASSUME Matched PROVE outstanding \in Nat \ {0} /\ IsFiniteSet(active')
                           /\ outstanding' = Cardinality(active')
  <2>1. IsFiniteSet(active) /\ outstanding = Cardinality(active) /\ Asked(f) \in active
    BY <1>1, <1>4 DEF CountInv
  <2>2. IsFiniteSet(active \ {Asked(f)}) /\ Cardinality(active \ {Asked(f)}) = Cardinality(active) - 1
    BY <2>1, FS_RemoveElement
  <2>3. outstanding # 0 BY <2>1, FS_EmptySet
  <2> QED BY <1>1, <1>4, <2>1, <2>2, <2>3 DEF TypeOK
<1>5. TypeOK'
  <2>1. ServiceTypeOK'
    <3>1. Len(d) <= Capacity BY <1>1, <1>3, ServiceAssumption DEF ServiceTypeOK
    <3> QED BY <1>1, <1>2, <1>3, <3>1 DEF ServiceTypeOK
  <2>2. active' \subseteq Value /\ outstanding' \in Nat BY <1>1, <1>2, <1>4 DEF TypeOK
  <2>3. ack' \in Nat /\ pong' \in Nat /\ unknown' \in Nat BY <1>1, <1>2 DEF TypeOK
  <2> QED BY <1>1, <1>2, <2>1, <2>2, <2>3 DEF TypeOK
<1>6. CountInv'
  <2>1. CASE Acked BY <1>1, <1>2, <2>1 DEF CountInv
  <2>2. CASE Matched
    <3>1. unknown = 1 => ValueMod - 1 # Asked(f)
      BY <1>1, <1>3, <2>2 DEF PipeInv, IsPong, f
    <3>2. unknown' = 1 => ValueMod - 1 \in active' BY <1>1, <2>2, <3>1 DEF CountInv
    <3>3. outstanding' = write_ok' - pong' /\ outstanding' <= window'
      BY <1>1, <1>2, <2>2, BenchAssumption DEF CountInv, TypeOK
    <3> QED BY <1>1, <1>2, <1>4, <2>2, <3>2, <3>3 DEF CountInv
  <2>3. CASE Missed BY <1>1, <1>2, <2>3 DEF CountInv
  <2> QED BY <1>2, <2>1, <2>2, <2>3
<1>7. FreshInv'
  <2>1. active' \subseteq active BY <1>2
  <2> QED BY <1>1, <1>2, <2>1 DEF FreshInv, Position
<1>8. PipeInv'
  <2>1. /\ \A i \in DOMAIN d : d[i].type = "PONG" =>
             /\ Asked(d[i]) \in active
             /\ f.type = "PONG" => d[i].value # f.value
             /\ unknown = 1 => Asked(d[i]) # ValueMod - 1
             /\ \A j \in DOMAIN l2c : l2c[j].value # Asked(d[i])
             /\ serving # 0 => Asked(d[i]) # request.value
    BY <1>1, <1>3 DEF PipeInv, IsPong, f
  <2>2. f.type = "PONG" => /\ \A j \in DOMAIN l2c : l2c[j].value # Asked(f)
                           /\ serving # 0 => request.value # Asked(f)
    BY <1>1, <1>3 DEF PipeInv, IsPong, f
  <2>3. ASSUME NEW i \in DOMAIN d, d[i].type = "PONG", f.type = "PONG" PROVE Asked(d[i]) # Asked(f)
    <3>1. d[i] \in Reply BY <1>3, <2>3, ElementOfSeq
    <3>2. d[i].value \in Value /\ f.value \in Value BY <1>2, <3>1 DEF Reply
    <3> QED BY <2>1, <2>3, <3>2, AskedProperties
  <2>4. ASSUME NEW i \in DOMAIN d, NEW j \in DOMAIN d, i # j, d[i].type = "PONG", d[j].type = "PONG"
        PROVE  d[i].value # d[j].value
    <3>1. i + 1 # j + 1 BY <1>3, <2>4
    <3> QED BY <1>1, <1>3, <2>4, <3>1 DEF PipeInv, IsPong
  <2>5. /\ \A i \in DOMAIN l2c : l2c[i].value \in active
        /\ \A i, j \in DOMAIN l2c : i # j => l2c[i].value # l2c[j].value
        /\ serving # 0 => request.value \in active /\ \A i \in DOMAIN l2c : l2c[i].value # request.value
        /\ unknown = 1 => /\ \A i \in DOMAIN l2c : l2c[i].value # ValueMod - 1
                          /\ serving # 0 => request.value # ValueMod - 1
    BY <1>1 DEF PipeInv
  <2>6. /\ serving # 0 => request.value \in active'
        /\ \A i \in DOMAIN l2c : l2c[i].value \in active'
        /\ \A i \in DOMAIN d : d[i].type = "PONG" => Asked(d[i]) \in active'
    BY <1>2, <2>1, <2>2, <2>3, <2>5
  <2>7. unknown' = 1 => /\ \A i \in DOMAIN l2c : l2c[i].value # ValueMod - 1
                        /\ \A i \in DOMAIN d : d[i].type = "PONG" => Asked(d[i]) # ValueMod - 1
                        /\ serving # 0 => request.value # ValueMod - 1
    BY <1>2, <2>1, <2>2, <2>3, <2>5
  <2> HIDE DEF Acked, Matched, Missed
  <2> QED BY <1>2, <2>1, <2>4, <2>5, <2>6, <2>7 DEF PipeInv, IsPong, Asked
<1>9. ServingInv' BY <1>1, <1>2 DEF ServingInv, Replies
<1>10. FitInv'
  <2>1. WindowFits' = WindowFits BY <1>2 DEF WindowFits
  <2>2. Len(l2c) \in Nat /\ serving \in 0 .. 2 BY <1>1, LenProperties DEF ServiceTypeOK
  <2>3. unknown \in Int /\ outstanding \in Int /\ ack \in Int /\ write_ok \in Int BY <1>1 DEF TypeOK
  <2>4. Replies' = Replies /\ ToGo' = ToGo /\ ToGo \in Int /\ Len(Replies) * Len(l2c) \in Int
    BY <1>2, <2>2, ReplyLengths DEF Replies, ToGo
  <2>5. Ahead' = Ahead - 1 /\ Ahead \in Int BY <1>2, <1>3, <2>4 DEF Ahead
  <2>6. \/ f.type = "ACK" /\ ack' = ack + 1 /\ outstanding' - unknown' = outstanding - unknown
        \/ f.type = "PONG" /\ ack' = ack /\ outstanding' - unknown' = outstanding - unknown - 1
    BY <1>2, <2>3
  <2>7. unknown' \in Int /\ outstanding' \in Int BY <1>5 DEF TypeOK
  <2>8. ASSUME WindowFits, reliable PROVE ReliableFit' /\ txFull' = 0
    <3>1. ReliableFit /\ txFull = 0 BY <1>1, <2>8 DEF FitInv
    <3>2. f.type = "ACK" <=> Lag = 0 BY <1>2, <3>1 DEF ReliableFit, f
    <3>3. Lag' = 2 * (outstanding' - unknown') - (Ahead - 1) BY <2>5 DEF Lag
    <3>4. /\ Lag \in {0, 1} /\ write_ok - ack = outstanding - unknown - Lag
          /\ Lag = 2 * (outstanding - unknown) - Ahead
      BY <3>1 DEF ReliableFit, Lag
    <3>5. Lag' = 1 - Lag /\ Lag' \in {0, 1}
      <4> DEFINE o == outstanding - unknown
                 q == outstanding' - unknown'
      <4>1. o \in Int /\ q \in Int BY <2>3, <2>7
      <4>2. Lag = 2 * o - Ahead BY <3>4
      <4>3. Lag' = 2 * q - (Ahead - 1) BY <3>3
      <4>4. (f.type = "ACK" /\ q = o) \/ (f.type = "PONG" /\ q = o - 1) BY <2>6
      <4> HIDE DEF o, q
      <4>5. /\ o \in Int /\ q \in Int /\ Lag = 2 * o - Ahead /\ Lag' = 2 * q - (Ahead - 1)
            /\ (f.type = "ACK" /\ q = o) \/ (f.type = "PONG" /\ q = o - 1)
        BY <4>1, <4>2, <4>3, <4>4
      <4>6. CASE Lag = 0 /\ q = o BY <2>5, <4>5, <4>6
      <4>7. CASE Lag = 1 /\ q = o - 1 BY <2>5, <4>5, <4>7
      <4> QED BY <3>2, <3>4, <4>5, <4>6, <4>7
    <3>6. write_ok' - ack' = outstanding' - unknown' - Lag'
      <4>1. CASE Lag = 0 BY <1>2, <2>3, <2>6, <2>7, <3>2, <3>5, <3>4, <4>1
      <4>2. CASE Lag = 1 BY <1>2, <2>3, <2>6, <2>7, <3>2, <3>5, <3>4, <4>2
      <4> QED BY <3>4, <4>1, <4>2
    <3>7. ASSUME NEW i \in DOMAIN d, i + 1 \in DOMAIN d PROVE d[i].type # d[i + 1].type
      <4>1. i + 1 \in DOMAIN c2l /\ (i + 1) + 1 \in DOMAIN c2l BY <1>3, <3>7
      <4>2. d[i] = c2l[i + 1] /\ d[i + 1] = c2l[(i + 1) + 1] BY <1>3, <3>7
      <4> QED BY <3>1, <4>1, <4>2 DEF ReliableFit
    <3>8. ASSUME d # <<>> PROVE /\ d[1].type = "ACK" <=> Lag' = 0
                                /\ d[Len(d)].type = "ACK" <=> serving = 2
      <4>1. Len(d) # 0 BY <1>3, <3>8, EmptySeq
      <4>2. 1 \in DOMAIN d /\ Len(d) \in DOMAIN d /\ Len(d) + 1 = Len(c2l) BY <1>3, <4>1
      <4>3. d[1] = c2l[2] /\ 2 \in DOMAIN c2l /\ d[Len(d)] = c2l[Len(c2l)] BY <1>3, <4>2
      <4>4. c2l[1].type # c2l[2].type
        <5>1. 1 + 1 \in DOMAIN c2l BY <4>3
        <5>2. c2l[1].type # c2l[1 + 1].type BY <1>3, <3>1, <5>1 DEF ReliableFit
        <5> QED BY <5>2
      <4>5. d[1] \in Reply BY <1>3, <4>2, ElementOfSeq
      <4>6. d[1].type \in {"ACK", "PONG"} /\ f.type \in {"ACK", "PONG"} BY <1>2, <4>5 DEF Reply
      <4>7. d[1].type = "ACK" <=> Lag' = 0 BY <3>2, <3>5, <3>4, <4>3, <4>4, <4>6 DEF f
      <4> QED BY <1>2, <3>1, <4>3, <4>7 DEF ReliableFit
    <3>9. ASSUME d = <<>> PROVE Lag' = 1 <=> serving = 2
      <4>1. Len(c2l) = 1 BY <1>3, <3>9, EmptySeq
      <4> QED BY <1>2, <3>1, <3>2, <3>5, <3>4, <4>1 DEF ReliableFit, f
    <3> HIDE DEF Acked, Matched, Missed
    <3> QED BY <1>2, <3>1, <3>5, <3>6, <3>7, <3>8, <3>9 DEF ReliableFit
  <2>9. ASSUME WindowFits, ~reliable PROVE UnreliableFit' /\ txFull' = 0
    <3>1. UnreliableFit /\ txFull = 0 BY <1>1, <2>9 DEF FitInv
    <3>2. f.type = "PONG" /\ \A i \in DOMAIN d : d[i].type = "PONG"
      BY <1>3, <3>1 DEF UnreliableFit, IsPong, f
    <3>3. outstanding' - unknown' = Ahead'
      BY <2>3, <2>5, <2>6, <2>7, <3>1, <3>2 DEF UnreliableFit
    <3> QED BY <1>2, <3>1, <3>2, <3>3 DEF UnreliableFit, IsPong
  <2> QED BY <1>2, <2>1, <2>8, <2>9 DEF FitInv
<1> QED BY <1>5, <1>6, <1>7, <1>8, <1>9, <1>10 DEF IInv

-----------------------------------------------------------------------------
(* The theorems                                                              *)

\* Every step keeps the invariant.
LEMMA NextIInv == IInv /\ [Next]_vars => IInv'
<1> SUFFICES ASSUME IInv, [Next]_vars PROVE IInv'
  OBVIOUS
<1>1. CASE Quiet BY <1>1, QuietStep
<1>2. CASE Write BY <1>2, WriteStep
<1>3. CASE Read BY <1>3, ReadStep
<1>4. CASE ServiceTake /\ UNCHANGED bvars BY <1>4, TakeStep
<1>5. CASE ServiceReply /\ UNCHANGED bvars BY <1>5, ReplyStep
<1>6. CASE UNCHANGED vars
  <2>1. UNCHANGED core BY <1>6 DEF vars, svars, bvars, counters, core
  <2>2. TypeOK' BY <1>6 DEF IInv, TypeOK, ServiceTypeOK, vars, svars, bvars, counters
  <2> QED BY <2>1, <2>2, CoreKept
<1> QED BY <1>1, <1>2, <1>3, <1>4, <1>5, <1>6 DEF Next, Bench, Quiet, Service

\* A run of the benchmark keeps its inductive invariant: which requests are on their
\* way, and in a window that fits, which replies the benchmark has still to read.
THEOREM BenchInvariant == Spec => []IInv
BY InitIInv, NextIInv, PTL DEF Spec

\* The benchmark's variables keep their types: among them the values and sequence
\* numbers their width, and the rings their capacity.
THEOREM TypeCorrect == Spec => []TypeOK
<1>1. IInv => TypeOK BY DEF IInv
<1> QED BY <1>1, BenchInvariant, PTL

\* With a window that fits, the firmware never drops a reply for want of a slot in
\* the reverse ring.
THEOREM RepliesFindRoom == Spec => []NoReplyDropped
<1>1. IInv => NoReplyDropped BY DEF IInv, FitInv, NoReplyDropped
<1> QED BY <1>1, BenchInvariant, PTL

\* find_value() finds the slot of every PONG, and outstanding counts the slots in
\* use.
THEOREM PongsMatch == Spec => []PongsMatchSlots
<1>1. IInv => PongsMatchSlots BY DEF IInv, CountInv, PongsMatchSlots
<1> QED BY <1>1, BenchInvariant, PTL

\* A run whose window fits, and whose requests have all been answered, has read as
\* many ACKs as it wrote requests and exits with success.
THEOREM AnsweredRunsSucceed == Spec => []AnsweredRunSucceeds
<1>1. ASSUME IInv PROVE AnsweredRunSucceeds
  <2> SUFFICES ASSUME outstanding = 0, errors = 0, WindowFits PROVE ExitOk
    BY DEF AnsweredRunSucceeds
  <2>1. CountInv /\ FitInv /\ TypeOK /\ ServiceTypeOK /\ ServingInv BY <1>1 DEF IInv, TypeOK
  <2>2. active = {} BY <2>1, FS_EmptySet DEF CountInv
  <2>3. duplicate = 0 /\ unknown = 0 BY <2>1, <2>2 DEF CountInv
  <2>4. pong \in Nat /\ write_ok \in Nat /\ ack \in Nat BY <2>1 DEF TypeOK
  <2>5. pong = write_ok BY <2>1, <2>4 DEF CountInv
  <2>6. ASSUME reliable PROVE ack = write_ok
    <3>1. Len(c2l) \in Nat /\ Len(l2c) \in Nat /\ serving \in 0 .. 2
      BY <2>1, LenProperties DEF ServiceTypeOK
    <3>2. Len(Replies) = 2 BY <2>6, ReplyLengths DEF Replies
    <3>3. ToGo \in Nat BY <3>1, <3>2 DEF ToGo
    <3>4. Ahead \in Nat BY <3>1, <3>2, <3>3 DEF Ahead
    <3>5. Lag = 0 - Ahead BY <2>3, <3>4 DEF Lag
    <3>6. Lag \in {0, 1} /\ write_ok - ack = outstanding - unknown - Lag
      BY <2>1, <2>6 DEF FitInv, ReliableFit
    <3>7. Lag = 0 BY <3>4, <3>5, <3>6
    <3> QED BY <2>3, <2>4, <3>6, <3>7
  <2> QED BY <2>3, <2>5, <2>6 DEF ExitOk
<1> QED BY <1>1, BenchInvariant, PTL

=============================================================================
