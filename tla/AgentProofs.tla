---------------------------- MODULE AgentProofs ----------------------------
(***************************************************************************)
(* For any number of processes and runs, every ring size and every width   *)
(* of values and sequence numbers: a run that nobody else writes into is   *)
(* told the truth.                                                         *)
(***************************************************************************)
EXTENDS Agent, SequenceTheorems, TLAPS

-----------------------------------------------------------------------------
(* The inductive invariant                                                   *)

\* A run that has written its request, and met no other writer since.
UnderWay(a) == quiet[a] /\ apc[a] \in {"wait", "read", "clientWait", "clientRead"}

\* Everything on its way belongs to run a: the request until CPU3 takes it, and
\* the replies.  Some of them may have been dropped, or taken by others.
OwnTraffic(a) ==
    /\ own[a] # 0
    /\ Len(l2c) <= 1
    /\ \A i \in DOMAIN l2c : l2c[i].seq = own[a] /\ l2c[i].value = value[a]
    /\ serving # 0 => request.seq = own[a] /\ request.value = value[a]
    /\ \A i \in DOMAIN c2l : /\ c2l[i].peer = own[a]
                             /\ c2l[i].type = "PONG" => c2l[i].value = (value[a] + 1) % ValueMod

\* The ACK is before the PONG, and each is met once: in the ring or by the run.
OneAnswer(a) ==
    /\ \A i \in DOMAIN c2l : IF c2l[i].type = "ACK" THEN i = 1 ELSE i = Len(c2l)
    /\ l2c # <<>> => serving = 0
    /\ l2c # <<>> \/ serving = 1 => c2l = <<>> /\ ackPeer[a] = 0 /\ pongPeer[a] = 0
    /\ serving = 2 => pongPeer[a] = 0 /\ \A i \in DOMAIN c2l : c2l[i].type = "ACK"
    /\ ackPeer[a] # 0 => \A i \in DOMAIN c2l : c2l[i].type = "PONG"
    /\ pongPeer[a] # 0 => c2l = <<>>
    /\ ackPeer[a] \in {0, own[a]} /\ pongPeer[a] \in {0, own[a]}
    /\ taken[a] = 1 => ackPeer[a] # 0 \/ pongPeer[a] # 0

\* The local state of a run in the lines of its program.
Local(a) ==
    /\ apc[a] \in {"idle", "write", "clientWrite"} => taken[a] = 0
    /\ apc[a] \in {"write", "clientWrite"} => ~quiet[a] /\ ackPeer[a] = 0 /\ pongPeer[a] = 0
    /\ apc[a] \in {"write", "wait", "read"} => value[a] < ValueMod - 1
    /\ apc[a] # "idle" => outcome[a] = "none"

\* What QuietRunIsSound says of one run.
Sound(a) ==
    quiet[a] => (outcome[a] \in {"ok", "exit_0"} => Owned(a)) /\ outcome[a] # "unexpected_result"

Good(a) == Local(a) /\ Sound(a) /\ (UnderWay(a) => OwnTraffic(a) /\ OneAnswer(a))

IInv == TypeOK /\ reliable = TRUE /\ \A a \in Agents : Good(a)

-----------------------------------------------------------------------------
(* Functions, numbers and rings                                              *)

\* What an update of one process' variable does.
LEMMA Updated ==
  ASSUME NEW S, NEW f \in [Agents -> S], NEW a \in Agents, NEW v \in S
  PROVE  /\ [f EXCEPT ![a] = v] \in [Agents -> S]
         /\ [f EXCEPT ![a] = v][a] = v
         /\ \A b \in Agents \ {a} : [f EXCEPT ![a] = v][b] = f[b]
OBVIOUS

LEMMA Successor ==
  ASSUME NEW v \in Value
  PROVE  /\ (v + 1) % ValueMod \in Value
         /\ v < ValueMod - 1 => (v + 1) % ValueMod = v + 1
<1>1. ValueMod \in Nat \ {0} /\ v \in 0 .. ValueMod - 1 BY ServiceAssumption DEF Value
<1>2. CASE v + 1 = ValueMod
  <2>1. (v + 1) % ValueMod = 0 BY <1>1, <1>2
  <2> QED BY <1>1, <1>2, <2>1 DEF Value
<1>3. CASE v + 1 # ValueMod
  <2>1. (v + 1) % ValueMod = v + 1 BY <1>1, <1>3
  <2> QED BY <1>1, <1>3, <2>1 DEF Value
<1> QED BY <1>2, <1>3

\* No request has the number 0.
LEMMA NextSequence ==
  ASSUME NEW s \in Sequence
  PROVE  next_sequence(s) \in Sequence \ {0}
BY ServiceAssumption DEF Sequence, next_sequence

LEMMA Zero == 0 \in Sequence /\ 0 \in Value
BY ServiceAssumption DEF Sequence, Value

LEMMA ReplyPair ==
  ASSUME reliable = TRUE
  PROVE  Len(Replies) = 2 /\ Replies[1] = "ACK" /\ Replies[2] = "PONG"
BY DEF Replies

\* Taking the head leaves the others, one place earlier.
LEMMA Popped ==
  ASSUME NEW T, NEW s \in Seq(T), s # <<>>
  PROVE  /\ Tail(s) \in Seq(T) /\ Head(s) \in T /\ Head(s) = s[1] /\ 1 \in DOMAIN s
         /\ Len(s) \in Nat \ {0} /\ Len(Tail(s)) = Len(s) - 1
         /\ DOMAIN s = 1 .. Len(s) /\ DOMAIN Tail(s) = 1 .. Len(s) - 1
         /\ \A i \in DOMAIN Tail(s) : i + 1 \in DOMAIN s /\ Tail(s)[i] = s[i + 1]
  BY HeadTailProperties, LenProperties, EmptySeq

\* Appending adds one.
LEMMA Pushed ==
  ASSUME NEW T, NEW s \in Seq(T), NEW e \in T
  PROVE  /\ Append(s, e) \in Seq(T) /\ Append(s, e) # <<>>
         /\ Len(s) \in Nat /\ Len(Append(s, e)) = Len(s) + 1
         /\ DOMAIN s = 1 .. Len(s) /\ DOMAIN Append(s, e) = 1 .. Len(s) + 1
         /\ Append(s, e)[Len(s) + 1] = e
         /\ \A i \in DOMAIN s : Append(s, e)[i] = s[i]
  BY AppendProperties, LenProperties

-----------------------------------------------------------------------------
\* The invariant holds before the first run.
LEMMA InitIInv == Init => IInv
<1> SUFFICES ASSUME Init PROVE IInv
  OBVIOUS
<1> USE DEF Init, ServiceInit
<1>1. ServiceTypeOK
  BY ServiceAssumption, EmptySeq DEF ServiceTypeOK, NoRequest, Request, Sequence, Value
<1>2. /\ apc \in [Agents -> {"idle", "write", "wait", "read"} \cup Client]
      /\ value \in [Agents -> Value] /\ own \in [Agents -> Sequence]
      /\ ackPeer \in [Agents -> Sequence] /\ pongPeer \in [Agents -> Sequence]
      /\ taken \in [Agents -> 0 .. 1] /\ outcome \in [Agents -> Outcomes]
      /\ reader \in Agents \cup {Nobody} /\ runs \in Nat
  BY Zero DEF Client, Outcomes
<1>3. late \in [Agents -> BOOLEAN] /\ quiet \in [Agents -> BOOLEAN] /\ stolen \in BOOLEAN BY Zenon
<1>4. TypeOK BY <1>1, <1>2, <1>3 DEF TypeOK
<1>5. reliable = TRUE BY AgentAssumption
<1>6. ASSUME NEW a \in Agents PROVE Good(a)
  <2>1. apc[a] = "idle" /\ taken[a] = 0 BY <1>6
  <2>2. ~quiet[a] BY <1>6, Zenon
  <2> QED BY <2>1, <2>2 DEF Good, Local, Sound, UnderWay
<1> QED BY <1>4, <1>5, <1>6 DEF IInv

-----------------------------------------------------------------------------
(* The other runs                                                            *)

\* What the invariant says of run b is unchanged.
Same(b) == /\ apc'[b] = apc[b] /\ value'[b] = value[b] /\ own'[b] = own[b] /\ taken'[b] = taken[b]
           /\ ackPeer'[b] = ackPeer[b] /\ pongPeer'[b] = pongPeer[b]
           /\ outcome'[b] = outcome[b] /\ quiet'[b] = quiet[b]

\* The reverse ring is as it was, or loses its oldest frame, or all of them.
Consumed == \/ c2l' = c2l
            \/ c2l # <<>> /\ c2l' = Tail(c2l)
            \/ c2l' = <<>>

\* The frames that are left were there before, and the last one is the last one.
LEMMA ConsumedFrames ==
  ASSUME TypeOK, Consumed
  PROVE  /\ c2l' \in Seq(Reply) /\ Len(c2l') <= Capacity
         /\ c2l = <<>> => c2l' = <<>>
         /\ \A i \in DOMAIN c2l' : \E j \in DOMAIN c2l :
              /\ c2l'[i] = c2l[j] /\ (j = 1 => c2l' = c2l /\ i = 1) /\ (j = Len(c2l) => i = Len(c2l'))
<1>1. c2l \in Seq(Reply) /\ Len(c2l) <= Capacity /\ Capacity \in Nat
  BY ServiceAssumption DEF TypeOK, ServiceTypeOK
<1>2. CASE c2l' = c2l BY <1>1, <1>2
<1>3. CASE c2l' = <<>> BY <1>1, <1>3, EmptySeq
<1>4. CASE c2l # <<>> /\ c2l' = Tail(c2l)
  <2> DEFINE d == Tail(c2l)
  <2>1. /\ d \in Seq(Reply) /\ Len(c2l) \in Nat \ {0} /\ Len(d) = Len(c2l) - 1
        /\ DOMAIN d = 1 .. Len(c2l) - 1
        /\ \A i \in DOMAIN d : i + 1 \in DOMAIN c2l /\ d[i] = c2l[i + 1]
    BY <1>1, <1>4, Popped
  <2> HIDE DEF d
  <2>2. ASSUME NEW i \in DOMAIN d
        PROVE  \E j \in DOMAIN c2l : /\ d[i] = c2l[j] /\ (j = 1 => d = c2l /\ i = 1)
                                     /\ (j = Len(c2l) => i = Len(d))
    <3>1. i + 1 # 1 /\ (i + 1 = Len(c2l) => i = Len(d)) BY <2>1
    <3> QED BY <2>1, <3>1
  <2>3. Len(d) <= Capacity BY <1>1, <2>1
  <2> QED BY <1>4, <2>1, <2>2, <2>3 DEF d
<1> QED BY <1>2, <1>3, <1>4 DEF Consumed

\* A run is not harmed by a frame that somebody else takes.
LEMMA OthersKeep ==
  ASSUME IInv, NEW b \in Agents, Same(b), Consumed, UNCHANGED <<l2c, serving, request>>
  PROVE  Good(b)'
<1>1. TypeOK /\ Good(b) BY DEF IInv
<1>2. /\ c2l = <<>> => c2l' = <<>>
      /\ \A i \in DOMAIN c2l' : \E j \in DOMAIN c2l :
            /\ c2l'[i] = c2l[j] /\ (j = 1 => c2l' = c2l /\ i = 1) /\ (j = Len(c2l) => i = Len(c2l'))
  BY <1>1, ConsumedFrames
<1>3. Local(b)' BY <1>1 DEF Good, Local, Same
<1>4. Sound(b)' BY <1>1 DEF Good, Sound, Owned, Same
<1>5. ASSUME UnderWay(b)' PROVE OwnTraffic(b)' /\ OneAnswer(b)'
  <2>1. OwnTraffic(b) /\ OneAnswer(b) BY <1>1, <1>5 DEF Good, UnderWay, Same
  <2>2. OwnTraffic(b)' BY <1>2, <2>1 DEF OwnTraffic, Same
  <2>3. \A i \in DOMAIN c2l' : IF c2l'[i].type = "ACK" THEN i = 1 ELSE i = Len(c2l')
    BY <1>2, <2>1 DEF OneAnswer
  <2>4. /\ l2c # <<>> \/ serving = 1 => c2l' = <<>>
        /\ serving = 2 => \A i \in DOMAIN c2l' : c2l'[i].type = "ACK"
        /\ ackPeer[b] # 0 => \A i \in DOMAIN c2l' : c2l'[i].type = "PONG"
        /\ pongPeer[b] # 0 => c2l' = <<>>
    BY <1>2, <2>1 DEF OneAnswer
  <2>5. OneAnswer(b)' BY <2>1, <2>3, <2>4 DEF OneAnswer, Same
  <2> QED BY <2>2, <2>5
<1> QED BY <1>3, <1>4, <1>5 DEF Good

-----------------------------------------------------------------------------
(* Steps of a run that write no request                                      *)

\* It is enough to look at the run that takes the step.
LEMMA OneStep ==
  ASSUME IInv, NEW a \in Agents, TypeOK', reliable' = reliable, \A b \in Agents \ {a} : Same(b),
         Consumed, UNCHANGED <<l2c, serving, request>>, Good(a)'
  PROVE  IInv'
<1>1. ASSUME NEW b \in Agents PROVE Good(b)'
  <2>1. CASE b = a BY <2>1
  <2>2. CASE b # a
    <3>1. Same(b) BY <2>2
    <3> QED BY <3>1, OthersKeep
  <2> QED BY <2>1, <2>2
<1> QED BY <1>1 DEF IInv

\* open() and a new set of local variables.
LEMMA BeginStep ==
  ASSUME IInv, NEW a \in Agents, NEW v \in Value, NEW line \in {"write", "clientWrite"},
         line = "write" => v < ValueMod - 1, Begin(a, v, line)
  PROVE  IInv'
<1>1. TypeOK /\ Good(a) BY DEF IInv
<1>2. /\ UNCHANGED <<svars, taken, late, reader, stolen>> /\ runs' = runs + 1 /\ apc[a] = "idle"
      /\ value' = [value EXCEPT ![a] = v]
      /\ apc' = [apc EXCEPT ![a] = line]
      /\ own' = [own EXCEPT ![a] = 0]
      /\ ackPeer' = [ackPeer EXCEPT ![a] = 0]
      /\ pongPeer' = [pongPeer EXCEPT ![a] = 0]
      /\ outcome' = [outcome EXCEPT ![a] = "none"]
      /\ quiet' = [quiet EXCEPT ![a] = FALSE]
  BY DEF Begin
<1>3. /\ apc' \in [Agents -> {"idle", "write", "wait", "read"} \cup Client]
      /\ apc'[a] = line /\ \A b \in Agents \ {a} : apc'[b] = apc[b]
  BY <1>1, <1>2, Updated DEF TypeOK, Client
<1>4. /\ value' \in [Agents -> Value]
      /\ value'[a] = v /\ \A b \in Agents \ {a} : value'[b] = value[b]
  BY <1>1, <1>2, Updated DEF TypeOK
<1>5. /\ own' \in [Agents -> Sequence]
      /\ own'[a] = 0 /\ \A b \in Agents \ {a} : own'[b] = own[b]
  BY <1>1, <1>2, Zero, Updated DEF TypeOK
<1>6. /\ ackPeer' \in [Agents -> Sequence]
      /\ ackPeer'[a] = 0 /\ \A b \in Agents \ {a} : ackPeer'[b] = ackPeer[b]
  BY <1>1, <1>2, Zero, Updated DEF TypeOK
<1>7. /\ pongPeer' \in [Agents -> Sequence]
      /\ pongPeer'[a] = 0 /\ \A b \in Agents \ {a} : pongPeer'[b] = pongPeer[b]
  BY <1>1, <1>2, Zero, Updated DEF TypeOK
<1>8. /\ outcome' \in [Agents -> Outcomes]
      /\ outcome'[a] = "none" /\ \A b \in Agents \ {a} : outcome'[b] = outcome[b]
  BY <1>1, <1>2, Updated DEF TypeOK, Outcomes
<1>9. /\ quiet' \in [Agents -> BOOLEAN]
      /\ ~quiet'[a] /\ \A b \in Agents \ {a} : quiet'[b] = quiet[b]
  BY <1>1, <1>2, Zenon DEF TypeOK
<1>10. TypeOK'
  <2>1. ServiceTypeOK' BY <1>1, <1>2 DEF TypeOK, ServiceTypeOK, svars
  <2> QED BY <1>1, <1>2, <1>3, <1>4, <1>5, <1>6, <1>7, <1>8, <1>9, <2>1 DEF TypeOK
<1>11. \A b \in Agents \ {a} : Same(b)
  BY <1>2, <1>3, <1>4, <1>5, <1>6, <1>7, <1>8, <1>9 DEF Same
<1>12. Good(a)'
  <2>1. taken'[a] = 0 BY <1>1, <1>2 DEF Good, Local
  <2> QED BY <1>3, <1>4, <1>6, <1>7, <1>8, <1>9, <2>1 DEF Good, Local, Sound, UnderWay
<1> QED BY <1>2, <1>10, <1>11, <1>12, OneStep DEF Consumed, svars

\* close() and the loss of the local variables.
LEMMA FinishFacts ==
  ASSUME TypeOK, NEW a \in Agents, NEW how \in Outcomes, Finish(a, how)
  PROVE  /\ apc' \in [Agents -> {"idle", "write", "wait", "read"} \cup Client]
         /\ apc'[a] = "idle" /\ \A b \in Agents \ {a} : apc'[b] = apc[b]
         /\ value' \in [Agents -> Value] /\ \A b \in Agents \ {a} : value'[b] = value[b]
         /\ taken' \in [Agents -> 0 .. 1]
         /\ taken'[a] = 0 /\ \A b \in Agents \ {a} : taken'[b] = taken[b]
         /\ outcome' \in [Agents -> Outcomes]
         /\ outcome'[a] = how /\ \A b \in Agents \ {a} : outcome'[b] = outcome[b]
         /\ late' \in [Agents -> BOOLEAN] /\ reader' \in Agents \cup {Nobody}
<1>1. /\ apc' = [apc EXCEPT ![a] = "idle"] /\ value' = [value EXCEPT ![a] = 0]
      /\ taken' = [taken EXCEPT ![a] = 0] /\ outcome' = [outcome EXCEPT ![a] = how]
      /\ late' = [late EXCEPT ![a] = FALSE] /\ reader' = IF reader = a THEN Nobody ELSE reader
  BY DEF Finish
<1>2. /\ apc' \in [Agents -> {"idle", "write", "wait", "read"} \cup Client]
      /\ apc'[a] = "idle" /\ \A b \in Agents \ {a} : apc'[b] = apc[b]
  BY <1>1, Updated DEF TypeOK
<1>3. value' \in [Agents -> Value] /\ \A b \in Agents \ {a} : value'[b] = value[b]
  BY <1>1, Zero, Updated DEF TypeOK
<1>4. /\ taken' \in [Agents -> 0 .. 1]
      /\ taken'[a] = 0 /\ \A b \in Agents \ {a} : taken'[b] = taken[b]
  BY <1>1 DEF TypeOK
<1>5. /\ outcome' \in [Agents -> Outcomes]
      /\ outcome'[a] = how /\ \A b \in Agents \ {a} : outcome'[b] = outcome[b]
  BY <1>1, Updated DEF TypeOK
<1>6. late' \in [Agents -> BOOLEAN] BY <1>1, Zenon DEF TypeOK
<1>7. reader' \in Agents \cup {Nobody} BY <1>1 DEF TypeOK
<1> QED BY <1>2, <1>3, <1>4, <1>5, <1>6, <1>7

\* A failed run.
LEMMA FailStep ==
  ASSUME IInv, NEW a \in Agents, NEW how \in Outcomes, Fail(a, how), ServiceTypeOK',
         Consumed, UNCHANGED <<reliable, l2c, serving, request>>,
         how = "failed" \/ (how = "unexpected_result" /\ ~quiet[a])
  PROVE  IInv'
<1>1. TypeOK BY DEF IInv
<1>2. /\ Finish(a, how) /\ UNCHANGED <<quiet, stolen, runs>>
      /\ own' = [own EXCEPT ![a] = 0]
      /\ ackPeer' = [ackPeer EXCEPT ![a] = 0]
      /\ pongPeer' = [pongPeer EXCEPT ![a] = 0]
  BY DEF Fail
<1>3. /\ apc' \in [Agents -> {"idle", "write", "wait", "read"} \cup Client]
      /\ apc'[a] = "idle" /\ \A b \in Agents \ {a} : apc'[b] = apc[b]
      /\ value' \in [Agents -> Value] /\ \A b \in Agents \ {a} : value'[b] = value[b]
      /\ taken' \in [Agents -> 0 .. 1]
      /\ taken'[a] = 0 /\ \A b \in Agents \ {a} : taken'[b] = taken[b]
      /\ outcome' \in [Agents -> Outcomes]
      /\ outcome'[a] = how /\ \A b \in Agents \ {a} : outcome'[b] = outcome[b]
      /\ late' \in [Agents -> BOOLEAN] /\ reader' \in Agents \cup {Nobody}
  BY <1>1, <1>2, FinishFacts
<1>4. own' \in [Agents -> Sequence] /\ \A b \in Agents \ {a} : own'[b] = own[b]
  BY <1>1, <1>2, Zero, Updated DEF TypeOK
<1>5. ackPeer' \in [Agents -> Sequence] /\ \A b \in Agents \ {a} : ackPeer'[b] = ackPeer[b]
  BY <1>1, <1>2, Zero, Updated DEF TypeOK
<1>6. pongPeer' \in [Agents -> Sequence] /\ \A b \in Agents \ {a} : pongPeer'[b] = pongPeer[b]
  BY <1>1, <1>2, Zero, Updated DEF TypeOK
<1>7. TypeOK' BY <1>1, <1>2, <1>3, <1>4, <1>5, <1>6 DEF TypeOK
<1>8. \A b \in Agents \ {a} : Same(b) BY <1>2, <1>3, <1>4, <1>5, <1>6 DEF Same
<1>9. Good(a)' BY <1>2, <1>3 DEF Good, Local, Sound, UnderWay
<1> QED BY <1>7, <1>8, <1>9, OneStep

\* A step of a run that waits: poll() and its time limit.
LEMMA WaitStep ==
  ASSUME IInv, NEW a \in Agents, NEW line,
         \/ apc[a] \in {"wait", "read"} /\ line \in {"wait", "read"}
         \/ apc[a] \in {"clientWait", "clientRead"} /\ line \in {"clientWait", "clientRead"},
         apc' = [apc EXCEPT ![a] = line], late' \in [Agents -> BOOLEAN], reader' \in {reader, a},
         ServiceTypeOK', UNCHANGED <<reliable, l2c, c2l, serving, request>>,
         UNCHANGED <<value, own, ackPeer, pongPeer, taken, outcome, quiet, stolen, runs>>
  PROVE  IInv'
<1>1. TypeOK /\ Good(a) BY DEF IInv
<1>2. /\ apc' \in [Agents -> {"idle", "write", "wait", "read"} \cup Client]
      /\ apc'[a] = line /\ \A b \in Agents \ {a} : apc'[b] = apc[b]
  BY <1>1, Updated DEF TypeOK, Client
<1>3. TypeOK' BY <1>1, <1>2 DEF TypeOK
<1>4. \A b \in Agents \ {a} : Same(b) BY <1>2 DEF Same
<1>5. Local(a)' /\ Sound(a)' BY <1>1, <1>2 DEF Good, Local, Sound, Owned
<1>6. ASSUME UnderWay(a)' PROVE OwnTraffic(a)' /\ OneAnswer(a)'
  <2>1. OwnTraffic(a) /\ OneAnswer(a) BY <1>1, <1>2, <1>6 DEF Good, UnderWay
  <2> QED BY <2>1 DEF OwnTraffic, OneAnswer
<1> QED BY <1>3, <1>4, <1>5, <1>6, OneStep DEF Consumed, Good

-----------------------------------------------------------------------------
(* A run reads a frame                                                       *)

\* The frame is noted as the run's ACK or PONG.
LEMMA FrameFacts ==
  ASSUME TypeOK, NEW a \in Agents, ReadOk, ackPeer' = Acks(a), pongPeer' = Pongs(a)
  PROVE  /\ ackPeer' \in [Agents -> Sequence] /\ pongPeer' \in [Agents -> Sequence]
         /\ \A b \in Agents \ {a} : ackPeer'[b] = ackPeer[b] /\ pongPeer'[b] = pongPeer[b]
         /\ \/ c2l[1].type = "ACK" /\ ackPeer'[a] = c2l[1].peer /\ pongPeer'[a] = pongPeer[a]
            \/ c2l[1].type = "PONG" /\ pongPeer'[a] = c2l[1].peer /\ ackPeer'[a] = ackPeer[a]
         /\ Head(c2l) = c2l[1] /\ 1 \in DOMAIN c2l
<1>1. c2l \in Seq(Reply) /\ c2l # <<>> BY DEF TypeOK, ServiceTypeOK, ReadOk
<1>2. Head(c2l) = c2l[1] /\ c2l[1] \in Reply /\ 1 \in DOMAIN c2l BY <1>1, Popped
<1>3. c2l[1].type \in {"ACK", "PONG"} /\ c2l[1].peer \in Sequence BY <1>2 DEF Reply
<1>4. CASE c2l[1].type = "ACK"
  <2>1. ackPeer' = [ackPeer EXCEPT ![a] = c2l[1].peer] /\ pongPeer' = pongPeer
    BY <1>2, <1>4 DEF Acks, Pongs
  <2> QED BY <1>2, <1>3, <1>4, <2>1, Updated DEF TypeOK
<1>5. CASE c2l[1].type = "PONG"
  <2>1. pongPeer' = [pongPeer EXCEPT ![a] = c2l[1].peer] /\ ackPeer' = ackPeer
    BY <1>2, <1>5 DEF Acks, Pongs
  <2> QED BY <1>2, <1>3, <1>5, <2>1, Updated DEF TypeOK
<1> QED BY <1>3, <1>4, <1>5

\* A run that is alone reads a frame of its own, of a kind it has not had.
LEMMA OwnFrame ==
  ASSUME IInv, NEW a \in Agents, UnderWay(a), ReadOk, ackPeer' = Acks(a), pongPeer' = Pongs(a)
  PROVE  /\ ackPeer'[a] \in {0, own[a]} /\ pongPeer'[a] \in {0, own[a]} /\ own[a] # 0
         /\ ackPeer'[a] # 0 \/ pongPeer'[a] # 0
         /\ taken[a] = 1 => ackPeer'[a] # 0 /\ pongPeer'[a] # 0
         /\ c2l[1].type = "PONG" => c2l[1].value = (value[a] + 1) % ValueMod
<1>1. TypeOK /\ OwnTraffic(a) /\ OneAnswer(a) /\ c2l # <<>> BY DEF IInv, Good, ReadOk
<1>2. /\ \/ c2l[1].type = "ACK" /\ ackPeer'[a] = c2l[1].peer /\ pongPeer'[a] = pongPeer[a]
         \/ c2l[1].type = "PONG" /\ pongPeer'[a] = c2l[1].peer /\ ackPeer'[a] = ackPeer[a]
      /\ 1 \in DOMAIN c2l
  BY <1>1, FrameFacts
<1>3. /\ c2l[1].peer = own[a] /\ own[a] # 0
      /\ c2l[1].type = "PONG" => c2l[1].value = (value[a] + 1) % ValueMod
  BY <1>1, <1>2 DEF OwnTraffic
<1>4. /\ ackPeer[a] \in {0, own[a]} /\ pongPeer[a] = 0
      /\ ackPeer[a] # 0 => c2l[1].type = "PONG"
      /\ taken[a] = 1 => ackPeer[a] # 0
  BY <1>1, <1>2 DEF OneAnswer
<1> QED BY <1>2, <1>3, <1>4

\* What is left of the ring suits what the run has now.
LEMMA OwnRemainder ==
  ASSUME IInv, NEW a \in Agents, UnderWay(a), ReadOk, ackPeer' = Acks(a), pongPeer' = Pongs(a),
         UNCHANGED <<l2c, serving, request>>, own'[a] = own[a], value'[a] = value[a]
  PROVE  OwnTraffic(a)' /\ OneAnswer(a)'
<1>1. TypeOK /\ OwnTraffic(a) /\ OneAnswer(a) /\ c2l # <<>> /\ c2l' = Tail(c2l)
  BY DEF IInv, Good, ReadOk
<1>2. c2l \in Seq(Reply) BY <1>1 DEF TypeOK, ServiceTypeOK
<1>3. /\ \A i \in DOMAIN c2l' : \E j \in DOMAIN c2l :
            /\ c2l'[i] = c2l[j] /\ (j = 1 => c2l' = c2l /\ i = 1) /\ (j = Len(c2l) => i = Len(c2l'))
      /\ c2l' \in Seq(Reply)
  BY <1>1, ConsumedFrames DEF Consumed
<1>4. Len(c2l) \in Nat \ {0} /\ Len(c2l') = Len(c2l) - 1 BY <1>1, <1>2, Popped
<1>5. c2l' # c2l BY <1>4
<1>6. \A i \in DOMAIN c2l' : \E j \in DOMAIN c2l :
            c2l'[i] = c2l[j] /\ j # 1 /\ (j = Len(c2l) => i = Len(c2l'))
  BY <1>3, <1>5
<1>7. /\ ackPeer'[a] \in {0, own[a]} /\ pongPeer'[a] \in {0, own[a]}
      /\ ackPeer'[a] # 0 \/ pongPeer'[a] # 0
  BY OwnFrame
<1>8. /\ \/ c2l[1].type = "ACK" /\ ackPeer'[a] = c2l[1].peer /\ pongPeer'[a] = pongPeer[a]
         \/ c2l[1].type = "PONG" /\ pongPeer'[a] = c2l[1].peer /\ ackPeer'[a] = ackPeer[a]
      /\ 1 \in DOMAIN c2l
  BY <1>1, FrameFacts
<1>9. OwnTraffic(a)' BY <1>1, <1>6 DEF OwnTraffic
<1>10. \A i \in DOMAIN c2l' : c2l'[i].type # "ACK" /\ i = Len(c2l')
  BY <1>1, <1>6 DEF OneAnswer
<1>11. \A i \in DOMAIN c2l' : c2l'[i].type = "PONG"
  <2>1. ASSUME NEW i \in DOMAIN c2l' PROVE c2l'[i].type = "PONG"
    <3>1. c2l'[i] \in Reply BY <1>3, <2>1, ElementOfSeq, LenProperties
    <3>2. c2l'[i].type \in {"ACK", "PONG"} BY <3>1 DEF Reply
    <3> QED BY <1>10, <3>2
  <2> QED BY <2>1
<1>12. pongPeer[a] = 0 /\ l2c = <<>> /\ serving # 1 BY <1>1 DEF OneAnswer
<1>13. ASSUME pongPeer'[a] # 0 PROVE c2l' = <<>>
  <2>1. c2l[1].type = "PONG" BY <1>8, <1>12, <1>13
  <2>2. Len(c2l) = 1 BY <1>1, <1>8, <2>1 DEF OneAnswer
  <2> QED BY <1>3, <1>4, <2>2, EmptySeq
<1>14. ASSUME serving = 2 PROVE pongPeer'[a] = 0 /\ \A i \in DOMAIN c2l' : c2l'[i].type = "ACK"
  <2>1. \A j \in DOMAIN c2l : c2l[j].type = "ACK" BY <1>1, <1>14 DEF OneAnswer
  <2> QED BY <1>6, <1>8, <1>12, <2>1
<1>15. OneAnswer(a)'
  BY <1>7, <1>10, <1>11, <1>12, <1>13, <1>14 DEF OneAnswer
<1> QED BY <1>9, <1>15

\* os.read() of the tool.
LEMMA ReadFrameStep ==
  ASSUME IInv, NEW a \in Agents, ReadFrame(a)
  PROVE  IInv'
<1> DEFINE wrong == Head(c2l).type = "PONG" /\ Head(c2l).value # value[a] + 1
<1>1. TypeOK /\ ServiceTypeOK /\ Good(a) BY DEF IInv, TypeOK
<1>2. /\ apc[a] = "read" /\ ReadOk
      /\ UNCHANGED <<reliable, online, l2c, linuxSeq, cpu3Seq, serving, request, txFull>>
      /\ \/ wrong /\ Fail(a, "unexpected_result")
         \/ /\ ~wrong /\ ackPeer' = Acks(a) /\ pongPeer' = Pongs(a)
            /\ IF ackPeer'[a] # 0 /\ pongPeer'[a] # 0
               THEN Finish(a, "ok")
               ELSE /\ apc' = [apc EXCEPT ![a] = "wait"]
                    /\ UNCHANGED <<value, taken, late, outcome, reader>>
            /\ UNCHANGED <<own, quiet, stolen, runs>>
  BY DEF ReadFrame
<1>3. Consumed BY <1>2 DEF Consumed, ReadOk
<1>4. ServiceTypeOK'
  <2>1. c2l' \in Seq(Reply) /\ Len(c2l') <= Capacity BY <1>1, <1>3, ConsumedFrames
  <2> QED BY <1>1, <1>2, <2>1 DEF ServiceTypeOK
<1>5. quiet[a] => UnderWay(a) BY <1>2 DEF UnderWay
<1>6. ASSUME wrong, quiet[a] PROVE FALSE
  <2>1. OwnTraffic(a) /\ value[a] < ValueMod - 1 /\ value[a] \in Value
    BY <1>1, <1>2, <1>5, <1>6 DEF Good, Local, TypeOK
  <2>2. Head(c2l) = c2l[1] /\ 1 \in DOMAIN c2l
    BY <1>1, <1>2, Popped DEF ReadOk, ServiceTypeOK
  <2>3. c2l[1].value = (value[a] + 1) % ValueMod BY <1>6, <2>1, <2>2 DEF OwnTraffic
  <2> QED BY <1>6, <2>1, <2>2, <2>3, Successor
<1>7. CASE wrong /\ Fail(a, "unexpected_result")
  BY <1>2, <1>3, <1>4, <1>6, <1>7, FailStep DEF Outcomes
<1>8. ASSUME ackPeer' = Acks(a), pongPeer' = Pongs(a), UNCHANGED <<own, quiet, stolen, runs>>,
             IF ackPeer'[a] # 0 /\ pongPeer'[a] # 0
             THEN Finish(a, "ok")
             ELSE apc' = [apc EXCEPT ![a] = "wait"] /\ UNCHANGED <<value, taken, late, outcome, reader>>
      PROVE  IInv'
  <2>1. /\ ackPeer' \in [Agents -> Sequence] /\ pongPeer' \in [Agents -> Sequence]
        /\ \A b \in Agents \ {a} : ackPeer'[b] = ackPeer[b] /\ pongPeer'[b] = pongPeer[b]
    BY <1>1, <1>2, <1>8, FrameFacts
  <2>2. CASE ackPeer'[a] # 0 /\ pongPeer'[a] # 0 /\ Finish(a, "ok")
    <3>1. /\ apc' \in [Agents -> {"idle", "write", "wait", "read"} \cup Client]
          /\ apc'[a] = "idle" /\ \A b \in Agents \ {a} : apc'[b] = apc[b]
          /\ value' \in [Agents -> Value] /\ \A b \in Agents \ {a} : value'[b] = value[b]
          /\ taken' \in [Agents -> 0 .. 1]
          /\ taken'[a] = 0 /\ \A b \in Agents \ {a} : taken'[b] = taken[b]
          /\ outcome' \in [Agents -> Outcomes]
          /\ outcome'[a] = "ok" /\ \A b \in Agents \ {a} : outcome'[b] = outcome[b]
          /\ late' \in [Agents -> BOOLEAN] /\ reader' \in Agents \cup {Nobody}
      BY <1>1, <2>2, FinishFacts DEF Outcomes
    <3>2. TypeOK' BY <1>1, <1>4, <1>8, <2>1, <3>1 DEF TypeOK
    <3>3. \A b \in Agents \ {a} : Same(b) BY <1>8, <2>1, <3>1 DEF Same
    <3>4. quiet[a] => ackPeer'[a] = own[a] /\ pongPeer'[a] = own[a]
      BY <1>2, <1>5, <1>8, <2>2, OwnFrame
    <3>5. Good(a)' BY <1>8, <3>1, <3>4 DEF Good, Local, Sound, Owned, UnderWay
    <3> QED BY <1>2, <1>3, <3>2, <3>3, <3>5, OneStep
  <2>3. CASE apc' = [apc EXCEPT ![a] = "wait"] /\ UNCHANGED <<value, taken, late, outcome, reader>>
    <3>1. /\ apc' \in [Agents -> {"idle", "write", "wait", "read"} \cup Client]
          /\ apc'[a] = "wait" /\ \A b \in Agents \ {a} : apc'[b] = apc[b]
      BY <1>1, <2>3, Updated DEF TypeOK
    <3>2. TypeOK' BY <1>1, <1>4, <1>8, <2>1, <2>3, <3>1 DEF TypeOK
    <3>3. \A b \in Agents \ {a} : Same(b) BY <1>8, <2>1, <2>3, <3>1 DEF Same
    <3>4. Local(a)' /\ Sound(a)' BY <1>1, <1>2, <1>8, <2>3, <3>1 DEF Good, Local, Sound
    <3>5. ASSUME UnderWay(a)' PROVE OwnTraffic(a)' /\ OneAnswer(a)'
      <4>1. UnderWay(a) BY <1>5, <1>8, <3>5 DEF UnderWay
      <4> QED BY <1>2, <1>8, <2>3, <4>1, OwnRemainder
    <3> QED BY <1>2, <1>3, <3>2, <3>3, <3>4, <3>5, OneStep DEF Good
  <2> QED BY <1>8, <2>2, <2>3
<1> QED BY <1>2, <1>7, <1>8

\* read() of the client.
LEMMA ClientReadStep ==
  ASSUME IInv, NEW a \in Agents, ClientRead(a)
  PROVE  IInv'
<1>1. TypeOK /\ ServiceTypeOK /\ Good(a) BY DEF IInv, TypeOK
<1>2. /\ apc[a] = "clientRead" /\ ReadOk
      /\ UNCHANGED <<reliable, online, l2c, linuxSeq, cpu3Seq, serving, request, txFull>>
      /\ ackPeer' = Acks(a) /\ pongPeer' = Pongs(a) /\ UNCHANGED <<own, quiet, stolen, runs>>
      /\ IF taken[a] + 1 = Len(Replies)
         THEN Finish(a, "exit_0")
         ELSE /\ apc' = [apc EXCEPT ![a] = "clientWait"]
              /\ taken' = [taken EXCEPT ![a] = @ + 1]
              /\ UNCHANGED <<value, late, outcome, reader>>
  BY DEF ClientRead
<1>3. Consumed BY <1>2 DEF Consumed, ReadOk
<1>4. ServiceTypeOK'
  <2>1. c2l' \in Seq(Reply) /\ Len(c2l') <= Capacity BY <1>1, <1>3, ConsumedFrames
  <2> QED BY <1>1, <1>2, <2>1 DEF ServiceTypeOK
<1>5. quiet[a] => UnderWay(a) BY <1>2 DEF UnderWay
<1>6. /\ ackPeer' \in [Agents -> Sequence] /\ pongPeer' \in [Agents -> Sequence]
      /\ \A b \in Agents \ {a} : ackPeer'[b] = ackPeer[b] /\ pongPeer'[b] = pongPeer[b]
  BY <1>1, <1>2, FrameFacts
<1>7. Len(Replies) = 2 BY ReplyPair DEF IInv
<1>8. taken \in [Agents -> 0 .. 1] /\ taken[a] \in 0 .. 1 BY <1>1 DEF TypeOK
<1>9. CASE taken[a] = 1
  <2>1. Finish(a, "exit_0") BY <1>2, <1>7, <1>9
  <2>2. /\ apc' \in [Agents -> {"idle", "write", "wait", "read"} \cup Client]
        /\ apc'[a] = "idle" /\ \A b \in Agents \ {a} : apc'[b] = apc[b]
        /\ value' \in [Agents -> Value] /\ \A b \in Agents \ {a} : value'[b] = value[b]
        /\ taken' \in [Agents -> 0 .. 1]
        /\ taken'[a] = 0 /\ \A b \in Agents \ {a} : taken'[b] = taken[b]
        /\ outcome' \in [Agents -> Outcomes]
        /\ outcome'[a] = "exit_0" /\ \A b \in Agents \ {a} : outcome'[b] = outcome[b]
        /\ late' \in [Agents -> BOOLEAN] /\ reader' \in Agents \cup {Nobody}
    BY <1>1, <2>1, FinishFacts DEF Outcomes
  <2>3. TypeOK' BY <1>1, <1>2, <1>4, <1>6, <2>2 DEF TypeOK
  <2>4. \A b \in Agents \ {a} : Same(b) BY <1>2, <1>6, <2>2 DEF Same
  <2>5. quiet[a] => ackPeer'[a] = own[a] /\ pongPeer'[a] = own[a]
    BY <1>2, <1>5, <1>9, OwnFrame
  <2>6. Good(a)' BY <1>2, <2>2, <2>5 DEF Good, Local, Sound, Owned, UnderWay
  <2> QED BY <1>2, <1>3, <2>3, <2>4, <2>6, OneStep
<1>10. CASE taken[a] = 0
  <2>1. /\ apc' = [apc EXCEPT ![a] = "clientWait"] /\ UNCHANGED <<value, late, outcome, reader>>
        /\ taken' = [taken EXCEPT ![a] = 1]
    BY <1>2, <1>7, <1>10
  <2>2. /\ apc' \in [Agents -> {"idle", "write", "wait", "read"} \cup Client]
        /\ apc'[a] = "clientWait" /\ \A b \in Agents \ {a} : apc'[b] = apc[b]
    BY <1>1, <2>1, Updated DEF TypeOK, Client
  <2>3. /\ taken' \in [Agents -> 0 .. 1] /\ \A b \in Agents \ {a} : taken'[b] = taken[b]
    BY <1>8, <2>1
  <2>4. TypeOK' BY <1>1, <1>2, <1>4, <1>6, <2>1, <2>2, <2>3 DEF TypeOK
  <2>5. \A b \in Agents \ {a} : Same(b) BY <1>2, <1>6, <2>1, <2>2, <2>3 DEF Same
  <2>6. Local(a)' /\ Sound(a)' BY <1>1, <1>2, <2>1, <2>2 DEF Good, Local, Sound
  <2>7. ASSUME UnderWay(a)' PROVE OwnTraffic(a)' /\ OneAnswer(a)'
    <3>1. UnderWay(a) BY <1>2, <1>5, <2>7 DEF UnderWay
    <3> QED BY <1>2, <2>1, <3>1, OwnRemainder
  <2> QED BY <1>2, <1>3, <2>4, <2>5, <2>6, <2>7, OneStep DEF Good
<1> QED BY <1>8, <1>9, <1>10

-----------------------------------------------------------------------------
(* A run writes its request                                                  *)

\* What a write does to the rings and to everybody's claim of being alone.
LEMMA RequestFacts ==
  ASSUME IInv, NEW a \in Agents, Requests(a)
  PROVE  /\ ServiceTypeOK' /\ UNCHANGED <<reliable, c2l, serving, request, ackPeer, pongPeer, stolen, runs>>
         /\ own' \in [Agents -> Sequence] /\ own'[a] # 0
         /\ \A b \in Agents \ {a} : own'[b] = own[b]
         /\ quiet' \in [Agents -> BOOLEAN]
         /\ quiet'[a] => RingsQuiet
         /\ \A b \in Agents \ {a} : quiet'[b] <=> quiet[b] /\ apc[b] = "idle"
         /\ RingsQuiet => /\ Len(l2c') = 1 /\ DOMAIN l2c' = {1}
                          /\ l2c'[1].seq = own'[a] /\ l2c'[1].value = value[a]
<1> DEFINE e == [seq |-> linuxSeq', value |-> value[a]]
<1>1. TypeOK /\ ServiceTypeOK BY DEF IInv, TypeOK
<1>2. /\ ~Full(l2c) /\ linuxSeq' = next_sequence(linuxSeq) /\ l2c' = Append(l2c, e)
      /\ own' = [own EXCEPT ![a] = linuxSeq']
      /\ quiet' = [b \in Agents |-> IF b = a THEN RingsQuiet ELSE quiet[b] /\ apc[b] = "idle"]
      /\ UNCHANGED <<reliable, online, c2l, cpu3Seq, serving, request, txFull, ackPeer, pongPeer,
                     stolen, runs>>
  BY DEF Requests, WriteOk
<1>3. linuxSeq' \in Sequence /\ linuxSeq' # 0 BY <1>1, <1>2, NextSequence DEF ServiceTypeOK
<1>4. e \in Request /\ e.seq = linuxSeq' /\ e.value = value[a] BY <1>1, <1>3 DEF Request, TypeOK
<1>5. l2c \in Seq(Request) /\ Len(l2c) <= Capacity /\ Capacity \in Nat /\ Len(l2c) # Capacity
  BY <1>1, <1>2, ServiceAssumption DEF ServiceTypeOK, Full
<1> HIDE DEF e
<1>6. /\ l2c' \in Seq(Request) /\ Len(l2c) \in Nat /\ Len(l2c') = Len(l2c) + 1
      /\ DOMAIN l2c' = 1 .. Len(l2c) + 1 /\ l2c'[Len(l2c) + 1] = e
  BY <1>2, <1>4, <1>5, Pushed
<1>7. Len(l2c') <= Capacity BY <1>5, <1>6
<1>8. ServiceTypeOK' BY <1>1, <1>2, <1>3, <1>6, <1>7 DEF ServiceTypeOK
<1>9. /\ own' \in [Agents -> Sequence] /\ own'[a] = linuxSeq'
      /\ \A b \in Agents \ {a} : own'[b] = own[b]
  BY <1>1, <1>2, <1>3, Updated DEF TypeOK
<1>10. quiet' \in [Agents -> BOOLEAN]
  <2>1. ASSUME NEW b \in Agents
        PROVE  (IF b = a THEN RingsQuiet ELSE quiet[b] /\ apc[b] = "idle") \in BOOLEAN
    BY <1>1, Zenon DEF TypeOK, RingsQuiet
  <2> QED BY <1>2, <2>1, Zenon
<1>11. quiet'[a] => RingsQuiet BY <1>2, Zenon
<1>12. ASSUME NEW b \in Agents \ {a} PROVE quiet'[b] <=> quiet[b] /\ apc[b] = "idle"
  BY <1>2, Zenon
<1>13. ASSUME RingsQuiet
       PROVE  Len(l2c') = 1 /\ DOMAIN l2c' = {1} /\ l2c'[1].seq = own'[a] /\ l2c'[1].value = value[a]
  <2>1. Len(l2c) = 0 BY <1>13, EmptySeq DEF RingsQuiet
  <2> QED BY <1>4, <1>6, <1>9, <2>1
<1> QED BY <1>2, <1>3, <1>8, <1>9, <1>10, <1>11, <1>12, <1>13

\* Whoever else is under way is not alone any more, and the writer is alone only if
\* nothing was on its way.
LEMMA RequestStep ==
  ASSUME IInv, NEW a \in Agents, Requests(a), apc[a] \in {"write", "clientWrite"}, NEW line,
         \/ apc[a] = "write" /\ line = "wait"
         \/ apc[a] = "clientWrite" /\ line = "clientWait",
         \/ apc[a] = "clientWrite" /\ Finish(a, "sent")
         \/ apc' = [apc EXCEPT ![a] = line] /\ UNCHANGED <<value, taken, late, outcome, reader>>
  PROVE  IInv'
<1>1. TypeOK /\ Good(a) BY DEF IInv
<1>2. /\ ServiceTypeOK' /\ UNCHANGED <<reliable, c2l, serving, request, ackPeer, pongPeer, stolen, runs>>
      /\ own' \in [Agents -> Sequence] /\ own'[a] # 0
      /\ \A b \in Agents \ {a} : own'[b] = own[b]
      /\ quiet' \in [Agents -> BOOLEAN]
      /\ quiet'[a] => RingsQuiet
      /\ \A b \in Agents \ {a} : quiet'[b] <=> quiet[b] /\ apc[b] = "idle"
      /\ RingsQuiet => /\ Len(l2c') = 1 /\ DOMAIN l2c' = {1}
                       /\ l2c'[1].seq = own'[a] /\ l2c'[1].value = value[a]
  BY RequestFacts
<1>3. ASSUME \A b \in Agents \ {a} : /\ apc'[b] = apc[b] /\ value'[b] = value[b]
                                     /\ taken'[b] = taken[b] /\ outcome'[b] = outcome[b]
      PROVE  \A b \in Agents \ {a} : Good(b)'
  <2> SUFFICES ASSUME NEW b \in Agents \ {a} PROVE Good(b)'
    OBVIOUS
  <2>1. Good(b) BY DEF IInv
  <2>2. quiet'[b] => quiet[b] /\ apc[b] = "idle" BY <1>2
  <2>3. Local(b)' BY <1>2, <1>3, <2>1, <2>2 DEF Good, Local
  <2>4. Sound(b)' BY <1>2, <1>3, <2>1, <2>2 DEF Good, Sound, Owned
  <2>5. ~UnderWay(b)' BY <1>3, <2>2 DEF UnderWay
  <2> QED BY <2>3, <2>4, <2>5 DEF Good
<1>4. CASE apc[a] = "clientWrite" /\ Finish(a, "sent")
  <2>1. /\ apc' \in [Agents -> {"idle", "write", "wait", "read"} \cup Client]
        /\ apc'[a] = "idle" /\ \A b \in Agents \ {a} : apc'[b] = apc[b]
        /\ value' \in [Agents -> Value] /\ \A b \in Agents \ {a} : value'[b] = value[b]
        /\ taken' \in [Agents -> 0 .. 1]
        /\ taken'[a] = 0 /\ \A b \in Agents \ {a} : taken'[b] = taken[b]
        /\ outcome' \in [Agents -> Outcomes]
        /\ outcome'[a] = "sent" /\ \A b \in Agents \ {a} : outcome'[b] = outcome[b]
        /\ late' \in [Agents -> BOOLEAN] /\ reader' \in Agents \cup {Nobody}
    BY <1>1, <1>4, FinishFacts DEF Outcomes
  <2>2. TypeOK' BY <1>1, <1>2, <2>1 DEF TypeOK
  <2>3. Good(a)' BY <2>1 DEF Good, Local, Sound, UnderWay
  <2>4. \A b \in Agents \ {a} : Good(b)' BY <1>3, <2>1
  <2> QED BY <1>2, <2>2, <2>3, <2>4 DEF IInv
<1>5. CASE apc' = [apc EXCEPT ![a] = line] /\ UNCHANGED <<value, taken, late, outcome, reader>>
  <2>1. /\ apc' \in [Agents -> {"idle", "write", "wait", "read"} \cup Client]
        /\ apc'[a] = line /\ \A b \in Agents \ {a} : apc'[b] = apc[b]
    BY <1>1, <1>5, Updated DEF TypeOK, Client
  <2>2. TypeOK' BY <1>1, <1>2, <1>5, <2>1 DEF TypeOK
  <2>3. taken[a] = 0 /\ ackPeer[a] = 0 /\ pongPeer[a] = 0 /\ outcome[a] = "none"
    BY <1>1 DEF Good, Local
  <2>4. Local(a)' BY <1>1, <1>5, <2>1, <2>3 DEF Good, Local
  <2>5. Sound(a)' BY <1>5, <2>3 DEF Sound
  <2>6. ASSUME UnderWay(a)' PROVE OwnTraffic(a)' /\ OneAnswer(a)'
    <3>1. RingsQuiet BY <1>2, <2>6 DEF UnderWay
    <3>2. serving' = 0 /\ c2l' = <<>> /\ DOMAIN c2l' = {} BY <1>2, <3>1, EmptySeq DEF RingsQuiet
    <3>3. /\ Len(l2c') <= 1 /\ own'[a] # 0
          /\ \A i \in DOMAIN l2c' : l2c'[i].seq = own'[a] /\ l2c'[i].value = value'[a]
      <4>1. value' = value BY <1>5
      <4>2. /\ Len(l2c') = 1 /\ DOMAIN l2c' = {1} /\ own'[a] # 0
            /\ l2c'[1].seq = own'[a] /\ l2c'[1].value = value[a]
        BY <1>2, <3>1
      <4> QED BY <4>1, <4>2
    <3>4. OwnTraffic(a)' BY <3>2, <3>3 DEF OwnTraffic
    <3>5. taken'[a] = 0 /\ ackPeer'[a] = 0 /\ pongPeer'[a] = 0 BY <1>2, <1>5, <2>3
    <3>6. OneAnswer(a)' BY <3>2, <3>5 DEF OneAnswer
    <3> QED BY <3>4, <3>6
  <2>7. \A b \in Agents \ {a} : Good(b)' BY <1>3, <1>5, <2>1
  <2> QED BY <1>2, <2>2, <2>4, <2>5, <2>6, <2>7 DEF IInv, Good
<1> QED BY <1>4, <1>5

-----------------------------------------------------------------------------
(* Everything a process does                                                 *)

LEMMA AgentStep ==
  ASSUME IInv, NEW a \in Agents,
         Start(a) \/ execute_zephyr_increment(a) \/ ClientStart(a) \/ mailmsg_user_client(a) \/ Deadline(a)
  PROVE  IInv'
<1>1. TypeOK /\ ServiceTypeOK BY DEF IInv, TypeOK
<1>2. CASE Start(a)
  <2>1. PICK v \in Inputs : parse_decision(v) /\ Begin(a, v, "write") BY <1>2 DEF Start
  <2>2. v \in Value /\ v < ValueMod - 1
    BY <2>1, AgentAssumption, ServiceAssumption DEF parse_decision, Value
  <2> QED BY <2>1, <2>2, BeginStep
<1>3. CASE ClientStart(a)
  <2>1. PICK v \in ClientInputs : Begin(a, v, "clientWrite") BY <1>3 DEF ClientStart
  <2>2. v \in Value BY <2>1, AgentAssumption
  <2> QED BY <2>1, <2>2, BeginStep
<1>4. CASE WriteRequest(a)
  BY <1>4, RequestStep DEF WriteRequest
<1>5. CASE ClientWrite(a)
  BY <1>5, RequestStep DEF ClientWrite
<1>6. CASE WriteNoSpace(a) \/ ClientWriteFails(a)
  <2>1. /\ UNCHANGED <<reliable, online, l2c, c2l, cpu3Seq, serving, request, txFull>> /\ Fail(a, "failed")
        /\ linuxSeq' = linuxSeq \/ linuxSeq' = next_sequence(linuxSeq)
    BY <1>6 DEF WriteNoSpace, ClientWriteFails, WriteFull
  <2>2. linuxSeq' \in Sequence BY <1>1, <2>1, NextSequence DEF ServiceTypeOK
  <2>3. ServiceTypeOK' BY <1>1, <2>1, <2>2 DEF ServiceTypeOK
  <2> QED BY <2>1, <2>3, FailStep DEF Outcomes, Consumed
<1>7. CASE WriteError(a) \/ Timeout(a) \/ PollError(a) \/ ReadError(a) \/ ClientPollFails(a)
           \/ ClientReadFails(a)
  <2>1. UNCHANGED svars /\ Fail(a, "failed")
    BY <1>7 DEF WriteError, Timeout, PollError, ReadError, ClientPollFails, ClientReadFails
  <2>2. ServiceTypeOK' BY <1>1, <2>1 DEF ServiceTypeOK, svars
  <2> QED BY <2>1, <2>2, FailStep DEF Outcomes, Consumed, svars
<1>8. CASE ReadFrame(a) BY <1>8, ReadFrameStep
<1>9. CASE ClientRead(a) BY <1>9, ClientReadStep
<1>10. ASSUME UNCHANGED <<reliable, online, l2c, c2l, linuxSeq, cpu3Seq, serving, request, txFull>>,
              UNCHANGED <<value, own, ackPeer, pongPeer, taken, outcome, quiet, stolen, runs>>
       PROVE  /\ ServiceTypeOK' /\ UNCHANGED <<reliable, l2c, c2l, serving, request>>
              /\ apc' = apc => apc' = [apc EXCEPT ![a] = apc[a]]
  BY <1>1, <1>10 DEF ServiceTypeOK, TypeOK
<1>11. late \in [Agents -> BOOLEAN] /\ [late EXCEPT ![a] = FALSE] \in [Agents -> BOOLEAN]
       /\ [late EXCEPT ![a] = TRUE] \in [Agents -> BOOLEAN]
  BY <1>1, Zenon DEF TypeOK
<1>12. CASE Deadline(a)
  <2>1. /\ apc[a] \in {"wait", "clientWait"} /\ late' = [late EXCEPT ![a] = TRUE]
        /\ apc' = apc /\ reader' = reader
        /\ UNCHANGED <<reliable, online, l2c, c2l, linuxSeq, cpu3Seq, serving, request, txFull>>
        /\ UNCHANGED <<value, own, ackPeer, pongPeer, taken, outcome, quiet, stolen, runs>>
    BY <1>12 DEF Deadline, svars
  <2> QED BY <1>10, <1>11, <2>1, WaitStep
<1>13. CASE PollWaits(a) \/ ClientPollWaits(a)
  <2>1. /\ apc[a] \in {"wait", "clientWait"} /\ late' = late /\ apc' = apc /\ reader' = a
        /\ UNCHANGED <<reliable, online, l2c, c2l, linuxSeq, cpu3Seq, serving, request, txFull>>
        /\ UNCHANGED <<value, own, ackPeer, pongPeer, taken, outcome, quiet, stolen, runs>>
    BY <1>13 DEF PollWaits, ClientPollWaits, svars, run
  <2> QED BY <1>10, <1>11, <2>1, WaitStep
<1>14. CASE PollFrame(a)
  <2>1. /\ apc[a] = "wait" /\ late' = late /\ apc' = [apc EXCEPT ![a] = "read"] /\ reader' = a
        /\ UNCHANGED <<reliable, online, l2c, c2l, linuxSeq, cpu3Seq, serving, request, txFull>>
        /\ UNCHANGED <<value, own, ackPeer, pongPeer, taken, outcome, quiet, stolen, runs>>
    BY <1>14 DEF PollFrame, svars
  <2> QED BY <1>10, <1>11, <2>1, WaitStep
<1>15. CASE ClientPollFrame(a)
  <2>1. /\ apc[a] = "clientWait" /\ late' = [late EXCEPT ![a] = FALSE]
        /\ apc' = [apc EXCEPT ![a] = "clientRead"] /\ reader' = a
        /\ UNCHANGED <<reliable, online, l2c, c2l, linuxSeq, cpu3Seq, serving, request, txFull>>
        /\ UNCHANGED <<value, own, ackPeer, pongPeer, taken, outcome, quiet, stolen, runs>>
    BY <1>15 DEF ClientPollFrame, svars
  <2> QED BY <1>10, <1>11, <2>1, WaitStep
<1>16. CASE ReadAgain(a)
  <2>1. /\ apc[a] = "read" /\ late' = late /\ apc' = [apc EXCEPT ![a] = "wait"] /\ reader' = reader
        /\ UNCHANGED <<reliable, online, l2c, c2l, linuxSeq, cpu3Seq, serving, request, txFull>>
        /\ UNCHANGED <<value, own, ackPeer, pongPeer, taken, outcome, quiet, stolen, runs>>
    BY <1>16 DEF ReadAgain, ReadEmpty
  <2> QED BY <1>10, <1>11, <2>1, WaitStep
<1> QED BY <1>2, <1>3, <1>4, <1>5, <1>6, <1>7, <1>8, <1>9, <1>12, <1>13, <1>14, <1>15, <1>16
        DEF execute_zephyr_increment, mailmsg_user_client

-----------------------------------------------------------------------------
(* CPU3 and the rest of the system                                           *)

\* A step that changes no process: only what is on its way may differ.
LEMMA SystemStep ==
  ASSUME IInv, ServiceTypeOK', reliable' = reliable, UNCHANGED avars,
         \A b \in Agents : OwnTraffic(b) /\ OneAnswer(b) => OwnTraffic(b)' /\ OneAnswer(b)'
  PROVE  IInv'
<1>1. TypeOK BY DEF IInv
<1>2. UNCHANGED <<apc, value, own, ackPeer, pongPeer, taken, late, outcome, reader, quiet, stolen, runs>>
  BY DEF avars, run
<1>3. TypeOK' BY <1>1, <1>2 DEF TypeOK
<1>4. ASSUME NEW b \in Agents PROVE Good(b)'
  <2>1. Good(b) BY DEF IInv
  <2>2. Local(b)' /\ Sound(b)' BY <1>2, <2>1 DEF Good, Local, Sound, Owned
  <2>3. UnderWay(b)' => UnderWay(b) BY <1>2 DEF UnderWay
  <2> QED BY <2>1, <2>2, <2>3 DEF Good
<1> QED BY <1>3, <1>4 DEF IInv

LEMMA TakeStep ==
  ASSUME IInv, ServiceTake, UNCHANGED avars
  PROVE  IInv'
<1> DEFINE d == Tail(l2c)
<1>1. ServiceTypeOK BY DEF IInv, TypeOK
<1>2. /\ serving = 0 /\ serving' = 1 /\ l2c # <<>> /\ request' = Head(l2c) /\ l2c' = d
      /\ UNCHANGED <<reliable, online, c2l, linuxSeq, cpu3Seq, txFull>>
  BY DEF ServiceTake
<1>3. /\ d \in Seq(Request) /\ Head(l2c) \in Request /\ Head(l2c) = l2c[1] /\ 1 \in DOMAIN l2c
      /\ Len(l2c) \in Nat \ {0} /\ Len(d) = Len(l2c) - 1
  BY <1>1, <1>2, Popped DEF ServiceTypeOK
<1> HIDE DEF d
<1>4. ServiceTypeOK'
  <2>1. Len(d) <= Capacity BY <1>1, <1>3, ServiceAssumption DEF ServiceTypeOK
  <2> QED BY <1>1, <1>2, <1>3, <2>1 DEF ServiceTypeOK
<1>5. ASSUME NEW b \in Agents, OwnTraffic(b), OneAnswer(b) PROVE OwnTraffic(b)' /\ OneAnswer(b)'
  <2>1. UNCHANGED <<own, value, ackPeer, pongPeer, taken>> BY DEF avars, run
  <2>2. Len(l2c) <= 1 BY <1>5 DEF OwnTraffic
  <2>3. Len(d) = 0 BY <1>3, <2>2
  <2>4. d = <<>> /\ DOMAIN d = {} BY <1>3, <2>3, EmptySeq
  <2>5. request'.seq = own[b] /\ request'.value = value[b] BY <1>2, <1>3, <1>5 DEF OwnTraffic
  <2>6. OwnTraffic(b)' BY <1>2, <1>5, <2>1, <2>3, <2>4, <2>5 DEF OwnTraffic
  <2>7. c2l = <<>> /\ ackPeer[b] = 0 /\ pongPeer[b] = 0 BY <1>2, <1>5 DEF OneAnswer
  <2>8. OneAnswer(b)' BY <1>2, <1>5, <2>1, <2>4, <2>7 DEF OneAnswer
  <2> QED BY <2>6, <2>8
<1> QED BY <1>2, <1>4, <1>5, SystemStep

\* The reply that is being sent.
Sent == [seq |-> cpu3Seq', type |-> Replies[serving],
         peer |-> request.seq, value |-> ReplyValue(Replies[serving])]

LEMMA ReplyStep ==
  ASSUME IInv, ServiceReply, UNCHANGED avars
  PROVE  IInv'
<1>1. TypeOK /\ ServiceTypeOK /\ reliable = TRUE BY DEF IInv, TypeOK
<1>2. Len(Replies) = 2 /\ Replies[1] = "ACK" /\ Replies[2] = "PONG" BY <1>1, ReplyPair
<1>3. serving \in {1, 2} /\ request \in Request /\ cpu3Seq' \in Sequence
  BY <1>1, NextSequence DEF ServiceReply, SendReply, ServiceTypeOK
<1>4. request.value \in Value /\ request.seq \in Sequence BY <1>3 DEF Request
<1>5. /\ Sent.type = IF serving = 1 THEN "ACK" ELSE "PONG"
      /\ Sent.peer = request.seq
      /\ serving = 2 => Sent.value = (request.value + 1) % ValueMod
  BY <1>2, <1>3 DEF Sent, ReplyValue
<1>6. Sent \in Reply
  <2>1. ReplyValue(Replies[serving]) \in Value BY <1>4, Successor, Zero DEF ReplyValue
  <2> QED BY <1>2, <1>3, <1>4, <2>1 DEF Sent, Reply
<1>7. /\ serving = 1 => serving' = 2 /\ request' = request
      /\ serving = 2 => serving' = 0 /\ request' = NoRequest
      /\ UNCHANGED <<reliable, online, l2c, linuxSeq>>
  BY <1>2, <1>3 DEF ServiceReply
<1>8. \/ Full(c2l) /\ c2l' = c2l /\ txFull' = txFull + 1
      \/ ~Full(c2l) /\ c2l' = Append(c2l, Sent) /\ txFull' = txFull
  BY DEF ServiceReply, SendReply, Sent
<1>9. c2l \in Seq(Reply) /\ Len(c2l) <= Capacity /\ Capacity \in Nat /\ Len(c2l) \in Nat
  BY <1>1, ServiceAssumption, LenProperties DEF ServiceTypeOK
<1>10. /\ c2l' \in Seq(Reply) /\ Len(c2l') <= Capacity
       /\ \A i \in DOMAIN c2l' : \/ i \in DOMAIN c2l /\ c2l'[i] = c2l[i] /\ c2l' = c2l
                                 \/ i \in DOMAIN c2l /\ c2l'[i] = c2l[i] /\ i < Len(c2l')
                                 \/ c2l'[i] = Sent /\ i = Len(c2l) + 1 /\ i = Len(c2l')
  <2>1. CASE c2l' = c2l BY <1>9, <2>1
  <2>2. CASE ~Full(c2l) /\ c2l' = Append(c2l, Sent) /\ txFull' = txFull
    <3>1. Len(c2l) # Capacity BY <2>2 DEF Full
    <3>2. /\ c2l' \in Seq(Reply) /\ Len(c2l') = Len(c2l) + 1 /\ DOMAIN c2l = 1 .. Len(c2l)
          /\ DOMAIN c2l' = 1 .. Len(c2l) + 1 /\ c2l'[Len(c2l) + 1] = Sent
          /\ \A i \in DOMAIN c2l : c2l'[i] = c2l[i]
      BY <1>6, <1>9, <2>2, Pushed
    <3>3. Len(c2l') <= Capacity
      <4>1. Len(c2l) \in Nat /\ Capacity \in Nat /\ Len(c2l) <= Capacity BY <1>9
      <4>2. Len(c2l') = Len(c2l) + 1 BY <3>2
      <4> QED BY <3>1, <4>1, <4>2
    <3>4. \A i \in DOMAIN c2l' : \/ i \in DOMAIN c2l /\ c2l'[i] = c2l[i] /\ i < Len(c2l')
                                 \/ c2l'[i] = Sent /\ i = Len(c2l) + 1 /\ i = Len(c2l')
      BY <1>9, <3>2
    <3> QED BY <2>2, <3>2, <3>3, <3>4
  <2> QED BY <1>8, <2>1, <2>2
<1>11. ServiceTypeOK'
  <2>1. serving' \in 0 .. 2 BY <1>3, <1>7
  <2>2. txFull' \in Nat BY <1>1, <1>8 DEF ServiceTypeOK
  <2>3. request' \in Request
    BY <1>3, <1>7, Zero DEF NoRequest, Request
  <2> QED BY <1>1, <1>3, <1>7, <1>10, <2>1, <2>2, <2>3 DEF ServiceTypeOK
<1>12. ASSUME NEW b \in Agents, OwnTraffic(b), OneAnswer(b) PROVE OwnTraffic(b)' /\ OneAnswer(b)'
  <2>1. UNCHANGED <<own, value, ackPeer, pongPeer, taken>> BY DEF avars, run
  <2>2. request.seq = own[b] /\ request.value = value[b] /\ l2c = <<>>
    BY <1>3, <1>12 DEF OwnTraffic, OneAnswer
  <2>3. \A i \in DOMAIN c2l' : /\ c2l'[i].peer = own[b]
                               /\ c2l'[i].type = "PONG" => c2l'[i].value = (value[b] + 1) % ValueMod
    BY <1>3, <1>5, <1>10, <1>12, <2>2 DEF OwnTraffic
  <2>4. OwnTraffic(b)'
    BY <1>3, <1>7, <1>12, <2>1, <2>2, <2>3 DEF OwnTraffic
  <2>5. CASE serving = 1
    <3>1. c2l = <<>> /\ ackPeer[b] = 0 /\ pongPeer[b] = 0 /\ Len(c2l) = 0 /\ DOMAIN c2l = {}
      BY <1>12, <2>5, EmptySeq DEF OneAnswer
    <3>2. \A i \in DOMAIN c2l' : c2l'[i].type = "ACK" /\ i = 1 BY <1>5, <1>10, <2>5, <3>1
    <3> QED BY <1>7, <1>12, <2>1, <2>2, <2>4, <2>5, <3>1, <3>2 DEF OneAnswer
  <2>6. CASE serving = 2
    <3>1. pongPeer[b] = 0 /\ \A i \in DOMAIN c2l : c2l[i].type = "ACK" /\ i = 1
      BY <1>12, <2>6 DEF OneAnswer
    <3>2. ackPeer[b] # 0 => \A i \in DOMAIN c2l : FALSE
      BY <1>12, <3>1 DEF OneAnswer
    <3>3. \A i \in DOMAIN c2l' : IF c2l'[i].type = "ACK" THEN i = 1 ELSE i = Len(c2l')
      BY <1>5, <1>10, <2>6, <3>1
    <3>4. ackPeer[b] # 0 => \A i \in DOMAIN c2l' : c2l'[i].type = "PONG"
      BY <1>5, <1>10, <2>6, <3>2
    <3>5. serving' = 0 BY <1>7, <2>6
    <3>6. OneAnswer(b)'
      BY <1>7, <1>12, <2>1, <2>2, <3>1, <3>3, <3>4, <3>5 DEF OneAnswer
    <3> QED BY <2>4, <3>6
  <2> QED BY <1>3, <2>5, <2>6
<1> QED BY <1>7, <1>11, <1>12, SystemStep

LEMMA SessionEndsStep ==
  ASSUME IInv, SessionEnds, UNCHANGED avars
  PROVE  IInv'
<1>1. /\ UNCHANGED <<reliable, l2c, c2l, linuxSeq, cpu3Seq, serving, request, txFull>>
      /\ online' \in BOOLEAN
  BY DEF SessionEnds
<1>2. ServiceTypeOK' BY <1>1 DEF IInv, TypeOK, ServiceTypeOK
<1>3. \A b \in Agents : OwnTraffic(b) /\ OneAnswer(b) => OwnTraffic(b)' /\ OneAnswer(b)'
  BY <1>1 DEF OwnTraffic, OneAnswer, avars, run
<1> QED BY <1>1, <1>2, <1>3, SystemStep

\* The sysfs file takes all frames.
LEMMA ShowStep ==
  ASSUME IInv, mailmsg_response_show
  PROVE  IInv'
<1>1. TypeOK /\ ServiceTypeOK BY DEF IInv, TypeOK
<1>2. /\ c2l' = <<>> /\ UNCHANGED <<reliable, online, l2c, linuxSeq, cpu3Seq, serving, request, txFull>>
      /\ UNCHANGED <<apc, value, own, ackPeer, pongPeer, taken, late, outcome, reader, quiet, runs>>
  BY DEF mailmsg_response_show, run
<1>3. Consumed BY <1>2 DEF Consumed
<1>4. c2l' \in Seq(Reply) /\ Len(c2l') <= Capacity BY <1>1, <1>3, ConsumedFrames
<1>5. ServiceTypeOK' BY <1>1, <1>2, <1>4 DEF ServiceTypeOK
<1>6. stolen' \in BOOLEAN BY <1>1, Zenon DEF mailmsg_response_show, TypeOK
<1>7. TypeOK' BY <1>1, <1>2, <1>5, <1>6 DEF TypeOK
<1>8. ASSUME NEW b \in Agents PROVE Good(b)'
  <2>1. Same(b) BY <1>2 DEF Same
  <2> QED BY <1>2, <1>3, <2>1, OthersKeep
<1> QED BY <1>2, <1>7, <1>8 DEF IInv

\* A new session begins when nobody is under way.
LEMMA NewSessionStep ==
  ASSUME IInv, NewSession
  PROVE  IInv'
<1>1. TypeOK /\ ServiceTypeOK BY DEF IInv, TypeOK
<1>2. /\ UNCHANGED <<reliable, apc, value, own, ackPeer, pongPeer, taken, late, outcome, reader, quiet,
                     stolen, runs>>
      /\ \A a \in Agents : apc[a] = "idle"
  BY DEF NewSession, avars, run
<1>3. ServiceTypeOK'
  <2>1. NoRequest \in Request BY Zero DEF NoRequest, Request
  <2>2. <<>> \in Seq(Request) /\ <<>> \in Seq(Reply) /\ Len(<<>>) = 0 BY EmptySeq
  <2> QED BY <1>1, <1>2, <2>1, <2>2, Zero, ServiceAssumption DEF NewSession, ServiceTypeOK
<1>4. TypeOK' BY <1>1, <1>2, <1>3 DEF TypeOK
<1>5. ASSUME NEW b \in Agents PROVE Good(b)'
  <2>1. Good(b) BY DEF IInv
  <2>2. Local(b)' /\ Sound(b)' BY <1>2, <2>1 DEF Good, Local, Sound, Owned
  <2>3. ~UnderWay(b)' BY <1>2 DEF UnderWay
  <2> QED BY <2>2, <2>3 DEF Good
<1> QED BY <1>2, <1>4, <1>5 DEF IInv

-----------------------------------------------------------------------------
(* The theorems                                                              *)

\* Every step keeps the invariant.
LEMMA NextIInv == IInv /\ [Next]_vars => IInv'
<1> SUFFICES ASSUME IInv, [Next]_vars PROVE IInv'
  OBVIOUS
<1>1. CASE \E a \in Agents : \/ Start(a) \/ execute_zephyr_increment(a)
                             \/ ClientStart(a) \/ mailmsg_user_client(a) \/ Deadline(a)
  BY <1>1, AgentStep
<1>2. CASE ServiceTake /\ UNCHANGED avars BY <1>2, TakeStep
<1>3. CASE ServiceReply /\ UNCHANGED avars BY <1>3, ReplyStep
<1>4. CASE SessionEnds /\ UNCHANGED avars BY <1>4, SessionEndsStep
<1>5. CASE mailmsg_response_show BY <1>5, ShowStep
<1>6. CASE NewSession BY <1>6, NewSessionStep
<1>7. CASE UNCHANGED vars
  <2>1. UNCHANGED <<svars, avars>> BY <1>7 DEF vars
  <2>2. ServiceTypeOK' BY <2>1 DEF IInv, TypeOK, ServiceTypeOK, svars
  <2>3. \A b \in Agents : OwnTraffic(b) /\ OneAnswer(b) => OwnTraffic(b)' /\ OneAnswer(b)'
    BY <2>1 DEF OwnTraffic, OneAnswer, svars, avars, run
  <2> QED BY <2>1, <2>2, <2>3, SystemStep DEF svars
<1> QED BY <1>1, <1>2, <1>3, <1>4, <1>5, <1>6, <1>7 DEF Next, Service

\* Processes on /dev/mailmsg-p1 keep their inductive invariant: as long as a run is
\* alone, what is on its way is its own request, or what is left of its answer.
THEOREM AgentInvariant == Spec => []IInv
BY InitIInv, NextIInv, PTL DEF Spec

\* The processes' variables keep their types, whatever the order of their calls.
THEOREM TypeCorrect == Spec => []TypeOK
<1>1. IInv => TypeOK BY DEF IInv
<1> QED BY <1>1, AgentInvariant, PTL

\* A run of the tool or of the client that begins on quiet rings and meets no other
\* writer succeeds only with its own ACK and PONG, and is never told a wrong result:
\* whichever frames are dropped by a full ring or taken by other readers.
THEOREM QuietRunsAreSound == Spec => []QuietRunIsSound
<1>1. IInv => QuietRunIsSound BY DEF IInv, Good, Sound, QuietRunIsSound
<1> QED BY <1>1, AgentInvariant, PTL

=============================================================================
