---------------------------- MODULE PingService ----------------------------
(***************************************************************************)
(* What a user-space client of one priority meets within a session: the    *)
(* two endpoints with their sequence numbers, the two rings as queues      *)
(* (MailQueue), the data gate of the driver, and the test service of CPU3, *)
(* which answers a PING with an ACK (reliable priorities) and a PONG, each *)
(* dropped and counted when the reverse ring is full.                      *)
(*                                                                         *)
(* When a doorbell gets a request served is Cpu3Worker's matter: here CPU3 *)
(* may take any time, or never come.  A PONG carries the sequence number   *)
(* of its request in the field peer, as an ACK does, though only the ACK   *)
(* shows it to the client; no client reads it.                             *)
(***************************************************************************)
EXTENDS Integers, Sequences

CONSTANTS
    Capacity,     \* MAILMSG_RING_SLOTS - 1
    Reliables,    \* the answers of mailmsg_priority_is_reliable() considered
    SeqMod,       \* 2^32 for sequence numbers
    ValueMod      \* 2^32 for payload values

ASSUME ServiceAssumption ==
    /\ Capacity \in Nat \ {0} /\ Reliables \subseteq BOOLEAN
    /\ SeqMod \in Nat \ {0, 1} /\ ValueMod \in Nat \ {0}

VARIABLES
    reliable,    \* mailmsg_priority_is_reliable() of this priority
    online,      \* the session is ACTIVE
    l2c, c2l,    \* the rings of this priority
    linuxSeq,    \* next_sequence of the Linux endpoint
    cpu3Seq,     \* next_sequence of the CPU3 endpoint
    serving,     \* the reply to send next for the request in hand, 0 if none
    request,     \* the request in hand
    txFull       \* replies dropped (tx_full)

svars == <<reliable, online, l2c, c2l, linuxSeq, cpu3Seq, serving, request, txFull>>

Sequence == 0 .. SeqMod - 1
Value == 0 .. ValueMod - 1
Request == [seq : Sequence, value : Value]
Reply == [seq : Sequence, type : {"ACK", "PONG"}, peer : Sequence, value : Value]

NoRequest == [seq |-> 0, value |-> 0]

ServiceTypeOK ==
    /\ reliable \in BOOLEAN /\ online \in BOOLEAN
    /\ l2c \in Seq(Request) /\ Len(l2c) <= Capacity
    /\ c2l \in Seq(Reply) /\ Len(c2l) <= Capacity
    /\ linuxSeq \in Sequence /\ cpu3Seq \in Sequence
    /\ serving \in 0 .. 2
    /\ request \in Request
    /\ txFull \in Nat

ServiceInit ==
    /\ reliable \in Reliables /\ online = TRUE
    /\ l2c = <<>> /\ c2l = <<>>
    /\ linuxSeq = 0 /\ cpu3Seq = 0
    /\ serving = 0 /\ request = NoRequest /\ txFull = 0

\* Mutant: the number is not reduced to its width.
next_sequence_NoWrap(s) == s + 1

\* Sequence numbers wrap and leave out 0, which is never a committed frame.
next_sequence(s) == IF s + 1 = SeqMod THEN 1 ELSE s + 1

Full(ring) == Len(ring) = Capacity

-----------------------------------------------------------------------------
(* The calls a client makes, as parts of its actions                         *)

\* write() of a PING: mailmsg_endpoint_send() behind the data gate.
WriteOk(v) ==
    /\ online /\ ~Full(l2c)
    /\ linuxSeq' = next_sequence(linuxSeq)
    /\ l2c' = Append(l2c, [seq |-> linuxSeq', value |-> v])

\* ENOSPC: the number is spent although no frame carries it.
WriteFull ==
    /\ online /\ Full(l2c)
    /\ linuxSeq' = next_sequence(linuxSeq)
    /\ UNCHANGED l2c

\* read() of a frame: mailmsg_endpoint_receive() behind the data gate.
ReadOk == online /\ c2l # <<>> /\ c2l' = Tail(c2l)

\* EAGAIN of a non-blocking read.
ReadEmpty == online /\ c2l = <<>> /\ UNCHANGED c2l

\* poll(): an offline session reports HUP and ERR only, whatever is queued.
PollIn == online /\ c2l # <<>>

-----------------------------------------------------------------------------
(* CPU3                                                                      *)

\* Mutant: the PONG goes first.
Replies_Swapped == IF reliable THEN <<"PONG", "ACK">> ELSE <<"PONG">>

\* What the service sends for a PING, in this order.
Replies == IF reliable THEN <<"ACK", "PONG">> ELSE <<"PONG">>

\* mailmsg_endpoint_receive() of a request.
ServiceTake ==
    /\ online /\ serving = 0 /\ l2c # <<>>
    /\ request' = Head(l2c)
    /\ l2c' = Tail(l2c)
    /\ serving' = 1
    /\ UNCHANGED <<reliable, online, c2l, linuxSeq, cpu3Seq, txFull>>

\* mailmsg_send_pong() increments modulo 2^32; an ACK has no value.
ReplyValue(type) == IF type = "PONG" THEN (request.value + 1) % ValueMod ELSE 0

\* mailmsg_endpoint_send() of a reply; FULL spends the number and drops it.
SendReply(type) ==
    /\ cpu3Seq' = next_sequence(cpu3Seq)
    /\ IF Full(c2l)
       THEN txFull' = txFull + 1 /\ UNCHANGED c2l
       ELSE /\ c2l' = Append(c2l, [seq |-> cpu3Seq', type |-> type,
                                   peer |-> request.seq, value |-> ReplyValue(type)])
            /\ UNCHANGED txFull

\* mailmsg_send_feedback() or mailmsg_send_pong(); the results are ignored.
ServiceReply ==
    /\ online /\ serving # 0
    /\ SendReply(Replies[serving])
    /\ IF serving = Len(Replies)
       THEN serving' = 0 /\ request' = NoRequest
       ELSE serving' = serving + 1 /\ UNCHANGED request
    /\ UNCHANGED <<reliable, online, l2c, linuxSeq>>

\* CPU3 goes off; Linux notices and closes the data gate.
SessionEnds ==
    /\ online
    /\ online' = FALSE
    /\ UNCHANGED <<reliable, l2c, c2l, linuxSeq, cpu3Seq, serving, request, txFull>>

Service == ServiceTake \/ ServiceReply \/ SessionEnds

=============================================================================
