------------------------------ MODULE MailQueue ------------------------------
(***************************************************************************)
(* What one MailMsg ring promises to its single producer and its single    *)
(* consumer: a first-in first-out queue of at most Capacity frames, whose  *)
(* operations take effect at one instant.                                  *)
(*                                                                         *)
(* The producer offers a frame, which is then appended once and unchanged; *)
(* an offer is refused with FULL only when the queue holds Capacity frames *)
(* at that instant.  The consumer takes the oldest frame, or is told EMPTY *)
(* only when nothing is queued at that instant.                            *)
(***************************************************************************)
EXTENDS Naturals, Sequences

CONSTANTS
    Capacity,    \* the number of frames the queue can hold
    Frame,       \* the frames a producer may offer
    NoFrame,     \* "nothing is being offered"
    Verdict(_)   \* the result a consumer gets with a frame: OK or an error

VARIABLES
    queue,       \* the accepted frames that were not taken yet, oldest first
    offered,     \* the frame the producer is handing over, or NoFrame
    txResult,    \* the result of the producer's last completed call
    rxResult,    \* the result of the consumer's last completed call
    received     \* the frame of the consumer's last successful call

vars == <<queue, offered, txResult, rxResult, received>>

Init ==
    /\ queue = <<>>
    /\ offered = NoFrame
    /\ txResult = "NONE"
    /\ rxResult = "NONE"
    /\ received = NoFrame

Offer(f) ==
    /\ offered = NoFrame
    /\ Len(queue) < Capacity
    /\ offered' = f
    /\ UNCHANGED <<queue, txResult, rxResult, received>>

Accept ==
    /\ offered # NoFrame
    /\ queue' = Append(queue, offered)
    /\ offered' = NoFrame
    /\ txResult' = "OK"
    /\ UNCHANGED <<rxResult, received>>

Refuse ==
    /\ offered = NoFrame
    /\ \/ txResult' = "INVALID"
       \/ Len(queue) = Capacity /\ txResult' = "FULL"
    /\ UNCHANGED <<queue, offered, rxResult, received>>

Take ==
    /\ queue # <<>>
    /\ received' = Head(queue)
    /\ rxResult' = Verdict(Head(queue))
    /\ queue' = Tail(queue)
    /\ UNCHANGED <<offered, txResult>>

NothingToTake ==
    /\ queue = <<>>
    /\ rxResult' = "EMPTY"
    /\ UNCHANGED <<queue, offered, txResult, received>>

Next ==
    \/ \E f \in Frame : Offer(f)
    \/ Accept
    \/ Refuse
    \/ Take
    \/ NothingToTake

Spec == Init /\ [][Next]_vars

=============================================================================
