------------------------------- MODULE Agent -------------------------------
(***************************************************************************)
(* Processes on /dev/mailmsg-p1, one after another and at the same time.   *)
(* A run is one of two programs.  The zephyr_increment tool of             *)
(* mailmsg_agent.py validates the model's decision, writes one PING, and   *)
(* polls and reads without blocking until it has an ACK and a PONG or its  *)
(* time is over.  mailmsg_user_client writes one PING and takes the number *)
(* of frames it expects, each with a poll() and a read() that may block.   *)
(*                                                                         *)
(* Every failure is an outcome; closing the file gives up the reader.  The *)
(* dialogue with the language model is left out: its answer is any input.  *)
(* MaxRuns bounds the runs of a behaviour.                                 *)
(***************************************************************************)
EXTENDS PingService

CONSTANTS
    Agents,      \* processes that run the two programs
    Inputs,      \* integers a decision may ask to increment
    ClientInputs,\* values given to the client
    MaxRuns      \* bound on the runs

ASSUME AgentAssumption ==
    /\ Inputs \subseteq Nat /\ ClientInputs \subseteq Value
    /\ MaxRuns \in Nat /\ Reliables = {TRUE}

VARIABLES
    apc,         \* where a process is in its program
    value,       \* its argument
    own,         \* sequence number of its request
    ackPeer,     \* the request its ACK answers, 0 as long as it has none
    pongPeer,    \* the request its PONG answers, 0 as long as it has none
    taken,       \* frames a client has read
    late,        \* its deadline has passed
    outcome,     \* how its last run ended
    reader,      \* the process whose file is the reader of the priority
    quiet,       \* history: no traffic but its own since the run wrote its request
    stolen,      \* history: a client lost the frame poll() had promised it
    runs

run == <<apc, value, own, ackPeer, pongPeer, taken, late, outcome>>
avars == <<run, reader, quiet, stolen, runs>>
vars == <<svars, avars>>

Nobody == "nobody"
\* A run of the tool is ok, was told a wrong result, or failed in another way; a
\* client has sent only, has got its frames (exit_0), or failed.
Outcomes == {"none", "ok", "unexpected_result", "sent", "exit_0", "failed"}
Client == {"clientWrite", "clientWait", "clientRead"}

Init ==
    /\ ServiceInit
    /\ apc = [a \in Agents |-> "idle"]
    /\ value = [a \in Agents |-> 0]
    /\ own = [a \in Agents |-> 0]
    /\ ackPeer = [a \in Agents |-> 0]
    /\ pongPeer = [a \in Agents |-> 0]
    /\ taken = [a \in Agents |-> 0]
    /\ late = [a \in Agents |-> FALSE]
    /\ outcome = [a \in Agents |-> "none"]
    /\ reader = Nobody
    /\ quiet = [a \in Agents |-> FALSE]
    /\ stolen = FALSE
    /\ runs = 0

\* Mutant: 2^32 - 1 is let through.
parse_decision_AnyWord(v) == v < ValueMod

\* The validator keeps value + 1 within 32 bits.
parse_decision(v) == v < ValueMod - 1

-----------------------------------------------------------------------------
(* What both programs do                                                     *)

\* open(): the data gate refuses it without a session.
Opens == online

\* A run begins: the device is opened.
Begin(a, v, line) ==
    /\ apc[a] = "idle" /\ runs < MaxRuns /\ Opens
    /\ value' = [value EXCEPT ![a] = v]
    /\ apc' = [apc EXCEPT ![a] = line]
    /\ own' = [own EXCEPT ![a] = 0]
    /\ ackPeer' = [ackPeer EXCEPT ![a] = 0]
    /\ pongPeer' = [pongPeer EXCEPT ![a] = 0]
    /\ outcome' = [outcome EXCEPT ![a] = "none"]
    /\ quiet' = [quiet EXCEPT ![a] = FALSE]
    /\ runs' = runs + 1
    /\ UNCHANGED <<svars, taken, late, reader, stolen>>

\* The end of a run: close() and the loss of the local variables.
Finish(a, how) ==
    /\ outcome' = [outcome EXCEPT ![a] = how]
    /\ apc' = [apc EXCEPT ![a] = "idle"]
    /\ value' = [value EXCEPT ![a] = 0]
    /\ taken' = [taken EXCEPT ![a] = 0]
    /\ late' = [late EXCEPT ![a] = FALSE]
    /\ reader' = IF reader = a THEN Nobody ELSE reader

\* A run that fails reports no sequence numbers.
Fail(a, how) ==
    /\ Finish(a, how)
    /\ own' = [own EXCEPT ![a] = 0]
    /\ ackPeer' = [ackPeer EXCEPT ![a] = 0]
    /\ pongPeer' = [pongPeer EXCEPT ![a] = 0]
    /\ UNCHANGED <<quiet, stolen, runs>>

\* Nothing of anybody else is in the rings or with CPU3.
RingsQuiet == l2c = <<>> /\ c2l = <<>> /\ serving = 0

\* write() of the request succeeds; whoever else is under way is not alone.
Requests(a) ==
    /\ WriteOk(value[a])
    /\ own' = [own EXCEPT ![a] = linuxSeq']
    /\ quiet' = [b \in Agents |-> IF b = a THEN RingsQuiet ELSE quiet[b] /\ apc[b] = "idle"]
    /\ UNCHANGED <<reliable, online, c2l, cpu3Seq, serving, request, txFull, ackPeer, pongPeer,
                   stolen, runs>>

\* What the frame at the head of the ring is for run a: the acknowledgements
\* and the answers it has then.  Nobody compares them with the request.
Acks(a) == IF Head(c2l).type = "ACK" THEN [ackPeer EXCEPT ![a] = Head(c2l).peer] ELSE ackPeer
Pongs(a) == IF Head(c2l).type = "PONG" THEN [pongPeer EXCEPT ![a] = Head(c2l).peer] ELSE pongPeer

\* Mutant: poll() and read() let everybody in.
MayRead_Any(a) == TRUE

\* poll() claims the reader, and is refused if another file has it.
MayRead(a) == reader \in {Nobody, a}

-----------------------------------------------------------------------------
(* execute_zephyr_increment()                                                *)

\* main() with a decision to execute: it is validated, then the device opened.
\* A chat or a validation only, and a run that fails here, change nothing.
Start(a) == \E v \in Inputs : parse_decision(v) /\ Begin(a, v, "write")

WriteRequest(a) ==
    /\ apc[a] = "write"
    /\ Requests(a)
    /\ apc' = [apc EXCEPT ![a] = "wait"]
    /\ UNCHANGED <<value, taken, late, outcome, reader>>

WriteNoSpace(a) ==
    /\ apc[a] = "write"
    /\ WriteFull
    /\ Fail(a, "failed")
    /\ UNCHANGED <<reliable, online, c2l, cpu3Seq, serving, request, txFull>>

WriteError(a) ==
    /\ apc[a] = "write" /\ ~online
    /\ Fail(a, "failed")
    /\ UNCHANGED svars

\* The time of the tool, or of one poll() of the client, passes.
Deadline(a) ==
    /\ apc[a] \in {"wait", "clientWait"} /\ ~late[a]
    /\ late' = [late EXCEPT ![a] = TRUE]
    /\ UNCHANGED <<svars, apc, value, own, ackPeer, pongPeer, taken, outcome, reader, quiet,
                   stolen, runs>>

Timeout(a) ==
    /\ apc[a] = "wait" /\ late[a]
    /\ Fail(a, "failed")
    /\ UNCHANGED svars

\* Refused, or without a session, poll() reports an error without POLLIN, which
\* the run takes for the end of the session.
PollError(a) ==
    /\ apc[a] = "wait" /\ ~late[a]
    /\ ~MayRead(a) \/ ~online
    /\ Fail(a, "failed")
    /\ UNCHANGED svars

\* The claim is made even if there is nothing to read yet.
PollWaits(a) ==
    /\ apc[a] = "wait" /\ ~late[a] /\ MayRead(a) /\ online /\ ~PollIn
    /\ reader' = a
    /\ UNCHANGED <<svars, run, quiet, stolen, runs>>

PollFrame(a) ==
    /\ apc[a] = "wait" /\ ~late[a] /\ MayRead(a) /\ PollIn
    /\ reader' = a
    /\ apc' = [apc EXCEPT ![a] = "read"]
    /\ UNCHANGED <<svars, value, own, ackPeer, pongPeer, taken, late, outcome, quiet, stolen, runs>>

\* os.read() and the classification of the frame.
ReadFrame(a) ==
    LET wrong == Head(c2l).type = "PONG" /\ Head(c2l).value # value[a] + 1
    IN  /\ apc[a] = "read"
        /\ ReadOk
        /\ \/ wrong /\ Fail(a, "unexpected_result")
           \/ /\ ~wrong
              /\ ackPeer' = Acks(a) /\ pongPeer' = Pongs(a)
              /\ IF ackPeer'[a] # 0 /\ pongPeer'[a] # 0
                 THEN Finish(a, "ok")
                 ELSE /\ apc' = [apc EXCEPT ![a] = "wait"]
                      /\ UNCHANGED <<value, taken, late, outcome, reader>>
              /\ UNCHANGED <<own, quiet, stolen, runs>>
        /\ UNCHANGED <<reliable, online, l2c, linuxSeq, cpu3Seq, serving, request, txFull>>

\* BlockingIOError: the frame poll() saw is gone.
ReadAgain(a) ==
    /\ apc[a] = "read"
    /\ ReadEmpty
    /\ apc' = [apc EXCEPT ![a] = "wait"]
    /\ UNCHANGED <<reliable, online, l2c, linuxSeq, cpu3Seq, serving, request, txFull, value,
                   own, ackPeer, pongPeer, taken, late, outcome, reader, quiet, stolen, runs>>

\* Any other error of os.read() leaves the run as an exception.
ReadError(a) ==
    /\ apc[a] = "read" /\ ~online
    /\ Fail(a, "failed")
    /\ UNCHANGED svars

-----------------------------------------------------------------------------
(* mailmsg_user_client                                                       *)

\* Any 32-bit value passes.
ClientStart(a) == \E v \in ClientInputs : Begin(a, v, "clientWrite")

\* The request is written; with --no-read the client is done, and leaves the
\* answers to whoever comes next.
ClientWrite(a) ==
    /\ apc[a] = "clientWrite"
    /\ Requests(a)
    /\ \/ Finish(a, "sent")
       \/ apc' = [apc EXCEPT ![a] = "clientWait"] /\ UNCHANGED <<value, taken, late, outcome, reader>>

\* No space, or no session.
ClientWriteFails(a) ==
    /\ apc[a] = "clientWrite"
    /\ WriteFull \/ (~online /\ UNCHANGED <<l2c, linuxSeq>>)
    /\ Fail(a, "failed")
    /\ UNCHANGED <<reliable, online, c2l, cpu3Seq, serving, request, txFull>>

\* poll() reports an error, or nothing for a second.
ClientPollFails(a) ==
    /\ apc[a] = "clientWait"
    /\ ~MayRead(a) \/ ~online \/ (late[a] /\ ~PollIn)
    /\ Fail(a, "failed")
    /\ UNCHANGED svars

ClientPollWaits(a) ==
    /\ apc[a] = "clientWait" /\ MayRead(a) /\ online /\ ~PollIn
    /\ reader' = a
    /\ UNCHANGED <<svars, run, quiet, stolen, runs>>

ClientPollFrame(a) ==
    /\ apc[a] = "clientWait" /\ MayRead(a) /\ PollIn
    /\ reader' = a
    /\ apc' = [apc EXCEPT ![a] = "clientRead"]
    /\ late' = [late EXCEPT ![a] = FALSE]
    /\ UNCHANGED <<svars, value, own, ackPeer, pongPeer, taken, outcome, quiet, stolen, runs>>

\* read() of a file opened without O_NONBLOCK: it waits for a frame, whatever
\* poll() said.  The client prints the frame and counts it.
ClientRead(a) ==
    /\ apc[a] = "clientRead"
    /\ ReadOk
    /\ ackPeer' = Acks(a) /\ pongPeer' = Pongs(a)
    /\ IF taken[a] + 1 = Len(Replies)
       THEN Finish(a, "exit_0")
       ELSE /\ apc' = [apc EXCEPT ![a] = "clientWait"]
            /\ taken' = [taken EXCEPT ![a] = @ + 1]
            /\ UNCHANGED <<value, late, outcome, reader>>
    /\ UNCHANGED <<reliable, online, l2c, linuxSeq, cpu3Seq, serving, request, txFull, own, quiet,
                   stolen, runs>>

\* The end of the session wakes the reader with an error.
ClientReadFails(a) ==
    /\ apc[a] = "clientRead" /\ ~online
    /\ Fail(a, "failed")
    /\ UNCHANGED svars

-----------------------------------------------------------------------------
(* The rest of the system                                                    *)

\* A read of the sysfs file empties the ring, whoever holds the reader.
mailmsg_response_show ==
    /\ online /\ c2l # <<>>
    /\ c2l' = <<>>
    /\ stolen' = (stolen \/ \E a \in Agents : apc[a] = "clientRead")
    /\ UNCHANGED <<reliable, online, l2c, linuxSeq, cpu3Seq, serving, request, txFull, run, reader,
                   quiet, runs>>

\* rearm and start, which need every file closed, begin with empty rings.
NewSession ==
    /\ ~online /\ \A a \in Agents : apc[a] = "idle"
    /\ online' = TRUE
    /\ l2c' = <<>> /\ c2l' = <<>> /\ linuxSeq' = 0 /\ cpu3Seq' = 0
    /\ serving' = 0 /\ request' = NoRequest /\ txFull' = 0
    /\ UNCHANGED <<reliable, avars>>

execute_zephyr_increment(a) ==
    \/ WriteRequest(a) \/ WriteNoSpace(a) \/ WriteError(a) \/ Timeout(a)
    \/ PollError(a) \/ PollWaits(a) \/ PollFrame(a)
    \/ ReadFrame(a) \/ ReadAgain(a) \/ ReadError(a)

mailmsg_user_client(a) ==
    \/ ClientWrite(a) \/ ClientWriteFails(a)
    \/ ClientPollFails(a) \/ ClientPollWaits(a) \/ ClientPollFrame(a)
    \/ ClientRead(a) \/ ClientReadFails(a)

Next ==
    \/ \E a \in Agents :
          \/ Start(a) \/ execute_zephyr_increment(a)
          \/ ClientStart(a) \/ mailmsg_user_client(a)
          \/ Deadline(a)
    \/ Service /\ UNCHANGED avars
    \/ mailmsg_response_show
    \/ NewSession

\* A started process is scheduled and its deadline passes; CPU3 owes nothing.
Spec ==
    /\ Init /\ [][Next]_vars
    /\ \A a \in Agents :
         /\ WF_vars(execute_zephyr_increment(a))
         /\ WF_vars(mailmsg_user_client(a))
         /\ WF_vars(Deadline(a))

-----------------------------------------------------------------------------
(* Properties                                                                *)

TypeOK ==
    /\ ServiceTypeOK
    /\ apc \in [Agents -> {"idle", "write", "wait", "read"} \cup Client]
    /\ value \in [Agents -> Value]
    /\ own \in [Agents -> Sequence]
    /\ ackPeer \in [Agents -> Sequence] /\ pongPeer \in [Agents -> Sequence]
    /\ taken \in [Agents -> 0 .. 1]
    /\ late \in [Agents -> BOOLEAN]
    /\ outcome \in [Agents -> Outcomes]
    /\ reader \in Agents \cup {Nobody}
    /\ quiet \in [Agents -> BOOLEAN] /\ stolen \in BOOLEAN
    /\ runs \in Nat

Owned(a) == ackPeer[a] = own[a] /\ pongPeer[a] = own[a]

\* A run that begins on quiet rings and meets no other writer succeeds only
\* with its own ACK and PONG, and is never told a wrong result, up to the
\* largest value the validator accepts.
QuietRunIsSound ==
    \A a \in Agents : quiet[a] =>
        (outcome[a] \in {"ok", "exit_0"} => Owned(a)) /\ outcome[a] # "unexpected_result"

\* Every run ends, whatever CPU3, the session, other runs and other consumers of
\* the ring do: the tool within its time, and the client although its read() has
\* no time limit, since the claim poll() made keeps the frame for it.  Only a read
\* of the sysfs file can take that frame away, and the client is then stuck for
\* as long as the session lives.
RunEnds ==
    \A a \in Agents :
        apc[a] # "idle" ~> (apc[a] = "idle" \/ (apc[a] = "clientRead" /\ stolen))

\* "accepts success only after receiving both its ACK and the PONG containing
\* value + 1" (mailmsg_agent.py:5), said of every run.
SuccessIsOwn == \A a \in Agents : outcome[a] = "ok" => Owned(a)

=============================================================================
