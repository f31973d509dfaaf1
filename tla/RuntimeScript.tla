---------------------------- MODULE RuntimeScript ----------------------------
(***************************************************************************)
(* scripts/lzamp-runtime as the operator of the driver: "start" loads and  *)
(* starts Zephyr or reuses it, "stop --with-zephyr" asks it to stop.       *)
(*                                                                         *)
(* The script is a sequence of reads and writes of sysfs files, each of    *)
(* which is one handler of Lifecycle; between two of them the driver's     *)
(* work items, the users of the data devices, firmware and CPU3 go on, and *)
(* so does another run of the script, which has no lock of its own.  Every *)
(* command that fails ends the run (set -e), and a run may be interrupted  *)
(* anywhere.  One run is the whole of the sysfs traffic here: nobody types *)
(* commands next to the script.                                            *)
(***************************************************************************)
EXTENDS Lifecycle

CONSTANTS
    Runs,      \* runs of the script that may be under way at the same time
    MaxKills   \* bound: interrupted runs

ASSUME RunsAssumption == MaxKills \in Nat

VARIABLES
    pc,        \* where each run is
    sawOn,     \* it has seen affinity "on"
    offset,    \* how far its cat has got in the image
    author,    \* history: who wrote each chunk of the image, Nobody if it is over
    crossed,   \* history: two runs have been under way at the same time
    kills      \* interrupted runs so far

scripts == <<pc, sawOn, offset, author, crossed, kills>>
allvars == <<vars, scripts>>

Nobody == "nobody"

ScriptInit ==
    /\ Init
    /\ pc = [r \in Runs |-> "idle"]
    /\ sawOn = [r \in Runs |-> FALSE]
    /\ offset = [r \in Runs |-> 0]
    /\ author = <<>>
    /\ crossed = FALSE
    /\ kills = 0

\* Run r goes on to the given line.
Go(r, line) ==
    /\ pc' = [pc EXCEPT ![r] = line]
    /\ UNCHANGED <<sawOn, offset, author, crossed, kills>>

\* Run r ends; what it wrote is nobody's work any more.
Ends(r) ==
    /\ pc' = [pc EXCEPT ![r] = "idle"]
    /\ sawOn' = [sawOn EXCEPT ![r] = FALSE]
    /\ offset' = [offset EXCEPT ![r] = 0]
    /\ author' = [i \in DOMAIN author |-> IF author[i] = r THEN Nobody ELSE author[i]]
    /\ UNCHANGED crossed

Exit(r) == Ends(r) /\ UNCHANGED kills

\* A command of the script begins.
Run(r, line) ==
    /\ pc[r] = "idle"
    /\ pc' = [pc EXCEPT ![r] = line]
    /\ crossed' = (crossed \/ \E s \in Runs \ {r} : pc[s] # "idle")
    /\ UNCHANGED <<vars, sawOn, offset, author, kills>>

Kill(r) ==
    /\ pc[r] # "idle" /\ kills < MaxKills
    /\ kills' = kills + 1
    /\ Ends(r)
    /\ UNCHANGED vars

-----------------------------------------------------------------------------
(* start_zephyr()                                                            *)

ReadAffinity(r) ==
    /\ pc[r] = "affinity"
    /\ affinity_state_show
    /\ sawOn' = [sawOn EXCEPT ![r] = (AffinityInfo = "ON")]
    /\ pc' = [pc EXCEPT ![r] = "state"]
    /\ UNCHANGED <<offset, author, crossed, kills>>

\* Mutant: every session that is not active is rearmed.
NeedsRearm_Inactive(s) == s # "UNARMED"

NeedsRearm(s) == s = "OFFLINE"

\* Reads mailmsg_state from status, and decides: reuse, give up, or start.
ReadState(r) ==
    /\ pc[r] = "state" /\ lock = "free"
    /\ IF sawOn[r]
       THEN Exit(r)
       ELSE /\ pc' = [pc EXCEPT ![r] = IF NeedsRearm(state) THEN "rearm" ELSE "upload"]
            /\ UNCHANGED <<sawOn, offset, author, crossed, kills>>
    /\ UNCHANGED vars

Rearm(r) ==
    /\ pc[r] = "rearm" /\ lock = "free"
    /\ \/ /\ rearm_store
          /\ pc' = [pc EXCEPT ![r] = "upload"]
          /\ author' = <<>>
          /\ UNCHANGED <<sawOn, offset, crossed, kills>>
       \/ RearmBusy /\ Exit(r)
       \/ (~attempted \/ openCount > 0) /\ Exit(r) /\ UNCHANGED vars

\* image_write() takes only the chunk that comes next.
AtOffset(r) == offset[r] = image

\* One write() of cat.
Upload(r) ==
    /\ pc[r] = "upload" /\ lock = "free"
    /\ \/ /\ AtOffset(r) /\ image_write
          /\ offset' = [offset EXCEPT ![r] = @ + 1]
          /\ author' = Append(author, r)
          /\ pc' = [pc EXCEPT ![r] = IF offset'[r] = ImageSize THEN "start" ELSE "upload"]
          /\ UNCHANGED <<sawOn, crossed, kills>>
       \/ (attempted \/ ~AtOffset(r)) /\ Exit(r) /\ UNCHANGED vars

StartWrite(r) ==
    /\ pc[r] = "start" /\ lock = "free"
    /\ \/ StartBegin /\ cpuOnRet' = "OK" /\ Go(r, "look")
       \/ StartBegin /\ cpuOnRet' = "ERROR" /\ Exit(r)
       \/ StartBusy /\ Exit(r)
       \/ (attempted \/ image # ImageSize) /\ Exit(r) /\ UNCHANGED vars

\* After a second: affinity and state once more, and the report.
LookAgain(r) ==
    /\ pc[r] = "look"
    /\ affinity_state_show
    /\ Go(r, "verdict")

Verdict(r) ==
    /\ pc[r] = "verdict" /\ lock = "free"
    /\ Exit(r)
    /\ UNCHANGED vars

-----------------------------------------------------------------------------
(* stop_zephyr()                                                             *)

StopAffinity(r) ==
    /\ pc[r] = "stop-affinity"
    /\ affinity_state_show
    /\ IF AffinityInfo = "OFF" THEN Exit(r) ELSE Go(r, "stop")

StopWrite(r) ==
    /\ pc[r] = "stop" /\ lock = "free"
    /\ \/ StopBegin /\ state' = "STOPPING" /\ Go(r, "stop-look")
       \/ StopBegin /\ state' # "STOPPING" /\ Exit(r)
       \/ ~StopAllowed /\ Exit(r) /\ UNCHANGED vars

StopLook(r) ==
    /\ pc[r] = "stop-look"
    /\ affinity_state_show
    /\ Exit(r)

-----------------------------------------------------------------------------
(* Everybody else: users of the data devices, the driver's own activity,     *)
(* firmware and CPU3.                                                        *)

Users ==
    \/ user_open \/ user_release
    \/ \E p \in Prios : user_write(p, "PING", TRUE) \/ user_read(p)

Driver ==
    \/ StartEnd \/ StopEnd
    \/ affinity_work \/ control_work \/ lifecycle_timeout_work
    \/ TimerFires \/ DeadlinePasses
    \/ \E p \in Prios : rx_callback(p)

World == (Users \/ Driver \/ PsciPowersOn \/ Cpu3) /\ UNCHANGED scripts

Step(r) ==
    \/ ReadAffinity(r) \/ ReadState(r) \/ Rearm(r) \/ Upload(r) \/ StartWrite(r)
    \/ LookAgain(r) \/ Verdict(r)
    \/ StopAffinity(r) \/ StopWrite(r) \/ StopLook(r)

ScriptNext ==
    \/ World
    \/ \E r \in Runs : Step(r) \/ Kill(r) \/ Run(r, "affinity") \/ Run(r, "stop-affinity")

ScriptSpec == ScriptInit /\ [][ScriptNext]_allvars

-----------------------------------------------------------------------------
\* A run that is about to start CPU3 starts what it uploaded, all of it: no
\* chunk of a concurrent run or of an interrupted one is left in the image.
OwnImageStarted ==
    \A r \in Runs : pc[r] = "start" => author = [i \in 1 .. ImageSize |-> r]

\* Without concurrent runs the script never rewrites the image of a CPU3 that
\* is on, or that firmware is still powering on, although AFFINITY_INFO cannot
\* tell the latter from OFF and rearm_store() asks nothing else.
UploadsWhileOff ==
    ~crossed => \A r \in Runs :
        pc[r] = "start" \/ (pc[r] = "upload" /\ offset[r] > 0) => power = "OFF"

\* Without concurrent or interrupted runs, an upload never meets what an earlier
\* one left behind: a run that uploads an image also gets it started, or at least
\* attempted, and a rearm forgets it.  (After an interrupted upload, image_write()
\* answers every later "start" with -ESPIPE, and rearm_store() with -EINVAL.)
NoLeftoverImage ==
    ~crossed /\ kills = 0 => \A r \in Runs : pc[r] = "upload" /\ ~attempted => AtOffset(r)

=============================================================================
