------------------------ MODULE RuntimeScriptProofs ------------------------
(***************************************************************************)
(* For any number of concurrent and interrupted runs, any image size and   *)
(* every behaviour of the driver, its users, firmware and CPU3: the script *)
(* starts what it uploaded, and alone it never touches a running CPU3.     *)
(***************************************************************************)
EXTENDS RuntimeScript, LifecycleProofs

-----------------------------------------------------------------------------
(* The inductive invariant                                                   *)

Lines == {"idle", "affinity", "state", "rearm", "upload", "start", "look", "verdict",
          "stop-affinity", "stop", "stop-look"}

ScriptType ==
    /\ pc \in [Runs -> Lines]
    /\ offset \in [Runs -> 0 .. ImageSize]
    /\ author \in Seq(Runs \cup {Nobody})
    /\ kills \in Nat

\* Run r is in the middle of its work on the image.
Writing(r) == pc[r] = "start" \/ (pc[r] = "upload" /\ offset[r] > 0)

\* As long as a run works on the image, nobody has started it, and what has been
\* written is what that run has written.
UploadInv ==
    /\ image = Len(author)
    /\ \A r \in Runs :
         /\ pc[r] \in {"idle", "affinity", "state", "rearm"} => offset[r] = 0
         /\ pc[r] = "start" => offset[r] = ImageSize
         /\ Writing(r) => ~attempted /\ author = [i \in 1 .. offset[r] |-> r]

\* Firmware's AFFINITY_INFO is wrong only about a CPU3 nobody has seen on yet, so
\* a session is OFFLINE only with CPU3 off.
PowerInv ==
    /\ power = "ON_ACCEPTED" => ~seenOn
    /\ state = "OFFLINE" => power = "OFF"

\* Without concurrent runs there is one run at a time, it rearms only a session
\* that is OFFLINE, and CPU3 is off before a start is attempted.
AloneInv ==
    ~crossed =>
        /\ \A r, s \in Runs : pc[r] # "idle" /\ pc[s] # "idle" => r = s
        /\ \A r \in Runs : pc[r] = "rearm" => state = "OFFLINE"
        /\ ~attempted => power = "OFF"

\* Without interrupted runs either, a part of an image has a run that goes on with it.
LeftoverInv ==
    ~crossed /\ kills = 0 /\ ~attempted =>
        image = 0 \/ \E r \in Runs : pc[r] \in {"upload", "start"} /\ offset[r] = image

ScriptInv == IInv /\ ScriptType /\ UploadInv /\ PowerInv /\ AloneInv /\ LeftoverInv

-----------------------------------------------------------------------------
(* The script and the driver                                                 *)

\* Everything the script does to the driver is one of the driver's operations, and
\* so is everything that happens between its commands.
LEMMA ScriptStepIsDriverStep ==
  ASSUME [ScriptNext]_allvars
  PROVE  [Next]_vars
<1>1. CASE World
  <2>1. ASSUME Users PROVE Next
    <3>1. \A p \in Prios : user_write(p, "PING", TRUE) => Next
      BY DEF Next, Requests
    <3> QED BY <2>1, <3>1 DEF Users, Next, Requests
  <2>2. ASSUME Driver \/ PsciPowersOn \/ Cpu3 PROVE Next
    BY <2>2 DEF Driver, Next
  <2> QED BY <1>1, <2>1, <2>2 DEF World
<1>2. ASSUME NEW r \in Runs, Step(r) PROVE [Next]_vars
  <2>1. affinity_state_show \/ rearm_store \/ RearmBusy \/ image_write \/ StartBegin
          \/ StartBusy \/ StopBegin \/ UNCHANGED vars
    BY <1>2 DEF Step, ReadAffinity, ReadState, Rearm, Upload, StartWrite, LookAgain, Verdict,
                StopAffinity, StopWrite, StopLook
  <2> QED BY <2>1 DEF Next, Requests
<1>3. ASSUME NEW r \in Runs, Kill(r) \/ Run(r, "affinity") \/ Run(r, "stop-affinity")
      PROVE  [Next]_vars
  BY <1>3 DEF Kill, Run
<1>4. CASE UNCHANGED allvars BY <1>4 DEF allvars
<1> QED BY <1>1, <1>2, <1>3, <1>4 DEF ScriptNext

\* Nobody but the script loads, starts or rearms: between its commands the image
\* stays, an OFFLINE session stays OFFLINE and a CPU3 that is off stays off.
LEMMA WorldKeeps ==
  ASSUME World
  PROVE  /\ UNCHANGED scripts /\ image' = image /\ attempted' = attempted
         /\ state = "OFFLINE" => state' = "OFFLINE"
         /\ power = "OFF" => power' = "OFF"
<1> USE DEF session, works, rings, peer
<1> DEFINE Goal == /\ image' = image /\ attempted' = attempted
                   /\ state = "OFFLINE" => state' = "OFFLINE"
                   /\ power = "OFF" => power' = "OFF"
<1>1. ASSUME Users PROVE Goal
  BY <1>1 DEF Users, user_open, user_release, user_write, user_read
<1>2. ASSUME StartEnd \/ StopEnd \/ TimerFires \/ DeadlinePasses
             \/ (\E p \in Prios : rx_callback(p)) \/ PsciPowersOn
      PROVE  Goal
  BY <1>2 DEF StartEnd, StopEnd, TimerFires, DeadlinePasses, rx_callback, PsciPowersOn
<1>3. ASSUME affinity_work PROVE Goal
  BY <1>3 DEF affinity_work, refresh_affinity
<1>4. ASSUME control_work PROVE Goal
  BY <1>4 DEF control_work, ControlIdle, ControlExpired, ControlNothing, ControlLate,
              ControlAccept, set_timeout, Operation
<1>5. ASSUME lifecycle_timeout_work PROVE Goal
  BY <1>5 DEF lifecycle_timeout_work, refresh_affinity, set_timeout, Operation
<1>6. ASSUME Cpu3 PROVE Goal
  BY <1>6 DEF Cpu3, Cpu3Bind, Cpu3Ready, Cpu3Off, Cpu3Isr, Cpu3Serve
<1> QED BY <1>1, <1>2, <1>3, <1>4, <1>5, <1>6 DEF World, Driver

-----------------------------------------------------------------------------
(* What AFFINITY_INFO = OFF means                                            *)

\* CPU_ON forgets that CPU3 was seen, and only a CPU3 that has left ON_ACCEPTED
\* is seen or sends SESSION_READY.
LEMMA StepPower ==
  ASSUME IInv, PowerInv, [Next]_vars
  PROVE  PowerInv'
<1> USE DEF session, works, rings, peer, PowerInv
<1>1. TypeOK /\ (~attempted => state = "UNARMED") /\ Cpu3Inv BY DEF IInv, HandlerInv
<1>2. CASE image_write \/ user_open \/ user_release \/ StartEnd \/ StopEnd \/ TimerFires
           \/ DeadlinePasses
  BY <1>2 DEF image_write, user_open, user_release, StartEnd, StopEnd, TimerFires, DeadlinePasses
<1>3. CASE StartBusy \/ RearmBusy \/ affinity_state_show \/ affinity_work
  BY <1>3 DEF StartBusy, RearmBusy, affinity_state_show, affinity_work, refresh_affinity,
              BecomesOffline, AffinityInfo
<1>4. CASE StartBegin \/ rearm_store
  <2>1. ~seenOn' BY <1>4, Zenon DEF StartBegin, rearm_store
  <2>2. state' # "OFFLINE" BY <1>4 DEF StartBegin, rearm_store
  <2> QED BY <2>1, <2>2
<1>5. CASE StopBegin BY <1>5 DEF StopBegin
<1>6. ASSUME NEW p \in Prios,
             \/ doorbell_store(p) \/ user_read(p) \/ rx_callback(p)
             \/ \E k \in {"PING", "STOP"}, rung \in BOOLEAN : user_write(p, k, rung)
      PROVE  PowerInv'
  <2>1. power' = power /\ state' = state /\ seenOn' = seenOn
    BY <1>6 DEF doorbell_store, user_read, rx_callback, user_write
  <2> QED BY <2>1
<1>7. CASE ControlIdle \/ ControlExpired \/ ControlNothing
  BY <1>7 DEF ControlIdle, ControlExpired, ControlNothing, set_timeout, Operation
<1>8. ASSUME NEW n \in 1 .. Capacity, ControlLate(n) PROVE PowerInv'
  BY <1>8 DEF ControlLate, set_timeout, Operation
<1>9. ASSUME NEW n \in 1 .. Capacity, ControlAccept(n) PROVE PowerInv'
  <2>1. c2l[0] # <<>> /\ 0 \in Prios
    BY <1>9, PriosAssumption DEF ControlAccept, AwaitedAt
  <2>2. power # "ON_ACCEPTED"
    BY <1>1, <2>1 DEF Cpu3Inv, Serving
  <2> QED BY <1>9, <2>2 DEF ControlAccept, Operation
<1>10. CASE lifecycle_timeout_work
  BY <1>10 DEF lifecycle_timeout_work, refresh_affinity, set_timeout, Operation, BecomesOffline,
               AffinityInfo
<1>11. CASE PsciPowersOn BY <1>11 DEF PsciPowersOn
<1>12. CASE Cpu3
  BY <1>12 DEF Cpu3, Cpu3Bind, Cpu3Ready, Cpu3Off, Cpu3Isr, Cpu3Serve
<1>13. CASE UNCHANGED vars BY <1>13 DEF vars
<1> QED
  BY <1>2, <1>3, <1>4, <1>5, <1>6, <1>7, <1>8, <1>9, <1>10, <1>11, <1>12, <1>13
     DEF Next, Requests, control_work

-----------------------------------------------------------------------------
(* What the runs do to the image                                             *)

\* The end of a run changes its own part of the script's state only.
LEMMA EndsKeeps ==
  ASSUME ScriptType, UploadInv, NEW r \in Runs, Ends(r), image' = image,
         attempted' = attempted \/ \A s \in Runs \ {r} : ~Writing(s)
  PROVE  /\ author' \in Seq(Runs \cup {Nobody}) /\ UploadInv'
         /\ pc' \in [Runs -> Lines] /\ offset' \in [Runs -> 0 .. ImageSize]
<1> USE DEF ScriptType, UploadInv, Ends
<1>1. pc' \in [Runs -> Lines] /\ offset' \in [Runs -> 0 .. ImageSize]
  BY SizesAssumption DEF Lines
<1>2. author' \in Seq(Runs \cup {Nobody}) /\ Len(author') = Len(author)
  <2>1. /\ DOMAIN author = 1 .. Len(author) /\ Len(author) \in Nat
        /\ \A i \in 1 .. Len(author) : author[i] \in Runs \cup {Nobody}
    BY LenProperties, ElementOfSeq
  <2>2. author' = [i \in 1 .. Len(author) |-> IF author[i] = r THEN Nobody ELSE author[i]]
    BY <2>1
  <2> QED BY <2>1, <2>2
<1>3. ASSUME NEW s \in Runs
      PROVE  /\ pc'[s] \in {"idle", "affinity", "state", "rearm"} => offset'[s] = 0
             /\ pc'[s] = "start" => offset'[s] = ImageSize
             /\ Writing(s)' => ~attempted' /\ author' = [i \in 1 .. offset'[s] |-> s]
  <2>1. CASE s = r
    <3>1. pc'[s] = "idle" /\ offset'[s] = 0 BY <2>1
    <3> QED BY <3>1 DEF Writing
  <2>2. CASE s # r
    <3>1. pc'[s] = pc[s] /\ offset'[s] = offset[s] BY <2>2
    <3>2. ASSUME Writing(s)'
          PROVE  ~attempted' /\ author' = [i \in 1 .. offset'[s] |-> s]
      <4>1. Writing(s) BY <3>1, <3>2 DEF Writing
      <4>2. ~attempted /\ author = [i \in 1 .. offset[s] |-> s] BY <4>1
      <4>3. author' = author BY <2>2, <4>2
      <4> QED BY <2>2, <3>1, <4>1, <4>2, <4>3
    <3> QED BY <3>1, <3>2
  <2> QED BY <2>1, <2>2
<1> QED BY <1>1, <1>2, <1>3

\* So does a run that goes on to a line after the start.
LEMMA GoKeeps ==
  ASSUME ScriptType, UploadInv, NEW r \in Runs,
         NEW line \in {"look", "verdict", "stop", "stop-look"}, Go(r, line), image' = image,
         attempted' = attempted \/ \A s \in Runs \ {r} : ~Writing(s)
  PROVE  ScriptType' /\ UploadInv'
<1> USE DEF ScriptType, UploadInv, Go
<1>1. ScriptType' BY DEF Lines
<1>2. ASSUME NEW s \in Runs
      PROVE  /\ pc'[s] \in {"idle", "affinity", "state", "rearm"} => offset'[s] = 0
             /\ pc'[s] = "start" => offset'[s] = ImageSize
             /\ Writing(s)' => ~attempted' /\ author' = [i \in 1 .. offset'[s] |-> s]
  <2>1. CASE s = r BY <2>1 DEF Writing
  <2>2. CASE s # r BY <2>2 DEF Writing
  <2> QED BY <2>1, <2>2
<1> QED BY <1>1, <1>2

\* At most one run works on the image.
LEMMA OneWriter ==
  ASSUME ScriptType, UploadInv, NEW r \in Runs, NEW s \in Runs, Writing(r), Writing(s)
  PROVE  r = s
<1>1. /\ offset[r] \in Nat \ {0}
      /\ author = [i \in 1 .. offset[r] |-> r] /\ author = [i \in 1 .. offset[s] |-> s]
  BY SizesAssumption DEF ScriptType, UploadInv, Writing
<1>2. author[1] = r /\ DOMAIN author = 1 .. offset[r] BY <1>1
<1>3. 1 \in 1 .. offset[r] BY <1>1
<1>4. 1 \in 1 .. offset[s] BY <1>1, <1>2, <1>3
<1> QED BY <1>1, <1>2, <1>4

\* A chunk that is written is the run's next one: all before it are its own.
LEMMA UploadKeeps ==
  ASSUME ScriptType, UploadInv, NEW r \in Runs, pc[r] = "upload", AtOffset(r), image_write,
         offset' = [offset EXCEPT ![r] = @ + 1], author' = Append(author, r),
         pc' = [pc EXCEPT ![r] = IF offset'[r] = ImageSize THEN "start" ELSE "upload"],
         kills' = kills
  PROVE  ScriptType' /\ UploadInv'
<1> USE SizesAssumption DEF ScriptType
<1>1. /\ image' = image + 1 /\ ~attempted /\ attempted' = attempted /\ image < ImageSize
      /\ offset[r] = Len(author) /\ image = Len(author) /\ Len(author) \in Nat
      /\ offset'[r] = offset[r] + 1
  BY LenProperties DEF image_write, AtOffset, UploadInv
<1>2. author = [i \in 1 .. offset[r] |-> r]
  <2>1. CASE offset[r] = 0
    <3>1. author = <<>> BY <1>1, <2>1, EmptySeq
    <3> QED BY <2>1, <3>1
  <2>2. CASE offset[r] # 0
    <3>1. Writing(r) BY <1>1, <2>2 DEF Writing
    <3> QED BY <3>1 DEF UploadInv
  <2> QED BY <2>1, <2>2
<1>3. /\ author' \in Seq(Runs \cup {Nobody}) /\ Len(author') = Len(author) + 1
      /\ author' = [i \in 1 .. offset[r] + 1 |-> r]
  <2>1. /\ Append(author, r) \in Seq(Runs \cup {Nobody}) /\ Len(Append(author, r)) = Len(author) + 1
        /\ \A i \in 1 .. Len(author) : Append(author, r)[i] = author[i]
        /\ Append(author, r)[Len(author) + 1] = r
    BY AppendProperties
  <2>2. DOMAIN Append(author, r) = 1 .. Len(author) + 1 BY <2>1, LenProperties
  <2>3. \A i \in 1 .. Len(author) + 1 : Append(author, r)[i] = r
    BY <1>1, <1>2, <2>1
  <2>4. Append(author, r) \in [1 .. Len(author) + 1 -> Runs \cup {Nobody}]
    BY <2>1, ElementOfSeq, LenProperties
  <2>5. Append(author, r) = [i \in 1 .. offset[r] + 1 |-> r]
    BY <1>1, <2>2, <2>3, <2>4
  <2> QED BY <2>1, <2>5
<1>4. pc' \in [Runs -> Lines] /\ offset' \in [Runs -> 0 .. ImageSize]
  BY <1>1 DEF Lines
<1>5. ASSUME NEW s \in Runs
      PROVE  /\ pc'[s] \in {"idle", "affinity", "state", "rearm"} => offset'[s] = 0
             /\ pc'[s] = "start" => offset'[s] = ImageSize
             /\ Writing(s)' => ~attempted' /\ author' = [i \in 1 .. offset'[s] |-> s]
  <2>1. CASE s = r
    <3>1. pc'[s] \in {"upload", "start"} /\ (pc'[s] = "start" => offset'[s] = ImageSize)
      BY <2>1
    <3> QED BY <1>1, <1>3, <2>1, <3>1
  <2>2. CASE s # r
    <3>1. pc'[s] = pc[s] /\ offset'[s] = offset[s] BY <2>2
    <3>2. ~Writing(s)
      <4> SUFFICES ASSUME Writing(s) PROVE FALSE
        OBVIOUS
      <4>1. author = [i \in 1 .. offset[s] |-> s] /\ offset[s] \in Nat \ {0}
        BY DEF UploadInv, Writing
      <4>2. offset[s] = Len(author) BY <4>1
      <4>3. Writing(r) BY <1>1, <4>1, <4>2 DEF Writing
      <4> QED BY <2>2, <4>3, OneWriter
    <3> QED BY <3>1, <3>2 DEF UploadInv, Writing
  <2> QED BY <2>1, <2>2
<1> QED BY <1>1, <1>3, <1>4, <1>5 DEF UploadInv

\* A run on its way to the image has written nothing yet.
LEMMA ApproachKeeps ==
  ASSUME ScriptType, UploadInv, NEW r \in Runs,
         pc[r] \in {"idle", "affinity", "state", "rearm"},
         NEW line \in {"affinity", "state", "rearm", "upload", "stop-affinity"},
         pc' = [pc EXCEPT ![r] = line],
         offset' = offset, kills' = kills, attempted' = attempted,
         author' = author, image' = image
  PROVE  ScriptType' /\ UploadInv'
<1> USE DEF ScriptType, UploadInv
<1>1. ScriptType' /\ image' = Len(author') BY EmptySeq DEF Lines
<1>2. ASSUME NEW s \in Runs
      PROVE  /\ pc'[s] \in {"idle", "affinity", "state", "rearm"} => offset'[s] = 0
             /\ pc'[s] = "start" => offset'[s] = ImageSize
             /\ Writing(s)' => ~attempted' /\ author' = [i \in 1 .. offset'[s] |-> s]
  <2>1. CASE s = r
    <3>1. pc'[s] = line /\ offset'[s] = 0 BY <2>1
    <3> QED BY <3>1 DEF Writing
  <2>2. CASE s # r
    <3>1. pc'[s] = pc[s] /\ offset'[s] = offset[s] BY <2>2
    <3>2. Writing(s)' => Writing(s) BY <3>1 DEF Writing
    <3> QED BY <3>1, <3>2
  <2> QED BY <2>1, <2>2
<1> QED BY <1>1, <1>2

\* Every step keeps the runs apart on the image.
LEMMA StepUpload ==
  ASSUME ScriptInv, [ScriptNext]_allvars
  PROVE  ScriptType' /\ UploadInv'
<1>0. ScriptType /\ UploadInv BY DEF ScriptInv
<1> USE <1>0 DEF vars, session
<1>1. CASE World
  <2>1. UNCHANGED scripts /\ image' = image /\ attempted' = attempted BY <1>1, WorldKeeps
  <2> QED BY <2>1 DEF scripts, ScriptType, UploadInv, Writing
<1>2. ASSUME NEW r \in Runs, ReadAffinity(r) PROVE ScriptType' /\ UploadInv'
  BY <1>2, ApproachKeeps DEF ReadAffinity, affinity_state_show
<1>3. ASSUME NEW r \in Runs, ReadState(r) PROVE ScriptType' /\ UploadInv'
  <2>1. CASE sawOn[r]
    <3>1. Ends(r) /\ image' = image /\ attempted' = attempted /\ kills' = kills
      BY <1>3, <2>1 DEF ReadState, Exit
    <3> QED BY <3>1, EndsKeeps DEF ScriptType
  <2>2. CASE ~sawOn[r] BY <1>3, <2>2, ApproachKeeps DEF ReadState
  <2> QED BY <2>1, <2>2
<1>4. ASSUME NEW r \in Runs, Rearm(r) PROVE ScriptType' /\ UploadInv'
  <2>1. CASE /\ rearm_store
             /\ pc' = [pc EXCEPT ![r] = "upload"]
             /\ author' = <<>>
             /\ UNCHANGED <<sawOn, offset, crossed, kills>>
    <3>1. ASSUME NEW s \in Runs PROVE ~Writing(s)
      BY <2>1 DEF rearm_store, UploadInv
    <3>2. ScriptType' /\ image' = Len(author')
      BY <2>1, EmptySeq DEF rearm_store, ScriptType, Lines
    <3>3. ASSUME NEW s \in Runs
          PROVE  /\ pc'[s] \in {"idle", "affinity", "state", "rearm"} => offset'[s] = 0
                 /\ pc'[s] = "start" => offset'[s] = ImageSize
                 /\ ~Writing(s)'
      <4>1. CASE s = r BY <1>4, <2>1, <4>1 DEF Rearm, ScriptType, UploadInv, Writing
      <4>2. CASE s # r BY <2>1, <3>1, <4>2 DEF ScriptType, UploadInv, Writing
      <4> QED BY <4>1, <4>2
    <3> QED BY <3>2, <3>3 DEF UploadInv
  <2>2. CASE (RearmBusy \/ UNCHANGED vars) /\ Exit(r)
    <3>1. Ends(r) /\ image' = image /\ attempted' = attempted /\ kills' = kills
      BY <2>2 DEF RearmBusy, Exit
    <3> QED BY <3>1, EndsKeeps DEF ScriptType
  <2> QED BY <1>4, <2>1, <2>2 DEF Rearm
<1>5. ASSUME NEW r \in Runs, Upload(r) PROVE ScriptType' /\ UploadInv'
  <2>1. CASE Exit(r) /\ UNCHANGED vars
    <3>1. Ends(r) /\ image' = image /\ attempted' = attempted /\ kills' = kills
      BY <2>1 DEF Exit
    <3> QED BY <3>1, EndsKeeps DEF ScriptType
  <2>2. CASE ~(Exit(r) /\ UNCHANGED vars)
    BY <1>5, <2>2, UploadKeeps DEF Upload
  <2> QED BY <2>1, <2>2
<1>6. ASSUME NEW r \in Runs, StartWrite(r) PROVE ScriptType' /\ UploadInv'
  <2>1. \A s \in Runs \ {r} : ~Writing(s)
    BY <1>6, OneWriter DEF StartWrite, Writing
  <2>2. image' = image
    BY <1>6 DEF StartWrite, StartBegin, StartBusy
  <2>3. CASE Go(r, "look") BY <2>1, <2>2, <2>3, GoKeeps
  <2>4. CASE Exit(r)
    <3>1. Ends(r) /\ kills' = kills BY <2>4 DEF Exit
    <3> QED BY <2>1, <2>2, <3>1, EndsKeeps DEF ScriptType
  <2> QED BY <1>6, <2>3, <2>4 DEF StartWrite
<1>7. ASSUME NEW r \in Runs, LookAgain(r) PROVE ScriptType' /\ UploadInv'
  BY <1>7, GoKeeps DEF LookAgain, affinity_state_show
<1>8. ASSUME NEW r \in Runs, Verdict(r) \/ StopLook(r) PROVE ScriptType' /\ UploadInv'
  <2>1. Ends(r) /\ image' = image /\ attempted' = attempted /\ kills' = kills
    BY <1>8 DEF Verdict, StopLook, affinity_state_show, Exit
  <2> QED BY <2>1, EndsKeeps DEF ScriptType
<1>9. ASSUME NEW r \in Runs, StopAffinity(r) \/ StopWrite(r) PROVE ScriptType' /\ UploadInv'
  <2>1. image' = image /\ attempted' = attempted
    BY <1>9 DEF StopAffinity, StopWrite, affinity_state_show, StopBegin
  <2>2. CASE Go(r, "stop") \/ Go(r, "stop-look") BY <2>1, <2>2, GoKeeps
  <2>3. CASE Exit(r)
    <3>1. Ends(r) /\ kills' = kills BY <2>3 DEF Exit
    <3> QED BY <2>1, <3>1, EndsKeeps DEF ScriptType
  <2> QED BY <1>9, <2>2, <2>3 DEF StopAffinity, StopWrite
<1>10. ASSUME NEW r \in Runs, Kill(r) PROVE ScriptType' /\ UploadInv'
  <2>1. Ends(r) /\ image' = image /\ attempted' = attempted /\ kills' = kills + 1
    BY <1>10 DEF Kill
  <2> QED BY <2>1, EndsKeeps DEF ScriptType
<1>11. ASSUME NEW r \in Runs, Run(r, "affinity") \/ Run(r, "stop-affinity")
       PROVE  ScriptType' /\ UploadInv'
  <2>1. /\ pc[r] = "idle" /\ offset' = offset /\ author' = author /\ kills' = kills
        /\ image' = image /\ attempted' = attempted
    BY <1>11 DEF Run
  <2>2. CASE Run(r, "affinity") BY <2>1, <2>2, ApproachKeeps DEF Run
  <2>3. CASE Run(r, "stop-affinity") BY <2>1, <2>3, ApproachKeeps DEF Run
  <2> QED BY <1>11, <2>2, <2>3
<1>12. CASE UNCHANGED allvars
  BY <1>12 DEF allvars, scripts, ScriptType, UploadInv, Writing
<1> QED
  BY <1>1, <1>2, <1>3, <1>4, <1>5, <1>6, <1>7, <1>8, <1>9, <1>10, <1>11, <1>12
     DEF ScriptNext, Step

-----------------------------------------------------------------------------
(* Runs that are alone                                                       *)

\* A step of a run leaves the others where they are, and only the look at the
\* state leads to a rearm.
LEMMA StepOfRun ==
  ASSUME ScriptType, NEW r \in Runs, Step(r)
  PROVE  /\ pc[r] # "idle" /\ crossed' = crossed /\ kills' = kills
         /\ pc' \in [Runs -> Lines]
         /\ \A s \in Runs \ {r} : pc'[s] = pc[s] /\ offset'[s] = offset[s]
         /\ pc'[r] = "rearm" => state' = "OFFLINE"
<1> USE DEF ScriptType, Lines, Ends, Exit, Go, vars, session
<1>1. CASE ReadAffinity(r) \/ LookAgain(r) \/ Verdict(r)
  BY <1>1 DEF ReadAffinity, LookAgain, Verdict
<1>2. CASE ReadState(r) BY <1>2 DEF ReadState, NeedsRearm
<1>3. CASE Rearm(r) BY <1>3 DEF Rearm
<1>4. CASE Upload(r)
  <2>1. CASE Exit(r) BY <1>4, <2>1 DEF Upload
  <2>2. CASE ~Exit(r) BY <1>4, <2>2 DEF Upload
  <2> QED BY <2>1, <2>2
<1>5. CASE StartWrite(r) BY <1>5 DEF StartWrite
<1>6. CASE StopAffinity(r) \/ StopWrite(r) \/ StopLook(r)
  BY <1>6 DEF StopAffinity, StopWrite, StopLook
<1> QED BY <1>1, <1>2, <1>3, <1>4, <1>5, <1>6 DEF Step

\* A step of a run that is alone leaves CPU3 off as long as no start is attempted.
LEMMA StepOfRunPower ==
  ASSUME ScriptInv, NEW r \in Runs, Step(r), ~crossed, ~attempted'
  PROVE  power' = "OFF"
<1>0. PowerInv /\ ScriptType /\ (~attempted => power = "OFF")
      /\ (pc[r] = "rearm" => state = "OFFLINE")
  BY DEF ScriptInv, AloneInv
<1> USE DEF vars, session, peer
<1>1. CASE ReadAffinity(r) \/ LookAgain(r) \/ Verdict(r) \/ StopAffinity(r) \/ StopLook(r)
           \/ ReadState(r)
  BY <1>0, <1>1 DEF ReadAffinity, LookAgain, Verdict, StopAffinity, StopLook, ReadState,
                    affinity_state_show
<1>2. CASE Rearm(r)
  <2>1. power = "OFF" BY <1>0, <1>2 DEF Rearm, PowerInv
  <2> QED BY <1>2, <2>1 DEF Rearm, rearm_store, RearmBusy
<1>3. CASE Upload(r) BY <1>0, <1>3 DEF Upload, image_write
<1>4. CASE StartWrite(r)
  <2>1. ~StartBegin BY Zenon DEF StartBegin
  <2> QED BY <1>0, <1>4, <2>1 DEF StartWrite, StartBusy
<1>5. CASE StopWrite(r) BY <1>0, <1>5 DEF StopWrite, StopBegin
<1> QED BY <1>1, <1>2, <1>3, <1>4, <1>5 DEF Step

\* Every step keeps what is said of runs that are alone.
LEMMA StepAlone ==
  ASSUME ScriptInv, [ScriptNext]_allvars
  PROVE  AloneInv'
<1>0. ScriptType /\ AloneInv BY DEF ScriptInv
<1>1. CASE World
  BY <1>0, <1>1, WorldKeeps DEF scripts, AloneInv
<1>2. ASSUME NEW r \in Runs, Step(r) PROVE AloneInv'
  <2> SUFFICES ASSUME ~crossed'
               PROVE  /\ \A s, t \in Runs : pc'[s] # "idle" /\ pc'[t] # "idle" => s = t
                      /\ \A s \in Runs : pc'[s] = "rearm" => state' = "OFFLINE"
                      /\ ~attempted' => power' = "OFF"
    BY DEF AloneInv
  <2>1. /\ pc[r] # "idle" /\ ~crossed /\ \A s \in Runs \ {r} : pc'[s] = pc[s]
        /\ pc'[r] = "rearm" => state' = "OFFLINE"
    BY <1>0, <1>2, StepOfRun
  <2>2. \A s \in Runs \ {r} : pc'[s] = "idle" BY <1>0, <2>1 DEF AloneInv
  <2>3. ~attempted' => power' = "OFF" BY <1>2, <2>1, StepOfRunPower
  <2> QED BY <2>1, <2>2, <2>3
<1>3. ASSUME NEW r \in Runs, Kill(r) PROVE AloneInv'
  BY <1>0, <1>3 DEF Kill, Ends, vars, session, peer, AloneInv, ScriptType
<1>4. ASSUME NEW r \in Runs, Run(r, "affinity") \/ Run(r, "stop-affinity") PROVE AloneInv'
  <2> SUFFICES ASSUME ~crossed'
               PROVE  /\ \A s, t \in Runs : pc'[s] # "idle" /\ pc'[t] # "idle" => s = t
                      /\ \A s \in Runs : pc'[s] = "rearm" => state' = "OFFLINE"
                      /\ ~attempted' => power' = "OFF"
    BY DEF AloneInv
  <2>1. ~crossed /\ \A s \in Runs \ {r} : pc[s] = "idle" BY <1>4 DEF Run
  <2>2. /\ pc'[r] \in {"affinity", "stop-affinity"} /\ \A s \in Runs \ {r} : pc'[s] = pc[s]
        /\ power' = power /\ attempted' = attempted
    BY <1>0, <1>4 DEF Run, ScriptType, vars, session, peer
  <2> QED BY <1>0, <2>1, <2>2 DEF AloneInv
<1>5. CASE UNCHANGED allvars
  BY <1>0, <1>5 DEF allvars, vars, session, peer, scripts, AloneInv
<1> QED BY <1>1, <1>2, <1>3, <1>4, <1>5 DEF ScriptNext

\* Every step keeps a run with what has been written of an image.
LEMMA StepLeftover ==
  ASSUME ScriptInv, [ScriptNext]_allvars
  PROVE  LeftoverInv'
<1>0. ScriptType /\ UploadInv /\ AloneInv /\ LeftoverInv BY DEF ScriptInv
<1>1. CASE World
  BY <1>0, <1>1, WorldKeeps DEF scripts, LeftoverInv
<1>2. ASSUME NEW r \in Runs, Step(r) PROVE LeftoverInv'
  <2> SUFFICES ASSUME ~crossed', kills' = 0, ~attempted'
               PROVE  \/ image' = 0
                      \/ \E s \in Runs : pc'[s] \in {"upload", "start"} /\ offset'[s] = image'
    BY DEF LeftoverInv
  <2>1. /\ pc[r] # "idle" /\ ~crossed /\ kills = 0
        /\ \A s \in Runs \ {r} : pc'[s] = pc[s] /\ offset'[s] = offset[s]
    BY <1>0, <1>2, StepOfRun
  <2>2. \A s \in Runs \ {r} : pc[s] = "idle" BY <1>0, <2>1 DEF AloneInv
  <2>3. ~attempted => image = 0 \/ (pc[r] \in {"upload", "start"} /\ offset[r] = image)
    BY <1>0, <2>1, <2>2 DEF LeftoverInv
  <2> USE DEF vars, session
  <2>4. CASE ReadAffinity(r) \/ LookAgain(r) \/ Verdict(r) \/ StopAffinity(r) \/ StopLook(r)
             \/ ReadState(r)
    <3>1. image' = image /\ attempted' = attempted /\ pc[r] \notin {"upload", "start"}
      BY <2>4 DEF ReadAffinity, LookAgain, Verdict, StopAffinity, StopLook, ReadState,
                  affinity_state_show
    <3> QED BY <2>3, <3>1
  <2>5. CASE Rearm(r)
    <3>1. image' = 0 \/ (image' = image /\ attempted' = attempted) BY <2>5 DEF Rearm, rearm_store, RearmBusy
    <3>2. pc[r] = "rearm" BY <2>5 DEF Rearm
    <3> QED BY <2>3, <3>1, <3>2
  <2>6. CASE Upload(r)
    <3>1. CASE AtOffset(r) /\ image_write
      <4>1. image' = image + 1 /\ pc[r] = "upload" /\ image \in Nat
        BY <1>0, <2>6, <3>1, LenProperties DEF Upload, image_write, UploadInv, ScriptType
      <4>2. ~Exit(r)
        BY <3>1, <4>1, <1>0, StepUpload, LenProperties DEF Exit, Ends, UploadInv, ScriptType
      <4>3. pc'[r] \in {"upload", "start"} /\ offset'[r] = offset[r] + 1
        BY <1>0, <2>6, <4>2 DEF Upload, ScriptType
      <4> QED BY <3>1, <4>1, <4>3 DEF AtOffset
    <3>2. CASE ~(AtOffset(r) /\ image_write)
      <4>1. UNCHANGED vars /\ (attempted \/ ~AtOffset(r)) BY <2>6, <3>2 DEF Upload
      <4> QED BY <2>3, <4>1 DEF AtOffset
    <3> QED BY <3>1, <3>2
  <2>7. CASE StartWrite(r)
    <3>1. pc[r] = "start" /\ ~StartBegin BY <2>7, Zenon DEF StartWrite, StartBegin
    <3>2. ~attempted /\ offset[r] = ImageSize /\ image = ImageSize
      <4>1. ~attempted /\ offset[r] = ImageSize /\ author = [i \in 1 .. ImageSize |-> r]
        BY <1>0, <3>1 DEF UploadInv, Writing
      <4>2. image = Len(author) BY <1>0 DEF UploadInv
      <4> QED BY <4>1, <4>2, SizesAssumption
    <3>3. power = "OFF" BY <1>0, <2>1, <3>2 DEF AloneInv
    <3>4. ~StartBusy BY <3>3 DEF StartBusy, AffinityInfo
    <3> QED BY <2>7, <3>1, <3>2, <3>4 DEF StartWrite
  <2>8. CASE StopWrite(r)
    <3>1. image' = image /\ attempted' = attempted /\ pc[r] = "stop"
      BY <2>8 DEF StopWrite, StopBegin
    <3> QED BY <2>3, <3>1
  <2> QED BY <1>2, <2>4, <2>5, <2>6, <2>7, <2>8 DEF Step
<1>3. ASSUME NEW r \in Runs, Kill(r) PROVE LeftoverInv'
  <2>1. kills' # 0 BY <1>0, <1>3 DEF Kill, ScriptType
  <2> QED BY <2>1 DEF LeftoverInv
<1>4. ASSUME NEW r \in Runs, Run(r, "affinity") \/ Run(r, "stop-affinity") PROVE LeftoverInv'
  <2>1. /\ crossed' = (crossed \/ \E s \in Runs \ {r} : pc[s] # "idle")
        /\ kills' = kills /\ attempted' = attempted /\ image' = image /\ offset' = offset
        /\ pc[r] = "idle" /\ \A s \in Runs \ {r} : pc'[s] = pc[s]
    BY <1>0, <1>4 DEF Run, ScriptType, vars, session
  <2> QED BY <1>0, <2>1 DEF LeftoverInv
<1>5. CASE UNCHANGED allvars
  BY <1>0, <1>5 DEF allvars, vars, session, scripts, LeftoverInv
<1> QED BY <1>1, <1>2, <1>3, <1>4, <1>5 DEF ScriptNext

-----------------------------------------------------------------------------
\* Nothing is loaded, started or under way at first.
LEMMA InitScriptInv == ScriptInit => ScriptInv
<1> SUFFICES ASSUME ScriptInit PROVE ScriptInv
  OBVIOUS
<1>1. IInv BY InitIInv DEF ScriptInit
<1>2. ScriptType /\ UploadInv
  BY SizesAssumption, EmptySeq DEF ScriptInit, Init, ScriptType, Lines, UploadInv, Writing
<1>3. PowerInv /\ AloneInv /\ LeftoverInv
  BY DEF ScriptInit, Init, PowerInv, AloneInv, LeftoverInv
<1> QED BY <1>1, <1>2, <1>3 DEF ScriptInv

\* Every step keeps the invariant.
LEMMA NextScriptInv == ScriptInv /\ [ScriptNext]_allvars => ScriptInv'
<1> SUFFICES ASSUME ScriptInv, [ScriptNext]_allvars PROVE ScriptInv'
  OBVIOUS
<1>1. [Next]_vars /\ IInv /\ PowerInv BY ScriptStepIsDriverStep DEF ScriptInv
<1>2. IInv' /\ PowerInv' BY <1>1, NextIInv, StepPower
<1> QED BY <1>2, StepUpload, StepAlone, StepLeftover DEF ScriptInv

\* The script, its interruptions and the world around it are a behaviour of the
\* driver's lifecycle, so what Lifecycle promises holds under the script.
THEOREM ScriptObeysLifecycle == ScriptSpec => Init /\ [][Next]_vars
<1>1. ScriptInit => Init BY DEF ScriptInit
<1>2. [ScriptNext]_allvars => [Next]_vars BY ScriptStepIsDriverStep
<1> QED BY <1>1, <1>2, PTL DEF ScriptSpec

\* The inductive invariant holds throughout.
THEOREM ScriptInvariant == ScriptSpec => []ScriptInv
  BY InitScriptInv, NextScriptInv, PTL DEF ScriptSpec

\* A run that writes "start" has written every chunk of the image in place, however
\* many runs of start_zephyr() overlap and wherever they are interrupted.
THEOREM ImageIsOwn == ScriptSpec => []OwnImageStarted
<1>1. ScriptInv => OwnImageStarted
  BY DEF ScriptInv, UploadInv, Writing, OwnImageStarted
<1> QED BY <1>1, ScriptInvariant, PTL

\* Runs that do not overlap never rewrite the image of a CPU3 that is on or is
\* being powered on, although rearm_store() would let them.
THEOREM UploadsMeetOff == ScriptSpec => []UploadsWhileOff
<1>1. ScriptInv => UploadsWhileOff
  BY DEF ScriptInv, UploadInv, Writing, AloneInv, UploadsWhileOff
<1> QED BY <1>1, ScriptInvariant, PTL

\* Without overlap and interruption no upload meets a part of an earlier image.
THEOREM NothingIsLeftOver == ScriptSpec => []NoLeftoverImage
<1>1. ASSUME ScriptInv PROVE NoLeftoverImage
  <2> SUFFICES ASSUME ~crossed, kills = 0, NEW r \in Runs, pc[r] = "upload", ~attempted
               PROVE  offset[r] = image
    BY DEF NoLeftoverImage, AtOffset
  <2>1. CASE image = 0
    <3>1. ScriptType /\ UploadInv BY <1>1 DEF ScriptInv
    <3>2. ASSUME offset[r] > 0 PROVE FALSE
      <4>1. author = [i \in 1 .. offset[r] |-> r] /\ Len(author) = 0
        BY <2>1, <3>1, <3>2 DEF UploadInv, Writing
      <4> QED BY <3>1, <3>2, <4>1, SizesAssumption DEF ScriptType
    <3> QED BY <2>1, <3>1, <3>2, SizesAssumption DEF ScriptType
  <2>2. CASE image # 0
    <3>1. PICK s \in Runs : pc[s] \in {"upload", "start"} /\ offset[s] = image
      BY <1>1, <2>2 DEF ScriptInv, LeftoverInv
    <3>2. s = r BY <1>1, <3>1 DEF ScriptInv, AloneInv
    <3> QED BY <3>1, <3>2
  <2> QED BY <2>1, <2>2
<1> QED BY <1>1, ScriptInvariant, PTL

=============================================================================
