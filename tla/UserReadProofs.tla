--------------------------- MODULE UserReadProofs ---------------------------
(***************************************************************************)
(* For any number of files, threads and slots: the reader claim is         *)
(* exclusive and no blocked thread misses its wakeup.                      *)
(***************************************************************************)
EXTENDS UserRead, TLAPS

\* The conjunction is inductive as it stands.
IInv == TypeOK /\ OneReader /\ NoLostWakeup /\ NoSleepOffline

\* A driver without open files satisfies it.
LEMMA InitIInv == Init => IInv
<1> SUFFICES ASSUME Init PROVE IInv
  OBVIOUS
<1>1. TypeOK
  <2>1. event \in [Threads -> BOOLEAN] /\ b2a \in BOOLEAN /\ irq \in BOOLEAN
    BY Zenon DEF Init
  <2>2. /\ pc \in [Threads -> {"idle", "snapshot", "check", "wait"}]
        /\ file \in [Threads -> Files \cup {NoFile}]
        /\ mode \in [Threads -> {"read", "poll"}]
    BY Zenon DEF Init
  <2> QED BY <2>1, <2>2, SizeAssumption DEF Init, TypeOK
<1>2. OneReader BY DEF Init, OneReader
<1>3. NoLostWakeup /\ NoSleepOffline BY DEF Init, NoLostWakeup, NoSleepOffline
<1> QED BY <1>1, <1>2, <1>3 DEF IInv

\* Every step of a file, a thread, CPU3 or the mailbox interrupt preserves it.
LEMMA NextIInv == IInv /\ [Next]_vars => IInv'
<1> SUFFICES ASSUME IInv, [Next]_vars PROVE IInv'
  OBVIOUS
<1> USE SizeAssumption DEF IInv, TypeOK, OneReader, NoLostWakeup, NoSleepOffline, NoFile, fvars, tvars
<1>1. CASE Cpu3Push BY <1>1 DEF Cpu3Push
<1>2. CASE Cpu3Notify BY <1>2 DEF Cpu3Notify
<1>3. CASE IrqClear BY <1>3 DEF IrqClear
<1>4. CASE rx_callback BY <1>4 DEF rx_callback, AllWoken
<1>5. CASE mark_offline BY <1>5 DEF mark_offline, AllWoken
<1>6. CASE NewSession BY <1>6 DEF NewSession
<1>7. CASE mailmsg_response_show BY <1>7 DEF mailmsg_response_show
<1>8. ASSUME NEW f \in Files, user_open(f) PROVE IInv'
  BY <1>8 DEF user_open
<1>9. ASSUME NEW f \in Files, user_release(f) PROVE IInv'
  BY <1>9 DEF user_release
<1>10. ASSUME NEW t \in Threads, Snapshot(t) PROVE IInv'
  BY <1>10 DEF Snapshot
<1>11. ASSUME NEW t \in Threads, CheckReturns(t) PROVE IInv'
  BY <1>11 DEF CheckReturns, Return
<1>12. ASSUME NEW t \in Threads, CheckSleeps(t) PROVE IInv'
  BY <1>12 DEF CheckSleeps
<1>13. ASSUME NEW t \in Threads, Wake(t) PROVE IInv'
  BY <1>13 DEF Wake
<1>14. ASSUME NEW t \in Threads, GiveUp(t) PROVE IInv'
  BY <1>14 DEF GiveUp, Return
<1>15. ASSUME NEW t \in Threads, NEW f \in Files, NEW m \in {"read", "poll"},
              Call(t, f, m) PROVE IInv'
  BY <1>15 DEF Call, claim_reader, CanClaim
<1>16. CASE UNCHANGED vars BY <1>16 DEF vars
<1> QED
  BY <1>1, <1>2, <1>3, <1>4, <1>5, <1>6, <1>7, <1>8, <1>9, <1>10, <1>11, <1>12,
     <1>13, <1>14, <1>15, <1>16 DEF Next, Run

\* The inductive invariant holds throughout: type correctness, one reader per
\* priority and no lost wakeup together.
THEOREM ReaderInvariant == Spec => []IInv
  BY InitIInv, NextIInv, PTL DEF Spec

\* Type correctness.
THEOREM TypeCorrect == Spec => []TypeOK
<1>1. IInv => TypeOK BY DEF IInv
<1> QED BY <1>1, ReaderInvariant, PTL

\* claim_reader() and release keep at most one reader per priority, however many
\* files are open and threads are in read() and poll().
THEOREM ReaderIsUnique == Spec => []OneReader
<1>1. IInv => OneReader BY DEF IInv
<1> QED BY <1>1, ReaderInvariant, PTL

\* The snapshot-before-check order of read() and poll() loses no doorbell.
THEOREM WakeupsAreNotLost == Spec => []NoLostWakeup
<1>1. IInv => NoLostWakeup BY DEF IInv
<1> QED BY <1>1, ReaderInvariant, PTL

\* mark_offline_locked() reaches every sleeper.
THEOREM OfflineWakesAll == Spec => []NoSleepOffline
<1>1. IInv => NoSleepOffline BY DEF IInv
<1> QED BY <1>1, ReaderInvariant, PTL

=============================================================================
