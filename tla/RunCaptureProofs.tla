-------------------------- MODULE RunCaptureProofs --------------------------
(***************************************************************************)
(* What holds of run_capture for every limit, pipe capacity and amount of  *)
(* output: it returns complete results only, and leaves nothing of the     *)
(* group it killed.                                                        *)
(***************************************************************************)
EXTENDS RunCapture, TLAPS

(* Types of all variables are kept by every step of every thread and of the child. *)
LEMMA TypeStep == TypeOK /\ [Next]_vars => TypeOK'
<1> SUFFICES ASSUME TypeOK, [Next]_vars PROVE TypeOK'
  OBVIOUS
<1>0. TypeOK
  OBVIOUS
<1> USE SizesAssumption, SwitchesAssumption DEF Streams, Processes
<1>1. ASSUME NEW s \in Streams, Write(s)
      PROVE  TypeOK'
  BY <1>1, <1>0 DEF TypeOK, Write, procVars, dataVars, readerVars, envVars, callVars
<1>2. ASSUME NEW s \in Streams, NEW p \in Processes, CloseStream(p, s)
      PROVE  TypeOK'
  BY <1>2, <1>0 DEF TypeOK, CloseStream, procVars, dataVars, readerVars, envVars, callVars
<1>3. CASE Fork
  BY <1>3, <1>0 DEF TypeOK, Fork, procVars, dataVars, readerVars, envVars, callVars
<1>4. ASSUME NEW p \in Processes, Exit(p)
      PROVE  TypeOK'
  BY <1>4, <1>0 DEF TypeOK, Exit, Alive, Without, Dead, procVars, dataVars, readerVars, envVars, callVars
<1>5. CASE Cancel
  BY <1>5, <1>0 DEF TypeOK, Cancel, procVars, dataVars, readerVars, envVars, callVars
<1>6. CASE Elapse
  BY <1>6, <1>0 DEF TypeOK, Elapse, procVars, dataVars, readerVars, envVars, callVars
<1>7. ASSUME NEW s \in Streams, Read(s)
      PROVE  TypeOK'
  <2>1. PICK n \in 1..pipe[s] :
          LET fits == Least(Available(s), n)
          IN /\ pipe' = [pipe EXCEPT ![s] = @ - n]
             /\ kept' = [kept EXCEPT ![s] = @ + fits]
             /\ lost' = [lost EXCEPT ![s] = @ + (n - fits)]
    BY <1>7 DEF Read
  <2>2. pipe[s] \in Nat /\ kept[s] \in 0..Limit /\ lost[s] \in Nat
    BY <1>0 DEF TypeOK
  <2>3. /\ Least(Available(s), n) \in Nat
        /\ Least(Available(s), n) <= n
        /\ kept[s] + Least(Available(s), n) \in 0..Limit
    BY <2>2 DEF Least, Available
  <2>4. pipe[s] - n \in Nat /\ lost[s] + (n - Least(Available(s), n)) \in Nat
    BY <2>2, <2>3
  <2>5. pipe' \in [Streams -> Nat] /\ kept' \in [Streams -> 0..Limit] /\ lost' \in [Streams -> Nat]
    BY <1>0, <2>1, <2>3, <2>4 DEF TypeOK
  <2>6. exceeded' \in [Streams -> BOOLEAN] /\ failed' \in [Streams -> BOOLEAN] /\ reader' \in [Streams -> {"reading", "done"}]
    <3>1. /\ failed' = failed
          /\ \/ exceeded' = exceeded /\ reader' = reader
             \/ /\ exceeded' = [exceeded EXCEPT ![s] = TRUE]
                /\ reader' = [reader EXCEPT ![s] = "done"]
      BY <1>7 DEF Read, readerVars
    <3> QED
      BY <3>1, <1>0, ZenonT(60) DEF TypeOK
  <2> QED
    BY <1>7, <1>0, <2>5, <2>6 DEF Read, TypeOK, procVars, envVars, callVars
<1>8. ASSUME NEW s \in Streams, ReadEof(s) \/ ReadFails(s)
      PROVE  TypeOK'
  <2>1. /\ reader' = [reader EXCEPT ![s] = "done"]
        /\ failed' = failed \/ failed' = [failed EXCEPT ![s] = TRUE]
        /\ UNCHANGED <<procVars, dataVars, exceeded, envVars, callVars>>
    BY <1>8 DEF ReadEof, ReadFails
  <2>2. failed' \in [Streams -> BOOLEAN] /\ reader' \in [Streams -> {"reading", "done"}]
    BY <2>1, <1>0, Zenon DEF TypeOK
  <2> QED
    BY <2>1, <2>2, <1>0 DEF TypeOK, procVars, dataVars, envVars, callVars
<1>9. CASE Spawn
  BY <1>9, <1>0 DEF TypeOK, Spawn, Caller, procVars, dataVars, readerVars, envVars, callVars
<1>10. CASE SpawnFails
  BY <1>10, <1>0 DEF TypeOK, SpawnFails, Caller, procVars, dataVars, readerVars, envVars, callVars
<1>11. CASE Poll
  BY <1>11, <1>0 DEF TypeOK, Poll, Caller, procVars, dataVars, readerVars, envVars, callVars
<1>12. CASE Check
  BY <1>12, <1>0 DEF TypeOK, Check, Caller, Exceeded, procVars, dataVars, readerVars, envVars, callVars
<1>13. CASE Kill
  BY <1>13, <1>0 DEF TypeOK, Kill, Without, Dead, Caller, procVars, dataVars, readerVars, envVars, callVars
<1>14. CASE ReapKilled
  BY <1>14, <1>0 DEF TypeOK, ReapKilled, Caller, procVars, dataVars, readerVars, envVars, callVars
<1>15. CASE JoinOut
  BY <1>15, <1>0 DEF TypeOK, JoinOut, Caller, procVars, dataVars, readerVars, envVars, callVars
<1>16. CASE JoinErr
  BY <1>16, <1>0 DEF TypeOK, JoinErr, Caller, procVars, dataVars, readerVars, envVars, callVars
<1>17. CASE Report
  BY <1>17, <1>0 DEF TypeOK, Report, Caller, Exceeded, procVars, dataVars, readerVars, envVars, callVars
<1>18. CASE Terminated
  BY <1>18, <1>0 DEF TypeOK, Terminated, vars, procVars, dataVars, readerVars, envVars, callVars
<1>19. CASE UNCHANGED vars
  BY <1>19, <1>0 DEF TypeOK, procVars, dataVars, readerVars, envVars, callVars, vars
<1> QED
  BY <1>0, <1>1, <1>2, <1>3, <1>4, <1>5, <1>6, <1>7, <1>8, <1>9, <1>10, <1>11, <1>12, <1>13, <1>14, <1>15, <1>16, <1>17, <1>18, <1>19
  DEF Next, Environment, Reader, RunCapture

(* Bytes are neither made nor lost unrecorded. *)
LEMMA AccountStep == TypeOK /\ AccountInv /\ [Next]_vars => AccountInv'
<1> SUFFICES ASSUME TypeOK, AccountInv, [Next]_vars PROVE AccountInv'
  OBVIOUS
<1>0. TypeOK /\ AccountInv
  OBVIOUS
<1> USE SizesAssumption
<1>1. ASSUME NEW s \in Streams, Write(s)
      PROVE  AccountInv'
  BY <1>1, <1>0 DEF TypeOK, AccountInv, Write, procVars, dataVars, readerVars, envVars, callVars
<1>2. ASSUME NEW s \in Streams, NEW p \in Processes, CloseStream(p, s)
      PROVE  AccountInv'
  BY <1>2, <1>0 DEF TypeOK, AccountInv, CloseStream, procVars, dataVars, readerVars, envVars, callVars
<1>3. CASE Fork
  BY <1>3, <1>0 DEF TypeOK, AccountInv, Fork, procVars, dataVars, readerVars, envVars, callVars
<1>4. ASSUME NEW p \in Processes, Exit(p)
      PROVE  AccountInv'
  BY <1>4, <1>0 DEF TypeOK, AccountInv, Exit, Alive, Without, Dead, procVars, dataVars, readerVars, envVars, callVars
<1>5. CASE Cancel
  BY <1>5, <1>0 DEF TypeOK, AccountInv, Cancel, procVars, dataVars, readerVars, envVars, callVars
<1>6. CASE Elapse
  BY <1>6, <1>0 DEF TypeOK, AccountInv, Elapse, procVars, dataVars, readerVars, envVars, callVars
<1>7. ASSUME NEW s \in Streams, Read(s)
      PROVE  AccountInv'
  BY <1>7, <1>0 DEF TypeOK, AccountInv, Read, Available, Least, procVars, dataVars, readerVars, envVars, callVars
<1>8. ASSUME NEW s \in Streams, ReadEof(s) \/ ReadFails(s)
      PROVE  AccountInv'
  BY <1>8, <1>0 DEF TypeOK, AccountInv, ReadEof, ReadFails, procVars, dataVars, readerVars, envVars, callVars
<1>9. CASE Spawn
  BY <1>9, <1>0 DEF TypeOK, AccountInv, Spawn, Caller, procVars, dataVars, readerVars, envVars, callVars
<1>10. CASE SpawnFails
  BY <1>10, <1>0 DEF TypeOK, AccountInv, SpawnFails, Caller, procVars, dataVars, readerVars, envVars, callVars
<1>11. CASE Poll
  BY <1>11, <1>0 DEF TypeOK, AccountInv, Poll, Caller, procVars, dataVars, readerVars, envVars, callVars
<1>12. CASE Check
  BY <1>12, <1>0 DEF TypeOK, AccountInv, Check, Caller, Exceeded, procVars, dataVars, readerVars, envVars, callVars
<1>13. CASE Kill
  BY <1>13, <1>0 DEF TypeOK, AccountInv, Kill, Without, Dead, Caller, procVars, dataVars, readerVars, envVars, callVars
<1>14. CASE ReapKilled
  BY <1>14, <1>0 DEF TypeOK, AccountInv, ReapKilled, Caller, procVars, dataVars, readerVars, envVars, callVars
<1>15. CASE JoinOut
  BY <1>15, <1>0 DEF TypeOK, AccountInv, JoinOut, Caller, procVars, dataVars, readerVars, envVars, callVars
<1>16. CASE JoinErr
  BY <1>16, <1>0 DEF TypeOK, AccountInv, JoinErr, Caller, procVars, dataVars, readerVars, envVars, callVars
<1>17. CASE Report
  BY <1>17, <1>0 DEF TypeOK, AccountInv, Report, Caller, Exceeded, procVars, dataVars, readerVars, envVars, callVars
<1>18. CASE Terminated
  BY <1>18, <1>0 DEF TypeOK, AccountInv, Terminated, vars, procVars, dataVars, readerVars, envVars, callVars
<1>19. CASE UNCHANGED vars
  BY <1>19, <1>0 DEF TypeOK, AccountInv, procVars, dataVars, readerVars, envVars, callVars, vars
<1> QED
  BY <1>0, <1>1, <1>2, <1>3, <1>4, <1>5, <1>6, <1>7, <1>8, <1>9, <1>10, <1>11, <1>12, <1>13, <1>14, <1>15, <1>16, <1>17, <1>18, <1>19
  DEF Next, Environment, Reader, RunCapture

(* End of file is final, and only a reader in front of it or over the limit stops. *)
LEMMA ReaderStep == TypeOK /\ ReaderInv /\ CallerInv /\ [Next]_vars => ReaderInv'
<1> SUFFICES ASSUME TypeOK, ReaderInv, CallerInv, [Next]_vars PROVE ReaderInv'
  OBVIOUS
<1>0. TypeOK /\ ReaderInv /\ CallerInv
  OBVIOUS
<1>1. ASSUME NEW s \in Streams, Write(s)
      PROVE  ReaderInv'
  BY <1>1, <1>0 DEF TypeOK, ReaderInv, CallerInv, Write, procVars, dataVars, readerVars, envVars, callVars
<1>2. ASSUME NEW s \in Streams, NEW p \in Processes, CloseStream(p, s)
      PROVE  ReaderInv'
  BY <1>2, <1>0 DEF TypeOK, ReaderInv, CallerInv, CloseStream, procVars, dataVars, readerVars, envVars, callVars
<1>3. CASE Fork
  BY <1>3, <1>0 DEF TypeOK, ReaderInv, CallerInv, Fork, procVars, dataVars, readerVars, envVars, callVars
<1>4. ASSUME NEW p \in Processes, Exit(p)
      PROVE  ReaderInv'
  BY <1>4, <1>0 DEF TypeOK, ReaderInv, CallerInv, Exit, Alive, Without, Dead, procVars, dataVars, readerVars, envVars, callVars
<1>5. CASE Cancel
  BY <1>5, <1>0 DEF TypeOK, ReaderInv, CallerInv, Cancel, procVars, dataVars, readerVars, envVars, callVars
<1>6. CASE Elapse
  BY <1>6, <1>0 DEF TypeOK, ReaderInv, CallerInv, Elapse, procVars, dataVars, readerVars, envVars, callVars
<1>7. ASSUME NEW s \in Streams, Read(s)
      PROVE  ReaderInv'
  BY <1>7, <1>0 DEF TypeOK, ReaderInv, CallerInv, Read, Available, Least, procVars, dataVars, readerVars, envVars, callVars
<1>8. ASSUME NEW s \in Streams, ReadEof(s) \/ ReadFails(s)
      PROVE  ReaderInv'
  BY <1>8, <1>0 DEF TypeOK, ReaderInv, CallerInv, ReadEof, ReadFails, procVars, dataVars, readerVars, envVars, callVars
<1>9. CASE Spawn
  BY <1>9, <1>0 DEF TypeOK, ReaderInv, CallerInv, Spawn, Caller, procVars, dataVars, readerVars, envVars, callVars
<1>10. CASE SpawnFails
  BY <1>10, <1>0 DEF TypeOK, ReaderInv, CallerInv, SpawnFails, Caller, procVars, dataVars, readerVars, envVars, callVars
<1>11. CASE Poll
  BY <1>11, <1>0 DEF TypeOK, ReaderInv, CallerInv, Poll, Caller, procVars, dataVars, readerVars, envVars, callVars
<1>12. CASE Check
  BY <1>12, <1>0 DEF TypeOK, ReaderInv, CallerInv, Check, Caller, Exceeded, procVars, dataVars, readerVars, envVars, callVars
<1>13. CASE Kill
  BY <1>13, <1>0 DEF TypeOK, ReaderInv, CallerInv, Kill, Without, Dead, Caller, procVars, dataVars, readerVars, envVars, callVars
<1>14. CASE ReapKilled
  BY <1>14, <1>0 DEF TypeOK, ReaderInv, CallerInv, ReapKilled, Caller, procVars, dataVars, readerVars, envVars, callVars
<1>15. CASE JoinOut
  BY <1>15, <1>0 DEF TypeOK, ReaderInv, CallerInv, JoinOut, Caller, procVars, dataVars, readerVars, envVars, callVars
<1>16. CASE JoinErr
  BY <1>16, <1>0 DEF TypeOK, ReaderInv, CallerInv, JoinErr, Caller, procVars, dataVars, readerVars, envVars, callVars
<1>17. CASE Report
  BY <1>17, <1>0 DEF TypeOK, ReaderInv, CallerInv, Report, Caller, Exceeded, procVars, dataVars, readerVars, envVars, callVars
<1>18. CASE Terminated
  BY <1>18, <1>0 DEF TypeOK, ReaderInv, CallerInv, Terminated, vars, procVars, dataVars, readerVars, envVars, callVars
<1>19. CASE UNCHANGED vars
  BY <1>19, <1>0 DEF TypeOK, ReaderInv, CallerInv, procVars, dataVars, readerVars, envVars, callVars, vars
<1> QED
  BY <1>0, <1>1, <1>2, <1>3, <1>4, <1>5, <1>6, <1>7, <1>8, <1>9, <1>10, <1>11, <1>12, <1>13, <1>14, <1>15, <1>16, <1>17, <1>18, <1>19
  DEF Next, Environment, Reader, RunCapture

(* The caller goes on from a join only when that reader is done. *)
LEMMA CallerStep == TypeOK /\ ReaderInv /\ CallerInv /\ [Next]_vars => CallerInv'
<1> SUFFICES ASSUME TypeOK, ReaderInv, CallerInv, [Next]_vars PROVE CallerInv'
  OBVIOUS
<1>0. TypeOK /\ ReaderInv /\ CallerInv
  OBVIOUS
<1> USE DEF Exceeded, Streams
<1>1. ASSUME NEW s \in Streams, Write(s)
      PROVE  CallerInv'
  BY <1>1, <1>0 DEF TypeOK, ReaderInv, CallerInv, Write, procVars, dataVars, readerVars, envVars, callVars
<1>2. ASSUME NEW s \in Streams, NEW p \in Processes, CloseStream(p, s)
      PROVE  CallerInv'
  BY <1>2, <1>0 DEF TypeOK, ReaderInv, CallerInv, CloseStream, procVars, dataVars, readerVars, envVars, callVars
<1>3. CASE Fork
  BY <1>3, <1>0 DEF TypeOK, ReaderInv, CallerInv, Fork, procVars, dataVars, readerVars, envVars, callVars
<1>4. ASSUME NEW p \in Processes, Exit(p)
      PROVE  CallerInv'
  BY <1>4, <1>0 DEF TypeOK, ReaderInv, CallerInv, Exit, Alive, Without, Dead, procVars, dataVars, readerVars, envVars, callVars
<1>5. CASE Cancel
  BY <1>5, <1>0 DEF TypeOK, ReaderInv, CallerInv, Cancel, procVars, dataVars, readerVars, envVars, callVars
<1>6. CASE Elapse
  BY <1>6, <1>0 DEF TypeOK, ReaderInv, CallerInv, Elapse, procVars, dataVars, readerVars, envVars, callVars
<1>7. ASSUME NEW s \in Streams, Read(s)
      PROVE  CallerInv'
  BY <1>7, <1>0 DEF TypeOK, ReaderInv, CallerInv, Read, Available, Least, procVars, dataVars, readerVars, envVars, callVars
<1>8. ASSUME NEW s \in Streams, ReadEof(s) \/ ReadFails(s)
      PROVE  CallerInv'
  BY <1>8, <1>0 DEF TypeOK, ReaderInv, CallerInv, ReadEof, ReadFails, procVars, dataVars, readerVars, envVars, callVars
<1>9. CASE Spawn
  BY <1>9, <1>0 DEF TypeOK, ReaderInv, CallerInv, Spawn, Caller, procVars, dataVars, readerVars, envVars, callVars
<1>10. CASE SpawnFails
  BY <1>10, <1>0 DEF TypeOK, ReaderInv, CallerInv, SpawnFails, Caller, procVars, dataVars, readerVars, envVars, callVars
<1>11. CASE Poll
  BY <1>11, <1>0 DEF TypeOK, ReaderInv, CallerInv, Poll, Caller, procVars, dataVars, readerVars, envVars, callVars
<1>12. CASE Check
  BY <1>12, <1>0 DEF TypeOK, ReaderInv, CallerInv, Check, Caller, Exceeded, procVars, dataVars, readerVars, envVars, callVars
<1>13. CASE Kill
  BY <1>13, <1>0 DEF TypeOK, ReaderInv, CallerInv, Kill, Without, Dead, Caller, procVars, dataVars, readerVars, envVars, callVars
<1>14. CASE ReapKilled
  BY <1>14, <1>0 DEF TypeOK, ReaderInv, CallerInv, ReapKilled, Caller, procVars, dataVars, readerVars, envVars, callVars
<1>15. CASE JoinOut
  BY <1>15, <1>0 DEF TypeOK, ReaderInv, CallerInv, JoinOut, Caller, procVars, dataVars, readerVars, envVars, callVars
<1>16. CASE JoinErr
  BY <1>16, <1>0 DEF TypeOK, ReaderInv, CallerInv, JoinErr, Caller, procVars, dataVars, readerVars, envVars, callVars
<1>17. CASE Report
  BY <1>17, <1>0 DEF TypeOK, ReaderInv, CallerInv, Report, Caller, Exceeded, procVars, dataVars, readerVars, envVars, callVars
<1>18. CASE Terminated
  BY <1>18, <1>0 DEF TypeOK, ReaderInv, CallerInv, Terminated, vars, procVars, dataVars, readerVars, envVars, callVars
<1>19. CASE UNCHANGED vars
  BY <1>19, <1>0 DEF TypeOK, ReaderInv, CallerInv, procVars, dataVars, readerVars, envVars, callVars, vars
<1> QED
  BY <1>0, <1>1, <1>2, <1>3, <1>4, <1>5, <1>6, <1>7, <1>8, <1>9, <1>10, <1>11, <1>12, <1>13, <1>14, <1>15, <1>16, <1>17, <1>18, <1>19
  DEF Next, Environment, Reader, RunCapture

(* Nothing forks once the child is dead, so that the group stays empty after the kill. *)
LEMMA KilledStep == TypeOK /\ CallerInv /\ KilledInv /\ [Next]_vars => KilledInv'
<1> SUFFICES ASSUME TypeOK, CallerInv, KilledInv, [Next]_vars PROVE KilledInv'
  OBVIOUS
<1>0. TypeOK /\ CallerInv /\ KilledInv
  OBVIOUS
<1>1. ASSUME NEW s \in Streams, Write(s)
      PROVE  KilledInv'
  BY <1>1, <1>0 DEF TypeOK, CallerInv, KilledInv, Write, procVars, dataVars, readerVars, envVars, callVars
<1>2. ASSUME NEW s \in Streams, NEW p \in Processes, CloseStream(p, s)
      PROVE  KilledInv'
  BY <1>2, <1>0 DEF TypeOK, CallerInv, KilledInv, CloseStream, procVars, dataVars, readerVars, envVars, callVars
<1>3. CASE Fork
  BY <1>3, <1>0 DEF TypeOK, CallerInv, KilledInv, Fork, procVars, dataVars, readerVars, envVars, callVars
<1>4. ASSUME NEW p \in Processes, Exit(p)
      PROVE  KilledInv'
  BY <1>4, <1>0 DEF TypeOK, CallerInv, KilledInv, Exit, Alive, Without, Dead, procVars, dataVars, readerVars, envVars, callVars
<1>5. CASE Cancel
  BY <1>5, <1>0 DEF TypeOK, CallerInv, KilledInv, Cancel, procVars, dataVars, readerVars, envVars, callVars
<1>6. CASE Elapse
  BY <1>6, <1>0 DEF TypeOK, CallerInv, KilledInv, Elapse, procVars, dataVars, readerVars, envVars, callVars
<1>7. ASSUME NEW s \in Streams, Read(s)
      PROVE  KilledInv'
  BY <1>7, <1>0 DEF TypeOK, CallerInv, KilledInv, Read, Available, Least, procVars, dataVars, readerVars, envVars, callVars
<1>8. ASSUME NEW s \in Streams, ReadEof(s) \/ ReadFails(s)
      PROVE  KilledInv'
  BY <1>8, <1>0 DEF TypeOK, CallerInv, KilledInv, ReadEof, ReadFails, procVars, dataVars, readerVars, envVars, callVars
<1>9. CASE Spawn
  BY <1>9, <1>0 DEF TypeOK, CallerInv, KilledInv, Spawn, Caller, procVars, dataVars, readerVars, envVars, callVars
<1>10. CASE SpawnFails
  BY <1>10, <1>0 DEF TypeOK, CallerInv, KilledInv, SpawnFails, Caller, procVars, dataVars, readerVars, envVars, callVars
<1>11. CASE Poll
  BY <1>11, <1>0 DEF TypeOK, CallerInv, KilledInv, Poll, Caller, procVars, dataVars, readerVars, envVars, callVars
<1>12. CASE Check
  BY <1>12, <1>0 DEF TypeOK, CallerInv, KilledInv, Check, Caller, Exceeded, procVars, dataVars, readerVars, envVars, callVars
<1>13. CASE Kill
  BY <1>13, <1>0 DEF TypeOK, CallerInv, KilledInv, Kill, Without, Dead, Caller, procVars, dataVars, readerVars, envVars, callVars
<1>14. CASE ReapKilled
  BY <1>14, <1>0 DEF TypeOK, CallerInv, KilledInv, ReapKilled, Caller, procVars, dataVars, readerVars, envVars, callVars
<1>15. CASE JoinOut
  BY <1>15, <1>0 DEF TypeOK, CallerInv, KilledInv, JoinOut, Caller, procVars, dataVars, readerVars, envVars, callVars
<1>16. CASE JoinErr
  BY <1>16, <1>0 DEF TypeOK, CallerInv, KilledInv, JoinErr, Caller, procVars, dataVars, readerVars, envVars, callVars
<1>17. CASE Report
  BY <1>17, <1>0 DEF TypeOK, CallerInv, KilledInv, Report, Caller, Exceeded, procVars, dataVars, readerVars, envVars, callVars
<1>18. CASE Terminated
  BY <1>18, <1>0 DEF TypeOK, CallerInv, KilledInv, Terminated, vars, procVars, dataVars, readerVars, envVars, callVars
<1>19. CASE UNCHANGED vars
  BY <1>19, <1>0 DEF TypeOK, CallerInv, KilledInv, procVars, dataVars, readerVars, envVars, callVars, vars
<1> QED
  BY <1>0, <1>1, <1>2, <1>3, <1>4, <1>5, <1>6, <1>7, <1>8, <1>9, <1>10, <1>11, <1>12, <1>13, <1>14, <1>15, <1>16, <1>17, <1>18, <1>19
  DEF Next, Environment, Reader, RunCapture

(* The initial state: nothing written, nothing spawned. *)
LEMMA InitCapture == Init => TypeOK /\ Capture
<1> SUFFICES ASSUME Init PROVE TypeOK /\ Capture
  OBVIOUS
<1> USE DEF Init, Zero
<1>1. Zero \in [Streams -> Nat] /\ Zero \in [Streams -> 0..Limit]
  BY SizesAssumption
<1>2. TypeOK
  BY <1>1 DEF TypeOK, Processes
<1>3. AccountInv
  BY DEF AccountInv
<1>4. ReaderInv
  BY DEF ReaderInv
<1>5. CallerInv /\ KilledInv
  BY DEF CallerInv, KilledInv
<1> QED
  BY <1>2, <1>3, <1>4, <1>5 DEF Capture

(* Every variable of run_capture keeps its type; in particular no stream of the result    *)
(* grows past the output limit.                                                           *)
THEOREM CaptureTypes == Spec => []TypeOK
<1>1. Init => TypeOK
  BY InitCapture
<1>2. TypeOK /\ [Next]_vars => TypeOK'
  BY TypeStep
<1> QED
  BY <1>1, <1>2, PTL DEF Spec

(* The inductive invariant of run_capture, its threads and its child. *)
THEOREM CaptureInvariance == Spec => [](TypeOK /\ Capture)
<1>1. Init => TypeOK /\ Capture
  BY InitCapture
<1>2. TypeOK /\ Capture /\ [Next]_vars => (TypeOK /\ Capture)'
  BY TypeStep, AccountStep, ReaderStep, CallerStep, KilledStep DEF Capture
<1> QED
  BY <1>1, <1>2, PTL DEF Spec

(* run_capture never returns partial output as a result. *)
THEOREM Completeness == Spec => []ResultIsComplete
<1>1. TypeOK /\ Capture => ResultIsComplete
  <2> SUFFICES ASSUME TypeOK, Capture, outcome = "result", NEW s \in Streams, ~failed[s]
               PROVE  kept[s] = written[s] /\ writers[s] = {}
    BY DEF ResultIsComplete
  <2>1. reader[s] = "done" /\ ~exceeded[s]
    BY DEF Capture, CallerInv, Exceeded, Streams
  <2>2. pipe[s] = 0 /\ writers[s] = {}
    BY <2>1 DEF Capture, ReaderInv
  <2>3. lost[s] \in Nat /\ kept[s] \in Nat /\ lost[s] = 0
    BY <2>1, SizesAssumption DEF Capture, AccountInv, TypeOK
  <2> QED
    BY <2>2, <2>3 DEF Capture, AccountInv
<1> QED
  BY <1>1, CaptureInvariance, PTL

(* A child that was given up on leaves no process of its group and no zombie. *)
THEOREM GroupIsGone == Spec => []NoSurvivor
<1>1. TypeOK /\ Capture => NoSurvivor
  BY DEF Capture, KilledInv, NoSurvivor
<1> QED
  BY <1>1, CaptureInvariance, PTL
=============================================================================
