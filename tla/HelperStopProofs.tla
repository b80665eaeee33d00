-------------------------- MODULE HelperStopProofs --------------------------
(***************************************************************************)
(* What becomes of a Stop in the helper, for every set of runs and pids,   *)
(* every number of Stop requests and every interleaving: one that was      *)
(* acknowledged is never forgotten, and without pid reuse nothing is       *)
(* signalled that was not to be stopped.                                   *)
(***************************************************************************)
EXTENDS PrivilegedHelperProofs

USE DEF vars, guiVars, lockVars, wdVars, mainVars, workVars, dogVars, procVars,
        tellVars, sigVars

-----------------------------------------------------------------------------
(* A Stop that was acknowledged. *)

(* active_id_ is the worker's run from the claim to the idle section. *)
IdInv == workerRunning => activeId = wid

(* Where run_request has signalled its child already, and where it has yet    *)
(* to look at the queued Stop.                                                *)
SignalledInv ==
  /\ wpc \in {"arm", "ack", "abortPoll", "abortKill", "abortReap"} => wid \in interrupted
  /\ wpc \in {"launch", "publish"} => ~wstop

(* The pid captured for a Stop is the child of the run captured with it. *)
CapturedInv == mpc = "stopKill" /\ wid = mid => wchild = mpid

(* A run that a Stop has met has left the queue for good. *)
Served(r) == /\ r \in Runs \ unsent
             /\ \A i \in 1 .. Len(stdin) : ~Queued(i, r)
             /\ mpc = "join" => mreq.id # r
Stopping(at) == IF mpc \in at THEN {mid} ELSE {}
ServedInv == \A r \in acked \cup Stopping({"stopKill", "stopArm", "stopAck"}) : Served(r)

(* What StopNotLost says of one run. *)
Heeded(r) ==
  \/ r \in interrupted \cup aborted
  \/ pendingStop /\ activeId = r
  \/ wstop \/ wpc \in {"kill", "abort", "cleanup", "finish"}
  \/ wid # r
HeededInv == \A r \in acked \cup Stopping({"stopArm", "stopAck"}) : Heeded(r)

-----------------------------------------------------------------------------
(* Who may be signalled, when pids are not handed out again. *)

(* A Stop that is queued or being delivered was read while its run was active. *)
QueuedForInv == /\ pendingStop => workerRunning /\ wid \in stopRead
                /\ wstop \/ wpc = "kill" => wid \in stopRead

(* A pid remembered over an unlock is not free again: it is spent, or still    *)
(* that of a child of the same run.                                            *)
Remembers(p, run) == p \in Pids /\ proc[p] # "free" /\ (proc[p] \in Owned => wid \in run)
ChildPidInv == wchild = NoPid \/ Remembers(wchild, {wid})
CapturedForInv ==
  /\ mpc = "stopKill" => mid \in stopRead /\ Remembers(mpid, {mid})
  /\ mpc \in {"stopArm", "sawArm"} => Remembers(mpid, interrupted)
DoomedInv == /\ wdArmed => Remembers(wdPid, interrupted)
             /\ dpc \in {"timing", "check", "kill"} => Remembers(dpid, interrupted)

(* The inductive invariant: Supervision with what becomes of a Stop. *)
StopParts == /\ IdInv /\ SignalledInv /\ CapturedInv /\ ServedInv /\ HeededInv
             /\ QueuedForInv
PidParts == ChildPidInv /\ CapturedForInv /\ DoomedInv /\ SignalsJustified
Inductive == TypeOK /\ Strong /\ StopParts /\ (~PidReuse => PidParts)

-----------------------------------------------------------------------------
(* The steps. *)

(* A signal sent, a Stop read and an abort are never taken back. *)
LEMMA HistoryGrows ==
  ASSUME [Next]_vars
  PROVE  interrupted \subseteq interrupted' /\ aborted \subseteq aborted' /\ stopRead \subseteq stopRead'
<1>1. CASE HandleStop
  BY <1>1 DEF HandleStop, Read
<1>2. CASE StopKill
  BY <1>2 DEF StopKill, Interrupt
<1>3. CASE SawKill
  BY <1>3 DEF SawKill, Interrupt
<1>4. CASE LaunchFail
  BY <1>4 DEF LaunchFail
<1>5. CASE QueuedKill
  BY <1>5 DEF QueuedKill, Interrupt
<1>6. CASE Abort
  BY <1>6 DEF Abort, Interrupt
<1>7. CASE AbortKill
  BY <1>7 DEF AbortKill, Kill
<1>8. CASE DogKill
  BY <1>8 DEF DogKill, Kill
<1>9. CASE UNCHANGED <<interrupted, aborted, stopRead>>
  BY <1>9
<1>10. ASSUME NEW q \in Runs, GuiRun(q) PROVE UNCHANGED <<interrupted, aborted, stopRead>>
  BY <1>10 DEF GuiRun, Send, NotGui
<1>11. ASSUME GuiStop \/ GuiOther \/ GuiQuit \/ GuiCloseStdin \/ GuiCloseStdout PROVE
     UNCHANGED <<interrupted, aborted, stopRead>>
  BY <1>11 DEF GuiStop, GuiOther, GuiQuit, GuiCloseStdin, GuiCloseStdout, Send, NotGui
<1>12. ASSUME MainReady \/ MainLoop \/ MainEof \/ HandleOther \/ HandleQuit \/
     HandleRunReject \/ HandleRunRefuse \/ HandleRunIdle \/ HandleRunAccept \/
     HandleRunNoThread \/ StopArm \/ StopAnswer \/ Saw \/ SawArm \/ SawJoin \/ Shutdown \/
     JoinDog PROVE UNCHANGED <<interrupted, aborted, stopRead>>
  BY <1>12 DEF MainReady, MainLoop, MainEof, HandleOther, HandleQuit, HandleRunReject,
       HandleRunRefuse, HandleRunIdle, HandleRunAccept, HandleRunNoThread, StopArm,
       StopAnswer, Saw, SawArm, SawJoin, Shutdown, JoinDog, Read, Claim, WorkerEnded
<1>13. ASSUME Launch \/ Publish \/ Started \/ QueuedArm \/ QueuedAnswer \/ Open \/
     ReadReady \/ ReadLine \/ ReadEof \/ AbortTimeout \/ AbortReap \/ Cleanup \/ Finish
     PROVE UNCHANGED <<interrupted, aborted, stopRead>>
  BY <1>13 DEF Launch, Publish, Started, QueuedArm, QueuedAnswer, Open, ReadReady,
       ReadLine, ReadEof, AbortTimeout, AbortReap, Cleanup, Finish
<1>14. ASSUME DogArmed \/ DogChanged \/ DogTimeout \/ DogCheck \/ DogExit PROVE UNCHANGED
     <<interrupted, aborted, stopRead>>
  BY <1>14 DEF DogArmed, DogChanged, DogTimeout, DogCheck, DogExit
<1>15. ASSUME NEW p \in Pids, ChildReady(p) \/ ChildOutput(p) \/ ChildExit(p) \/
     Foreign(p) PROVE UNCHANGED <<interrupted, aborted, stopRead>>
  BY <1>15 DEF ChildReady, ChildOutput, ChildExit, Foreign, NotProc
<1> QED
  BY <1>1, <1>2, <1>3, <1>4, <1>5, <1>6, <1>7, <1>8, <1>9, <1>10, <1>11, <1>12, <1>13,
       <1>14, <1>15 DEF Next, Gui, Main, Worker, Watchdog, System, Terminated

(* Claim publishes the run with the flag; the idle section clears both. *)
LEMMA IdStep ==
  ASSUME RunningInv, IdInv, [Next]_vars
  PROVE  IdInv'
<1>1. CASE HandleRunAccept
  BY <1>1 DEF HandleRunAccept, Claim, WorkerEnded, IdInv
<1>2. CASE HandleRunNoThread
  BY <1>2 DEF HandleRunNoThread, Claim, WorkerEnded, IdInv
<1>3. CASE Publish
  BY <1>3 DEF Publish, IdInv
<1>4. CASE Cleanup
  BY <1>4 DEF Cleanup, IdInv
<1>5. CASE Finish
  BY <1>5 DEF Finish, IdInv, RunningInv, Supervising, HasChild
<1>6. CASE UNCHANGED <<workerRunning, activeId, wid>>
  BY <1>6 DEF IdInv
<1>7. ASSUME NEW q \in Runs, GuiRun(q) PROVE UNCHANGED <<workerRunning, activeId, wid>>
  BY <1>7 DEF GuiRun, Send, NotGui
<1>8. ASSUME GuiStop \/ GuiOther \/ GuiQuit \/ GuiCloseStdin \/ GuiCloseStdout PROVE
     UNCHANGED <<workerRunning, activeId, wid>>
  BY <1>8 DEF GuiStop, GuiOther, GuiQuit, GuiCloseStdin, GuiCloseStdout, Send, NotGui
<1>9. ASSUME MainReady \/ MainLoop \/ MainEof \/ HandleOther \/ HandleQuit \/
     HandleRunReject \/ HandleRunRefuse \/ HandleRunIdle \/ HandleStop \/ StopKill \/
     StopArm \/ StopAnswer \/ Saw \/ SawKill \/ SawArm \/ SawJoin \/ Shutdown \/ JoinDog
     PROVE UNCHANGED <<workerRunning, activeId, wid>>
  BY <1>9 DEF MainReady, MainLoop, MainEof, HandleOther, HandleQuit, HandleRunReject,
       HandleRunRefuse, HandleRunIdle, HandleStop, StopKill, StopArm, StopAnswer, Saw,
       SawKill, SawArm, SawJoin, Shutdown, JoinDog, Read, Interrupt
<1>10. ASSUME LaunchFail \/ Launch \/ Started \/ QueuedKill \/ QueuedArm \/ QueuedAnswer
     \/ Open \/ ReadReady \/ ReadLine \/ ReadEof \/ Abort \/ AbortTimeout \/ AbortKill \/
     AbortReap PROVE UNCHANGED <<workerRunning, activeId, wid>>
  BY <1>10 DEF LaunchFail, Launch, Started, QueuedKill, QueuedArm, QueuedAnswer, Open,
       ReadReady, ReadLine, ReadEof, Abort, AbortTimeout, AbortKill, AbortReap, Interrupt,
       Kill
<1>11. ASSUME DogArmed \/ DogChanged \/ DogTimeout \/ DogCheck \/ DogKill \/ DogExit PROVE
     UNCHANGED <<workerRunning, activeId, wid>>
  BY <1>11 DEF DogArmed, DogChanged, DogTimeout, DogCheck, DogKill, DogExit, Kill
<1>12. ASSUME NEW p \in Pids, ChildReady(p) \/ ChildOutput(p) \/ ChildExit(p) \/
     Foreign(p) PROVE UNCHANGED <<workerRunning, activeId, wid>>
  BY <1>12 DEF ChildReady, ChildOutput, ChildExit, Foreign, NotProc
<1> QED
  BY <1>1, <1>2, <1>3, <1>4, <1>5, <1>6, <1>7, <1>8, <1>9, <1>10, <1>11, <1>12 DEF Next,
       Gui, Main, Worker, Watchdog, System, Terminated

(* The worker signals its own child, which is there to be signalled. *)
LEMMA SignalledStep ==
  ASSUME TypeThreads, ChildInv, SignalledInv, [Next]_vars
  PROVE  SignalledInv'
<1>1. CASE HandleRunAccept
  BY <1>1 DEF HandleRunAccept, Claim, WorkerEnded, SignalledInv
<1>2. CASE HandleRunNoThread
  BY <1>2 DEF HandleRunNoThread, Claim, WorkerEnded, SignalledInv
<1>3. CASE StopKill
  BY <1>3 DEF StopKill, SignalledInv, Interrupt
<1>4. CASE SawKill
  BY <1>4 DEF SawKill, SignalledInv, Interrupt
<1>5. CASE LaunchFail
  BY <1>5 DEF LaunchFail, SignalledInv
<1>6. CASE Launch
  BY <1>6 DEF Launch, SignalledInv
<1>7. CASE Publish
  BY <1>7 DEF Publish, SignalledInv
<1>8. CASE Started
  BY <1>8 DEF Started, SignalledInv
<1>9. CASE QueuedKill
  BY <1>9 DEF QueuedKill, SignalledInv, ChildInv, HasChild, Interrupt
<1>10. CASE QueuedArm
  BY <1>10 DEF QueuedArm, SignalledInv
<1>11. CASE QueuedAnswer
  BY <1>11 DEF QueuedAnswer, SignalledInv
<1>12. CASE Open
  BY <1>12 DEF Open, SignalledInv
<1>13. CASE ReadReady
  BY <1>13 DEF ReadReady, SignalledInv
<1>14. CASE ReadLine
  BY <1>14 DEF ReadLine, SignalledInv
<1>15. CASE ReadEof
  BY <1>15 DEF ReadEof, SignalledInv
<1>16. CASE Abort
  BY <1>16 DEF Abort, SignalledInv, ChildInv, HasChild, Interrupt
<1>17. CASE AbortTimeout
  BY <1>17 DEF AbortTimeout, SignalledInv
<1>18. CASE AbortKill
  BY <1>18 DEF AbortKill, SignalledInv, Kill
<1>19. CASE AbortReap
  BY <1>19 DEF AbortReap, SignalledInv
<1>20. CASE Cleanup
  BY <1>20 DEF Cleanup, SignalledInv
<1>21. CASE Finish
  BY <1>21 DEF Finish, SignalledInv
<1>22. CASE UNCHANGED <<wpc, wid, wstop, interrupted>>
  BY <1>22 DEF SignalledInv
<1>23. ASSUME NEW q \in Runs, GuiRun(q) PROVE UNCHANGED <<wpc, wid, wstop, interrupted>>
  BY <1>23 DEF GuiRun, Send, NotGui
<1>24. ASSUME GuiStop \/ GuiOther \/ GuiQuit \/ GuiCloseStdin \/ GuiCloseStdout PROVE
     UNCHANGED <<wpc, wid, wstop, interrupted>>
  BY <1>24 DEF GuiStop, GuiOther, GuiQuit, GuiCloseStdin, GuiCloseStdout, Send, NotGui
<1>25. ASSUME MainReady \/ MainLoop \/ MainEof \/ HandleOther \/ HandleQuit \/
     HandleRunReject \/ HandleRunRefuse \/ HandleRunIdle \/ HandleStop \/ StopArm \/
     StopAnswer \/ Saw \/ SawArm \/ SawJoin \/ Shutdown \/ JoinDog PROVE UNCHANGED <<wpc,
     wid, wstop, interrupted>>
  BY <1>25 DEF MainReady, MainLoop, MainEof, HandleOther, HandleQuit, HandleRunReject,
       HandleRunRefuse, HandleRunIdle, HandleStop, StopArm, StopAnswer, Saw, SawArm,
       SawJoin, Shutdown, JoinDog, Read
<1>26. ASSUME DogArmed \/ DogChanged \/ DogTimeout \/ DogCheck \/ DogKill \/ DogExit PROVE
     UNCHANGED <<wpc, wid, wstop, interrupted>>
  BY <1>26 DEF DogArmed, DogChanged, DogTimeout, DogCheck, DogKill, DogExit, Kill
<1>27. ASSUME NEW p \in Pids, ChildReady(p) \/ ChildOutput(p) \/ ChildExit(p) \/
     Foreign(p) PROVE UNCHANGED <<wpc, wid, wstop, interrupted>>
  BY <1>27 DEF ChildReady, ChildOutput, ChildExit, Foreign, NotProc
<1> QED
  BY <1>1, <1>2, <1>3, <1>4, <1>5, <1>6, <1>7, <1>8, <1>9, <1>10, <1>11, <1>12, <1>13,
       <1>14, <1>15, <1>16, <1>17, <1>18, <1>19, <1>20, <1>21, <1>22, <1>23, <1>24, <1>25,
       <1>26, <1>27 DEF Next, Gui, Main, Worker, Watchdog, System, Terminated

(* handle_stop reads active_pid_ and active_id_ in one section. *)
LEMMA CapturedStep ==
  ASSUME TypeThreads, RunningInv, ActiveInv, StopTargetInv, IdInv, ServedInv, CapturedInv,
         [Next]_vars
  PROVE  CapturedInv'
<1>1. CASE HandleStop
  BY <1>1 DEF HandleStop, Read, CapturedInv, ActiveInv, Defer
<1>2. CASE Launch
  BY <1>2 DEF Launch, CapturedInv, StopTargetInv
<1>3. CASE Finish
  BY <1>3, RunsAssumption DEF Finish, CapturedInv, ServedInv, Served, Stopping
<1>4. CASE UNCHANGED <<mpc, mid, mpid, wid, wchild>>
  BY <1>4 DEF CapturedInv
<1>5. ASSUME NEW q \in Runs, GuiRun(q) PROVE UNCHANGED <<mpc, mid, mpid, wid, wchild>>
  BY <1>5 DEF GuiRun, Send, NotGui
<1>6. ASSUME GuiStop \/ GuiOther \/ GuiQuit \/ GuiCloseStdin \/ GuiCloseStdout PROVE
     UNCHANGED <<mpc, mid, mpid, wid, wchild>>
  BY <1>6 DEF GuiStop, GuiOther, GuiQuit, GuiCloseStdin, GuiCloseStdout, Send, NotGui
<1>7. CASE mpc' # "stopKill"
  BY <1>7 DEF CapturedInv
<1>8. ASSUME MainReady \/ MainLoop \/ MainEof \/ HandleOther \/ HandleQuit \/
     HandleRunReject \/ HandleRunRefuse \/ HandleRunIdle \/ HandleRunAccept \/
     HandleRunNoThread \/ StopKill \/ StopArm \/ StopAnswer \/ Saw \/ SawKill \/ SawArm \/
     SawJoin \/ Shutdown \/ JoinDog PROVE mpc' # "stopKill"
  BY <1>8 DEF MainReady, MainLoop, MainEof, HandleOther, HandleQuit, HandleRunReject,
       HandleRunRefuse, HandleRunIdle, HandleRunAccept, HandleRunNoThread, StopKill,
       StopArm, StopAnswer, Saw, SawKill, SawArm, SawJoin, Shutdown, JoinDog, Read, Claim,
       WorkerEnded
<1>9. ASSUME LaunchFail \/ Publish \/ Started \/ QueuedKill \/ QueuedArm \/ QueuedAnswer
     \/ Open \/ ReadReady \/ ReadLine \/ ReadEof \/ Abort \/ AbortTimeout \/ AbortKill \/
     AbortReap \/ Cleanup PROVE UNCHANGED <<mpc, mid, mpid, wid, wchild>>
  BY <1>9 DEF LaunchFail, Publish, Started, QueuedKill, QueuedArm, QueuedAnswer, Open,
       ReadReady, ReadLine, ReadEof, Abort, AbortTimeout, AbortKill, AbortReap, Cleanup,
       Interrupt, Kill
<1>10. ASSUME DogArmed \/ DogChanged \/ DogTimeout \/ DogCheck \/ DogKill \/ DogExit PROVE
     UNCHANGED <<mpc, mid, mpid, wid, wchild>>
  BY <1>10 DEF DogArmed, DogChanged, DogTimeout, DogCheck, DogKill, DogExit, Kill
<1>11. ASSUME NEW p \in Pids, ChildReady(p) \/ ChildOutput(p) \/ ChildExit(p) \/
     Foreign(p) PROVE UNCHANGED <<mpc, mid, mpid, wid, wchild>>
  BY <1>11 DEF ChildReady, ChildOutput, ChildExit, Foreign, NotProc
<1> QED
  BY <1>1, <1>2, <1>3, <1>4, <1>5, <1>6, <1>7, <1>8, <1>9, <1>10, <1>11 DEF Next, Gui,
       Main, Worker, Watchdog, System, Terminated

(* A request sent later is for another run. *)
LEMMA SendServed ==
  ASSUME TypeRequests, NEW r, Served(r), NEW q \in Requests, Send(q),
         q.action = "run" => q.id # r, unsent' \subseteq unsent, UNCHANGED <<mpc, mreq>>
  PROVE  Served(r)'
<1>1. stdin \in Seq(Requests) /\ stdin' = Append(stdin, q)
  BY DEF TypeRequests, Send
<1>2. /\ Len(stdin') = Len(stdin) + 1
      /\ \A i \in 1 .. Len(stdin) : stdin'[i] = stdin[i]
      /\ stdin'[Len(stdin) + 1] = q
  BY <1>1
<1>3. \A i \in 1 .. Len(stdin') : i \in 1 .. Len(stdin) \/ i = Len(stdin) + 1
  BY <1>1, <1>2
<1>4. \A i \in 1 .. Len(stdin') : ~Queued(i, r)'
  BY <1>2, <1>3 DEF Served, Queued
<1> QED
  BY <1>4 DEF Served

(* Reading a request leaves the others in the queue. *)
LEMMA ReadServed ==
  ASSUME TypeRequests, NEW r, Served(r), NEW a, Read(a), mpc' = "join" => mreq'.id # r
  PROVE  Served(r)'
<1>1. stdin # <<>> /\ stdin' = Tail(stdin) /\ stdin \in Seq(Requests) /\ UNCHANGED unsent
  BY DEF Read, TypeRequests
<1>2. /\ Len(stdin) \in Nat /\ Len(stdin') = Len(stdin) - 1
      /\ \A i \in 1 .. Len(stdin') : stdin'[i] = stdin[i + 1]
  BY <1>1
<1>3. \A i \in 1 .. Len(stdin') : i + 1 \in 1 .. Len(stdin)
  BY <1>2
<1>4. \A i \in 1 .. Len(stdin') : ~Queued(i, r)'
  BY <1>2, <1>3 DEF Served, Queued
<1> QED
  BY <1>1, <1>4 DEF Served

(* A run that left the queue never comes back to it. *)
LEMMA ServedKept ==
  ASSUME NEW r, TypeRequests, PlaceInv, Served(r), [Next]_vars
  PROVE  Served(r)'
<1>1. ASSUME NEW q \in Runs, GuiRun(q) PROVE Served(r)'
  <2>1. PICK m \in RunRequests : m.id = q /\ Send(m)
    BY <1>1 DEF GuiRun
  <2>2. m \in Requests /\ m.id # r /\ unsent' \subseteq unsent /\ UNCHANGED <<mpc, mreq>>
    BY <1>1, <2>1, RunFields DEF GuiRun, NotGui, Served
  <2> QED
    BY <2>1, <2>2, SendServed
<1>2. CASE GuiStop
  <2>1. [action |-> "stop"] \in Requests /\ [action |-> "stop"].action # "run"
    BY PlainRequest
  <2> QED
    BY <1>2, <2>1, SendServed DEF GuiStop, NotGui
<1>3. CASE GuiOther
  <2>1. [action |-> "other"] \in Requests /\ [action |-> "other"].action # "run"
    BY PlainRequest
  <2> QED
    BY <1>3, <2>1, SendServed DEF GuiOther, NotGui
<1>4. CASE GuiQuit
  <2>1. [action |-> "quit"] \in Requests /\ [action |-> "quit"].action # "run"
    BY PlainRequest
  <2> QED
    BY <1>4, <2>1, SendServed DEF GuiQuit, NotGui
<1>5. CASE HandleOther
  <2>1. Read("other") /\ mpc' # "join"
    BY <1>5 DEF HandleOther
  <2> QED
    BY <2>1, ReadServed
<1>6. CASE HandleQuit
  <2>1. Read("quit") /\ mpc' # "join"
    BY <1>6 DEF HandleQuit
  <2> QED
    BY <2>1, ReadServed
<1>7. CASE HandleRunReject
  <2>1. Read("run") /\ mpc' # "join"
    BY <1>7 DEF HandleRunReject
  <2> QED
    BY <2>1, ReadServed
<1>8. CASE HandleRunRefuse
  <2>1. Read("run") /\ mpc' # "join"
    BY <1>8 DEF HandleRunRefuse
  <2> QED
    BY <2>1, ReadServed
<1>9. CASE HandleRunIdle
  <2>1. Read("run") /\ mreq' = Head(stdin)
    BY <1>9 DEF HandleRunIdle
  <2>2. Queued(1, Head(stdin).id) /\ 1 \in 1 .. Len(stdin)
    BY <2>1, ReadRun
  <2> QED
    BY <2>1, <2>2, ReadServed DEF Served
<1>10. CASE HandleStop
  <2>1. Read("stop") /\ mpc' # "join"
    BY <1>10 DEF HandleStop, Defer
  <2> QED
    BY <2>1, ReadServed
<1>11. CASE UNCHANGED <<unsent, stdin, mreq, mpc>>
  BY <1>11 DEF Served, Queued
<1>12. ASSUME GuiCloseStdin \/ GuiCloseStdout PROVE UNCHANGED <<unsent, stdin, mreq, mpc>>
  BY <1>12 DEF GuiCloseStdin, GuiCloseStdout, Send, NotGui
<1>13. CASE mpc' # "join" /\ UNCHANGED <<unsent, stdin>>
  BY <1>13 DEF Served, Queued
<1>14. ASSUME MainReady \/ MainLoop \/ MainEof \/ HandleRunAccept \/ HandleRunNoThread \/
     StopKill \/ StopArm \/ StopAnswer \/ Saw \/ SawKill \/ SawArm \/ SawJoin \/ Shutdown
     \/ JoinDog PROVE mpc' # "join" /\ UNCHANGED <<unsent, stdin>>
  BY <1>14 DEF MainReady, MainLoop, MainEof, HandleRunAccept, HandleRunNoThread, StopKill,
       StopArm, StopAnswer, Saw, SawKill, SawArm, SawJoin, Shutdown, JoinDog, Claim,
       WorkerEnded
<1>15. ASSUME LaunchFail \/ Launch \/ Publish \/ Started \/ QueuedKill \/ QueuedArm \/
     QueuedAnswer \/ Open \/ ReadReady \/ ReadLine \/ ReadEof \/ Abort \/ AbortTimeout \/
     AbortKill \/ AbortReap \/ Cleanup \/ Finish PROVE UNCHANGED <<unsent, stdin, mreq,
     mpc>>
  BY <1>15 DEF LaunchFail, Launch, Publish, Started, QueuedKill, QueuedArm, QueuedAnswer,
       Open, ReadReady, ReadLine, ReadEof, Abort, AbortTimeout, AbortKill, AbortReap,
       Cleanup, Finish, Interrupt, Kill
<1>16. ASSUME DogArmed \/ DogChanged \/ DogTimeout \/ DogCheck \/ DogKill \/ DogExit PROVE
     UNCHANGED <<unsent, stdin, mreq, mpc>>
  BY <1>16 DEF DogArmed, DogChanged, DogTimeout, DogCheck, DogKill, DogExit, Kill
<1>17. ASSUME NEW p \in Pids, ChildReady(p) \/ ChildOutput(p) \/ ChildExit(p) \/
     Foreign(p) PROVE UNCHANGED <<unsent, stdin, mreq, mpc>>
  BY <1>17 DEF ChildReady, ChildOutput, ChildExit, Foreign, NotProc
<1> QED
  BY <1>1, <1>2, <1>3, <1>4, <1>5, <1>6, <1>7, <1>8, <1>9, <1>10, <1>11, <1>12, <1>13,
       <1>14, <1>15, <1>16, <1>17 DEF Next, Gui, Main, Worker, Watchdog, System,
       Terminated

(* A Stop meets the run that is supervised when it is read or delivered. *)
LEMMA MetFrom ==
  ASSUME TypeThreads, RunningInv, ActiveInv, IdInv, [Next]_vars
  PROVE  \A r \in acked' \cup Stopping({"stopKill", "stopArm", "stopAck"})' :
           \/ r \in acked \cup Stopping({"stopKill", "stopArm", "stopAck"})
           \/ r = wid /\ wpc \in Supervising
<1>1. CASE HandleStop
  BY <1>1 DEF HandleStop, Read, ServedInv, Stopping, IdInv, RunningInv, ActiveInv,
       Published, Defer
<1>2. CASE StopKill
  BY <1>2 DEF StopKill, Stopping, Interrupt
<1>3. CASE StopArm
  BY <1>3 DEF StopArm, Stopping
<1>4. CASE StopAnswer
  BY <1>4 DEF StopAnswer, Stopping
<1>5. CASE QueuedAnswer
  BY <1>5 DEF QueuedAnswer, Stopping, Supervising, HasChild
<1>6. CASE UNCHANGED <<acked, mpc, mid>>
  BY <1>6 DEF Stopping
<1>7. ASSUME NEW q \in Runs, GuiRun(q) PROVE UNCHANGED <<acked, mpc, mid>>
  BY <1>7 DEF GuiRun, Send, NotGui
<1>8. ASSUME GuiStop \/ GuiOther \/ GuiQuit \/ GuiCloseStdin \/ GuiCloseStdout PROVE
     UNCHANGED <<acked, mpc, mid>>
  BY <1>8 DEF GuiStop, GuiOther, GuiQuit, GuiCloseStdin, GuiCloseStdout, Send, NotGui
<1>9. CASE UNCHANGED acked /\ mpc' \notin {"stopKill", "stopArm", "stopAck"}
  BY <1>9 DEF Stopping
<1>10. ASSUME MainReady \/ MainLoop \/ MainEof \/ HandleOther \/ HandleQuit \/
     HandleRunReject \/ HandleRunRefuse \/ HandleRunIdle \/ HandleRunAccept \/
     HandleRunNoThread \/ Saw \/ SawKill \/ SawArm \/ SawJoin \/ Shutdown \/ JoinDog PROVE
     UNCHANGED acked /\ mpc' \notin {"stopKill", "stopArm", "stopAck"}
  BY <1>10 DEF MainReady, MainLoop, MainEof, HandleOther, HandleQuit, HandleRunReject,
       HandleRunRefuse, HandleRunIdle, HandleRunAccept, HandleRunNoThread, Saw, SawKill,
       SawArm, SawJoin, Shutdown, JoinDog, Read, Claim, WorkerEnded
<1>11. ASSUME LaunchFail \/ Launch \/ Publish \/ Started \/ QueuedKill \/ QueuedArm \/
     Open \/ ReadReady \/ ReadLine \/ ReadEof \/ Abort \/ AbortTimeout \/ AbortKill \/
     AbortReap \/ Cleanup \/ Finish PROVE UNCHANGED <<acked, mpc, mid>>
  BY <1>11 DEF LaunchFail, Launch, Publish, Started, QueuedKill, QueuedArm, Open,
       ReadReady, ReadLine, ReadEof, Abort, AbortTimeout, AbortKill, AbortReap, Cleanup,
       Finish, Interrupt, Kill
<1>12. ASSUME DogArmed \/ DogChanged \/ DogTimeout \/ DogCheck \/ DogKill \/ DogExit PROVE
     UNCHANGED <<acked, mpc, mid>>
  BY <1>12 DEF DogArmed, DogChanged, DogTimeout, DogCheck, DogKill, DogExit, Kill
<1>13. ASSUME NEW p \in Pids, ChildReady(p) \/ ChildOutput(p) \/ ChildExit(p) \/
     Foreign(p) PROVE UNCHANGED <<acked, mpc, mid>>
  BY <1>13 DEF ChildReady, ChildOutput, ChildExit, Foreign, NotProc
<1> QED
  BY <1>1, <1>2, <1>3, <1>4, <1>5, <1>6, <1>7, <1>8, <1>9, <1>10, <1>11, <1>12, <1>13 DEF
       Next, Gui, Main, Worker, Watchdog, System, Terminated

(* So what a Stop has met has left the queue. *)
LEMMA ServedStep ==
  ASSUME TypeRequests, TypeThreads, RunningInv, ActiveInv, PlaceInv, IdInv, ServedInv,
         [Next]_vars
  PROVE  ServedInv'
<1> SUFFICES ASSUME NEW r \in acked' \cup Stopping({"stopKill", "stopArm", "stopAck"})'
             PROVE  Served(r)'
  BY DEF ServedInv
<1>1. CASE r \in acked \cup Stopping({"stopKill", "stopArm", "stopAck"})
  BY <1>1, ServedKept DEF ServedInv
<1>2. CASE r = wid /\ wpc \in Supervising
  <2>1. r \in Runs
    BY <1>2 DEF PlaceInv
  <2>2. r \notin unsent /\ (mpc = "join" => mreq.id # r) /\ \A i \in 1 .. Len(stdin) : ~Queued(i, r)
    BY <1>2, <2>1 DEF PlaceInv
  <2> QED
    BY <2>1, <2>2, ServedKept DEF Served
<1> QED
  BY <1>1, <1>2, MetFrom

(* No step forgets a Stop: delivering it interrupts the run, and a supervision   *)
(* past its child cannot be stopped any more.                                    *)
LEMMA HeededKept ==
  ASSUME NEW r, PlaceInv, ChildInv, SignalledInv, Served(r), Heeded(r), [Next]_vars
  PROVE  Heeded(r)'
<1>1. CASE HandleRunAccept
  BY <1>1 DEF HandleRunAccept, Claim, WorkerEnded, Heeded, Served
<1>2. CASE HandleRunNoThread
  BY <1>2 DEF HandleRunNoThread, Claim, WorkerEnded, Heeded, Served, PlaceInv,
       Supervising, HasChild
<1>3. CASE HandleStop
  BY <1>3 DEF HandleStop, Read, Heeded
<1>4. CASE StopKill
  BY <1>4 DEF StopKill, Heeded, Interrupt
<1>5. CASE SawKill
  BY <1>5 DEF SawKill, Heeded, Interrupt
<1>6. CASE LaunchFail
  BY <1>6 DEF LaunchFail, Heeded
<1>7. CASE Launch
  BY <1>7 DEF Launch, Heeded
<1>8. CASE Publish
  BY Zenon, <1>8 DEF Publish, Heeded, SignalledInv
<1>9. CASE Started
  BY <1>9 DEF Started, Heeded
<1>10. CASE QueuedKill
  BY <1>10 DEF QueuedKill, Heeded, ChildInv, HasChild, Interrupt
<1>11. CASE QueuedArm
  BY <1>11 DEF QueuedArm, Heeded
<1>12. CASE QueuedAnswer
  BY <1>12 DEF QueuedAnswer, Heeded, SignalledInv
<1>13. CASE Open
  BY <1>13 DEF Open, Heeded
<1>14. CASE ReadReady
  BY <1>14 DEF ReadReady, Heeded
<1>15. CASE ReadLine
  BY <1>15 DEF ReadLine, Heeded
<1>16. CASE ReadEof
  BY <1>16 DEF ReadEof, Heeded
<1>17. CASE Abort
  BY <1>17 DEF Abort, Heeded, Interrupt
<1>18. CASE AbortTimeout
  BY <1>18 DEF AbortTimeout, Heeded
<1>19. CASE AbortKill
  BY <1>19 DEF AbortKill, Heeded, Kill
<1>20. CASE AbortReap
  BY <1>20 DEF AbortReap, Heeded
<1>21. CASE Cleanup
  BY <1>21 DEF Cleanup, Heeded
<1>22. CASE Finish
  BY <1>22, RunsAssumption DEF Finish, Heeded, Served
<1>23. CASE DogKill
  BY <1>23 DEF DogKill, Heeded, Kill
<1>24. CASE UNCHANGED <<interrupted, aborted, pendingStop, activeId, wstop, wpc, wid>>
  BY <1>24 DEF Heeded
<1>25. ASSUME NEW q \in Runs, GuiRun(q) PROVE UNCHANGED <<interrupted, aborted,
     pendingStop, activeId, wstop, wpc, wid>>
  BY <1>25 DEF GuiRun, Send, NotGui
<1>26. ASSUME GuiStop \/ GuiOther \/ GuiQuit \/ GuiCloseStdin \/ GuiCloseStdout PROVE
     UNCHANGED <<interrupted, aborted, pendingStop, activeId, wstop, wpc, wid>>
  BY <1>26 DEF GuiStop, GuiOther, GuiQuit, GuiCloseStdin, GuiCloseStdout, Send, NotGui
<1>27. ASSUME MainReady \/ MainLoop \/ MainEof \/ HandleOther \/ HandleQuit \/
     HandleRunReject \/ HandleRunRefuse \/ HandleRunIdle \/ StopArm \/ StopAnswer \/ Saw
     \/ SawArm \/ SawJoin \/ Shutdown \/ JoinDog PROVE UNCHANGED <<interrupted, aborted,
     pendingStop, activeId, wstop, wpc, wid>>
  BY <1>27 DEF MainReady, MainLoop, MainEof, HandleOther, HandleQuit, HandleRunReject,
       HandleRunRefuse, HandleRunIdle, StopArm, StopAnswer, Saw, SawArm, SawJoin,
       Shutdown, JoinDog, Read
<1>28. ASSUME DogArmed \/ DogChanged \/ DogTimeout \/ DogCheck \/ DogExit PROVE UNCHANGED
     <<interrupted, aborted, pendingStop, activeId, wstop, wpc, wid>>
  BY <1>28 DEF DogArmed, DogChanged, DogTimeout, DogCheck, DogExit
<1>29. ASSUME NEW p \in Pids, ChildReady(p) \/ ChildOutput(p) \/ ChildExit(p) \/
     Foreign(p) PROVE UNCHANGED <<interrupted, aborted, pendingStop, activeId, wstop, wpc,
     wid>>
  BY <1>29 DEF ChildReady, ChildOutput, ChildExit, Foreign, NotProc
<1> QED
  BY <1>1, <1>2, <1>3, <1>4, <1>5, <1>6, <1>7, <1>8, <1>9, <1>10, <1>11, <1>12, <1>13,
       <1>14, <1>15, <1>16, <1>17, <1>18, <1>19, <1>20, <1>21, <1>22, <1>23, <1>24, <1>25,
       <1>26, <1>27, <1>28, <1>29 DEF Next, Gui, Main, Worker, Watchdog, System,
       Terminated

(* A Stop is answered delivered when it is queued, has been sent, or was queued  *)
(* and has now been sent.                                                        *)
LEMMA HeededFrom ==
  ASSUME ChildInv, PlaceInv, StopTargetInv, SignalledInv, CapturedInv, ServedInv,
         [Next]_vars
  PROVE  \A r \in acked' \cup Stopping({"stopArm", "stopAck"})' :
           r \in acked \cup Stopping({"stopArm", "stopAck"}) \/ Heeded(r)'
<1>1. CASE HandleStop
  <2>1. acked' = acked
    BY <1>1 DEF HandleStop
  <2>2. ASSUME mpc' \in {"stopArm", "stopAck"}
        PROVE  pendingStop' /\ activeId' = mid'
    BY <1>1, <2>2 DEF HandleStop, Defer
  <2> QED
    BY <2>1, <2>2, Zenon DEF Stopping, Heeded
<1>2. CASE StopKill
  <2>1. acked' = acked /\ mid' = mid /\ wid' = wid /\ wpc' = wpc /\ mpc = "stopKill"
    BY <1>2 DEF StopKill
  <2>2. ASSUME mpc' = "stopArm", wid = mid
        PROVE  wid \in interrupted' \/ wpc \in {"cleanup", "finish"}
    <3>1. Interrupt(mpid, "stop") /\ wchild = mpid
      BY <1>2, <2>1, <2>2 DEF StopKill, CapturedInv
    <3>2. wpc \in Supervising \cup {"finish"} /\ wpc \notin {"launch", "publish"}
      BY <2>1, <2>2 DEF ServedInv, Served, Stopping, PlaceInv, StopTargetInv
    <3>3. wpc \in HasChild \/ wpc \in {"cleanup", "finish"}
      BY <3>2 DEF Supervising
    <3> QED
      BY <3>1, <3>3 DEF Interrupt, ChildInv
  <2>3. mpc' \in {"stopArm", "stopNak"}
    BY <1>2 DEF StopKill
  <2> QED
    BY <2>1, <2>2, <2>3 DEF Stopping, Heeded
<1>3. CASE StopArm
  BY <1>3 DEF StopArm, Stopping
<1>4. CASE StopAnswer
  BY <1>4 DEF StopAnswer, Stopping
<1>5. CASE QueuedAnswer
  <2>1. wid \in interrupted /\ wid' = wid /\ interrupted' = interrupted
    BY <1>5 DEF QueuedAnswer, SignalledInv
  <2>2. acked' \subseteq acked \cup {wid} /\ UNCHANGED <<mpc, mid>>
    BY <1>5 DEF QueuedAnswer
  <2> QED
    BY <2>1, <2>2 DEF Stopping, Heeded
<1>6. CASE UNCHANGED <<acked, mpc, mid>>
  BY <1>6 DEF Stopping
<1>7. ASSUME NEW q \in Runs, GuiRun(q) PROVE UNCHANGED <<acked, mpc, mid>>
  BY <1>7 DEF GuiRun, Send, NotGui
<1>8. ASSUME GuiStop \/ GuiOther \/ GuiQuit \/ GuiCloseStdin \/ GuiCloseStdout PROVE
     UNCHANGED <<acked, mpc, mid>>
  BY <1>8 DEF GuiStop, GuiOther, GuiQuit, GuiCloseStdin, GuiCloseStdout, Send, NotGui
<1>9. CASE UNCHANGED acked /\ mpc' \notin {"stopArm", "stopAck"}
  BY <1>9 DEF Stopping
<1>10. ASSUME MainReady \/ MainLoop \/ MainEof \/ HandleOther \/ HandleQuit \/
     HandleRunReject \/ HandleRunRefuse \/ HandleRunIdle \/ HandleRunAccept \/
     HandleRunNoThread \/ Saw \/ SawKill \/ SawArm \/ SawJoin \/ Shutdown \/ JoinDog PROVE
     UNCHANGED acked /\ mpc' \notin {"stopArm", "stopAck"}
  BY <1>10 DEF MainReady, MainLoop, MainEof, HandleOther, HandleQuit, HandleRunReject,
       HandleRunRefuse, HandleRunIdle, HandleRunAccept, HandleRunNoThread, Saw, SawKill,
       SawArm, SawJoin, Shutdown, JoinDog, Read, Claim, WorkerEnded
<1>11. ASSUME LaunchFail \/ Launch \/ Publish \/ Started \/ QueuedKill \/ QueuedArm \/
     Open \/ ReadReady \/ ReadLine \/ ReadEof \/ Abort \/ AbortTimeout \/ AbortKill \/
     AbortReap \/ Cleanup \/ Finish PROVE UNCHANGED <<acked, mpc, mid>>
  BY <1>11 DEF LaunchFail, Launch, Publish, Started, QueuedKill, QueuedArm, Open,
       ReadReady, ReadLine, ReadEof, Abort, AbortTimeout, AbortKill, AbortReap, Cleanup,
       Finish, Interrupt, Kill
<1>12. ASSUME DogArmed \/ DogChanged \/ DogTimeout \/ DogCheck \/ DogKill \/ DogExit PROVE
     UNCHANGED <<acked, mpc, mid>>
  BY <1>12 DEF DogArmed, DogChanged, DogTimeout, DogCheck, DogKill, DogExit, Kill
<1>13. ASSUME NEW p \in Pids, ChildReady(p) \/ ChildOutput(p) \/ ChildExit(p) \/
     Foreign(p) PROVE UNCHANGED <<acked, mpc, mid>>
  BY <1>13 DEF ChildReady, ChildOutput, ChildExit, Foreign, NotProc
<1> QED
  BY <1>1, <1>2, <1>3, <1>4, <1>5, <1>6, <1>7, <1>8, <1>9, <1>10, <1>11, <1>12, <1>13 DEF
       Next, Gui, Main, Worker, Watchdog, System, Terminated

(* The Stops answered stay heeded. *)
LEMMA HeededStep ==
  ASSUME ChildInv, PlaceInv, StopTargetInv, SignalledInv, CapturedInv, ServedInv, HeededInv,
         [Next]_vars
  PROVE  HeededInv'
<1> SUFFICES ASSUME NEW r \in acked' \cup Stopping({"stopArm", "stopAck"})'
             PROVE  Heeded(r)'
  BY DEF HeededInv
<1>1. CASE r \in acked \cup Stopping({"stopArm", "stopAck"})
  <2>1. Served(r) /\ Heeded(r)
    BY <1>1 DEF ServedInv, HeededInv, Stopping
  <2> QED
    BY <2>1, HeededKept
<1> QED
  BY <1>1, HeededFrom

(* handle_stop queues a Stop for the run it finds active, and the idle section *)
(* drops it.                                                                   *)
LEMMA QueuedForStep ==
  ASSUME RunningInv, IdInv, QueuedForInv, [Next]_vars
  PROVE  QueuedForInv'
<1>1. CASE HandleRunAccept
  BY <1>1 DEF HandleRunAccept, Claim, WorkerEnded, QueuedForInv
<1>2. CASE HandleRunNoThread
  BY <1>2 DEF HandleRunNoThread, Claim, WorkerEnded, QueuedForInv
<1>3. CASE HandleStop
  BY <1>3 DEF HandleStop, Read, QueuedForInv, IdInv, Defer
<1>4. CASE LaunchFail
  BY <1>4 DEF LaunchFail, QueuedForInv
<1>5. CASE Launch
  BY <1>5 DEF Launch, QueuedForInv
<1>6. CASE Publish
  BY Zenon, <1>6 DEF Publish, QueuedForInv
<1>7. CASE Started
  BY <1>7 DEF Started, QueuedForInv
<1>8. CASE QueuedKill
  BY <1>8 DEF QueuedKill, QueuedForInv, Interrupt
<1>9. CASE QueuedArm
  BY <1>9 DEF QueuedArm, QueuedForInv
<1>10. CASE QueuedAnswer
  BY <1>10 DEF QueuedAnswer, QueuedForInv
<1>11. CASE Open
  BY <1>11 DEF Open, QueuedForInv
<1>12. CASE ReadReady
  BY <1>12 DEF ReadReady, QueuedForInv
<1>13. CASE ReadLine
  BY <1>13 DEF ReadLine, QueuedForInv
<1>14. CASE ReadEof
  BY <1>14 DEF ReadEof, QueuedForInv
<1>15. CASE Abort
  BY <1>15 DEF Abort, QueuedForInv, Interrupt
<1>16. CASE AbortTimeout
  BY <1>16 DEF AbortTimeout, QueuedForInv
<1>17. CASE AbortKill
  BY <1>17 DEF AbortKill, QueuedForInv, Kill
<1>18. CASE AbortReap
  BY <1>18 DEF AbortReap, QueuedForInv
<1>19. CASE Cleanup
  BY <1>19 DEF Cleanup, QueuedForInv
<1>20. CASE Finish
  BY <1>20 DEF Finish, QueuedForInv, RunningInv, Supervising, HasChild
<1>21. CASE UNCHANGED <<workerRunning, pendingStop, wid, stopRead, wstop, wpc>>
  BY <1>21 DEF QueuedForInv
<1>22. ASSUME NEW q \in Runs, GuiRun(q) PROVE UNCHANGED <<workerRunning, pendingStop, wid,
     stopRead, wstop, wpc>>
  BY <1>22 DEF GuiRun, Send, NotGui
<1>23. ASSUME GuiStop \/ GuiOther \/ GuiQuit \/ GuiCloseStdin \/ GuiCloseStdout PROVE
     UNCHANGED <<workerRunning, pendingStop, wid, stopRead, wstop, wpc>>
  BY <1>23 DEF GuiStop, GuiOther, GuiQuit, GuiCloseStdin, GuiCloseStdout, Send, NotGui
<1>24. ASSUME MainReady \/ MainLoop \/ MainEof \/ HandleOther \/ HandleQuit \/
     HandleRunReject \/ HandleRunRefuse \/ HandleRunIdle \/ StopKill \/ StopArm \/
     StopAnswer \/ Saw \/ SawKill \/ SawArm \/ SawJoin \/ Shutdown \/ JoinDog PROVE
     UNCHANGED <<workerRunning, pendingStop, wid, stopRead, wstop, wpc>>
  BY <1>24 DEF MainReady, MainLoop, MainEof, HandleOther, HandleQuit, HandleRunReject,
       HandleRunRefuse, HandleRunIdle, StopKill, StopArm, StopAnswer, Saw, SawKill,
       SawArm, SawJoin, Shutdown, JoinDog, Read, Interrupt
<1>25. ASSUME DogArmed \/ DogChanged \/ DogTimeout \/ DogCheck \/ DogKill \/ DogExit PROVE
     UNCHANGED <<workerRunning, pendingStop, wid, stopRead, wstop, wpc>>
  BY <1>25 DEF DogArmed, DogChanged, DogTimeout, DogCheck, DogKill, DogExit, Kill
<1>26. ASSUME NEW p \in Pids, ChildReady(p) \/ ChildOutput(p) \/ ChildExit(p) \/
     Foreign(p) PROVE UNCHANGED <<workerRunning, pendingStop, wid, stopRead, wstop, wpc>>
  BY <1>26 DEF ChildReady, ChildOutput, ChildExit, Foreign, NotProc
<1> QED
  BY <1>1, <1>2, <1>3, <1>4, <1>5, <1>6, <1>7, <1>8, <1>9, <1>10, <1>11, <1>12, <1>13,
       <1>14, <1>15, <1>16, <1>17, <1>18, <1>19, <1>20, <1>21, <1>22, <1>23, <1>24, <1>25,
       <1>26 DEF Next, Gui, Main, Worker, Watchdog, System, Terminated

(* Without pid reuse a pid that was once handed out keeps its meaning. *)
LEMMA RememberedKept ==
  ASSUME ~PidReuse, TypeThreads, TypeOutside, ChildInv, NEW p, NEW run, Remembers(p, run),
         [Next]_vars
  PROVE  proc'[p] # "free" /\ (proc'[p] \in Owned => wid' \in run)
<1>1. CASE HandleRunAccept
  BY <1>1 DEF HandleRunAccept, Claim, WorkerEnded, Remembers, ChildInv, HasChild
<1>2. CASE StopKill
  BY <1>2 DEF StopKill, Remembers, TypeOutside, TypeThreads, Owned, Live, Interrupt
<1>3. CASE SawKill
  BY <1>3 DEF SawKill, Remembers, TypeOutside, TypeThreads, Owned, Live, Interrupt
<1>4. CASE Launch
  BY <1>4 DEF Launch, Remembers, TypeOutside, TypeThreads, Owned, Live
<1>5. CASE QueuedKill
  BY <1>5 DEF QueuedKill, Remembers, TypeOutside, TypeThreads, Owned, Live, Interrupt
<1>6. CASE ReadEof
  BY <1>6 DEF ReadEof, Remembers, TypeOutside, TypeThreads, Owned, Live, Reap
<1>7. CASE Abort
  BY <1>7 DEF Abort, Remembers, TypeOutside, TypeThreads, Owned, Live, Interrupt
<1>8. CASE AbortKill
  BY <1>8 DEF AbortKill, Remembers, TypeOutside, TypeThreads, Owned, Live, Kill
<1>9. CASE AbortReap
  BY <1>9 DEF AbortReap, Remembers, TypeOutside, TypeThreads, Owned, Live, Reap
<1>10. CASE Finish
  BY <1>10 DEF Finish, Remembers, ChildInv, HasChild
<1>11. CASE DogKill
  BY <1>11 DEF DogKill, Remembers, TypeOutside, TypeThreads, Owned, Live, Kill
<1>12. ASSUME NEW c \in Pids, ChildReady(c) PROVE proc'[p] # "free" /\ (proc'[p] \in Owned
     => wid' \in run)
  BY <1>12 DEF ChildReady, NotProc, Remembers, TypeOutside, TypeThreads, Owned, Live
<1>13. ASSUME NEW c \in Pids, ChildExit(c) PROVE proc'[p] # "free" /\ (proc'[p] \in Owned
     => wid' \in run)
  BY <1>13 DEF ChildExit, NotProc, Remembers, TypeOutside, TypeThreads, Owned, Live
<1>14. ASSUME NEW c \in Pids, Foreign(c) PROVE proc'[p] # "free" /\ (proc'[p] \in Owned =>
     wid' \in run)
  BY <1>14 DEF Foreign, NotProc, Remembers, TypeOutside, TypeThreads, Owned, Live
<1>15. CASE UNCHANGED <<proc, wid>>
  BY <1>15 DEF Remembers
<1>16. ASSUME NEW q \in Runs, GuiRun(q) PROVE UNCHANGED <<proc, wid>>
  BY <1>16 DEF GuiRun, Send, NotGui
<1>17. ASSUME GuiStop \/ GuiOther \/ GuiQuit \/ GuiCloseStdin \/ GuiCloseStdout PROVE
     UNCHANGED <<proc, wid>>
  BY <1>17 DEF GuiStop, GuiOther, GuiQuit, GuiCloseStdin, GuiCloseStdout, Send, NotGui
<1>18. ASSUME MainReady \/ MainLoop \/ MainEof \/ HandleOther \/ HandleQuit \/
     HandleRunReject \/ HandleRunRefuse \/ HandleRunIdle \/ HandleRunNoThread \/
     HandleStop \/ StopArm \/ StopAnswer \/ Saw \/ SawArm \/ SawJoin \/ Shutdown \/
     JoinDog PROVE UNCHANGED <<proc, wid>>
  BY <1>18 DEF MainReady, MainLoop, MainEof, HandleOther, HandleQuit, HandleRunReject,
       HandleRunRefuse, HandleRunIdle, HandleRunNoThread, HandleStop, StopArm, StopAnswer,
       Saw, SawArm, SawJoin, Shutdown, JoinDog, Read, Claim, WorkerEnded
<1>19. ASSUME LaunchFail \/ Publish \/ Started \/ QueuedArm \/ QueuedAnswer \/ Open \/
     ReadReady \/ ReadLine \/ AbortTimeout \/ Cleanup PROVE UNCHANGED <<proc, wid>>
  BY <1>19 DEF LaunchFail, Publish, Started, QueuedArm, QueuedAnswer, Open, ReadReady,
       ReadLine, AbortTimeout, Cleanup
<1>20. ASSUME DogArmed \/ DogChanged \/ DogTimeout \/ DogCheck \/ DogExit PROVE UNCHANGED
     <<proc, wid>>
  BY <1>20 DEF DogArmed, DogChanged, DogTimeout, DogCheck, DogExit
<1>21. ASSUME NEW c \in Pids, ChildOutput(c) PROVE UNCHANGED <<proc, wid>>
  BY <1>21 DEF ChildOutput, NotProc
<1> QED
  BY <1>1, <1>2, <1>3, <1>4, <1>5, <1>6, <1>7, <1>8, <1>9, <1>10, <1>11, <1>12, <1>13,
       <1>14, <1>15, <1>16, <1>17, <1>18, <1>19, <1>20, <1>21 DEF Next, Gui, Main, Worker,
       Watchdog, System, Terminated

(* The worker's child changes at the spawn, and goes with the run. *)
LEMMA ChildFrame ==
  ASSUME [Next]_vars
  PROVE  wchild' = NoPid \/ Launch \/ UNCHANGED <<wchild, wid>>
<1>1. CASE HandleRunAccept
  BY <1>1 DEF HandleRunAccept, Claim, WorkerEnded
<1>2. CASE Launch
  BY <1>2 DEF Launch
<1>3. CASE Finish
  BY <1>3 DEF Finish
<1>4. CASE UNCHANGED <<wchild, wid>>
  BY <1>4
<1>5. ASSUME NEW q \in Runs, GuiRun(q) PROVE UNCHANGED <<wchild, wid>>
  BY <1>5 DEF GuiRun, Send, NotGui
<1>6. ASSUME GuiStop \/ GuiOther \/ GuiQuit \/ GuiCloseStdin \/ GuiCloseStdout PROVE
     UNCHANGED <<wchild, wid>>
  BY <1>6 DEF GuiStop, GuiOther, GuiQuit, GuiCloseStdin, GuiCloseStdout, Send, NotGui
<1>7. ASSUME MainReady \/ MainLoop \/ MainEof \/ HandleOther \/ HandleQuit \/
     HandleRunReject \/ HandleRunRefuse \/ HandleRunIdle \/ HandleRunNoThread \/
     HandleStop \/ StopKill \/ StopArm \/ StopAnswer \/ Saw \/ SawKill \/ SawArm \/
     SawJoin \/ Shutdown \/ JoinDog PROVE UNCHANGED <<wchild, wid>>
  BY <1>7 DEF MainReady, MainLoop, MainEof, HandleOther, HandleQuit, HandleRunReject,
       HandleRunRefuse, HandleRunIdle, HandleRunNoThread, HandleStop, StopKill, StopArm,
       StopAnswer, Saw, SawKill, SawArm, SawJoin, Shutdown, JoinDog, Read, Claim,
       WorkerEnded, Interrupt
<1>8. ASSUME LaunchFail \/ Publish \/ Started \/ QueuedKill \/ QueuedArm \/ QueuedAnswer
     \/ Open \/ ReadReady \/ ReadLine \/ ReadEof \/ Abort \/ AbortTimeout \/ AbortKill \/
     AbortReap \/ Cleanup PROVE UNCHANGED <<wchild, wid>>
  BY <1>8 DEF LaunchFail, Publish, Started, QueuedKill, QueuedArm, QueuedAnswer, Open,
       ReadReady, ReadLine, ReadEof, Abort, AbortTimeout, AbortKill, AbortReap, Cleanup,
       Interrupt, Kill
<1>9. ASSUME DogArmed \/ DogChanged \/ DogTimeout \/ DogCheck \/ DogKill \/ DogExit PROVE
     UNCHANGED <<wchild, wid>>
  BY <1>9 DEF DogArmed, DogChanged, DogTimeout, DogCheck, DogKill, DogExit, Kill
<1>10. ASSUME NEW p \in Pids, ChildReady(p) \/ ChildOutput(p) \/ ChildExit(p) \/
     Foreign(p) PROVE UNCHANGED <<wchild, wid>>
  BY <1>10 DEF ChildReady, ChildOutput, ChildExit, Foreign, NotProc
<1> QED
  BY <1>1, <1>2, <1>3, <1>4, <1>5, <1>6, <1>7, <1>8, <1>9, <1>10 DEF Next, Gui, Main,
       Worker, Watchdog, System, Terminated

(* The child's pid was handed out to it. *)
LEMMA ChildPidStep ==
  ASSUME ~PidReuse, TypeThreads, TypeOutside, ChildInv, ChildPidInv, [Next]_vars
  PROVE  ChildPidInv'
<1>1. CASE wchild' = NoPid
  BY <1>1 DEF ChildPidInv
<1>2. CASE Launch
  BY <1>2 DEF Launch, ChildPidInv, Remembers, TypeOutside, Owned, Live
<1>3. CASE UNCHANGED <<wchild, wid>>
  <2>1. CASE wchild = NoPid
    BY <1>3, <2>1 DEF ChildPidInv
  <2>2. CASE Remembers(wchild, {wid})
    <3>1. proc'[wchild] # "free"
      BY <2>2, RememberedKept
    <3> QED
      BY <1>3, <2>2, <3>1 DEF ChildPidInv, Remembers
  <2> QED
    BY <2>1, <2>2 DEF ChildPidInv
<1>4. wchild' = NoPid \/ Launch \/ UNCHANGED <<wchild, wid>>
  BY ChildFrame
<1> QED
  BY <1>1, <1>2, <1>3, <1>4

(* A pid is captured for a Stop in handle_stop, for its watchdog after the kill. *)
LEMMA CaptureFrame ==
  ASSUME [Next]_vars
  PROVE  \/ HandleStop \/ StopKill \/ SawKill
         \/ mpc' \notin {"stopKill", "stopArm", "sawArm"}
         \/ UNCHANGED <<mpc, mid, mpid>>
<1>1. CASE HandleStop
  BY <1>1
<1>2. CASE StopKill
  BY <1>2
<1>3. CASE SawKill
  BY <1>3
<1>4. CASE UNCHANGED <<mpc, mid, mpid>>
  BY <1>4
<1>5. ASSUME NEW q \in Runs, GuiRun(q) PROVE UNCHANGED <<mpc, mid, mpid>>
  BY <1>5 DEF GuiRun, Send, NotGui
<1>6. ASSUME GuiStop \/ GuiOther \/ GuiQuit \/ GuiCloseStdin \/ GuiCloseStdout PROVE
     UNCHANGED <<mpc, mid, mpid>>
  BY <1>6 DEF GuiStop, GuiOther, GuiQuit, GuiCloseStdin, GuiCloseStdout, Send, NotGui
<1>7. CASE mpc' \notin {"stopKill", "stopArm", "sawArm"}
  BY <1>7
<1>8. ASSUME MainReady \/ MainLoop \/ MainEof \/ HandleOther \/ HandleQuit \/
     HandleRunReject \/ HandleRunRefuse \/ HandleRunIdle \/ HandleRunAccept \/
     HandleRunNoThread \/ StopArm \/ StopAnswer \/ Saw \/ SawArm \/ SawJoin \/ Shutdown \/
     JoinDog PROVE mpc' \notin {"stopKill", "stopArm", "sawArm"}
  BY <1>8 DEF MainReady, MainLoop, MainEof, HandleOther, HandleQuit, HandleRunReject,
       HandleRunRefuse, HandleRunIdle, HandleRunAccept, HandleRunNoThread, StopArm,
       StopAnswer, Saw, SawArm, SawJoin, Shutdown, JoinDog, Read, Claim, WorkerEnded
<1>9. ASSUME LaunchFail \/ Launch \/ Publish \/ Started \/ QueuedKill \/ QueuedArm \/
     QueuedAnswer \/ Open \/ ReadReady \/ ReadLine \/ ReadEof \/ Abort \/ AbortTimeout \/
     AbortKill \/ AbortReap \/ Cleanup \/ Finish PROVE UNCHANGED <<mpc, mid, mpid>>
  BY <1>9 DEF LaunchFail, Launch, Publish, Started, QueuedKill, QueuedArm, QueuedAnswer,
       Open, ReadReady, ReadLine, ReadEof, Abort, AbortTimeout, AbortKill, AbortReap,
       Cleanup, Finish, Interrupt, Kill
<1>10. ASSUME DogArmed \/ DogChanged \/ DogTimeout \/ DogCheck \/ DogKill \/ DogExit PROVE
     UNCHANGED <<mpc, mid, mpid>>
  BY <1>10 DEF DogArmed, DogChanged, DogTimeout, DogCheck, DogKill, DogExit, Kill
<1>11. ASSUME NEW p \in Pids, ChildReady(p) \/ ChildOutput(p) \/ ChildExit(p) \/
     Foreign(p) PROVE UNCHANGED <<mpc, mid, mpid>>
  BY <1>11 DEF ChildReady, ChildOutput, ChildExit, Foreign, NotProc
<1> QED
  BY <1>1, <1>2, <1>3, <1>4, <1>5, <1>6, <1>7, <1>8, <1>9, <1>10, <1>11 DEF Next, Gui,
       Main, Worker, Watchdog, System, Terminated

(* What main captured under the lock is not another run's when it is used. *)
LEMMA CapturedForStep ==
  ASSUME ~PidReuse, TypeThreads, TypeOutside, RunningInv, ChildInv, ActiveInv, IdInv,
         ChildPidInv, CapturedForInv, [Next]_vars
  PROVE  CapturedForInv'
<1>1. CASE HandleStop
  <2>1. mpc' \notin {"stopArm", "sawArm"} /\ UNCHANGED <<proc, wid>>
    BY <1>1 DEF HandleStop
  <2>2. ASSUME mpc' = "stopKill"
        PROVE  mid' \in stopRead' /\ Remembers(mpid, {mid})'
    <3>1. /\ activePid # NoPid /\ mpid' = activePid /\ mid' = activeId
          /\ stopRead' = IF workerRunning THEN stopRead \cup {activeId} ELSE stopRead
      BY <1>1, <2>2 DEF HandleStop, Defer
    <3>2. wpc \in Published /\ activePid = wchild
      BY <3>1 DEF ActiveInv
    <3>3. workerRunning /\ activeId = wid
      BY <3>2, Zenon DEF RunningInv, IdInv, Published
    <3>4. Remembers(wchild, {wid})
      BY <3>1, <3>2 DEF ChildPidInv
    <3> QED
      BY <2>1, <3>1, <3>2, <3>3, <3>4 DEF Remembers
  <2> QED
    BY <2>1, <2>2 DEF CapturedForInv
<1>2. CASE StopKill \/ SawKill
  <2>1. mpc' # "stopKill" /\ UNCHANGED <<mpid, wid>> /\ mpid \in Pids
    BY <1>2 DEF StopKill, SawKill, TypeThreads
  <2>2. ASSUME mpc' \in {"stopArm", "sawArm"}
        PROVE  Remembers(mpid, interrupted)'
    <3>1. Exists(mpid) /\ \E c : Interrupt(mpid, c)
      BY <1>2, <2>2 DEF StopKill, SawKill
    <3> QED
      BY <2>1, <3>1 DEF Exists, Interrupt, Remembers, TypeOutside, Owned, Live
  <2> QED
    BY <2>1, <2>2 DEF CapturedForInv
<1>3. CASE mpc' \notin {"stopKill", "stopArm", "sawArm"}
  BY <1>3 DEF CapturedForInv
<1>4. CASE UNCHANGED <<mpc, mid, mpid>>
  <2>1. stopRead \subseteq stopRead' /\ interrupted \subseteq interrupted'
    BY HistoryGrows
  <2>2. ASSUME mpc = "stopKill"
        PROVE  mid \in stopRead /\ Remembers(mpid, {mid})'
    <3>1. Remembers(mpid, {mid}) /\ mid \in stopRead
      BY <2>2 DEF CapturedForInv
    <3>2. proc'[mpid] # "free" /\ (proc'[mpid] \in Owned => wid' \in {mid})
      BY <3>1, RememberedKept
    <3> QED
      BY <1>4, <3>1, <3>2 DEF Remembers
  <2>3. ASSUME mpc \in {"stopArm", "sawArm"}
        PROVE  Remembers(mpid, interrupted)'
    <3>1. Remembers(mpid, interrupted)
      BY <2>3 DEF CapturedForInv
    <3>2. proc'[mpid] # "free" /\ (proc'[mpid] \in Owned => wid' \in interrupted)
      BY <3>1, RememberedKept
    <3> QED
      BY <1>4, <2>1, <3>1, <3>2 DEF Remembers
  <2> QED
    BY <1>4, <2>1, <2>2, <2>3 DEF CapturedForInv
<1> QED
  BY <1>1, <1>2, <1>3, <1>4, CaptureFrame

(* The watchdog is armed for a pid that was signalled, and takes the pid from there. *)
LEMMA DogFrame ==
  ASSUME [Next]_vars
  PROVE  \/ StopArm \/ SawArm \/ QueuedArm \/ DogArmed
         \/ /\ wdArmed' => wdArmed /\ wdPid' = wdPid
            /\ dpc' \in {"timing", "check", "kill"} => dpc \in {"timing", "check", "kill"} /\ dpid' = dpid
<1>1. CASE StopArm
  BY <1>1
<1>2. CASE SawArm
  BY <1>2
<1>3. CASE Shutdown
  BY <1>3 DEF Shutdown
<1>4. CASE QueuedArm
  BY <1>4
<1>5. CASE Cleanup
  BY <1>5 DEF Cleanup
<1>6. CASE DogArmed
  BY <1>6
<1>7. CASE DogChanged
  BY <1>7 DEF DogChanged
<1>8. CASE DogTimeout
  BY <1>8 DEF DogTimeout
<1>9. CASE DogCheck
  BY <1>9 DEF DogCheck
<1>10. CASE DogKill
  BY <1>10 DEF DogKill
<1>11. CASE DogExit
  BY <1>11 DEF DogExit
<1>12. CASE UNCHANGED <<wdArmed, wdPid, dpc, dpid>>
  BY <1>12
<1>13. ASSUME NEW q \in Runs, GuiRun(q) PROVE UNCHANGED <<wdArmed, wdPid, dpc, dpid>>
  BY <1>13 DEF GuiRun, Send, NotGui
<1>14. ASSUME GuiStop \/ GuiOther \/ GuiQuit \/ GuiCloseStdin \/ GuiCloseStdout PROVE
     UNCHANGED <<wdArmed, wdPid, dpc, dpid>>
  BY <1>14 DEF GuiStop, GuiOther, GuiQuit, GuiCloseStdin, GuiCloseStdout, Send, NotGui
<1>15. ASSUME MainReady \/ MainLoop \/ MainEof \/ HandleOther \/ HandleQuit \/
     HandleRunReject \/ HandleRunRefuse \/ HandleRunIdle \/ HandleRunAccept \/
     HandleRunNoThread \/ HandleStop \/ StopKill \/ StopAnswer \/ Saw \/ SawKill \/
     SawJoin \/ JoinDog PROVE UNCHANGED <<wdArmed, wdPid, dpc, dpid>>
  BY <1>15 DEF MainReady, MainLoop, MainEof, HandleOther, HandleQuit, HandleRunReject,
       HandleRunRefuse, HandleRunIdle, HandleRunAccept, HandleRunNoThread, HandleStop,
       StopKill, StopAnswer, Saw, SawKill, SawJoin, JoinDog, Read, Claim, WorkerEnded,
       Interrupt
<1>16. ASSUME LaunchFail \/ Launch \/ Publish \/ Started \/ QueuedKill \/ QueuedAnswer \/
     Open \/ ReadReady \/ ReadLine \/ ReadEof \/ Abort \/ AbortTimeout \/ AbortKill \/
     AbortReap \/ Finish PROVE UNCHANGED <<wdArmed, wdPid, dpc, dpid>>
  BY <1>16 DEF LaunchFail, Launch, Publish, Started, QueuedKill, QueuedAnswer, Open,
       ReadReady, ReadLine, ReadEof, Abort, AbortTimeout, AbortKill, AbortReap, Finish,
       Interrupt, Kill
<1>17. ASSUME NEW p \in Pids, ChildReady(p) \/ ChildOutput(p) \/ ChildExit(p) \/
     Foreign(p) PROVE UNCHANGED <<wdArmed, wdPid, dpc, dpid>>
  BY <1>17 DEF ChildReady, ChildOutput, ChildExit, Foreign, NotProc
<1> QED
  BY <1>1, <1>2, <1>3, <1>4, <1>5, <1>6, <1>7, <1>8, <1>9, <1>10, <1>11, <1>12, <1>13,
       <1>14, <1>15, <1>16, <1>17 DEF Next, Gui, Main, Worker, Watchdog, System,
       Terminated

(* The watchdog's pid is that of a run that was interrupted, or spent. *)
LEMMA DoomedStep ==
  ASSUME ~PidReuse, TypeThreads, TypeOutside, ChildInv, SignalledInv, ChildPidInv,
         CapturedForInv, DoomedInv, [Next]_vars
  PROVE  DoomedInv'
<1>1. interrupted \subseteq interrupted'
  BY HistoryGrows
<1>2. ASSUME NEW p, Remembers(p, interrupted)
      PROVE  p \in Pids /\ proc'[p] # "free" /\ (proc'[p] \in Owned => wid' \in interrupted')
  BY <1>1, <1>2, RememberedKept DEF Remembers
<1>3. CASE StopArm \/ SawArm \/ QueuedArm
  <2>1. PICK p : Arm(p) /\ Remembers(p, interrupted)
    <3>1. CASE StopArm \/ SawArm
      BY <3>1 DEF StopArm, SawArm, CapturedForInv
    <3>2. CASE QueuedArm
      <4>1. wchild \in Pids /\ wid \in interrupted /\ Arm(wchild)
        BY <3>2 DEF QueuedArm, ChildInv, HasChild, SignalledInv
      <4>2. proc[wchild] # "free"
        BY <4>1, PidsAssumption DEF ChildPidInv, Remembers
      <4> QED
        BY <4>1, <4>2 DEF Remembers
    <3> QED
      BY <1>3, <3>1, <3>2
  <2>2. UNCHANGED <<dpc, dpid>>
    BY <1>3 DEF StopArm, SawArm, QueuedArm
  <2>3. wdArmed' => wdPid' = p \/ (wdArmed /\ wdPid' = wdPid)
    BY <2>1 DEF Arm
  <2> QED
    BY <1>2, <2>1, <2>2, <2>3 DEF DoomedInv, Remembers
<1>4. CASE DogArmed
  <2>1. wdArmed /\ dpid' = wdPid /\ UNCHANGED <<wdArmed, wdPid>>
    BY <1>4 DEF DogArmed
  <2> QED
    BY <1>2, <2>1 DEF DoomedInv, Remembers
<1>5. CASE /\ wdArmed' => wdArmed /\ wdPid' = wdPid
           /\ dpc' \in {"timing", "check", "kill"} =>
                dpc \in {"timing", "check", "kill"} /\ dpid' = dpid
  BY <1>2, <1>5 DEF DoomedInv, Remembers
<1> QED
  BY <1>3, <1>4, <1>5, DogFrame

(* Each kill has its reason: a Stop read for the run, an abort, or leaving; and  *)
(* SIGKILL comes from the watchdog or from stop_and_reap, after a SIGINT.        *)
LEMMA JustifiedStep ==
  ASSUME SignalledInv, QueuedForInv, CapturedForInv, DoomedInv, SignalsJustified,
         [Next]_vars
  PROVE  SignalsJustified'
<1>1. CASE HandleStop
  BY <1>1 DEF HandleStop, Read, SignalsJustified, Leaving
<1>2. CASE StopKill
  <2>1. CASE Exists(mpid)
    <3>1. Interrupt(mpid, "stop") /\ UNCHANGED <<stopRead, aborted>> /\ ~Leaving
      BY <1>2, <2>1 DEF StopKill, Leaving
    <3>2. proc[mpid] \in Owned => wid \in stopRead
      BY <1>2 DEF StopKill, CapturedForInv, Remembers
    <3> QED
      BY <3>1, <3>2 DEF Interrupt, SignalsJustified
  <2>2. CASE ~Exists(mpid)
    BY <1>2, <2>2 DEF StopKill, Leaving, SignalsJustified
  <2> QED
    BY <2>1, <2>2
<1>3. CASE SawKill
  BY <1>3 DEF SawKill, SignalsJustified, Leaving, Interrupt
<1>4. CASE LaunchFail
  BY <1>4 DEF LaunchFail, SignalsJustified, Leaving
<1>5. CASE QueuedKill
  BY <1>5 DEF QueuedKill, SignalsJustified, Leaving, QueuedForInv, Interrupt
<1>6. CASE Abort
  BY <1>6 DEF Abort, SignalsJustified, Leaving, Interrupt
<1>7. CASE AbortKill
  BY <1>7 DEF AbortKill, SignalsJustified, Leaving, SignalledInv, Kill
<1>8. CASE DogKill
  BY <1>8 DEF DogKill, SignalsJustified, Leaving, DoomedInv, Remembers, Kill
<1>9. CASE UNCHANGED <<interrupted, killed, stopRead, aborted, mpc>>
  BY <1>9 DEF SignalsJustified, Leaving
<1>10. ASSUME NEW q \in Runs, GuiRun(q) PROVE UNCHANGED <<interrupted, killed, stopRead,
     aborted, mpc>>
  BY <1>10 DEF GuiRun, Send, NotGui
<1>11. ASSUME GuiStop \/ GuiOther \/ GuiQuit \/ GuiCloseStdin \/ GuiCloseStdout PROVE
     UNCHANGED <<interrupted, killed, stopRead, aborted, mpc>>
  BY <1>11 DEF GuiStop, GuiOther, GuiQuit, GuiCloseStdin, GuiCloseStdout, Send, NotGui
<1>12. CASE UNCHANGED <<interrupted, killed, stopRead, aborted>> /\ (Leaving => Leaving')
  BY <1>12 DEF SignalsJustified
<1>13. ASSUME MainReady \/ MainLoop \/ MainEof \/ HandleOther \/ HandleQuit \/
     HandleRunReject \/ HandleRunRefuse \/ HandleRunIdle \/ HandleRunAccept \/
     HandleRunNoThread \/ StopArm \/ StopAnswer \/ Saw \/ SawArm \/ SawJoin \/ Shutdown \/
     JoinDog PROVE UNCHANGED <<interrupted, killed, stopRead, aborted>> /\ (Leaving =>
     Leaving')
  BY <1>13 DEF MainReady, MainLoop, MainEof, HandleOther, HandleQuit, HandleRunReject,
       HandleRunRefuse, HandleRunIdle, HandleRunAccept, HandleRunNoThread, StopArm,
       StopAnswer, Saw, SawArm, SawJoin, Shutdown, JoinDog, Read, Claim, WorkerEnded, Leaving
<1>14. ASSUME Launch \/ Publish \/ Started \/ QueuedArm \/ QueuedAnswer \/ Open \/
     ReadReady \/ ReadLine \/ ReadEof \/ AbortTimeout \/ AbortReap \/ Cleanup \/ Finish
     PROVE UNCHANGED <<interrupted, killed, stopRead, aborted, mpc>>
  BY <1>14 DEF Launch, Publish, Started, QueuedArm, QueuedAnswer, Open, ReadReady,
       ReadLine, ReadEof, AbortTimeout, AbortReap, Cleanup, Finish
<1>15. ASSUME DogArmed \/ DogChanged \/ DogTimeout \/ DogCheck \/ DogExit PROVE UNCHANGED
     <<interrupted, killed, stopRead, aborted, mpc>>
  BY <1>15 DEF DogArmed, DogChanged, DogTimeout, DogCheck, DogExit
<1>16. ASSUME NEW p \in Pids, ChildReady(p) \/ ChildOutput(p) \/ ChildExit(p) \/
     Foreign(p) PROVE UNCHANGED <<interrupted, killed, stopRead, aborted, mpc>>
  BY <1>16 DEF ChildReady, ChildOutput, ChildExit, Foreign, NotProc
<1> QED
  BY <1>1, <1>2, <1>3, <1>4, <1>5, <1>6, <1>7, <1>8, <1>9, <1>10, <1>11, <1>12, <1>13,
       <1>14, <1>15, <1>16 DEF Next, Gui, Main, Worker, Watchdog, System, Terminated

(* The parts hold initially. *)
LEMMA InductiveInit == Init => Inductive
<1> SUFFICES ASSUME Init PROVE Inductive
  OBVIOUS
<1>1. TypeOK /\ Strong
  BY InitStrong
<1>2. IdInv /\ SignalledInv /\ CapturedInv
  BY DEF Init, IdInv, SignalledInv, CapturedInv
<1>3. ServedInv /\ HeededInv
  BY DEF Init, ServedInv, HeededInv, Stopping
<1>4. QueuedForInv
  BY Zenon DEF Init, QueuedForInv
<1>5. ChildPidInv /\ CapturedForInv /\ SignalsJustified
  BY DEF Init, ChildPidInv, CapturedForInv, SignalsJustified
<1>6. DoomedInv
  BY Zenon DEF Init, DoomedInv
<1> QED
  BY <1>1, <1>2, <1>3, <1>4, <1>5, <1>6 DEF Inductive, StopParts, PidParts

(* And every step keeps them. *)
LEMMA InductiveStep == Inductive /\ [Next]_vars => Inductive'
<1> SUFFICES ASSUME Inductive, [Next]_vars PROVE Inductive'
  OBVIOUS
<1>1. TypeOK /\ Strong /\ StopParts /\ (~PidReuse => PidParts)
  BY DEF Inductive
<1>2. TypeRequests /\ TypeThreads /\ TypeOutside
  BY <1>1 DEF TypeOK
<1>3. /\ RunningInv /\ ChildInv /\ PlaceInv /\ ActiveInv /\ StopTargetInv
  BY <1>1 DEF Strong, Supervision
<1>4. IdInv /\ SignalledInv /\ CapturedInv /\ ServedInv /\ HeededInv /\ QueuedForInv
  BY <1>1 DEF StopParts
<1>5. TypeOK' /\ Strong'
  BY <1>1, TypeStep, StrongStep
<1>6. IdInv' /\ SignalledInv' /\ CapturedInv'
  BY <1>2, <1>3, <1>4, IdStep, SignalledStep, CapturedStep
<1>7. ServedInv' /\ HeededInv' /\ QueuedForInv'
  BY <1>2, <1>3, <1>4, ServedStep, HeededStep, QueuedForStep
<1>8. ASSUME ~PidReuse PROVE PidParts'
  <2>1. ChildPidInv /\ CapturedForInv /\ DoomedInv /\ SignalsJustified
    BY <1>1, <1>8 DEF PidParts
  <2>2. ChildPidInv' /\ CapturedForInv'
    BY <1>2, <1>3, <1>4, <1>8, <2>1, ChildPidStep, CapturedForStep
  <2>3. DoomedInv' /\ SignalsJustified'
    BY <1>2, <1>3, <1>4, <1>8, <2>1, DoomedStep, JustifiedStep
  <2> QED
    BY <2>2, <2>3 DEF PidParts
<1> QED
  BY <1>5, <1>6, <1>7, <1>8 DEF Inductive, StopParts

-----------------------------------------------------------------------------
(* Theorems. *)

(* The invariant of the three threads with the Stops under way holds in every *)
(* reachable state.                                                           *)
THEOREM StopInvariance == Spec => []Inductive
<1> QED
  BY InductiveInit, InductiveStep, PTL DEF Spec

(* A Stop that handle_stop or run_request answered delivered:true is never    *)
(* forgotten, wherever between spawn, readiness, output and reaping it came,  *)
(* and with pids reused.                                                      *)
THEOREM StopKept == Spec => []StopNotLost
<1>1. Inductive => StopNotLost
  BY DEF Inductive, StopParts, HeededInv, Heeded, StopNotLost
<1> QED
  BY <1>1, StopInvariance, PTL

(* Without pid reuse deliver_stop, stop_and_reap and the watchdog signal only *)
(* runs they have a reason to signal, although all of them act on a pid read  *)
(* before an unlock.                                                          *)
THEOREM SignalsWarranted == Spec => [](~PidReuse => SignalsJustified)
<1>1. Inductive => (~PidReuse => SignalsJustified)
  BY DEF Inductive, PidParts
<1> QED
  BY <1>1, StopInvariance, PTL

=============================================================================
