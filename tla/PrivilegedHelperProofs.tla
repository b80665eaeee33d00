----------------------- MODULE PrivilegedHelperProofs -----------------------
(***************************************************************************)
(* What PrivilegedHelper guarantees for every set of runs and pids, every  *)
(* number of Stop requests and every interleaving: its typing, that it     *)
(* implements OperationProtocol, and three of its safety properties.       *)
(*                                                                         *)
(* Each part of the inductive invariant Supervision has a lemma of its     *)
(* own.  A lemma has one step per action that touches the part's           *)
(* variables; the last steps dispose of the actions that do not.           *)
(***************************************************************************)
EXTENDS PrivilegedHelper, TLAPS

USE DEF vars, guiVars, lockVars, wdVars, mainVars, workVars, dogVars, procVars,
        tellVars, sigVars

-----------------------------------------------------------------------------
(* Requests, the queue of requests, and the events told to the desktop. *)

(* The fields of a run request. *)
LEMMA RunFields ==
  ASSUME NEW q \in RunRequests
  PROVE  /\ q \in Requests /\ q.action = "run"
         /\ q.id \in Runs /\ q.program \in Programs
  BY DEF RunRequests, Requests, Programs, Writer

(* A request read as "run" is a run request. *)
LEMMA HeadRun ==
  ASSUME TypeRequests, Read("run")
  PROVE  Head(stdin) \in RunRequests
<1>1. Head(stdin) \in Requests
  BY DEF TypeRequests, Read
<1>2. Head(stdin) \notin [action : {"stop", "other", "quit"}]
  BY DEF Read
<1> QED
  BY <1>1, <1>2 DEF Requests

(* Reading keeps the queue a sequence of requests. *)
LEMMA TailType ==
  ASSUME TypeRequests, NEW a, Read(a)
  PROVE  stdin' \in Seq(Requests)
  BY DEF TypeRequests, Read

(* So does sending. *)
LEMMA SendType ==
  ASSUME TypeRequests, NEW q \in Requests, Send(q)
  PROVE  stdin' \in Seq(Requests)
  BY DEF TypeRequests, Send

(* A request that is not a run is only its action. *)
LEMMA PlainRequest ==
  ASSUME NEW a \in {"stop", "other", "quit"}
  PROVE  [action |-> a] \in Requests
  BY DEF Requests

(* An event told keeps the transcripts sequences of events. *)
LEMMA TellType ==
  ASSUME TypeOutside, NEW r, NEW e \in {"started", "finished"}, Tell(r, e)
  PROVE  transcript' \in [Runs -> Seq({"started", "finished"})]
<1>1. CASE CanEmit
  <2>1. transcript' = [transcript EXCEPT ![r] = Append(@, e)]
    BY <1>1 DEF Tell
  <2>2. CASE r \in Runs
    BY <2>1, <2>2 DEF TypeOutside
  <2>3. CASE r \notin Runs
    BY <2>1, <2>3 DEF TypeOutside
  <2> QED
    BY <2>2, <2>3
<1>2. CASE ~CanEmit
  BY <1>2 DEF Tell, TypeOutside
<1> QED
  BY <1>1, <1>2
(* The run read by handle_run is in no other place, and the rest of the queue moves up. *)
LEMMA ReadRun ==
  ASSUME TypeRequests, PlaceInv, Read("run")
  PROVE  /\ Head(stdin).id \in Runs \ unsent /\ wid # Head(stdin).id
         /\ Queued(1, Head(stdin).id) /\ 1 \in 1 .. Len(stdin)
         /\ \A i \in 1 .. Len(stdin') : i \in Nat /\ i + 1 \in 1 .. Len(stdin)
         /\ \A i \in 1 .. Len(stdin'), s \in Runs :
              Queued(i, s)' => Queued(i + 1, s) /\ s # Head(stdin).id
<1>1. Head(stdin).id \in Runs /\ Head(stdin).action = "run"
  BY HeadRun, RunFields
<1>2. stdin # <<>> /\ stdin' = Tail(stdin) /\ stdin \in Seq(Requests)
  BY DEF Read, TypeRequests
<1>3. /\ Head(stdin) = stdin[1] /\ Len(stdin) > 0 /\ Len(stdin') = Len(stdin) - 1
      /\ \A i \in 1 .. Len(stdin') : stdin'[i] = stdin[i + 1]
  BY <1>2
<1>4. \A i \in 1 .. Len(stdin') : i \in Nat /\ i + 1 \in 1 .. Len(stdin) /\ i + 1 # 1
  BY <1>2, <1>3
<1>5. Queued(1, Head(stdin).id) /\ 1 \in 1 .. Len(stdin)
  BY <1>1, <1>2, <1>3 DEF Queued
<1>6. \A i \in 1 .. Len(stdin'), s \in Runs : Queued(i, s)' => Queued(i + 1, s)
  BY <1>2, <1>3 DEF Queued
<1>7. Head(stdin).id \notin unsent /\ wid # Head(stdin).id
  BY <1>1, <1>5 DEF PlaceInv
<1>8. \A j \in 1 .. Len(stdin) : Queued(j, Head(stdin).id) => j = 1
  BY <1>1, <1>5 DEF PlaceInv
<1> QED
  BY <1>1, <1>4, <1>5, <1>6, <1>7, <1>8

(* emit appends to one transcript, or to none once the transport has failed. *)
LEMMA TellFacts ==
  ASSUME TypeOutside, NEW r \in Runs, NEW e, Tell(r, e)
  PROVE  /\ \A s \in Runs : s # r => transcript'[s] = transcript[s]
         /\ CanEmit => transcript'[r] = Append(transcript[r], e)
         /\ ~CanEmit => transcript' = transcript
  BY DEF Tell, TypeOutside

(* The transcripts that can arise. *)
LEMMA Events ==
  /\ Append(<<>>, "started") = <<"started">> /\ <<"started">> # <<>>
  /\ Append(<<>>, "finished") # <<"started">>
  /\ Append(<<"started">>, "finished") # <<"started">>
<1>1. Append(<<>>, "started") = <<"started">> /\ <<"started">> # <<>>
  OBVIOUS
<1>2. Append(<<>>, "finished") # <<"started">>
  OBVIOUS
<1>3. Len(<<"started">>) = 1 /\ Len(Append(<<"started">>, "finished")) = 2
  OBVIOUS
<1> QED
  BY <1>1, <1>2, <1>3

-----------------------------------------------------------------------------
(* Typing. *)

(* The flags stay Boolean. *)
LEMMA TypeFlagsStep == TypeFlags /\ [Next]_vars => TypeFlags'
<1> SUFFICES ASSUME TypeFlags, [Next]_vars PROVE TypeFlags'
  OBVIOUS
<1> USE DEF TypeFlags
<1>1. CASE GuiQuit
  BY ZenonT(60), <1>1 DEF GuiQuit, Send, NotGui
<1>2. CASE GuiCloseStdin
  BY ZenonT(60), <1>2 DEF GuiCloseStdin, NotGui
<1>3. CASE GuiCloseStdout
  BY ZenonT(60), <1>3 DEF GuiCloseStdout, NotGui
<1>4. CASE MainReady
  BY ZenonT(60), <1>4 DEF MainReady, Emit, CanEmit
<1>5. CASE HandleOther
  BY ZenonT(60), <1>5 DEF HandleOther, Read, Emit, CanEmit
<1>6. CASE HandleQuit
  BY ZenonT(60), <1>6 DEF HandleQuit, Read
<1>7. CASE HandleRunReject
  BY ZenonT(60), <1>7 DEF HandleRunReject, Read, Tell, Emit, CanEmit
<1>8. CASE HandleRunRefuse
  BY ZenonT(60), <1>8 DEF HandleRunRefuse, Read, Tell, Emit, CanEmit
<1>9. CASE HandleRunAccept
  BY Zenon, <1>9 DEF HandleRunAccept, Claim, WorkerEnded
<1>10. CASE HandleRunNoThread
  BY Zenon, <1>10 DEF HandleRunNoThread, Emit, Claim, WorkerEnded, CanEmit
<1>11. CASE HandleStop
  BY ZenonT(60), <1>11 DEF HandleStop, Read, Defer
<1>12. CASE StopKill
  BY ZenonT(60), <1>12 DEF StopKill, Interrupt, Exists
<1>13. CASE StopArm
  BY ZenonT(60), <1>13 DEF StopArm, Arm
<1>14. CASE StopAnswer
  BY ZenonT(60), <1>14 DEF StopAnswer, Emit, CanEmit
<1>15. CASE SawKill
  BY ZenonT(60), <1>15 DEF SawKill, Interrupt, Exists
<1>16. CASE SawArm
  BY ZenonT(60), <1>16 DEF SawArm, Arm
<1>17. CASE SawJoin
  BY ZenonT(60), <1>17 DEF SawJoin, Emit, WorkerEnded, CanEmit
<1>18. CASE Shutdown
  BY Zenon, <1>18 DEF Shutdown
<1>19. CASE LaunchFail
  BY ZenonT(60), <1>19 DEF LaunchFail, Emit, CanEmit
<1>20. CASE Publish
  BY Zenon, <1>20 DEF Publish
<1>21. CASE Started
  BY ZenonT(60), <1>21 DEF Started, CanEmit, Tell, Emit
<1>22. CASE QueuedKill
  BY ZenonT(60), <1>22 DEF QueuedKill, Interrupt
<1>23. CASE QueuedArm
  BY ZenonT(60), <1>23 DEF QueuedArm, Arm
<1>24. CASE QueuedAnswer
  BY ZenonT(60), <1>24 DEF QueuedAnswer, Emit, CanEmit
<1>25. CASE ReadReady
  BY ZenonT(60), <1>25 DEF ReadReady
<1>26. CASE ReadLine
  BY ZenonT(60), <1>26 DEF ReadLine, Emit, CanEmit
<1>27. CASE Abort
  BY ZenonT(60), <1>27 DEF Abort, Interrupt
<1>28. CASE AbortKill
  BY ZenonT(60), <1>28 DEF AbortKill, Kill
<1>29. CASE AbortReap
  BY ZenonT(60), <1>29 DEF AbortReap, Emit, Reap, CanEmit
<1>30. CASE Cleanup
  BY Zenon, <1>30 DEF Cleanup
<1>31. CASE Finish
  BY ZenonT(60), <1>31 DEF Finish, Tell, Emit, CanEmit
<1>32. CASE DogTimeout
  BY Zenon, <1>32 DEF DogTimeout, Changed
<1>33. CASE DogKill
  BY ZenonT(60), <1>33 DEF DogKill, Kill, Exists
<1>34. CASE UNCHANGED <<stdinOpen, guiReading, transportFailed, stopReady, waitsForOutput,
     pendingStop, workerRunning, wdShutdown, wdArmed, mquit, wstop, stray>>
  BY ZenonT(60), <1>34
<1>35. ASSUME NEW r \in Runs, GuiRun(r) PROVE UNCHANGED <<stdinOpen, guiReading,
     transportFailed, stopReady, waitsForOutput, pendingStop, workerRunning, wdShutdown,
     wdArmed, mquit, wstop, stray>>
  BY <1>35 DEF GuiRun, Send, NotGui
<1>36. ASSUME GuiStop \/ GuiOther PROVE UNCHANGED <<stdinOpen, guiReading,
     transportFailed, stopReady, waitsForOutput, pendingStop, workerRunning, wdShutdown,
     wdArmed, mquit, wstop, stray>>
  BY <1>36 DEF GuiStop, GuiOther, Send, NotGui
<1>37. ASSUME MainLoop \/ MainEof \/ HandleRunIdle \/ Saw \/ JoinDog PROVE UNCHANGED
     <<stdinOpen, guiReading, transportFailed, stopReady, waitsForOutput, pendingStop,
     workerRunning, wdShutdown, wdArmed, mquit, wstop, stray>>
  BY <1>37 DEF MainLoop, MainEof, HandleRunIdle, Saw, JoinDog, Read
<1>38. ASSUME Launch \/ Open \/ ReadEof \/ AbortTimeout PROVE UNCHANGED <<stdinOpen,
     guiReading, transportFailed, stopReady, waitsForOutput, pendingStop, workerRunning,
     wdShutdown, wdArmed, mquit, wstop, stray>>
  BY <1>38 DEF Launch, Open, ReadEof, AbortTimeout
<1>39. ASSUME DogArmed \/ DogChanged \/ DogCheck \/ DogExit PROVE UNCHANGED <<stdinOpen,
     guiReading, transportFailed, stopReady, waitsForOutput, pendingStop, workerRunning,
     wdShutdown, wdArmed, mquit, wstop, stray>>
  BY <1>39 DEF DogArmed, DogChanged, DogCheck, DogExit
<1>40. ASSUME NEW p \in Pids, ChildReady(p) \/ ChildOutput(p) \/ ChildExit(p) \/
     Foreign(p) PROVE UNCHANGED <<stdinOpen, guiReading, transportFailed, stopReady,
     waitsForOutput, pendingStop, workerRunning, wdShutdown, wdArmed, mquit, wstop,
     stray>>
  BY <1>40 DEF ChildReady, ChildOutput, ChildExit, Foreign, NotProc
<1> QED
  BY <1>1, <1>2, <1>3, <1>4, <1>5, <1>6, <1>7, <1>8, <1>9, <1>10, <1>11, <1>12, <1>13,
       <1>14, <1>15, <1>16, <1>17, <1>18, <1>19, <1>20, <1>21, <1>22, <1>23, <1>24, <1>25,
       <1>26, <1>27, <1>28, <1>29, <1>30, <1>31, <1>32, <1>33, <1>34, <1>35, <1>36, <1>37,
       <1>38, <1>39, <1>40 DEF Next, Gui, Main, Worker, Watchdog, System, Terminated

(* The desktop's queue and the request being handled. *)
LEMMA TypeRequestsStep == TypeRequests /\ [Next]_vars => TypeRequests'
<1> SUFFICES ASSUME TypeRequests, [Next]_vars PROVE TypeRequests'
  OBVIOUS
<1> USE DEF TypeRequests
<1>1. ASSUME NEW r \in Runs, GuiRun(r) PROVE TypeRequests'
  BY <1>1, RunFields, SendType DEF GuiRun, NotGui
<1>2. CASE GuiStop
  BY <1>2, PlainRequest, SendType DEF GuiStop, NotGui
<1>3. CASE GuiOther
  BY <1>3, PlainRequest, SendType DEF GuiOther, NotGui
<1>4. CASE GuiQuit
  BY <1>4, PlainRequest, SendType DEF GuiQuit, NotGui
<1>5. CASE MainReady
  BY <1>5 DEF MainReady
<1>6. CASE MainLoop
  BY <1>6 DEF MainLoop
<1>7. CASE MainEof
  BY <1>7 DEF MainEof
<1>8. CASE HandleOther
  BY <1>8, TailType DEF HandleOther, Read
<1>9. CASE HandleQuit
  BY <1>9, TailType DEF HandleQuit, Read
<1>10. CASE HandleRunReject
  BY <1>10, TailType DEF HandleRunReject, Read
<1>11. CASE HandleRunRefuse
  BY <1>11, TailType DEF HandleRunRefuse, Read
<1>12. CASE HandleRunIdle
  BY <1>12, TailType, HeadRun DEF HandleRunIdle, Read
<1>13. CASE HandleRunAccept
  BY <1>13 DEF HandleRunAccept, Claim, WorkerEnded, Claim, NoRequest
<1>14. CASE HandleRunNoThread
  BY <1>14 DEF HandleRunNoThread, Claim, WorkerEnded, Claim, NoRequest
<1>15. CASE HandleStop
  BY <1>15, TailType DEF HandleStop, Read
<1>16. CASE StopKill
  BY <1>16 DEF StopKill
<1>17. CASE StopArm
  BY <1>17 DEF StopArm
<1>18. CASE StopAnswer
  BY <1>18 DEF StopAnswer
<1>19. CASE Saw
  BY <1>19 DEF Saw
<1>20. CASE SawKill
  BY <1>20 DEF SawKill
<1>21. CASE SawArm
  BY <1>21 DEF SawArm
<1>22. CASE SawJoin
  BY <1>22 DEF SawJoin, WorkerEnded
<1>23. CASE Shutdown
  BY <1>23 DEF Shutdown
<1>24. CASE JoinDog
  BY <1>24 DEF JoinDog
<1>25. CASE UNCHANGED <<unsent, controlsLeft, stdin, mreq, mpc>>
  BY <1>25
<1>26. ASSUME GuiCloseStdin \/ GuiCloseStdout PROVE UNCHANGED <<unsent, controlsLeft,
     stdin, mreq, mpc>>
  BY <1>26 DEF GuiCloseStdin, GuiCloseStdout, NotGui
<1>27. ASSUME LaunchFail \/ Launch \/ Publish \/ Started \/ QueuedKill \/ QueuedArm \/
     QueuedAnswer \/ Open \/ ReadReady \/ ReadLine \/ ReadEof \/ Abort \/ AbortTimeout \/
     AbortKill \/ AbortReap \/ Cleanup \/ Finish PROVE UNCHANGED <<unsent, controlsLeft,
     stdin, mreq, mpc>>
  BY <1>27 DEF LaunchFail, Launch, Publish, Started, QueuedKill, QueuedArm, QueuedAnswer,
       Open, ReadReady, ReadLine, ReadEof, Abort, AbortTimeout, AbortKill, AbortReap,
       Cleanup, Finish
<1>28. ASSUME DogArmed \/ DogChanged \/ DogTimeout \/ DogCheck \/ DogKill \/ DogExit PROVE
     UNCHANGED <<unsent, controlsLeft, stdin, mreq, mpc>>
  BY <1>28 DEF DogArmed, DogChanged, DogTimeout, DogCheck, DogKill, DogExit
<1>29. ASSUME NEW p \in Pids, ChildReady(p) \/ ChildOutput(p) \/ ChildExit(p) \/
     Foreign(p) PROVE UNCHANGED <<unsent, controlsLeft, stdin, mreq, mpc>>
  BY <1>29 DEF ChildReady, ChildOutput, ChildExit, Foreign, NotProc
<1> QED
  BY <1>1, <1>2, <1>3, <1>4, <1>5, <1>6, <1>7, <1>8, <1>9, <1>10, <1>11, <1>12, <1>13,
       <1>14, <1>15, <1>16, <1>17, <1>18, <1>19, <1>20, <1>21, <1>22, <1>23, <1>24, <1>25,
       <1>26, <1>27, <1>28, <1>29 DEF Next, Gui, Main, Worker, Watchdog, System,
       Terminated

(* The threads' program counters and locals, and the active operation. *)
LEMMA TypeThreadsStep == TypeRequests /\ TypeThreads /\ [Next]_vars => TypeThreads'
<1> SUFFICES ASSUME TypeRequests, TypeThreads, [Next]_vars PROVE TypeThreads'
  OBVIOUS
<1> USE DEF TypeThreads
<1>1. CASE MainReady
  BY <1>1 DEF MainReady, MainStates
<1>2. CASE MainLoop
  BY <1>2 DEF MainLoop, MainStates
<1>3. CASE MainEof
  BY <1>3 DEF MainEof, MainStates
<1>4. CASE HandleOther
  BY <1>4 DEF HandleOther, Read, MainStates
<1>5. CASE HandleQuit
  BY <1>5 DEF HandleQuit, Read, MainStates
<1>6. CASE HandleRunReject
  BY <1>6 DEF HandleRunReject, Read, MainStates
<1>7. CASE HandleRunRefuse
  BY <1>7 DEF HandleRunRefuse, Read, MainStates
<1>8. CASE HandleRunIdle
  BY <1>8 DEF HandleRunIdle, Read, MainStates
<1>9. CASE HandleRunAccept
  <2>1. mreq \in RunRequests
    BY <1>9 DEF HandleRunAccept, Claim, TypeRequests
  <2> QED
    BY <1>9, <2>1, RunFields DEF HandleRunAccept, Claim, WorkerEnded, WorkerStates,
         MainStates
<1>10. CASE HandleRunNoThread
  <2>1. mreq \in RunRequests
    BY <1>10 DEF HandleRunNoThread, Claim, TypeRequests
  <2> QED
    BY <1>10, <2>1, RunFields DEF HandleRunNoThread, Claim, WorkerEnded, WorkerStates,
         MainStates
<1>11. CASE HandleStop
  BY <1>11 DEF HandleStop, Read, Defer, MainStates
<1>12. CASE StopKill
  BY <1>12 DEF StopKill, MainStates
<1>13. CASE StopArm
  BY <1>13 DEF StopArm, Arm, MainStates
<1>14. CASE StopAnswer
  BY <1>14 DEF StopAnswer, MainStates
<1>15. CASE Saw
  BY <1>15 DEF Saw, MainStates
<1>16. CASE SawKill
  BY <1>16 DEF SawKill, MainStates
<1>17. CASE SawArm
  BY <1>17 DEF SawArm, Arm, MainStates
<1>18. CASE SawJoin
  BY <1>18 DEF SawJoin, WorkerEnded, MainStates
<1>19. CASE Shutdown
  BY <1>19 DEF Shutdown, MainStates
<1>20. CASE JoinDog
  BY <1>20 DEF JoinDog, MainStates
<1>21. CASE LaunchFail
  BY <1>21 DEF LaunchFail, WorkerStates
<1>22. CASE Launch
  BY <1>22 DEF Launch, WorkerStates
<1>23. CASE Publish
  BY <1>23 DEF Publish, WorkerStates
<1>24. CASE Started
  BY <1>24 DEF Started, WorkerStates
<1>25. CASE QueuedKill
  BY <1>25 DEF QueuedKill, WorkerStates
<1>26. CASE QueuedArm
  BY <1>26 DEF QueuedArm, Arm, WorkerStates
<1>27. CASE QueuedAnswer
  BY <1>27 DEF QueuedAnswer, WorkerStates
<1>28. CASE Open
  BY <1>28 DEF Open, WorkerStates
<1>29. CASE ReadReady
  BY <1>29 DEF ReadReady, WorkerStates
<1>30. CASE ReadLine
  BY <1>30 DEF ReadLine, WorkerStates
<1>31. CASE ReadEof
  BY <1>31 DEF ReadEof, WorkerStates
<1>32. CASE Abort
  BY <1>32 DEF Abort, WorkerStates
<1>33. CASE AbortTimeout
  BY <1>33 DEF AbortTimeout, WorkerStates
<1>34. CASE AbortKill
  BY <1>34 DEF AbortKill, WorkerStates
<1>35. CASE AbortReap
  BY <1>35 DEF AbortReap, WorkerStates
<1>36. CASE Cleanup
  BY <1>36 DEF Cleanup, WorkerStates
<1>37. CASE Finish
  BY <1>37 DEF Finish, WorkerStates, Programs, Writer
<1>38. CASE DogArmed
  BY <1>38 DEF DogArmed, DogStates
<1>39. CASE DogChanged
  BY <1>39 DEF DogChanged, Changed, DogStates
<1>40. CASE DogTimeout
  BY <1>40 DEF DogTimeout, Changed, DogStates
<1>41. CASE DogCheck
  BY <1>41 DEF DogCheck, DogStates
<1>42. CASE DogKill
  BY <1>42 DEF DogKill, DogStates
<1>43. CASE DogExit
  BY <1>43 DEF DogExit, DogStates
<1>44. CASE UNCHANGED <<activePid, activeId, wdPid, mpc, mpid, mid, signalled, wpc, wid,
     wprog, wchild, dpc, dpid>>
  BY <1>44
<1>45. ASSUME NEW r \in Runs, GuiRun(r) PROVE UNCHANGED <<activePid, activeId, wdPid, mpc,
     mpid, mid, signalled, wpc, wid, wprog, wchild, dpc, dpid>>
  BY <1>45 DEF GuiRun, Send, NotGui
<1>46. ASSUME GuiStop \/ GuiOther \/ GuiQuit \/ GuiCloseStdin \/ GuiCloseStdout PROVE
     UNCHANGED <<activePid, activeId, wdPid, mpc, mpid, mid, signalled, wpc, wid, wprog,
     wchild, dpc, dpid>>
  BY <1>46 DEF GuiStop, GuiOther, GuiQuit, GuiCloseStdin, GuiCloseStdout, Send, NotGui
<1>47. ASSUME NEW p \in Pids, ChildReady(p) \/ ChildOutput(p) \/ ChildExit(p) \/
     Foreign(p) PROVE UNCHANGED <<activePid, activeId, wdPid, mpc, mpid, mid, signalled,
     wpc, wid, wprog, wchild, dpc, dpid>>
  BY <1>47 DEF ChildReady, ChildOutput, ChildExit, Foreign, NotProc
<1> QED
  BY <1>1, <1>2, <1>3, <1>4, <1>5, <1>6, <1>7, <1>8, <1>9, <1>10, <1>11, <1>12, <1>13,
       <1>14, <1>15, <1>16, <1>17, <1>18, <1>19, <1>20, <1>21, <1>22, <1>23, <1>24, <1>25,
       <1>26, <1>27, <1>28, <1>29, <1>30, <1>31, <1>32, <1>33, <1>34, <1>35, <1>36, <1>37,
       <1>38, <1>39, <1>40, <1>41, <1>42, <1>43, <1>44, <1>45, <1>46, <1>47 DEF Next, Gui,
       Main, Worker, Watchdog, System, Terminated

(* Processes, the pipe and the histories. *)
LEMMA TypeOutsideStep == TypeRequests /\ TypeThreads /\ TypeOutside /\ [Next]_vars =>
     TypeOutside'
<1> SUFFICES ASSUME TypeRequests, TypeThreads, TypeOutside, [Next]_vars PROVE TypeOutside'
  OBVIOUS
<1> USE DEF TypeOutside
<1>1. ASSUME NEW r \in Runs, GuiRun(r) PROVE TypeOutside'
  BY <1>1 DEF GuiRun, Send, NotGui
<1>2. CASE HandleRunReject
  <2>1. transcript' \in [Runs -> Seq({"started", "finished"})]
    BY <1>2, TellType DEF HandleRunReject
  <2> QED
    BY <1>2, <2>1 DEF HandleRunReject, Read
<1>3. CASE HandleRunRefuse
  <2>1. transcript' \in [Runs -> Seq({"started", "finished"})]
    BY <1>3, TellType DEF HandleRunRefuse
  <2>2. Head(stdin).id \in Runs
    BY <1>3, HeadRun, RunFields DEF HandleRunRefuse
  <2> QED
    BY <1>3, <2>1, <2>2 DEF HandleRunRefuse, Read
<1>4. CASE HandleStop
  BY <1>4 DEF HandleStop, Read, Defer, TypeThreads
<1>5. CASE StopKill
  BY <1>5 DEF StopKill, Interrupt, Exists, ProcStates, Owned, Live, TypeThreads
<1>6. CASE StopAnswer
  BY <1>6 DEF StopAnswer, TypeThreads
<1>7. CASE SawKill
  BY <1>7 DEF SawKill, Interrupt, Exists, ProcStates, Owned, Live, TypeThreads
<1>8. CASE LaunchFail
  BY <1>8 DEF LaunchFail, TypeThreads
<1>9. CASE Launch
  BY <1>9 DEF Launch, ProcStates, Owned, Live
<1>10. CASE Started
  <2>1. transcript' \in [Runs -> Seq({"started", "finished"})]
    BY <1>10, TellType DEF Started
  <2> QED
    BY <1>10, <2>1 DEF Started
<1>11. CASE QueuedKill
  BY <1>11 DEF QueuedKill, Interrupt, ProcStates, Owned, Live, TypeThreads
<1>12. CASE QueuedAnswer
  BY <1>12 DEF QueuedAnswer, TypeThreads
<1>13. CASE ReadReady
  BY <1>13 DEF ReadReady
<1>14. CASE ReadLine
  BY <1>14 DEF ReadLine
<1>15. CASE ReadEof
  BY <1>15 DEF ReadEof, Reap, ProcStates, Owned, Live
<1>16. CASE Abort
  BY <1>16 DEF Abort, Interrupt, ProcStates, Owned, Live, TypeThreads
<1>17. CASE AbortKill
  BY <1>17 DEF AbortKill, Kill, ProcStates, Owned, Live, TypeThreads
<1>18. CASE AbortReap
  <2>1. proc' \in [Pids -> ProcStates]
    BY <1>18 DEF AbortReap, Reap, ProcStates, Owned, Live
  <2> QED
    BY <1>18, <2>1 DEF AbortReap
<1>19. CASE Finish
  <2>1. transcript' \in [Runs -> Seq({"started", "finished"})]
    BY <1>19, TellType DEF Finish
  <2> QED
    BY <1>19, <2>1 DEF Finish
<1>20. CASE DogKill
  BY <1>20 DEF DogKill, Kill, Exists, ProcStates, Owned, Live, TypeThreads
<1>21. ASSUME NEW p \in Pids, ChildReady(p) PROVE TypeOutside'
  BY <1>21 DEF ChildReady, NotProc, ProcStates, Owned, Live
<1>22. ASSUME NEW p \in Pids, ChildOutput(p) PROVE TypeOutside'
  BY <1>22 DEF ChildOutput, NotProc
<1>23. ASSUME NEW p \in Pids, ChildExit(p) PROVE TypeOutside'
  BY <1>23 DEF ChildExit, NotProc, ProcStates, Owned, Live
<1>24. ASSUME NEW p \in Pids, Foreign(p) PROVE TypeOutside'
  BY <1>24 DEF Foreign, NotProc, ProcStates, Owned, Live
<1>25. CASE UNCHANGED <<proc, pipe, transcript, refused, polite, stopRead, acked, aborted,
     interrupted, killed, early>>
  BY <1>25
<1>26. ASSUME GuiStop \/ GuiOther \/ GuiQuit \/ GuiCloseStdin \/ GuiCloseStdout PROVE
     UNCHANGED <<proc, pipe, transcript, refused, polite, stopRead, acked, aborted,
     interrupted, killed, early>>
  BY <1>26 DEF GuiStop, GuiOther, GuiQuit, GuiCloseStdin, GuiCloseStdout, Send, NotGui
<1>27. ASSUME MainReady \/ MainLoop \/ MainEof \/ HandleOther \/ HandleQuit \/
     HandleRunIdle \/ HandleRunAccept \/ HandleRunNoThread \/ StopArm \/ Saw \/ SawArm \/
     SawJoin \/ Shutdown \/ JoinDog PROVE UNCHANGED <<proc, pipe, transcript, refused,
     polite, stopRead, acked, aborted, interrupted, killed, early>>
  BY <1>27 DEF MainReady, MainLoop, MainEof, HandleOther, HandleQuit, HandleRunIdle,
       HandleRunAccept, HandleRunNoThread, StopArm, Saw, SawArm, SawJoin, Shutdown,
       JoinDog, Read, Claim
<1>28. ASSUME Publish \/ QueuedArm \/ Open \/ AbortTimeout \/ Cleanup PROVE UNCHANGED
     <<proc, pipe, transcript, refused, polite, stopRead, acked, aborted, interrupted,
     killed, early>>
  BY <1>28 DEF Publish, QueuedArm, Open, AbortTimeout, Cleanup
<1>29. ASSUME DogArmed \/ DogChanged \/ DogTimeout \/ DogCheck \/ DogExit PROVE UNCHANGED
     <<proc, pipe, transcript, refused, polite, stopRead, acked, aborted, interrupted,
     killed, early>>
  BY <1>29 DEF DogArmed, DogChanged, DogTimeout, DogCheck, DogExit
<1> QED
  BY <1>1, <1>2, <1>3, <1>4, <1>5, <1>6, <1>7, <1>8, <1>9, <1>10, <1>11, <1>12, <1>13,
       <1>14, <1>15, <1>16, <1>17, <1>18, <1>19, <1>20, <1>21, <1>22, <1>23, <1>24, <1>25,
       <1>26, <1>27, <1>28, <1>29 DEF Next, Gui, Main, Worker, Watchdog, System,
       Terminated

-----------------------------------------------------------------------------
(* The parts of the inductive invariant. *)

(* worker_running_ is set by handle_run and cleared by run_request's last section. *)
LEMMA RunningStep == RunningInv /\ [Next]_vars => RunningInv'
<1> SUFFICES ASSUME RunningInv, [Next]_vars PROVE RunningInv'
  OBVIOUS
<1> USE DEF RunningInv, HasChild, Supervising
<1>1. CASE HandleRunAccept
  BY Zenon, <1>1 DEF HandleRunAccept, Claim, WorkerEnded
<1>2. CASE HandleRunNoThread
  BY Zenon, <1>2 DEF HandleRunNoThread, Claim, WorkerEnded
<1>3. CASE LaunchFail
  BY Zenon, <1>3 DEF LaunchFail
<1>4. CASE Launch
  BY Zenon, <1>4 DEF Launch
<1>5. CASE Publish
  BY Zenon, <1>5 DEF Publish
<1>6. CASE Started
  BY Zenon, <1>6 DEF Started
<1>7. CASE QueuedKill
  BY Zenon, <1>7 DEF QueuedKill
<1>8. CASE QueuedArm
  BY Zenon, <1>8 DEF QueuedArm
<1>9. CASE QueuedAnswer
  BY Zenon, <1>9 DEF QueuedAnswer
<1>10. CASE Open
  BY Zenon, <1>10 DEF Open
<1>11. CASE ReadReady
  BY Zenon, <1>11 DEF ReadReady
<1>12. CASE ReadLine
  BY Zenon, <1>12 DEF ReadLine
<1>13. CASE ReadEof
  BY Zenon, <1>13 DEF ReadEof
<1>14. CASE Abort
  BY Zenon, <1>14 DEF Abort
<1>15. CASE AbortTimeout
  BY Zenon, <1>15 DEF AbortTimeout
<1>16. CASE AbortKill
  BY Zenon, <1>16 DEF AbortKill
<1>17. CASE AbortReap
  BY Zenon, <1>17 DEF AbortReap
<1>18. CASE Cleanup
  BY Zenon, <1>18 DEF Cleanup
<1>19. CASE Finish
  BY Zenon, <1>19 DEF Finish
<1>20. CASE UNCHANGED <<workerRunning, wpc>>
  BY Zenon, <1>20
<1>21. ASSUME NEW r \in Runs, GuiRun(r) PROVE UNCHANGED <<workerRunning, wpc>>
  BY <1>21 DEF GuiRun, Send, NotGui
<1>22. ASSUME GuiStop \/ GuiOther \/ GuiQuit \/ GuiCloseStdin \/ GuiCloseStdout PROVE
     UNCHANGED <<workerRunning, wpc>>
  BY <1>22 DEF GuiStop, GuiOther, GuiQuit, GuiCloseStdin, GuiCloseStdout, Send, NotGui
<1>23. ASSUME MainReady \/ MainLoop \/ MainEof \/ HandleOther \/ HandleQuit \/
     HandleRunReject \/ HandleRunRefuse \/ HandleRunIdle \/ HandleStop \/ StopKill \/
     StopArm \/ StopAnswer \/ Saw \/ SawKill \/ SawArm \/ SawJoin \/ Shutdown \/ JoinDog
     PROVE UNCHANGED <<workerRunning, wpc>>
  BY <1>23 DEF MainReady, MainLoop, MainEof, HandleOther, HandleQuit, HandleRunReject,
       HandleRunRefuse, HandleRunIdle, HandleStop, StopKill, StopArm, StopAnswer, Saw,
       SawKill, SawArm, SawJoin, Shutdown, JoinDog, Read
<1>24. ASSUME DogArmed \/ DogChanged \/ DogTimeout \/ DogCheck \/ DogKill \/ DogExit PROVE
     UNCHANGED <<workerRunning, wpc>>
  BY <1>24 DEF DogArmed, DogChanged, DogTimeout, DogCheck, DogKill, DogExit
<1>25. ASSUME NEW p \in Pids, ChildReady(p) \/ ChildOutput(p) \/ ChildExit(p) \/
     Foreign(p) PROVE UNCHANGED <<workerRunning, wpc>>
  BY <1>25 DEF ChildReady, ChildOutput, ChildExit, Foreign, NotProc
<1> QED
  BY <1>1, <1>2, <1>3, <1>4, <1>5, <1>6, <1>7, <1>8, <1>9, <1>10, <1>11, <1>12, <1>13,
       <1>14, <1>15, <1>16, <1>17, <1>18, <1>19, <1>20, <1>21, <1>22, <1>23, <1>24, <1>25
       DEF Next, Gui, Main, Worker, Watchdog, System, Terminated

(* A child is spawned by Launch, reaped by ReadEof or AbortReap, and signals leave it
     owned. *)
LEMMA ChildStep == TypeThreads /\ TypeOutside /\ ChildInv /\ [Next]_vars => ChildInv'
<1> SUFFICES ASSUME TypeThreads, TypeOutside, ChildInv, [Next]_vars PROVE ChildInv'
  OBVIOUS
<1> USE DEF ChildInv
<1>1. CASE HandleRunAccept
  BY <1>1, PidsAssumption DEF HandleRunAccept, Claim, WorkerEnded, HasChild, TypeThreads,
       TypeOutside
<1>2. CASE HandleRunNoThread
  BY <1>2 DEF HandleRunNoThread, Claim, WorkerEnded, HasChild, TypeThreads, TypeOutside
<1>3. CASE StopKill
  BY <1>3 DEF StopKill, Interrupt, Exists, Owned, Live, TypeThreads, TypeOutside
<1>4. CASE SawKill
  BY <1>4 DEF SawKill, Interrupt, Exists, Owned, Live, TypeThreads, TypeOutside
<1>5. CASE LaunchFail
  BY <1>5 DEF LaunchFail, HasChild, TypeThreads, TypeOutside
<1>6. CASE Launch
  BY <1>6, PidsAssumption DEF Launch, Owned, Live, HasChild, TypeThreads, TypeOutside
<1>7. CASE Publish
  BY <1>7 DEF Publish, HasChild, TypeThreads, TypeOutside
<1>8. CASE Started
  BY <1>8 DEF Started, HasChild, TypeThreads, TypeOutside
<1>9. CASE QueuedKill
  BY <1>9 DEF QueuedKill, Interrupt, Owned, Live, HasChild, TypeThreads, TypeOutside
<1>10. CASE QueuedArm
  BY <1>10 DEF QueuedArm, HasChild, TypeThreads, TypeOutside
<1>11. CASE QueuedAnswer
  BY <1>11 DEF QueuedAnswer, HasChild, TypeThreads, TypeOutside
<1>12. CASE Open
  BY <1>12 DEF Open, HasChild, TypeThreads, TypeOutside
<1>13. CASE ReadReady
  BY <1>13 DEF ReadReady, HasChild, TypeThreads, TypeOutside
<1>14. CASE ReadLine
  BY <1>14 DEF ReadLine, HasChild, TypeThreads, TypeOutside
<1>15. CASE ReadEof
  BY <1>15 DEF ReadEof, Reap, Owned, Live, HasChild, TypeThreads, TypeOutside
<1>16. CASE Abort
  BY <1>16 DEF Abort, Interrupt, Owned, Live, HasChild, TypeThreads, TypeOutside
<1>17. CASE AbortTimeout
  BY <1>17 DEF AbortTimeout, HasChild, TypeThreads, TypeOutside
<1>18. CASE AbortKill
  BY <1>18 DEF AbortKill, Kill, Owned, Live, HasChild, TypeThreads, TypeOutside
<1>19. CASE AbortReap
  BY <1>19 DEF AbortReap, Reap, Owned, Live, HasChild, TypeThreads, TypeOutside
<1>20. CASE Cleanup
  BY <1>20 DEF Cleanup, HasChild, TypeThreads, TypeOutside
<1>21. CASE Finish
  BY <1>21, PidsAssumption DEF Finish, HasChild, TypeThreads, TypeOutside
<1>22. CASE DogKill
  BY <1>22 DEF DogKill, Kill, Exists, Owned, Live, TypeThreads, TypeOutside
<1>23. ASSUME NEW p \in Pids, ChildReady(p) PROVE ChildInv'
  BY <1>23 DEF ChildReady, NotProc, Owned, Live, TypeThreads, TypeOutside
<1>24. ASSUME NEW p \in Pids, ChildExit(p) PROVE ChildInv'
  BY <1>24 DEF ChildExit, NotProc, Owned, Live, TypeThreads, TypeOutside
<1>25. ASSUME NEW p \in Pids, Foreign(p) PROVE ChildInv'
  BY <1>25 DEF Foreign, NotProc, Owned, Live, TypeThreads, TypeOutside
<1>26. CASE UNCHANGED <<wpc, wchild, proc>>
  BY <1>26
<1>27. ASSUME NEW r \in Runs, GuiRun(r) PROVE UNCHANGED <<wpc, wchild, proc>>
  BY <1>27 DEF GuiRun, Send, NotGui
<1>28. ASSUME GuiStop \/ GuiOther \/ GuiQuit \/ GuiCloseStdin \/ GuiCloseStdout PROVE
     UNCHANGED <<wpc, wchild, proc>>
  BY <1>28 DEF GuiStop, GuiOther, GuiQuit, GuiCloseStdin, GuiCloseStdout, Send, NotGui
<1>29. ASSUME MainReady \/ MainLoop \/ MainEof \/ HandleOther \/ HandleQuit \/
     HandleRunReject \/ HandleRunRefuse \/ HandleRunIdle \/ HandleStop \/ StopArm \/
     StopAnswer \/ Saw \/ SawArm \/ SawJoin \/ Shutdown \/ JoinDog PROVE UNCHANGED <<wpc,
     wchild, proc>>
  BY <1>29 DEF MainReady, MainLoop, MainEof, HandleOther, HandleQuit, HandleRunReject,
       HandleRunRefuse, HandleRunIdle, HandleStop, StopArm, StopAnswer, Saw, SawArm,
       SawJoin, Shutdown, JoinDog, Read
<1>30. ASSUME DogArmed \/ DogChanged \/ DogTimeout \/ DogCheck \/ DogExit PROVE UNCHANGED
     <<wpc, wchild, proc>>
  BY <1>30 DEF DogArmed, DogChanged, DogTimeout, DogCheck, DogExit
<1>31. ASSUME NEW p \in Pids, ChildOutput(p) PROVE UNCHANGED <<wpc, wchild, proc>>
  BY <1>31 DEF ChildOutput, NotProc
<1> QED
  BY <1>1, <1>2, <1>3, <1>4, <1>5, <1>6, <1>7, <1>8, <1>9, <1>10, <1>11, <1>12, <1>13,
       <1>14, <1>15, <1>16, <1>17, <1>18, <1>19, <1>20, <1>21, <1>22, <1>23, <1>24, <1>25,
       <1>26, <1>27, <1>28, <1>29, <1>30, <1>31 DEF Next, Gui, Main, Worker, Watchdog,
       System, Terminated

(* A run moves from unsent to the queue, to handle_run and to run_request, and never back.
     *)
LEMMA PlaceStep == TypeRequests /\ TypeThreads /\ PlaceInv /\ [Next]_vars => PlaceInv'
<1> SUFFICES ASSUME TypeRequests, TypeThreads, PlaceInv, [Next]_vars PROVE PlaceInv'
  OBVIOUS
<1> USE DEF PlaceInv, Queued
<1>1. ASSUME NEW r \in Runs, GuiRun(r) PROVE PlaceInv'
  <2>1. PICK q \in RunRequests : q.id = r /\ Send(q)
    BY <1>1 DEF GuiRun
  <2>2. q.action = "run" /\ q \in Requests
    BY <2>1, RunFields
  <2>3. /\ r \in unsent /\ unsent' = unsent \ {r} /\ stdin' = Append(stdin, q)
        /\ UNCHANGED <<wpc, wid, mpc, mreq>>
    BY <1>1, <2>1 DEF GuiRun, Send, NotGui
  <2>4. stdin \in Seq(Requests)
    BY DEF TypeRequests
  <2>5. /\ Len(stdin') = Len(stdin) + 1
        /\ \A i \in 1 .. Len(stdin) : stdin'[i] = stdin[i]
        /\ stdin'[Len(stdin) + 1] = q
    BY <2>2, <2>3, <2>4
  <2>6. \A i \in 1 .. Len(stdin), s \in Runs : Queued(i, s)' <=> Queued(i, s)
    BY <2>4, <2>5
  <2>7. \A i \in 1 .. Len(stdin'), s \in Runs : i = Len(stdin) + 1 /\ Queued(i, s)' => s = r
    BY <2>1, <2>5
  <2>8. \A i \in 1 .. Len(stdin) : ~Queued(i, r)
    BY <2>3
  <2>9. \A i \in 1 .. Len(stdin') : i \in 1 .. Len(stdin) \/ i = Len(stdin) + 1
    BY <2>4, <2>5
  <2> HIDE DEF Queued
  <2>10. \A s \in unsent' : \A i \in 1 .. Len(stdin') : ~Queued(i, s)'
    BY <2>3, <2>6, <2>7, <2>9 DEF TypeRequests
  <2>11. \A i, j \in 1 .. Len(stdin'), s \in Runs : Queued(i, s)' /\ Queued(j, s)' => j = i
    BY <2>6, <2>7, <2>8, <2>9
  <2>12. \A i \in 1 .. Len(stdin'), s \in Runs :
           Queued(i, s)' => wid' # s /\ (mpc' = "join" => mreq'.id # s)
    BY <2>3, <2>6, <2>7, <2>9
  <2> QED
    BY <2>3, <2>10, <2>11, <2>12
<1>2. CASE GuiStop
  BY <1>2 DEF GuiStop, Send, NotGui
<1>3. CASE GuiOther
  BY <1>3 DEF GuiOther, Send, NotGui
<1>4. CASE GuiQuit
  BY <1>4 DEF GuiQuit, Send, NotGui
<1>5. CASE MainReady
  BY <1>5 DEF MainReady
<1>6. CASE MainLoop
  BY <1>6 DEF MainLoop
<1>7. CASE MainEof
  BY <1>7 DEF MainEof
<1>8. CASE HandleOther
  BY <1>8 DEF HandleOther, Read
<1>9. CASE HandleQuit
  BY <1>9 DEF HandleQuit, Read
<1>10. CASE HandleRunReject
  BY <1>10 DEF HandleRunReject, Read
<1>11. CASE HandleRunRefuse
  BY <1>11 DEF HandleRunRefuse, Read
<1>12. CASE HandleRunIdle
  <2>1. Head(stdin) \in RunRequests
    BY <1>12, HeadRun DEF HandleRunIdle
  <2>2. Head(stdin).id \in Runs /\ Head(stdin).action = "run"
    BY <2>1, RunFields
  <2>3. /\ stdin # <<>> /\ stdin' = Tail(stdin) /\ mreq' = Head(stdin)
        /\ UNCHANGED <<wpc, wid, unsent>>
    BY <1>12 DEF HandleRunIdle, Read
  <2>4. stdin \in Seq(Requests)
    BY DEF TypeRequests
  <2>5. /\ Head(stdin) = stdin[1] /\ Len(stdin) > 0 /\ Len(stdin') = Len(stdin) - 1
        /\ \A i \in 1 .. Len(stdin') : stdin'[i] = stdin[i + 1]
    BY <2>3, <2>4
  <2>6. Queued(1, Head(stdin).id)
    BY <2>2, <2>4, <2>5
  <2>7. \A i \in 1 .. Len(stdin'), s \in Runs : Queued(i, s)' => Queued(i + 1, s)
    BY <2>4, <2>5
  <2>8. \A i \in 1 .. Len(stdin') : i + 1 \in 1 .. Len(stdin) /\ i + 1 # 1 /\ i \in Nat
    BY <2>4, <2>5
  <2>9. 1 \in 1 .. Len(stdin)
    BY <2>4, <2>5
  <2> HIDE DEF Queued
  <2>10. \A s \in unsent' : \A i \in 1 .. Len(stdin') : ~Queued(i, s)'
    BY <2>3, <2>7, <2>8 DEF TypeRequests
  <2>11. \A i, j \in 1 .. Len(stdin'), s \in Runs : Queued(i, s)' /\ Queued(j, s)' => j = i
    BY <2>7, <2>8
  <2>12. \A i \in 1 .. Len(stdin'), s \in Runs :
           Queued(i, s)' => wid' # s /\ mreq'.id # s
    BY <2>2, <2>3, <2>6, <2>7, <2>8, <2>9
  <2>13. wid' # mreq'.id /\ mreq'.id \notin unsent'
    BY <2>2, <2>3, <2>6, <2>9
  <2> QED
    BY <2>3, <2>10, <2>11, <2>12, <2>13
<1>13. CASE HandleRunAccept
  <2>1. mreq \in RunRequests
    BY <1>13 DEF HandleRunAccept, Claim, TypeRequests
  <2>2. mreq.id \in Runs
    BY <2>1, RunFields
  <2> QED
    BY <1>13, <2>2 DEF HandleRunAccept, Claim, Supervising
<1>14. CASE HandleRunNoThread
  BY <1>14 DEF HandleRunNoThread, Claim, WorkerEnded, Supervising, HasChild, NoRequest
<1>15. CASE HandleStop
  <2>1. mpc' # "join"
    BY <1>15 DEF HandleStop
  <2>2. /\ mpc = "read" /\ stdin # <<>> /\ stdin' = Tail(stdin)
        /\ UNCHANGED <<unsent, wpc, wid>>
    BY <1>15 DEF HandleStop, Read
  <2> QED
    BY <2>1, <2>2
<1>16. CASE StopKill
  BY <1>16 DEF StopKill
<1>17. CASE StopArm
  BY <1>17 DEF StopArm
<1>18. CASE StopAnswer
  BY <1>18 DEF StopAnswer
<1>19. CASE Saw
  BY <1>19 DEF Saw
<1>20. CASE SawKill
  BY <1>20 DEF SawKill
<1>21. CASE SawArm
  BY <1>21 DEF SawArm
<1>22. CASE SawJoin
  BY <1>22 DEF SawJoin, WorkerEnded
<1>23. CASE Shutdown
  BY <1>23 DEF Shutdown
<1>24. CASE JoinDog
  BY <1>24 DEF JoinDog
<1>25. CASE LaunchFail
  BY <1>25, RunsAssumption DEF LaunchFail, Supervising, HasChild
<1>26. CASE Launch
  BY <1>26, RunsAssumption DEF Launch, Supervising, HasChild
<1>27. CASE Publish
  BY <1>27, RunsAssumption DEF Publish, Supervising, HasChild
<1>28. CASE Started
  BY <1>28, RunsAssumption DEF Started, Supervising, HasChild
<1>29. CASE QueuedKill
  BY <1>29, RunsAssumption DEF QueuedKill, Supervising, HasChild
<1>30. CASE QueuedArm
  BY <1>30, RunsAssumption DEF QueuedArm, Supervising, HasChild
<1>31. CASE QueuedAnswer
  BY <1>31, RunsAssumption DEF QueuedAnswer, Supervising, HasChild
<1>32. CASE Open
  BY <1>32, RunsAssumption DEF Open, Supervising, HasChild
<1>33. CASE ReadReady
  BY <1>33, RunsAssumption DEF ReadReady, Supervising, HasChild
<1>34. CASE ReadLine
  BY <1>34, RunsAssumption DEF ReadLine, Supervising, HasChild
<1>35. CASE ReadEof
  BY <1>35, RunsAssumption DEF ReadEof, Supervising, HasChild
<1>36. CASE Abort
  BY <1>36, RunsAssumption DEF Abort, Supervising, HasChild
<1>37. CASE AbortTimeout
  BY <1>37, RunsAssumption DEF AbortTimeout, Supervising, HasChild
<1>38. CASE AbortKill
  BY <1>38, RunsAssumption DEF AbortKill, Supervising, HasChild
<1>39. CASE AbortReap
  BY <1>39, RunsAssumption DEF AbortReap, Supervising, HasChild
<1>40. CASE Cleanup
  BY <1>40, RunsAssumption DEF Cleanup, Supervising, HasChild
<1>41. CASE Finish
  <2>1. mpc = "join" => mreq.id \in Runs
    BY RunFields DEF TypeRequests
  <2> QED
    BY <1>41, <2>1, RunsAssumption DEF Finish, Supervising, HasChild, TypeRequests
<1>42. CASE UNCHANGED <<unsent, stdin, mpc, mreq, wpc, wid>>
  BY <1>42
<1>43. ASSUME GuiCloseStdin \/ GuiCloseStdout PROVE UNCHANGED <<unsent, stdin, mpc, mreq,
     wpc, wid>>
  BY <1>43 DEF GuiCloseStdin, GuiCloseStdout, NotGui
<1>44. ASSUME DogArmed \/ DogChanged \/ DogTimeout \/ DogCheck \/ DogKill \/ DogExit PROVE
     UNCHANGED <<unsent, stdin, mpc, mreq, wpc, wid>>
  BY <1>44 DEF DogArmed, DogChanged, DogTimeout, DogCheck, DogKill, DogExit
<1>45. ASSUME NEW p \in Pids, ChildReady(p) \/ ChildOutput(p) \/ ChildExit(p) \/
     Foreign(p) PROVE UNCHANGED <<unsent, stdin, mpc, mreq, wpc, wid>>
  BY <1>45 DEF ChildReady, ChildOutput, ChildExit, Foreign, NotProc
<1> QED
  BY <1>1, <1>2, <1>3, <1>4, <1>5, <1>6, <1>7, <1>8, <1>9, <1>10, <1>11, <1>12, <1>13,
       <1>14, <1>15, <1>16, <1>17, <1>18, <1>19, <1>20, <1>21, <1>22, <1>23, <1>24, <1>25,
       <1>26, <1>27, <1>28, <1>29, <1>30, <1>31, <1>32, <1>33, <1>34, <1>35, <1>36, <1>37,
       <1>38, <1>39, <1>40, <1>41, <1>42, <1>43, <1>44, <1>45 DEF Next, Gui, Main, Worker,
       Watchdog, System, Terminated

(* Only the four actions that tell change what a run was told. *)
LEMMA ToldStep == TypeRequests /\ TypeThreads /\ TypeOutside /\ PlaceInv /\ ToldInv /\
     [Next]_vars => ToldInv'
<1> SUFFICES ASSUME TypeRequests, TypeThreads, TypeOutside, PlaceInv, ToldInv, [Next]_vars
     PROVE ToldInv'
  OBVIOUS
<1> USE DEF ToldInv, Queued
<1>1. ASSUME NEW r \in Runs, GuiRun(r) PROVE ToldInv'
  BY <1>1 DEF GuiRun, Send, NotGui
<1>2. CASE GuiStop
  BY <1>2 DEF GuiStop, Send, NotGui, TypeRequests, TypeThreads, TypeOutside
<1>3. CASE GuiOther
  BY <1>3 DEF GuiOther, Send, NotGui, TypeRequests, TypeThreads, TypeOutside
<1>4. CASE GuiQuit
  BY <1>4 DEF GuiQuit, Send, NotGui, TypeRequests, TypeThreads, TypeOutside
<1>5. CASE MainReady
  BY <1>5 DEF MainReady, CanEmit, TypeRequests, TypeThreads, TypeOutside
<1>6. CASE MainLoop
  BY <1>6 DEF MainLoop, TypeRequests, TypeThreads, TypeOutside
<1>7. CASE MainEof
  BY <1>7 DEF MainEof, TypeRequests, TypeThreads, TypeOutside
<1>8. CASE HandleOther
  BY <1>8 DEF HandleOther, Read, TypeRequests, TypeThreads, TypeOutside
<1>9. CASE HandleQuit
  BY <1>9 DEF HandleQuit, Read, TypeRequests, TypeThreads, TypeOutside
<1>10. CASE HandleRunReject
  <2> DEFINE h == Head(stdin).id
  <2>1. /\ h \in Runs \ unsent /\ wid # h
        /\ \A i \in 1 .. Len(stdin') : i + 1 \in 1 .. Len(stdin)
        /\ \A i \in 1 .. Len(stdin'), s \in Runs : Queued(i, s)' => Queued(i + 1, s) /\ s
             # h
    BY <1>10, ReadRun DEF HandleRunReject
  <2>2. \A s \in Runs : s # h => transcript'[s] = transcript[s]
    BY <1>10, <2>1, TellFacts DEF HandleRunReject
  <2>3. mpc' = "loop" /\ UNCHANGED <<unsent, wpc, wid>>
    BY <1>10 DEF HandleRunReject, Read
  <2> HIDE DEF h, Queued
  <2> QED
    BY <2>1, <2>2, <2>3, RunsAssumption DEF TypeRequests, TypeThreads, PlaceInv,
         Supervising, HasChild
<1>11. CASE HandleRunRefuse
  <2> DEFINE h == Head(stdin).id
  <2>1. /\ h \in Runs \ unsent /\ wid # h
        /\ \A i \in 1 .. Len(stdin') : i + 1 \in 1 .. Len(stdin)
        /\ \A i \in 1 .. Len(stdin'), s \in Runs : Queued(i, s)' => Queued(i + 1, s) /\ s
             # h
    BY <1>11, ReadRun DEF HandleRunRefuse
  <2>2. \A s \in Runs : s # h => transcript'[s] = transcript[s]
    BY <1>11, <2>1, TellFacts DEF HandleRunRefuse
  <2>3. mpc' = "loop" /\ UNCHANGED <<unsent, wpc, wid>>
    BY <1>11 DEF HandleRunRefuse, Read
  <2> HIDE DEF h, Queued
  <2> QED
    BY <2>1, <2>2, <2>3, RunsAssumption DEF TypeRequests, TypeThreads, PlaceInv,
         Supervising, HasChild
<1>12. CASE HandleRunIdle
  <2> DEFINE h == Head(stdin).id
  <2>1. /\ h \in Runs \ unsent /\ Queued(1, h) /\ 1 \in 1 .. Len(stdin)
        /\ \A i \in 1 .. Len(stdin') : i + 1 \in 1 .. Len(stdin)
        /\ \A i \in 1 .. Len(stdin'), s \in Runs : Queued(i, s)' => Queued(i + 1, s)
    BY <1>12, ReadRun DEF HandleRunIdle
  <2>2. mreq'.id = h /\ UNCHANGED <<unsent, wpc, wid, transcript>>
    BY <1>12 DEF HandleRunIdle, Read
  <2> HIDE DEF h, Queued
  <2> QED
    BY <2>1, <2>2
<1>13. CASE HandleRunAccept
  BY <1>13 DEF HandleRunAccept, Claim, WorkerEnded, TypeRequests, TypeThreads, TypeOutside
<1>14. CASE HandleRunNoThread
  BY <1>14 DEF HandleRunNoThread, Claim, WorkerEnded, TypeRequests, TypeThreads, TypeOutside
<1>15. CASE HandleStop
  <2>1. /\ stdin' = Tail(stdin) /\ stdin # <<>>
        /\ UNCHANGED <<unsent, wpc, wid, transcript>>
        /\ mpc' # "join"
    BY <1>15 DEF HandleStop, Read
  <2>2. \A i \in 1 .. Len(stdin') : i + 1 \in 1 .. Len(stdin) /\ stdin'[i] = stdin[i + 1]
    BY <2>1 DEF TypeRequests
  <2>3. \A i \in 1 .. Len(stdin'), s \in Runs : Queued(i, s)' => Queued(i + 1, s)
    BY <2>2 DEF Queued
  <2> HIDE DEF Queued
  <2> QED
    BY <2>1, <2>2, <2>3 DEF ToldInv
<1>16. CASE StopKill
  BY <1>16 DEF StopKill, Exists, TypeRequests, TypeThreads, TypeOutside
<1>17. CASE StopArm
  BY <1>17 DEF StopArm, TypeRequests, TypeThreads, TypeOutside
<1>18. CASE StopAnswer
  BY <1>18 DEF StopAnswer, CanEmit, TypeRequests, TypeThreads, TypeOutside
<1>19. CASE Saw
  BY <1>19 DEF Saw, TypeRequests, TypeThreads, TypeOutside
<1>20. CASE SawKill
  BY <1>20 DEF SawKill, Exists, TypeRequests, TypeThreads, TypeOutside
<1>21. CASE SawArm
  BY <1>21 DEF SawArm, TypeRequests, TypeThreads, TypeOutside
<1>22. CASE SawJoin
  BY <1>22 DEF SawJoin, WorkerEnded, TypeRequests, TypeThreads, TypeOutside
<1>23. CASE Shutdown
  BY <1>23 DEF Shutdown, TypeRequests, TypeThreads, TypeOutside
<1>24. CASE JoinDog
  BY <1>24 DEF JoinDog, TypeRequests, TypeThreads, TypeOutside
<1>25. CASE LaunchFail
  BY <1>25 DEF LaunchFail, TypeRequests, TypeThreads, TypeOutside
<1>26. CASE Launch
  BY <1>26 DEF Launch, TypeRequests, TypeThreads, TypeOutside
<1>27. CASE Publish
  BY <1>27 DEF Publish, TypeRequests, TypeThreads, TypeOutside
<1>28. CASE Started
  <2>1. wid \in Runs /\ transcript[wid] = <<>>
    BY <1>28 DEF Started, PlaceInv, Supervising, HasChild
  <2>2. /\ \A s \in Runs : s # wid => transcript'[s] = transcript[s]
        /\ transcript'[wid] \in {<<>>, <<"started">>}
    BY <1>28, <2>1, TellFacts, Events DEF Started
  <2>3. /\ wpc' \notin {"launch", "publish", "started"}
        /\ UNCHANGED <<unsent, stdin, mpc, mreq, wid>>
    BY <1>28 DEF Started
  <2>4. mpc = "join" => mreq.id \in Runs
    BY RunFields DEF TypeRequests
  <2> QED
    BY <2>1, <2>2, <2>3, <2>4 DEF PlaceInv, TypeRequests
<1>29. CASE QueuedKill
  BY <1>29 DEF QueuedKill, TypeRequests, TypeThreads, TypeOutside
<1>30. CASE QueuedArm
  BY <1>30 DEF QueuedArm, TypeRequests, TypeThreads, TypeOutside
<1>31. CASE QueuedAnswer
  BY <1>31 DEF QueuedAnswer, CanEmit, TypeRequests, TypeThreads, TypeOutside
<1>32. CASE Open
  BY <1>32 DEF Open, TypeRequests, TypeThreads, TypeOutside
<1>33. CASE ReadReady
  BY <1>33 DEF ReadReady, TypeRequests, TypeThreads, TypeOutside
<1>34. CASE ReadLine
  BY <1>34 DEF ReadLine, CanEmit, TypeRequests, TypeThreads, TypeOutside
<1>35. CASE ReadEof
  BY <1>35 DEF ReadEof, TypeRequests, TypeThreads, TypeOutside
<1>36. CASE Abort
  BY <1>36 DEF Abort, TypeRequests, TypeThreads, TypeOutside
<1>37. CASE AbortTimeout
  BY <1>37 DEF AbortTimeout, TypeRequests, TypeThreads, TypeOutside
<1>38. CASE AbortKill
  BY <1>38 DEF AbortKill, TypeRequests, TypeThreads, TypeOutside
<1>39. CASE AbortReap
  BY <1>39 DEF AbortReap, TypeRequests, TypeThreads, TypeOutside
<1>40. CASE Cleanup
  BY <1>40 DEF Cleanup, TypeRequests, TypeThreads, TypeOutside
<1>41. CASE Finish
  <2>1. wid \in Runs
    BY <1>41 DEF Finish, PlaceInv, Supervising
  <2>2. \A s \in Runs : s # wid => transcript'[s] = transcript[s]
    BY <1>41, <2>1, TellFacts DEF Finish
  <2>3. wpc' = "done" /\ wid' = NoRun /\ UNCHANGED <<unsent, stdin, mpc, mreq>>
    BY <1>41 DEF Finish
  <2>4. mpc = "join" => mreq.id \in Runs
    BY RunFields DEF TypeRequests
  <2> QED
    BY <2>1, <2>2, <2>3, <2>4, RunsAssumption DEF PlaceInv, TypeRequests
<1>42. CASE UNCHANGED <<unsent, stdin, transcript, mpc, mreq, wpc, wid>>
  BY <1>42
<1>43. ASSUME GuiCloseStdin \/ GuiCloseStdout PROVE UNCHANGED <<unsent, stdin, transcript,
     mpc, mreq, wpc, wid>>
  BY <1>43 DEF GuiCloseStdin, GuiCloseStdout, NotGui
<1>44. ASSUME DogArmed \/ DogChanged \/ DogTimeout \/ DogCheck \/ DogKill \/ DogExit PROVE
     UNCHANGED <<unsent, stdin, transcript, mpc, mreq, wpc, wid>>
  BY <1>44 DEF DogArmed, DogChanged, DogTimeout, DogCheck, DogKill, DogExit
<1>45. ASSUME NEW p \in Pids, ChildReady(p) \/ ChildOutput(p) \/ ChildExit(p) \/
     Foreign(p) PROVE UNCHANGED <<unsent, stdin, transcript, mpc, mreq, wpc, wid>>
  BY <1>45 DEF ChildReady, ChildOutput, ChildExit, Foreign, NotProc
<1> QED
  BY <1>1, <1>2, <1>3, <1>4, <1>5, <1>6, <1>7, <1>8, <1>9, <1>10, <1>11, <1>12, <1>13,
       <1>14, <1>15, <1>16, <1>17, <1>18, <1>19, <1>20, <1>21, <1>22, <1>23, <1>24, <1>25,
       <1>26, <1>27, <1>28, <1>29, <1>30, <1>31, <1>32, <1>33, <1>34, <1>35, <1>36, <1>37,
       <1>38, <1>39, <1>40, <1>41, <1>42, <1>43, <1>44, <1>45 DEF Next, Gui, Main, Worker,
       Watchdog, System, Terminated

(* A transport that has failed stays failed. *)
LEMMA CanEmitStep == [Next]_vars => (CanEmit' => CanEmit)
<1> SUFFICES ASSUME [Next]_vars PROVE CanEmit' => CanEmit
  OBVIOUS
<1> USE DEF CanEmit
<1>1. CASE GuiCloseStdout
  BY Zenon, <1>1 DEF GuiCloseStdout, NotGui
<1>2. CASE MainReady
  BY Zenon, <1>2 DEF MainReady, Emit, CanEmit
<1>3. CASE HandleOther
  BY Zenon, <1>3 DEF HandleOther, Read, Emit, CanEmit
<1>4. CASE HandleRunReject
  BY Zenon, <1>4 DEF HandleRunReject, Read, Tell, Emit, CanEmit
<1>5. CASE HandleRunRefuse
  BY Zenon, <1>5 DEF HandleRunRefuse, Read, Tell, Emit, CanEmit
<1>6. CASE HandleRunNoThread
  BY Zenon, <1>6 DEF HandleRunNoThread, Emit, Claim, WorkerEnded, CanEmit
<1>7. CASE StopAnswer
  BY Zenon, <1>7 DEF StopAnswer, Emit, CanEmit
<1>8. CASE SawJoin
  BY Zenon, <1>8 DEF SawJoin, Emit, WorkerEnded, CanEmit
<1>9. CASE LaunchFail
  BY Zenon, <1>9 DEF LaunchFail, Emit, CanEmit
<1>10. CASE Started
  BY Zenon, <1>10 DEF Started, CanEmit, Tell, Emit
<1>11. CASE QueuedAnswer
  BY Zenon, <1>11 DEF QueuedAnswer, Emit, CanEmit
<1>12. CASE ReadLine
  BY Zenon, <1>12 DEF ReadLine, Emit, CanEmit
<1>13. CASE AbortReap
  BY Zenon, <1>13 DEF AbortReap, Emit, CanEmit
<1>14. CASE Finish
  BY Zenon, <1>14 DEF Finish, Tell, Emit, CanEmit
<1>15. CASE UNCHANGED <<guiReading, transportFailed>>
  BY Zenon, <1>15
<1>16. ASSUME NEW r \in Runs, GuiRun(r) PROVE UNCHANGED <<guiReading, transportFailed>>
  BY <1>16 DEF GuiRun, Send, NotGui
<1>17. ASSUME GuiStop \/ GuiOther \/ GuiQuit \/ GuiCloseStdin PROVE UNCHANGED
     <<guiReading, transportFailed>>
  BY <1>17 DEF GuiStop, GuiOther, GuiQuit, GuiCloseStdin, Send, NotGui
<1>18. ASSUME MainLoop \/ MainEof \/ HandleQuit \/ HandleRunIdle \/ HandleRunAccept \/
     HandleStop \/ StopKill \/ StopArm \/ Saw \/ SawKill \/ SawArm \/ Shutdown \/ JoinDog
     PROVE UNCHANGED <<guiReading, transportFailed>>
  BY <1>18 DEF MainLoop, MainEof, HandleQuit, HandleRunIdle, HandleRunAccept, HandleStop,
       StopKill, StopArm, Saw, SawKill, SawArm, Shutdown, JoinDog, Read, Claim
<1>19. ASSUME Launch \/ Publish \/ QueuedKill \/ QueuedArm \/ Open \/ ReadReady \/ ReadEof
     \/ Abort \/ AbortTimeout \/ AbortKill \/ Cleanup PROVE UNCHANGED <<guiReading,
     transportFailed>>
  BY <1>19 DEF Launch, Publish, QueuedKill, QueuedArm, Open, ReadReady, ReadEof, Abort,
       AbortTimeout, AbortKill, Cleanup
<1>20. ASSUME DogArmed \/ DogChanged \/ DogTimeout \/ DogCheck \/ DogKill \/ DogExit PROVE
     UNCHANGED <<guiReading, transportFailed>>
  BY <1>20 DEF DogArmed, DogChanged, DogTimeout, DogCheck, DogKill, DogExit
<1>21. ASSUME NEW p \in Pids, ChildReady(p) \/ ChildOutput(p) \/ ChildExit(p) \/
     Foreign(p) PROVE UNCHANGED <<guiReading, transportFailed>>
  BY <1>21 DEF ChildReady, ChildOutput, ChildExit, Foreign, NotProc
<1> QED
  BY <1>1, <1>2, <1>3, <1>4, <1>5, <1>6, <1>7, <1>8, <1>9, <1>10, <1>11, <1>12, <1>13,
       <1>14, <1>15, <1>16, <1>17, <1>18, <1>19, <1>20, <1>21 DEF Next, Gui, Main, Worker,
       Watchdog, System, Terminated

(* Every other step leaves the transcripts and the supervised run alone. *)
LEMMA TellFrame ==
  ASSUME [Next]_vars
  PROVE  \/ HandleRunReject \/ HandleRunRefuse \/ HandleRunAccept \/ Started \/ Finish
         \/ UNCHANGED <<transcript, wid>>
<1>1. ASSUME NEW r \in Runs, GuiRun(r) PROVE UNCHANGED <<transcript, wid>>
  BY <1>1 DEF GuiRun, Send, NotGui
<1>2. CASE GuiStop \/ GuiOther \/ GuiQuit \/ GuiCloseStdin \/ GuiCloseStdout
  BY <1>2 DEF GuiStop, GuiOther, GuiQuit, GuiCloseStdin, GuiCloseStdout, Send, NotGui
<1>3. CASE MainReady \/ MainLoop \/ MainEof \/ HandleOther \/ HandleQuit \/ HandleRunIdle
     \/ HandleRunNoThread \/ HandleStop \/ StopKill \/ StopArm \/ StopAnswer \/ Saw \/
     SawKill \/ SawArm \/ SawJoin \/ Shutdown \/ JoinDog
  BY <1>3 DEF MainReady, MainLoop, MainEof, HandleOther, HandleQuit, HandleRunIdle,
       HandleRunNoThread, HandleStop, StopKill, StopArm, StopAnswer, Saw, SawKill, SawArm,
       SawJoin, Shutdown, JoinDog, Read, Claim
<1>4. CASE LaunchFail \/ Launch \/ Publish \/ QueuedKill \/ QueuedArm \/ QueuedAnswer \/
     Open \/ ReadReady \/ ReadLine \/ ReadEof \/ Abort \/ AbortTimeout \/ AbortKill \/
     AbortReap \/ Cleanup
  BY <1>4 DEF LaunchFail, Launch, Publish, QueuedKill, QueuedArm, QueuedAnswer, Open,
       ReadReady, ReadLine, ReadEof, Abort, AbortTimeout, AbortKill, AbortReap, Cleanup
<1>5. CASE DogArmed \/ DogChanged \/ DogTimeout \/ DogCheck \/ DogKill \/ DogExit
  BY <1>5 DEF DogArmed, DogChanged, DogTimeout, DogCheck, DogKill, DogExit
<1>6. ASSUME NEW p \in Pids, ChildReady(p) \/ ChildOutput(p) \/ ChildExit(p) \/ Foreign(p)
     PROVE UNCHANGED <<transcript, wid>>
  BY <1>6 DEF ChildReady, ChildOutput, ChildExit, Foreign, NotProc
<1>7. CASE UNCHANGED vars
  BY <1>7
<1> QED
  BY <1>1, <1>2, <1>3, <1>4, <1>5, <1>6, <1>7 DEF Next, Gui, Main, Worker, Watchdog,
       System, Terminated

(* A run that opens is the supervised one; it is closed before the next is supervised. *)
LEMMA OpenStep ==
  TypeRequests /\ TypeThreads /\ TypeOutside /\ PlaceInv /\ ToldInv /\ OpenInv /\ [Next]_vars
    => OpenInv'
<1> SUFFICES ASSUME TypeRequests, TypeThreads, TypeOutside, PlaceInv, ToldInv, OpenInv,
                    [Next]_vars
             PROVE  OpenInv'
  OBVIOUS
<1>1. CanEmit' => CanEmit
  BY CanEmitStep
<1>2. CASE HandleRunReject \/ HandleRunRefuse
  <2> DEFINE h == Head(stdin).id
  <2>1. Read("run") /\ Tell(h, "finished") /\ UNCHANGED wid
    BY <1>2 DEF HandleRunReject, HandleRunRefuse
  <2>2. h \in Runs /\ Queued(1, h) /\ 1 \in 1 .. Len(stdin)
    BY <2>1, ReadRun
  <2>3. transcript[h] = <<>>
    BY <2>2 DEF ToldInv
  <2>4. /\ \A s \in Runs : s # h => transcript'[s] = transcript[s]
        /\ transcript'[h] # <<"started">>
    BY <2>1, <2>2, <2>3, TellFacts, Events
  <2> QED
    BY <1>1, <2>1, <2>4 DEF OpenInv
<1>3. CASE HandleRunAccept
  <2>1. wid \notin Runs /\ UNCHANGED transcript
    BY <1>3 DEF HandleRunAccept, WorkerEnded, Claim, PlaceInv, Supervising, HasChild
  <2> QED
    BY <1>1, <2>1 DEF OpenInv
<1>4. CASE Started
  <2>1. wid \in Runs /\ Tell(wid, "started") /\ UNCHANGED wid
    BY <1>4 DEF Started, PlaceInv, Supervising, HasChild
  <2> QED
    BY <1>1, <2>1, TellFacts DEF OpenInv
<1>5. CASE Finish
  <2>1. wid \in Runs /\ Tell(wid, "finished")
    BY <1>5 DEF Finish, PlaceInv, Supervising, HasChild
  <2>2. CanEmit => transcript'[wid] # <<"started">>
    BY <2>1, TellFacts, Events DEF ToldInv
  <2>3. \A s \in Runs : s # wid => transcript'[s] = transcript[s]
    BY <2>1, TellFacts
  <2> QED
    BY <1>1, <2>2, <2>3 DEF OpenInv
<1>6. CASE UNCHANGED <<transcript, wid>>
  BY <1>1, <1>6 DEF OpenInv
<1> QED
  BY <1>2, <1>3, <1>4, <1>5, <1>6, TellFrame

(* active_pid_ is set by Publish and cleared by Cleanup. *)
LEMMA ActiveStep == PlaceInv /\ ActiveInv /\ [Next]_vars => ActiveInv'
<1> SUFFICES ASSUME PlaceInv, ActiveInv, [Next]_vars PROVE ActiveInv'
  OBVIOUS
<1> USE DEF ActiveInv
<1>1. CASE HandleRunAccept
  BY <1>1 DEF HandleRunAccept, Claim, WorkerEnded, Supervising, HasChild, Published
<1>2. CASE HandleRunNoThread
  BY <1>2 DEF HandleRunNoThread, Claim, WorkerEnded, Supervising, HasChild, Published
<1>3. CASE LaunchFail
  BY <1>3 DEF LaunchFail, Supervising, HasChild, Published
<1>4. CASE Launch
  BY <1>4 DEF Launch, Supervising, HasChild, Published
<1>5. CASE Publish
  BY <1>5 DEF Publish, Supervising, HasChild, Published
<1>6. CASE Started
  BY <1>6 DEF Started, Supervising, HasChild, Published
<1>7. CASE QueuedKill
  BY <1>7 DEF QueuedKill, Supervising, HasChild, Published
<1>8. CASE QueuedArm
  BY <1>8 DEF QueuedArm, Supervising, HasChild, Published
<1>9. CASE QueuedAnswer
  BY <1>9 DEF QueuedAnswer, Supervising, HasChild, Published
<1>10. CASE Open
  BY <1>10 DEF Open, Supervising, HasChild, Published
<1>11. CASE ReadReady
  BY <1>11 DEF ReadReady, Supervising, HasChild, Published
<1>12. CASE ReadLine
  BY <1>12 DEF ReadLine, Supervising, HasChild, Published
<1>13. CASE ReadEof
  BY <1>13 DEF ReadEof, Supervising, HasChild, Published
<1>14. CASE Abort
  BY <1>14 DEF Abort, Supervising, HasChild, Published
<1>15. CASE AbortTimeout
  BY <1>15 DEF AbortTimeout, Supervising, HasChild, Published
<1>16. CASE AbortKill
  BY <1>16 DEF AbortKill, Supervising, HasChild, Published
<1>17. CASE AbortReap
  BY <1>17 DEF AbortReap, Supervising, HasChild, Published
<1>18. CASE Cleanup
  BY <1>18 DEF Cleanup, Supervising, HasChild, Published
<1>19. CASE Finish
  BY <1>19 DEF Finish, Supervising, HasChild, Published
<1>20. CASE UNCHANGED <<activePid, wpc, wchild>>
  BY <1>20
<1>21. ASSUME NEW r \in Runs, GuiRun(r) PROVE UNCHANGED <<activePid, wpc, wchild>>
  BY <1>21 DEF GuiRun, Send, NotGui
<1>22. ASSUME GuiStop \/ GuiOther \/ GuiQuit \/ GuiCloseStdin \/ GuiCloseStdout PROVE
     UNCHANGED <<activePid, wpc, wchild>>
  BY <1>22 DEF GuiStop, GuiOther, GuiQuit, GuiCloseStdin, GuiCloseStdout, Send, NotGui
<1>23. ASSUME MainReady \/ MainLoop \/ MainEof \/ HandleOther \/ HandleQuit \/
     HandleRunReject \/ HandleRunRefuse \/ HandleRunIdle \/ HandleStop \/ StopKill \/
     StopArm \/ StopAnswer \/ Saw \/ SawKill \/ SawArm \/ SawJoin \/ Shutdown \/ JoinDog
     PROVE UNCHANGED <<activePid, wpc, wchild>>
  BY <1>23 DEF MainReady, MainLoop, MainEof, HandleOther, HandleQuit, HandleRunReject,
       HandleRunRefuse, HandleRunIdle, HandleStop, StopKill, StopArm, StopAnswer, Saw,
       SawKill, SawArm, SawJoin, Shutdown, JoinDog, Read
<1>24. ASSUME DogArmed \/ DogChanged \/ DogTimeout \/ DogCheck \/ DogKill \/ DogExit PROVE
     UNCHANGED <<activePid, wpc, wchild>>
  BY <1>24 DEF DogArmed, DogChanged, DogTimeout, DogCheck, DogKill, DogExit
<1>25. ASSUME NEW p \in Pids, ChildReady(p) \/ ChildOutput(p) \/ ChildExit(p) \/
     Foreign(p) PROVE UNCHANGED <<activePid, wpc, wchild>>
  BY <1>25 DEF ChildReady, ChildOutput, ChildExit, Foreign, NotProc
<1> QED
  BY <1>1, <1>2, <1>3, <1>4, <1>5, <1>6, <1>7, <1>8, <1>9, <1>10, <1>11, <1>12, <1>13,
       <1>14, <1>15, <1>16, <1>17, <1>18, <1>19, <1>20, <1>21, <1>22, <1>23, <1>24, <1>25
       DEF Next, Gui, Main, Worker, Watchdog, System, Terminated

(* Claim sets active_waits_for_output_ with the program. *)
LEMMA WaitsStep == WaitsInv /\ [Next]_vars => WaitsInv'
<1> SUFFICES ASSUME WaitsInv, [Next]_vars PROVE WaitsInv'
  OBVIOUS
<1> USE DEF WaitsInv
<1>1. CASE HandleRunAccept
  BY Zenon, <1>1 DEF HandleRunAccept, Claim, WorkerEnded, Supervising, HasChild, Published
<1>2. CASE HandleRunNoThread
  BY Zenon, <1>2 DEF HandleRunNoThread, Claim, WorkerEnded, Supervising, HasChild, Published
<1>3. CASE LaunchFail
  BY Zenon, <1>3 DEF LaunchFail, Supervising, HasChild, Published
<1>4. CASE Launch
  BY Zenon, <1>4 DEF Launch, Supervising, HasChild, Published
<1>5. CASE Publish
  BY Zenon, <1>5 DEF Publish, Supervising, HasChild, Published
<1>6. CASE Started
  BY Zenon, <1>6 DEF Started, Supervising, HasChild, Published
<1>7. CASE QueuedKill
  BY Zenon, <1>7 DEF QueuedKill, Supervising, HasChild, Published
<1>8. CASE QueuedArm
  BY Zenon, <1>8 DEF QueuedArm, Supervising, HasChild, Published
<1>9. CASE QueuedAnswer
  BY Zenon, <1>9 DEF QueuedAnswer, Supervising, HasChild, Published
<1>10. CASE Open
  BY Zenon, <1>10 DEF Open, Supervising, HasChild, Published
<1>11. CASE ReadReady
  BY Zenon, <1>11 DEF ReadReady, Supervising, HasChild, Published
<1>12. CASE ReadLine
  BY Zenon, <1>12 DEF ReadLine, Supervising, HasChild, Published
<1>13. CASE ReadEof
  BY Zenon, <1>13 DEF ReadEof, Supervising, HasChild, Published
<1>14. CASE Abort
  BY Zenon, <1>14 DEF Abort, Supervising, HasChild, Published
<1>15. CASE AbortTimeout
  BY Zenon, <1>15 DEF AbortTimeout, Supervising, HasChild, Published
<1>16. CASE AbortKill
  BY Zenon, <1>16 DEF AbortKill, Supervising, HasChild, Published
<1>17. CASE AbortReap
  BY Zenon, <1>17 DEF AbortReap, Supervising, HasChild, Published
<1>18. CASE Cleanup
  BY Zenon, <1>18 DEF Cleanup, Supervising, HasChild, Published
<1>19. CASE Finish
  BY Zenon, <1>19 DEF Finish, Supervising, HasChild, Published
<1>20. CASE UNCHANGED <<wpc, waitsForOutput, wprog>>
  BY Zenon, <1>20
<1>21. ASSUME NEW r \in Runs, GuiRun(r) PROVE UNCHANGED <<wpc, waitsForOutput, wprog>>
  BY <1>21 DEF GuiRun, Send, NotGui
<1>22. ASSUME GuiStop \/ GuiOther \/ GuiQuit \/ GuiCloseStdin \/ GuiCloseStdout PROVE
     UNCHANGED <<wpc, waitsForOutput, wprog>>
  BY <1>22 DEF GuiStop, GuiOther, GuiQuit, GuiCloseStdin, GuiCloseStdout, Send, NotGui
<1>23. ASSUME MainReady \/ MainLoop \/ MainEof \/ HandleOther \/ HandleQuit \/
     HandleRunReject \/ HandleRunRefuse \/ HandleRunIdle \/ HandleStop \/ StopKill \/
     StopArm \/ StopAnswer \/ Saw \/ SawKill \/ SawArm \/ SawJoin \/ Shutdown \/ JoinDog
     PROVE UNCHANGED <<wpc, waitsForOutput, wprog>>
  BY <1>23 DEF MainReady, MainLoop, MainEof, HandleOther, HandleQuit, HandleRunReject,
       HandleRunRefuse, HandleRunIdle, HandleStop, StopKill, StopArm, StopAnswer, Saw,
       SawKill, SawArm, SawJoin, Shutdown, JoinDog, Read
<1>24. ASSUME DogArmed \/ DogChanged \/ DogTimeout \/ DogCheck \/ DogKill \/ DogExit PROVE
     UNCHANGED <<wpc, waitsForOutput, wprog>>
  BY <1>24 DEF DogArmed, DogChanged, DogTimeout, DogCheck, DogKill, DogExit
<1>25. ASSUME NEW p \in Pids, ChildReady(p) \/ ChildOutput(p) \/ ChildExit(p) \/
     Foreign(p) PROVE UNCHANGED <<wpc, waitsForOutput, wprog>>
  BY <1>25 DEF ChildReady, ChildOutput, ChildExit, Foreign, NotProc
<1> QED
  BY <1>1, <1>2, <1>3, <1>4, <1>5, <1>6, <1>7, <1>8, <1>9, <1>10, <1>11, <1>12, <1>13,
       <1>14, <1>15, <1>16, <1>17, <1>18, <1>19, <1>20, <1>21, <1>22, <1>23, <1>24, <1>25
       DEF Next, Gui, Main, Worker, Watchdog, System, Terminated

(* The marker enters the pipe with the handlers, and a new child gets a new pipe. *)
LEMMA MarkerStep == TypeThreads /\ TypeOutside /\ ChildInv /\ MarkerInv /\ [Next]_vars =>
     MarkerInv'
<1> SUFFICES ASSUME TypeThreads, TypeOutside, ChildInv, MarkerInv, [Next]_vars PROVE
     MarkerInv'
  OBVIOUS
<1> USE DEF MarkerInv
<1>1. CASE HandleRunAccept
  BY <1>1 DEF HandleRunAccept, Claim, WorkerEnded, Supervising, HasChild, Published
<1>2. CASE HandleRunNoThread
  BY <1>2 DEF HandleRunNoThread, Claim, WorkerEnded, Supervising, HasChild, Published
<1>3. CASE StopKill
  BY <1>3 DEF StopKill, Interrupt, Exists, Owned, Live, TypeThreads, TypeOutside, ChildInv
<1>4. CASE SawKill
  BY <1>4 DEF SawKill, Interrupt, Exists, Owned, Live, TypeThreads, TypeOutside, ChildInv
<1>5. CASE LaunchFail
  BY <1>5 DEF LaunchFail, Supervising, HasChild, Published, TypeThreads, TypeOutside,
       ChildInv
<1>6. CASE Launch
  BY <1>6 DEF Launch, Supervising, HasChild, Published, Owned, Live, TypeThreads,
       TypeOutside, ChildInv
<1>7. CASE Publish
  BY <1>7 DEF Publish, Supervising, HasChild, Published, TypeThreads, TypeOutside, ChildInv
<1>8. CASE Started
  BY <1>8 DEF Started, Supervising, HasChild, Published, TypeThreads, TypeOutside, ChildInv
<1>9. CASE QueuedKill
  BY <1>9 DEF QueuedKill, Interrupt, Supervising, HasChild, Published, Owned, Live,
       TypeThreads, TypeOutside, ChildInv
<1>10. CASE QueuedArm
  BY <1>10 DEF QueuedArm, Supervising, HasChild, Published, TypeThreads, TypeOutside,
       ChildInv
<1>11. CASE QueuedAnswer
  BY <1>11 DEF QueuedAnswer, Supervising, HasChild, Published, TypeThreads, TypeOutside,
       ChildInv
<1>12. CASE Open
  BY <1>12 DEF Open, Supervising, HasChild, Published, TypeThreads, TypeOutside, ChildInv
<1>13. CASE ReadReady
  BY <1>13 DEF ReadReady, Supervising, HasChild, Published, TypeThreads, TypeOutside,
       ChildInv
<1>14. CASE ReadLine
  BY <1>14 DEF ReadLine, Supervising, HasChild, Published, TypeThreads, TypeOutside,
       ChildInv
<1>15. CASE ReadEof
  BY <1>15 DEF ReadEof, Reap, Supervising, HasChild, Published, Owned, Live, TypeThreads,
       TypeOutside, ChildInv
<1>16. CASE Abort
  BY <1>16 DEF Abort, Interrupt, Supervising, HasChild, Published, Owned, Live,
       TypeThreads, TypeOutside, ChildInv
<1>17. CASE AbortTimeout
  BY <1>17 DEF AbortTimeout, Supervising, HasChild, Published, TypeThreads, TypeOutside,
       ChildInv
<1>18. CASE AbortKill
  BY <1>18 DEF AbortKill, Kill, Supervising, HasChild, Published, Owned, Live,
       TypeThreads, TypeOutside, ChildInv
<1>19. CASE AbortReap
  BY <1>19 DEF AbortReap, Reap, Supervising, HasChild, Published, Owned, Live,
       TypeThreads, TypeOutside, ChildInv
<1>20. CASE Cleanup
  BY <1>20 DEF Cleanup, Supervising, HasChild, Published, TypeThreads, TypeOutside, ChildInv
<1>21. CASE Finish
  BY <1>21 DEF Finish, Supervising, HasChild, Published, TypeThreads, TypeOutside, ChildInv
<1>22. CASE DogKill
  BY <1>22 DEF DogKill, Kill, Exists, Owned, Live, TypeThreads, TypeOutside, ChildInv
<1>23. ASSUME NEW p \in Pids, ChildReady(p) PROVE MarkerInv'
  BY <1>23 DEF ChildReady, NotProc, Owned, Live, TypeThreads, TypeOutside, ChildInv
<1>24. ASSUME NEW p \in Pids, ChildOutput(p) PROVE MarkerInv'
  BY <1>24 DEF ChildOutput, NotProc, Owned, Live, TypeThreads, TypeOutside, ChildInv
<1>25. ASSUME NEW p \in Pids, ChildExit(p) PROVE MarkerInv'
  BY <1>25 DEF ChildExit, NotProc, Owned, Live, TypeThreads, TypeOutside, ChildInv
<1>26. ASSUME NEW p \in Pids, Foreign(p) PROVE MarkerInv'
  BY <1>26 DEF Foreign, NotProc, Owned, Live, TypeThreads, TypeOutside, ChildInv
<1>27. CASE UNCHANGED <<pipe, wpc, wchild, proc>>
  BY <1>27
<1>28. ASSUME NEW r \in Runs, GuiRun(r) PROVE UNCHANGED <<pipe, wpc, wchild, proc>>
  BY <1>28 DEF GuiRun, Send, NotGui
<1>29. ASSUME GuiStop \/ GuiOther \/ GuiQuit \/ GuiCloseStdin \/ GuiCloseStdout PROVE
     UNCHANGED <<pipe, wpc, wchild, proc>>
  BY <1>29 DEF GuiStop, GuiOther, GuiQuit, GuiCloseStdin, GuiCloseStdout, Send, NotGui
<1>30. ASSUME MainReady \/ MainLoop \/ MainEof \/ HandleOther \/ HandleQuit \/
     HandleRunReject \/ HandleRunRefuse \/ HandleRunIdle \/ HandleStop \/ StopArm \/
     StopAnswer \/ Saw \/ SawArm \/ SawJoin \/ Shutdown \/ JoinDog PROVE UNCHANGED <<pipe,
     wpc, wchild, proc>>
  BY <1>30 DEF MainReady, MainLoop, MainEof, HandleOther, HandleQuit, HandleRunReject,
       HandleRunRefuse, HandleRunIdle, HandleStop, StopArm, StopAnswer, Saw, SawArm,
       SawJoin, Shutdown, JoinDog, Read
<1>31. ASSUME DogArmed \/ DogChanged \/ DogTimeout \/ DogCheck \/ DogExit PROVE UNCHANGED
     <<pipe, wpc, wchild, proc>>
  BY <1>31 DEF DogArmed, DogChanged, DogTimeout, DogCheck, DogExit
<1> QED
  BY <1>1, <1>2, <1>3, <1>4, <1>5, <1>6, <1>7, <1>8, <1>9, <1>10, <1>11, <1>12, <1>13,
       <1>14, <1>15, <1>16, <1>17, <1>18, <1>19, <1>20, <1>21, <1>22, <1>23, <1>24, <1>25,
       <1>26, <1>27, <1>28, <1>29, <1>30, <1>31 DEF Next, Gui, Main, Worker, Watchdog,
       System, Terminated

(* Readiness is recorded only on reading the marker. *)
LEMMA ReadyStep == TypeThreads /\ TypeOutside /\ ChildInv /\ MarkerInv /\ ReadyInv /\
     [Next]_vars => ReadyInv'
<1> SUFFICES ASSUME TypeThreads, TypeOutside, ChildInv, MarkerInv, ReadyInv, [Next]_vars
     PROVE ReadyInv'
  OBVIOUS
<1> USE DEF ReadyInv
<1>1. CASE HandleRunAccept
  BY <1>1 DEF HandleRunAccept, Claim, WorkerEnded, Supervising, HasChild, Published
<1>2. CASE HandleRunNoThread
  BY <1>2 DEF HandleRunNoThread, Claim, WorkerEnded, Supervising, HasChild, Published
<1>3. CASE StopKill
  BY <1>3 DEF StopKill, Interrupt, Exists, Owned, Live, TypeThreads, TypeOutside,
       MarkerInv, ChildInv
<1>4. CASE SawKill
  BY <1>4 DEF SawKill, Interrupt, Exists, Owned, Live, TypeThreads, TypeOutside,
       MarkerInv, ChildInv
<1>5. CASE LaunchFail
  BY <1>5 DEF LaunchFail, Supervising, HasChild, Published
<1>6. CASE Launch
  BY <1>6 DEF Launch, Supervising, HasChild, Published, Owned, Live, TypeThreads,
       TypeOutside, MarkerInv, ChildInv
<1>7. CASE Publish
  BY <1>7 DEF Publish, Supervising, HasChild, Published
<1>8. CASE Started
  BY <1>8 DEF Started, Supervising, HasChild, Published
<1>9. CASE QueuedKill
  BY <1>9 DEF QueuedKill, Interrupt, Supervising, HasChild, Published, Owned, Live,
       TypeThreads, TypeOutside, MarkerInv, ChildInv
<1>10. CASE QueuedArm
  BY <1>10 DEF QueuedArm, Supervising, HasChild, Published
<1>11. CASE QueuedAnswer
  BY <1>11 DEF QueuedAnswer, Supervising, HasChild, Published
<1>12. CASE Open
  BY <1>12 DEF Open, Supervising, HasChild, Published
<1>13. CASE ReadReady
  BY <1>13 DEF ReadReady, Supervising, HasChild, Published, TypeThreads, TypeOutside,
       MarkerInv, ChildInv
<1>14. CASE ReadLine
  BY <1>14 DEF ReadLine, Supervising, HasChild, Published
<1>15. CASE ReadEof
  BY <1>15 DEF ReadEof, Reap, Supervising, HasChild, Published, Owned, Live, TypeThreads,
       TypeOutside, MarkerInv, ChildInv
<1>16. CASE Abort
  BY <1>16 DEF Abort, Interrupt, Supervising, HasChild, Published, Owned, Live,
       TypeThreads, TypeOutside, MarkerInv, ChildInv
<1>17. CASE AbortTimeout
  BY <1>17 DEF AbortTimeout, Supervising, HasChild, Published
<1>18. CASE AbortKill
  BY <1>18 DEF AbortKill, Kill, Supervising, HasChild, Published, Owned, Live,
       TypeThreads, TypeOutside, MarkerInv, ChildInv
<1>19. CASE AbortReap
  BY <1>19 DEF AbortReap, Reap, Supervising, HasChild, Published, Owned, Live,
       TypeThreads, TypeOutside, MarkerInv, ChildInv
<1>20. CASE Cleanup
  BY <1>20 DEF Cleanup, Supervising, HasChild, Published
<1>21. CASE Finish
  BY <1>21 DEF Finish, Supervising, HasChild, Published
<1>22. CASE DogKill
  BY <1>22 DEF DogKill, Kill, Exists, Owned, Live, TypeThreads, TypeOutside, MarkerInv,
       ChildInv
<1>23. ASSUME NEW p \in Pids, ChildReady(p) PROVE ReadyInv'
  BY <1>23 DEF ChildReady, NotProc, Owned, Live, TypeThreads, TypeOutside, MarkerInv,
       ChildInv
<1>24. ASSUME NEW p \in Pids, ChildExit(p) PROVE ReadyInv'
  BY <1>24 DEF ChildExit, NotProc, Owned, Live, TypeThreads, TypeOutside, MarkerInv,
       ChildInv
<1>25. ASSUME NEW p \in Pids, Foreign(p) PROVE ReadyInv'
  BY <1>25 DEF Foreign, NotProc, Owned, Live, TypeThreads, TypeOutside, MarkerInv, ChildInv
<1>26. CASE UNCHANGED <<stopReady, wpc, wchild, proc>>
  BY <1>26
<1>27. ASSUME NEW r \in Runs, GuiRun(r) PROVE UNCHANGED <<stopReady, wpc, wchild, proc>>
  BY <1>27 DEF GuiRun, Send, NotGui
<1>28. ASSUME GuiStop \/ GuiOther \/ GuiQuit \/ GuiCloseStdin \/ GuiCloseStdout PROVE
     UNCHANGED <<stopReady, wpc, wchild, proc>>
  BY <1>28 DEF GuiStop, GuiOther, GuiQuit, GuiCloseStdin, GuiCloseStdout, Send, NotGui
<1>29. ASSUME MainReady \/ MainLoop \/ MainEof \/ HandleOther \/ HandleQuit \/
     HandleRunReject \/ HandleRunRefuse \/ HandleRunIdle \/ HandleStop \/ StopArm \/
     StopAnswer \/ Saw \/ SawArm \/ SawJoin \/ Shutdown \/ JoinDog PROVE UNCHANGED
     <<stopReady, wpc, wchild, proc>>
  BY <1>29 DEF MainReady, MainLoop, MainEof, HandleOther, HandleQuit, HandleRunReject,
       HandleRunRefuse, HandleRunIdle, HandleStop, StopArm, StopAnswer, Saw, SawArm,
       SawJoin, Shutdown, JoinDog, Read
<1>30. ASSUME DogArmed \/ DogChanged \/ DogTimeout \/ DogCheck \/ DogExit PROVE UNCHANGED
     <<stopReady, wpc, wchild, proc>>
  BY <1>30 DEF DogArmed, DogChanged, DogTimeout, DogCheck, DogExit
<1>31. ASSUME NEW p \in Pids, ChildOutput(p) PROVE UNCHANGED <<stopReady, wpc, wchild,
     proc>>
  BY <1>31 DEF ChildOutput, NotProc
<1> QED
  BY <1>1, <1>2, <1>3, <1>4, <1>5, <1>6, <1>7, <1>8, <1>9, <1>10, <1>11, <1>12, <1>13,
       <1>14, <1>15, <1>16, <1>17, <1>18, <1>19, <1>20, <1>21, <1>22, <1>23, <1>24, <1>25,
       <1>26, <1>27, <1>28, <1>29, <1>30, <1>31 DEF Next, Gui, Main, Worker, Watchdog,
       System, Terminated

(* stop_on_start is for mappers, a queued Stop for a writer waits for readiness. *)
LEMMA QueuedStopStep == WaitsInv /\ QueuedStopInv /\ [Next]_vars => QueuedStopInv'
<1> SUFFICES ASSUME WaitsInv, QueuedStopInv, [Next]_vars PROVE QueuedStopInv'
  OBVIOUS
<1> USE DEF QueuedStopInv
<1>1. CASE HandleRunAccept
  BY Zenon, <1>1 DEF HandleRunAccept, Claim, WorkerEnded, Supervising, HasChild,
       Published, WaitsInv
<1>2. CASE HandleRunNoThread
  BY Zenon, <1>2 DEF HandleRunNoThread, Claim, WorkerEnded, Supervising, HasChild,
       Published, WaitsInv
<1>3. CASE LaunchFail
  BY Zenon, <1>3 DEF LaunchFail, Supervising, HasChild, Published, WaitsInv
<1>4. CASE Launch
  BY Zenon, <1>4 DEF Launch, Supervising, HasChild, Published, WaitsInv
<1>5. CASE Publish
  BY Zenon, <1>5 DEF Publish, Supervising, HasChild, Published, WaitsInv
<1>6. CASE Started
  BY Zenon, <1>6 DEF Started, Supervising, HasChild, Published, WaitsInv
<1>7. CASE QueuedKill
  BY Zenon, <1>7 DEF QueuedKill, Supervising, HasChild, Published, WaitsInv
<1>8. CASE QueuedArm
  BY Zenon, <1>8 DEF QueuedArm, Supervising, HasChild, Published, WaitsInv
<1>9. CASE QueuedAnswer
  BY Zenon, <1>9 DEF QueuedAnswer, Supervising, HasChild, Published, WaitsInv
<1>10. CASE Open
  BY Zenon, <1>10 DEF Open, Supervising, HasChild, Published, WaitsInv
<1>11. CASE ReadReady
  BY Zenon, <1>11 DEF ReadReady, Supervising, HasChild, Published, WaitsInv
<1>12. CASE ReadLine
  BY Zenon, <1>12 DEF ReadLine, Supervising, HasChild, Published, WaitsInv
<1>13. CASE ReadEof
  BY Zenon, <1>13 DEF ReadEof, Supervising, HasChild, Published, WaitsInv
<1>14. CASE Abort
  BY Zenon, <1>14 DEF Abort, Supervising, HasChild, Published, WaitsInv
<1>15. CASE AbortTimeout
  BY Zenon, <1>15 DEF AbortTimeout, Supervising, HasChild, Published, WaitsInv
<1>16. CASE AbortKill
  BY Zenon, <1>16 DEF AbortKill, Supervising, HasChild, Published, WaitsInv
<1>17. CASE AbortReap
  BY Zenon, <1>17 DEF AbortReap, Supervising, HasChild, Published, WaitsInv
<1>18. CASE Cleanup
  BY Zenon, <1>18 DEF Cleanup, Supervising, HasChild, Published, WaitsInv
<1>19. CASE Finish
  BY Zenon, <1>19 DEF Finish, Supervising, HasChild, Published, WaitsInv
<1>20. CASE UNCHANGED <<wstop, wprog, wpc, stopReady>>
  BY Zenon, <1>20
<1>21. ASSUME NEW r \in Runs, GuiRun(r) PROVE UNCHANGED <<wstop, wprog, wpc, stopReady>>
  BY <1>21 DEF GuiRun, Send, NotGui
<1>22. ASSUME GuiStop \/ GuiOther \/ GuiQuit \/ GuiCloseStdin \/ GuiCloseStdout PROVE
     UNCHANGED <<wstop, wprog, wpc, stopReady>>
  BY <1>22 DEF GuiStop, GuiOther, GuiQuit, GuiCloseStdin, GuiCloseStdout, Send, NotGui
<1>23. ASSUME MainReady \/ MainLoop \/ MainEof \/ HandleOther \/ HandleQuit \/
     HandleRunReject \/ HandleRunRefuse \/ HandleRunIdle \/ HandleStop \/ StopKill \/
     StopArm \/ StopAnswer \/ Saw \/ SawKill \/ SawArm \/ SawJoin \/ Shutdown \/ JoinDog
     PROVE UNCHANGED <<wstop, wprog, wpc, stopReady>>
  BY <1>23 DEF MainReady, MainLoop, MainEof, HandleOther, HandleQuit, HandleRunReject,
       HandleRunRefuse, HandleRunIdle, HandleStop, StopKill, StopArm, StopAnswer, Saw,
       SawKill, SawArm, SawJoin, Shutdown, JoinDog, Read
<1>24. ASSUME DogArmed \/ DogChanged \/ DogTimeout \/ DogCheck \/ DogKill \/ DogExit PROVE
     UNCHANGED <<wstop, wprog, wpc, stopReady>>
  BY <1>24 DEF DogArmed, DogChanged, DogTimeout, DogCheck, DogKill, DogExit
<1>25. ASSUME NEW p \in Pids, ChildReady(p) \/ ChildOutput(p) \/ ChildExit(p) \/
     Foreign(p) PROVE UNCHANGED <<wstop, wprog, wpc, stopReady>>
  BY <1>25 DEF ChildReady, ChildOutput, ChildExit, Foreign, NotProc
<1> QED
  BY <1>1, <1>2, <1>3, <1>4, <1>5, <1>6, <1>7, <1>8, <1>9, <1>10, <1>11, <1>12, <1>13,
       <1>14, <1>15, <1>16, <1>17, <1>18, <1>19, <1>20, <1>21, <1>22, <1>23, <1>24, <1>25
       DEF Next, Gui, Main, Worker, Watchdog, System, Terminated

(* The pid captured by handle_stop cannot become a writer without handlers. *)
LEMMA StopTargetStep == TypeThreads /\ TypeOutside /\ RunningInv /\ ChildInv /\ ActiveInv
     /\ WaitsInv /\ ReadyInv /\ StopTargetInv /\ [Next]_vars => StopTargetInv'
<1> SUFFICES ASSUME TypeThreads, TypeOutside, RunningInv, ChildInv, ActiveInv, WaitsInv,
     ReadyInv, StopTargetInv, [Next]_vars PROVE StopTargetInv'
  OBVIOUS
<1> USE DEF StopTargetInv
<1>1. CASE MainReady
  BY <1>1 DEF MainReady
<1>2. CASE MainLoop
  BY <1>2 DEF MainLoop
<1>3. CASE MainEof
  BY <1>3 DEF MainEof
<1>4. CASE HandleOther
  BY <1>4 DEF HandleOther, Read
<1>5. CASE HandleQuit
  BY <1>5 DEF HandleQuit, Read
<1>6. CASE HandleRunReject
  BY <1>6 DEF HandleRunReject, Read
<1>7. CASE HandleRunRefuse
  BY <1>7 DEF HandleRunRefuse, Read
<1>8. CASE HandleRunIdle
  BY <1>8 DEF HandleRunIdle, Read
<1>9. CASE HandleRunAccept
  BY <1>9 DEF HandleRunAccept, Claim, WorkerEnded
<1>10. CASE HandleRunNoThread
  BY <1>10 DEF HandleRunNoThread, Claim, WorkerEnded
<1>11. CASE HandleStop
  <2> SUFFICES ASSUME mpc' = "stopKill"
               PROVE  /\ mpid' \in Pids /\ wpc' \notin {"launch", "publish"}
                      /\ wprog' = Writer => proc'[mpid'] # "starting"
    OBVIOUS
  <2>1. ~Defer /\ (workerRunning \/ activePid # NoPid)
    BY <1>11, Zenon DEF HandleStop
  <2>2. activePid # NoPid
    BY <2>1, Zenon DEF Defer
  <2>3. wpc \in Published /\ activePid = wchild
    BY <2>2 DEF ActiveInv
  <2>4. workerRunning /\ wpc \in Supervising
    BY <2>3, Zenon DEF RunningInv, Published
  <2>5. wprog = Writer => stopReady
    BY <2>1, <2>4, Zenon DEF Defer, WaitsInv
  <2>6. mpid' = wchild /\ UNCHANGED <<wpc, wprog, proc>>
    BY <1>11, <2>3 DEF HandleStop
  <2>7. wchild \in Pids
    BY <2>2, <2>3 DEF TypeThreads
  <2>8. wprog = Writer => proc[wchild] # "starting"
    BY <2>5, <2>7 DEF ReadyInv, ChildInv, Owned, Live
  <2> QED
    BY <2>3, <2>6, <2>7, <2>8 DEF Published, Supervising, HasChild
<1>12. CASE StopKill
  BY <1>12 DEF StopKill, Interrupt, Exists, Owned, Live, TypeThreads, TypeOutside
<1>13. CASE StopArm
  BY <1>13 DEF StopArm
<1>14. CASE StopAnswer
  BY <1>14 DEF StopAnswer
<1>15. CASE Saw
  BY <1>15 DEF Saw
<1>16. CASE SawKill
  BY <1>16 DEF SawKill, Interrupt, Exists, Owned, Live, TypeThreads, TypeOutside
<1>17. CASE SawArm
  BY <1>17 DEF SawArm
<1>18. CASE SawJoin
  BY <1>18 DEF SawJoin, WorkerEnded
<1>19. CASE Shutdown
  BY <1>19 DEF Shutdown
<1>20. CASE JoinDog
  BY <1>20 DEF JoinDog
<1>21. CASE LaunchFail
  BY <1>21 DEF LaunchFail
<1>22. CASE Launch
  BY <1>22 DEF Launch, Owned, Live, TypeThreads, TypeOutside
<1>23. CASE Publish
  BY <1>23 DEF Publish
<1>24. CASE Started
  BY <1>24 DEF Started
<1>25. CASE QueuedKill
  BY <1>25 DEF QueuedKill, Interrupt, Owned, Live, TypeThreads, TypeOutside
<1>26. CASE QueuedArm
  BY <1>26 DEF QueuedArm
<1>27. CASE QueuedAnswer
  BY <1>27 DEF QueuedAnswer
<1>28. CASE Open
  BY <1>28 DEF Open
<1>29. CASE ReadReady
  BY <1>29 DEF ReadReady
<1>30. CASE ReadLine
  BY <1>30 DEF ReadLine
<1>31. CASE ReadEof
  BY <1>31 DEF ReadEof, Reap, Owned, Live, TypeThreads, TypeOutside
<1>32. CASE Abort
  BY <1>32 DEF Abort, Interrupt, Owned, Live, TypeThreads, TypeOutside
<1>33. CASE AbortTimeout
  BY <1>33 DEF AbortTimeout
<1>34. CASE AbortKill
  BY <1>34 DEF AbortKill, Kill, Owned, Live, TypeThreads, TypeOutside
<1>35. CASE AbortReap
  BY <1>35 DEF AbortReap, Reap, Owned, Live, TypeThreads, TypeOutside
<1>36. CASE Cleanup
  BY <1>36 DEF Cleanup
<1>37. CASE Finish
  BY <1>37 DEF Finish, Writer
<1>38. CASE DogKill
  BY <1>38 DEF DogKill, Kill, Exists, Owned, Live, TypeThreads, TypeOutside
<1>39. ASSUME NEW p \in Pids, ChildReady(p) PROVE StopTargetInv'
  BY <1>39 DEF ChildReady, NotProc, Owned, Live, TypeThreads, TypeOutside
<1>40. ASSUME NEW p \in Pids, ChildExit(p) PROVE StopTargetInv'
  BY <1>40 DEF ChildExit, NotProc, Owned, Live, TypeThreads, TypeOutside
<1>41. ASSUME NEW p \in Pids, Foreign(p) PROVE StopTargetInv'
  BY <1>41 DEF Foreign, NotProc, Owned, Live, TypeThreads, TypeOutside
<1>42. CASE UNCHANGED <<mpc, mpid, wpc, wprog, proc>>
  BY <1>42
<1>43. ASSUME NEW r \in Runs, GuiRun(r) PROVE UNCHANGED <<mpc, mpid, wpc, wprog, proc>>
  BY <1>43 DEF GuiRun, Send, NotGui
<1>44. ASSUME GuiStop \/ GuiOther \/ GuiQuit \/ GuiCloseStdin \/ GuiCloseStdout PROVE
     UNCHANGED <<mpc, mpid, wpc, wprog, proc>>
  BY <1>44 DEF GuiStop, GuiOther, GuiQuit, GuiCloseStdin, GuiCloseStdout, Send, NotGui
<1>45. ASSUME DogArmed \/ DogChanged \/ DogTimeout \/ DogCheck \/ DogExit PROVE UNCHANGED
     <<mpc, mpid, wpc, wprog, proc>>
  BY <1>45 DEF DogArmed, DogChanged, DogTimeout, DogCheck, DogExit
<1>46. ASSUME NEW p \in Pids, ChildOutput(p) PROVE UNCHANGED <<mpc, mpid, wpc, wprog, proc>>
  BY <1>46 DEF ChildOutput, NotProc
<1> QED
  BY <1>1, <1>2, <1>3, <1>4, <1>5, <1>6, <1>7, <1>8, <1>9, <1>10, <1>11, <1>12, <1>13,
       <1>14, <1>15, <1>16, <1>17, <1>18, <1>19, <1>20, <1>21, <1>22, <1>23, <1>24, <1>25,
       <1>26, <1>27, <1>28, <1>29, <1>30, <1>31, <1>32, <1>33, <1>34, <1>35, <1>36, <1>37,
       <1>38, <1>39, <1>40, <1>41, <1>42, <1>43, <1>44, <1>45, <1>46 DEF Next, Gui, Main,
       Worker, Watchdog, System, Terminated

(* A finished run stays finished. *)
LEMMA TellFinished ==
  ASSUME TypeOutside, NEW r \in Runs, NEW e \in {"started", "finished"}, Tell(r, e)
  PROVE  \A q \in Runs : Finished(q) => Finished(q)'
<1> SUFFICES ASSUME NEW q \in Runs, NEW i \in DOMAIN transcript[q],
                    transcript[q][i] = "finished"
             PROVE  i \in DOMAIN transcript'[q] /\ transcript'[q][i] = "finished"
  BY DEF Finished
<1>1. transcript[q] \in Seq({"started", "finished"})
  BY DEF TypeOutside
<1>2. transcript'[q] \in {transcript[q], Append(transcript[q], e)}
  BY TellFacts
<1> QED
  BY <1>1, <1>2, SMTT(30)

(* A Stop, ping or quit request queues behind everything. *)
LEMMA SendPlain ==
  ASSUME TypeRequests, PoliteInv, NEW a \in {"stop", "other", "quit"},
         Send([action |-> a]), UNCHANGED <<unsent, polite, refused, transcript>>,
         TypeOutside
  PROVE  PoliteInv'
<1>1. stdin \in Seq(Requests) /\ stdin' = Append(stdin, [action |-> a])
  BY DEF TypeRequests, Send
<1>2. /\ Len(stdin') = Len(stdin) + 1
      /\ \A i \in 1 .. Len(stdin) : stdin'[i] = stdin[i]
      /\ stdin'[Len(stdin) + 1].action # "run"
  BY <1>1, PlainRequest
<1>3. \A i \in 1 .. Len(stdin'), s \in Runs :
        Queued(i, s)' => i \in 1 .. Len(stdin) /\ Queued(i, s)
  BY <1>1, <1>2 DEF Queued
<1>4. \A i \in 1 .. Len(stdin), s \in Runs :
        Queued(i, s) => i \in 1 .. Len(stdin') /\ Queued(i, s)'
  BY <1>1, <1>2 DEF Queued
<1>5. \A q \in Runs : Finished(q)' <=> Finished(q)
  BY DEF Finished
<1>6. polite \subseteq Runs
  BY DEF TypeOutside
<1> QED
  BY <1>3, <1>4, <1>5, <1>6 DEF PoliteInv

(* Reading the head of the queue leaves the order of the rest. *)
LEMMA ReadPolite ==
  ASSUME TypeRequests, TypeOutside, PoliteInv, NEW a, Read(a),
         \A q \in Runs : Finished(q) => Finished(q)',
         refused' \subseteq Runs \ unsent
  PROVE  PoliteInv'
<1>1. /\ stdin # <<>> /\ stdin' = Tail(stdin) /\ stdin \in Seq(Requests)
      /\ UNCHANGED <<unsent, polite>>
  BY DEF Read, TypeRequests
<1>2. /\ Len(stdin) \in Nat /\ Len(stdin') = Len(stdin) - 1
      /\ \A i \in 1 .. Len(stdin') : stdin'[i] = stdin[i + 1]
  BY <1>1
<1> SUFFICES ASSUME NEW i \in 1 .. Len(stdin'), NEW r \in polite, Queued(i, r)',
                    NEW q \in Runs \ unsent, q # r, ~Finished(q)'
             PROVE  \E j \in 1 .. Len(stdin') : j > i /\ Queued(j, q)'
  BY <1>1 DEF PoliteInv
<1>3. i + 1 \in 1 .. Len(stdin) /\ Queued(i + 1, r)
  BY <1>1, <1>2 DEF Queued
<1>4. PICK k \in 1 .. Len(stdin) : k > i + 1 /\ Queued(k, q)
  BY <1>3 DEF PoliteInv
<1>5. k - 1 \in 1 .. Len(stdin') /\ k - 1 > i /\ (k - 1) + 1 = k
  BY <1>2, <1>4
<1>6. Queued(k - 1, q)'
  BY <1>2, <1>4, <1>5 DEF Queued
<1> QED
  BY <1>5, <1>6

(* Requests are read in the order they were sent, so a polite run is never overtaken. *)
LEMMA PoliteStep == TypeRequests /\ TypeThreads /\ TypeOutside /\ PlaceInv /\ PoliteInv /\
     [Next]_vars => PoliteInv'
<1> SUFFICES ASSUME TypeRequests, TypeThreads, TypeOutside, PlaceInv, PoliteInv,
     [Next]_vars PROVE PoliteInv'
  OBVIOUS
<1> USE DEF PoliteInv
<1>1. ASSUME NEW r \in Runs, GuiRun(r) PROVE PoliteInv'
  <2>1. PICK q \in RunRequests : q.id = r /\ Send(q)
    BY <1>1 DEF GuiRun
  <2>2. q.action = "run" /\ q \in Requests
    BY <2>1, RunFields
  <2>3. /\ r \in unsent /\ unsent' = unsent \ {r} /\ stdin' = Append(stdin, q)
        /\ polite' = IF \A s \in Runs \ unsent : Finished(s) THEN polite \cup {r} ELSE
             polite
        /\ UNCHANGED <<refused, transcript>>
    BY <1>1, <2>1 DEF GuiRun, Send, NotGui
  <2>4. stdin \in Seq(Requests) /\ unsent \subseteq Runs
    BY DEF TypeRequests
  <2>5. /\ Len(stdin') = Len(stdin) + 1
        /\ \A i \in 1 .. Len(stdin) : stdin'[i] = stdin[i]
        /\ stdin'[Len(stdin) + 1] = q
    BY <2>2, <2>3, <2>4
  <2>6. \A i \in 1 .. Len(stdin), s \in Runs : Queued(i, s)' <=> Queued(i, s)
    BY <2>4, <2>5 DEF Queued
  <2>7. \A i \in 1 .. Len(stdin'), s \in Runs : i = Len(stdin) + 1 => (Queued(i, s)' <=> s
       = r)
    BY <2>1, <2>2, <2>5 DEF Queued
  <2>8. \A i \in 1 .. Len(stdin) : ~Queued(i, r)
    BY <2>3 DEF PlaceInv
  <2>9. /\ \A i \in 1 .. Len(stdin') : i \in 1 .. Len(stdin) \/ i = Len(stdin) + 1
        /\ \A i \in 1 .. Len(stdin) : i \in 1 .. Len(stdin') /\ i < Len(stdin) + 1
        /\ Len(stdin) + 1 \in 1 .. Len(stdin')
    BY <2>4, <2>5
  <2>10. \A s \in Runs : Finished(s)' <=> Finished(s)
    BY <2>3 DEF Finished
  <2>11. polite \subseteq Runs /\ refused \subseteq Runs
    BY DEF TypeOutside
  <2> SUFFICES ASSUME NEW i \in 1 .. Len(stdin'), NEW s \in polite', Queued(i, s)',
                      NEW t \in Runs \ unsent', t # s, ~Finished(t)'
               PROVE  \E j \in 1 .. Len(stdin') : j > i /\ Queued(j, t)'
    BY <2>3, <2>4
  <2>12. s \in Runs
    BY <2>3, <2>11
  <2>13. CASE i = Len(stdin) + 1
    BY <2>3, <2>7, <2>8, <2>10, <2>12, <2>13
  <2>14. CASE i \in 1 .. Len(stdin)
    <3>1. s # r /\ s \in polite /\ Queued(i, s)
      BY <2>3, <2>6, <2>8, <2>12, <2>14
    <3>2. CASE t = r
      BY <2>7, <2>9, <2>14, <3>2
    <3>3. CASE t # r
      <4>1. PICK j \in 1 .. Len(stdin) : j > i /\ Queued(j, t)
        BY <2>3, <2>10, <2>14, <3>1, <3>3
      <4> QED
        BY <2>6, <2>9, <4>1
    <3> QED
      BY <3>2, <3>3
  <2> QED
    BY <2>9, <2>13, <2>14
<1>2. CASE GuiStop
  <2>1. Send([action |-> "stop"]) /\ UNCHANGED <<unsent, polite, refused, transcript>>
    BY <1>2 DEF GuiStop, NotGui
  <2> QED
    BY <2>1, SendPlain
<1>3. CASE GuiOther
  <2>1. Send([action |-> "other"]) /\ UNCHANGED <<unsent, polite, refused, transcript>>
    BY <1>3 DEF GuiOther, NotGui
  <2> QED
    BY <2>1, SendPlain
<1>4. CASE GuiQuit
  <2>1. Send([action |-> "quit"]) /\ UNCHANGED <<unsent, polite, refused, transcript>>
    BY <1>4 DEF GuiQuit, NotGui
  <2> QED
    BY <2>1, SendPlain
<1>5. CASE HandleOther
  <2>1. Read("other") /\ UNCHANGED <<refused, transcript>>
    BY <1>5 DEF HandleOther
  <2>2. \A q \in Runs : Finished(q) => Finished(q)'
    BY <2>1 DEF Finished
  <2> QED
    BY <2>1, <2>2, ReadPolite
<1>6. CASE HandleQuit
  <2>1. Read("quit") /\ UNCHANGED <<refused, transcript>>
    BY <1>6 DEF HandleQuit
  <2>2. \A q \in Runs : Finished(q) => Finished(q)'
    BY <2>1 DEF Finished
  <2> QED
    BY <2>1, <2>2, ReadPolite
<1>7. CASE HandleRunReject
  <2>1. Read("run") /\ Tell(Head(stdin).id, "finished")
    BY <1>7 DEF HandleRunReject
  <2>2. Head(stdin).id \in Runs \ unsent
    BY <2>1, ReadRun
  <2>3. refused' \subseteq refused \cup {Head(stdin).id}
    BY <1>7 DEF HandleRunReject
  <2> QED
    BY <2>1, <2>2, <2>3, TellFinished, ReadPolite
<1>8. CASE HandleRunRefuse
  <2>1. Read("run") /\ Tell(Head(stdin).id, "finished")
    BY <1>8 DEF HandleRunRefuse
  <2>2. Head(stdin).id \in Runs \ unsent
    BY <2>1, ReadRun
  <2>3. refused' \subseteq refused \cup {Head(stdin).id}
    BY <1>8 DEF HandleRunRefuse
  <2> QED
    BY <2>1, <2>2, <2>3, TellFinished, ReadPolite
<1>9. CASE HandleRunIdle
  <2>1. Read("run") /\ UNCHANGED <<refused, transcript>>
    BY <1>9 DEF HandleRunIdle
  <2>2. \A q \in Runs : Finished(q) => Finished(q)'
    BY <2>1 DEF Finished
  <2> QED
    BY <2>1, <2>2, ReadPolite
<1>10. CASE HandleStop
  <2>1. Read("stop") /\ UNCHANGED <<refused, transcript>>
    BY <1>10 DEF HandleStop
  <2>2. \A q \in Runs : Finished(q) => Finished(q)'
    BY <2>1 DEF Finished
  <2> QED
    BY <2>1, <2>2, ReadPolite
<1>11. CASE Started
  <2>1. Tell(wid, "started") /\ wid \in Runs
    BY <1>11 DEF Started, PlaceInv, Supervising, HasChild
  <2>2. \A q \in Runs : Finished(q) => Finished(q)'
    BY <2>1, TellFinished
  <2>3. UNCHANGED <<unsent, stdin, polite, refused>>
    BY <1>11 DEF Started
  <2>4. \A i \in 1 .. Len(stdin), r \in Runs : Queued(i, r)' <=> Queued(i, r)
    BY <2>3 DEF Queued
  <2> QED
    BY <2>2, <2>3, <2>4 DEF TypeOutside
<1>12. CASE Finish
  <2>1. Tell(wid, "finished") /\ wid \in Runs
    BY <1>12 DEF Finish, PlaceInv, Supervising, HasChild
  <2>2. \A q \in Runs : Finished(q) => Finished(q)'
    BY <2>1, TellFinished
  <2>3. UNCHANGED <<unsent, stdin, polite, refused>>
    BY <1>12 DEF Finish
  <2>4. \A i \in 1 .. Len(stdin), r \in Runs : Queued(i, r)' <=> Queued(i, r)
    BY <2>3 DEF Queued
  <2> QED
    BY <2>2, <2>3, <2>4 DEF TypeOutside
<1>13. CASE UNCHANGED <<unsent, stdin, polite, refused, transcript>>
  BY <1>13 DEF Queued, Finished
<1>14. ASSUME GuiCloseStdin \/ GuiCloseStdout PROVE UNCHANGED <<unsent, stdin, polite,
     refused, transcript>>
  BY <1>14 DEF GuiCloseStdin, GuiCloseStdout, NotGui
<1>15. ASSUME MainReady \/ MainLoop \/ MainEof \/ HandleRunAccept \/ HandleRunNoThread \/
     StopKill \/ StopArm \/ StopAnswer \/ Saw \/ SawKill \/ SawArm \/ SawJoin \/ Shutdown
     \/ JoinDog PROVE UNCHANGED <<unsent, stdin, polite, refused, transcript>>
  BY <1>15 DEF MainReady, MainLoop, MainEof, HandleRunAccept, HandleRunNoThread, StopKill,
       StopArm, StopAnswer, Saw, SawKill, SawArm, SawJoin, Shutdown, JoinDog, Claim
<1>16. ASSUME LaunchFail \/ Launch \/ Publish \/ QueuedKill \/ QueuedArm \/ QueuedAnswer
     \/ Open \/ ReadReady \/ ReadLine \/ ReadEof \/ Abort \/ AbortTimeout \/ AbortKill \/
     AbortReap \/ Cleanup PROVE UNCHANGED <<unsent, stdin, polite, refused, transcript>>
  BY <1>16 DEF LaunchFail, Launch, Publish, QueuedKill, QueuedArm, QueuedAnswer, Open,
       ReadReady, ReadLine, ReadEof, Abort, AbortTimeout, AbortKill, AbortReap, Cleanup
<1>17. ASSUME DogArmed \/ DogChanged \/ DogTimeout \/ DogCheck \/ DogKill \/ DogExit PROVE
     UNCHANGED <<unsent, stdin, polite, refused, transcript>>
  BY <1>17 DEF DogArmed, DogChanged, DogTimeout, DogCheck, DogKill, DogExit
<1>18. ASSUME NEW p \in Pids, ChildReady(p) \/ ChildOutput(p) \/ ChildExit(p) \/
     Foreign(p) PROVE UNCHANGED <<unsent, stdin, polite, refused, transcript>>
  BY <1>18 DEF ChildReady, ChildOutput, ChildExit, Foreign, NotProc
<1> QED
  BY <1>1, <1>2, <1>3, <1>4, <1>5, <1>6, <1>7, <1>8, <1>9, <1>10, <1>11, <1>12, <1>13,
       <1>14, <1>15, <1>16, <1>17, <1>18 DEF Next, Gui, Main, Worker, Watchdog, System,
       Terminated

-----------------------------------------------------------------------------
(* The safety properties that are one step beyond the invariant. *)

(* Only StopKill and QueuedKill interrupt on behalf of a Stop. *)
LEMMA WriterSafeStep == ReadyInv /\ QueuedStopInv /\ StopTargetInv /\ WriterStopSafe /\
     [Next]_vars => WriterStopSafe'
<1> SUFFICES ASSUME ReadyInv, QueuedStopInv, StopTargetInv, WriterStopSafe, [Next]_vars
     PROVE WriterStopSafe'
  OBVIOUS
<1> USE DEF WriterStopSafe
<1>1. CASE StopKill
  BY <1>1 DEF StopKill, Interrupt, StopTargetInv
<1>2. CASE SawKill
  BY <1>2 DEF SawKill, Interrupt
<1>3. CASE QueuedKill
  <2>1. ~(proc[wchild] = "starting" /\ wprog = Writer)
    BY <1>3 DEF QueuedKill, QueuedStopInv, ReadyInv, HasChild
  <2> QED
    BY <1>3, <2>1 DEF QueuedKill, Interrupt
<1>4. CASE Abort
  BY <1>4 DEF Abort, Interrupt
<1>5. CASE DogKill
  BY <1>5 DEF DogKill, Kill
<1>6. CASE UNCHANGED early
  BY <1>6
<1>7. ASSUME NEW r \in Runs, GuiRun(r) PROVE UNCHANGED early
  BY <1>7 DEF GuiRun, Send, NotGui
<1>8. ASSUME GuiStop \/ GuiOther \/ GuiQuit \/ GuiCloseStdin \/ GuiCloseStdout PROVE
     UNCHANGED early
  BY <1>8 DEF GuiStop, GuiOther, GuiQuit, GuiCloseStdin, GuiCloseStdout, Send, NotGui
<1>9. ASSUME MainReady \/ MainLoop \/ MainEof \/ HandleOther \/ HandleQuit \/
     HandleRunReject \/ HandleRunRefuse \/ HandleRunIdle \/ HandleRunAccept \/
     HandleRunNoThread \/ HandleStop \/ StopArm \/ StopAnswer \/ Saw \/ SawArm \/ SawJoin
     \/ Shutdown \/ JoinDog PROVE UNCHANGED early
  BY <1>9 DEF MainReady, MainLoop, MainEof, HandleOther, HandleQuit, HandleRunReject,
       HandleRunRefuse, HandleRunIdle, HandleRunAccept, HandleRunNoThread, HandleStop,
       StopArm, StopAnswer, Saw, SawArm, SawJoin, Shutdown, JoinDog, Read, Claim
<1>10. ASSUME LaunchFail \/ Launch \/ Publish \/ Started \/ QueuedArm \/ QueuedAnswer \/
     Open \/ ReadReady \/ ReadLine \/ ReadEof \/ AbortTimeout \/ AbortKill \/ AbortReap \/
     Cleanup \/ Finish PROVE UNCHANGED early
  BY <1>10 DEF LaunchFail, Launch, Publish, Started, QueuedArm, QueuedAnswer, Open,
       ReadReady, ReadLine, ReadEof, AbortTimeout, AbortKill, AbortReap, Cleanup, Finish, Kill
<1>11. ASSUME DogArmed \/ DogChanged \/ DogTimeout \/ DogCheck \/ DogExit PROVE UNCHANGED
     early
  BY <1>11 DEF DogArmed, DogChanged, DogTimeout, DogCheck, DogExit
<1>12. ASSUME NEW p \in Pids, ChildReady(p) \/ ChildOutput(p) \/ ChildExit(p) \/
     Foreign(p) PROVE UNCHANGED early
  BY <1>12 DEF ChildReady, ChildOutput, ChildExit, Foreign, NotProc
<1> QED
  BY <1>1, <1>2, <1>3, <1>4, <1>5, <1>6, <1>7, <1>8, <1>9, <1>10, <1>11, <1>12 DEF Next,
       Gui, Main, Worker, Watchdog, System, Terminated

(* Only GuiRun and HandleRunRefuse touch polite and refused. *)
LEMMA AnswerFrame ==
  ASSUME [Next]_vars
  PROVE  \/ HandleRunRefuse
         \/ \E r \in Runs : GuiRun(r)
         \/ UNCHANGED <<refused, polite>>
<1>1. CASE GuiStop \/ GuiOther \/ GuiQuit \/ GuiCloseStdin \/ GuiCloseStdout
  BY <1>1 DEF GuiStop, GuiOther, GuiQuit, GuiCloseStdin, GuiCloseStdout, Send, NotGui
<1>2. CASE MainReady \/ MainLoop \/ MainEof \/ HandleOther \/ HandleQuit \/
     HandleRunReject \/ HandleRunIdle \/ HandleRunAccept \/ HandleRunNoThread \/
     HandleStop \/ StopKill \/ StopArm \/ StopAnswer \/ Saw \/ SawKill \/ SawArm \/
     SawJoin \/ Shutdown \/ JoinDog
  BY <1>2 DEF MainReady, MainLoop, MainEof, HandleOther, HandleQuit, HandleRunReject,
       HandleRunIdle, HandleRunAccept, HandleRunNoThread, HandleStop, StopKill, StopArm,
       StopAnswer, Saw, SawKill, SawArm, SawJoin, Shutdown, JoinDog, Read, Claim
<1>3. CASE LaunchFail \/ Launch \/ Publish \/ Started \/ QueuedKill \/ QueuedArm \/
     QueuedAnswer \/ Open \/ ReadReady \/ ReadLine \/ ReadEof \/ Abort \/ AbortTimeout \/
     AbortKill \/ AbortReap \/ Cleanup \/ Finish
  BY <1>3 DEF LaunchFail, Launch, Publish, Started, QueuedKill, QueuedArm, QueuedAnswer,
       Open, ReadReady, ReadLine, ReadEof, Abort, AbortTimeout, AbortKill, AbortReap,
       Cleanup, Finish
<1>4. CASE DogArmed \/ DogChanged \/ DogTimeout \/ DogCheck \/ DogKill \/ DogExit
  BY <1>4 DEF DogArmed, DogChanged, DogTimeout, DogCheck, DogKill, DogExit
<1>5. ASSUME NEW p \in Pids, ChildReady(p) \/ ChildOutput(p) \/ ChildExit(p) \/ Foreign(p)
     PROVE UNCHANGED <<refused, polite>>
  BY <1>5 DEF ChildReady, ChildOutput, ChildExit, Foreign, NotProc
<1>6. CASE UNCHANGED vars
  BY <1>6
<1> QED
  BY <1>1, <1>2, <1>3, <1>4, <1>5, <1>6 DEF Next, Gui, Main, Worker, Watchdog, System,
       Terminated

(* A refused run was not polite: the supervised run had not finished when it was sent. *)
LEMMA FollowOnStep ==
  TypeRequests /\ TypeOutside /\ RunningInv /\ PlaceInv /\ ToldInv /\ ActiveInv /\ PoliteInv
    /\ FollowOnAccepted /\ [Next]_vars => FollowOnAccepted'
<1> SUFFICES ASSUME TypeRequests, TypeOutside, RunningInv, PlaceInv, ToldInv, ActiveInv,
                    PoliteInv, FollowOnAccepted, [Next]_vars
             PROVE  FollowOnAccepted'
  OBVIOUS
<1>1. ASSUME NEW r \in Runs, GuiRun(r) PROVE FollowOnAccepted'
  BY <1>1 DEF GuiRun, NotGui, PoliteInv, FollowOnAccepted
<1>2. CASE HandleRunRefuse
  <2> DEFINE h == Head(stdin).id
  <2>1. /\ Read("run") /\ refused' = refused \cup {h} /\ UNCHANGED polite
        /\ (workerRunning \/ activePid # NoPid)
    BY <1>2 DEF HandleRunRefuse, Read
  <2>2. /\ h \in Runs \ unsent /\ wid # h
        /\ Queued(1, h) /\ 1 \in 1 .. Len(stdin)
    BY <2>1, ReadRun
  <2>3. wpc \in Supervising
    BY <2>1, Zenon DEF RunningInv, ActiveInv, Published
  <2>4. wid \in Runs /\ transcript[wid] \in {<<>>, <<"started">>}
    BY <2>3 DEF PlaceInv, ToldInv
  <2>5. ~Finished(wid)
    BY <2>4 DEF Finished
  <2>6. wid \notin unsent /\ \A j \in 1 .. Len(stdin) : ~Queued(j, wid)
    BY <2>4 DEF PlaceInv
  <2>7. h \notin polite
    BY <2>2, <2>4, <2>5, <2>6 DEF PoliteInv
  <2> QED
    BY <2>1, <2>7 DEF FollowOnAccepted
<1>3. CASE UNCHANGED <<refused, polite>>
  BY <1>3 DEF FollowOnAccepted
<1> QED
  BY <1>1, <1>2, <1>3, AnswerFrame

-----------------------------------------------------------------------------
(* The theorems. *)

Strong == Supervision /\ WriterStopSafe /\ FollowOnAccepted

(* The initial state satisfies the strengthened invariant. *)
LEMMA InitStrong == Init => TypeOK /\ Strong
<1> SUFFICES ASSUME Init PROVE TypeOK /\ Strong
  OBVIOUS
<1> USE RunsAssumption, PidsAssumption, BoundsAssumption DEF Init
<1>1. TypeFlags
  BY Zenon DEF TypeFlags
<1>2. TypeRequests /\ TypeThreads
  BY DEF TypeRequests, TypeThreads, MainStates, WorkerStates, DogStates, Programs
<1>3. TypeOutside
  BY DEF TypeOutside, ProcStates
<1>4. RunningInv /\ WaitsInv /\ ReadyInv
  BY DEF RunningInv, WaitsInv, ReadyInv, Published, Supervising, HasChild
<1>5. ChildInv /\ MarkerInv /\ ActiveInv
  BY DEF ChildInv, MarkerInv, ActiveInv, HasChild, Owned, Live
<1>6. PlaceInv
  BY DEF PlaceInv, Supervising, HasChild
<1>7. ToldInv /\ PoliteInv
  BY DEF ToldInv, PoliteInv
<1>8. OpenInv
  BY Events DEF OpenInv
<1>9. QueuedStopInv /\ StopTargetInv
  BY Zenon DEF QueuedStopInv, StopTargetInv
<1>10. WriterStopSafe /\ FollowOnAccepted
  BY DEF WriterStopSafe, FollowOnAccepted
<1> QED
  BY <1>1, <1>2, <1>3, <1>4, <1>5, <1>6, <1>7, <1>8, <1>9, <1>10
     DEF TypeOK, Strong, Supervision

(* Every step preserves the typing. *)
LEMMA TypeStep == TypeOK /\ [Next]_vars => TypeOK'
  BY TypeFlagsStep, TypeRequestsStep, TypeThreadsStep, TypeOutsideStep DEF TypeOK

(* Every step preserves the strengthened invariant. *)
LEMMA StrongStep == TypeOK /\ Strong /\ [Next]_vars => Strong'
<1> SUFFICES ASSUME TypeOK, Strong, [Next]_vars PROVE Strong'
  OBVIOUS
<1> USE DEF TypeOK, Strong, Supervision
<1>1. RunningInv' /\ ChildInv' /\ PlaceInv' /\ ToldInv' /\ OpenInv'
  BY RunningStep, ChildStep, PlaceStep, ToldStep, OpenStep
<1>2. ActiveInv' /\ WaitsInv' /\ MarkerInv' /\ ReadyInv'
  BY ActiveStep, WaitsStep, MarkerStep, ReadyStep
<1>3. QueuedStopInv' /\ StopTargetInv' /\ PoliteInv'
  BY QueuedStopStep, StopTargetStep, PoliteStep
<1>4. WriterStopSafe' /\ FollowOnAccepted'
  BY WriterSafeStep, FollowOnStep
<1> QED
  BY <1>1, <1>2, <1>3, <1>4

(* Every variable of the helper stays within its declared values: no pid, id  *)
(* or program counter is ever outside what the code's fields can hold.        *)
THEOREM TypeCorrect == Spec => []TypeOK
<1>1. Init => TypeOK
  BY InitStrong
<1>2. TypeOK /\ [Next]_vars => TypeOK'
  BY TypeStep
<1> QED
  BY <1>1, <1>2, PTL DEF Spec

(* The inductive invariant of the three threads, the child and the queue of   *)
(* requests holds in every reachable state.                                   *)
THEOREM Invariance == Spec => [](TypeOK /\ Strong)
<1>1. Init => TypeOK /\ Strong
  BY InitStrong
<1>2. (TypeOK /\ Strong) /\ [Next]_vars => (TypeOK /\ Strong)'
  BY TypeStep, StrongStep
<1> QED
  BY <1>1, <1>2, PTL DEF Spec

(* When run_request has published idle the helper owns no child process, not  *)
(* even a zombie, whichever path (end of output or exception) it left by.     *)
THEOREM IdleIsClean == Spec => []IdleOwnsNoChild
<1>1. TypeOK /\ Strong => IdleOwnsNoChild
  BY Zenon DEF Strong, Supervision, RunningInv, ChildInv, IdleOwnsNoChild, Supervising
<1> QED
  BY <1>1, Invariance, PTL

(* A run request sent on receipt of finished is never refused as already      *)
(* active, because idle is published before finished is emitted.              *)
THEOREM FollowOn == Spec => []FollowOnAccepted
<1>1. TypeOK /\ Strong => FollowOnAccepted
  BY DEF Strong
<1> QED
  BY <1>1, Invariance, PTL

(* No Stop request ever signals a writer that has not installed its handlers, *)
(* although handle_stop's kill runs outside the section that read the pid.    *)
THEOREM WriterSafety == Spec => []WriterStopSafe
<1>1. TypeOK /\ Strong => WriterStopSafe
  BY DEF Strong
<1> QED
  BY <1>1, Invariance, PTL

(* Every step of the helper is a step of the protocol or invisible to it. *)
LEMMA ProtocolStep ==
  TypeOK /\ Strong /\ [Next]_vars => [Protocol!Next]_transcript
<1> SUFFICES ASSUME TypeOK, Strong, [Next]_vars, transcript' # transcript
             PROVE  Protocol!Next
  OBVIOUS
<1> USE DEF TypeOK, Strong, Supervision
<1>1. CASE HandleRunReject \/ HandleRunRefuse
  <2> DEFINE h == Head(stdin).id
  <2>1. Read("run") /\ Tell(h, "finished")
    BY <1>1 DEF HandleRunReject, HandleRunRefuse
  <2>2. h \in Runs /\ Queued(1, h) /\ 1 \in 1 .. Len(stdin)
    BY <2>1, ReadRun
  <2>3. transcript[h] = <<>>
    BY <2>2 DEF ToldInv
  <2>4. Protocol!Decline(h)
    BY <2>1, <2>3 DEF Tell, Protocol!Decline
  <2> QED
    BY <2>2, <2>4 DEF Protocol!Next
<1>2. CASE Started
  <2>1. wid \in Runs /\ transcript[wid] = <<>> /\ Tell(wid, "started")
    BY <1>2 DEF Started, PlaceInv, ToldInv, Supervising, HasChild
  <2>2. CanEmit /\ transcript' = [transcript EXCEPT ![wid] = Append(@, "started")]
    BY <2>1 DEF Tell
  <2>3. \A q \in Runs : ~Protocol!Open(q)
    BY <2>1, <2>2, Events DEF OpenInv, Protocol!Open
  <2> QED
    BY <2>1, <2>2, <2>3 DEF Protocol!Start, Protocol!Next
<1>3. CASE Finish
  <2>1. /\ wid \in Runs /\ transcript[wid] \in {<<>>, <<"started">>}
        /\ Tell(wid, "finished")
    BY <1>3 DEF Finish, PlaceInv, ToldInv, Supervising, HasChild
  <2>2. transcript' = [transcript EXCEPT ![wid] = Append(@, "finished")]
    BY <2>1 DEF Tell
  <2> QED
    BY <2>1, <2>2 DEF Protocol!Close, Protocol!Decline, Protocol!Open, Protocol!Next
<1>4. CASE HandleRunAccept
  BY <1>4 DEF HandleRunAccept, Claim
<1> QED
  BY <1>1, <1>2, <1>3, <1>4, TellFrame

(* The helper keeps its promise to the desktop: started and finished at most  *)
(* once, in order, and one open run at a time, for every interleaving of its  *)
(* threads and every failure of its transport.                                *)
THEOREM Refinement == Spec => ImplementsProtocol
<1>1. Init => Protocol!Init
  BY DEF Init, Protocol!Init
<1>2. TypeOK /\ Strong /\ [Next]_vars => [Protocol!Next]_transcript
  BY ProtocolStep
<1> QED
  BY <1>1, <1>2, Invariance, PTL DEF Spec, ImplementsProtocol, Protocol!Spec
=============================================================================
