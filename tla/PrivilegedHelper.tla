-------------------------- MODULE PrivilegedHelper --------------------------
(***************************************************************************)
(* The root helper of native/privileged_helper.cpp: the main thread that   *)
(* serves the desktop's requests, the worker thread that supervises one    *)
(* operation, the Stop watchdog thread, the operation's child process and  *)
(* the kernel's process table.                                             *)
(*                                                                         *)
(* A step is one critical section of active_mutex_, one kill, one waitpid  *)
(* or one emit.  An event is seen by the desktop when it is emitted: the   *)
(* desktop may react at once or at any later time, so pipe delay is        *)
(* covered.  Grace periods and poll intervals are nondeterministic.        *)
(***************************************************************************)
EXTENDS Integers, Sequences

CONSTANTS
  Runs,       \* ids of the run requests the desktop may send
  Pids,       \* numeric process ids the kernel can hand out
  NoRun,      \* active_id_ == 0
  NoPid,      \* active_pid_ == -1
  MaxControls, \* bound: Stops, pings, unknown actions and malformed frames sent
  PipeCap,    \* bound: lines of child output in the pipe
  PidReuse,   \* TRUE: the kernel may hand out a reaped pid again
  GuiMayDie   \* TRUE: the desktop may stop reading the helper's output

ASSUME RunsAssumption == NoRun \notin Runs
ASSUME PidsAssumption == NoPid \notin Pids
ASSUME BoundsAssumption ==
  MaxControls \in Nat /\ PipeCap \in Nat /\ PidReuse \in BOOLEAN
  /\ GuiMayDie \in BOOLEAN

Writer == "operation-engine"    \* the program whose Stop waits for readiness
Programs == {Writer, "mapper"}

(* argv: whether the request's argument list is a bounded array of strings; the *)
(* program of a request that fails this test is never looked at.                *)
RunRequests ==
  [action : {"run"}, id : Runs, program : Programs, argv : {TRUE}]
    \cup [action : {"run"}, id : Runs, program : {"mapper"}, argv : {FALSE}]
Requests == RunRequests \cup [action : {"stop", "other", "quit"}]

VARIABLES
  \* The desktop and the two pipes.
  unsent,           \* run ids not sent yet
  controlsLeft,     \* Stops and other requests still to send
  stdin,            \* requests written and not yet read
  stdinOpen,        \* the desktop holds the write end
  guiReading,       \* the desktop holds the read end of stdout
  transportFailed,  \* transport_failed_
  \* Shared state under active_mutex_.
  activePid, activeId, stopReady, waitsForOutput, pendingStop, workerRunning,
  wdShutdown, wdArmed, wdPid,
  \* Main thread.
  mpc,
  mreq,             \* the run request being handled
  mpid, mid,        \* pid and id captured under the lock
  mquit,            \* leaving because of a quit request
  signalled,        \* stop_active_and_wait: the pid already signalled
  \* Worker thread (run_request).
  wpc, wid, wprog, wchild,
  wstop,            \* stop_on_start
  \* Watchdog thread.
  dpc, dpid,
  \* The process table and the child's output pipe.
  proc, pipe,
  \* History: what the desktop was told and whom signals reached.
  transcript,       \* per run: its "started" and "finished" events, in order
  refused,          \* runs answered "already active"
  polite,           \* runs sent when every earlier run had finished
  stopRead,         \* runs that were active when a Stop request was read
  acked,            \* runs whose Stop was answered delivered:true
  aborted,          \* runs whose supervision gave up on an exception
  interrupted,      \* runs whose child was sent SIGINT
  killed,           \* runs whose child was sent SIGKILL
  early,            \* who interrupted a writer before its handlers were installed
  stray             \* a signal reached a process the helper does not own

guiVars  == <<unsent, controlsLeft, stdin, stdinOpen, guiReading, polite>>
lockVars == <<activePid, activeId, stopReady, waitsForOutput, pendingStop, workerRunning>>
wdVars   == <<wdShutdown, wdArmed, wdPid>>
mainVars == <<mpc, mreq, mpid, mid, mquit, signalled>>
workVars == <<wpc, wid, wprog, wchild, wstop>>
dogVars  == <<dpc, dpid>>
procVars == <<proc, pipe>>
tellVars == <<transcript, refused, stopRead, acked, aborted>>
sigVars  == <<interrupted, killed, early, stray>>
vars == <<guiVars, transportFailed, lockVars, wdVars, mainVars, workVars,
          dogVars, procVars, tellVars, sigVars>>

NoRequest == [action |-> "none"]

Live  == {"starting", "handling"}   \* running, before / after installing Stop handlers
Owned == Live \cup {"zombie"}       \* children the helper has not reaped
ProcStates == Owned \cup {"free", "spent", "foreign"}

MainStates == {"ready", "loop", "read", "join", "stopKill", "stopArm", "stopAck", "stopNak",
               "saw", "sawKill", "sawArm", "sawJoin", "shutdown", "joinDog", "exited"}
WorkerStates == {"none", "launch", "publish", "started", "kill", "arm", "ack", "open",
                 "reading", "abort", "abortPoll", "abortKill", "abortReap", "cleanup",
                 "finish", "done"}
DogStates == {"idle", "timing", "check", "kill", "exited"}

Init ==
  /\ unsent = Runs /\ controlsLeft = MaxControls
  /\ stdin = <<>> /\ stdinOpen = TRUE /\ guiReading = TRUE /\ polite = {}
  /\ transportFailed = FALSE
  /\ activePid = NoPid /\ activeId = NoRun /\ stopReady = FALSE
  /\ waitsForOutput = FALSE /\ pendingStop = FALSE /\ workerRunning = FALSE
  /\ wdShutdown = FALSE /\ wdArmed = FALSE /\ wdPid = NoPid
  /\ mpc = "ready" /\ mreq = NoRequest /\ mpid = NoPid /\ mid = NoRun
  /\ mquit = FALSE /\ signalled = NoPid
  /\ wpc = "none" /\ wid = NoRun /\ wprog = "mapper" /\ wchild = NoPid /\ wstop = FALSE
  /\ dpc = "idle" /\ dpid = NoPid
  /\ proc = [p \in Pids |-> "free"] /\ pipe = <<>>
  /\ transcript = [r \in Runs |-> <<>>]
  /\ refused = {} /\ stopRead = {} /\ acked = {} /\ aborted = {}
  /\ interrupted = {} /\ killed = {} /\ early = {} /\ stray = FALSE

-----------------------------------------------------------------------------
(* emit: writes one event unless the transport has failed, and notices a     *)
(* closed pipe.                                                              *)

CanEmit == guiReading /\ ~transportFailed
Emit == transportFailed' = ~CanEmit

Tell(r, event) ==
  /\ Emit
  /\ transcript' = IF CanEmit THEN [transcript EXCEPT ![r] = Append(@, event)]
                              ELSE transcript

(* kill(-pid, sig) on the process group led by p.  A writer that has not     *)
(* installed its handlers dies of SIGINT; a mapper may survive it until its  *)
(* analyser child ends; a writer with handlers stops when it likes.          *)

Exists(p) == proc[p] \in Owned \cup {"foreign"}

Interrupt(p, cause) ==
  /\ proc' \in { [proc EXCEPT ![p] = s] :
                 s \in CASE proc[p] = "starting" /\ wprog = Writer -> {"zombie"}
                         [] proc[p] = "starting" /\ wprog # Writer -> {"zombie", "starting"}
                         [] OTHER -> {proc[p]} }
  /\ interrupted' = IF proc[p] \in Owned THEN interrupted \cup {wid} ELSE interrupted
  /\ early' = IF proc[p] = "starting" /\ wprog = Writer THEN early \cup {cause} ELSE early
  /\ stray' = (stray \/ proc[p] = "foreign")
  /\ UNCHANGED killed

Kill(p) ==
  /\ proc' = [proc EXCEPT ![p] = IF @ \in Live THEN "zombie" ELSE @]
  /\ killed' = IF proc[p] \in Owned THEN killed \cup {wid} ELSE killed
  /\ stray' = (stray \/ proc[p] = "foreign")
  /\ UNCHANGED <<interrupted, early>>

Reap(p) == proc' = [proc EXCEPT ![p] = IF PidReuse THEN "free" ELSE "spent"]

(* Mutant: arm_stop_watchdog does nothing. *)
ArmNothing(p) == UNCHANGED wdVars

(* arm_stop_watchdog(pid). *)
Arm(p) ==
  /\ UNCHANGED wdShutdown
  /\ IF workerRunning /\ activePid = p
       THEN wdPid' = p /\ wdArmed' = TRUE
       ELSE UNCHANGED <<wdPid, wdArmed>>

-----------------------------------------------------------------------------
(* The desktop. *)

Finished(r) == \E i \in DOMAIN transcript[r] : transcript[r][i] = "finished"

Send(request) ==
  /\ stdinOpen /\ mpc # "exited"
  /\ stdin' = Append(stdin, request)

NotGui == UNCHANGED <<transportFailed, lockVars, wdVars, mainVars, workVars, dogVars,
                      procVars, tellVars, sigVars>>

GuiRun(r) ==
  /\ r \in unsent
  /\ \E q \in RunRequests : q.id = r /\ Send(q)
  /\ unsent' = unsent \ {r}
  /\ polite' = IF \A q \in Runs \ unsent : Finished(q) THEN polite \cup {r} ELSE polite
  /\ UNCHANGED <<controlsLeft, stdinOpen, guiReading>> /\ NotGui

GuiStop ==
  /\ controlsLeft > 0 /\ controlsLeft' = controlsLeft - 1
  /\ Send([action |-> "stop"])
  /\ UNCHANGED <<unsent, stdinOpen, guiReading, polite>> /\ NotGui

GuiOther ==
  /\ controlsLeft > 0 /\ controlsLeft' = controlsLeft - 1
  /\ Send([action |-> "other"])
  /\ UNCHANGED <<unsent, stdinOpen, guiReading, polite>> /\ NotGui

(* A client's last request: nothing sent after quit is read. *)
GuiQuit ==
  /\ Send([action |-> "quit"]) /\ stdinOpen' = FALSE
  /\ UNCHANGED <<unsent, controlsLeft, guiReading, polite>> /\ NotGui

(* The desktop dies, or its transport's shutdown drops the pipes. *)
GuiCloseStdin ==
  /\ stdinOpen /\ mpc # "exited" /\ stdinOpen' = FALSE
  /\ UNCHANGED <<unsent, controlsLeft, stdin, guiReading, polite>> /\ NotGui

GuiCloseStdout ==
  /\ GuiMayDie /\ guiReading /\ mpc # "exited" /\ guiReading' = FALSE
  /\ UNCHANGED <<unsent, controlsLeft, stdin, stdinOpen, polite>> /\ NotGui

Gui == \/ \E r \in Runs : GuiRun(r)
       \/ GuiStop \/ GuiOther \/ GuiQuit \/ GuiCloseStdin \/ GuiCloseStdout

-----------------------------------------------------------------------------
(* Main thread: Helper::run and the request handlers. *)

Read(action) ==
  /\ mpc = "read" /\ stdin # <<>> /\ Head(stdin).action = action
  /\ stdin' = Tail(stdin)
  /\ UNCHANGED <<unsent, controlsLeft, stdinOpen, guiReading, polite>>

MainReady ==
  /\ mpc = "ready" /\ Emit
  /\ mpc' = IF CanEmit THEN "loop" ELSE "shutdown"
  /\ UNCHANGED <<guiVars, lockVars, wdVars, mreq, mpid, mid, mquit, signalled, workVars,
                 dogVars, procVars, tellVars, sigVars>>

MainLoop ==
  /\ mpc = "loop"
  /\ mpc' = IF transportFailed THEN "saw" ELSE "read"
  /\ UNCHANGED <<guiVars, transportFailed, lockVars, wdVars, mreq, mpid, mid, mquit,
                 signalled, workVars, dogVars, procVars, tellVars, sigVars>>

MainEof ==
  /\ mpc = "read" /\ stdin = <<>> /\ ~stdinOpen
  /\ mpc' = "saw"
  /\ UNCHANGED <<guiVars, transportFailed, lockVars, wdVars, mreq, mpid, mid, mquit,
                 signalled, workVars, dogVars, procVars, tellVars, sigVars>>

(* ping, an unknown action, a frame that does not parse or is too large: one reply. *)
HandleOther ==
  /\ Read("other") /\ Emit /\ mpc' = "loop"
  /\ UNCHANGED <<lockVars, wdVars, mreq, mpid, mid, mquit, signalled, workVars, dogVars,
                 procVars, tellVars, sigVars>>

HandleQuit ==
  /\ Read("quit") /\ mquit' = TRUE /\ mpc' = "saw"
  /\ UNCHANGED <<transportFailed, lockVars, wdVars, mreq, mpid, mid, signalled, workVars,
                 dogVars, procVars, tellVars, sigVars>>

(* handle_run: bad argv, or an operation is active; both answer finished 127. *)
HandleRunReject ==
  /\ Read("run") /\ ~Head(stdin).argv
  /\ Tell(Head(stdin).id, "finished") /\ mpc' = "loop"
  /\ UNCHANGED <<lockVars, wdVars, mreq, mpid, mid, mquit, signalled, workVars, dogVars,
                 procVars, refused, stopRead, acked, aborted, sigVars>>

HandleRunRefuse ==
  /\ Read("run") /\ Head(stdin).argv
  /\ workerRunning \/ activePid # NoPid
  /\ Tell(Head(stdin).id, "finished") /\ mpc' = "loop"
  /\ refused' = refused \cup {Head(stdin).id}
  /\ UNCHANGED <<lockVars, wdVars, mreq, mpid, mid, mquit, signalled, workVars, dogVars,
                 procVars, stopRead, acked, aborted, sigVars>>

HandleRunIdle ==
  /\ Read("run") /\ Head(stdin).argv
  /\ ~workerRunning /\ activePid = NoPid
  /\ mreq' = Head(stdin) /\ mpc' = "join"
  /\ UNCHANGED <<transportFailed, lockVars, wdVars, mpid, mid, mquit, signalled, workVars,
                 dogVars, procVars, tellVars, sigVars>>

(* worker_.join(), the claim under the lock, and the new worker thread. *)
NoJoin == TRUE   \* mutant: the old worker thread is not joined
WorkerEnded == wpc \in {"none", "done"}

Claim(running) ==
  /\ mpc = "join" /\ mpc' = "loop" /\ mreq' = NoRequest
  /\ workerRunning' = running /\ activeId' = mreq.id
  /\ waitsForOutput' = (mreq.program = Writer) /\ pendingStop' = FALSE
  /\ UNCHANGED <<guiVars, activePid, stopReady, wdVars, mpid, mid, mquit, signalled,
                 dogVars, procVars, tellVars, sigVars>>

HandleRunAccept ==
  /\ WorkerEnded /\ Claim(TRUE)
  /\ wpc' = "launch" /\ wid' = mreq.id /\ wprog' = mreq.program
  /\ wchild' = NoPid /\ wstop' = FALSE
  /\ UNCHANGED transportFailed

(* std::thread throws: the error carries a null id and no finished follows. *)
HandleRunNoThread ==
  /\ WorkerEnded /\ Claim(FALSE)
  /\ wpc' = "none" /\ Emit
  /\ UNCHANGED <<wid, wprog, wchild, wstop>>

(* Mutants: a Stop before the spawn, or before readiness, is not queued. *)
DeferUnready == workerRunning /\ waitsForOutput /\ ~stopReady
DeferUnspawned == workerRunning /\ activePid = NoPid
Defer == workerRunning /\ (activePid = NoPid \/ (waitsForOutput /\ ~stopReady))

HandleStop ==
  /\ Read("stop")
  /\ mpid' = activePid /\ mid' = activeId
  /\ pendingStop' = (pendingStop \/ Defer)
  /\ stopRead' = IF workerRunning THEN stopRead \cup {activeId} ELSE stopRead
  /\ mpc' = CASE ~workerRunning /\ activePid = NoPid -> "stopNak"
              [] Defer -> "stopAck"
              [] OTHER -> "stopKill"
  /\ UNCHANGED <<transportFailed, activePid, activeId, stopReady, waitsForOutput,
                 workerRunning, wdVars, mreq, mquit, signalled, workVars, dogVars, procVars,
                 transcript, refused, acked, aborted, sigVars>>

(* deliver_stop on the main thread: kill and arm run outside the section that read pid. *)
StopKill ==
  /\ mpc = "stopKill"
  /\ IF Exists(mpid) THEN Interrupt(mpid, "stop") /\ mpc' = "stopArm"
                     ELSE mpc' = "stopNak" /\ UNCHANGED <<proc, sigVars>>
  /\ UNCHANGED <<guiVars, transportFailed, lockVars, wdVars, mreq, mpid, mid, mquit,
                 signalled, workVars, dogVars, pipe, tellVars>>

StopArm ==
  /\ mpc = "stopArm" /\ Arm(mpid) /\ mpc' = "stopAck"
  /\ UNCHANGED <<guiVars, transportFailed, lockVars, mreq, mpid, mid, mquit, signalled,
                 workVars, dogVars, procVars, tellVars, sigVars>>

StopAnswer ==
  /\ mpc \in {"stopAck", "stopNak"} /\ Emit /\ mpc' = "loop"
  /\ acked' = IF mpc = "stopAck" /\ CanEmit THEN acked \cup {mid} ELSE acked
  /\ mpid' = NoPid /\ mid' = NoRun
  /\ UNCHANGED <<guiVars, lockVars, wdVars, mreq, mquit, signalled, workVars, dogVars,
                 procVars, transcript, refused, stopRead, aborted, sigVars>>

(* stop_active_and_wait, on quit, end of input or a failed transport. *)
Saw ==
  /\ mpc = "saw"
  /\ \/ ~workerRunning /\ mpc' = "sawJoin" /\ UNCHANGED mpid
     \/ /\ workerRunning /\ activePid \notin {NoPid, signalled}
        /\ mpid' = activePid /\ mpc' = "sawKill"
  /\ UNCHANGED <<guiVars, transportFailed, lockVars, wdVars, mreq, mid, mquit, signalled,
                 workVars, dogVars, procVars, tellVars, sigVars>>

SawKill ==
  /\ mpc = "sawKill" /\ signalled' = mpid
  /\ IF Exists(mpid) THEN Interrupt(mpid, "quit") /\ mpc' = "sawArm"
                     ELSE mpc' = "saw" /\ UNCHANGED <<proc, sigVars>>
  /\ UNCHANGED <<guiVars, transportFailed, lockVars, wdVars, mreq, mpid, mid, mquit,
                 workVars, dogVars, pipe, tellVars>>

SawArm ==
  /\ mpc = "sawArm" /\ Arm(mpid) /\ mpc' = "saw" /\ mpid' = NoPid
  /\ UNCHANGED <<guiVars, transportFailed, lockVars, mreq, mid, mquit, signalled,
                 workVars, dogVars, procVars, tellVars, sigVars>>

SawJoin ==
  /\ mpc = "sawJoin" /\ WorkerEnded /\ mpc' = "shutdown"
  /\ IF mquit THEN Emit ELSE UNCHANGED transportFailed
  /\ UNCHANGED <<guiVars, lockVars, wdVars, mreq, mpid, mid, mquit, signalled, workVars,
                 dogVars, procVars, tellVars, sigVars>>

(* ~Helper: the worker is already idle on every path that reaches it. *)
Shutdown ==
  /\ mpc = "shutdown" /\ mpc' = "joinDog"
  /\ wdShutdown' = TRUE /\ wdArmed' = FALSE
  /\ UNCHANGED <<guiVars, transportFailed, lockVars, wdPid, mreq, mpid, mid, mquit,
                 signalled, workVars, dogVars, procVars, tellVars, sigVars>>

JoinDog ==
  /\ mpc = "joinDog" /\ dpc = "exited" /\ mpc' = "exited"
  /\ UNCHANGED <<guiVars, transportFailed, lockVars, wdVars, mreq, mpid, mid, mquit,
                 signalled, workVars, dogVars, procVars, tellVars, sigVars>>

Main == \/ MainReady \/ MainLoop \/ MainEof \/ HandleOther \/ HandleQuit
        \/ HandleRunReject \/ HandleRunRefuse \/ HandleRunIdle
        \/ HandleRunAccept \/ HandleRunNoThread
        \/ HandleStop \/ StopKill \/ StopArm \/ StopAnswer
        \/ Saw \/ SawKill \/ SawArm \/ SawJoin \/ Shutdown \/ JoinDog

-----------------------------------------------------------------------------
(* Worker thread: run_request. *)

(* Policy refusal, a missing executable, a failed pipe or posix_spawn. *)
LaunchFail ==
  /\ wpc = "launch" /\ wpc' = "cleanup" /\ Emit
  /\ aborted' = aborted \cup {wid}
  /\ UNCHANGED <<guiVars, lockVars, wdVars, mainVars, wid, wprog, wchild, wstop, dogVars,
                 procVars, transcript, refused, stopRead, acked, sigVars>>

Launch ==
  /\ wpc = "launch" /\ wpc' = "publish"
  /\ \E p \in Pids : /\ proc[p] = "free"
                     /\ proc' = [proc EXCEPT ![p] = "starting"] /\ wchild' = p
  /\ pipe' = <<>>
  /\ UNCHANGED <<guiVars, transportFailed, lockVars, wdVars, mainVars, wid, wprog, wstop,
                 dogVars, tellVars, sigVars>>

(* Mutant: pending_stop_ is cleared although the Stop still has to wait. *)
PublishForgets ==
  /\ wpc = "publish" /\ wpc' = "started"
  /\ activePid' = wchild /\ activeId' = wid /\ stopReady' = FALSE
  /\ wstop' = (pendingStop /\ ~waitsForOutput) /\ pendingStop' = FALSE
  /\ UNCHANGED <<guiVars, transportFailed, waitsForOutput, workerRunning, wdVars, mainVars,
                 wid, wprog, wchild, dogVars, procVars, tellVars, sigVars>>

Publish ==
  /\ wpc = "publish" /\ wpc' = "started"
  /\ activePid' = wchild /\ activeId' = wid /\ stopReady' = FALSE
  /\ wstop' = (pendingStop /\ ~waitsForOutput)
  /\ pendingStop' = (pendingStop /\ ~wstop')
  /\ UNCHANGED <<guiVars, transportFailed, waitsForOutput, workerRunning, wdVars, mainVars,
                 wid, wprog, wchild, dogVars, procVars, tellVars, sigVars>>

Started ==
  /\ wpc = "started" /\ Tell(wid, "started")
  /\ wpc' = IF ~CanEmit THEN "abort" ELSE IF wstop THEN "kill" ELSE "open"
  /\ UNCHANGED <<guiVars, lockVars, wdVars, mainVars, wid, wprog, wchild, wstop, dogVars,
                 procVars, refused, stopRead, acked, aborted, sigVars>>

(* deliver_stop on the worker thread, for a Stop queued before it could be sent. *)
QueuedKill ==
  /\ wpc = "kill" /\ wpc' = "arm" /\ Interrupt(wchild, "stop")
  /\ UNCHANGED <<guiVars, transportFailed, lockVars, wdVars, mainVars, wid, wprog, wchild,
                 wstop, dogVars, pipe, tellVars>>

QueuedArm ==
  /\ wpc = "arm" /\ Arm(wchild) /\ wpc' = "ack"
  /\ UNCHANGED <<guiVars, transportFailed, lockVars, mainVars, wid, wprog, wchild, wstop,
                 dogVars, procVars, tellVars, sigVars>>

QueuedAnswer ==
  /\ wpc = "ack" /\ Emit
  /\ acked' = IF CanEmit THEN acked \cup {wid} ELSE acked
  /\ wpc' = (IF wstop THEN "open" ELSE "reading") /\ wstop' = FALSE
  /\ UNCHANGED <<guiVars, lockVars, wdVars, mainVars, wid, wprog, wchild, dogVars,
                 procVars, transcript, refused, stopRead, aborted, sigVars>>

(* fdopen may fail, and the supervision gives up. *)
Open ==
  /\ wpc = "open" /\ wpc' \in {"reading", "abort"}
  /\ UNCHANGED <<guiVars, transportFailed, lockVars, wdVars, mainVars, wid, wprog, wchild,
                 wstop, dogVars, procVars, tellVars, sigVars>>

(* Mutants: readiness delivers a Stop nobody sent, or drops the queued one. *)
ReadReadyTo(state) ==
  /\ wpc = "reading" /\ pipe # <<>> /\ Head(pipe) = "ready" /\ pipe' = Tail(pipe)
  /\ stopReady' = TRUE /\ pendingStop' = FALSE /\ wpc' = state
  /\ UNCHANGED <<guiVars, transportFailed, activePid, activeId, waitsForOutput,
                 workerRunning, wdVars, mainVars, wid, wprog, wchild, wstop, dogVars, proc,
                 tellVars, sigVars>>
ReadReadyKills == ReadReadyTo("kill")
ReadReadyDrops == ReadReadyTo("reading")

ReadReady ==
  /\ wpc = "reading" /\ pipe # <<>> /\ Head(pipe) = "ready" /\ pipe' = Tail(pipe)
  /\ IF stopReady
       THEN UNCHANGED <<stopReady, pendingStop, wpc>>
       ELSE /\ stopReady' = TRUE /\ pendingStop' = FALSE
            /\ wpc' = IF pendingStop THEN "kill" ELSE "reading"
  /\ UNCHANGED <<guiVars, transportFailed, activePid, activeId, waitsForOutput,
                 workerRunning, wdVars, mainVars, wid, wprog, wchild, wstop, dogVars, proc,
                 tellVars, sigVars>>

(* Output is emitted; a progress line may be throttled away. *)
ReadLine ==
  /\ wpc = "reading" /\ pipe # <<>> /\ Head(pipe) = "line" /\ pipe' = Tail(pipe)
  /\ \/ Emit /\ wpc' = IF CanEmit THEN "reading" ELSE "abort"
     \/ UNCHANGED <<transportFailed, wpc>>
  /\ UNCHANGED <<guiVars, lockVars, wdVars, mainVars, wid, wprog, wchild, wstop, dogVars,
                 proc, tellVars, sigVars>>

ReadEof ==
  /\ wpc = "reading" /\ pipe = <<>> /\ proc[wchild] = "zombie"
  /\ Reap(wchild) /\ wpc' = "cleanup"
  /\ UNCHANGED <<guiVars, transportFailed, lockVars, wdVars, mainVars, wid, wprog, wchild,
                 wstop, dogVars, pipe, tellVars, sigVars>>

(* The exception path: stop_and_reap, then the error event. *)
Abort ==
  /\ wpc = "abort" /\ wpc' = "abortPoll" /\ Interrupt(wchild, "abort")
  /\ aborted' = aborted \cup {wid}
  /\ UNCHANGED <<guiVars, transportFailed, lockVars, wdVars, mainVars, wid, wprog, wchild,
                 wstop, dogVars, pipe, transcript, refused, stopRead, acked>>

(* Mutant: stop_and_reap gives up after the grace period. *)
AbortForgets ==
  /\ wpc = "abortPoll" /\ wpc' = "cleanup"
  /\ UNCHANGED <<guiVars, transportFailed, lockVars, wdVars, mainVars, wid, wprog, wchild,
                 wstop, dogVars, procVars, tellVars, sigVars>>

AbortTimeout ==
  /\ wpc = "abortPoll" /\ wpc' = "abortKill"
  /\ UNCHANGED <<guiVars, transportFailed, lockVars, wdVars, mainVars, wid, wprog, wchild,
                 wstop, dogVars, procVars, tellVars, sigVars>>

AbortKill ==
  /\ wpc = "abortKill" /\ wpc' = "abortReap" /\ Kill(wchild)
  /\ UNCHANGED <<guiVars, transportFailed, lockVars, wdVars, mainVars, wid, wprog, wchild,
                 wstop, dogVars, pipe, tellVars>>

AbortReap ==
  /\ wpc \in {"abortPoll", "abortReap"} /\ proc[wchild] = "zombie"
  /\ Reap(wchild) /\ pipe' = <<>> /\ Emit /\ wpc' = "cleanup"
  /\ UNCHANGED <<guiVars, lockVars, wdVars, mainVars, wid, wprog, wchild, wstop, dogVars,
                 tellVars, sigVars>>

(* Mutant: worker_running_ outlives the operation. *)
CleanupStaysBusy ==
  /\ wpc = "cleanup" /\ wpc' = "finish"
  /\ activePid' = NoPid /\ activeId' = NoRun /\ stopReady' = FALSE
  /\ waitsForOutput' = FALSE /\ pendingStop' = FALSE
  /\ UNCHANGED <<guiVars, transportFailed, workerRunning, wdVars, mainVars, wid, wprog,
                 wchild, wstop, dogVars, procVars, tellVars, sigVars>>

(* Publish idle, then tell the desktop. *)
Cleanup ==
  /\ wpc = "cleanup" /\ wpc' = "finish"
  /\ activePid' = NoPid /\ activeId' = NoRun /\ stopReady' = FALSE
  /\ waitsForOutput' = FALSE /\ pendingStop' = FALSE /\ workerRunning' = FALSE
  /\ IF wdPid = wchild THEN wdArmed' = FALSE /\ wdPid' = NoPid
                       ELSE UNCHANGED <<wdArmed, wdPid>>
  /\ UNCHANGED <<guiVars, transportFailed, wdShutdown, mainVars, wid, wprog, wchild, wstop,
                 dogVars, procVars, tellVars, sigVars>>

Finish ==
  /\ wpc = "finish" /\ wpc' = "done" /\ Tell(wid, "finished")
  /\ wid' = NoRun /\ wprog' = "mapper" /\ wchild' = NoPid /\ wstop' = FALSE
  /\ UNCHANGED <<guiVars, lockVars, wdVars, mainVars, dogVars, procVars, refused,
                 stopRead, acked, aborted, sigVars>>

Worker == \/ LaunchFail \/ Launch \/ Publish \/ Started
          \/ QueuedKill \/ QueuedArm \/ QueuedAnswer
          \/ Open \/ ReadReady \/ ReadLine \/ ReadEof
          \/ Abort \/ AbortTimeout \/ AbortKill \/ AbortReap
          \/ Cleanup \/ Finish

-----------------------------------------------------------------------------
(* Watchdog thread: stop_watchdog_loop. *)

Changed == ~wdArmed \/ wdPid # dpid \/ ~workerRunning \/ activePid # dpid

DogArmed ==
  /\ dpc = "idle" /\ ~wdShutdown /\ wdArmed
  /\ dpid' = wdPid /\ dpc' = "timing"
  /\ UNCHANGED <<guiVars, transportFailed, lockVars, wdVars, mainVars, workVars, procVars,
                 tellVars, sigVars>>

DogChanged ==
  /\ dpc = "timing" /\ ~wdShutdown /\ Changed
  /\ dpc' = "idle" /\ dpid' = NoPid
  /\ UNCHANGED <<guiVars, transportFailed, lockVars, wdVars, mainVars, workVars, procVars,
                 tellVars, sigVars>>

DogTimeout ==
  /\ dpc = "timing" /\ ~wdShutdown /\ ~Changed
  /\ wdArmed' = FALSE /\ dpc' = "check"
  /\ UNCHANGED <<guiVars, transportFailed, lockVars, wdShutdown, wdPid, mainVars, workVars,
                 dpid, procVars, tellVars, sigVars>>

(* Mutant: the watchdog never finds its child running. *)
DogCheckBlind ==
  /\ dpc = "check" /\ dpc' = "idle" /\ dpid' = NoPid
  /\ UNCHANGED <<guiVars, transportFailed, lockVars, wdVars, mainVars, workVars, procVars,
                 tellVars, sigVars>>

(* owned_child_is_running: waitid sees only the helper's own children. *)
DogCheck ==
  /\ dpc = "check"
  /\ IF proc[dpid] \in Live THEN dpc' = "kill" /\ UNCHANGED dpid
                            ELSE dpc' = "idle" /\ dpid' = NoPid
  /\ UNCHANGED <<guiVars, transportFailed, lockVars, wdVars, mainVars, workVars, procVars,
                 tellVars, sigVars>>

DogKill ==
  /\ dpc = "kill" /\ dpc' = "idle" /\ dpid' = NoPid
  /\ IF Exists(dpid) THEN Kill(dpid) ELSE UNCHANGED <<proc, sigVars>>
  /\ UNCHANGED <<guiVars, transportFailed, lockVars, wdVars, mainVars, workVars, pipe,
                 tellVars>>

DogExit ==
  /\ dpc \in {"idle", "timing"} /\ wdShutdown /\ dpc' = "exited"
  /\ UNCHANGED <<guiVars, transportFailed, lockVars, wdVars, mainVars, workVars, dpid,
                 procVars, tellVars, sigVars>>

Watchdog == DogArmed \/ DogChanged \/ DogTimeout \/ DogCheck \/ DogKill \/ DogExit

-----------------------------------------------------------------------------
(* The child process and the kernel. *)

NotProc == UNCHANGED <<guiVars, transportFailed, lockVars, wdVars, mainVars, workVars,
                       dogVars, tellVars, sigVars>>

(* A writer installs its Stop handlers, then prints LD_STOP_READY_MARKER. *)
ChildReady(p) ==
  /\ proc[p] = "starting" /\ wprog = Writer /\ Len(pipe) < PipeCap
  /\ proc' = [proc EXCEPT ![p] = "handling"] /\ pipe' = Append(pipe, "ready")
  /\ NotProc

ChildOutput(p) ==
  /\ proc[p] \in Live /\ Len(pipe) < PipeCap
  /\ pipe' = Append(pipe, "line") /\ UNCHANGED proc
  /\ NotProc

ChildExit(p) ==
  /\ proc[p] \in Live
  /\ proc' = [proc EXCEPT ![p] = "zombie"] /\ UNCHANGED pipe
  /\ NotProc

(* An unrelated process group takes, then gives up, a free pid.  Only a pid a   *)
(* thread of the helper still remembers makes a difference.                     *)
Foreign(p) ==
  /\ PidReuse /\ UNCHANGED pipe
  /\ \/ /\ proc[p] = "free" /\ p \in {activePid, mpid, dpid}
        /\ proc' = [proc EXCEPT ![p] = "foreign"]
     \/ proc[p] = "foreign" /\ proc' = [proc EXCEPT ![p] = "free"]
  /\ NotProc

System == \E p \in Pids : ChildReady(p) \/ ChildOutput(p) \/ ChildExit(p) \/ Foreign(p)

(* The helper has exited; nothing of it is left to run. *)
Terminated == mpc = "exited" /\ UNCHANGED vars

Next == Gui \/ Main \/ Worker \/ Watchdog \/ System \/ Terminated

Spec == Init /\ [][Next]_vars

(* The scheduler runs every thread that can run.  Nothing is assumed of the   *)
(* child: it may ignore SIGINT and never exit.                                *)
FairSpec == Spec /\ WF_vars(Main) /\ WF_vars(Worker) /\ WF_vars(Watchdog)

-----------------------------------------------------------------------------
(* Properties. *)

TypeFlags ==
  /\ stdinOpen \in BOOLEAN /\ guiReading \in BOOLEAN /\ transportFailed \in BOOLEAN
  /\ stopReady \in BOOLEAN /\ waitsForOutput \in BOOLEAN
  /\ pendingStop \in BOOLEAN /\ workerRunning \in BOOLEAN
  /\ wdShutdown \in BOOLEAN /\ wdArmed \in BOOLEAN
  /\ mquit \in BOOLEAN /\ wstop \in BOOLEAN /\ stray \in BOOLEAN

TypeRequests ==
  /\ unsent \subseteq Runs /\ controlsLeft \in Nat
  /\ stdin \in Seq(Requests)
  /\ mreq \in RunRequests \cup {NoRequest}
  /\ mpc = "join" => mreq \in RunRequests

TypeThreads ==
  /\ activePid \in Pids \cup {NoPid} /\ activeId \in Runs \cup {NoRun}
  /\ wdPid \in Pids \cup {NoPid}
  /\ mpc \in MainStates /\ mpid \in Pids \cup {NoPid} /\ mid \in Runs \cup {NoRun}
  /\ signalled \in Pids \cup {NoPid}
  /\ mpc \in {"stopKill", "sawKill"} => mpid \in Pids
  /\ wpc \in WorkerStates /\ wid \in Runs \cup {NoRun} /\ wprog \in Programs
  /\ wchild \in Pids \cup {NoPid}
  /\ dpc \in DogStates /\ dpid \in Pids \cup {NoPid}

TypeOutside ==
  /\ proc \in [Pids -> ProcStates] /\ pipe \in Seq({"ready", "line"})
  /\ transcript \in [Runs -> Seq({"started", "finished"})]
  /\ refused \subseteq Runs /\ polite \subseteq Runs
  /\ stopRead \cup acked \cup aborted \subseteq Runs \cup {NoRun}
  /\ interrupted \cup killed \subseteq Runs \cup {NoRun}
  /\ early \subseteq {"stop", "quit", "abort"}

(* Every variable stays within the values its declaration allows, and no      *)
(* thread is about to signal the process group of active_pid_ == -1, which    *)
(* would be kill(1, SIGINT): handle_stop queues a Stop that finds no pid.     *)
TypeOK == TypeFlags /\ TypeRequests /\ TypeThreads /\ TypeOutside

Protocol == INSTANCE OperationProtocol WITH Runs <- Runs, transcript <- transcript

(* The events the desktop is sent follow OperationProtocol, whatever the      *)
(* three threads do: run_request of one run never overlaps that of the next   *)
(* (worker_.join in handle_run), and nobody but it closes an open run.        *)
ImplementsProtocol == Protocol!Spec

(* Idle is published before finished (run_request's last section), so a run   *)
(* the desktop sends on receipt of finished is never "already active".        *)
FollowOnAccepted == refused \cap polite = {}

(* When the helper says idle it owns no process, not even a zombie: the child *)
(* is reaped on the normal and on the exception path before idle is published.*)
IdleOwnsNoChild == ~workerRunning => \A p \in Pids : proc[p] \notin Owned

(* A Stop request never signals a writer that has not announced its handlers; *)
(* handle_stop queues it and run_request delivers it at the ready marker.     *)
WriterStopSafe == "stop" \notin early

(* A Stop answered delivered:true is not forgotten: its run was signalled, or *)
(* the Stop is still pending for it, or is being delivered, or the run's      *)
(* supervision is already past its child.                                     *)
StopNotLost ==
  \A r \in acked :
    \/ r \in interrupted \cup aborted
    \/ pendingStop /\ activeId = r
    \/ wstop \/ wpc \in {"kill", "abort", "cleanup", "finish"}
    \/ wid # r

Leaving == mpc \in {"saw", "sawKill", "sawArm", "sawJoin", "shutdown", "joinDog", "exited"}

(* With fresh pids: an operation is interrupted only by a Stop read while it  *)
(* was active, by its own supervision giving up, or by a leaving helper; and  *)
(* SIGKILL (watchdog or stop_and_reap) only ever follows a SIGINT to it.      *)
SignalsJustified ==
  /\ Leaving \/ interrupted \subseteq stopRead \cup aborted
  /\ killed \subseteq interrupted

(* owned_child_is_running: "Never signal a numeric PID after ownership has    *)
(* been lost: it may already have been reused by an unrelated process."       *)
NoStraySignal == ~stray

(* An interrupted operation ends even if its child ignores SIGINT: whoever    *)
(* interrupted it has a SIGKILL coming (watchdog, or stop_and_reap).          *)
InterruptedEnds == \A r \in Runs : r \in interrupted ~> wid # r

(* Once its control pipe is closed the helper exits, whatever it was doing    *)
(* and whatever its child does.                                               *)
HelperLeaves == ~stdinOpen ~> mpc = "exited"

(* Run r is a writer that has not installed its Stop handlers. *)
WriterStarting(r) == wid = r /\ wprog = Writer /\ \E p \in Pids : proc[p] = "starting"

(* A Stop answered delivered:true ends its operation, queued or not, unless   *)
(* that is a writer that hangs for ever before it installs its Stop handlers, *)
(* where handle_stop leaves the Stop queued.  A mapper or udisksctl is        *)
(* signalled at once and has no such excuse.                                  *)
AckedStopEnds == \A r \in Runs : r \in acked ~> (wid # r \/ []WriterStarting(r))

-----------------------------------------------------------------------------
(* The inductive invariant behind the theorems. *)

HasChild == {"publish", "started", "kill", "arm", "ack", "open", "reading",
             "abort", "abortPoll", "abortKill", "abortReap"}
Supervising == HasChild \cup {"launch", "cleanup"}

(* worker_running_ is true exactly while run_request supervises. *)
RunningInv == workerRunning <=> wpc \in Supervising

(* The processes the helper owns are exactly the child of the run supervised. *)
ChildInv ==
  /\ wpc \in HasChild => wchild \in Pids /\ proc[wchild] \in Owned
  /\ \A p \in Pids : proc[p] \in Owned => wpc \in HasChild /\ p = wchild

Queued(i, r) == i \in 1 .. Len(stdin) /\ stdin[i].action = "run" /\ stdin[i].id = r

(* A run is unsent, queued, being handled or supervised, and in one place. *)
PlaceInv ==
  /\ wpc \in Supervising \cup {"finish"} <=> wid \in Runs
  /\ \A r \in unsent :
       /\ wid # r
       /\ mpc = "join" => mreq.id # r
       /\ \A i \in 1 .. Len(stdin) : ~Queued(i, r)
  /\ \A i \in 1 .. Len(stdin), r \in Runs :
       Queued(i, r) => /\ wid # r
                       /\ mpc = "join" => mreq.id # r
                       /\ \A j \in 1 .. Len(stdin) : Queued(j, r) => j = i
  /\ mpc = "join" => wid # mreq.id

(* What the desktop has been told of a run, by the place the run is in. *)
ToldInv ==
  /\ \A r \in unsent : transcript[r] = <<>>
  /\ \A i \in 1 .. Len(stdin), r \in Runs : Queued(i, r) => transcript[r] = <<>>
  /\ mpc = "join" => transcript[mreq.id] = <<>>
  /\ wpc \in {"launch", "publish", "started"} => transcript[wid] = <<>>
  /\ wid \in Runs => transcript[wid] \in {<<>>, <<"started">>}

(* While events still reach the desktop, an open run is the one supervised. *)
OpenInv == \A r \in Runs : transcript[r] = <<"started">> => wid = r \/ ~CanEmit

(* active_pid_ is published after the spawn and cleared after the child is reaped. *)
Published == Supervising \ {"launch", "publish"}
ActiveInv == activePid # NoPid => wpc \in Published /\ activePid = wchild

(* active_waits_for_output_ says what kind of program is supervised. *)
WaitsInv == wpc \in Supervising => (waitsForOutput <=> wprog = Writer)

(* The ready marker, in the pipe or already read, means handlers are installed. *)
ReadyInv ==
  /\ stopReady => wpc \in Published
  /\ stopReady /\ wpc \in HasChild => proc[wchild] # "starting"
MarkerInv ==
  \A i \in 1 .. Len(pipe) : pipe[i] = "ready" /\ wpc \in HasChild => proc[wchild] # "starting"

(* A Stop about to be delivered goes to a mapper or to a ready writer. *)
QueuedStopInv == /\ wstop => wprog # Writer
                 /\ wpc = "kill" => wstop \/ stopReady
StopTargetInv ==
  mpc = "stopKill" => /\ mpid \in Pids /\ wpc \notin {"launch", "publish"}
                      /\ wprog = Writer => proc[mpid] # "starting"

(* A run sent politely waits behind nothing but finished runs. *)
PoliteInv ==
  /\ refused \cup polite \subseteq Runs \ unsent
  /\ \A i \in 1 .. Len(stdin), r \in polite : Queued(i, r) =>
       \A q \in Runs \ unsent :
         q = r \/ Finished(q) \/ \E j \in 1 .. Len(stdin) : j > i /\ Queued(j, q)

Supervision ==
  /\ RunningInv /\ ChildInv /\ PlaceInv /\ ToldInv /\ OpenInv
  /\ ActiveInv /\ WaitsInv /\ ReadyInv /\ MarkerInv /\ QueuedStopInv /\ StopTargetInv
  /\ PoliteInv
=============================================================================
