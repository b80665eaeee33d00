--------------------------- MODULE DesktopSession ---------------------------
(***************************************************************************)
(* The session logic of native/desktop.cpp: the user's actions, the        *)
(* callbacks of lsblk, the image probe, the local analysis and the helper  *)
(* transport, and the modal dialogs.                                       *)
(*                                                                         *)
(* Everything runs on GTK's main thread.  A callback runs to its end       *)
(* except where it opens a dialog: gtk_dialog_run serves other callbacks   *)
(* until the dialog is answered, then the suspended handler resumes.  The  *)
(* stack of dialogs is therefore the stack of suspended handlers.  Calls   *)
(* between handlers (start, submit, completed ...) are steps of their own, *)
(* taken before anything else of the desktop runs.                         *)
(*                                                                         *)
(* The helper is the one PrivilegedHelper models, reduced to what the      *)
(* desktop sees of it.                                                     *)
(***************************************************************************)
EXTENDS Integers, Sequences

CONSTANTS
  Disks,        \* paths lsblk can report
  Images,       \* image files the user can open
  None,
  MaxRequests   \* bound: request ids used before the user stops asking

ASSUME PathsAssumption == Disks \cap Images = {} /\ None \notin Disks \cup Images
ASSUME RequestsAssumption == MaxRequests \in Nat

Paths == Disks \cup Images
Mutations == {"defrag", "recover"}      \* growth-defrag is admitted like defrag
Jobs == [purpose : Mutations \cup {"analysis", "unmount"}, target : Paths]
Job(p, t) == [purpose |-> p, target |-> t]

VARIABLES
  \* The operation.
  busy, stopping,       \* busy_, stopping_
  job,                  \* purpose_ and the target in pending_args_
  result,               \* result_status_
  activeId, requestId,  \* active_id_, request_id_
  closing, closed,      \* closing_, the window is destroyed
  \* The helper transport and the helper at its other end.
  helperReady, transport, toHelper, fromHelper,
  hrun,                 \* the run it is supervising
  hfin,                 \* the finished event it has still to emit
  hstop,                \* its run was sent a Stop
  \* The local analysis.
  local,                \* the path it reads, None when inactive
  localSig, stopTimer,
  \* The volumes.
  volumes, sel, mounted,
  exact,                \* exact_analysis, and whose analysis set it
  discovering, probing, selTimer,
  wanted,               \* refresh_selected_path_, while lsblk runs
  \* Control.
  pc, call, code, ran,  \* the call being made and its arguments
  inRead,               \* it was made while handling a line of the helper
  dialogs,              \* open dialogs, innermost first
  \* History.
  cancelled             \* Stop was pressed before the operation was sent

opVars     == <<busy, stopping, job, result, activeId, requestId>>
closeVars  == <<closing, closed>>
pipeVars   == <<helperReady, transport, toHelper, fromHelper>>
helperVars == <<hrun, hfin, hstop>>
localVars  == <<local, localSig, stopTimer>>
volVars    == <<volumes, sel, mounted, exact, discovering, probing, wanted, selTimer>>
callVars   == <<pc, call, code, ran, inRead>>
vars == <<opVars, closeVars, pipeVars, helperVars, localVars, volVars, callVars, dialogs,
          cancelled>>

Init ==
  /\ busy = FALSE /\ stopping = FALSE /\ job = None /\ result = "none"
  /\ activeId = 0 /\ requestId = 0 /\ closing = FALSE /\ closed = FALSE
  /\ helperReady = FALSE /\ transport = "none" /\ toHelper = <<>> /\ fromHelper = <<>>
  /\ hrun = None /\ hfin = None /\ hstop = FALSE
  /\ local = None /\ localSig = "none" /\ stopTimer = FALSE
  /\ volumes = {} /\ sel = None /\ mounted = {} /\ exact = [p \in Paths |-> "no"]
  /\ discovering = TRUE /\ probing = FALSE /\ wanted = None /\ selTimer = FALSE
  /\ pc = "loop" /\ call = None /\ code = 0 /\ ran = None /\ inRead = FALSE
  /\ dialogs = <<>>
  /\ cancelled = FALSE

-----------------------------------------------------------------------------
(* The main loop and its dialogs. *)

(* Destroying the window quits gtk_main only.  A dialog that is open then keeps its own   *)
(* loop, which serves every callback until it is answered; when the last handler has      *)
(* returned, main does.  What a callback makes of the destroyed widgets is undefined: it  *)
(* goes on, or the process ends (Terminated).                                             *)
Alive == ~closed \/ dialogs # <<>> \/ pc # "loop"
Serving == pc = "loop" /\ Alive          \* a callback may run
AtWindow == Serving /\ dialogs = <<>>    \* the user can reach the window

(* "reader": the handler suspended by it was called with a line of the helper. *)
Dialog(kind) == [kind |-> kind, job |-> None, fresh |-> TRUE, reader |-> inRead]
Push(d) == dialogs' = <<d>> \o dialogs
Top(kind) == Serving /\ dialogs # <<>> /\ Head(dialogs).kind = kind
Pop == dialogs' = Tail(dialogs)
Open(kind) == \E i \in DOMAIN dialogs : dialogs[i].kind = kind

Goto(where) == pc' = where /\ inRead' = (inRead /\ where # "loop")
Call(where) == Goto(where) /\ call' = None /\ UNCHANGED <<code, ran>>
Complete(c, r) == pc' = "completed" /\ code' = c /\ ran' = r /\ call' = None

(* Mutant: the window is left open. *)
NeverFinishClose(other) == UNCHANGED closeVars

(* maybe_finish_close, at the end of discovery or of the probe: "other" is the other one. *)
MaybeFinishClose(other) ==
  /\ closed' = (closed \/ (closing /\ ~busy /\ ~other))
  /\ UNCHANGED closing

-----------------------------------------------------------------------------
(* action, start, submit, start_helper *)

(* action("analyse"): the old analysis no longer counts. *)
Analyse ==
  /\ sel # None /\ ~busy
  /\ exact' = [exact EXCEPT ![sel] = "no"]
  /\ Goto("start") /\ call' = Job("analysis", sel)
  /\ UNCHANGED <<code, ran>>

PressAnalyse ==
  /\ AtWindow /\ requestId < MaxRequests /\ Analyse
  /\ UNCHANGED <<opVars, closeVars, pipeVars, helperVars, localVars, volumes, sel, mounted,
                 discovering, probing, wanted, selTimer, dialogs, cancelled>>

(* desktop_mutation refuses, or the user is asked to confirm; the volume is *)
(* looked up again after the dialog only by unmount.                        *)
Admitted(p) ==
  IF p = "unmount" THEN sel \in mounted
  ELSE sel \notin mounted /\ (p = "defrag" => exact[sel] # "no")

PressMutation(p) ==
  /\ AtWindow /\ requestId < MaxRequests /\ sel # None /\ ~busy
  /\ \/ /\ Admitted(p)
        /\ Push([Dialog("confirm") EXCEPT !.job = Job(p, sel)])
     \/ /\ p \in Mutations      \* not qualified, or the journal forbids it
        /\ Push(Dialog("note"))
  /\ UNCHANGED <<opVars, closeVars, pipeVars, helperVars, localVars, volVars, callVars,
                 cancelled>>

Confirm(accept) ==
  /\ Top("confirm") /\ Pop
  /\ IF accept
       THEN /\ Goto("start")
            /\ LET d == Head(dialogs)
               IN \* unmount reads v->path again, through a pointer that may dangle
                  call' \in { Job(d.job.purpose, t) : t \in
                              IF d.job.purpose = "unmount" /\ ~d.fresh THEN Paths
                                                                      ELSE {d.job.target} }
       ELSE UNCHANGED <<pc, inRead, call>>
  /\ UNCHANGED <<opVars, closeVars, pipeVars, helperVars, localVars, volVars, code, ran,
                 cancelled>>

(* The executable was replaced under the running desktop. *)
StartRefused ==
  /\ pc = "start" /\ Push(Dialog("note")) /\ Goto("loop") /\ call' = None
  /\ UNCHANGED <<opVars, closeVars, pipeVars, helperVars, localVars, volVars, code, ran,
                 cancelled>>

(* An analysis of a path the user can read runs locally. *)
Start ==
  /\ pc = "start"
  /\ busy' = TRUE /\ stopping' = FALSE /\ result' = "none" /\ job' = call
  /\ cancelled' = FALSE
  /\ \/ /\ call.purpose = "analysis" /\ sel # None
        /\ \/ local = None /\ local' = call.target /\ localSig' = "none" /\ Call("loop")
           \/ UNCHANGED <<local, localSig, inRead>> /\ Complete(127, None)
     \/ Call(IF helperReady THEN "submit" ELSE "startHelper") /\ UNCHANGED <<local, localSig>>
  /\ UNCHANGED <<activeId, requestId, closeVars, pipeVars, helperVars, stopTimer, volVars,
                 dialogs>>

SubmitIdle ==
  /\ pc = "submit" /\ (~busy \/ ~helperReady \/ activeId # 0 \/ local # None)
  /\ Call("loop")
  /\ UNCHANGED <<opVars, closeVars, pipeVars, helperVars, localVars, volVars, dialogs,
                 cancelled>>

SubmitCancelled ==
  /\ pc = "submit" /\ busy /\ helperReady /\ activeId = 0 /\ local = None /\ stopping
  /\ result' = "stopped" /\ Complete(0, None) /\ UNCHANGED inRead
  /\ UNCHANGED <<busy, stopping, job, activeId, requestId, closeVars, pipeVars, helperVars,
                 localVars, volVars, dialogs, cancelled>>

(* The request is written, or the write fails. *)
Send(queue) ==
  /\ requestId' = requestId + 1 /\ activeId' = requestId'
  /\ IF transport = "up" THEN toHelper' = queue /\ Call("loop")
                         ELSE Complete(127, None) /\ UNCHANGED <<inRead, toHelper>>
  /\ UNCHANGED <<busy, stopping, job, result, closeVars, helperReady, transport, fromHelper,
                 helperVars, localVars, volVars, dialogs, cancelled>>

Run == [action |-> "run", id |-> requestId + 1, job |-> job]

(* Mutants of Submit: an operation under way, or a Stop, is not looked at; the run is     *)
(* written ahead of what is already waiting.                                              *)
SubmitOverlapping ==
  pc = "submit" /\ busy /\ helperReady /\ ~stopping /\ Send(Append(toHelper, Run))
SubmitStopped ==
  pc = "submit" /\ busy /\ helperReady /\ activeId = 0 /\ local = None
  /\ Send(Append(toHelper, Run))
SubmitAhead ==
  pc = "submit" /\ busy /\ helperReady /\ activeId = 0 /\ local = None /\ ~stopping
  /\ Send(<<Run>> \o toHelper)

Submit ==
  /\ pc = "submit" /\ busy /\ helperReady /\ activeId = 0 /\ local = None /\ ~stopping
  /\ Send(Append(toHelper, Run))

StartHelper ==
  /\ pc = "startHelper"
  /\ IF transport # "none" \/ helperReady
       THEN Call("loop") /\ UNCHANGED transport
       ELSE \/ transport' = "auth" /\ Call("loop")
            \/ Complete(127, None) /\ UNCHANGED <<inRead, transport>>
  /\ UNCHANGED <<opVars, closeVars, helperReady, toHelper, fromHelper, helperVars, localVars,
                 volVars, dialogs, cancelled>>

-----------------------------------------------------------------------------
(* completed *)

(* present_map stores what the analysis established on the volume selected now. *)
Presented(isExact) ==
  IF sel = None THEN exact
  ELSE [exact EXCEPT ![sel] = IF ~isExact THEN "no"
                              ELSE IF ran.target = sel THEN "own" ELSE "foreign"]

Completed ==
  /\ pc = "completed"
  /\ \E mapOk, isExact, lsblk \in BOOLEAN :
       LET outcome   == IF job.purpose = "analysis" /\ stopping /\ code # 0
                          THEN "stopped" ELSE result
           presents  == code = 0 /\ job.purpose = "analysis" /\ ran # None /\ mapOk
           failed    == code # 0 \/ (job.purpose = "analysis" /\ ~presents)
           success   == ~failed /\ outcome \notin {"failed", "stopped"}
           refreshes == code = 0 /\ job.purpose = "unmount" /\ ~discovering /\ ~probing
           again     == /\ ~closing /\ (activeId # 0 \/ local # None)
                        /\ success \/ outcome = "stopped"
                        /\ job.purpose \in Mutations /\ sel # None
       IN
       /\ result' = outcome /\ busy' = FALSE /\ stopping' = FALSE /\ activeId' = 0
       /\ IF refreshes /\ lsblk THEN discovering' = TRUE /\ wanted' = sel
                                ELSE UNCHANGED <<discovering, wanted>>
       /\ IF again THEN /\ exact' = [exact EXCEPT ![sel] = "no"]
                        /\ Goto("start") /\ call' = Job("analysis", sel)
                   ELSE /\ exact' = IF presents THEN Presented(isExact) ELSE exact
                        /\ Goto("loop") /\ UNCHANGED call
       /\ IF (failed /\ outcome # "stopped") \/ (refreshes /\ ~lsblk)
            THEN Push(Dialog("completed")) /\ UNCHANGED closed
            ELSE UNCHANGED dialogs /\ closed' = (closed \/ closing)
  /\ code' = 0 /\ ran' = None
  /\ UNCHANGED <<job, requestId, closing, pipeVars, helperVars, localVars, volumes, sel,
                 mounted, probing, selTimer, cancelled>>

(* The rest of completed, after its error dialog. *)
CompletedTail ==
  /\ Top("completed") /\ Pop
  /\ closed' = (closed \/ (closing /\ ~busy))
  /\ UNCHANGED <<opVars, closing, pipeVars, helperVars, localVars, volVars, callVars, cancelled>>

DismissNote ==
  /\ Top("note") /\ Pop
  /\ UNCHANGED <<opVars, closeVars, pipeVars, helperVars, localVars, volVars, callVars,
                 cancelled>>

-----------------------------------------------------------------------------
(* Stop and close *)

(* Mutant: the request is not written when the helper has the run. *)
RequestStopSilent ==
  IF ~busy \/ stopping
    THEN UNCHANGED <<stopping, requestId, toHelper, localSig, stopTimer, callVars, dialogs,
                     cancelled>>
    ELSE /\ stopping' = TRUE /\ (local # None => localSig' = "int" /\ stopTimer' = TRUE)
         /\ (local = None => UNCHANGED <<localSig, stopTimer>>)
         /\ UNCHANGED <<requestId, toHelper, callVars, dialogs, cancelled>>

(* request_stop *)
RequestStop ==
  IF ~busy \/ stopping
    THEN UNCHANGED <<stopping, requestId, toHelper, localSig, stopTimer, callVars, dialogs,
                     cancelled>>
    ELSE \/ /\ local # None
            /\ stopping' = TRUE /\ localSig' = "int" /\ stopTimer' = TRUE
            /\ UNCHANGED <<requestId, toHelper, callVars, dialogs, cancelled>>
         \/ /\ local = None /\ activeId = 0
            /\ stopping' = TRUE /\ cancelled' = TRUE
            /\ Call(IF helperReady THEN "submit" ELSE "loop")
            /\ UNCHANGED <<requestId, toHelper, localSig, stopTimer, dialogs>>
         \/ /\ local = None /\ activeId # 0
            /\ requestId' = requestId + 1
            /\ IF transport = "up"
                 THEN /\ stopping' = TRUE
                      /\ toHelper' = Append(toHelper, [action |-> "stop", for |-> activeId])
                      /\ UNCHANGED dialogs
                 ELSE Push(Dialog("note")) /\ UNCHANGED <<stopping, toHelper>>
            /\ UNCHANGED <<localSig, stopTimer, callVars, cancelled>>

PressStop ==
  /\ AtWindow /\ busy /\ ~stopping /\ requestId < MaxRequests /\ RequestStop
  /\ UNCHANGED <<busy, job, result, activeId, closeVars, helperReady, transport, fromHelper,
                 helperVars, local, volVars>>

(* Mutant: the window closes at once after asking the operation to stop. *)
CloseAtOnce ==
  /\ AtWindow /\ requestId < MaxRequests /\ closed' = TRUE /\ UNCHANGED closing /\ RequestStop
  /\ UNCHANGED <<busy, job, result, activeId, helperReady, transport, fromHelper, helperVars,
                 local, volVars>>

(* close_requested *)
Close ==
  /\ AtWindow /\ (closing => requestId < MaxRequests)
  /\ \/ busy /\ closing' = TRUE /\ UNCHANGED closed /\ RequestStop
     \/ /\ ~busy /\ UNCHANGED <<stopping, requestId, toHelper, localSig, stopTimer, callVars,
                                dialogs, cancelled>>
        /\ IF discovering \/ probing THEN closing' = TRUE /\ UNCHANGED closed
                                     ELSE closed' = TRUE /\ UNCHANGED closing
  /\ UNCHANGED <<busy, job, result, activeId, helperReady, transport, fromHelper, helperVars,
                 local, volVars>>

-----------------------------------------------------------------------------
(* The volumes: refresh, open_image, the combo box *)

Refresh ==
  /\ AtWindow /\ ~busy /\ ~discovering /\ ~probing
  /\ \/ discovering' = TRUE /\ wanted' = sel /\ UNCHANGED dialogs
     \/ Push(Dialog("note")) /\ UNCHANGED <<discovering, wanted>>
  /\ UNCHANGED <<opVars, closeVars, pipeVars, helperVars, localVars, volumes, sel, mounted,
                 exact, probing, selTimer, callVars, cancelled>>

(* Every DesktopVolume is replaced, images are kept as they are. *)
Dangle == [i \in DOMAIN dialogs |-> [dialogs[i] EXCEPT !.fresh = FALSE]]

DiscoveryDone ==
  /\ Serving /\ discovering /\ ~Open("discovery") /\ discovering' = FALSE
  /\ \E found \in SUBSET Disks : \E m \in SUBSET found :
       /\ volumes' = found \cup (volumes \cap Images) /\ mounted' = m
       /\ exact' = [p \in Paths |-> IF p \in Images THEN exact[p] ELSE "no"]
       /\ IF volumes' = {} THEN sel' = None
          ELSE IF wanted \in volumes' THEN sel' = wanted ELSE sel' \in volumes'
       /\ selTimer' = (volumes' # {})
  /\ wanted' = None /\ dialogs' = Dangle /\ MaybeFinishClose(probing)
  /\ UNCHANGED <<opVars, pipeVars, helperVars, localVars, probing, callVars, cancelled>>

DiscoveryFailed ==
  /\ Serving /\ discovering /\ ~Open("discovery")
  /\ IF closing THEN discovering' = FALSE /\ MaybeFinishClose(probing) /\ UNCHANGED dialogs
                ELSE Push(Dialog("discovery")) /\ UNCHANGED <<discovering, closeVars>>
  /\ UNCHANGED <<opVars, pipeVars, helperVars, localVars, volumes, sel, mounted, exact,
                 probing, wanted, selTimer, callVars, cancelled>>

DiscoveryTail ==
  /\ Top("discovery") /\ Pop /\ discovering' = FALSE /\ wanted' = None
  /\ MaybeFinishClose(probing)
  /\ UNCHANGED <<opVars, pipeVars, helperVars, localVars, volumes, sel, mounted, exact,
                 probing, selTimer, callVars, cancelled>>

OpenImage ==
  /\ AtWindow /\ ~busy /\ ~discovering /\ ~probing /\ ~(Images \subseteq volumes)
  /\ Push(Dialog("chooser"))
  /\ UNCHANGED <<opVars, closeVars, pipeVars, helperVars, localVars, volVars, callVars,
                 cancelled>>

(* Cancelled, not a usable file, or the probe is started whatever else began meanwhile. *)
Chooser ==
  /\ Top("chooser")
  /\ \/ Pop /\ UNCHANGED probing
     \/ dialogs' = <<Dialog("note")>> \o Tail(dialogs) /\ UNCHANGED probing
     \/ Pop /\ probing' = TRUE
  /\ UNCHANGED <<opVars, closeVars, pipeVars, helperVars, localVars, volumes, sel, mounted,
                 exact, discovering, wanted, selTimer, callVars, cancelled>>

ProbeDone ==
  /\ Serving /\ probing /\ ~Open("probe") /\ probing' = FALSE
  /\ \E image \in Images \ volumes :
       /\ volumes' = volumes \cup {image} /\ sel' = image
       /\ exact' = [exact EXCEPT ![image] = "no"]
  /\ selTimer' = TRUE /\ dialogs' = Dangle /\ MaybeFinishClose(discovering)
  /\ UNCHANGED <<opVars, pipeVars, helperVars, localVars, mounted, discovering, wanted,
                 callVars, cancelled>>

ProbeFailed ==
  /\ Serving /\ probing /\ ~Open("probe")
  /\ IF closing THEN probing' = FALSE /\ MaybeFinishClose(discovering) /\ UNCHANGED dialogs
                ELSE Push(Dialog("probe")) /\ UNCHANGED <<probing, closeVars>>
  /\ UNCHANGED <<opVars, pipeVars, helperVars, localVars, volumes, sel, mounted, exact,
                 discovering, wanted, selTimer, callVars, cancelled>>

ProbeTail ==
  /\ Top("probe") /\ Pop /\ probing' = FALSE /\ MaybeFinishClose(discovering)
  /\ UNCHANGED <<opVars, pipeVars, helperVars, localVars, volumes, sel, mounted, exact,
                 discovering, wanted, selTimer, callVars, cancelled>>

(* selected: an analysis is scheduled for when the main loop is idle. *)
Select ==
  /\ AtWindow /\ ~busy /\ ~discovering /\ ~probing
  /\ \E p \in volumes \ {sel} : sel' = p
  /\ selTimer' = TRUE
  /\ UNCHANGED <<opVars, closeVars, pipeVars, helperVars, localVars, volumes, mounted, exact,
                 discovering, probing, wanted, callVars, dialogs, cancelled>>

SelectionIdle ==
  /\ Serving /\ selTimer /\ requestId < MaxRequests /\ selTimer' = FALSE
  /\ IF ~closing /\ ~busy /\ ~discovering /\ ~probing /\ sel # None
       THEN Analyse ELSE UNCHANGED <<exact, callVars>>
  /\ UNCHANGED <<opVars, closeVars, pipeVars, helperVars, localVars, volumes, sel, mounted,
                 discovering, probing, wanted, dialogs, cancelled>>

-----------------------------------------------------------------------------
(* The local analysis *)

(* The last of its three callbacks (both streams at their end, the process waited for). *)
LocalFinished(c) ==
  /\ Serving /\ local # None /\ (localSig = "kill" => c # 0)
  /\ local' = None /\ localSig' = "none" /\ stopTimer' = FALSE
  /\ result' = IF stopping THEN "stopped" ELSE result
  /\ Complete(c, Job("analysis", local)) /\ UNCHANGED inRead
  /\ UNCHANGED <<busy, stopping, job, activeId, requestId, closeVars, pipeVars, helperVars,
                 volVars, dialogs, cancelled>>

(* Mutant: SIGINT once more. *)
StopTimerAgain ==
  /\ Serving /\ stopTimer /\ stopTimer' = FALSE
  /\ localSig' = IF local # None /\ busy /\ stopping THEN "int" ELSE localSig
  /\ UNCHANGED <<opVars, closeVars, pipeVars, helperVars, local, volVars, callVars, dialogs,
                 cancelled>>

StopTimer ==
  /\ Serving /\ stopTimer /\ stopTimer' = FALSE
  /\ localSig' = IF local # None /\ busy /\ stopping THEN "kill" ELSE localSig
  /\ UNCHANGED <<opVars, closeVars, pipeVars, helperVars, local, volVars, callVars, dialogs,
                 cancelled>>

-----------------------------------------------------------------------------
(* receive, and the helper's end of file *)

(* read_next asks for the next line only when the handler of the last one returned. *)
Reading == Serving /\ \A i \in DOMAIN dialogs : ~dialogs[i].reader

Receive(type) ==
  /\ Reading /\ fromHelper # <<>> /\ Head(fromHelper).type = type
  /\ fromHelper' = Tail(fromHelper)

ReceiveReady ==
  /\ Receive("ready") /\ helperReady' = TRUE
  /\ pc' = "submit" /\ inRead' = TRUE /\ UNCHANGED <<call, code, ran>>
  /\ UNCHANGED <<opVars, closeVars, transport, toHelper, helperVars, localVars, volVars,
                 dialogs, cancelled>>

ReceiveStopResult ==
  /\ Receive("stop-result")
  /\ stopping' = (stopping /\ Head(fromHelper).delivered)
  /\ UNCHANGED <<busy, job, result, activeId, requestId, closeVars, helperReady, transport,
                 toHelper, helperVars, localVars, volVars, callVars, dialogs, cancelled>>

Mine == Head(fromHelper).id = activeId /\ busy

(* An @@RESULT line; analysis output is only collected. *)
ReceiveOutput ==
  /\ Receive("output")
  /\ result' = IF Mine /\ job.purpose # "analysis" THEN Head(fromHelper).result ELSE result
  /\ UNCHANGED <<busy, stopping, job, activeId, requestId, closeVars, helperReady, transport,
                 toHelper, helperVars, localVars, volVars, callVars, dialogs, cancelled>>

ReceiveFinished ==
  /\ Receive("finished")
  /\ IF Mine THEN Complete(Head(fromHelper).code, Head(fromHelper).job) /\ inRead' = TRUE
             ELSE UNCHANGED callVars
  /\ UNCHANGED <<opVars, closeVars, helperReady, transport, toHelper, helperVars, localVars,
                 volVars, dialogs, cancelled>>

HelperClosed ==
  /\ Reading /\ transport = "gone" /\ fromHelper = <<>>
  /\ transport' = "none" /\ helperReady' = FALSE /\ toHelper' = <<>>
  /\ IF busy /\ local = None THEN Complete(127, None) /\ UNCHANGED inRead
                             ELSE UNCHANGED callVars
  /\ UNCHANGED <<opVars, closeVars, fromHelper, helperVars, localVars, volVars, dialogs,
                 cancelled>>

-----------------------------------------------------------------------------
(* The helper, as PrivilegedHelper behaves towards its client. *)

Helper == UNCHANGED <<opVars, closeVars, helperReady, localVars, volVars, callVars, dialogs,
                      cancelled>>
Emit(event) == fromHelper' = Append(fromHelper, event)

HelperAuth ==
  /\ Alive /\ transport = "auth"
  /\ \/ transport' = "up" /\ Emit([type |-> "ready"])
     \/ transport' = "gone" /\ UNCHANGED fromHelper
  /\ UNCHANGED <<toHelper, helperVars>> /\ Helper

HelperRun ==
  /\ Alive /\ transport = "up" /\ toHelper # <<>> /\ Head(toHelper).action = "run"
  /\ hrun = None /\ hfin = None
  /\ hrun' = Head(toHelper) /\ hstop' = FALSE /\ toHelper' = Tail(toHelper)
  /\ UNCHANGED <<transport, fromHelper, hfin>> /\ Helper

HelperStop ==
  /\ Alive /\ transport = "up" /\ toHelper # <<>> /\ Head(toHelper).action = "stop"
  /\ toHelper' = Tail(toHelper)
  /\ hstop' = (hrun # None)
  /\ Emit([type |-> "stop-result", delivered |-> hrun # None])
  /\ UNCHANGED <<transport, hrun, hfin>> /\ Helper

(* The child ends; a mutation reports its result before it does. *)
HelperEnd ==
  /\ Alive /\ transport = "up" /\ hrun # None
  /\ \E c \in {0, 1} : hfin' = [type |-> "finished", id |-> hrun.id, code |-> c,
                                job |-> hrun.job]
  /\ \/ /\ hrun.job.purpose \in Mutations
        /\ \E r \in {"done", "stopped", "failed"} :
             Emit([type |-> "output", id |-> hrun.id, result |-> r])
     \/ UNCHANGED fromHelper
  /\ hrun' = None /\ hstop' = FALSE
  /\ UNCHANGED <<transport, toHelper>> /\ Helper

HelperFinish ==
  /\ Alive /\ transport = "up" /\ hfin # None
  /\ Emit(hfin) /\ hfin' = None
  /\ UNCHANGED <<transport, toHelper, hrun, hstop>> /\ Helper

HelperDie ==
  /\ Alive /\ transport = "up" /\ transport' = "gone"
  /\ hrun' = None /\ hfin' = None /\ hstop' = FALSE
  /\ UNCHANGED <<toHelper, fromHelper>> /\ Helper

-----------------------------------------------------------------------------
User == \/ PressAnalyse \/ \E p \in Mutations \cup {"unmount"} : PressMutation(p)
        \/ PressStop \/ Close \/ Refresh \/ OpenImage \/ Select

Answer == \/ \E accept \in BOOLEAN : Confirm(accept)
          \/ CompletedTail \/ DismissNote \/ DiscoveryTail \/ Chooser \/ ProbeTail

Calls == StartRefused \/ Start \/ SubmitIdle \/ SubmitCancelled \/ Submit \/ StartHelper
         \/ Completed

Callbacks == \/ DiscoveryDone \/ DiscoveryFailed \/ ProbeDone \/ ProbeFailed \/ SelectionIdle
             \/ StopTimer \/ ReceiveReady \/ ReceiveStopResult \/ ReceiveOutput
             \/ ReceiveFinished \/ HelperClosed

HelperProcess == HelperAuth \/ HelperRun \/ HelperStop \/ HelperEnd \/ HelperFinish \/ HelperDie

Terminated == closed /\ UNCHANGED vars

Next == \/ User \/ Answer \/ Calls \/ Callbacks \/ HelperProcess
        \/ \E c \in {0, 127} : LocalFinished(c)
        \/ Terminated

Spec == Init /\ [][Next]_vars

(* Handlers run to their end, the user answers the dialogs, GLib serves every source that *)
(* keeps becoming ready, and the helper reads its input and reports what happened; a run  *)
(* that was sent a Stop ends, because the helper supervises its child to the end.         *)
HelperLine == ReceiveReady \/ ReceiveStopResult \/ ReceiveOutput \/ ReceiveFinished \/ HelperClosed
MainLoop == WF_vars(Calls) /\ SF_vars(Answer) /\ SF_vars(HelperLine)
HelperServes == WF_vars(HelperRun \/ HelperStop \/ HelperFinish \/ (hstop /\ HelperEnd))

(* Of the local analysis only SIGKILL, which the timer sends, is known to end it. *)
LocalEnds == \E c \in {0, 127} : LocalFinished(c)
LocalKilled == SF_vars(StopTimer) /\ SF_vars(localSig = "kill" /\ LocalEnds)
StopSpec == Spec /\ MainLoop /\ HelperServes /\ LocalKilled

(* As long as anything the user started runs, something of it ends: at the helper, its    *)
(* authentication included, or among the subprocesses of the desktop.                     *)
EverythingEnds ==
  /\ WF_vars(HelperAuth \/ HelperEnd)
  /\ SF_vars(LocalEnds \/ DiscoveryDone \/ DiscoveryFailed \/ ProbeDone \/ ProbeFailed)

-----------------------------------------------------------------------------
(* Properties *)

Queued(action) == { i \in DOMAIN toHelper : toHelper[i].action = action }
AtHelper == Queued("run") # {} \/ hrun # None \/ hfin # None

(* Type invariant of the session state. *)
TypeOK ==
  /\ busy \in BOOLEAN /\ stopping \in BOOLEAN /\ job \in Jobs \cup {None}
  /\ result \in {"none", "done", "stopped", "failed"}
  /\ activeId \in Nat /\ requestId \in Nat
  /\ closing \in BOOLEAN /\ closed \in BOOLEAN
  /\ helperReady \in BOOLEAN /\ transport \in {"none", "auth", "up", "gone"}
  /\ local \in Paths \cup {None} /\ localSig \in {"none", "int", "kill"}
  /\ stopTimer \in BOOLEAN
  /\ volumes \subseteq Paths /\ sel \in Paths \cup {None} /\ mounted \subseteq Disks
  /\ exact \in [Paths -> {"no", "own", "foreign"}]
  /\ pc \in {"loop", "start", "submit", "startHelper", "completed"}
  /\ call \in Jobs \cup {None} /\ ran \in Jobs \cup {None} /\ code \in {0, 1, 127}

(* One operation at a time: whatever dialogs were open when it was asked for, at most one *)
(* run is on its way to, at or on its way back from the helper, it is the one active_id_  *)
(* names, and none is while the local analysis of start() runs.                           *)
OneOperation ==
  /\ Queued("run") # {} \/ hrun # None => hfin = None
  /\ AtHelper /\ transport = "up" => activeId # 0 /\ local = None
  /\ \A i \in Queued("run") : hrun = None /\ toHelper[i].id = activeId
  /\ hrun # None => hrun.id = activeId
  /\ activeId # 0 => busy

(* A stop request carries no run id, yet the run it reaches in the helper is the one that *)
(* was active when request_stop wrote it.                                                 *)
StopsOwnRun ==
  \A i \in Queued("stop") : hrun # None /\ Queued("run") \cap 1..i = {} => hrun.id = toHelper[i].for

(* An operation cancelled while the helper was still being authenticated is never sent:   *)
(* submit() completes it as stopped instead.                                              *)
CancelledNeverSent == cancelled => activeId = 0

(* The window is destroyed only when nothing runs, whichever of discovery, probe, dialog  *)
(* or operation was the last to end ("Waiting for the active operation to finish its      *)
(* journalled transaction before closing", close_requested): no operation, and no run on  *)
(* its way to or at a helper that lives.  What runs without a window was started later,   *)
(* by a confirmation that was still open.                                                 *)
ClosesWhenIdle ==
  [][~closed /\ closed' => ~busy' /\ (transport' = "up" => ~AtHelper')]_vars

(* A Stop of a run that was sent to the helper ends it, whatever stop-result says. *)
StopEnds == stopping /\ activeId # 0 ~> activeId = 0

(* Once the user asked to close, the window closes, if what is running ends: whichever of *)
(* discovery, probe, dialog or operation is the last carries the close out.               *)
CloseEnds == EverythingEnds => (closing ~> closed)

(* A Stop of the local analysis ends it, with SIGKILL when SIGINT did not, unless the     *)
(* stop is withdrawn: by an undelivered stop-result of an earlier run or by a new start.  *)
LocalStopEnds == stopping /\ local # None ~> local = None \/ ~stopping

(* present_map: an analysis qualifies the volume it read and no other. *)
QualifiedByOwnAnalysis == \A p \in Paths : exact[p] # "foreign"

(* completed() shows "Completed" for an operation that was carried out. *)
CompletedMeansRan ==
  pc = "completed" /\ code = 0 /\ job.purpose # "analysis" /\ result \notin {"failed", "stopped"}
    => ran.purpose = job.purpose
=============================================================================
