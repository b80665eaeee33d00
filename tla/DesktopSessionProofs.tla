------------------------ MODULE DesktopSessionProofs ------------------------
(***************************************************************************)
(* What holds of the desktop's session for every set of volumes, every     *)
(* number of requests and every order of the user's actions, the dialogs'  *)
(* answers, the helper's lines and the ends of the other processes: one    *)
(* operation at a time, which Stop, cancellation and close do not miss.    *)
(***************************************************************************)
EXTENDS DesktopSession, TLAPS

USE DEF vars, opVars, closeVars, pipeVars, helperVars, localVars, volVars, callVars

-----------------------------------------------------------------------------
(* What goes over the pipes, and what the dialogs hold. *)

RunLines == [action : {"run"}, id : Nat, job : Jobs \cup {None}]
StopLines == [action : {"stop"}, for : Nat]
Lines == RunLines \cup StopLines
Finals == [type : {"finished"}, id : Nat, code : {0, 1}, job : Jobs \cup {None}]
Events == [type : {"ready"}] \cup [type : {"stop-result"}, delivered : BOOLEAN]
            \cup [type : {"output"}, id : Nat, result : {"done", "stopped", "failed"}]
            \cup Finals
Changes == {j \in Jobs : j.purpose # "analysis"}
Dialogs ==
  [kind : {"confirm"}, job : Changes, fresh : BOOLEAN, reader : BOOLEAN]
    \cup [kind : {"note", "completed", "discovery", "chooser", "probe"}, job : {None},
          fresh : BOOLEAN, reader : BOOLEAN]

TypePipes ==
  /\ inRead \in BOOLEAN /\ cancelled \in BOOLEAN
  /\ discovering \in BOOLEAN /\ probing \in BOOLEAN /\ selTimer \in BOOLEAN
  /\ wanted \in Paths \cup {None} /\ (pc = "start" => call \in Jobs)
  /\ toHelper \in Seq(Lines) /\ fromHelper \in Seq(Events) /\ dialogs \in Seq(Dialogs)
  /\ hrun \in RunLines \cup {None} /\ hfin \in Finals \cup {None} /\ hstop \in BOOLEAN

-----------------------------------------------------------------------------
(* The inductive invariant, in parts. *)

(* An operation the helper was sent keeps the session busy and excludes the   *)
(* local analysis; its helper is there until completed() is on its way.       *)
ActiveInv ==
  /\ activeId # 0 => busy /\ local = None /\ (helperReady \/ pc = "completed")
  /\ pc = "start" /\ call.purpose = "analysis" => activeId = 0

(* Before the ready line was read nothing has been sent, and nothing of an    *)
(* earlier helper is left to read.                                            *)
TransportInv ==
  /\ transport # "up" => hrun = None /\ hfin = None
  /\ transport \in {"none", "auth"} => fromHelper = <<>> /\ ~helperReady
  /\ ~helperReady => /\ toHelper = <<>> /\ hrun = None /\ hfin = None
                     /\ \A i \in DOMAIN fromHelper : fromHelper[i].type = "ready"

(* A run is in one place of its way to the helper and back, and is the active *)
(* one; when completed() is called it has been all the way.                   *)
Ended == { i \in DOMAIN fromHelper : fromHelper[i].type = "finished" }
Idle == Queued("run") = {} /\ hrun = None /\ hfin = None /\ Ended = {}
FlightInv ==
  /\ \A i \in Queued("run") : /\ toHelper[i].id = activeId
                              /\ hrun = None /\ hfin = None /\ Ended = {}
                              /\ \A j \in Queued("run") : j = i
  /\ hrun # None => hrun.id = activeId /\ hfin = None /\ Ended = {}
  /\ hfin # None => hfin.id = activeId /\ Ended = {}
  /\ \A i \in Ended : fromHelper[i].id = activeId /\ \A j \in Ended : j = i
  /\ activeId = 0 \/ pc = "completed" => Idle

(* A stop request that outlived its run is read before the next run. *)
StopInv ==
  \A i \in Queued("stop") : toHelper[i].for # activeId =>
    hrun = None /\ \A j \in Queued("run") : j > i

(* A cancelled operation waits for the helper, or for submit to end it. *)
CancelInv ==
  cancelled /\ busy => /\ stopping /\ local = None /\ activeId = 0
                       /\ helperReady => pc \in {"submit", "completed"}

Session == ActiveInv /\ TransportInv /\ FlightInv /\ StopInv /\ CancelInv
Inductive == TypeOK /\ TypePipes /\ Session


-----------------------------------------------------------------------------
(* Types *)

(* The flags of Desktop, of its callbacks and of the helper. *)
TypeFlags ==
  /\ busy \in BOOLEAN /\ stopping \in BOOLEAN /\ closing \in BOOLEAN
  /\ closed \in BOOLEAN /\ helperReady \in BOOLEAN /\ stopTimer \in BOOLEAN
  /\ inRead \in BOOLEAN /\ cancelled \in BOOLEAN /\ discovering \in BOOLEAN
  /\ probing \in BOOLEAN /\ selTimer \in BOOLEAN /\ hstop \in BOOLEAN

(* The end of the local analysis takes its timer away. *)
LEMMA StopTimerReset ==
  ASSUME TypeFlags, stopTimer' = FALSE,
         UNCHANGED <<busy, stopping, closing, closed, helperReady, inRead, cancelled,
                     discovering, probing, selTimer, hstop>>
  PROVE  TypeFlags'
BY ZenonT(60) DEF TypeFlags

(* They stay Boolean. *)
LEMMA FlagTypes ==
  ASSUME TypeFlags, [Next]_vars
  PROVE  TypeFlags'
<1>1. CASE PressAnalyse
  BY <1>1, ZenonT(60) DEF PressAnalyse, Analyse, Goto, TypeFlags
<1>2. ASSUME NEW p \in Mutations \cup {"unmount"}, PressMutation(p) PROVE TypeFlags'
  BY <1>2, ZenonT(60) DEF PressMutation, Push, TypeFlags
<1>3. CASE PressStop
  BY <1>3, ZenonT(60) DEF PressStop, RequestStop, Call, Goto, Push, TypeFlags
<1>4. CASE Close
  BY <1>4, ZenonT(60) DEF Close, RequestStop, Call, Goto, Push, TypeFlags
<1>5. CASE Refresh
  BY <1>5, ZenonT(60) DEF Refresh, Push, TypeFlags
<1>6. CASE OpenImage
  BY <1>6, Zenon DEF OpenImage, Push, TypeFlags
<1>7. CASE Select
  BY <1>7, Zenon DEF Select, TypeFlags
<1>8. ASSUME NEW accept \in BOOLEAN, Confirm(accept) PROVE TypeFlags'
  <2>1. UNCHANGED <<busy, stopping, closing, closed, helperReady, stopTimer, cancelled,
                    discovering, probing, selTimer, hstop>>
    BY <1>8 DEF Confirm
  <2>2. inRead' = inRead \/ inRead' = (inRead /\ "start" # "loop")
    BY <1>8, Zenon DEF Confirm, Goto
  <2>3. inRead' \in BOOLEAN
    BY <2>2, Zenon DEF TypeFlags
  <2> QED
    BY <2>1, <2>3, ZenonT(60) DEF TypeFlags
<1>9. CASE CompletedTail
  BY <1>9, ZenonT(60) DEF CompletedTail, Pop, TypeFlags
<1>10. CASE DismissNote
  BY <1>10, ZenonT(60) DEF DismissNote, Pop, TypeFlags
<1>11. CASE DiscoveryTail
  BY <1>11, Zenon DEF DiscoveryTail, Pop, MaybeFinishClose, TypeFlags
<1>12. CASE Chooser
  BY <1>12, ZenonT(60) DEF Chooser, Pop, TypeFlags
<1>13. CASE ProbeTail
  BY <1>13, ZenonT(60) DEF ProbeTail, Pop, MaybeFinishClose, TypeFlags
<1>14. CASE StartRefused
  BY <1>14, ZenonT(60) DEF StartRefused, Push, Goto, TypeFlags
<1>15. CASE Start
  <2>1. /\ busy' = TRUE /\ stopping' = FALSE /\ cancelled' = FALSE
        /\ UNCHANGED <<closing, closed, helperReady, stopTimer, discovering, probing, selTimer,
                       hstop>>
    BY <1>15, Zenon DEF Start
  <2>2. inRead' = inRead \/ \E w \in {"loop", "submit", "startHelper"} :
                              inRead' = (inRead /\ w # "loop")
    BY <1>15 DEF Start, Call, Goto
  <2>3. inRead' \in BOOLEAN
    BY <2>2, Zenon DEF TypeFlags
  <2> QED
    BY <2>1, <2>3, Zenon DEF TypeFlags
<1>16. CASE SubmitIdle
  BY <1>16, ZenonT(60) DEF SubmitIdle, Call, Goto, TypeFlags
<1>17. CASE SubmitCancelled
  BY <1>17, Zenon DEF SubmitCancelled, Complete, TypeFlags
<1>18. CASE Submit
  <2>1. UNCHANGED <<busy, stopping, closing, closed, helperReady, stopTimer, cancelled,
                    discovering, probing, selTimer, hstop>>
    BY <1>18 DEF Submit, Send
  <2>2. inRead' = inRead \/ inRead' = (inRead /\ "loop" # "loop")
    BY <1>18, Zenon DEF Submit, Send, Call, Goto
  <2>3. inRead' \in BOOLEAN
    BY <2>2, Zenon DEF TypeFlags
  <2> QED
    BY <2>1, <2>3, ZenonT(60) DEF TypeFlags
<1>19. CASE StartHelper
  <2>1. UNCHANGED <<busy, stopping, closing, closed, helperReady, stopTimer, cancelled,
                    discovering, probing, selTimer, hstop>>
    BY <1>19 DEF StartHelper
  <2>2. inRead' = inRead \/ inRead' = (inRead /\ "loop" # "loop")
    BY <1>19, Zenon DEF StartHelper, Call, Goto
  <2>3. inRead' \in BOOLEAN
    BY <2>2, Zenon DEF TypeFlags
  <2> QED
    BY <2>1, <2>3, ZenonT(60) DEF TypeFlags
<1>20. CASE Completed
  <2>1. /\ busy' = FALSE /\ stopping' = FALSE
        /\ UNCHANGED <<closing, helperReady, stopTimer, cancelled, probing, selTimer, hstop>>
    BY <1>20, Zenon DEF Completed
  <2>2. /\ discovering' = TRUE \/ discovering' = discovering
        /\ closed' = closed \/ closed' = (closed \/ closing)
        /\ inRead' = (inRead /\ "start" # "loop") \/ inRead' = (inRead /\ "loop" # "loop")
    BY <1>20, Zenon DEF Completed, Goto
  <2>3. discovering' \in BOOLEAN /\ closed' \in BOOLEAN /\ inRead' \in BOOLEAN
    BY <2>2, Zenon DEF TypeFlags
  <2> QED
    BY <2>1, <2>3, Zenon DEF TypeFlags
<1>21. CASE DiscoveryDone
  BY <1>21, Zenon DEF DiscoveryDone, MaybeFinishClose, TypeFlags
<1>22. CASE DiscoveryFailed
  BY <1>22, ZenonT(60) DEF DiscoveryFailed, Push, MaybeFinishClose, TypeFlags
<1>23. CASE ProbeDone
  BY <1>23, Zenon DEF ProbeDone, MaybeFinishClose, TypeFlags
<1>24. CASE ProbeFailed
  BY <1>24, ZenonT(60) DEF ProbeFailed, Push, MaybeFinishClose, TypeFlags
<1>25. CASE SelectionIdle
  BY <1>25, ZenonT(60) DEF SelectionIdle, Analyse, Goto, TypeFlags
<1>26. CASE StopTimer
  BY <1>26, Zenon DEF StopTimer, TypeFlags
<1>27. CASE ReceiveReady
  BY <1>27, Zenon DEF ReceiveReady, Receive, TypeFlags
<1>28. CASE ReceiveStopResult
  BY <1>28, ZenonT(60) DEF ReceiveStopResult, Receive, TypeFlags
<1>29. CASE ReceiveOutput
  BY <1>29, ZenonT(60) DEF ReceiveOutput, Receive, TypeFlags
<1>30. CASE ReceiveFinished
  BY <1>30, ZenonT(60) DEF ReceiveFinished, Receive, Complete, TypeFlags
<1>31. CASE HelperClosed
  BY <1>31, ZenonT(60) DEF HelperClosed, Complete, TypeFlags
<1>32. CASE HelperAuth
  BY <1>32, ZenonT(60) DEF HelperAuth, Helper, Emit, TypeFlags
<1>33. CASE HelperRun
  BY <1>33, ZenonT(60) DEF HelperRun, Helper, TypeFlags
<1>34. CASE HelperStop
  BY <1>34, ZenonT(60) DEF HelperStop, Helper, Emit, TypeFlags
<1>35. CASE HelperEnd
  BY <1>35, Zenon DEF HelperEnd, Helper, Emit, TypeFlags
<1>36. CASE HelperFinish
  BY <1>36, ZenonT(60) DEF HelperFinish, Helper, Emit, TypeFlags
<1>37. CASE HelperDie
  BY <1>37, ZenonT(60) DEF HelperDie, Helper, TypeFlags
<1>38. CASE \E c \in {0, 127} : LocalFinished(c)
  <2>1. /\ UNCHANGED <<busy, stopping, closing, closed, helperReady, inRead, cancelled,
                       discovering, probing, selTimer, hstop>>
        /\ stopTimer' = FALSE
    BY <1>38 DEF LocalFinished, Complete
  <2> QED
    BY <2>1, StopTimerReset
<1>39. CASE UNCHANGED <<busy, stopping, closing, closed, helperReady, stopTimer, inRead,
     cancelled, discovering, probing, selTimer, hstop>>
  BY <1>39, ZenonT(60) DEF TypeFlags
<1> QED
  BY <1>1, <1>2, <1>3, <1>4, <1>5, <1>6, <1>7, <1>8, <1>9, <1>10, <1>11, <1>12, <1>13,
       <1>14, <1>15, <1>16, <1>17, <1>18, <1>19, <1>20, <1>21, <1>22, <1>23, <1>24, <1>25,
       <1>26, <1>27, <1>28, <1>29, <1>30, <1>31, <1>32, <1>33, <1>34, <1>35, <1>36, <1>37,
       <1>38, <1>39 DEF Next, User, Answer, Calls, Callbacks, HelperProcess, Terminated

(* The volumes and what is known of them. *)
TypeVolumes ==
  /\ volumes \subseteq Paths /\ mounted \subseteq Disks
  /\ sel \in Paths \cup {None} /\ wanted \in Paths \cup {None}
  /\ exact \in [Paths -> {"no", "own", "foreign"}]

(* A selection is a volume that was found. *)
LEMMA VolumeTypes ==
  ASSUME TypeVolumes, [Next]_vars
  PROVE  TypeVolumes'
<1>1. CASE PressAnalyse
  BY <1>1 DEF PressAnalyse, Analyse, Goto, TypeVolumes
<1>2. CASE Refresh
  BY <1>2 DEF Refresh, Push, TypeVolumes
<1>3. CASE Select
  BY <1>3 DEF Select, TypeVolumes
<1>4. CASE DiscoveryTail
  BY <1>4 DEF DiscoveryTail, Pop, MaybeFinishClose, TypeVolumes
<1>5. CASE Completed
  <2>1. UNCHANGED <<volumes, mounted, sel>> /\ wanted' \in {wanted, sel}
    BY <1>5 DEF Completed
  <2>2. \E b \in BOOLEAN : exact' \in {exact, [exact EXCEPT ![sel] = "no"], Presented(b)}
    BY <1>5 DEF Completed
  <2>3. \A b \in BOOLEAN : Presented(b) \in [Paths -> {"no", "own", "foreign"}]
    BY DEF Presented, TypeVolumes
  <2> QED
    BY <2>1, <2>2, <2>3 DEF TypeVolumes
<1>6. CASE DiscoveryDone
  <2>1. PICK found \in SUBSET Disks : \E m \in SUBSET found :
          /\ volumes' = found \cup (volumes \cap Images) /\ mounted' = m
          /\ exact' = [p \in Paths |-> IF p \in Images THEN exact[p] ELSE "no"]
          /\ IF volumes' = {} THEN sel' = None
             ELSE IF wanted \in volumes' THEN sel' = wanted ELSE sel' \in volumes'
    BY <1>6 DEF DiscoveryDone
  <2>2. wanted' = None
    BY <1>6 DEF DiscoveryDone
  <2> QED
    BY <2>1, <2>2 DEF TypeVolumes, Paths
<1>7. CASE ProbeDone
  BY <1>7 DEF ProbeDone, MaybeFinishClose, TypeVolumes, Paths
<1>8. CASE SelectionIdle
  BY <1>8 DEF SelectionIdle, Analyse, Goto, TypeVolumes
<1>9. CASE UNCHANGED <<volumes, mounted, sel, wanted, exact>>
  BY <1>9 DEF TypeVolumes
<1>10. ASSUME PressStop \/ Close \/ OpenImage PROVE UNCHANGED <<volumes, mounted, sel,
     wanted, exact>>
  BY <1>10 DEF PressStop, Close, OpenImage, RequestStop, Call, Goto, Push
<1>11. ASSUME NEW p \in Mutations \cup {"unmount"}, PressMutation(p) PROVE UNCHANGED
     <<volumes, mounted, sel, wanted, exact>>
  BY <1>11 DEF PressMutation, Push
<1>12. ASSUME CompletedTail \/ DismissNote \/ Chooser \/ ProbeTail PROVE UNCHANGED
     <<volumes, mounted, sel, wanted, exact>>
  BY <1>12 DEF CompletedTail, DismissNote, Chooser, ProbeTail, Pop, MaybeFinishClose
<1>13. ASSUME NEW accept \in BOOLEAN, Confirm(accept) PROVE UNCHANGED <<volumes, mounted,
     sel, wanted, exact>>
  BY <1>13 DEF Confirm, Pop, Goto
<1>14. ASSUME StartRefused \/ Start \/ SubmitIdle \/ SubmitCancelled \/ Submit \/
     StartHelper PROVE UNCHANGED <<volumes, mounted, sel, wanted, exact>>
  BY <1>14 DEF StartRefused, Start, SubmitIdle, SubmitCancelled, Submit, StartHelper,
       Push, Goto, Call, Complete, Send
<1>15. ASSUME DiscoveryFailed \/ ProbeFailed \/ StopTimer \/ ReceiveReady \/
     ReceiveStopResult \/ ReceiveOutput \/ ReceiveFinished \/ HelperClosed PROVE UNCHANGED
     <<volumes, mounted, sel, wanted, exact>>
  BY <1>15 DEF DiscoveryFailed, ProbeFailed, StopTimer, ReceiveReady, ReceiveStopResult,
       ReceiveOutput, ReceiveFinished, HelperClosed, Push, MaybeFinishClose, Receive,
       Complete
<1>16. ASSUME HelperAuth \/ HelperRun \/ HelperStop \/ HelperEnd \/ HelperFinish \/
     HelperDie PROVE UNCHANGED <<volumes, mounted, sel, wanted, exact>>
  BY <1>16 DEF HelperAuth, HelperRun, HelperStop, HelperEnd, HelperFinish, HelperDie,
       Helper, Emit
<1>17. ASSUME \E c \in {0, 127} : LocalFinished(c) PROVE UNCHANGED <<volumes, mounted,
     sel, wanted, exact>>
  BY <1>17 DEF LocalFinished, Complete
<1> QED
  BY <1>1, <1>2, <1>3, <1>4, <1>5, <1>6, <1>7, <1>8, <1>9, <1>10, <1>11, <1>12, <1>13,
       <1>14, <1>15, <1>16, <1>17 DEF Next, User, Answer, Calls, Callbacks, HelperProcess,
       Terminated

(* The operation, the calls between handlers, and the dialogs. *)
TypeCalls ==
  /\ job \in Jobs \cup {None} /\ result \in {"none", "done", "stopped", "failed"}
  /\ local \in Paths \cup {None} /\ localSig \in {"none", "int", "kill"}
  /\ pc \in {"loop", "start", "submit", "startHelper", "completed"}
  /\ call \in Jobs \cup {None} /\ ran \in Jobs \cup {None} /\ code \in {0, 1, 127}
  /\ pc = "start" => call \in Jobs
TypeNumbers == activeId \in Nat /\ requestId \in Nat
TypeMessages ==
  /\ toHelper \in Seq(Lines) /\ fromHelper \in Seq(Events) /\ dialogs \in Seq(Dialogs)
  /\ hrun \in RunLines \cup {None} /\ hfin \in Finals \cup {None}

(* The fields of what was read. *)
LEMMA EventFields ==
  ASSUME NEW e \in Events
  PROVE  /\ e.type = "finished" => e \in Finals /\ e.code \in {0, 1} /\ e.job \in Jobs \cup {None}
         /\ e.type = "output" => e.result \in {"done", "stopped", "failed"}
BY DEF Events, Finals
LEMMA LineFields ==
  ASSUME NEW l \in Lines
  PROVE  /\ l.action = "run" => l \in RunLines
         /\ l.action = "stop" => l \in StopLines
BY DEF Lines, RunLines, StopLines
LEMMA DialogFields ==
  ASSUME NEW d \in Dialogs, d.kind = "confirm"
  PROVE  d.job \in Jobs /\ d.job.purpose # "analysis"
BY DEF Dialogs, Changes

(* A job is made of a purpose and a path. *)
LEMMA JobType ==
  ASSUME NEW p \in Mutations \cup {"analysis", "unmount"}, NEW t \in Paths
  PROVE  Job(p, t) \in Jobs /\ Job(p, t).purpose = p
BY DEF Job, Jobs

(* The confirmed change is sent for the path it was asked for, or for whatever *)
(* path the dangling pointer leads to.                                         *)
LEMMA ConfirmCall ==
  ASSUME TypeMessages, Confirm(TRUE)
  PROVE  call' \in Jobs /\ call'.purpose # "analysis" /\ pc' = "start"
<1> DEFINE d == Head(dialogs)
<1>1. d \in Dialogs /\ d.kind = "confirm" /\ pc' = "start"
  BY DEF Confirm, Top, TypeMessages, Goto
<1>2. d.job \in Jobs /\ d.job.purpose # "analysis"
  BY <1>1, DialogFields
<1>3. PICK t \in Paths \cup {d.job.target} : call' = Job(d.job.purpose, t)
  BY DEF Confirm
<1>4. t \in Paths /\ d.job.purpose \in Mutations \cup {"analysis", "unmount"}
  BY <1>2, <1>3 DEF Jobs
<1> QED
  BY <1>1, <1>2, <1>3, <1>4, JobType

(* The arguments of start and completed. *)
LEMMA CallTypes ==
  ASSUME TypeVolumes, TypeCalls, TypeMessages, [Next]_vars
  PROVE  TypeCalls'
<1>1. CASE PressAnalyse
  BY <1>1, JobType DEF PressAnalyse, Analyse, Goto, TypeCalls, TypeVolumes, AtWindow
<1>2. CASE PressStop
  BY <1>2 DEF PressStop, RequestStop, Call, Goto, Push, TypeCalls
<1>3. CASE Close
  BY <1>3 DEF Close, RequestStop, Call, Goto, Push, TypeCalls
<1>4. ASSUME NEW accept \in BOOLEAN, Confirm(accept) PROVE TypeCalls'
  <2>1. CASE accept
    BY <1>4, <2>1, ConfirmCall DEF Confirm, TypeCalls
  <2>2. CASE ~accept
    BY <1>4, <2>2 DEF Confirm, TypeCalls
  <2> QED
    BY <2>1, <2>2
<1>5. CASE StartRefused
  BY <1>5 DEF StartRefused, Push, Goto, TypeCalls
<1>6. CASE Start
  BY <1>6, JobType DEF Start, Call, Goto, Complete, TypeCalls, Jobs
<1>7. CASE SubmitIdle
  BY <1>7 DEF SubmitIdle, Call, Goto, TypeCalls
<1>8. CASE SubmitCancelled
  BY <1>8 DEF SubmitCancelled, Complete, TypeCalls
<1>9. CASE Submit
  BY <1>9 DEF Submit, Send, Call, Goto, Complete, TypeCalls
<1>10. CASE StartHelper
  BY <1>10 DEF StartHelper, Call, Goto, Complete, TypeCalls
<1>11. CASE Completed
  <2>1. /\ UNCHANGED <<job, local, localSig>> /\ code' = 0 /\ ran' = None
        /\ result' \in {"stopped", result}
    BY <1>11 DEF Completed
  <2>2. \/ sel # None /\ call' = Job("analysis", sel) /\ pc' = "start"
        \/ UNCHANGED call /\ pc' = "loop"
    BY <1>11 DEF Completed, Goto
  <2>3. sel # None => Job("analysis", sel) \in Jobs
    BY JobType DEF TypeVolumes
  <2> QED
    BY <2>1, <2>2, <2>3 DEF TypeCalls
<1>12. CASE SelectionIdle
  <2>1. CASE UNCHANGED callVars
    BY <1>12, <2>1 DEF SelectionIdle, TypeCalls
  <2>2. CASE Analyse
    BY <1>12, <2>2, JobType, ZenonT(60) DEF SelectionIdle, Analyse, Goto, TypeCalls, TypeVolumes
  <2> QED
    BY <1>12, <2>1, <2>2 DEF SelectionIdle
<1>13. CASE StopTimer
  BY <1>13 DEF StopTimer, TypeCalls
<1>14. CASE ReceiveReady
  BY <1>14 DEF ReceiveReady, Receive, TypeCalls
<1>15. CASE ReceiveOutput
  BY <1>15, EventFields DEF ReceiveOutput, Receive, TypeCalls, TypeMessages
<1>16. CASE ReceiveFinished
  BY <1>16, EventFields DEF ReceiveFinished, Receive, Complete, TypeCalls, TypeMessages
<1>17. CASE HelperClosed
  BY <1>17 DEF HelperClosed, Complete, TypeCalls
<1>18. CASE \E c \in {0, 127} : LocalFinished(c)
  BY <1>18, JobType DEF LocalFinished, Complete, TypeCalls
<1>19. CASE UNCHANGED <<job, result, local, localSig, pc, call, ran, code>>
  BY <1>19 DEF TypeCalls
<1>20. ASSUME Refresh \/ OpenImage \/ Select PROVE UNCHANGED <<job, result, local,
     localSig, pc, call, ran, code>>
  BY <1>20 DEF Refresh, OpenImage, Select, Push
<1>21. ASSUME NEW p \in Mutations \cup {"unmount"}, PressMutation(p) PROVE UNCHANGED
     <<job, result, local, localSig, pc, call, ran, code>>
  BY <1>21 DEF PressMutation, Push
<1>22. ASSUME CompletedTail \/ DismissNote \/ DiscoveryTail \/ Chooser \/ ProbeTail PROVE
     UNCHANGED <<job, result, local, localSig, pc, call, ran, code>>
  BY <1>22 DEF CompletedTail, DismissNote, DiscoveryTail, Chooser, ProbeTail, Pop,
       MaybeFinishClose
<1>23. ASSUME DiscoveryDone \/ DiscoveryFailed \/ ProbeDone \/ ProbeFailed \/
     ReceiveStopResult PROVE UNCHANGED <<job, result, local, localSig, pc, call, ran,
     code>>
  BY <1>23 DEF DiscoveryDone, DiscoveryFailed, ProbeDone, ProbeFailed, ReceiveStopResult,
       MaybeFinishClose, Push, Receive
<1>24. ASSUME HelperAuth \/ HelperRun \/ HelperStop \/ HelperEnd \/ HelperFinish \/
     HelperDie PROVE UNCHANGED <<job, result, local, localSig, pc, call, ran, code>>
  BY <1>24 DEF HelperAuth, HelperRun, HelperStop, HelperEnd, HelperFinish, HelperDie,
       Helper, Emit
<1> QED
  BY <1>1, <1>2, <1>3, <1>4, <1>5, <1>6, <1>7, <1>8, <1>9, <1>10, <1>11, <1>12, <1>13,
       <1>14, <1>15, <1>16, <1>17, <1>18, <1>19, <1>20, <1>21, <1>22, <1>23, <1>24 DEF
       Next, User, Answer, Calls, Callbacks, HelperProcess, Terminated

(* Request ids. *)
LEMMA NumberTypes ==
  ASSUME TypeNumbers, [Next]_vars
  PROVE  TypeNumbers'
<1>1. CASE PressStop
  BY <1>1 DEF PressStop, RequestStop, Call, Goto, Push, TypeNumbers
<1>2. CASE Close
  BY <1>2 DEF Close, RequestStop, Call, Goto, Push, TypeNumbers
<1>3. CASE Submit
  BY <1>3 DEF Submit, Send, Call, Goto, Complete, TypeNumbers
<1>4. CASE Completed
  BY <1>4 DEF Completed, Goto, Push, TypeNumbers
<1>5. CASE UNCHANGED <<activeId, requestId>>
  BY <1>5 DEF TypeNumbers
<1>6. ASSUME PressAnalyse \/ Refresh \/ OpenImage \/ Select PROVE UNCHANGED <<activeId,
     requestId>>
  BY <1>6 DEF PressAnalyse, Refresh, OpenImage, Select, Analyse, Goto, Push
<1>7. ASSUME NEW p \in Mutations \cup {"unmount"}, PressMutation(p) PROVE UNCHANGED
     <<activeId, requestId>>
  BY <1>7 DEF PressMutation, Push
<1>8. ASSUME CompletedTail \/ DismissNote \/ DiscoveryTail \/ Chooser \/ ProbeTail PROVE
     UNCHANGED <<activeId, requestId>>
  BY <1>8 DEF CompletedTail, DismissNote, DiscoveryTail, Chooser, ProbeTail, Pop,
       MaybeFinishClose
<1>9. ASSUME NEW accept \in BOOLEAN, Confirm(accept) PROVE UNCHANGED <<activeId,
     requestId>>
  BY <1>9 DEF Confirm, Pop, Goto
<1>10. ASSUME StartRefused \/ Start \/ SubmitIdle \/ SubmitCancelled \/ StartHelper PROVE
     UNCHANGED <<activeId, requestId>>
  BY <1>10 DEF StartRefused, Start, SubmitIdle, SubmitCancelled, StartHelper, Push, Goto,
       Call, Complete
<1>11. ASSUME DiscoveryDone \/ DiscoveryFailed \/ ProbeDone \/ ProbeFailed \/
     SelectionIdle \/ StopTimer \/ ReceiveReady \/ ReceiveStopResult \/ ReceiveOutput \/
     ReceiveFinished \/ HelperClosed PROVE UNCHANGED <<activeId, requestId>>
  BY <1>11 DEF DiscoveryDone, DiscoveryFailed, ProbeDone, ProbeFailed, SelectionIdle,
       StopTimer, ReceiveReady, ReceiveStopResult, ReceiveOutput, ReceiveFinished,
       HelperClosed, MaybeFinishClose, Push, Analyse, Goto, Receive, Complete
<1>12. ASSUME HelperAuth \/ HelperRun \/ HelperStop \/ HelperEnd \/ HelperFinish \/
     HelperDie PROVE UNCHANGED <<activeId, requestId>>
  BY <1>12 DEF HelperAuth, HelperRun, HelperStop, HelperEnd, HelperFinish, HelperDie,
       Helper, Emit
<1>13. ASSUME \E c \in {0, 127} : LocalFinished(c) PROVE UNCHANGED <<activeId, requestId>>
  BY <1>13 DEF LocalFinished, Complete
<1> QED
  BY <1>1, <1>2, <1>3, <1>4, <1>5, <1>6, <1>7, <1>8, <1>9, <1>10, <1>11, <1>12, <1>13 DEF
       Next, User, Answer, Calls, Callbacks, HelperProcess, Terminated

(* Opening and closing dialogs. *)
LEMMA PlainDialog ==
  ASSUME TypeFlags, NEW k \in {"note", "completed", "discovery", "chooser", "probe"}
  PROVE  Dialog(k) \in Dialogs
<1>1. inRead \in BOOLEAN
  BY Zenon DEF TypeFlags
<1>2. TRUE \in BOOLEAN /\ None \in {None}
  OBVIOUS
<1>3. Dialog(k) \in [kind : {"note", "completed", "discovery", "chooser", "probe"}, job : {None},
                     fresh : BOOLEAN, reader : BOOLEAN]
  BY <1>1, <1>2, Zenon DEF Dialog
<1> QED
  BY <1>3, Zenon DEF Dialogs
LEMMA PushType ==
  ASSUME dialogs \in Seq(Dialogs), NEW d \in Dialogs, Push(d)
  PROVE  dialogs' \in Seq(Dialogs)
BY DEF Push
LEMMA PopType ==
  ASSUME dialogs \in Seq(Dialogs), dialogs # <<>>, Pop
  PROVE  dialogs' \in Seq(Dialogs)
BY DEF Pop
LEMMA DangleType ==
  ASSUME dialogs \in Seq(Dialogs)
  PROVE  Dangle \in Seq(Dialogs)
<1>1. \A d \in Dialogs : [d EXCEPT !.fresh = FALSE] \in Dialogs
  BY DEF Dialogs
<1>2. Len(dialogs) \in Nat /\ DOMAIN dialogs = 1 .. Len(dialogs)
  OBVIOUS
<1>3. Dangle \in [1 .. Len(dialogs) -> Dialogs]
  BY <1>1, <1>2 DEF Dangle
<1> QED
  BY <1>2, <1>3

(* A confirmation carries the change it asks about. *)
LEMMA DialogTypes ==
  ASSUME TypeFlags, TypeVolumes, TypeMessages, [Next]_vars
  PROVE  dialogs' \in Seq(Dialogs)
<1>1. ASSUME NEW p \in Mutations \cup {"unmount"}, PressMutation(p) PROVE dialogs' \in
     Seq(Dialogs)
  <2>1. \/ Push([Dialog("confirm") EXCEPT !.job = Job(p, sel)]) /\ sel # None
        \/ Push(Dialog("note"))
    BY <1>1 DEF PressMutation
  <2>2. ASSUME sel # None
        PROVE  [Dialog("confirm") EXCEPT !.job = Job(p, sel)] \in Dialogs
    <3>1. Job(p, sel) \in Changes
      BY <2>2, JobType DEF TypeVolumes, Changes, Mutations
    <3>2. inRead \in BOOLEAN /\ TRUE \in BOOLEAN
      BY Zenon DEF TypeFlags
    <3>3. Dialog("confirm") \in [kind : {"confirm"}, job : {None}, fresh : BOOLEAN,
                                 reader : BOOLEAN]
      BY <3>2, Zenon DEF Dialog
    <3>4. \A d \in [kind : {"confirm"}, job : {None}, fresh : BOOLEAN, reader : BOOLEAN] :
            \A ch \in Changes : [d EXCEPT !.job = ch] \in
              [kind : {"confirm"}, job : Changes, fresh : BOOLEAN, reader : BOOLEAN]
      OBVIOUS
    <3> QED
      BY <3>1, <3>3, <3>4, Zenon DEF Dialogs
  <2> QED
    BY <2>1, <2>2, PlainDialog, PushType DEF TypeMessages
<1>2. CASE PressStop
  <2>1. UNCHANGED dialogs \/ Push(Dialog("note"))
    BY <1>2 DEF PressStop, RequestStop, Call, Goto
  <2> QED
    BY <2>1, PlainDialog, PushType DEF TypeMessages
<1>3. CASE Close
  <2>1. UNCHANGED dialogs \/ Push(Dialog("note"))
    BY <1>3 DEF Close, RequestStop, Call, Goto
  <2> QED
    BY <2>1, PlainDialog, PushType DEF TypeMessages
<1>4. CASE Refresh
  <2>1. UNCHANGED dialogs \/ Push(Dialog("note"))
    BY <1>4 DEF Refresh
  <2> QED
    BY <2>1, PlainDialog, PushType DEF TypeMessages
<1>5. CASE OpenImage
  <2>1. UNCHANGED dialogs \/ Push(Dialog("chooser"))
    BY <1>5 DEF OpenImage
  <2> QED
    BY <2>1, PlainDialog, PushType DEF TypeMessages
<1>6. ASSUME NEW accept \in BOOLEAN, Confirm(accept) PROVE dialogs' \in Seq(Dialogs)
  BY <1>6, PopType DEF Confirm, Top, TypeMessages
<1>7. CASE CompletedTail
  BY <1>7, PopType DEF CompletedTail, Top, TypeMessages
<1>8. CASE DismissNote
  BY <1>8, PopType DEF DismissNote, Top, TypeMessages
<1>9. CASE DiscoveryTail
  BY <1>9, PopType DEF DiscoveryTail, Top, TypeMessages
<1>10. CASE Chooser
  <2>1. dialogs # <<>> /\ (Pop \/ dialogs' = <<Dialog("note")>> \o Tail(dialogs))
    BY <1>10 DEF Chooser, Top
  <2>2. Dialog("note") \in Dialogs /\ dialogs \in Seq(Dialogs)
    BY PlainDialog DEF TypeMessages
  <2>3. Tail(dialogs) \in Seq(Dialogs)
    BY <2>1, <2>2
  <2>4. <<Dialog("note")>> \o Tail(dialogs) \in Seq(Dialogs)
    BY <2>2, <2>3
  <2> QED
    BY <2>1, <2>3, <2>4, Zenon DEF Pop
<1>11. CASE ProbeTail
  BY <1>11, PopType DEF ProbeTail, Top, TypeMessages
<1>12. CASE StartRefused
  <2>1. UNCHANGED dialogs \/ Push(Dialog("note"))
    BY <1>12 DEF StartRefused, Goto
  <2> QED
    BY <2>1, PlainDialog, PushType DEF TypeMessages
<1>13. CASE Completed
  <2>1. UNCHANGED dialogs \/ Push(Dialog("completed"))
    BY <1>13 DEF Completed, Goto
  <2> QED
    BY <2>1, PlainDialog, PushType DEF TypeMessages
<1>14. CASE DiscoveryDone
  BY <1>14, DangleType DEF DiscoveryDone, TypeMessages
<1>15. CASE DiscoveryFailed
  <2>1. UNCHANGED dialogs \/ Push(Dialog("discovery"))
    BY <1>15 DEF DiscoveryFailed, MaybeFinishClose
  <2> QED
    BY <2>1, PlainDialog, PushType DEF TypeMessages
<1>16. CASE ProbeDone
  BY <1>16, DangleType DEF ProbeDone, TypeMessages
<1>17. CASE ProbeFailed
  <2>1. UNCHANGED dialogs \/ Push(Dialog("probe"))
    BY <1>17 DEF ProbeFailed, MaybeFinishClose
  <2> QED
    BY <2>1, PlainDialog, PushType DEF TypeMessages
<1>18. CASE UNCHANGED <<dialogs>>
  BY <1>18 DEF TypeMessages
<1>19. ASSUME PressAnalyse \/ Select PROVE UNCHANGED <<dialogs>>
  BY <1>19 DEF PressAnalyse, Select, Analyse, Goto
<1>20. ASSUME Start \/ SubmitIdle \/ SubmitCancelled \/ Submit \/ StartHelper PROVE
     UNCHANGED <<dialogs>>
  BY <1>20 DEF Start, SubmitIdle, SubmitCancelled, Submit, StartHelper, Call, Goto,
       Complete, Send
<1>21. ASSUME SelectionIdle \/ StopTimer \/ ReceiveReady \/ ReceiveStopResult \/
     ReceiveOutput \/ ReceiveFinished \/ HelperClosed PROVE UNCHANGED <<dialogs>>
  BY <1>21 DEF SelectionIdle, StopTimer, ReceiveReady, ReceiveStopResult, ReceiveOutput,
       ReceiveFinished, HelperClosed, Analyse, Goto, Receive, Complete
<1>22. ASSUME HelperAuth \/ HelperRun \/ HelperStop \/ HelperEnd \/ HelperFinish \/
     HelperDie PROVE UNCHANGED <<dialogs>>
  BY <1>22 DEF HelperAuth, HelperRun, HelperStop, HelperEnd, HelperFinish, HelperDie,
       Helper, Emit
<1>23. ASSUME \E c \in {0, 127} : LocalFinished(c) PROVE UNCHANGED <<dialogs>>
  BY <1>23 DEF LocalFinished, Complete
<1> QED
  BY <1>1, <1>2, <1>3, <1>4, <1>5, <1>6, <1>7, <1>8, <1>9, <1>10, <1>11, <1>12, <1>13,
       <1>14, <1>15, <1>16, <1>17, <1>18, <1>19, <1>20, <1>21, <1>22, <1>23 DEF Next,
       User, Answer, Calls, Callbacks, HelperProcess, Terminated

(* The requests written. *)
LEMMA LineTypes ==
  ASSUME TypeCalls, TypeNumbers, TypeMessages, [Next]_vars
  PROVE  toHelper' \in Seq(Lines)
<1>1. CASE PressStop
  <2>1. \/ toHelper' = Append(toHelper, [action |-> "stop", for |-> activeId])
        \/ UNCHANGED toHelper
    BY <1>1 DEF PressStop, RequestStop, Call, Goto, Push
  <2>2. [action |-> "stop", for |-> activeId] \in Lines
    BY DEF Lines, StopLines, TypeNumbers
  <2>3. toHelper \in Seq(Lines)
    BY DEF TypeMessages
  <2> QED
    BY <2>1, <2>2, <2>3
<1>2. CASE Close
  <2>1. \/ toHelper' = Append(toHelper, [action |-> "stop", for |-> activeId])
        \/ UNCHANGED toHelper
    BY <1>2 DEF Close, RequestStop, Call, Goto, Push
  <2>2. [action |-> "stop", for |-> activeId] \in Lines
    BY DEF Lines, StopLines, TypeNumbers
  <2>3. toHelper \in Seq(Lines)
    BY DEF TypeMessages
  <2> QED
    BY <2>1, <2>2, <2>3
<1>3. CASE Submit
  <2>1. toHelper' = Append(toHelper, Run) \/ UNCHANGED toHelper
    BY <1>3 DEF Submit, Send
  <2>2. Run \in Lines
    BY DEF Run, Lines, RunLines, TypeCalls, TypeNumbers
  <2>3. toHelper \in Seq(Lines)
    BY DEF TypeMessages
  <2> QED
    BY <2>1, <2>2, <2>3
<1>4. CASE HelperClosed
  BY <1>4 DEF HelperClosed, Complete, TypeMessages
<1>5. CASE HelperRun
  BY <1>5 DEF HelperRun, Helper, TypeMessages
<1>6. CASE HelperStop
  BY <1>6 DEF HelperStop, Helper, Emit, TypeMessages
<1>7. CASE UNCHANGED <<toHelper>>
  BY <1>7 DEF TypeMessages
<1>8. ASSUME PressAnalyse \/ Refresh \/ OpenImage \/ Select PROVE UNCHANGED <<toHelper>>
  BY <1>8 DEF PressAnalyse, Refresh, OpenImage, Select, Analyse, Goto, Push
<1>9. ASSUME NEW p \in Mutations \cup {"unmount"}, PressMutation(p) PROVE UNCHANGED
     <<toHelper>>
  BY <1>9 DEF PressMutation, Push
<1>10. ASSUME CompletedTail \/ DismissNote \/ DiscoveryTail \/ Chooser \/ ProbeTail PROVE
     UNCHANGED <<toHelper>>
  BY <1>10 DEF CompletedTail, DismissNote, DiscoveryTail, Chooser, ProbeTail, Pop,
       MaybeFinishClose
<1>11. ASSUME NEW accept \in BOOLEAN, Confirm(accept) PROVE UNCHANGED <<toHelper>>
  BY <1>11 DEF Confirm, Pop, Goto
<1>12. ASSUME StartRefused \/ Start \/ SubmitIdle \/ SubmitCancelled \/ StartHelper \/
     Completed PROVE UNCHANGED <<toHelper>>
  BY <1>12 DEF StartRefused, Start, SubmitIdle, SubmitCancelled, StartHelper, Completed,
       Push, Goto, Call, Complete
<1>13. ASSUME DiscoveryDone \/ DiscoveryFailed \/ ProbeDone \/ ProbeFailed \/
     SelectionIdle \/ StopTimer \/ ReceiveReady \/ ReceiveStopResult \/ ReceiveOutput \/
     ReceiveFinished PROVE UNCHANGED <<toHelper>>
  BY <1>13 DEF DiscoveryDone, DiscoveryFailed, ProbeDone, ProbeFailed, SelectionIdle,
       StopTimer, ReceiveReady, ReceiveStopResult, ReceiveOutput, ReceiveFinished,
       MaybeFinishClose, Push, Analyse, Goto, Receive, Complete
<1>14. ASSUME HelperAuth \/ HelperEnd \/ HelperFinish \/ HelperDie PROVE UNCHANGED
     <<toHelper>>
  BY <1>14 DEF HelperAuth, HelperEnd, HelperFinish, HelperDie, Helper, Emit
<1>15. ASSUME \E c \in {0, 127} : LocalFinished(c) PROVE UNCHANGED <<toHelper>>
  BY <1>15 DEF LocalFinished, Complete
<1> QED
  BY <1>1, <1>2, <1>3, <1>4, <1>5, <1>6, <1>7, <1>8, <1>9, <1>10, <1>11, <1>12, <1>13,
       <1>14, <1>15 DEF Next, User, Answer, Calls, Callbacks, HelperProcess, Terminated

(* The helper's lines. *)
LEMMA EmitType ==
  ASSUME TypeMessages, NEW e \in Events, Emit(e)
  PROVE  fromHelper' \in Seq(Events)
BY DEF Emit, TypeMessages

(* What it says. *)
LEMMA EventTypes ==
  ASSUME TypeMessages, [Next]_vars
  PROVE  fromHelper' \in Seq(Events)
<1>1. CASE ReceiveReady
  BY <1>1 DEF ReceiveReady, Receive, TypeMessages
<1>2. CASE ReceiveStopResult
  BY <1>2 DEF ReceiveStopResult, Receive, TypeMessages
<1>3. CASE ReceiveOutput
  BY <1>3 DEF ReceiveOutput, Receive, TypeMessages
<1>4. CASE ReceiveFinished
  BY <1>4 DEF ReceiveFinished, Receive, TypeMessages
<1>5. CASE HelperAuth
  BY <1>5, EmitType DEF HelperAuth, Events, TypeMessages
<1>6. CASE HelperStop
  <2>1. [type |-> "stop-result", delivered |-> hrun # None] \in Events
    <3>1. (hrun # None) \in BOOLEAN
      OBVIOUS
    <3> QED
      BY <3>1, Zenon DEF Events
  <2> QED
    BY <1>6, <2>1, EmitType DEF HelperStop
<1>7. CASE HelperEnd
  <2>1. hrun \in RunLines
    BY <1>7 DEF HelperEnd, TypeMessages
  <2>2. \A r \in {"done", "stopped", "failed"} :
          [type |-> "output", id |-> hrun.id, result |-> r] \in Events
    BY <2>1 DEF RunLines, Events
  <2>3. UNCHANGED fromHelper \/ \E r \in {"done", "stopped", "failed"} :
          Emit([type |-> "output", id |-> hrun.id, result |-> r])
    BY <1>7 DEF HelperEnd
  <2> QED
    BY <2>2, <2>3, EmitType DEF TypeMessages
<1>8. CASE HelperFinish
  <2>1. hfin \in Events /\ Emit(hfin)
    BY <1>8 DEF HelperFinish, TypeMessages, Events
  <2> QED
    BY <2>1, EmitType
<1>9. CASE UNCHANGED <<fromHelper>>
  BY <1>9 DEF TypeMessages
<1>10. ASSUME PressAnalyse \/ PressStop \/ Close \/ Refresh \/ OpenImage \/ Select PROVE
     UNCHANGED <<fromHelper>>
  BY <1>10 DEF PressAnalyse, PressStop, Close, Refresh, OpenImage, Select, Analyse, Goto,
       RequestStop, Call, Push
<1>11. ASSUME NEW p \in Mutations \cup {"unmount"}, PressMutation(p) PROVE UNCHANGED
     <<fromHelper>>
  BY <1>11 DEF PressMutation, Push
<1>12. ASSUME CompletedTail \/ DismissNote \/ DiscoveryTail \/ Chooser \/ ProbeTail PROVE
     UNCHANGED <<fromHelper>>
  BY <1>12 DEF CompletedTail, DismissNote, DiscoveryTail, Chooser, ProbeTail, Pop,
       MaybeFinishClose
<1>13. ASSUME NEW accept \in BOOLEAN, Confirm(accept) PROVE UNCHANGED <<fromHelper>>
  BY <1>13 DEF Confirm, Pop, Goto
<1>14. ASSUME StartRefused \/ Start \/ SubmitIdle \/ SubmitCancelled \/ Submit \/
     StartHelper \/ Completed PROVE UNCHANGED <<fromHelper>>
  BY <1>14 DEF StartRefused, Start, SubmitIdle, SubmitCancelled, Submit, StartHelper,
       Completed, Push, Goto, Call, Complete, Send
<1>15. ASSUME DiscoveryDone \/ DiscoveryFailed \/ ProbeDone \/ ProbeFailed \/
     SelectionIdle \/ StopTimer \/ HelperClosed PROVE UNCHANGED <<fromHelper>>
  BY <1>15 DEF DiscoveryDone, DiscoveryFailed, ProbeDone, ProbeFailed, SelectionIdle,
       StopTimer, HelperClosed, MaybeFinishClose, Push, Analyse, Goto, Complete
<1>16. ASSUME HelperRun \/ HelperDie PROVE UNCHANGED <<fromHelper>>
  BY <1>16 DEF HelperRun, HelperDie, Helper
<1>17. ASSUME \E c \in {0, 127} : LocalFinished(c) PROVE UNCHANGED <<fromHelper>>
  BY <1>17 DEF LocalFinished, Complete
<1> QED
  BY <1>1, <1>2, <1>3, <1>4, <1>5, <1>6, <1>7, <1>8, <1>9, <1>10, <1>11, <1>12, <1>13,
       <1>14, <1>15, <1>16, <1>17 DEF Next, User, Answer, Calls, Callbacks, HelperProcess,
       Terminated

(* The run it supervises and the end it has to report. *)
LEMMA HelperTypes ==
  ASSUME TypeMessages, [Next]_vars
  PROVE  hrun' \in RunLines \cup {None} /\ hfin' \in Finals \cup {None}
<1>1. CASE HelperRun
  <2>1. Head(toHelper) \in Lines
    BY <1>1 DEF HelperRun, TypeMessages
  <2> QED
    BY <1>1, <2>1, LineFields DEF HelperRun, TypeMessages
<1>2. CASE HelperStop
  BY <1>2 DEF HelperStop, Helper, Emit, TypeMessages
<1>3. CASE HelperEnd
  <2>1. hrun \in RunLines
    BY <1>3 DEF HelperEnd, TypeMessages
  <2>2. PICK c \in {0, 1} : hfin' = [type |-> "finished", id |-> hrun.id, code |-> c,
                                     job |-> hrun.job]
    BY <1>3 DEF HelperEnd
  <2> QED
    BY <1>3, <2>1, <2>2 DEF HelperEnd, RunLines, Finals
<1>4. CASE HelperFinish
  BY <1>4 DEF HelperFinish, Helper, Emit, TypeMessages
<1>5. CASE HelperDie
  BY <1>5 DEF HelperDie, Helper, TypeMessages
<1>6. CASE UNCHANGED <<hrun, hfin>>
  BY <1>6 DEF TypeMessages
<1>7. ASSUME PressAnalyse \/ PressStop \/ Close \/ Refresh \/ OpenImage \/ Select PROVE
     UNCHANGED <<hrun, hfin>>
  BY <1>7 DEF PressAnalyse, PressStop, Close, Refresh, OpenImage, Select, Analyse, Goto,
       RequestStop, Call, Push
<1>8. ASSUME NEW p \in Mutations \cup {"unmount"}, PressMutation(p) PROVE UNCHANGED
     <<hrun, hfin>>
  BY <1>8 DEF PressMutation, Push
<1>9. ASSUME CompletedTail \/ DismissNote \/ DiscoveryTail \/ Chooser \/ ProbeTail PROVE
     UNCHANGED <<hrun, hfin>>
  BY <1>9 DEF CompletedTail, DismissNote, DiscoveryTail, Chooser, ProbeTail, Pop,
       MaybeFinishClose
<1>10. ASSUME NEW accept \in BOOLEAN, Confirm(accept) PROVE UNCHANGED <<hrun, hfin>>
  BY <1>10 DEF Confirm, Pop, Goto
<1>11. ASSUME StartRefused \/ Start \/ SubmitIdle \/ SubmitCancelled \/ Submit \/
     StartHelper \/ Completed PROVE UNCHANGED <<hrun, hfin>>
  BY <1>11 DEF StartRefused, Start, SubmitIdle, SubmitCancelled, Submit, StartHelper,
       Completed, Push, Goto, Call, Complete, Send
<1>12. ASSUME DiscoveryDone \/ DiscoveryFailed \/ ProbeDone \/ ProbeFailed \/
     SelectionIdle \/ StopTimer \/ ReceiveReady \/ ReceiveStopResult \/ ReceiveOutput \/
     ReceiveFinished \/ HelperClosed PROVE UNCHANGED <<hrun, hfin>>
  BY <1>12 DEF DiscoveryDone, DiscoveryFailed, ProbeDone, ProbeFailed, SelectionIdle,
       StopTimer, ReceiveReady, ReceiveStopResult, ReceiveOutput, ReceiveFinished,
       HelperClosed, MaybeFinishClose, Push, Analyse, Goto, Receive, Complete
<1>13. ASSUME HelperAuth PROVE UNCHANGED <<hrun, hfin>>
  BY <1>13 DEF HelperAuth, Helper, Emit
<1>14. ASSUME \E c \in {0, 127} : LocalFinished(c) PROVE UNCHANGED <<hrun, hfin>>
  BY <1>14 DEF LocalFinished, Complete
<1> QED
  BY <1>1, <1>2, <1>3, <1>4, <1>5, <1>6, <1>7, <1>8, <1>9, <1>10, <1>11, <1>12, <1>13,
       <1>14 DEF Next, User, Answer, Calls, Callbacks, HelperProcess, Terminated

(* All types, as TypeOK and TypePipes state them. *)
TypeTransport == transport \in {"none", "auth", "up", "gone"}
LEMMA TransportTypes == TypeTransport /\ [Next]_vars => TypeTransport'
<1> SUFFICES ASSUME TypeTransport, [Next]_vars PROVE TypeTransport'
  OBVIOUS
<1>1. CASE StartHelper
  BY <1>1 DEF StartHelper, Call, Goto, Complete, TypeTransport
<1>2. CASE HelperClosed
  BY <1>2 DEF HelperClosed, Complete, TypeTransport
<1>3. CASE HelperAuth
  BY <1>3 DEF HelperAuth, Helper, Emit, TypeTransport
<1>4. CASE HelperDie
  BY <1>4 DEF HelperDie, Helper, TypeTransport
<1>5. CASE UNCHANGED <<transport>>
  BY <1>5 DEF TypeTransport
<1>6. ASSUME PressAnalyse \/ PressStop \/ Close \/ Refresh \/ OpenImage \/ Select PROVE
     UNCHANGED <<transport>>
  BY <1>6 DEF PressAnalyse, PressStop, Close, Refresh, OpenImage, Select, Analyse, Goto,
       RequestStop, Call, Push
<1>7. ASSUME NEW p \in Mutations \cup {"unmount"}, PressMutation(p) PROVE UNCHANGED
     <<transport>>
  BY <1>7 DEF PressMutation, Push
<1>8. ASSUME CompletedTail \/ DismissNote \/ DiscoveryTail \/ Chooser \/ ProbeTail PROVE
     UNCHANGED <<transport>>
  BY <1>8 DEF CompletedTail, DismissNote, DiscoveryTail, Chooser, ProbeTail, Pop,
       MaybeFinishClose
<1>9. ASSUME NEW accept \in BOOLEAN, Confirm(accept) PROVE UNCHANGED <<transport>>
  BY <1>9 DEF Confirm, Pop, Goto
<1>10. ASSUME StartRefused \/ Start \/ SubmitIdle \/ SubmitCancelled \/ Submit \/
     Completed PROVE UNCHANGED <<transport>>
  BY <1>10 DEF StartRefused, Start, SubmitIdle, SubmitCancelled, Submit, Completed, Push,
       Goto, Call, Complete, Send
<1>11. ASSUME DiscoveryDone \/ DiscoveryFailed \/ ProbeDone \/ ProbeFailed \/
     SelectionIdle \/ StopTimer \/ ReceiveReady \/ ReceiveStopResult \/ ReceiveOutput \/
     ReceiveFinished PROVE UNCHANGED <<transport>>
  BY <1>11 DEF DiscoveryDone, DiscoveryFailed, ProbeDone, ProbeFailed, SelectionIdle,
       StopTimer, ReceiveReady, ReceiveStopResult, ReceiveOutput, ReceiveFinished,
       MaybeFinishClose, Push, Analyse, Goto, Receive, Complete
<1>12. ASSUME HelperRun \/ HelperStop \/ HelperEnd \/ HelperFinish PROVE UNCHANGED
     <<transport>>
  BY <1>12 DEF HelperRun, HelperStop, HelperEnd, HelperFinish, Helper, Emit
<1>13. ASSUME \E c \in {0, 127} : LocalFinished(c) PROVE UNCHANGED <<transport>>
  BY <1>13 DEF LocalFinished, Complete
<1> QED
  BY <1>1, <1>2, <1>3, <1>4, <1>5, <1>6, <1>7, <1>8, <1>9, <1>10, <1>11, <1>12, <1>13 DEF
       Next, User, Answer, Calls, Callbacks, HelperProcess, Terminated

LEMMA Types ==
  TypeOK /\ TypePipes <=> /\ TypeFlags /\ TypeVolumes /\ TypeCalls /\ TypeNumbers
                          /\ TypeMessages /\ TypeTransport
<1>1. ASSUME TypeOK, TypePipes
      PROVE  TypeFlags
  BY <1>1, Zenon DEF TypeOK, TypePipes, TypeFlags
<1>2. ASSUME TypeOK, TypePipes
      PROVE  TypeVolumes /\ TypeCalls
  BY <1>2, Zenon DEF TypeOK, TypePipes, TypeVolumes, TypeCalls
<1>3. ASSUME TypeOK, TypePipes
      PROVE  TypeNumbers /\ TypeMessages /\ TypeTransport
  BY <1>3, Zenon DEF TypeOK, TypePipes, TypeNumbers, TypeMessages, TypeTransport
<1>4. ASSUME TypeFlags, TypeVolumes, TypeCalls, TypeNumbers, TypeMessages, TypeTransport
      PROVE  TypeOK
  BY <1>4, Zenon DEF TypeOK, TypeFlags, TypeVolumes, TypeCalls, TypeNumbers, TypeTransport
<1>5. ASSUME TypeFlags, TypeVolumes, TypeCalls, TypeMessages
      PROVE  TypePipes
  BY <1>5, Zenon DEF TypePipes, TypeFlags, TypeVolumes, TypeCalls, TypeMessages
<1> QED
  BY <1>1, <1>2, <1>3, <1>4, <1>5
LEMMA TypeStep == TypeOK /\ TypePipes /\ [Next]_vars => TypeOK' /\ TypePipes'
<1> SUFFICES ASSUME TypeOK, TypePipes, [Next]_vars PROVE TypeOK' /\ TypePipes'
  OBVIOUS
<1>1. TypeFlags /\ TypeVolumes /\ TypeCalls /\ TypeNumbers /\ TypeMessages /\ TypeTransport
  BY Types
<1>2. TypeFlags' /\ TypeVolumes' /\ TypeCalls' /\ TypeNumbers' /\ TypeTransport'
  BY <1>1, FlagTypes, VolumeTypes, CallTypes, NumberTypes, TransportTypes
<1>3. TypeMessages'
  BY <1>1, DialogTypes, LineTypes, EventTypes, HelperTypes DEF TypeMessages
<1>4. (TypeOK /\ TypePipes)'
  BY <1>2, <1>3, Types, PTL
<1> QED
  BY <1>4

-----------------------------------------------------------------------------
(* The parts of the invariant, one after the other *)

(* No call of start() for an analysis finds a run at the helper. *)
LEMMA ActiveStep ==
  ASSUME TypeMessages, ActiveInv, [Next]_vars
  PROVE  ActiveInv'
<1>1. CASE PressAnalyse
  BY <1>1 DEF PressAnalyse, Analyse, Goto, ActiveInv, AtWindow, Serving
<1>2. CASE PressStop
  BY <1>2 DEF PressStop, RequestStop, Call, Goto, Push, ActiveInv, AtWindow, Serving
<1>3. CASE Close
  BY <1>3 DEF Close, RequestStop, Call, Goto, Push, ActiveInv, AtWindow, Serving
<1>4. ASSUME NEW accept \in BOOLEAN, Confirm(accept) PROVE ActiveInv'
  <2>1. CASE accept
    <3>1. /\ call'.purpose # "analysis" /\ pc = "loop"
          /\ UNCHANGED <<activeId, busy, local, helperReady>>
      BY <1>4, <2>1, ConfirmCall DEF Confirm, Top, Serving
    <3> QED
      BY <3>1 DEF ActiveInv
  <2>2. CASE ~accept
    BY <1>4, <2>2 DEF Confirm, ActiveInv
  <2> QED
    BY <2>1, <2>2
<1>5. CASE StartRefused
  BY <1>5 DEF StartRefused, Push, Goto, ActiveInv
<1>6. CASE Start
  BY <1>6 DEF Start, Call, Goto, Complete, ActiveInv
<1>7. CASE SubmitIdle
  BY <1>7 DEF SubmitIdle, Call, Goto, ActiveInv
<1>8. CASE SubmitCancelled
  BY <1>8 DEF SubmitCancelled, Complete, ActiveInv
<1>9. CASE Submit
  <2>1. /\ busy /\ helperReady /\ local = None /\ UNCHANGED <<busy, helperReady, local>>
        /\ pc' \in {"loop", "completed"}
    BY <1>9 DEF Submit, Send, Call, Goto, Complete
  <2> QED
    BY <2>1 DEF ActiveInv
<1>10. CASE StartHelper
  BY <1>10 DEF StartHelper, Call, Goto, Complete, ActiveInv
<1>11. CASE Completed
  <2>1. activeId' = 0
    BY <1>11 DEF Completed
  <2> QED
    BY <2>1 DEF ActiveInv
<1>12. CASE SelectionIdle
  BY <1>12 DEF SelectionIdle, Analyse, Goto, ActiveInv, AtWindow, Serving
<1>13. CASE ReceiveReady
  BY <1>13 DEF ReceiveReady, Receive, ActiveInv
<1>14. CASE ReceiveFinished
  BY <1>14 DEF ReceiveFinished, Receive, Complete, ActiveInv
<1>15. CASE HelperClosed
  BY <1>15 DEF HelperClosed, Complete, ActiveInv
<1>16. CASE \E c \in {0, 127} : LocalFinished(c)
  <2>1. local # None /\ pc' = "completed" /\ UNCHANGED activeId
    BY <1>16 DEF LocalFinished, Complete
  <2> QED
    BY <2>1 DEF ActiveInv
<1>17. CASE UNCHANGED <<activeId, busy, local, helperReady, pc, call>>
  BY <1>17 DEF ActiveInv
<1>18. ASSUME Refresh \/ OpenImage \/ Select PROVE UNCHANGED <<activeId, busy, local,
     helperReady, pc, call>>
  BY <1>18 DEF Refresh, OpenImage, Select, Push
<1>19. ASSUME NEW p \in Mutations \cup {"unmount"}, PressMutation(p) PROVE UNCHANGED
     <<activeId, busy, local, helperReady, pc, call>>
  BY <1>19 DEF PressMutation, Push
<1>20. ASSUME CompletedTail \/ DismissNote \/ DiscoveryTail \/ Chooser \/ ProbeTail PROVE
     UNCHANGED <<activeId, busy, local, helperReady, pc, call>>
  BY <1>20 DEF CompletedTail, DismissNote, DiscoveryTail, Chooser, ProbeTail, Pop,
       MaybeFinishClose
<1>21. ASSUME DiscoveryDone \/ DiscoveryFailed \/ ProbeDone \/ ProbeFailed \/ StopTimer \/
     ReceiveStopResult \/ ReceiveOutput PROVE UNCHANGED <<activeId, busy, local,
     helperReady, pc, call>>
  BY <1>21 DEF DiscoveryDone, DiscoveryFailed, ProbeDone, ProbeFailed, StopTimer,
       ReceiveStopResult, ReceiveOutput, MaybeFinishClose, Push, Receive
<1>22. ASSUME HelperAuth \/ HelperRun \/ HelperStop \/ HelperEnd \/ HelperFinish \/
     HelperDie PROVE UNCHANGED <<activeId, busy, local, helperReady, pc, call>>
  BY <1>22 DEF HelperAuth, HelperRun, HelperStop, HelperEnd, HelperFinish, HelperDie,
       Helper, Emit
<1> QED
  BY <1>1, <1>2, <1>3, <1>4, <1>5, <1>6, <1>7, <1>8, <1>9, <1>10, <1>11, <1>12, <1>13,
       <1>14, <1>15, <1>16, <1>17, <1>18, <1>19, <1>20, <1>21, <1>22 DEF Next, User,
       Answer, Calls, Callbacks, HelperProcess, Terminated

(* What is left of a queue whose first line was read, and what was added to one. *)
LEMMA ReadLine ==
  ASSUME toHelper \in Seq(Lines), toHelper # <<>>, toHelper' = Tail(toHelper), NEW a
  PROVE  \A i \in Queued(a)' : /\ i \in Nat /\ i + 1 \in Queued(a) /\ i + 1 # 1
                               /\ toHelper'[i] = toHelper[i + 1]
BY DEF Queued
LEMMA WrittenLine ==
  ASSUME toHelper \in Seq(Lines), NEW l \in Lines, toHelper' = Append(toHelper, l), NEW a
  PROVE  /\ l.action # a => Queued(a)' = Queued(a)
         /\ l.action = a => Queued(a)' = Queued(a) \cup {Len(toHelper) + 1}
         /\ \A i \in Queued(a) : toHelper'[i] = toHelper[i] /\ i \in 1 .. Len(toHelper)
         /\ toHelper'[Len(toHelper) + 1] = l
BY DEF Queued
LEMMA ReadEvent ==
  ASSUME fromHelper \in Seq(Events), fromHelper # <<>>, fromHelper' = Tail(fromHelper)
  PROVE  /\ Head(fromHelper).type = "finished" => 1 \in Ended
         /\ \A i \in Ended' : /\ i \in Nat /\ i + 1 \in Ended /\ i + 1 # 1
                              /\ fromHelper'[i] = fromHelper[i + 1]
BY DEF Ended
LEMMA EmittedEvent ==
  ASSUME fromHelper \in Seq(Events), NEW e \in Events, Emit(e)
  PROVE  /\ e.type # "finished" => Ended' = Ended
         /\ e.type = "finished" => Ended' = Ended \cup {Len(fromHelper) + 1}
         /\ \A i \in Ended : fromHelper'[i] = fromHelper[i] /\ i \in 1 .. Len(fromHelper)
         /\ fromHelper'[Len(fromHelper) + 1] = e
BY DEF Ended, Emit

(* A stop request is written while a run is active. *)
LEMMA StopWritten ==
  ASSUME TypeNumbers, TypeMessages, PressStop \/ Close
  PROVE  /\ UNCHANGED <<activeId, hrun, hfin, fromHelper, transport, helperReady>>
         /\ pc = "loop" /\ pc' # "completed"
         /\ \/ UNCHANGED toHelper
            \/ /\ activeId # 0 /\ [action |-> "stop", for |-> activeId] \in Lines
               /\ toHelper' = Append(toHelper, [action |-> "stop", for |-> activeId])
<1>1. [action |-> "stop", for |-> activeId] \in Lines
  BY DEF Lines, StopLines, TypeNumbers
<1>2. UNCHANGED <<activeId, hrun, hfin, fromHelper, transport, helperReady>>
  BY DEF PressStop, Close
<1>3. pc = "loop" /\ pc' # "completed"
  BY DEF PressStop, Close, RequestStop, Call, Goto, AtWindow, Serving
<1>4. \/ UNCHANGED toHelper
      \/ activeId # 0 /\ toHelper' = Append(toHelper, [action |-> "stop", for |-> activeId])
  BY DEF PressStop, Close, RequestStop
<1> QED
  BY <1>1, <1>2, <1>3, <1>4

(* A new helper finds empty pipes. *)
LEMMA TransportStep ==
  ASSUME TypeNumbers, TypeMessages, ActiveInv, TransportInv, [Next]_vars
  PROVE  TransportInv'
<1>1. CASE PressStop
  <2>1. UNCHANGED toHelper \/ helperReady
    BY <1>1, StopWritten DEF ActiveInv
  <2> QED
    BY <1>1, <2>1, StopWritten DEF TransportInv
<1>2. CASE Close
  <2>1. UNCHANGED toHelper \/ helperReady
    BY <1>2, StopWritten DEF ActiveInv
  <2> QED
    BY <1>2, <2>1, StopWritten DEF TransportInv
<1>3. CASE Submit
  <2>1. helperReady /\ UNCHANGED <<transport, hrun, hfin, fromHelper, helperReady>>
    BY <1>3 DEF Submit, Send
  <2> QED
    BY <2>1 DEF TransportInv
<1>4. CASE StartHelper
  <2>1. /\ UNCHANGED <<hrun, hfin, fromHelper, helperReady, toHelper>>
        /\ transport' = transport \/ (transport = "none" /\ transport' = "auth")
    BY <1>4 DEF StartHelper
  <2> QED
    BY <2>1 DEF TransportInv
<1>5. CASE ReceiveReady
  <2>1. /\ helperReady' /\ fromHelper # <<>> /\ UNCHANGED <<transport, hrun, hfin>>
    BY <1>5 DEF ReceiveReady, Receive
  <2> QED
    BY <2>1 DEF TransportInv
<1>6. CASE ReceiveStopResult
  <2>1. /\ fromHelper # <<>> /\ Head(fromHelper).type = "stop-result"
        /\ UNCHANGED <<helperReady, transport, hrun, hfin>>
    BY <1>6 DEF ReceiveStopResult, Receive
  <2>2. helperReady
    BY <2>1 DEF TransportInv, TypeMessages
  <2> QED
    BY <2>1, <2>2 DEF TransportInv
<1>7. CASE ReceiveOutput
  <2>1. /\ fromHelper # <<>> /\ Head(fromHelper).type = "output"
        /\ UNCHANGED <<helperReady, transport, hrun, hfin>>
    BY <1>7 DEF ReceiveOutput, Receive
  <2>2. helperReady
    BY <2>1 DEF TransportInv, TypeMessages
  <2> QED
    BY <2>1, <2>2 DEF TransportInv
<1>8. CASE ReceiveFinished
  <2>1. /\ fromHelper # <<>> /\ Head(fromHelper).type = "finished"
        /\ UNCHANGED <<helperReady, transport, hrun, hfin>>
    BY <1>8 DEF ReceiveFinished, Receive
  <2>2. helperReady
    BY <2>1 DEF TransportInv, TypeMessages
  <2> QED
    BY <2>1, <2>2 DEF TransportInv
<1>9. CASE HelperClosed
  <2>1. /\ transport = "gone" /\ transport' = "none" /\ ~helperReady' /\ toHelper' = <<>>
        /\ fromHelper = <<>> /\ UNCHANGED <<fromHelper, hrun, hfin>>
    BY <1>9 DEF HelperClosed
  <2> QED
    BY <2>1 DEF TransportInv
<1>10. CASE HelperAuth
  <2>1. /\ transport = "auth" /\ transport' \in {"up", "gone"}
        /\ UNCHANGED <<toHelper, hrun, hfin, helperReady>>
        /\ UNCHANGED fromHelper \/ fromHelper' = Append(fromHelper, [type |-> "ready"])
    BY <1>10 DEF HelperAuth, Helper, Emit
  <2>2. fromHelper = <<>> /\ ~helperReady
    BY <2>1 DEF TransportInv
  <2>3. \A i \in DOMAIN fromHelper' : fromHelper'[i].type = "ready"
    BY <2>1, <2>2
  <2> QED
    BY <2>1, <2>2, <2>3 DEF TransportInv
<1>11. CASE HelperRun
  <2>1. toHelper # <<>> /\ transport = "up" /\ UNCHANGED <<transport, helperReady>>
    BY <1>11 DEF HelperRun, Helper
  <2> QED
    BY <2>1 DEF TransportInv
<1>12. CASE HelperStop
  <2>1. toHelper # <<>> /\ transport = "up" /\ UNCHANGED <<transport, helperReady>>
    BY <1>12 DEF HelperStop, Helper
  <2> QED
    BY <2>1 DEF TransportInv
<1>13. CASE HelperEnd
  <2>1. hrun # None /\ transport = "up" /\ UNCHANGED <<transport, helperReady>>
    BY <1>13 DEF HelperEnd, Helper
  <2> QED
    BY <2>1 DEF TransportInv
<1>14. CASE HelperFinish
  <2>1. hfin # None /\ transport = "up" /\ UNCHANGED <<transport, helperReady>>
    BY <1>14 DEF HelperFinish, Helper
  <2> QED
    BY <2>1 DEF TransportInv
<1>15. CASE HelperDie
  <2>1. /\ transport' = "gone" /\ hrun' = None /\ hfin' = None
        /\ UNCHANGED <<toHelper, fromHelper, helperReady>>
    BY <1>15 DEF HelperDie, Helper
  <2> QED
    BY <2>1 DEF TransportInv
<1>16. CASE UNCHANGED <<transport, hrun, hfin, fromHelper, helperReady, toHelper>>
  BY <1>16 DEF TransportInv
<1>17. ASSUME PressAnalyse \/ Refresh \/ OpenImage \/ Select PROVE UNCHANGED <<transport,
     hrun, hfin, fromHelper, helperReady, toHelper>>
  BY <1>17 DEF PressAnalyse, Refresh, OpenImage, Select, Analyse, Goto, Push
<1>18. ASSUME NEW p \in Mutations \cup {"unmount"}, PressMutation(p) PROVE UNCHANGED
     <<transport, hrun, hfin, fromHelper, helperReady, toHelper>>
  BY <1>18 DEF PressMutation, Push
<1>19. ASSUME CompletedTail \/ DismissNote \/ DiscoveryTail \/ Chooser \/ ProbeTail PROVE
     UNCHANGED <<transport, hrun, hfin, fromHelper, helperReady, toHelper>>
  BY <1>19 DEF CompletedTail, DismissNote, DiscoveryTail, Chooser, ProbeTail, Pop,
       MaybeFinishClose
<1>20. ASSUME NEW accept \in BOOLEAN, Confirm(accept) PROVE UNCHANGED <<transport, hrun,
     hfin, fromHelper, helperReady, toHelper>>
  BY <1>20 DEF Confirm, Pop, Goto
<1>21. ASSUME StartRefused \/ Start \/ SubmitIdle \/ SubmitCancelled \/ Completed PROVE
     UNCHANGED <<transport, hrun, hfin, fromHelper, helperReady, toHelper>>
  BY <1>21 DEF StartRefused, Start, SubmitIdle, SubmitCancelled, Completed, Push, Goto,
       Call, Complete
<1>22. ASSUME DiscoveryDone \/ DiscoveryFailed \/ ProbeDone \/ ProbeFailed \/
     SelectionIdle \/ StopTimer PROVE UNCHANGED <<transport, hrun, hfin, fromHelper,
     helperReady, toHelper>>
  BY <1>22 DEF DiscoveryDone, DiscoveryFailed, ProbeDone, ProbeFailed, SelectionIdle,
       StopTimer, MaybeFinishClose, Push, Analyse, Goto
<1>23. ASSUME \E c \in {0, 127} : LocalFinished(c) PROVE UNCHANGED <<transport, hrun,
     hfin, fromHelper, helperReady, toHelper>>
  BY <1>23 DEF LocalFinished, Complete
<1> QED
  BY <1>1, <1>2, <1>3, <1>4, <1>5, <1>6, <1>7, <1>8, <1>9, <1>10, <1>11, <1>12, <1>13,
       <1>14, <1>15, <1>16, <1>17, <1>18, <1>19, <1>20, <1>21, <1>22, <1>23 DEF Next,
       User, Answer, Calls, Callbacks, HelperProcess, Terminated

(* As long as the pipes and the helper are as they were, only completed() asks *)
(* for more.                                                                   *)
LEMMA FlightKept ==
  ASSUME FlightInv, UNCHANGED <<toHelper, hrun, hfin, fromHelper, activeId>>,
         pc' = "completed" => activeId = 0 \/ pc = "completed"
  PROVE  FlightInv'
BY DEF FlightInv, Idle, Queued, Ended

(* A line that is not the end of a run was read, or written by the helper. *)
LEMMA FlightRead ==
  ASSUME TypeMessages, FlightInv, fromHelper # <<>>, fromHelper' = Tail(fromHelper),
         UNCHANGED <<toHelper, hrun, hfin, activeId>>, pc' # "completed"
  PROVE  FlightInv'
<1>1. \A i \in Ended' : /\ i \in Nat /\ i + 1 \in Ended
                        /\ fromHelper'[i] = fromHelper[i + 1]
  BY ReadEvent DEF TypeMessages
<1>2. Queued("run")' = Queued("run") /\ (Ended = {} => Ended' = {})
  BY <1>1 DEF Queued
<1>3. ASSUME NEW i \in Ended'
      PROVE  fromHelper'[i].id = activeId /\ \A j \in Ended' : j = i
  <2>1. fromHelper[i + 1].id = activeId /\ \A j \in Ended : j = i + 1
    BY <1>1, Zenon DEF FlightInv
  <2>2. \A j \in Ended' : j \in Nat /\ i \in Nat /\ j + 1 = i + 1
    BY <1>1, <2>1, Zenon
  <2>3. \A j \in Ended' : j = i
    BY <2>2
  <2> QED
    BY <1>1, <2>1, <2>3, Zenon
<1>4. activeId' = 0 => Idle'
  BY <1>2 DEF FlightInv, Idle
<1>5. toHelper' = toHelper /\ hrun' = hrun /\ hfin' = hfin /\ activeId' = activeId
  OBVIOUS
<1>6. /\ \A i \in Queued("run")' : /\ toHelper'[i].id = activeId'
                                   /\ hrun' = None /\ hfin' = None /\ Ended' = {}
                                   /\ \A j \in Queued("run")' : j = i
      /\ hrun' # None => hrun'.id = activeId' /\ hfin' = None /\ Ended' = {}
      /\ hfin' # None => hfin'.id = activeId' /\ Ended' = {}
  BY <1>2, <1>5, ZenonT(60) DEF FlightInv
<1> QED
  BY <1>3, <1>4, <1>5, <1>6, Zenon DEF FlightInv

(* Nothing is under way after the last step of a run. *)
LEMMA NothingLeft ==
  ASSUME Idle'
  PROVE  FlightInv'
BY DEF FlightInv, Idle

(* Every call of completed() finds nothing on its way: the run's end was read, *)
(* the helper is gone, or nothing was ever sent.                               *)
LEMMA FlightStep ==
  ASSUME TypeCalls, TypeNumbers, TypeMessages, ActiveInv, TransportInv, FlightInv,
         [Next]_vars
  PROVE  FlightInv'
<1>1. CASE PressAnalyse
  <2>1. UNCHANGED <<toHelper, hrun, hfin, fromHelper, activeId>>
    BY <1>1 DEF PressAnalyse, Analyse, Goto
  <2>2. pc' = "completed" => activeId = 0 \/ pc = "completed"
    BY <1>1 DEF PressAnalyse, Analyse, Goto, ActiveInv
  <2> QED
    BY <2>1, <2>2, FlightKept
<1>2. CASE PressStop
  <2>1. /\ UNCHANGED <<hrun, hfin, fromHelper, activeId>> /\ pc = "loop" /\ pc' # "completed"
        /\ \/ UNCHANGED toHelper
           \/ /\ [action |-> "stop", for |-> activeId] \in Lines
              /\ toHelper' = Append(toHelper, [action |-> "stop", for |-> activeId])
    BY <1>2, StopWritten
  <2>2. CASE UNCHANGED toHelper
    BY <2>1, <2>2, FlightKept
  <2>3. CASE ~UNCHANGED toHelper
    <3> DEFINE l == [action |-> "stop", for |-> activeId]
    <3>1. l \in Lines /\ l.action # "run" /\ toHelper' = Append(toHelper, l)
      BY <2>1, <2>3
    <3> HIDE DEF l
    <3>2. /\ Queued("run")' = Queued("run")
          /\ \A i \in Queued("run") : toHelper'[i] = toHelper[i]
      BY <3>1, WrittenLine DEF TypeMessages
    <3>3. Ended' = Ended
      BY <2>1 DEF Ended
    <3> QED
      BY <2>1, <3>2, <3>3 DEF FlightInv, Idle
  <2> QED
    BY <2>2, <2>3
<1>3. CASE Close
  <2>1. /\ UNCHANGED <<hrun, hfin, fromHelper, activeId>> /\ pc = "loop" /\ pc' # "completed"
        /\ \/ UNCHANGED toHelper
           \/ /\ [action |-> "stop", for |-> activeId] \in Lines
              /\ toHelper' = Append(toHelper, [action |-> "stop", for |-> activeId])
    BY <1>3, StopWritten
  <2>2. CASE UNCHANGED toHelper
    BY <2>1, <2>2, FlightKept
  <2>3. CASE ~UNCHANGED toHelper
    <3> DEFINE l == [action |-> "stop", for |-> activeId]
    <3>1. l \in Lines /\ l.action # "run" /\ toHelper' = Append(toHelper, l)
      BY <2>1, <2>3
    <3> HIDE DEF l
    <3>2. /\ Queued("run")' = Queued("run")
          /\ \A i \in Queued("run") : toHelper'[i] = toHelper[i]
      BY <3>1, WrittenLine DEF TypeMessages
    <3>3. Ended' = Ended
      BY <2>1 DEF Ended
    <3> QED
      BY <2>1, <3>2, <3>3 DEF FlightInv, Idle
  <2> QED
    BY <2>2, <2>3
<1>4. ASSUME NEW accept \in BOOLEAN, Confirm(accept) PROVE FlightInv'
  <2>1. UNCHANGED <<toHelper, hrun, hfin, fromHelper, activeId>>
    BY <1>4 DEF Confirm, Pop, Goto
  <2>2. pc' = "completed" => activeId = 0 \/ pc = "completed"
    BY <1>4 DEF Confirm, Pop, Goto, ActiveInv
  <2> QED
    BY <2>1, <2>2, FlightKept
<1>5. CASE StartRefused
  <2>1. UNCHANGED <<toHelper, hrun, hfin, fromHelper, activeId>>
    BY <1>5 DEF StartRefused, Push, Goto
  <2>2. pc' = "completed" => activeId = 0 \/ pc = "completed"
    BY <1>5 DEF StartRefused, Push, Goto, ActiveInv
  <2> QED
    BY <2>1, <2>2, FlightKept
<1>6. CASE Start
  <2>1. UNCHANGED <<toHelper, hrun, hfin, fromHelper, activeId>>
    BY <1>6 DEF Start, Call, Goto, Complete
  <2>2. pc' = "completed" => activeId = 0 \/ pc = "completed"
    BY <1>6 DEF Start, Call, Goto, Complete, ActiveInv
  <2> QED
    BY <2>1, <2>2, FlightKept
<1>7. CASE SubmitIdle
  <2>1. UNCHANGED <<toHelper, hrun, hfin, fromHelper, activeId>>
    BY <1>7 DEF SubmitIdle, Call, Goto
  <2>2. pc' = "completed" => activeId = 0 \/ pc = "completed"
    BY <1>7 DEF SubmitIdle, Call, Goto, ActiveInv
  <2> QED
    BY <2>1, <2>2, FlightKept
<1>8. CASE SubmitCancelled
  <2>1. UNCHANGED <<toHelper, hrun, hfin, fromHelper, activeId>>
    BY <1>8 DEF SubmitCancelled, Complete
  <2>2. pc' = "completed" => activeId = 0 \/ pc = "completed"
    BY <1>8 DEF SubmitCancelled, Complete, ActiveInv
  <2> QED
    BY <2>1, <2>2, FlightKept
<1>9. CASE Submit
  <2>1. /\ pc = "submit" /\ activeId = 0 /\ activeId' = requestId + 1
        /\ UNCHANGED <<hrun, hfin, fromHelper>>
        /\ \/ toHelper' = Append(toHelper, Run) /\ pc' = "loop"
           \/ UNCHANGED toHelper
    BY <1>9 DEF Submit, Send, Call, Goto
  <2>2. Idle /\ Ended' = {}
    BY <2>1 DEF FlightInv, Idle, Ended
  <2>3. CASE UNCHANGED toHelper
    <3>1. Idle'
      BY <2>1, <2>2, <2>3 DEF Idle, Queued
    <3> QED
      BY <3>1, NothingLeft
  <2>4. CASE toHelper' = Append(toHelper, Run) /\ pc' = "loop"
    <3>1. Run \in Lines /\ Run.action = "run" /\ Run.id = activeId'
      BY <2>1 DEF Run, Lines, RunLines, TypeCalls, TypeNumbers
    <3>2. /\ Queued("run")' = Queued("run") \cup {Len(toHelper) + 1}
          /\ toHelper'[Len(toHelper) + 1] = Run
      BY <2>4, <3>1, WrittenLine DEF TypeMessages
    <3>3. activeId' # 0
      BY <2>1 DEF TypeNumbers
    <3> QED
      BY <2>1, <2>2, <2>4, <3>1, <3>2, <3>3 DEF FlightInv, Idle
  <2> QED
    BY <2>1, <2>3, <2>4
<1>10. CASE StartHelper
  <2>1. UNCHANGED <<toHelper, hrun, hfin, fromHelper, activeId>>
    BY <1>10 DEF StartHelper, Call, Goto, Complete
  <2>2. pc' = "completed" => activeId = 0 \/ pc = "completed"
    BY <1>10 DEF StartHelper, Call, Goto, Complete, ActiveInv
  <2> QED
    BY <2>1, <2>2, FlightKept
<1>11. CASE Completed
  <2>1. pc = "completed" /\ UNCHANGED <<toHelper, hrun, hfin, fromHelper>>
    BY <1>11 DEF Completed
  <2>2. Idle'
    BY <2>1 DEF FlightInv, Idle, Queued, Ended
  <2> QED
    BY <2>2, NothingLeft
<1>12. CASE SelectionIdle
  <2>1. UNCHANGED <<toHelper, hrun, hfin, fromHelper, activeId>>
    BY <1>12 DEF SelectionIdle, Analyse, Goto
  <2>2. pc' = "completed" => activeId = 0 \/ pc = "completed"
    BY <1>12 DEF SelectionIdle, Analyse, Goto, ActiveInv
  <2> QED
    BY <2>1, <2>2, FlightKept
<1>13. CASE ReceiveReady
  <2>1. /\ fromHelper # <<>> /\ fromHelper' = Tail(fromHelper) /\ pc' # "completed"
        /\ UNCHANGED <<toHelper, hrun, hfin, activeId>>
    BY <1>13 DEF ReceiveReady, Receive, Reading, Serving
  <2> QED
    BY <2>1, FlightRead
<1>14. CASE ReceiveStopResult
  <2>1. /\ fromHelper # <<>> /\ fromHelper' = Tail(fromHelper) /\ pc' # "completed"
        /\ UNCHANGED <<toHelper, hrun, hfin, activeId>>
    BY <1>14 DEF ReceiveStopResult, Receive, Reading, Serving
  <2> QED
    BY <2>1, FlightRead
<1>15. CASE ReceiveOutput
  <2>1. /\ fromHelper # <<>> /\ fromHelper' = Tail(fromHelper) /\ pc' # "completed"
        /\ UNCHANGED <<toHelper, hrun, hfin, activeId>>
    BY <1>15 DEF ReceiveOutput, Receive, Reading, Serving
  <2> QED
    BY <2>1, FlightRead
<1>16. CASE ReceiveFinished
  <2>1. /\ fromHelper # <<>> /\ fromHelper' = Tail(fromHelper)
        /\ Head(fromHelper).type = "finished" /\ UNCHANGED <<toHelper, hrun, hfin>>
    BY <1>16 DEF ReceiveFinished, Receive
  <2>2. 1 \in Ended /\ \A i \in Ended' : i + 1 \in Ended /\ i + 1 # 1
    BY <2>1, ReadEvent DEF TypeMessages
  <2>3. Ended' = {}
    BY <2>2 DEF FlightInv
  <2>4. Queued("run") = {} /\ hrun = None /\ hfin = None
    BY <2>2 DEF FlightInv
  <2>5. Idle'
    BY <2>1, <2>3, <2>4 DEF Idle, Queued
  <2> QED
    BY <2>5, NothingLeft
<1>17. CASE HelperClosed
  <2>1. /\ transport = "gone" /\ toHelper' = <<>> /\ fromHelper' = <<>>
        /\ UNCHANGED <<hrun, hfin>>
    BY <1>17 DEF HelperClosed
  <2>2. hrun = None /\ hfin = None
    BY <2>1 DEF TransportInv
  <2>3. Idle'
    BY <2>1, <2>2 DEF Idle, Queued, Ended
  <2> QED
    BY <2>3, NothingLeft
<1>18. CASE HelperAuth
  <2>1. /\ UNCHANGED <<toHelper, hrun, hfin, activeId, pc>>
        /\ UNCHANGED fromHelper \/ Emit([type |-> "ready"])
    BY <1>18 DEF HelperAuth, Helper
  <2>2. CASE UNCHANGED fromHelper
    BY <2>1, <2>2, FlightKept
  <2>3. CASE Emit([type |-> "ready"])
    <3>1. /\ Ended' = Ended
          /\ \A i \in Ended : fromHelper'[i] = fromHelper[i]
      BY <2>3, EmittedEvent DEF TypeMessages, Events
    <3>2. Queued("run")' = Queued("run")
      BY <2>1 DEF Queued
    <3> QED
      BY <2>1, <3>1, <3>2 DEF FlightInv, Idle
  <2> QED
    BY <2>1, <2>2, <2>3
<1>19. CASE HelperRun
  <2>1. /\ toHelper # <<>> /\ toHelper' = Tail(toHelper) /\ hrun' = Head(toHelper)
        /\ Head(toHelper).action = "run" /\ UNCHANGED <<hfin, fromHelper, activeId, pc>>
    BY <1>19 DEF HelperRun, Helper
  <2>2. 1 \in Queued("run") /\ hrun' = toHelper[1]
    BY <2>1 DEF Queued, TypeMessages
  <2>3. Queued("run")' = {}
    BY <2>1, <2>2, ReadLine DEF FlightInv, TypeMessages
  <2>4. Ended = {} /\ Ended' = {} /\ hfin = None /\ hrun'.id = activeId
    BY <2>1, <2>2 DEF FlightInv, Ended
  <2>5. ~(activeId = 0 \/ pc = "completed")
    BY <2>2 DEF FlightInv, Idle
  <2> QED
    BY <2>1, <2>3, <2>4, <2>5 DEF FlightInv
<1>20. CASE HelperStop
  <2> DEFINE e == [type |-> "stop-result", delivered |-> hrun # None]
  <2>1. /\ toHelper # <<>> /\ toHelper' = Tail(toHelper) /\ Emit(e)
        /\ UNCHANGED <<hrun, hfin, activeId, pc>>
    BY <1>20 DEF HelperStop, Helper
  <2>2. e \in Events /\ e.type # "finished"
    <3>1. (hrun # None) \in BOOLEAN
      OBVIOUS
    <3> QED
      BY <3>1, Zenon DEF Events
  <2> HIDE DEF e
  <2>3. \A i \in Queued("run")' : /\ i \in Nat /\ i + 1 \in Queued("run")
                                  /\ toHelper'[i] = toHelper[i + 1]
    BY <2>1, ReadLine DEF TypeMessages
  <2>4. Ended' = Ended /\ \A i \in Ended : fromHelper'[i] = fromHelper[i]
    BY <2>1, <2>2, EmittedEvent DEF TypeMessages
  <2>5. Queued("run") = {} => Queued("run")' = {}
    BY <2>3
  <2>6. \A i \in Queued("run")' :
          /\ toHelper'[i].id = activeId /\ hrun = None /\ hfin = None /\ Ended = {}
          /\ \A j \in Queued("run")' : j = i
    BY <2>3 DEF FlightInv
  <2> QED
    BY <2>1, <2>4, <2>5, <2>6 DEF FlightInv, Idle
<1>21. CASE HelperEnd
  <2>1. /\ hrun # None /\ hrun' = None /\ UNCHANGED <<toHelper, activeId, pc>>
        /\ \E c \in {0, 1} : hfin' = [type |-> "finished", id |-> hrun.id, code |-> c,
                                      job |-> hrun.job]
        /\ UNCHANGED fromHelper \/ \E r \in {"done", "stopped", "failed"} :
             Emit([type |-> "output", id |-> hrun.id, result |-> r])
    BY <1>21 DEF HelperEnd, Helper
  <2>2. Queued("run")' = {} /\ Ended = {} /\ hrun.id = activeId
    BY <2>1 DEF FlightInv, Queued
  <2>3. \A r \in {"done", "stopped", "failed"} :
          [type |-> "output", id |-> hrun.id, result |-> r] \in Events
    BY <2>1 DEF RunLines, Events, TypeMessages
  <2>4. Ended' = {}
    <3>1. CASE UNCHANGED fromHelper
      BY <2>2, <3>1 DEF Ended
    <3>2. ASSUME NEW r \in {"done", "stopped", "failed"},
                 Emit([type |-> "output", id |-> hrun.id, result |-> r])
          PROVE  Ended' = {}
      BY <2>2, <2>3, <3>2, EmittedEvent DEF TypeMessages
    <3> QED
      BY <2>1, <3>1, <3>2
  <2>5. hfin'.id = activeId
    BY <2>1, <2>2
  <2>6. ~(activeId = 0 \/ pc = "completed")
    BY <2>1 DEF FlightInv, Idle
  <2> QED
    BY <2>1, <2>2, <2>4, <2>5, <2>6 DEF FlightInv
<1>22. CASE HelperFinish
  <2>1. hfin # None /\ hfin' = None /\ Emit(hfin) /\ UNCHANGED <<toHelper, hrun, activeId, pc>>
    BY <1>22 DEF HelperFinish, Helper
  <2>2. hfin \in Events /\ hfin.type = "finished"
    BY <2>1 DEF TypeMessages, Events, Finals
  <2>3. /\ Ended = {} /\ hrun = None /\ hfin.id = activeId
        /\ Queued("run")' = {} /\ ~(activeId = 0 \/ pc = "completed")
    BY <2>1 DEF FlightInv, Queued, Idle
  <2>4. Ended' = {Len(fromHelper) + 1} /\ fromHelper'[Len(fromHelper) + 1] = hfin
    BY <2>1, <2>2, <2>3, EmittedEvent DEF TypeMessages
  <2> QED
    BY <2>1, <2>3, <2>4 DEF FlightInv
<1>23. CASE HelperDie
  <2>1. /\ hrun' = None /\ hfin' = None /\ UNCHANGED <<toHelper, fromHelper, activeId, pc>>
    BY <1>23 DEF HelperDie, Helper
  <2> QED
    BY <2>1 DEF FlightInv, Idle, Queued, Ended
<1>24. CASE \E c \in {0, 127} : LocalFinished(c)
  <2>1. UNCHANGED <<toHelper, hrun, hfin, fromHelper, activeId>> /\ local # None
    BY <1>24 DEF LocalFinished
  <2>2. activeId = 0
    BY <2>1 DEF ActiveInv
  <2> QED
    BY <2>1, <2>2, FlightKept
<1>25. CASE UNCHANGED <<toHelper, hrun, hfin, fromHelper, activeId, pc>>
  BY <1>25 DEF FlightInv, Idle, Queued, Ended
<1>26. ASSUME Refresh \/ OpenImage \/ Select PROVE UNCHANGED <<toHelper, hrun, hfin,
     fromHelper, activeId, pc>>
  BY <1>26 DEF Refresh, OpenImage, Select, Push
<1>27. ASSUME NEW p \in Mutations \cup {"unmount"}, PressMutation(p) PROVE UNCHANGED
     <<toHelper, hrun, hfin, fromHelper, activeId, pc>>
  BY <1>27 DEF PressMutation, Push
<1>28. ASSUME CompletedTail \/ DismissNote \/ DiscoveryTail \/ Chooser \/ ProbeTail PROVE
     UNCHANGED <<toHelper, hrun, hfin, fromHelper, activeId, pc>>
  BY <1>28 DEF CompletedTail, DismissNote, DiscoveryTail, Chooser, ProbeTail, Pop,
       MaybeFinishClose
<1>29. ASSUME DiscoveryDone \/ DiscoveryFailed \/ ProbeDone \/ ProbeFailed \/ StopTimer
     PROVE UNCHANGED <<toHelper, hrun, hfin, fromHelper, activeId, pc>>
  BY <1>29 DEF DiscoveryDone, DiscoveryFailed, ProbeDone, ProbeFailed, StopTimer,
       MaybeFinishClose, Push
<1> QED
  BY <1>1, <1>2, <1>3, <1>4, <1>5, <1>6, <1>7, <1>8, <1>9, <1>10, <1>11, <1>12, <1>13,
       <1>14, <1>15, <1>16, <1>17, <1>18, <1>19, <1>20, <1>21, <1>22, <1>23, <1>24, <1>25,
       <1>26, <1>27, <1>28, <1>29 DEF Next, User, Answer, Calls, Callbacks, HelperProcess,
       Terminated

(* The pipe keeps the order in which stop requests and runs were written. *)
LEMMA StopStep ==
  ASSUME TypeCalls, TypeNumbers, TypeMessages, FlightInv, StopInv, [Next]_vars
  PROVE  StopInv'
<1>1. CASE PressStop
  <2>1. /\ UNCHANGED <<hrun, activeId>>
        /\ \/ UNCHANGED toHelper
           \/ /\ [action |-> "stop", for |-> activeId] \in Lines
              /\ toHelper' = Append(toHelper, [action |-> "stop", for |-> activeId])
    BY <1>1, StopWritten
  <2>2. CASE UNCHANGED toHelper
    BY <2>1, <2>2 DEF StopInv, Queued
  <2>3. CASE ~UNCHANGED toHelper
    <3> DEFINE l == [action |-> "stop", for |-> activeId]
    <3>1. /\ l \in Lines /\ l.action = "stop" /\ l.for = activeId
          /\ toHelper' = Append(toHelper, l)
      BY <2>1, <2>3
    <3> HIDE DEF l
    <3>2. /\ Queued("run")' = Queued("run")
          /\ Queued("stop")' = Queued("stop") \cup {Len(toHelper) + 1}
          /\ \A i \in Queued("stop") : toHelper'[i] = toHelper[i]
          /\ toHelper'[Len(toHelper) + 1] = l
      BY <3>1, WrittenLine DEF TypeMessages
    <3> QED
      BY <2>1, <3>1, <3>2 DEF StopInv
  <2> QED
    BY <2>2, <2>3
<1>2. CASE Close
  <2>1. /\ UNCHANGED <<hrun, activeId>>
        /\ \/ UNCHANGED toHelper
           \/ /\ [action |-> "stop", for |-> activeId] \in Lines
              /\ toHelper' = Append(toHelper, [action |-> "stop", for |-> activeId])
    BY <1>2, StopWritten
  <2>2. CASE UNCHANGED toHelper
    BY <2>1, <2>2 DEF StopInv, Queued
  <2>3. CASE ~UNCHANGED toHelper
    <3> DEFINE l == [action |-> "stop", for |-> activeId]
    <3>1. /\ l \in Lines /\ l.action = "stop" /\ l.for = activeId
          /\ toHelper' = Append(toHelper, l)
      BY <2>1, <2>3
    <3> HIDE DEF l
    <3>2. /\ Queued("run")' = Queued("run")
          /\ Queued("stop")' = Queued("stop") \cup {Len(toHelper) + 1}
          /\ \A i \in Queued("stop") : toHelper'[i] = toHelper[i]
          /\ toHelper'[Len(toHelper) + 1] = l
      BY <3>1, WrittenLine DEF TypeMessages
    <3> QED
      BY <2>1, <3>1, <3>2 DEF StopInv
  <2> QED
    BY <2>2, <2>3
<1>3. CASE Submit
  <2>1. /\ activeId = 0 /\ UNCHANGED hrun
        /\ toHelper' = Append(toHelper, Run) \/ UNCHANGED toHelper
    BY <1>3 DEF Submit, Send
  <2>2. Queued("run") = {} /\ hrun = None
    BY <2>1 DEF FlightInv, Idle
  <2>3. CASE UNCHANGED toHelper
    BY <2>1, <2>2, <2>3 DEF StopInv, Queued
  <2>4. CASE toHelper' = Append(toHelper, Run)
    <3>1. Run \in Lines /\ Run.action = "run"
      BY DEF Run, Lines, RunLines, TypeCalls, TypeNumbers
    <3>2. /\ Queued("run")' = {Len(toHelper) + 1} /\ Queued("stop")' = Queued("stop")
          /\ \A i \in Queued("stop") : i \in 1 .. Len(toHelper)
      BY <2>2, <2>4, <3>1, WrittenLine DEF TypeMessages
    <3>3. \A i \in Queued("stop") : Len(toHelper) + 1 > i
      BY <3>2 DEF TypeMessages
    <3> QED
      BY <2>1, <2>2, <3>2, <3>3 DEF StopInv
  <2> QED
    BY <2>1, <2>3, <2>4
<1>4. CASE Completed
  <2>1. pc = "completed" /\ UNCHANGED <<toHelper, hrun>>
    BY <1>4 DEF Completed
  <2>2. Queued("run")' = {} /\ hrun' = None
    BY <2>1 DEF FlightInv, Idle, Queued
  <2> QED
    BY <2>2 DEF StopInv
<1>5. CASE HelperClosed
  <2>1. toHelper' = <<>>
    BY <1>5 DEF HelperClosed
  <2> QED
    BY <2>1 DEF StopInv, Queued
<1>6. CASE HelperRun
  <2>1. /\ toHelper # <<>> /\ toHelper' = Tail(toHelper) /\ UNCHANGED activeId
        /\ Head(toHelper).action = "run"
    BY <1>6 DEF HelperRun, Helper
  <2>2. 1 \in Queued("run")
    BY <2>1 DEF Queued, TypeMessages
  <2>3. \A i \in Queued("stop")' : /\ i \in Nat /\ i + 1 \in Queued("stop") /\ i + 1 # 1
                                   /\ toHelper'[i] = toHelper[i + 1]
    BY <2>1, ReadLine DEF TypeMessages
  <2>4. ASSUME NEW i \in Queued("stop")'
        PROVE  toHelper'[i].for = activeId
    <3>1. i \in Nat /\ ~(1 > i + 1)
      BY <2>3
    <3>2. toHelper[i + 1].for = activeId
      BY <2>2, <2>3, <3>1, Zenon DEF StopInv
    <3> QED
      BY <2>3, <3>2
  <2> QED
    BY <2>1, <2>4 DEF StopInv
<1>7. CASE HelperStop
  <2>1. toHelper # <<>> /\ toHelper' = Tail(toHelper) /\ UNCHANGED <<activeId, hrun>>
    BY <1>7 DEF HelperStop, Helper
  <2>2. \A i \in Queued("stop")' : /\ i \in Nat /\ i + 1 \in Queued("stop")
                                   /\ toHelper'[i] = toHelper[i + 1]
    BY <2>1, ReadLine DEF TypeMessages
  <2>3. \A j \in Queued("run")' : j \in Nat /\ j + 1 \in Queued("run")
    BY <2>1, ReadLine DEF TypeMessages
  <2>4. ASSUME NEW i \in Queued("stop")', toHelper'[i].for # activeId
        PROVE  hrun = None /\ \A j \in Queued("run")' : j > i
    <3>1. hrun = None /\ \A j \in Queued("run") : j > i + 1
      BY <2>2, <2>4, Zenon DEF StopInv
    <3>2. \A j \in Queued("run")' : j \in Nat /\ i \in Nat /\ j + 1 > i + 1
      BY <2>2, <2>3, <3>1, Zenon
    <3>3. \A j \in Queued("run")' : j > i
      BY <3>2
    <3> QED
      BY <3>1, <3>3
  <2>5. activeId' = activeId /\ hrun' = hrun
    BY <2>1
  <2> QED
    BY <2>4, <2>5, Zenon DEF StopInv
<1>8. CASE HelperEnd
  <2>1. hrun' = None /\ UNCHANGED <<toHelper, activeId>>
    BY <1>8 DEF HelperEnd, Helper
  <2> QED
    BY <2>1 DEF StopInv, Queued
<1>9. CASE HelperDie
  <2>1. hrun' = None /\ UNCHANGED <<toHelper, activeId>>
    BY <1>9 DEF HelperDie, Helper
  <2> QED
    BY <2>1 DEF StopInv, Queued
<1>10. CASE UNCHANGED <<toHelper, activeId, hrun>>
  BY <1>10 DEF StopInv, Queued
<1>11. ASSUME PressAnalyse \/ Refresh \/ OpenImage \/ Select PROVE UNCHANGED <<toHelper,
     activeId, hrun>>
  BY <1>11 DEF PressAnalyse, Refresh, OpenImage, Select, Analyse, Goto, Push
<1>12. ASSUME NEW p \in Mutations \cup {"unmount"}, PressMutation(p) PROVE UNCHANGED
     <<toHelper, activeId, hrun>>
  BY <1>12 DEF PressMutation, Push
<1>13. ASSUME CompletedTail \/ DismissNote \/ DiscoveryTail \/ Chooser \/ ProbeTail PROVE
     UNCHANGED <<toHelper, activeId, hrun>>
  BY <1>13 DEF CompletedTail, DismissNote, DiscoveryTail, Chooser, ProbeTail, Pop,
       MaybeFinishClose
<1>14. ASSUME NEW accept \in BOOLEAN, Confirm(accept) PROVE UNCHANGED <<toHelper,
     activeId, hrun>>
  BY <1>14 DEF Confirm, Pop, Goto
<1>15. ASSUME StartRefused \/ Start \/ SubmitIdle \/ SubmitCancelled \/ StartHelper PROVE
     UNCHANGED <<toHelper, activeId, hrun>>
  BY <1>15 DEF StartRefused, Start, SubmitIdle, SubmitCancelled, StartHelper, Push, Goto,
       Call, Complete
<1>16. ASSUME DiscoveryDone \/ DiscoveryFailed \/ ProbeDone \/ ProbeFailed \/
     SelectionIdle \/ StopTimer \/ ReceiveReady \/ ReceiveStopResult \/ ReceiveOutput \/
     ReceiveFinished PROVE UNCHANGED <<toHelper, activeId, hrun>>
  BY <1>16 DEF DiscoveryDone, DiscoveryFailed, ProbeDone, ProbeFailed, SelectionIdle,
       StopTimer, ReceiveReady, ReceiveStopResult, ReceiveOutput, ReceiveFinished,
       MaybeFinishClose, Push, Analyse, Goto, Receive, Complete
<1>17. ASSUME HelperAuth \/ HelperFinish PROVE UNCHANGED <<toHelper, activeId, hrun>>
  BY <1>17 DEF HelperAuth, HelperFinish, Helper, Emit
<1>18. ASSUME \E c \in {0, 127} : LocalFinished(c) PROVE UNCHANGED <<toHelper, activeId,
     hrun>>
  BY <1>18 DEF LocalFinished, Complete
<1> QED
  BY <1>1, <1>2, <1>3, <1>4, <1>5, <1>6, <1>7, <1>8, <1>9, <1>10, <1>11, <1>12, <1>13,
       <1>14, <1>15, <1>16, <1>17, <1>18 DEF Next, User, Answer, Calls, Callbacks,
       HelperProcess, Terminated

(* A cancelled operation is not withdrawn by the answer to an earlier Stop. *)
LEMMA CancelStep ==
  ASSUME TypeMessages, TransportInv, CancelInv, [Next]_vars
  PROVE  CancelInv'
<1>1. CASE PressAnalyse
  BY <1>1 DEF PressAnalyse, Analyse, Goto, CancelInv, AtWindow, Serving
<1>2. CASE PressStop
  BY <1>2 DEF PressStop, RequestStop, Call, Goto, Push, CancelInv, AtWindow, Serving
<1>3. CASE Close
  BY <1>3 DEF Close, RequestStop, Call, Goto, Push, CancelInv, AtWindow, Serving
<1>4. ASSUME NEW accept \in BOOLEAN, Confirm(accept) PROVE CancelInv'
  BY <1>4 DEF Confirm, Pop, Goto, CancelInv, Top, Serving
<1>5. CASE StartRefused
  BY <1>5 DEF StartRefused, Push, Goto, CancelInv
<1>6. CASE Start
  BY <1>6 DEF Start, Call, Goto, Complete, CancelInv
<1>7. CASE SubmitIdle
  BY <1>7 DEF SubmitIdle, Call, Goto, CancelInv
<1>8. CASE SubmitCancelled
  BY <1>8 DEF SubmitCancelled, Complete, CancelInv
<1>9. CASE Submit
  BY <1>9 DEF Submit, Send, Call, Goto, Complete, CancelInv
<1>10. CASE StartHelper
  BY <1>10 DEF StartHelper, Call, Goto, Complete, CancelInv
<1>11. CASE Completed
  <2>1. busy' = FALSE
    BY <1>11 DEF Completed
  <2> QED
    BY <2>1 DEF CancelInv
<1>12. CASE SelectionIdle
  BY <1>12 DEF SelectionIdle, Analyse, Goto, CancelInv, AtWindow, Serving
<1>13. CASE ReceiveReady
  BY <1>13 DEF ReceiveReady, Receive, CancelInv
<1>14. CASE ReceiveStopResult
  <2>1. /\ fromHelper # <<>> /\ Head(fromHelper).type = "stop-result" /\ pc = "loop"
        /\ UNCHANGED <<cancelled, busy>>
    BY <1>14 DEF ReceiveStopResult, Receive, Reading, Serving
  <2>2. helperReady
    BY <2>1 DEF TransportInv, TypeMessages
  <2> QED
    BY <2>1, <2>2 DEF CancelInv
<1>15. CASE ReceiveFinished
  BY <1>15 DEF ReceiveFinished, Receive, Complete, CancelInv
<1>16. CASE HelperClosed
  BY <1>16 DEF HelperClosed, Complete, CancelInv
<1>17. CASE \E c \in {0, 127} : LocalFinished(c)
  <2>1. local # None /\ UNCHANGED <<cancelled, busy>>
    BY <1>17 DEF LocalFinished
  <2> QED
    BY <2>1 DEF CancelInv
<1>18. CASE UNCHANGED <<cancelled, busy, stopping, local, activeId, helperReady, pc>>
  BY <1>18 DEF CancelInv
<1>19. ASSUME Refresh \/ OpenImage \/ Select PROVE UNCHANGED <<cancelled, busy, stopping,
     local, activeId, helperReady, pc>>
  BY <1>19 DEF Refresh, OpenImage, Select, Push
<1>20. ASSUME NEW p \in Mutations \cup {"unmount"}, PressMutation(p) PROVE UNCHANGED
     <<cancelled, busy, stopping, local, activeId, helperReady, pc>>
  BY <1>20 DEF PressMutation, Push
<1>21. ASSUME CompletedTail \/ DismissNote \/ DiscoveryTail \/ Chooser \/ ProbeTail PROVE
     UNCHANGED <<cancelled, busy, stopping, local, activeId, helperReady, pc>>
  BY <1>21 DEF CompletedTail, DismissNote, DiscoveryTail, Chooser, ProbeTail, Pop,
       MaybeFinishClose
<1>22. ASSUME DiscoveryDone \/ DiscoveryFailed \/ ProbeDone \/ ProbeFailed \/ StopTimer \/
     ReceiveOutput PROVE UNCHANGED <<cancelled, busy, stopping, local, activeId,
     helperReady, pc>>
  BY <1>22 DEF DiscoveryDone, DiscoveryFailed, ProbeDone, ProbeFailed, StopTimer,
       ReceiveOutput, MaybeFinishClose, Push, Receive
<1>23. ASSUME HelperAuth \/ HelperRun \/ HelperStop \/ HelperEnd \/ HelperFinish \/
     HelperDie PROVE UNCHANGED <<cancelled, busy, stopping, local, activeId, helperReady,
     pc>>
  BY <1>23 DEF HelperAuth, HelperRun, HelperStop, HelperEnd, HelperFinish, HelperDie,
       Helper, Emit
<1> QED
  BY <1>1, <1>2, <1>3, <1>4, <1>5, <1>6, <1>7, <1>8, <1>9, <1>10, <1>11, <1>12, <1>13,
       <1>14, <1>15, <1>16, <1>17, <1>18, <1>19, <1>20, <1>21, <1>22, <1>23 DEF Next,
       User, Answer, Calls, Callbacks, HelperProcess, Terminated

(* close_requested, maybe_finish_close and completed() destroy the window, each only when *)
(* no operation is under way.                                                             *)
LEMMA CloseStep ==
  ASSUME [Next]_vars, ~closed, closed'
  PROVE  ~busy'
<1>1. CASE Close
  BY <1>1 DEF Close
<1>2. CASE Completed
  BY <1>2 DEF Completed
<1>3. CASE CompletedTail
  BY <1>3, Zenon DEF CompletedTail, opVars
<1>4. CASE DiscoveryDone
  BY <1>4, Zenon DEF DiscoveryDone, MaybeFinishClose, opVars
<1>5. CASE DiscoveryFailed
  BY <1>5, Zenon DEF DiscoveryFailed, MaybeFinishClose, closeVars, opVars
<1>6. CASE DiscoveryTail
  BY <1>6, Zenon DEF DiscoveryTail, MaybeFinishClose, opVars
<1>7. CASE ProbeDone
  BY <1>7, Zenon DEF ProbeDone, MaybeFinishClose, opVars
<1>8. CASE ProbeFailed
  BY <1>8, Zenon DEF ProbeFailed, MaybeFinishClose, closeVars, opVars
<1>9. CASE ProbeTail
  BY <1>9, Zenon DEF ProbeTail, MaybeFinishClose, opVars
<1>10. ASSUME UNCHANGED closed PROVE FALSE
  BY <1>10
<1>11. ASSUME PressAnalyse \/ PressStop \/ Refresh \/ OpenImage \/ Select PROVE UNCHANGED closed
  BY <1>11 DEF PressAnalyse, PressStop, Refresh, OpenImage, Select
<1>12. ASSUME NEW p \in Mutations \cup {"unmount"}, PressMutation(p) PROVE UNCHANGED closed
  BY <1>12 DEF PressMutation
<1>13. ASSUME NEW accept \in BOOLEAN, Confirm(accept) PROVE UNCHANGED closed
  BY <1>13 DEF Confirm
<1>14. ASSUME DismissNote \/ Chooser PROVE UNCHANGED closed
  BY <1>14 DEF DismissNote, Chooser
<1>15. ASSUME StartRefused \/ Start \/ SubmitIdle \/ SubmitCancelled \/ Submit \/ StartHelper
       PROVE  UNCHANGED closed
  BY <1>15 DEF StartRefused, Start, SubmitIdle, SubmitCancelled, Submit, Send, StartHelper
<1>16. ASSUME SelectionIdle \/ StopTimer \/ ReceiveReady \/ ReceiveStopResult \/ ReceiveOutput
              \/ ReceiveFinished \/ HelperClosed
       PROVE  UNCHANGED closed
  BY <1>16 DEF SelectionIdle, StopTimer, ReceiveReady, ReceiveStopResult, ReceiveOutput,
       ReceiveFinished, HelperClosed
<1>17. ASSUME NEW c \in {0, 127}, LocalFinished(c) PROVE UNCHANGED closed
  BY <1>17 DEF LocalFinished
<1>18. ASSUME HelperAuth \/ HelperRun \/ HelperStop \/ HelperEnd \/ HelperFinish \/ HelperDie
       PROVE  UNCHANGED closed
  BY <1>18 DEF HelperAuth, HelperRun, HelperStop, HelperEnd, HelperFinish, HelperDie, Helper
<1> QED
  BY <1>1, <1>2, <1>3, <1>4, <1>5, <1>6, <1>7, <1>8, <1>9, <1>10, <1>11, <1>12, <1>13,
       <1>14, <1>15, <1>16, <1>17, <1>18 DEF Next, User, Answer, Calls, Callbacks,
       HelperProcess, Terminated

-----------------------------------------------------------------------------
(* The session *)

LEMMA InitInductive == Init => Inductive
<1> SUFFICES ASSUME Init PROVE Inductive
  OBVIOUS
<1>1. TypeFlags
  BY Zenon DEF Init, TypeFlags
<1>2. TypeVolumes /\ TypeCalls /\ TypeNumbers /\ TypeMessages /\ TypeTransport
  BY DEF Init, TypeVolumes, TypeCalls, TypeNumbers, TypeMessages, TypeTransport
<1>3. TypeOK /\ TypePipes
  BY <1>1, <1>2, Types
<1>4. Session
  BY DEF Init, Session, ActiveInv, TransportInv, FlightInv, StopInv, CancelInv,
         Idle, Queued, Ended
<1> QED
  BY <1>3, <1>4 DEF Inductive

LEMMA InductiveStep == Inductive /\ [Next]_vars => Inductive'
<1> SUFFICES ASSUME Inductive, [Next]_vars PROVE Inductive'
  OBVIOUS
<1>1. TypeOK /\ TypePipes /\ Session
  BY DEF Inductive
<1>2. TypeOK' /\ TypePipes'
  BY <1>1, TypeStep
<1>3. TypeCalls /\ TypeNumbers /\ TypeMessages
  BY <1>1, Types
<1>4. Session'
  BY <1>1, <1>3, ActiveStep, TransportStep, FlightStep, StopStep, CancelStep
     DEF Session
<1> QED
  BY <1>2, <1>4 DEF Inductive

(* The inductive invariant of the session: the run the desktop sent is in exactly one    *)
(* place of its way to the helper and back, completed() is called when it is in none,    *)
(* and what was asked before it was sent is still known.                                 *)
THEOREM DesktopInvariance == Spec => []Inductive
BY InitInductive, InductiveStep, PTL DEF Spec

(* The fields of Desktop keep their types, the arguments of start() and completed()      *)
(* included.                                                                             *)
THEOREM DesktopTypes == Spec => []TypeOK
<1>1. Inductive => TypeOK
  BY DEF Inductive
<1> QED
  BY <1>1, DesktopInvariance, PTL

(* One operation at a time: start(), which looks at nothing but the helper's readiness   *)
(* and may be called from under any dialog, never leads to a second run beside the one   *)
(* active_id_ names, nor to one beside the local analysis.                               *)
THEOREM SingleOperation == Spec => []OneOperation
<1>1. ASSUME Inductive
      PROVE  OneOperation
  <2>1. ActiveInv /\ FlightInv
    BY <1>1 DEF Inductive, Session
  <2> QED
    BY <2>1 DEF ActiveInv, FlightInv, Idle, OneOperation, AtHelper
<1> QED
  BY <1>1, DesktopInvariance, PTL

(* request_stop() writes no run id, and the run in the helper when the request is read   *)
(* is nevertheless the one it was written for.                                           *)
THEOREM StopReachesOwn == Spec => []StopsOwnRun
<1>1. ASSUME Inductive
      PROVE  StopsOwnRun
  <2>1. StopInv /\ FlightInv
    BY <1>1 DEF Inductive, Session
  <2> QED
    BY <2>1, Zenon DEF StopInv, FlightInv, StopsOwnRun
<1> QED
  BY <1>1, DesktopInvariance, PTL

(* A Stop pressed while the helper is being authenticated cancels the operation for      *)
(* good: no later line, dialog or answer makes submit() send it.                         *)
THEOREM CancelKept == Spec => []CancelledNeverSent
<1>1. ASSUME Inductive
      PROVE  CancelledNeverSent
  <2>1. ActiveInv /\ CancelInv
    BY <1>1 DEF Inductive, Session
  <2> QED
    BY <2>1, Zenon DEF ActiveInv, CancelInv, CancelledNeverSent
<1> QED
  BY <1>1, DesktopInvariance, PTL

(* The step that destroys the window leaves no run queued, supervised or about to be     *)
(* reported, although completed(), a discovery, a probe or an answered dialog may be the  *)
(* one that takes it, and neither of them looks at the helper.                            *)
THEOREM WindowStays == Spec => ClosesWhenIdle
<1>1. ASSUME Inductive', [Next]_vars
      PROVE  [~closed /\ closed' => ~busy' /\ (transport' = "up" => ~AtHelper')]_vars
  <2> SUFFICES ASSUME ~closed, closed' PROVE ~busy' /\ (transport' = "up" => ~AtHelper')
    OBVIOUS
  <2>1. ~busy'
    BY <1>1, CloseStep
  <2>2. ActiveInv' /\ FlightInv'
    BY <1>1 DEF Inductive, Session
  <2> QED
    BY <2>1, <2>2, Zenon DEF ActiveInv, FlightInv, Idle, AtHelper
<1> QED
  BY <1>1, DesktopInvariance, PTL DEF Spec, ClosesWhenIdle

=============================================================================
