----------------------------- MODULE RunCapture -----------------------------
(***************************************************************************)
(* run_capture of native/process.cpp: the calling thread polls for the end *)
(* of a child in a process group of its own, two reader threads drain its  *)
(* two pipes up to a limit, and the child is killed when it writes too     *)
(* much, runs too long or is cancelled.                                    *)
(*                                                                         *)
(* The child may fork: a descendant holds the pipes it inherited, and may  *)
(* leave the process group.  Output is counted, not stored.                *)
(***************************************************************************)
EXTENDS Naturals

CONSTANTS
  Limit,        \* output_limit
  PipeCap,      \* capacity of a pipe
  MaxWritten,   \* bound: what is written to one stream
  Timed,        \* a timeout was given
  MayFork       \* the child may leave a descendant behind

ASSUME SizesAssumption == Limit \in Nat /\ PipeCap \in Nat /\ MaxWritten \in Nat
ASSUME SwitchesAssumption == Timed \in BOOLEAN /\ MayFork \in BOOLEAN

Streams == {"out", "err"}
Processes == {"child", "descendant"}

VARIABLES
  child,        \* "none", "running", "zombie" or "reaped"
  descendant,   \* "none", "group", "escaped" or "gone"
  writers,      \* per stream: the processes that hold its write end
  pipe, written,        \* per stream: bytes in the pipe, bytes ever written
  kept, lost,           \* bytes appended to the result, bytes read and dropped
  exceeded, reader,     \* per stream: the flag, "reading" or "done"
  failed,               \* history, per stream: a read failed
  autoReap,             \* SIGCHLD is ignored: the kernel reaps, and waitpid fails
  cancelFlag, elapsed,  \* *g_cancel_flag, the timeout has passed
  pc,                   \* the calling thread
  cause,                \* killed_for_output, cancelled, timed_out (at most one is set), or
                        \* "wait": waitpid failed
  outcome

procVars   == <<child, descendant, writers>>
dataVars   == <<pipe, written, kept, lost>>
readerVars == <<exceeded, reader, failed>>
envVars    == <<autoReap, cancelFlag, elapsed>>
callVars   == <<pc, cause, outcome>>
vars == <<procVars, dataVars, readerVars, envVars, callVars>>

Zero == [s \in Streams |-> 0]

Init ==
  /\ child = "none" /\ descendant = "none" /\ writers = [s \in Streams |-> {}]
  /\ pipe = Zero /\ written = Zero /\ kept = Zero /\ lost = Zero
  /\ exceeded = [s \in Streams |-> FALSE] /\ reader = [s \in Streams |-> "reading"]
  /\ failed = [s \in Streams |-> FALSE] /\ autoReap \in BOOLEAN
  /\ cancelFlag = FALSE /\ elapsed = FALSE
  /\ pc = "spawn" /\ cause = "none" /\ outcome = "none"

-----------------------------------------------------------------------------
(* The child, its descendant, the user and the clock *)

Dead == IF autoReap THEN "reaped" ELSE "zombie"
Alive(p) == IF p = "child" THEN child = "running" ELSE descendant \in {"group", "escaped"}
Without(p) == [s \in Streams |-> writers[s] \ {p}]

Write(s) ==
  /\ writers[s] # {} /\ pipe[s] < PipeCap /\ written[s] < MaxWritten
  /\ pipe' = [pipe EXCEPT ![s] = @ + 1] /\ written' = [written EXCEPT ![s] = @ + 1]
  /\ UNCHANGED <<procVars, kept, lost, readerVars, envVars, callVars>>

CloseStream(p, s) ==
  /\ p \in writers[s] /\ writers' = [writers EXCEPT ![s] = @ \ {p}]
  /\ UNCHANGED <<child, descendant, dataVars, readerVars, envVars, callVars>>

Fork ==
  /\ MayFork /\ child = "running" /\ descendant = "none"
  /\ descendant' \in {"group", "escaped"}
  /\ writers' = [s \in Streams |-> IF "child" \in writers[s] THEN Processes ELSE writers[s]]
  /\ UNCHANGED <<child, dataVars, readerVars, envVars, callVars>>

Exit(p) ==
  /\ Alive(p) /\ writers' = Without(p)
  /\ IF p = "child" THEN child' = Dead /\ UNCHANGED descendant
                    ELSE descendant' = "gone" /\ UNCHANGED child
  /\ UNCHANGED <<dataVars, readerVars, envVars, callVars>>

Cancel ==
  /\ ~cancelFlag /\ cancelFlag' = TRUE
  /\ UNCHANGED <<procVars, dataVars, readerVars, autoReap, elapsed, callVars>>

Elapse ==
  /\ ~elapsed /\ child # "none" /\ elapsed' = TRUE
  /\ UNCHANGED <<procVars, dataVars, readerVars, autoReap, cancelFlag, callVars>>

Environment ==
  \/ \E s \in Streams : Write(s) \/ \E p \in Processes : CloseStream(p, s)
  \/ Fork \/ (\E p \in Processes : Exit(p)) \/ Cancel \/ Elapse

-----------------------------------------------------------------------------
(* read_stream *)

Available(s) == IF kept[s] < Limit THEN Limit - kept[s] ELSE 0
Least(m, n) == IF m < n THEN m ELSE n

(* Mutant: the last buffer is kept whole. *)
ReadPastLimit(s) ==
  /\ child # "none" /\ reader[s] = "reading"
  /\ \E n \in 1..pipe[s] :
       /\ pipe' = [pipe EXCEPT ![s] = @ - n] /\ kept' = [kept EXCEPT ![s] = @ + n]
       /\ IF kept[s] + n > Limit THEN /\ exceeded' = [exceeded EXCEPT ![s] = TRUE]
                                     /\ reader' = [reader EXCEPT ![s] = "done"]
                                     /\ UNCHANGED failed
                                ELSE UNCHANGED readerVars
  /\ UNCHANGED <<procVars, written, lost, envVars, callVars>>

Read(s) ==
  /\ child # "none" /\ reader[s] = "reading"
  /\ \E n \in 1..pipe[s] :
       LET fits == Least(Available(s), n)
       IN /\ pipe' = [pipe EXCEPT ![s] = @ - n]
          /\ kept' = [kept EXCEPT ![s] = @ + fits]
          /\ lost' = [lost EXCEPT ![s] = @ + (n - fits)]
          /\ IF fits < n THEN /\ exceeded' = [exceeded EXCEPT ![s] = TRUE]
                              /\ reader' = [reader EXCEPT ![s] = "done"]
                              /\ UNCHANGED failed
                         ELSE UNCHANGED readerVars
  /\ UNCHANGED <<procVars, written, envVars, callVars>>

(* End of file: nobody holds the write end. *)
ReadEof(s) ==
  /\ child # "none" /\ reader[s] = "reading" /\ pipe[s] = 0 /\ writers[s] = {}
  /\ reader' = [reader EXCEPT ![s] = "done"]
  /\ UNCHANGED <<procVars, dataVars, exceeded, failed, envVars, callVars>>

(* A failing read ends the capture in the same way. *)
ReadFails(s) ==
  /\ child # "none" /\ reader[s] = "reading"
  /\ reader' = [reader EXCEPT ![s] = "done"] /\ failed' = [failed EXCEPT ![s] = TRUE]
  /\ UNCHANGED <<procVars, dataVars, exceeded, envVars, callVars>>

Reader(s) == Read(s) \/ ReadEof(s) \/ ReadFails(s)

-----------------------------------------------------------------------------
(* The calling thread *)

Caller == UNCHANGED <<dataVars, readerVars, envVars>>
Exceeded == \E s \in Streams : exceeded[s]

Spawn ==
  /\ pc = "spawn" /\ pc' = "poll" /\ child' = "running"
  /\ writers' = [s \in Streams |-> {"child"}]
  /\ UNCHANGED <<descendant, cause, outcome>> /\ Caller

(* No pipe, no process: an exception, nothing to clean up. *)
SpawnFails ==
  /\ pc = "spawn" /\ pc' = "done" /\ outcome' = "error"
  /\ UNCHANGED <<procVars, cause>> /\ Caller

(* waitpid(WNOHANG): the child has ended, is running, or is not there any more. *)
Poll ==
  /\ pc = "poll"
  /\ IF child = "zombie" THEN child' = "reaped" /\ pc' = "joinOut" /\ UNCHANGED cause
     ELSE IF child = "reaped" THEN pc' = "kill" /\ cause' = "wait" /\ UNCHANGED child
     ELSE pc' = "check" /\ UNCHANGED <<child, cause>>
  /\ UNCHANGED <<descendant, writers, outcome>> /\ Caller

(* Mutant: the clock is not looked at. *)
CheckUntimed ==
  /\ pc = "check"
  /\ cause' = IF Exceeded THEN "output" ELSE IF cancelFlag THEN "cancelled" ELSE "none"
  /\ pc' = IF cause' = "none" THEN "poll" ELSE "kill"
  /\ UNCHANGED <<procVars, outcome>> /\ Caller

Check ==
  /\ pc = "check"
  /\ cause' = IF Exceeded THEN "output"
              ELSE IF cancelFlag THEN "cancelled"
              ELSE IF Timed /\ elapsed THEN "timeout" ELSE "none"
  /\ pc' = IF cause' = "none" THEN "poll" ELSE "kill"
  /\ UNCHANGED <<procVars, outcome>> /\ Caller

(* Mutant: only the child is signalled. *)
KillChild ==
  /\ pc = "kill" /\ pc' = "reap"
  /\ child' = Dead /\ writers' = Without("child")
  /\ UNCHANGED <<descendant, cause, outcome>> /\ Caller

(* terminate_process_group *)
Kill ==
  /\ pc = "kill" /\ pc' = "reap" /\ child' = Dead
  /\ IF descendant = "group"
       THEN descendant' = "gone" /\ writers' = [s \in Streams |-> {}]
       ELSE writers' = Without("child") /\ UNCHANGED descendant
  /\ UNCHANGED <<cause, outcome>> /\ Caller

(* The blocking waitpid; a failed waitpid is not repeated. *)
ReapKilled ==
  /\ pc = "reap" /\ child' = "reaped" /\ pc' = "joinOut"
  /\ UNCHANGED <<descendant, writers, cause, outcome>> /\ Caller

JoinOut ==
  /\ pc = "joinOut" /\ reader["out"] = "done" /\ pc' = "joinErr"
  /\ UNCHANGED <<procVars, cause, outcome>> /\ Caller

JoinErr ==
  /\ pc = "joinErr" /\ reader["err"] = "done" /\ pc' = "report"
  /\ UNCHANGED <<procVars, cause, outcome>> /\ Caller

(* Mutant: the flags are not looked at again after the joins. *)
ReportEarly ==
  /\ pc = "report" /\ pc' = "done"
  /\ outcome' = IF cause = "wait" THEN "error"
                ELSE IF cause = "output" THEN "truncated"
                ELSE IF cause = "none" THEN "result" ELSE cause
  /\ UNCHANGED <<procVars, cause>> /\ Caller

Report ==
  /\ pc = "report" /\ pc' = "done"
  /\ outcome' = IF cause = "wait" THEN "error"
                ELSE IF cause = "output" \/ Exceeded THEN "truncated"
                ELSE IF cause = "none" THEN "result" ELSE cause
  /\ UNCHANGED <<procVars, cause>> /\ Caller

RunCapture == \/ Spawn \/ SpawnFails \/ Poll \/ Check \/ Kill \/ ReapKilled
              \/ JoinOut \/ JoinErr \/ Report

Terminated == pc = "done" /\ UNCHANGED vars

Next == Environment \/ (\E s \in Streams : Reader(s)) \/ RunCapture \/ Terminated

Spec == Init /\ [][Next]_vars

(* The scheduler runs the three threads, and time passes; nothing is assumed of the child. *)
FairSpec == Spec /\ WF_vars(RunCapture) /\ WF_vars(Elapse)
                 /\ \A s \in Streams : WF_vars(Read(s)) /\ WF_vars(ReadEof(s))

-----------------------------------------------------------------------------
(* Properties *)

(* Type invariant: every variable keeps its type, and what was read never exceeds the limit. *)
TypeOK ==
  /\ child \in {"none", "running", "zombie", "reaped"}
  /\ descendant \in {"none", "group", "escaped", "gone"}
  /\ writers \in [Streams -> SUBSET Processes]
  /\ pipe \in [Streams -> Nat] /\ written \in [Streams -> Nat]
  /\ kept \in [Streams -> 0..Limit] /\ lost \in [Streams -> Nat]
  /\ exceeded \in [Streams -> BOOLEAN] /\ reader \in [Streams -> {"reading", "done"}]
  /\ failed \in [Streams -> BOOLEAN] /\ autoReap \in BOOLEAN
  /\ cancelFlag \in BOOLEAN /\ elapsed \in BOOLEAN
  /\ pc \in {"spawn", "poll", "check", "kill", "reap", "joinOut", "joinErr", "report", "done"}
  /\ cause \in {"none", "output", "cancelled", "timeout", "wait"}
  /\ outcome \in {"none", "error", "result", "truncated", "cancelled", "timeout"}

(* run_capture returns a result only when it holds everything that was written, by the    *)
(* child and by whoever inherited its pipes, whenever the limit was met and unless a read *)
(* failed: allocation maps are parsed from it.                                            *)
ResultIsComplete ==
  outcome = "result" =>
    \A s \in Streams : failed[s] \/ (kept[s] = written[s] /\ writers[s] = {})

(* When run_capture gives up on a child, nothing of its process group is left running and *)
(* no zombie stays.                                                                       *)
NoSurvivor == pc = "done" /\ cause # "none" => child = "reaped" /\ descendant # "group"

(* With a timeout run_capture ends, whatever the child does, unless a descendant holds a  *)
(* pipe for ever: the joins are not timed.                                                *)
HoldsPipe == \E s \in Streams : "descendant" \in writers[s]
CaptureEnds == <>(pc = "done") \/ <>[]HoldsPipe

-----------------------------------------------------------------------------
(* The inductive invariant behind ResultIsComplete and NoSurvivor. *)

(* Every byte written is kept, waiting or lost, and a loss is on record. *)
AccountInv ==
  \A s \in Streams : /\ written[s] = kept[s] + pipe[s] + lost[s]
                     /\ lost[s] > 0 => exceeded[s]

(* A reader that stopped without exceeding the limit saw the end of file, which is final. *)
ReaderInv ==
  \A s \in Streams :
    /\ child = "none" => reader[s] = "reading"
    /\ exceeded[s] => reader[s] = "done"
    /\ reader[s] = "done" /\ ~exceeded[s] /\ ~failed[s] => pipe[s] = 0 /\ writers[s] = {}

(* How far the calling thread is. *)
CallerInv ==
  /\ pc = "spawn" => child = "none"
  /\ pc \in {"joinErr", "report"} \/ outcome = "result" => reader["out"] = "done"
  /\ pc = "report" \/ outcome = "result" => reader["err"] = "done"
  /\ outcome = "result" => pc = "done" /\ ~Exceeded
  /\ pc # "done" => outcome = "none"

(* Once the group was signalled, none of it is running. *)
KilledInv ==
  /\ cause # "none" => pc \in {"kill", "reap", "joinOut", "joinErr", "report", "done"}
  /\ cause # "none" /\ pc # "kill" => child \in {"zombie", "reaped"} /\ descendant # "group"
  /\ cause # "none" /\ pc \notin {"kill", "reap"} => child = "reaped"
  /\ cause = "none" => pc \notin {"kill", "reap"}
  /\ pc \in {"joinOut", "joinErr", "report"} => child = "reaped"

Capture == AccountInv /\ ReaderInv /\ CallerInv /\ KilledInv
=============================================================================
