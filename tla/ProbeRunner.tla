---------------------------- MODULE ProbeRunner ----------------------------
(***************************************************************************)
(* SubprocessProbeRunner.run (src/rextio_device_cuda/probe.py): the calling *)
(* thread starts the probe and a reader thread, waits for overflow, reader *)
(* failure, exit or the deadline, cleans up and judges the output.  Beside *)
(* it run the reader, the probe process, a descendant of the probe that    *)
(* may keep its standard output open, and the clock.                       *)
(***************************************************************************)
EXTENDS Naturals

CONSTANTS
    MaxBytes,   \* _MAX_REPORT_BYTES
    Chunk,      \* the most one read asks for (8192)
    MaxWritten  \* bound: bytes the probe and its descendant write

ASSUME SizesAssumption ==
    /\ MaxBytes \in Nat /\ Chunk \in Nat \ {0} /\ MaxWritten \in Nat

VARIABLES
    pc,        \* where run stands
    result,    \* "none", "parsed" or the reason code of the error to raise
    reader,    \* reader thread: "none", "reading", "ending" (loop left), "done"
    out,       \* len(output)
    overflow, readerFailed,  \* the two events of the reader
    closed,    \* stdout was closed by run
    child,     \* "none", "running", "zombie" (exited, not waited for), "reaped"
    exitCode,  \* of an exited child
    killed,    \* a kill signal was delivered
    holder,    \* a descendant holds the write end of the pipe
    written,   \* bytes written to the pipe so far
    expired,   \* the deadline has passed
    gaveUp     \* history: the bounded waits of the cleanup that expired

mainVars == <<pc, result, closed, gaveUp>>
readerVars == <<reader, out, overflow, readerFailed>>
childVars == <<child, exitCode, killed, holder, written>>
vars == <<mainVars, readerVars, childVars, expired>>

Init ==
    /\ pc = "start" /\ result = "none" /\ closed = FALSE /\ gaveUp = {}
    /\ reader = "none" /\ out = 0 /\ overflow = FALSE /\ readerFailed = FALSE
    /\ child = "none" /\ exitCode = 0 /\ killed = FALSE /\ holder = FALSE
    /\ written = 0
    /\ expired = FALSE

Writers == child = "running" \/ holder
ReaderAlive == reader \in {"reading", "ending"}

-----------------------------------------------------------------------------
\* The calling thread.
Goto(label) == pc' = label
Reap == child' = IF child = "zombie" THEN "reaped" ELSE child

\* The path checks or Popen fail: there is no process.
PopenFails ==
    /\ pc = "start"
    /\ Goto("returned") /\ result' = "PROBE_EXECUTION_FAILED"
    /\ UNCHANGED <<closed, gaveUp, readerVars, childVars, expired>>

Popen ==
    /\ pc = "start"
    /\ Goto("spawned") /\ child' = "running"
    /\ UNCHANGED <<result, closed, gaveUp, readerVars, exitCode, killed, holder, written, expired>>

StartReader ==
    /\ pc = "spawned"
    /\ \/ Goto("loop") /\ reader' = "reading" /\ UNCHANGED result
       \/ Goto("kill1") /\ result' = "PROBE_EXECUTION_FAILED" /\ UNCHANGED reader
    /\ UNCHANGED <<closed, gaveUp, out, overflow, readerFailed, childVars, expired>>

\* Seeded defect: an error is raised without stopping the probe.
RaiseOnly(reason) == Goto("returned") /\ result' = reason
\* _cleanup, then raise.
CleanUp(reason) == Goto("kill1") /\ result' = reason

\* The main loop: deadline, overflow event, reader failure, poll, each of
\* which reads what the other processes may be changing.
CheckDeadline ==
    /\ pc = "loop"
    /\ IF expired THEN CleanUp("PROBE_TIMEOUT") ELSE Goto("overflow") /\ UNCHANGED result
    /\ UNCHANGED <<closed, gaveUp, readerVars, childVars, expired>>
CheckOverflow ==
    /\ pc = "overflow"
    /\ IF overflow THEN CleanUp("PROBE_OUTPUT_TOO_LARGE")
                   ELSE Goto("failed") /\ UNCHANGED result
    /\ UNCHANGED <<closed, gaveUp, readerVars, childVars, expired>>
CheckFailed ==
    /\ pc = "failed"
    /\ IF readerFailed THEN CleanUp("PROBE_EXECUTION_FAILED")
                       ELSE Goto("poll") /\ UNCHANGED result
    /\ UNCHANGED <<closed, gaveUp, readerVars, childVars, expired>>
Poll ==
    /\ pc = "poll"
    /\ Reap
    /\ Goto(IF child = "zombie" THEN "join" ELSE "loop")
    /\ UNCHANGED <<result, closed, gaveUp, readerVars, exitCode, killed, holder, written, expired>>

\* Seeded defects: the exit of the probe taken for the end of its output; no
\* bound on the join.
JoinNothing == TRUE
JoinForever == ~ ReaderAlive
\* reader.join until the deadline.
Joined == ~ ReaderAlive \/ expired

Join ==
    /\ pc = "join"
    /\ Joined
    /\ Goto("alive")
    /\ UNCHANGED <<result, closed, gaveUp, readerVars, childVars, expired>>

\* Seeded defect: is_alive not checked after the join.
CheckAliveNever == Goto("judge") /\ UNCHANGED result
\* The reader may still end between the join and is_alive.
CheckAlive ==
    IF ReaderAlive THEN CleanUp("PROBE_TIMEOUT") ELSE Goto("judge") /\ UNCHANGED result

Alive ==
    /\ pc = "alive"
    /\ CheckAlive
    /\ UNCHANGED <<closed, gaveUp, readerVars, childVars, expired>>

\* The order of the checks on what the reader left.
Verdict ==
    IF overflow THEN "PROBE_OUTPUT_TOO_LARGE"
    ELSE IF readerFailed THEN "PROBE_EXECUTION_FAILED"
    ELSE IF exitCode # 0 THEN "PROBE_EXIT_NONZERO" ELSE "parsed"

\* stdout is closed and the output judged; a good one goes to the parser.
Judge ==
    /\ pc = "judge"
    /\ closed' = TRUE
    /\ Goto("returned") /\ result' = Verdict
    /\ UNCHANGED <<gaveUp, readerVars, childVars, expired>>

\* _terminate_process: kill unless the child is known to have exited (the kill
\* itself may fail), wait for a bounded time, and the same once more.
Kill ==
    /\ \/ pc = "kill1" /\ Goto("wait1")
       \/ pc = "kill2" /\ Goto("wait2")
    /\ Reap
    /\ killed' \in {killed, killed \/ child = "running"}
    /\ UNCHANGED <<result, closed, gaveUp, readerVars, exitCode, holder, written, expired>>
Wait ==
    /\ pc \in {"wait1", "wait2"}
    /\ IF child # "running" THEN Goto("joinReader") /\ UNCHANGED gaveUp
       ELSE /\ Goto(IF pc = "wait1" THEN "kill2" ELSE "unreaped")
            /\ gaveUp' = gaveUp \union {pc}
    /\ Reap
    /\ UNCHANGED <<result, closed, readerVars, exitCode, killed, holder, written, expired>>

\* Seeded defect: stdout is closed whether or not the reader has ended.
CloseAlways == TRUE
\* _cleanup closes stdout only when _terminate_and_join succeeded, and run
\* closes it in any case when there is no reader.
MayClose == ~ ReaderAlive

\* The bounded join of the reader, or none after a child that cannot be reaped,
\* and the error is raised.
EndCleanUp ==
    /\ pc \in {"joinReader", "unreaped"}
    /\ closed' = (MayClose /\ (pc = "joinReader" \/ reader = "none"))
    /\ gaveUp' = IF pc = "joinReader" /\ ReaderAlive THEN gaveUp \union {"join"} ELSE gaveUp
    /\ Goto("returned")
    /\ UNCHANGED <<result, readerVars, childVars, expired>>

Main ==
    \/ PopenFails \/ Popen \/ StartReader \/ CheckDeadline \/ CheckOverflow \/ CheckFailed
    \/ Poll \/ Join \/ Alive \/ Judge \/ Kill \/ Wait \/ EndCleanUp

-----------------------------------------------------------------------------
\* The reader thread.  A read returns what it asked for, or what is left when
\* every writer is gone: until then it blocks.
Least(a, b) == IF a < b THEN a ELSE b
InPipe == written - out

\* Seeded defect: reads are not limited by what may still be stored.
AskChunk(stored) == Chunk
Ask(stored) == Least(Chunk, MaxBytes + 1 - stored)

Read ==
    /\ reader = "reading"
    /\ InPipe >= Ask(out) \/ ~ Writers
    /\ LET k == Least(Ask(out), InPipe) IN
       /\ out' = out + k
       /\ overflow' = (out' > MaxBytes)
       /\ reader' = IF k = 0 \/ overflow' THEN "ending" ELSE "reading"
    /\ UNCHANGED <<mainVars, readerFailed, childVars, expired>>

ReadFails ==
    /\ reader = "reading"
    /\ readerFailed' = TRUE /\ reader' = "ending"
    /\ UNCHANGED <<mainVars, out, overflow, childVars, expired>>

ReaderEnds ==
    /\ reader = "ending"
    /\ reader' = "done"
    /\ UNCHANGED <<mainVars, out, overflow, readerFailed, childVars, expired>>

Reader == Read \/ ReadFails \/ ReaderEnds

-----------------------------------------------------------------------------
\* The probe, its descendant and the clock.  A killed probe may take any time
\* to exit; the reviewed probe has no descendant.
Write ==
    /\ Writers /\ written < MaxWritten
    /\ written' = written + 1
    /\ UNCHANGED <<mainVars, readerVars, child, exitCode, killed, holder, expired>>

Exit ==
    /\ child = "running"
    /\ child' = "zombie"
    /\ exitCode' \in IF killed THEN {1} ELSE {0, 1}
    /\ UNCHANGED <<mainVars, readerVars, killed, holder, written, expired>>

Inherit ==
    /\ child = "running" /\ ~ holder
    /\ holder' = TRUE
    /\ UNCHANGED <<mainVars, readerVars, child, exitCode, killed, written, expired>>

LetGo ==
    /\ holder
    /\ holder' = FALSE
    /\ UNCHANGED <<mainVars, readerVars, child, exitCode, killed, written, expired>>

Expire ==
    /\ ~ expired
    /\ expired' = TRUE
    /\ UNCHANGED <<mainVars, readerVars, childVars>>

Environment == Write \/ Exit \/ Inherit \/ LetGo

Next == Main \/ Reader \/ Environment \/ Expire

Spec == Init /\ [][Next]_vars

\* The calling thread runs and time passes; nothing is assumed of the reader
\* thread, which may block in read for ever, nor of the probe.
FairSpec == Spec /\ WF_vars(Main) /\ WF_vars(Expire)

-----------------------------------------------------------------------------
\* The variables hold values of their types; output is bounded by one byte more
\* than a report may have.
TypeOK ==
    /\ pc \in {"start", "spawned", "loop", "overflow", "failed", "poll", "join", "alive",
               "judge", "kill1", "wait1", "kill2", "wait2", "joinReader", "unreaped", "returned"}
    /\ result \in {"none", "parsed", "PROBE_TIMEOUT", "PROBE_OUTPUT_TOO_LARGE",
                   "PROBE_EXECUTION_FAILED", "PROBE_EXIT_NONZERO"}
    /\ reader \in {"none", "reading", "ending", "done"}
    /\ written \in 0..MaxWritten
    /\ out \in 0..Least(written, MaxBytes + 1)
    /\ child \in {"none", "running", "zombie", "reaped"}
    /\ exitCode \in {0, 1}
    /\ {overflow, readerFailed, closed, killed, holder, expired} \subseteq BOOLEAN
    /\ gaveUp \subseteq {"wait1", "wait2", "join"}

\* The parser is given the whole output of a probe that exited with code 0:
\* nothing is still in the pipe, nobody can write more, nothing was cut off.
ParsedIsComplete ==
    result = "parsed" =>
        /\ ~ ReaderAlive /\ ~ readerFailed
        /\ ~ Writers
        /\ out = written /\ out <= MaxBytes
        /\ child = "reaped" /\ exitCode = 0

\* Each error names something that happened, and a probe that did everything
\* right in time is parsed.
VerdictJustified ==
    /\ result = "PROBE_TIMEOUT" => expired
    /\ result = "PROBE_OUTPUT_TOO_LARGE" => written > MaxBytes
    /\ result = "PROBE_EXIT_NONZERO" => exitCode # 0
    /\ pc = "returned" /\ ~ expired /\ reader # "none" /\ ~ readerFailed
       /\ written <= MaxBytes /\ exitCode = 0 => result = "parsed"

\* run never closes stdout while the reader thread uses it.
NoCloseUnderReader == closed => ~ ReaderAlive

\* When run returns, the probe is reaped, unless both bounded waits for it
\* expired; and stdout is closed, unless the probe or the reader outlived the
\* waits for them.
Released ==
    pc = "returned" /\ child # "none" =>
        /\ child = "reaped" \/ {"wait1", "wait2"} \subseteq gaveUp
        /\ closed \/ {"wait1", "wait2"} \subseteq gaveUp \/ "join" \in gaveUp

\* run returns, whatever the probe, its descendants and the reader do.
RunReturns == pc = "spawned" ~> pc = "returned"
=============================================================================
