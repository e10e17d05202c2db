-------------------------- MODULE ProbeRunnerProofs --------------------------
(***************************************************************************)
(* Proofs about ProbeRunner for every size limit, every read size and      *)
(* every amount of output.                                                 *)
(***************************************************************************)
EXTENDS ProbeRunner, TLAPS

Running == {"loop", "overflow", "failed", "poll", "join", "alive", "judge"}
CleaningUp == {"kill1", "wait1", "kill2", "wait2", "joinReader", "unreaped"}
Failures == {"PROBE_TIMEOUT", "PROBE_OUTPUT_TOO_LARGE", "PROBE_EXECUTION_FAILED"}

\* Which processes exist where run stands: there is a probe from Popen on, and a
\* reader only beside a probe; run is past a wait only with the probe reaped.
ControlInv ==
    /\ pc \in {"start", "spawned"} => reader = "none"
    /\ pc \in Running => reader # "none"
    /\ pc \notin {"start", "returned"} => child # "none"
    /\ pc = "start" => child = "none"
    /\ child = "none" => reader = "none"
    /\ pc \in {"join", "alive", "judge", "joinReader"} => child = "reaped"
    /\ pc = "alive" => ~ ReaderAlive \/ expired
    /\ pc = "judge" => ~ ReaderAlive
    /\ closed => pc = "returned" /\ ~ ReaderAlive

\* What a reader that has left its loop without an event knows: it has read all
\* there is, and nobody is left to write more.
ReaderInv ==
    /\ overflow <=> out > MaxBytes
    /\ reader \in {"none", "reading"} => ~ overflow /\ ~ readerFailed
    /\ reader \in {"ending", "done"} /\ ~ overflow /\ ~ readerFailed =>
          ~ Writers /\ out = written

\* What each result rests on.
ResultInv ==
    /\ pc \in {"start", "spawned"} \union Running => result = "none"
    /\ pc \in CleaningUp => result \in Failures
    /\ pc = "returned" => result # "none"
    /\ result = "parsed" =>
          /\ reader = "done" /\ ~ overflow /\ ~ readerFailed
          /\ child = "reaped" /\ exitCode = 0
    /\ result = "PROBE_TIMEOUT" => expired
    /\ result = "PROBE_OUTPUT_TOO_LARGE" => overflow
    /\ result = "PROBE_EXECUTION_FAILED" => reader = "none" \/ readerFailed
    /\ result = "PROBE_EXIT_NONZERO" => exitCode # 0 /\ child = "reaped"

\* Which waits have expired where the cleanup stands.
CleanUpInv ==
    /\ pc \in {"kill2", "wait2"} => "wait1" \in gaveUp
    /\ pc = "unreaped" => {"wait1", "wait2"} \subseteq gaveUp
    /\ Released

IInv == TypeOK /\ ControlInv /\ ReaderInv /\ ResultInv /\ CleanUpInv

-----------------------------------------------------------------------------
LEMMA IInvInit == Init => IInv
<1> SUFFICES ASSUME Init PROVE IInv
    OBVIOUS
<1>1. TypeOK
  <2>1. {overflow, readerFailed, closed, killed, holder, expired} \subseteq BOOLEAN
        BY Zenon DEF Init
  <2> QED BY <2>1, SizesAssumption DEF Init, TypeOK, Least
<1>2. ControlInv
      BY DEF Init, ControlInv, ReaderAlive, Running
<1>3. ReaderInv
      BY SizesAssumption DEF Init, ReaderInv
<1>4. ResultInv
      BY DEF Init, ResultInv, CleaningUp
<1>5. CleanUpInv
      BY DEF Init, CleanUpInv, Released
<1> QED BY <1>1, <1>2, <1>3, <1>4, <1>5 DEF IInv

\* A read asks for at least one byte and for no more than may be stored.
LEMMA AskBounds ==
    ASSUME NEW stored \in Nat, stored <= MaxBytes
    PROVE  Ask(stored) \in 1..(MaxBytes + 1 - stored)
BY SizesAssumption DEF Ask, Least

\* What a read leaves: the counters stay in their bounds, and a read that returns
\* nothing has found the pipe empty and without writers.
LEMMA ReadEffect ==
    ASSUME TypeOK, ReaderInv, Read
    PROVE  /\ out' \in 0..Least(written, MaxBytes + 1)
           /\ out <= out'
           /\ overflow' <=> out' > MaxBytes
           /\ reader' \in {"reading", "ending"}
           /\ reader' = "reading" => ~ overflow'
           /\ reader' = "ending" /\ ~ overflow' => ~ Writers /\ out' = written
<1> DEFINE k == Least(Ask(out), InPipe)
<1>1. /\ out \in Nat /\ written \in Nat
      /\ out <= written /\ out <= MaxBytes
      BY SizesAssumption DEF TypeOK, ReaderInv, Read, Least
<1>2. Ask(out) \in 1..(MaxBytes + 1 - out)
      BY <1>1, AskBounds
<1>3. /\ k \in Nat
      /\ k <= Ask(out) /\ k <= written - out
      /\ k = 0 => InPipe = 0
      BY <1>1, <1>2 DEF Least, InPipe
<1>4. /\ out' = out + k
      /\ overflow' = (out' > MaxBytes)
      /\ reader' = IF k = 0 \/ overflow' THEN "ending" ELSE "reading"
      BY DEF Read
<1>5. k = 0 => ~ Writers
      BY <1>2, <1>3 DEF Read
<1> HIDE DEF k
<1>6. out' \in 0..Least(written, MaxBytes + 1) /\ out <= out'
      BY <1>1, <1>2, <1>3, <1>4, SizesAssumption DEF Least
<1>7. k = 0 => out' = written
      BY <1>1, <1>3, <1>4 DEF InPipe
<1> QED BY <1>4, <1>5, <1>6, <1>7

-----------------------------------------------------------------------------
\* The reader thread.
LEMMA ReaderNext == ASSUME IInv, Reader PROVE IInv'
<1> USE DEF IInv
<1>1. ASSUME Read PROVE IInv'
  <2>1. /\ out' \in 0..Least(written, MaxBytes + 1)
        /\ out <= out'
        /\ overflow' <=> out' > MaxBytes
        /\ reader' \in {"reading", "ending"}
        /\ reader' = "reading" => ~ overflow'
        /\ reader' = "ending" /\ ~ overflow' => ~ Writers /\ out' = written
        BY <1>1, ReadEffect
  <2>2. /\ reader = "reading"
        /\ overflow' \in BOOLEAN
        /\ UNCHANGED <<mainVars, readerFailed, childVars, expired>>
        BY <1>1 DEF Read
  <2>3. TypeOK'
    <3>1. {overflow, readerFailed, closed, killed, holder, expired}' \subseteq BOOLEAN
          BY <2>2, Zenon DEF TypeOK, mainVars, childVars
    <3> QED BY <2>1, <2>2, <3>1 DEF TypeOK, mainVars, childVars
  <2>4. ControlInv'
        BY <2>1, <2>2 DEF ControlInv, mainVars, childVars, ReaderAlive, Running
  <2>5. ReaderInv'
        BY <2>1, <2>2 DEF ReaderInv, mainVars, childVars, Writers
  <2>6. ResultInv'
        BY <2>1, <2>2, SizesAssumption DEF ResultInv, ReaderInv, TypeOK, mainVars, childVars
  <2>7. CleanUpInv'
        BY <2>2 DEF CleanUpInv, Released, mainVars, childVars
  <2> QED BY <2>3, <2>4, <2>5, <2>6, <2>7
<1>2. ASSUME ReadFails \/ ReaderEnds PROVE IInv'
  <2>1. \/ reader = "reading" /\ reader' = "ending" /\ readerFailed' = TRUE
        \/ reader = "ending" /\ reader' = "done" /\ readerFailed' = readerFailed
        BY <1>2 DEF ReadFails, ReaderEnds
  <2>2. UNCHANGED <<mainVars, out, overflow, childVars, expired>>
        BY <1>2 DEF ReadFails, ReaderEnds
  <2>3. TypeOK'
    <3>1. {overflow, readerFailed, closed, killed, holder, expired}' \subseteq BOOLEAN
          BY <2>1, <2>2, Zenon DEF TypeOK, mainVars, childVars
    <3> QED BY <2>1, <2>2, <3>1 DEF TypeOK, mainVars, childVars
  <2>4. ControlInv'
        BY <2>1, <2>2 DEF ControlInv, mainVars, childVars, ReaderAlive, Running
  <2>5. ReaderInv'
        BY <2>1, <2>2 DEF ReaderInv, mainVars, childVars, Writers
  <2>6. ResultInv'
        BY <2>1, <2>2 DEF ResultInv, mainVars, childVars
  <2>7. CleanUpInv'
        BY <2>2 DEF CleanUpInv, Released, mainVars, childVars
  <2> QED BY <2>3, <2>4, <2>5, <2>6, <2>7
<1> QED BY <1>1, <1>2 DEF Reader

\* The probe, its descendant and the clock.
LEMMA EnvironmentNext == ASSUME IInv, Environment \/ Expire PROVE IInv'
<1> USE DEF IInv
<1>1. UNCHANGED <<mainVars, readerVars>>
      BY DEF Environment, Expire, Write, Exit, Inherit, LetGo
<1>2. /\ child' = child \/ (child = "running" /\ child' = "zombie")
      /\ child = "running" \/ exitCode' = exitCode
      /\ exitCode' \in {0, 1}
      /\ expired => expired'
      BY DEF Environment, Expire, Write, Exit, Inherit, LetGo, TypeOK, childVars
<1>3. written' \in 0..MaxWritten /\ written <= written'
      BY SizesAssumption DEF Environment, Expire, Write, Exit, Inherit, LetGo, TypeOK, childVars
<1>4. Writers \/ (~ Writers' /\ written' = written)
      BY DEF Environment, Expire, Write, Exit, Inherit, LetGo, Writers, childVars
<1>5. TypeOK'
  <2>1. {overflow, readerFailed, closed, killed, holder, expired}' \subseteq BOOLEAN
        BY <1>1, Zenon DEF Environment, Expire, Write, Exit, Inherit, LetGo, TypeOK,
           mainVars, readerVars, childVars
  <2>2. out' \in 0..Least(written', MaxBytes + 1)
        BY <1>1, <1>3, SizesAssumption DEF TypeOK, readerVars, Least
  <2> QED BY <1>1, <1>2, <1>3, <2>1, <2>2 DEF TypeOK, mainVars, readerVars
<1>6. ControlInv'
      BY <1>1, <1>2 DEF ControlInv, mainVars, readerVars, ReaderAlive, Running
<1>7. ReaderInv'
      BY <1>1, <1>4 DEF ReaderInv, readerVars
<1>8. ResultInv'
      BY <1>1, <1>2 DEF ResultInv, mainVars, readerVars
<1>9. CleanUpInv'
      BY <1>1, <1>2 DEF CleanUpInv, Released, mainVars
<1> QED BY <1>5, <1>6, <1>7, <1>8, <1>9

-----------------------------------------------------------------------------
\* The calling thread leaves the reader's variables alone, but for starting it,
\* and of the processes it changes only whether the probe is reaped.
LEMMA MainFrame ==
    ASSUME IInv, Main
    PROVE  /\ UNCHANGED <<out, overflow, readerFailed, exitCode, holder, written, expired>>
           /\ reader' = reader \/ (pc = "spawned" /\ pc' = "loop" /\ reader' = "reading")
           /\ \/ child' = child
              \/ child = "zombie" /\ child' = "reaped"
              \/ pc = "start" /\ pc' = "spawned" /\ child' = "running"
BY DEF Main, PopenFails, Popen, StartReader, CheckDeadline, CheckOverflow, CheckFailed, Poll,
       Join, Alive, CheckAlive, Judge, Kill, Wait, EndCleanUp, Goto, CleanUp, Reap,
       readerVars, childVars, IInv, ControlInv

LEMMA MainType == ASSUME IInv, Main PROVE TypeOK'
<1> USE DEF IInv, TypeOK
<1>1. /\ pc' \in {"start", "spawned", "loop", "overflow", "failed", "poll", "join", "alive",
               "judge", "kill1", "wait1", "kill2", "wait2", "joinReader", "unreaped", "returned"}
      /\ result' \in {"none", "parsed", "PROBE_TIMEOUT", "PROBE_OUTPUT_TOO_LARGE",
                   "PROBE_EXECUTION_FAILED", "PROBE_EXIT_NONZERO"}
      BY DEF Main, PopenFails, Popen, StartReader, CheckDeadline, CheckOverflow, CheckFailed, Poll,
             Join, Alive, CheckAlive, Judge, Verdict, Kill, Wait, EndCleanUp, Goto, CleanUp
<1>2. gaveUp' \subseteq {"wait1", "wait2", "join"}
      BY DEF Main, PopenFails, Popen, StartReader, CheckDeadline, CheckOverflow, CheckFailed, Poll,
             Join, Alive, Judge, Kill, Wait, EndCleanUp
<1>3. closed' \in BOOLEAN /\ killed' \in BOOLEAN
      BY Zenon DEF Main, PopenFails, Popen, StartReader, CheckDeadline, CheckOverflow, CheckFailed,
             Poll, Join, Alive, Judge, Kill, Wait, EndCleanUp, childVars
<1>4. {overflow, readerFailed, closed, killed, holder, expired}' \subseteq BOOLEAN
      BY <1>3, MainFrame, Zenon
<1> QED BY <1>1, <1>2, <1>4, MainFrame

\* run leaves a wait, and closes stdout, only where it may.
LEMMA MainControl == ASSUME IInv, Main PROVE ControlInv'
<1> USE DEF IInv, ControlInv, Running, ReaderAlive, Goto
<1>1. CASE PopenFails \/ Popen \/ StartReader
      BY <1>1 DEF PopenFails, Popen, StartReader, readerVars, childVars
<1>2. CASE CheckDeadline \/ CheckOverflow \/ CheckFailed
      BY <1>2 DEF CheckDeadline, CheckOverflow, CheckFailed, CleanUp, readerVars, childVars
<1>3. CASE Poll \/ Join
      BY <1>3 DEF Poll, Reap, Join, Joined, readerVars, childVars
<1>4. CASE Alive \/ Judge
      BY <1>4 DEF Alive, CheckAlive, CleanUp, Judge, readerVars, childVars
<1>5. CASE Kill \/ Wait
      BY <1>5 DEF Kill, Wait, Reap, TypeOK, readerVars, childVars
<1>6. CASE EndCleanUp
      BY <1>6 DEF EndCleanUp, MayClose, readerVars, childVars
<1> QED BY <1>1, <1>2, <1>3, <1>4, <1>5, <1>6 DEF Main

\* The reader only depends on run for being started.
LEMMA MainReader == ASSUME IInv, Main PROVE ReaderInv'
<1>1. ~ Writers => pc = "start" \/ ~ Writers'
      BY MainFrame DEF Writers
<1>2. overflow' <=> out' > MaxBytes
      BY MainFrame DEF IInv, ReaderInv
<1>3. CASE reader' = reader
  <2>1. pc = "start" => reader' = "none"
        BY <1>3 DEF IInv, ControlInv
  <2> QED BY <1>1, <1>2, <1>3, <2>1, MainFrame DEF IInv, ReaderInv
<1>4. CASE pc = "spawned" /\ reader' = "reading"
  <2>1. ~ overflow /\ ~ readerFailed
        BY <1>4 DEF IInv, ControlInv, ReaderInv
  <2> QED BY <1>2, <1>4, <2>1, MainFrame DEF IInv, ReaderInv
<1> QED BY <1>3, <1>4, MainFrame

LEMMA MainResult == ASSUME IInv, Main PROVE ResultInv'
<1> USE DEF IInv, ResultInv, Running, CleaningUp, Failures, Goto
<1>1. CASE PopenFails \/ Popen \/ StartReader
      BY <1>1 DEF PopenFails, Popen, StartReader, ControlInv, readerVars, childVars
<1>2. CASE CheckDeadline \/ CheckOverflow \/ CheckFailed
      BY <1>2 DEF CheckDeadline, CheckOverflow, CheckFailed, CleanUp, readerVars, childVars
<1>3. CASE Poll \/ Join
      BY <1>3 DEF Poll, Reap, Join, readerVars, childVars
<1>4. CASE Alive
      BY <1>4 DEF Alive, CheckAlive, CleanUp, ControlInv, readerVars, childVars
<1>5. CASE Judge
      BY <1>5 DEF Judge, Verdict, ControlInv, Running, ReaderAlive, TypeOK, readerVars, childVars
<1>6. CASE Kill \/ Wait \/ EndCleanUp
      BY <1>6 DEF Kill, Wait, Reap, EndCleanUp, readerVars, childVars
<1> QED BY <1>1, <1>2, <1>3, <1>4, <1>5, <1>6 DEF Main

LEMMA MainCleanUp == ASSUME IInv, Main PROVE CleanUpInv'
<1> USE DEF IInv, CleanUpInv, Released, Goto
<1>1. CASE PopenFails \/ Popen \/ StartReader
      BY <1>1 DEF PopenFails, Popen, StartReader, ControlInv, readerVars, childVars
<1>2. CASE CheckDeadline \/ CheckOverflow \/ CheckFailed \/ Poll \/ Join \/ Alive
      BY <1>2 DEF CheckDeadline, CheckOverflow, CheckFailed, Poll, Join, Alive, CheckAlive, CleanUp
<1>3. CASE Judge
      BY <1>3 DEF Judge, ControlInv, childVars
<1>4. CASE Kill \/ Wait
      BY <1>4 DEF Kill, Wait
<1>5. CASE EndCleanUp
      BY <1>5 DEF EndCleanUp, MayClose, ControlInv, childVars
<1> QED BY <1>1, <1>2, <1>3, <1>4, <1>5 DEF Main

LEMMA IInvNext == IInv /\ [Next]_vars => IInv'
<1> SUFFICES ASSUME IInv, [Next]_vars PROVE IInv'
    OBVIOUS
<1>1. CASE Main
      BY <1>1, MainType, MainControl, MainReader, MainResult, MainCleanUp DEF IInv
<1>2. CASE UNCHANGED vars
      BY <1>2 DEF vars, mainVars, readerVars, childVars, IInv, TypeOK, ControlInv, ReaderInv,
         ResultInv, CleanUpInv, Released, Writers, ReaderAlive
<1> QED BY <1>1, <1>2, ReaderNext, EnvironmentNext DEF Next

LEMMA Invariance == Spec => []IInv
BY IInvInit, IInvNext, PTL DEF Spec

-----------------------------------------------------------------------------
\* Every variable always holds a value of its type, and no more is stored of the
\* output than one byte beyond the limit.
THEOREM TypeCorrect == Spec => []TypeOK
<1>1. IInv => TypeOK
      BY DEF IInv
<1> QED BY <1>1, Invariance, PTL

\* What the parser is given is the whole output of a probe that exited with
\* code 0, whatever the probe, its descendant and the reader thread did.
THEOREM CompleteOutput == Spec => []ParsedIsComplete
<1>1. IInv => ParsedIsComplete
      BY SizesAssumption DEF IInv, ResultInv, ReaderInv, TypeOK, ParsedIsComplete, ReaderAlive
<1> QED BY <1>1, Invariance, PTL

\* Each error names something that happened, and good output in time is parsed.
THEOREM JustVerdict == Spec => []VerdictJustified
<1>1. ASSUME IInv PROVE VerdictJustified
  <2>1. result = "PROBE_OUTPUT_TOO_LARGE" => written > MaxBytes
        BY <1>1, SizesAssumption DEF IInv, TypeOK, ResultInv, ReaderInv, Least
  <2> QED BY <1>1, <2>1, SizesAssumption DEF IInv, TypeOK, ResultInv, VerdictJustified
<1> QED BY <1>1, Invariance, PTL

\* stdout is never closed under the reader thread.
THEOREM ReaderKeepsPipe == Spec => []NoCloseUnderReader
<1>1. IInv => NoCloseUnderReader
      BY DEF IInv, ControlInv, NoCloseUnderReader
<1> QED BY <1>1, Invariance, PTL

\* When run returns, what it has not released outlived the bounded waits.
THEOREM AllReleased == Spec => []Released
<1>1. IInv => Released
      BY DEF IInv, CleanUpInv
<1> QED BY <1>1, Invariance, PTL
=============================================================================
