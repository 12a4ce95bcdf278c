--------------------------- MODULE AgentLoopProofs ---------------------------
(***************************************************************************)
(* The agent loop for every limit on cognition errors and every streak of  *)
(* them: the failsafe comes on every MaxFailures-th error, a shutdown is   *)
(* final, and the connection is dropped only after the landing was tried.  *)
(* Its steps are those of CommandGate.                                     *)
(***************************************************************************)
EXTENDS AgentLoop, TLAPS

Counted == failures \in Nat /\ failures < MaxFailures /\ streak \in Nat

\* A reason is recorded only while its hold is awaited.
ReasonWhileHolding == pc # "holding" => reason = "none"

\* Where the loop can be, and what shutdown has done by the time it closes components.
ShutdownOrder ==
  /\ pc \in IterationPcs \cup ShutdownPcs
  /\ pc \in {"closing", "closed", "broken"} => landed_out
  /\ pc \in IterationPcs => "drone" \in open

\* The inductive invariant.
LoopInv ==
  /\ Counted /\ FailsafeOnStreak /\ ReasonWhileHolding
  /\ ShutdownOrder /\ ShutdownIsFinal /\ LandedBeforeClosing

-----------------------------------------------------------------------------
(* Counting modulo the limit *)

\* Quotient and remainder are determined by their product and sum.
LEMMA Division ==
  ASSUME NEW M \in Nat \ {0}, NEW s \in Nat
  PROVE  s \div M \in Nat /\ s % M \in 0..(M - 1) /\ s = M * (s \div M) + (s % M)
BY SMTT(30)

LEMMA OneQuotient ==
  ASSUME NEW M \in Nat \ {0}, NEW a \in Nat, NEW b \in 0..(M - 1), NEW c \in Nat, NEW d \in 0..(M - 1),
         M * a + b = M * c + d
  PROVE  b = d
<1>1. CASE a = c
  BY <1>1
<1>2. CASE a < c
  <2>1. c >= a + 1
    BY <1>2
  <2>2. M * c >= M * (a + 1)
    BY <2>1, SMTT(30)
  <2>3. M * (a + 1) = M * a + M
    BY SMTT(30)
  <2> QED
    BY <2>2, <2>3, SMTT(30)
<1>3. CASE c < a
  <2>1. a >= c + 1
    BY <1>3
  <2>2. M * a >= M * (c + 1)
    BY <2>1, SMTT(30)
  <2>3. M * (c + 1) = M * c + M
    BY SMTT(30)
  <2> QED
    BY <2>2, <2>3, SMTT(30)
<1> QED
  BY <1>1, <1>2, <1>3

\* One more error: the remainder grows by one, or starts again at the limit.
LEMMA NextRemainder ==
  ASSUME NEW M \in Nat \ {0}, NEW s \in Nat, NEW f \in Nat, f = s % M
  PROVE  /\ f < M
         /\ f + 1 < M => (s + 1) % M = f + 1
         /\ f + 1 >= M => (s + 1) % M = 0
<1> DEFINE q == s \div M
<1> DEFINE p == (s + 1) \div M
<1> DEFINE r == (s + 1) % M
<1>1. q \in Nat /\ f \in 0..(M - 1) /\ s = M * q + f
  BY Division
<1>2. p \in Nat /\ r \in 0..(M - 1) /\ s + 1 = M * p + r
  <2>1. s + 1 \in Nat
    OBVIOUS
  <2> QED
    BY <2>1, Division
<1> HIDE DEF q, p
<1>3. ASSUME f + 1 < M PROVE r = f + 1
  <2>1. M * q + (f + 1) = M * p + r
    BY <1>1, <1>2, SMTT(30)
  <2>2. f + 1 \in 0..(M - 1)
    BY <1>3
  <2> HIDE DEF r
  <2> QED
    BY <1>1, <1>2, <2>1, <2>2, OneQuotient
<1>4. ASSUME f + 1 >= M PROVE r = 0
  <2>1. M * (q + 1) + 0 = M * p + r
    BY <1>1, <1>2, <1>4, SMTT(30)
  <2>2. q + 1 \in Nat /\ 0 \in 0..(M - 1)
    BY <1>1
  <2> HIDE DEF r
  <2> QED
    BY <1>2, <2>1, <2>2, OneQuotient
<1> QED
  BY <1>1, <1>3, <1>4

LEMMA ZeroRemainder == ASSUME NEW M \in Nat \ {0} PROVE 0 % M = 0
OBVIOUS

-----------------------------------------------------------------------------
(* A step at a time *)

\* The invariant holds at first.
LEMMA InitLoopInv == Init => LoopInv
BY LoopAssumption, ZeroRemainder
   DEF Init, LoopInv, Counted, FailsafeOnStreak, ReasonWhileHolding, ShutdownOrder,
       ShutdownIsFinal, LandedBeforeClosing, IterationPcs, ShutdownPcs, ComponentNames, Components

\* What a step that stays in the iteration has to keep.
InIteration == pc \in IterationPcs /\ pc' \in IterationPcs /\ UNCHANGED shutdownVars

\* The places in the loop are all different.
USE DEF IterationPcs, ShutdownPcs

\* While shutdown does not begin, only counting and the reason of a hold matter.
LEMMA IterationKeeps ==
  ASSUME LoopInv, InIteration, Counted', FailsafeOnStreak', ReasonWhileHolding'
  PROVE  LoopInv'
BY DEF LoopInv, InIteration, ShutdownOrder, ShutdownIsFinal, LandedBeforeClosing, shutdownVars

\* A hold that is no answer of cognition, or no hold at all.
LEMMA SafeHoldKeeps ==
  ASSUME LoopInv, NEW why \in {"EMERGENCY_KEYWORD", "LOOP_EXCEPTION_HOLD"},
         pc \in IterationPcs, safe_hold(why), UNCHANGED shutdownVars,
         Counted', failures' = streak' % MaxFailures
  PROVE  LoopInv'
<1>1. InIteration /\ ReasonWhileHolding' /\ FailsafeOnStreak'
  BY DEF InIteration, safe_hold, Emit, ReasonWhileHolding, FailsafeOnStreak
<1> QED
  BY <1>1, IterationKeeps

\* The end of an iteration.
LEMMA EmitKeeps ==
  ASSUME LoopInv, pc \in IterationPcs, Emit, UNCHANGED <<failureVars, shutdownVars>>
  PROVE  LoopInv'
<1>1. InIteration /\ ReasonWhileHolding' /\ FailsafeOnStreak' /\ Counted'
  BY DEF LoopInv, InIteration, Emit, ReasonWhileHolding, FailsafeOnStreak, Counted, failureVars
<1> QED
  BY <1>1, IterationKeeps

\* A shutdown begins with everything open.
LEMMA BeginShutdownKeeps ==
  ASSUME LoopInv, pc \in IterationPcs, BeginShutdown, UNCHANGED failureVars
  PROVE  LoopInv'
BY DEF LoopInv, BeginShutdown, Counted, FailsafeOnStreak, ReasonWhileHolding, ShutdownOrder,
       ShutdownIsFinal, LandedBeforeClosing, failureVars

\* An error of cognition counts one more, and the hold it causes says which it was.
LEMMA CognitionFailsKeeps == LoopInv /\ CognitionFails => LoopInv'
<1> SUFFICES ASSUME LoopInv, CognitionFails PROVE LoopInv'
  OBVIOUS
<1> USE DEF LoopInv, Counted
<1>1. InIteration /\ ReasonWhileHolding'
  BY DEF CognitionFails, InIteration, safe_hold, Emit, ReasonWhileHolding
<1>2. Counted' /\ FailsafeOnStreak'
  <2>0. streak' = streak + 1 /\ failures = streak % MaxFailures /\ MaxFailures \in Nat \ {0}
    BY LoopAssumption DEF CognitionFails, FailsafeOnStreak
  <2>1. CASE failures + 1 < MaxFailures /\ failures' = failures + 1 /\ safe_hold("VALIDATION_HOLD")
    <3>1. failures' = streak' % MaxFailures
      BY <2>0, <2>1, NextRemainder
    <3>2. reason' \in {"none", "VALIDATION_HOLD"}
      BY <2>1 DEF safe_hold, Emit
    <3> QED
      BY <2>0, <2>1, <3>1, <3>2 DEF FailsafeOnStreak
  <2>2. CASE failures + 1 >= MaxFailures /\ failures' = 0 /\ safe_hold("COGNITION_FAILSAFE_HOLD")
    <3>1. failures' = streak' % MaxFailures
      BY <2>0, <2>2, NextRemainder
    <3>2. reason' \in {"none", "COGNITION_FAILSAFE_HOLD"}
      BY <2>2 DEF safe_hold, Emit
    <3> QED
      BY <2>0, <2>2, <3>1, <3>2 DEF FailsafeOnStreak
  <2> QED
    BY <2>1, <2>2 DEF CognitionFails
<1> QED
  BY <1>1, <1>2, IterationKeeps

\* A success ends the streak.
LEMMA CommandAdmittedKeeps == LoopInv /\ CommandAdmitted => LoopInv'
<1> SUFFICES ASSUME LoopInv, CommandAdmitted PROVE LoopInv'
  OBVIOUS
<1>1. InIteration /\ ReasonWhileHolding' /\ reason' = "none"
  BY DEF CommandAdmitted, InIteration, Emit, LoopInv, ReasonWhileHolding
<1>2. Counted' /\ FailsafeOnStreak'
  BY <1>1, LoopAssumption, ZeroRemainder DEF CommandAdmitted, Counted, FailsafeOnStreak
<1> QED
  BY <1>1, <1>2, IterationKeeps

\* So does an emergency, before its hold is awaited.
LEMMA HearEmergencyKeeps == LoopInv /\ HearEmergency => LoopInv'
<1> SUFFICES ASSUME LoopInv, HearEmergency PROVE LoopInv'
  OBVIOUS
<1>1. Counted' /\ failures' = streak' % MaxFailures
  BY LoopAssumption, ZeroRemainder DEF HearEmergency, Counted
<1> QED
  BY <1>1, SafeHoldKeeps DEF HearEmergency

\* An exception in the iteration, with the counters as they are.
LEMMA LoopExceptionKeeps ==
  ASSUME LoopInv, pc \in IterationPcs, LoopException, UNCHANGED <<failureVars, shutdownVars>>
  PROVE  LoopInv'
<1>1. Counted' /\ failures' = streak' % MaxFailures
  BY DEF LoopInv, Counted, FailsafeOnStreak, failureVars
<1> QED
  BY <1>1, SafeHoldKeeps DEF LoopException

\* Every step keeps the invariant.
LEMMA NextLoopInv == LoopInv /\ [Next]_vars => LoopInv'
<1> SUFFICES ASSUME LoopInv, [Next]_vars PROVE LoopInv'
  OBVIOUS
<1> USE DEF LoopInv
<1>1. CASE Telemetry_changes \/ UNCHANGED vars
  BY <1>1 DEF Telemetry_changes, vars, iterationVars, failureVars, shutdownVars, Counted,
              FailsafeOnStreak, ReasonWhileHolding, ShutdownOrder, ShutdownIsFinal,
              LandedBeforeClosing
<1>2. CASE Connected \/ HearCommand \/ Looked
  <2>1. InIteration /\ ReasonWhileHolding' /\ reason' = reason /\ UNCHANGED failureVars
    BY <1>2 DEF Connected, HearCommand, Looked, AskCognition, InIteration, ReasonWhileHolding,
                iterationVars
  <2>2. Counted' /\ FailsafeOnStreak'
    BY <2>1 DEF Counted, FailsafeOnStreak, failureVars
  <2> QED
    BY <2>1, <2>2, IterationKeeps
<1>3. CASE HearNothing \/ Acted \/ Held
  BY <1>3, EmitKeeps DEF HearNothing, Acted, Held
<1>4. CASE IterationBreaks \/ ActFails
  BY <1>4, LoopExceptionKeeps DEF IterationBreaks, ActFails
<1>5. CASE HearEmergency
  BY <1>5, HearEmergencyKeeps
<1>6. CASE CognitionFails
  BY <1>6, CognitionFailsKeeps
<1>7. CASE CommandAdmitted
  BY <1>7, CommandAdmittedKeeps
<1>8. CASE HoldBreaks
  BY <1>8, LoopExceptionKeeps, BeginShutdownKeeps DEF HoldBreaks
<1>9. CASE Interrupt
  BY <1>9, BeginShutdownKeeps DEF Interrupt
<1>10. CASE ShutdownStep
  BY <1>10 DEF ShutdownStep, LandEnds, CloseNext, CloseFails, iterationVars, failureVars,
               shutdownVars, Counted, FailsafeOnStreak, ReasonWhileHolding, ShutdownOrder,
               ShutdownIsFinal, LandedBeforeClosing
<1> QED
  BY <1>1, <1>2, <1>3, <1>4, <1>5, <1>6, <1>7, <1>8, <1>9, <1>10 DEF Next, IterationStep

LEMMA LoopInvHolds == Spec => []LoopInv
BY InitLoopInv, NextLoopInv, PTL DEF Spec

-----------------------------------------------------------------------------

\* The failsafe hold answers every MaxFailures-th error in a row and no other, for every
\* limit and however emergencies, successes, exceptions and skipped holds alternate.
THEOREM FailsafeOnStreakHolds == Spec => []FailsafeOnStreak
<1>1. LoopInv => FailsafeOnStreak
  BY DEF LoopInv
<1> QED
  BY <1>1, LoopInvHolds, PTL

\* The controller is not closed before the landing was tried or found unnecessary.
THEOREM LandedBeforeClosingHolds == Spec => []LandedBeforeClosing
<1>1. LoopInv => LandedBeforeClosing
  BY DEF LoopInv
<1> QED
  BY <1>1, LoopInvHolds, PTL

\* A shutdown that has begun is never left for another iteration.
THEOREM ShutdownIsFinalHolds == Spec => []ShutdownIsFinal
<1>1. LoopInv => ShutdownIsFinal
  BY DEF LoopInv
<1> QED
  BY <1>1, LoopInvHolds, PTL

-----------------------------------------------------------------------------
(* The loop implements the gate *)

\* The gate judges as the loop does: the safety layer is the same.
LEMMA SameLayer ==
  /\ Gate!Admitted = {c \in Commands : Admits(c, Snapshot(memory, telemetry))}
  /\ Gate!Remember(memory, telemetry) = Remember(memory, telemetry)
  /\ Gate!Telemetry = Telemetry
  /\ Gate!FreshBuilder = FreshBuilder
<1>1. /\ Gate!Commands = Commands /\ Gate!FreshBuilder = FreshBuilder
      /\ Gate!Telemetry = Telemetry
  BY DEF Gate!Commands, Commands, Gate!FreshBuilder, FreshBuilder, Gate!Telemetry, Telemetry,
         Gate!FlightModes, FlightModes
<1>2. \A m, t : Gate!Remember(m, t) = Remember(m, t)
  BY DEF Gate!Remember, Remember
<1>3. \A m, t : Gate!Snapshot(m, t) = Snapshot(m, t)
  BY <1>2 DEF Gate!Snapshot, Snapshot, Gate!OperationalState, OperationalState,
              Gate!AirborneState, AirborneState, Gate!GroundState, GroundState
<1>4. \A c, s : Gate!Admits(c, s) = Admits(c, s)
  BY DEF Gate!Admits, Admits, Gate!AllowedStates, AllowedStates
<1> QED
  BY <1>1, <1>2, <1>3, <1>4 DEF Gate!Admitted

\* Initial states are initial.
LEMMA InitGate == Init => Gate!Init
<1> SUFFICES ASSUME Init PROVE Gate!Init
  OBVIOUS
<1>1. telemetry \in Telemetry
  BY DEF Init, Telemetry, FlightModes
<1>2. memory = FreshBuilder /\ Verdict = {} /\ Running = "none" /\ shutdown_done = FALSE
  BY DEF Init, Verdict, Running
<1> QED
  BY <1>1, <1>2, SameLayer DEF Gate!Init

\* What the gate sees of an iteration that is over.
LEMMA EmitIsEnd == Emit /\ UNCHANGED <<telemetry, shutdown_done>> => Gate!End
<1> SUFFICES ASSUME Emit, UNCHANGED <<telemetry, shutdown_done>> PROVE Gate!End
  OBVIOUS
<1>1. Verdict' = {} /\ Running' = "none" /\ memory' = Remember(memory, telemetry)
  BY DEF Emit, Verdict, Running
<1> QED
  BY <1>1, SameLayer DEF Gate!End, Gate!MayBuild

\* And of a fallback hold: one in the air, or the end of the iteration.
LEMMA SafeHoldIsFallback ==
  ASSUME ~shutdown_done, NEW why, safe_hold(why), UNCHANGED <<telemetry, shutdown_done>>
  PROVE  Gate!End \/ Gate!FallbackHold
<1>1. CASE Emit
  BY <1>1, EmitIsEnd
<1>2. CASE telemetry.in_air /\ pc' = "holding" /\ UNCHANGED memory
  <2>1. Verdict' = {} /\ Running' = "hold"
    BY <1>2 DEF Verdict, Running
  <2> QED
    BY <1>2, <2>1 DEF Gate!FallbackHold
<1> QED
  BY <1>1, <1>2 DEF safe_hold

\* A shutdown lands if there is need to, whatever was running.
LEMMA ShutdownIsShutdown ==
  ASSUME ~shutdown_done, BeginShutdown, UNCHANGED <<telemetry, memory>>
  PROVE  Gate!Shutdown
<1> DEFINE need == telemetry.connected /\ (telemetry.armed \/ telemetry.in_air)
<1>1. Verdict' = {} /\ shutdown_done' = TRUE
  BY DEF BeginShutdown, Verdict
<1>2. pc' = IF need THEN "landing" ELSE "closing"
  BY DEF BeginShutdown
<1>3. Running' = IF need THEN "land" ELSE "none"
  BY <1>2 DEF Running
<1> QED
  BY <1>1, <1>3 DEF Gate!Shutdown

\* The snapshot the loop takes is the one the gate judges by.
LEMMA AskIsJudge ==
  ASSUME ~shutdown_done, pc \in {"listen", "looking"}, AskCognition,
         UNCHANGED <<telemetry, shutdown_done>>
  PROVE  Gate!Judge
<1>1. Running = "none" /\ Running' = "none"
  BY DEF AskCognition, Running
<1>2. Verdict' = {c \in Commands : Admits(c, Snapshot(memory, telemetry))}
  BY DEF AskCognition, Verdict
<1>3. memory' = Remember(memory, telemetry)
  BY DEF AskCognition
<1> QED
  BY <1>1, <1>2, <1>3, SameLayer DEF Gate!Judge

\* A command is dispatched on the verdict of its own snapshot.
LEMMA AdmittedIsBegin ==
  ASSUME ~shutdown_done, CommandAdmitted
  PROVE  Gate!Begin \/ Gate!End
<1>u. UNCHANGED <<telemetry, shutdown_done>>
  BY DEF CommandAdmitted, shutdownVars
<1>1. CASE Emit
  BY <1>1, <1>u, EmitIsEnd
<1>2. ASSUME NEW c \in Commands, Admits(c, snapshot), pc' = "acting", command' = c,
             UNCHANGED memory
      PROVE  Gate!Begin
  <2>1. Running = "none" /\ Running' = c /\ Verdict' = {} /\ telemetry' = telemetry
    BY <1>2 DEF CommandAdmitted, Running, Verdict
  <2>2. c \in Verdict
    BY <1>2 DEF CommandAdmitted, Verdict
  <2> QED
    BY <1>2, <1>u, <2>1, <2>2 DEF Gate!Begin, Gate!MayBuild
<1> QED
  BY <1>1, <1>2 DEF CommandAdmitted

\* Each step of the loop is a step of the gate or none.
LEMMA GateStep == LoopInv /\ [Next]_vars => [Gate!Next]_(Gate!vars)
<1> SUFFICES ASSUME LoopInv, [Next]_vars PROVE Gate!Next \/ UNCHANGED Gate!vars
  OBVIOUS
<1>late. pc \in IterationPcs => ~shutdown_done
  BY DEF LoopInv, ShutdownIsFinal, IterationPcs, ShutdownPcs
<1> USE DEF Gate!Next
<1>1. CASE Telemetry_changes
  <2>1. telemetry' \in Telemetry /\ UNCHANGED <<memory, pc, snapshot, command, shutdown_done>>
    BY <1>1 DEF Telemetry_changes, Telemetry, iterationVars, shutdownVars
  <2> QED
    BY <2>1, SameLayer DEF Gate!Report, Verdict, Running
<1>2. CASE UNCHANGED <<telemetry, memory, pc, snapshot, command, shutdown_done>>
  BY <1>2 DEF Gate!vars, Verdict, Running
<1>3. CASE Connected
  BY <1>3 DEF Connected, iterationVars, shutdownVars, Gate!vars, Verdict, Running
<1>4. CASE HearNothing \/ Acted \/ Held
  BY <1>4, EmitIsEnd DEF HearNothing, Acted, Held, shutdownVars
<1>5. CASE HearEmergency \/ IterationBreaks \/ CognitionFails \/ ActFails
  BY <1>5, <1>late, SafeHoldIsFallback
     DEF HearEmergency, IterationBreaks, CognitionFails, ActFails, LoopException,
         IterationPcs, shutdownVars
<1>6. CASE HearCommand \/ Looked
  <2>1. CASE AskCognition
    BY <1>6, <1>late, <2>1, AskIsJudge DEF HearCommand, Looked, IterationPcs, shutdownVars
  <2>2. CASE pc = "listen" /\ pc' = "looking"
                /\ UNCHANGED <<telemetry, memory, shutdown_done>>
    BY <2>2 DEF Gate!vars, Verdict, Running
  <2> QED
    BY <1>6, <2>1, <2>2 DEF HearCommand, Looked, shutdownVars
<1>7. CASE CommandAdmitted
  BY <1>7, <1>late, AdmittedIsBegin DEF CommandAdmitted, IterationPcs
<1>8. CASE HoldBreaks
  BY <1>8, <1>late, SafeHoldIsFallback, ShutdownIsShutdown
     DEF HoldBreaks, LoopException, IterationPcs, shutdownVars
<1>9. CASE Interrupt
  BY <1>9, <1>late, ShutdownIsShutdown DEF Interrupt, IterationPcs
<1>10. CASE ShutdownStep
  <2>1. UNCHANGED <<telemetry, memory, shutdown_done>> /\ pc' \in {"closing", "closed", "broken"}
    BY <1>10 DEF ShutdownStep, LandEnds, CloseNext, CloseFails, shutdownVars
  <2> QED
    BY <2>1 DEF Gate!End, Gate!MayBuild, Verdict, Running
<1> QED
  BY <1>1, <1>2, <1>3, <1>4, <1>5, <1>6, <1>7, <1>8, <1>9, <1>10 DEF Next, IterationStep, vars

\* The loop asks the controller for nothing but what the verdict on the words in hand
\* admits, its own hold in the air and the landing at its end.
THEOREM KeepsGateHolds == Spec => KeepsGate
BY InitGate, LoopInvHolds, GateStep, PTL DEF Spec, KeepsGate, Gate!Spec

-----------------------------------------------------------------------------
(* Types *)

\* A build gives a snapshot and a memory of the builder.
LEMMA BuildTypes ==
  ASSUME NEW m \in BuilderMemory, NEW t \in Telemetry
  PROVE  Remember(m, t) \in BuilderMemory /\ Snapshot(m, t) \in Snapshots
<1>1. /\ t.connected \in BOOLEAN /\ t.armed \in BOOLEAN /\ t.in_air \in BOOLEAN
      /\ t.low_battery \in BOOLEAN /\ m.has_been_airborne \in BOOLEAN
  BY DEF Telemetry, BuilderMemory
<1>2. \A h : GroundState(t, h) \in OperationalStates
  BY DEF GroundState, OperationalStates
<1>3. \A f : AirborneState(f) \in OperationalStates
  BY DEF AirborneState, OperationalStates
<1>4. \A h : OperationalState(t, h) \in OperationalStates
  <2> SUFFICES ASSUME NEW h PROVE OperationalState(t, h) \in OperationalStates
    OBVIOUS
  <2>1. CASE ~t.connected
    BY <2>1 DEF OperationalState, OperationalStates
  <2>2. CASE t.connected /\ t.in_air
    BY <2>2, <1>3 DEF OperationalState
  <2>3. CASE t.connected /\ ~t.in_air
    BY <2>3, <1>2 DEF OperationalState
  <2> QED
    BY <2>1, <2>2, <2>3
<1>5. Snapshot(m, t) \in Snapshots
  BY <1>1, <1>4 DEF Snapshot, Snapshots
<1> QED
  BY <1>1, <1>5 DEF Remember, BuilderMemory

\* The types that the invariants of the loop do not give already.
DataTypes ==
  /\ telemetry \in Telemetry
  /\ memory \in BuilderMemory
  /\ snapshot \in Snapshots
  /\ command \in Commands \cup {"none"}
  /\ reason \in Reasons \cup {"none"}
  /\ open \subseteq ComponentNames
  /\ shutdown_done \in BOOLEAN
  /\ landed_out \in BOOLEAN

\* Every step keeps them.
LEMMA NextDataTypes == DataTypes /\ [Next]_vars => DataTypes'
<1> SUFFICES ASSUME DataTypes, [Next]_vars PROVE DataTypes'
  OBVIOUS
<1> USE DEF DataTypes
<1>1. Remember(memory, telemetry) \in BuilderMemory /\ Snapshot(memory, telemetry) \in Snapshots
  BY BuildTypes
<1>2. NoSnapshot \in Snapshots
  BY DEF NoSnapshot, Snapshots, OperationalStates
<1>3. ASSUME Emit, UNCHANGED <<telemetry, shutdownVars>>
      PROVE  DataTypes'
  BY <1>1, <1>2, <1>3 DEF Emit, shutdownVars
<1>4. ASSUME NEW why \in Reasons, safe_hold(why), UNCHANGED <<telemetry, shutdownVars>>
      PROVE  DataTypes'
  BY <1>3, <1>4 DEF safe_hold, shutdownVars
<1>5. ASSUME BeginShutdown, UNCHANGED <<telemetry, memory>>
      PROVE  DataTypes'
  BY <1>2, <1>5 DEF BeginShutdown
<1>6. CASE Telemetry_changes
  BY <1>6 DEF Telemetry_changes, Telemetry, iterationVars, shutdownVars
<1>7. CASE Connected \/ HearCommand \/ Looked
  BY <1>1, <1>7 DEF Connected, HearCommand, Looked, AskCognition, iterationVars, shutdownVars
<1>8. CASE HearNothing \/ Acted \/ Held
  BY <1>3, <1>8 DEF HearNothing, Acted, Held
<1>9. CASE HearEmergency \/ IterationBreaks \/ CognitionFails \/ ActFails
  BY <1>4, <1>9
     DEF HearEmergency, IterationBreaks, CognitionFails, ActFails, LoopException, Reasons
<1>10. CASE CommandAdmitted
  BY <1>3, <1>10 DEF CommandAdmitted, shutdownVars
<1>11. CASE HoldBreaks \/ Interrupt
  BY <1>4, <1>5, <1>11 DEF HoldBreaks, Interrupt, LoopException, Reasons
<1>12. CASE ShutdownStep
  BY <1>12 DEF ShutdownStep, LandEnds, CloseNext, CloseFails, iterationVars, shutdownVars
<1>13. CASE UNCHANGED vars
  BY <1>13 DEF vars
<1> QED
  BY <1>6, <1>7, <1>8, <1>9, <1>10, <1>11, <1>12, <1>13 DEF Next, IterationStep

\* The loop's fields keep their types, for every limit and every streak of errors.
THEOREM TypeCorrect == Spec => []TypeOK
<1>1. Init => DataTypes
  <2> SUFFICES ASSUME Init PROVE DataTypes
    OBVIOUS
  <2>1. telemetry \in Telemetry /\ memory \in BuilderMemory /\ snapshot \in Snapshots
    BY DEF Init, Telemetry, FlightModes, FreshBuilder, BuilderMemory, NoSnapshot, Snapshots,
           OperationalStates
  <2> QED
    BY <2>1 DEF Init, DataTypes
<1>2. DataTypes /\ LoopInv => TypeOK
  BY LoopAssumption DEF DataTypes, LoopInv, Counted, ShutdownOrder, TypeOK
<1> QED
  BY <1>1, <1>2, NextDataTypes, LoopInvHolds, PTL DEF Spec
=============================================================================
