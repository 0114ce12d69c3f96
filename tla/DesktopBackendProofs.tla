------------------------- MODULE DesktopBackendProofs -------------------------
(***************************************************************************)
(* The safety of DesktopBackend for every number of calls, failures and    *)
(* runs.  OneBackend is not inductive: a process that has ended but whose  *)
(* end is not recorded still holds the active run, and a start() that      *)
(* holds the mutex found no run active.  OpenIsActive and ResolvingAlone   *)
(* say so, and the other properties follow the steps with them.            *)
(***************************************************************************)
EXTENDS DesktopBackend, TLAPS

Phase == {"idle", "waiting", "closing", "killing", "done"}

\* Only the active run may still have to be recorded as ended, and it has.
OpenIsActive ==
  /\ \A r \in Begun : run[r] # "closed" <=> r = active
  /\ active # NoRun => active \in Begun

\* start() resolves a configuration only while no run is active.
ResolvingAlone == resolving => active = NoRun

\* A stop() that closes a run closes one that was begun.
StopsBegun == \A s \in Stop : stop[s].pc \in {"closing", "killing"} => stop[s].run \in Begun

Shape == OpenIsActive /\ ResolvingAlone /\ StopsBegun
Promises == LatchIsTrue /\ WantedIsServed /\ StopHolds
IInv == TypeOK /\ Shape /\ Promises

-----------------------------------------------------------------------------
\* The instance as the manager makes it.
LEMMA Initially == Init => IInv
<1> SUFFICES ASSUME Init PROVE IInv OBVIOUS
<1> USE DEF Init, NoRun
<1>1. Begun = {} BY DEF Begun
<1>2. /\ desired \in BOOLEAN /\ ready \in BOOLEAN /\ latch \in BOOLEAN /\ sleeping \in BOOLEAN
      /\ resolving \in BOOLEAN /\ heldOff \in BOOLEAN
  BY Zenon
<1>3. TypeOK BY <1>2, BackendAssumption DEF TypeOK
<1>4. Shape BY <1>1 DEF Shape, OpenIsActive, ResolvingAlone, StopsBegun
<1>5. Promises BY DEF Promises, LatchIsTrue, WantedIsServed, StopHolds
<1> QED BY <1>3, <1>4, <1>5 DEF IInv

\* What a change of one run's state leaves as it was.
LEMMA BecomesShape ==
  ASSUME TypeOK, NEW r \in Begun, NEW to \in RunState, run' = [run EXCEPT ![r] = to]
  PROVE  /\ run' \in Seq(RunState) /\ Begun' = Begun
         /\ run'[r] = to
         /\ \A q \in Begun : q # r => run'[q] = run[q]
  BY DEF TypeOK, Begun

\* Runs are numbered from 1.
LEMMA BegunIsNat == TypeOK => Begun \subseteq Nat /\ NoRun \notin Begun
  BY DEF TypeOK, Begun, NoRun

\* What the start of a run adds.
LEMMA AppendShape ==
  ASSUME TypeOK, run' = Append(run, "spawning")
  PROVE  /\ run' \in Seq(RunState) /\ Len(run) + 1 \in Nat
         /\ Begun' = Begun \cup {Len(run) + 1} /\ Len(run) + 1 \notin Begun
         /\ run'[Len(run) + 1] = "spawning"
         /\ \A q \in Begun : run'[q] = run[q]
<1>1. "spawning" \in RunState BY DEF RunState, Alive
<1> QED BY <1>1 DEF TypeOK, Begun

-----------------------------------------------------------------------------
(* Types.                                                                    *)

\* The provers take the Booleans and the rest of TypeOK apart.
BoolsOK ==
  /\ desired \in BOOLEAN /\ ready \in BOOLEAN /\ latch \in BOOLEAN /\ sleeping \in BOOLEAN
  /\ resolving \in BOOLEAN /\ heldOff \in BOOLEAN

RestOK ==
  /\ active \in Nat /\ preflight \in Nat
  /\ run \in Seq(RunState)
  /\ starts \in Nat
  /\ stop \in [Stop -> [pc : Phase, run : Nat]]
  /\ calls \in 0..MaxStarts /\ faults \in 0..MaxFaults

LEMMA Parts == TypeOK <=> BoolsOK /\ RestOK
  BY DEF TypeOK, BoolsOK, RestOK, Phase

LEMMA BoolsStep == BoolsOK /\ [Next]_vars => BoolsOK'
<1> SUFFICES ASSUME BoolsOK, [Next]_vars PROVE BoolsOK' OBVIOUS
<1> USE DEF BoolsOK, state, callers, bounds
<1>1. CASE UNCHANGED vars BY <1>1 DEF vars
<1>2. CASE StartCall BY <1>2, Zenon DEF StartCall
<1>3. CASE StartFindsRun BY <1>3, Zenon DEF StartFindsRun
<1>4. CASE StartResolves BY <1>4, Zenon DEF StartResolves
<1>5. CASE RunBegins BY <1>5, Zenon DEF RunBegins
<1>6. CASE RestartFires BY <1>6, Zenon DEF RestartFires
<1>7. CASE ConfigFails BY <1>7, Zenon DEF ConfigFails, Scheduled
<1>8. CASE PreflightFailsForNow BY <1>8, Zenon DEF PreflightFailsForNow
<1>9. CASE EntryMissing BY <1>9, Zenon DEF EntryMissing
<1>10. ASSUME NEW fallback \in BOOLEAN, PreflightFails(fallback) PROVE BoolsOK'
  BY <1>10, Zenon DEF PreflightFails
<1>11. ASSUME NEW r \in Begun, Spawned(r) \/ ReadyTimesOut(r) \/ RunExits(r) PROVE BoolsOK'
  BY <1>11, Zenon DEF Spawned, ReadyTimesOut, RunExits
<1>12. ASSUME NEW r \in Begun, ReadyAnswers(r) PROVE BoolsOK'
  BY <1>12, Zenon DEF ReadyAnswers
<1>13. ASSUME NEW r \in Begun, Finalize(r) PROVE BoolsOK'
  BY <1>13, Zenon DEF Finalize, Scheduled
<1>14. ASSUME NEW s \in Stop, StopCall(s) \/ StopTimesOut(s) \/ Kill(s) \/ KillLate(s) \/ StopCleansUp(s)
       PROVE BoolsOK'
  BY <1>14, Zenon DEF StopCall, StopTimesOut, Kill, KillLate, StopCleansUp
<1>15. ASSUME NEW s \in Stop, StopEnters(s) PROVE BoolsOK'
  BY <1>15, Zenon DEF StopEnters
<1> QED
  BY <1>1, <1>2, <1>3, <1>4, <1>5, <1>6, <1>7, <1>8, <1>9, <1>10, <1>11, <1>12, <1>13, <1>14, <1>15
  DEF Next, Starting, Resolution, Running, Breaking, Stopping

LEMMA RestStep == IInv /\ [Next]_vars => RestOK'
<1> SUFFICES ASSUME IInv, [Next]_vars PROVE RestOK' OBVIOUS
<1>0. TypeOK /\ RestOK /\ StopsBegun BY Parts DEF IInv, Shape
<1> USE DEF RestOK
<1>1. CASE UNCHANGED vars
  BY <1>0, <1>1 DEF vars, state, callers, bounds
<1>2. CASE StartCall
  BY <1>0, <1>2, BackendAssumption DEF StartCall, state
<1>3. CASE StartFindsRun \/ StartResolves \/ RestartFires
  <2>1. starts' \in Nat
    <3>1. CASE StartFindsRun \/ StartResolves
      <4>1. starts \in Nat /\ starts > 0 /\ starts' = starts - 1
        BY <1>0, <3>1 DEF StartFindsRun, StartResolves
      <4> QED BY <4>1
    <3>2. CASE RestartFires BY <1>0, <3>2 DEF RestartFires
    <3> QED BY <1>3, <3>1, <3>2
  <2>2. UNCHANGED <<active, preflight, run, stop, calls, faults>>
    BY <1>3 DEF StartFindsRun, StartResolves, RestartFires, bounds
  <2> QED BY <1>0, <2>1, <2>2
<1>4. CASE RunBegins
  <2>1. run' \in Seq(RunState) /\ active' \in Nat
    BY <1>0, <1>4, AppendShape DEF RunBegins
  <2> QED BY <1>0, <1>4, <2>1 DEF RunBegins, bounds
<1>5. CASE Resolution
  <2>1. Fault => calls' \in 0..MaxStarts /\ faults' \in 0..MaxFaults
    BY <1>0, BackendAssumption DEF Fault
  <2>2. CASE ConfigFails
    BY <1>0, <2>1, <2>2 DEF ConfigFails
  <2>3. CASE PreflightFailsForNow \/ EntryMissing
    BY <1>0, <2>1, <2>3 DEF PreflightFailsForNow, EntryMissing
  <2>4. ASSUME NEW fallback \in BOOLEAN, PreflightFails(fallback) PROVE RestOK'
    <3>1. preflight' \in Nat BY <1>0, <2>4 DEF PreflightFails, Allowance
    <3> QED BY <1>0, <2>1, <2>4, <3>1 DEF PreflightFails
  <2> QED BY <1>5, <2>2, <2>3, <2>4 DEF Resolution
<1>6. ASSUME NEW r \in Begun, Spawned(r) \/ ReadyAnswers(r) \/ Finalize(r) PROVE RestOK'
  <2>1. run' \in Seq(RunState)
    BY <1>0, <1>6, BecomesShape DEF Spawned, ReadyAnswers, Finalize, Becomes, RunState, Alive
  <2>2. active' \in Nat BY <1>0, <1>6 DEF Spawned, ReadyAnswers, Finalize, state, NoRun
  <2> QED BY <1>0, <1>6, <2>1, <2>2 DEF Spawned, ReadyAnswers, Finalize, state, callers, bounds
<1>7. ASSUME NEW r \in Begun, ReadyTimesOut(r) \/ RunExits(r) PROVE RestOK'
  <2>1. run' \in Seq(RunState)
    BY <1>0, <1>7, BecomesShape DEF ReadyTimesOut, RunExits, Becomes, RunState, Alive
  <2> QED BY <1>0, <1>7, <2>1, BackendAssumption DEF ReadyTimesOut, RunExits, Fault, state, callers
<1>8. ASSUME NEW s \in Stop, StopCall(s) \/ StopTimesOut(s) PROVE RestOK'
  <2>1. stop' \in [Stop -> [pc : Phase, run : Nat]]
    BY <1>0, <1>8 DEF StopCall, StopTimesOut, Phase
  <2> QED BY <1>0, <1>8, <2>1, BackendAssumption DEF StopCall, StopTimesOut, Fault, state, bounds
<1>9. ASSUME NEW s \in Stop, StopEnters(s) PROVE RestOK'
  <2>1. stop' \in [Stop -> [pc : Phase, run : Nat]] BY <1>0, <1>9 DEF StopEnters, Phase
  <2> QED BY <1>0, <1>9, <2>1 DEF StopEnters, bounds
<1>10. ASSUME NEW s \in Stop, Kill(s) \/ KillLate(s) PROVE RestOK'
  <2>1. run' \in Seq(RunState)
    <3>1. "exited" \in RunState BY DEF RunState
    <3>2. stop[s].run \in Begun BY <1>0, <1>10 DEF Kill, KillLate, StopsBegun
    <3>3. CASE Kill(s) BY <1>0, <3>1, <3>2, <3>3, BecomesShape DEF Kill, Becomes
    <3>4. CASE KillLate(s)
      <4> DEFINE to == IF run[stop[s].run] \in Alive THEN "exited" ELSE run[stop[s].run]
      <4>1. to \in RunState BY <1>0, <3>1, <3>2 DEF Begun
      <4>2. run' = [run EXCEPT ![stop[s].run] = to] BY <3>4 DEF KillLate
      <4> QED BY <1>0, <3>2, <4>1, <4>2, BecomesShape
    <3> QED BY <1>10, <3>3, <3>4
  <2>2. stop' \in [Stop -> [pc : Phase, run : Nat]]
    BY <1>0, <1>10 DEF Kill, KillLate, Phase, callers
  <2> QED BY <1>0, <1>10, <2>1, <2>2 DEF Kill, KillLate, state, callers, bounds
<1>11. ASSUME NEW s \in Stop, StopCleansUp(s) PROVE RestOK'
  <2>1. stop' \in [Stop -> [pc : Phase, run : Nat]] BY <1>0, <1>11 DEF StopCleansUp, Phase
  <2> QED BY <1>0, <1>11, <2>1 DEF StopCleansUp, state, bounds
<1> QED
  BY <1>1, <1>2, <1>3, <1>4, <1>5, <1>6, <1>7, <1>8, <1>9, <1>10, <1>11
  DEF Next, Starting, Running, Breaking, Stopping

LEMMA TypeStep == IInv /\ [Next]_vars => TypeOK'
  BY BoolsStep, RestStep DEF IInv, TypeOK, BoolsOK, RestOK, Phase

-----------------------------------------------------------------------------
(* The runs and who holds them.                                              *)

LEMMA ShapeStep == IInv /\ [Next]_vars => Shape'
<1> SUFFICES ASSUME IInv, [Next]_vars PROVE Shape' OBVIOUS
<1> USE DEF Shape, OpenIsActive, ResolvingAlone, StopsBegun
<1>0. TypeOK /\ Shape /\ Begun \subseteq Nat /\ NoRun \notin Begun BY BegunIsNat DEF IInv
<1>1. CASE UNCHANGED vars
  BY <1>0, <1>1 DEF vars, state, callers, Begun
<1>2. CASE StartCall \/ StartFindsRun \/ StartResolves \/ RestartFires \/ Resolution
  <2>1. UNCHANGED <<active, run, stop>>
    BY <1>2 DEF StartCall, StartFindsRun, StartResolves, RestartFires, Resolution, ConfigFails,
       PreflightFailsForNow, PreflightFails, EntryMissing, state
  <2>2. resolving' => resolving \/ active = NoRun
    BY <1>2 DEF StartCall, StartFindsRun, StartResolves, RestartFires, Resolution, ConfigFails,
       PreflightFailsForNow, PreflightFails, EntryMissing, state
  <2> QED BY <1>0, <2>1, <2>2 DEF Begun
<1>3. CASE RunBegins
  <2>1. /\ Begun' = Begun \cup {Len(run) + 1} /\ Len(run) + 1 \notin Begun
        /\ run'[Len(run) + 1] = "spawning" /\ \A q \in Begun : run'[q] = run[q]
    BY <1>0, <1>3, AppendShape DEF RunBegins
  <2> QED BY <1>0, <1>3, <2>1 DEF RunBegins
<1>4. ASSUME NEW r \in Begun, Spawned(r) \/ ReadyAnswers(r) \/ ReadyTimesOut(r) \/ RunExits(r)
      PROVE  Shape'
  <2>1. PICK to \in RunState : to # "closed" /\ run[r] # "closed" /\ run' = [run EXCEPT ![r] = to]
    BY <1>4 DEF Spawned, ReadyAnswers, ReadyTimesOut, RunExits, Becomes, RunState, Alive
  <2>2. Begun' = Begun /\ run'[r] = to /\ \A q \in Begun : q # r => run'[q] = run[q]
    BY <1>0, <2>1, BecomesShape
  <2> QED BY <1>0, <1>4, <2>1, <2>2
    DEF Spawned, ReadyAnswers, ReadyTimesOut, RunExits, state, callers
<1>5. ASSUME NEW r \in Begun, Finalize(r) PROVE Shape'
  <2>1. run[r] # "closed" /\ "closed" \in RunState /\ run' = [run EXCEPT ![r] = "closed"]
    BY <1>5 DEF Finalize, Becomes, RunState
  <2>2. Begun' = Begun /\ run'[r] = "closed" /\ \A q \in Begun : q # r => run'[q] = run[q]
    BY <1>0, <2>1, BecomesShape
  <2> QED BY <1>0, <1>5, <2>1, <2>2 DEF Finalize, callers, NoRun
<1>6. ASSUME NEW s \in Stop, StopCall(s) \/ StopTimesOut(s) \/ StopCleansUp(s) PROVE Shape'
  <2>1. Begun' = Begun /\ run' = run /\ active' = active /\ resolving' = resolving
    BY <1>6 DEF StopCall, StopTimesOut, StopCleansUp, state, Begun
  <2>2. \A t \in Stop : stop'[t].run = stop[t].run
    BY <1>0, <1>6, SMTT(30) DEF TypeOK, StopCall, StopTimesOut, StopCleansUp
  <2>3. \A t \in Stop : stop'[t].pc \in {"closing", "killing"} => stop[t].pc \in {"closing", "killing"}
    BY <1>0, <1>6 DEF TypeOK, StopCall, StopTimesOut, StopCleansUp
  <2> QED BY <1>0, <2>1, <2>2, <2>3
<1>7. ASSUME NEW s \in Stop, StopEnters(s) PROVE Shape'
  <2>1. Begun' = Begun BY <1>7 DEF StopEnters, Begun
  <2>2. \A t \in Stop : t # s => stop'[t] = stop[t] BY <1>0, <1>7 DEF TypeOK, StopEnters
  <2>3. stop'[s].run = active /\ (active = NoRun => stop'[s].pc = "done")
    BY <1>0, <1>7 DEF TypeOK, StopEnters
  <2> QED BY <1>0, <1>7, <2>1, <2>2, <2>3 DEF StopEnters
<1>8. ASSUME NEW s \in Stop, Kill(s) \/ KillLate(s) PROVE Shape'
  <2> DEFINE r == stop[s].run
  <2>1. r \in Begun BY <1>0, <1>8 DEF Kill, KillLate
  <2>2. \/ run' = run
        \/ run[r] # "closed" /\ run' = [run EXCEPT ![r] = "exited"]
    BY <1>0, <1>8, <2>1 DEF Kill, KillLate, Becomes, Alive, TypeOK, Begun
  <2>3. "exited" \in RunState BY DEF RunState
  <2>4. Begun' = Begun /\ \A q \in Begun : run'[q] = run[q] \/ (run[q] # "closed" /\ run'[q] = "exited")
    <3>1. CASE run' = run BY <3>1 DEF Begun
    <3>2. CASE run' # run BY <1>0, <2>1, <2>2, <2>3, <3>2, BecomesShape
    <3> QED BY <3>1, <3>2
  <2>5. active' = active /\ resolving' = resolving BY <1>8 DEF Kill, KillLate, state, callers
  <2>6. \A t \in Stop : /\ stop'[t].run = stop[t].run
                        /\ stop'[t].pc \in {"closing", "killing"} => stop[t].pc \in {"closing", "killing"}
    BY <1>0, <1>8 DEF TypeOK, Kill, KillLate, callers
  <2> QED BY <1>0, <2>4, <2>5, <2>6
<1> QED
  BY <1>1, <1>2, <1>3, <1>4, <1>5, <1>6, <1>7, <1>8 DEF Next, Starting, Running, Breaking, Stopping

-----------------------------------------------------------------------------
(* The promises.                                                             *)

LEMMA PromisesStep == IInv /\ [Next]_vars => Promises'
<1> SUFFICES ASSUME IInv, [Next]_vars PROVE Promises' OBVIOUS
<1> USE DEF Promises, LatchIsTrue, WantedIsServed, StopHolds, Free
<1>0. /\ TypeOK /\ Shape /\ Promises /\ Begun \subseteq Nat /\ NoRun \notin Begun
  BY BegunIsNat DEF IInv
<1>1. CASE UNCHANGED vars
  BY <1>0, <1>1 DEF vars, state, callers
<1>2. CASE StartCall \/ StartFindsRun \/ StartResolves \/ RestartFires
  <2> USE DEF StartCall, StartFindsRun, StartResolves, RestartFires, state, bounds
  <2>1. LatchIsTrue'
    <3>1. CASE StartResolves
      <4>1. ~ready' /\ ~latch' BY <1>0, <3>1, Zenon
      <4>2. latch' = ready' BY <1>0, <1>2, <3>1, Zenon DEF TypeOK
      <4> QED BY <4>1, <4>2
    <3>2. CASE ~StartResolves
      <4>1. latch' = latch /\ ready' = ready /\ active' = active BY <1>2, <3>2
      <4> QED BY <1>0, <4>1
    <3> QED BY <3>1, <3>2
  <2>2. WantedIsServed'
    <3>1. CASE StartCall BY <1>0, <3>1 DEF TypeOK
    <3>2. CASE StartFindsRun BY <1>0, <3>2
    <3>3. CASE StartResolves BY <1>0, <3>3
    <3>4. CASE RestartFires BY <1>0, <3>4 DEF TypeOK
    <3> QED BY <1>2, <3>1, <3>2, <3>3, <3>4
  <2>3. StopHolds'
    <3>1. CASE StartCall BY <1>0, <3>1
    <3>2. CASE StartFindsRun BY <1>0, <3>2
    <3>3. CASE StartResolves BY <1>0, <3>3
    <3>4. CASE RestartFires BY <1>0, <3>4
    <3> QED BY <1>2, <3>1, <3>2, <3>3, <3>4
  <2> QED BY <2>1, <2>2, <2>3
<1>3. CASE Resolution
  <2> USE DEF Resolution, ConfigFails, PreflightFailsForNow, PreflightFails, EntryMissing
  <2>1. resolving /\ active = NoRun /\ ~ready /\ ~latch /\ ~heldOff
    BY <1>0, <1>3, Zenon DEF Shape, ResolvingAlone
  <2>2. active' = active /\ latch' = latch /\ heldOff' = heldOff /\ starts' = starts
    BY <1>3
  <2>3. LatchIsTrue'
    <3>1. CASE ConfigFails BY <1>0, <2>2, <3>1
    <3>2. CASE ~ConfigFails
      <4>1. ready' = FALSE BY <1>3, <3>2
      <4>2. latch = FALSE BY <1>0, <2>1, Zenon DEF TypeOK
      <4> QED BY <2>1, <2>2, <4>1, <4>2
    <3> QED BY <3>1, <3>2
  <2>4. WantedIsServed'
    <3>1. desired' => sleeping'
      <4>1. CASE ConfigFails BY <4>1, Zenon DEF Scheduled
      <4>2. CASE PreflightFailsForNow \/ EntryMissing BY <4>2, Zenon
      <4>3. ASSUME NEW fallback \in BOOLEAN, PreflightFails(fallback) PROVE desired' => sleeping'
        BY <4>3, Zenon
      <4> QED BY <1>3, <4>1, <4>2, <4>3
    <3> QED BY <3>1
  <2> QED BY <2>1, <2>2, <2>3, <2>4
<1>4. CASE RunBegins
  <2>1. ~ready /\ ~latch /\ ~heldOff /\ latch = FALSE
    BY <1>0, <1>4, Zenon DEF RunBegins, Shape, ResolvingAlone, TypeOK
  <2>2. active' # NoRun BY <1>0, <1>4, AppendShape DEF RunBegins, NoRun
  <2> QED BY <1>4, <2>1, <2>2 DEF RunBegins
<1>5. ASSUME NEW r \in Begun, Spawned(r) \/ ReadyTimesOut(r) \/ RunExits(r) PROVE Promises'
  BY <1>0, <1>5 DEF Spawned, ReadyTimesOut, RunExits, state, callers
<1>6. ASSUME NEW r \in Begun, ReadyAnswers(r) PROVE Promises'
  BY <1>0, <1>6 DEF ReadyAnswers, Becomes, callers, Shape, OpenIsActive
<1>7. ASSUME NEW r \in Begun, Finalize(r) PROVE Promises'
  BY <1>0, <1>7 DEF Finalize, Becomes, callers, Scheduled, Shape, OpenIsActive, NoRun
<1>8. ASSUME NEW s \in Stop, StopCall(s) \/ StopTimesOut(s) \/ Kill(s) \/ KillLate(s) PROVE Promises'
  BY <1>0, <1>8 DEF StopCall, StopTimesOut, Kill, KillLate, state, callers
<1>9. ASSUME NEW s \in Stop, StopEnters(s) PROVE Promises'
  BY <1>0, <1>9 DEF StopEnters
<1>10. ASSUME NEW s \in Stop, StopCleansUp(s) PROVE Promises'
  BY <1>0, <1>10 DEF StopCleansUp, state, TypeOK
<1> QED
  BY <1>1, <1>2, <1>3, <1>4, <1>5, <1>6, <1>7, <1>8, <1>9, <1>10
  DEF Next, Starting, Running, Breaking, Stopping

-----------------------------------------------------------------------------
LEMMA Preserved == IInv /\ [Next]_vars => IInv'
  BY TypeStep, ShapeStep, PromisesStep DEF IInv

\* The inductive invariant holds in every behaviour.
THEOREM Invariance == Spec => []IInv
  BY Initially, Preserved, PTL DEF Spec

\* The backend manager is type-correct for any number of calls, failures and runs.
THEOREM TypeCorrect == Spec => []TypeOK
<1>1. IInv => TypeOK BY DEF IInv
<1> QED BY <1>1, Invariance, PTL

\* There are never two processes of one backend.
THEOREM OneProcess == Spec => []OneBackend
<1>1. IInv => OneBackend
  BY DEF IInv, Shape, OpenIsActive, OneBackend, Living, Alive
<1> QED BY <1>1, Invariance, PTL

\* The window service's latch follows the instance's readiness.
THEOREM LatchFollows == Spec => []LatchIsTrue
<1>1. IInv => LatchIsTrue BY DEF IInv, Promises
<1> QED BY <1>1, Invariance, PTL

\* A backend that is wanted is never forgotten.
THEOREM NeverForgotten == Spec => []WantedIsServed
<1>1. IInv => WantedIsServed BY DEF IInv, Promises
<1> QED BY <1>1, Invariance, PTL

\* A stop() that no start() overlaps is final.
THEOREM StopsHold == Spec => []StopHolds
<1>1. IInv => StopHolds BY DEF IInv, Promises
<1> QED BY <1>1, Invariance, PTL
=============================================================================
