---------------------------- MODULE DesktopBackend ----------------------------
(***************************************************************************)
(* apps/desktop/src/backend/DesktopBackendManager.ts: one pooled backend,  *)
(* which its callers start and stop, which is started again after it ends  *)
(* or cannot be started, and whose readiness opens and closes the gate of  *)
(* the window service.                                                     *)
(*                                                                         *)
(* start() holds the instance's mutex while it resolves a configuration;   *)
(* stop() and the end of a run take it for one transaction each.  The      *)
(* restart timer, the processes and their readiness do not take it.        *)
(***************************************************************************)
EXTENDS Integers, Sequences

CONSTANTS Stop,       \* bound: the calls of stop()
          MaxStarts,  \* bound: calls of start()
          MaxFaults,  \* bound: failures of configurations, preflights, spawns and processes
          Limit       \* MAX_PREFLIGHT_FAILURE_ATTEMPTS or a failure's retryLimit

ASSUME BackendAssumption ==
  MaxStarts \in Nat /\ MaxFaults \in Nat /\ Limit \in Nat \ {0}

VARIABLES desired,    \* desiredRunning
          ready,      \* ready
          latch,      \* backendReadyRef of the window service
          active,     \* the id of the active run, 0 for none
          sleeping,   \* restartFiber is set: its delay has not passed
          preflight,  \* preflightFailureAttempt
          run,        \* what became of the process of each run; nextRunId is Len(run) + 1
          starts,     \* start() calls that wait for the mutex
          resolving,  \* a start() call holds the mutex
          stop,       \* the calls of stop(): where they are and the run they close
          calls, faults,
          heldOff     \* history: a stop() found no start() under way, and none was called since

state == <<desired, ready, active, sleeping, preflight>>
callers == <<starts, resolving, stop>>
bounds == <<calls, faults>>
vars == <<state, latch, run, callers, bounds, heldOff>>

NoRun == 0
Free == ~resolving

\* A process is spawned, its readiness is polled, it answers or is given up on,
\* it ends, and its fiber's end is recorded.
Alive == {"spawning", "polled", "serving", "silent"}
RunState == Alive \cup {"exited", "closed"}
Living(r) == run[r] \in Alive

Init ==
  /\ desired = FALSE /\ ready = FALSE /\ latch = FALSE
  /\ active = NoRun /\ sleeping = FALSE /\ preflight = 0 /\ run = <<>>
  /\ starts = 0 /\ resolving = FALSE
  /\ stop = [s \in Stop |-> [pc |-> "idle", run |-> NoRun]]
  /\ calls = 0 /\ faults = 0
  /\ heldOff = FALSE

Fault == faults < MaxFaults /\ faults' = faults + 1 /\ UNCHANGED calls

-----------------------------------------------------------------------------
(* start()                                                                   *)

StartCall ==
  /\ calls < MaxStarts /\ calls' = calls + 1
  /\ starts' = starts + 1
  /\ heldOff' = FALSE
  /\ UNCHANGED <<state, latch, run, resolving, stop, faults>>

\* A run that is active is kept, wanted again if it was being stopped.
StartFindsRun ==
  /\ starts > 0 /\ Free /\ active # NoRun
  /\ starts' = starts - 1
  /\ desired' = TRUE
  /\ UNCHANGED <<ready, active, sleeping, preflight, latch, run, resolving, stop,
                 bounds, heldOff>>

StartResolves ==
  /\ starts > 0 /\ Free /\ active = NoRun
  /\ starts' = starts - 1
  /\ resolving' = TRUE
  /\ ready' = FALSE
  /\ latch' = IF ready THEN FALSE ELSE latch
  /\ UNCHANGED <<desired, active, sleeping, preflight, run, stop, bounds, heldOff>>

\* scheduleRestart: one timer at a time, and only while the backend is wanted.
Scheduled(wanted, timer) == timer \/ wanted

\* No configuration: only a backend that was wanted before is tried again.
ConfigFails ==
  /\ resolving /\ Fault
  /\ resolving' = FALSE
  /\ sleeping' = Scheduled(desired, sleeping)
  /\ UNCHANGED <<desired, ready, active, preflight, latch, run, starts, stop, heldOff>>

\* A start() of a backend that was not wanted begins a new count.
Allowance == IF desired THEN preflight ELSE 0

\* A configuration: the restart timer is cancelled, the backend is wanted.
PreflightFailsForNow ==
  /\ resolving /\ Fault
  /\ resolving' = FALSE
  /\ desired' = TRUE /\ ready' = FALSE
  /\ preflight' = 0
  /\ sleeping' = TRUE
  /\ UNCHANGED <<active, latch, run, starts, stop, heldOff>>

\* `fallback`: onPreflightFailed changed the configuration; asked at the limit.
PreflightFails(fallback) ==
  /\ resolving /\ Fault
  /\ resolving' = FALSE
  /\ ready' = FALSE
  /\ preflight' = Allowance + 1
  /\ LET again == Allowance + 1 < Limit \/ (Allowance + 1 = Limit /\ fallback) IN
       /\ desired' = again
       /\ sleeping' = again
  /\ UNCHANGED <<active, latch, run, starts, stop, heldOff>>

EntryMissing ==
  /\ resolving /\ Fault
  /\ resolving' = FALSE
  /\ desired' = TRUE /\ ready' = FALSE
  /\ preflight' = 0
  /\ sleeping' = TRUE
  /\ UNCHANGED <<active, latch, run, starts, stop, heldOff>>

RunBegins ==
  /\ resolving
  /\ resolving' = FALSE
  /\ desired' = TRUE /\ ready' = FALSE
  /\ preflight' = 0 /\ sleeping' = FALSE
  /\ run' = Append(run, "spawning")
  /\ active' = Len(run) + 1
  /\ UNCHANGED <<latch, starts, stop, bounds, heldOff>>

\* The timer's fiber: its entry is cleared first, start() is called if wanted.
RestartFires ==
  /\ sleeping
  /\ sleeping' = FALSE
  /\ starts' = IF desired THEN starts + 1 ELSE starts
  /\ UNCHANGED <<desired, ready, active, preflight, latch, run, resolving, stop,
                 bounds, heldOff>>

-----------------------------------------------------------------------------
(* A run.                                                                    *)

Becomes(r, from, to) == run[r] \in from /\ run' = [run EXCEPT ![r] = to]

Spawned(r) ==
  /\ Becomes(r, {"spawning"}, "polled")
  /\ UNCHANGED <<state, latch, callers, bounds, heldOff>>

\* onReady counts for the active run only.
ReadyAnswers(r) ==
  /\ Becomes(r, {"polled"}, "serving")
  /\ ready' = (ready \/ active = r)
  /\ latch' = (latch \/ active = r)
  /\ UNCHANGED <<desired, active, sleeping, preflight, callers, bounds, heldOff>>

\* waitForHttpReady gives up: that is logged, and the process is left alone.
ReadyTimesOut(r) ==
  /\ Becomes(r, {"polled"}, "silent")
  /\ Fault
  /\ UNCHANGED <<state, latch, callers, heldOff>>

\* The process cannot be spawned, or ends of itself.
RunExits(r) ==
  /\ Becomes(r, Alive, "exited")
  /\ Fault
  /\ UNCHANGED <<state, latch, callers, heldOff>>

\* Mutated form: the window service is not told.
FinalizeSilently(r) ==
  /\ Free /\ Becomes(r, {"exited"}, "closed")
  /\ active' = IF active = r THEN NoRun ELSE active
  /\ ready' = (ready /\ active # r)
  /\ sleeping' = IF active = r THEN Scheduled(desired, sleeping) ELSE sleeping
  /\ UNCHANGED <<desired, preflight, latch, callers, bounds, heldOff>>

\* Mutated form: a run that was being stopped is not started again.
FinalizeForgets(r) ==
  /\ Free /\ Becomes(r, {"exited"}, "closed")
  /\ active' = IF active = r THEN NoRun ELSE active
  /\ ready' = (ready /\ active # r)
  /\ latch' = (latch /\ ~(active = r /\ ready))
  /\ sleeping' = IF active = r /\ \A s \in Stop : stop[s].run # r
                 THEN Scheduled(desired, sleeping) ELSE sleeping
  /\ UNCHANGED <<desired, preflight, callers, bounds, heldOff>>

\* finalizeRun
Finalize(r) ==
  /\ Free /\ Becomes(r, {"exited"}, "closed")
  /\ active' = IF active = r THEN NoRun ELSE active
  /\ ready' = (ready /\ active # r)
  /\ latch' = (latch /\ ~(active = r /\ ready))
  /\ sleeping' = IF active = r THEN Scheduled(desired, sleeping) ELSE sleeping
  /\ UNCHANGED <<desired, preflight, callers, bounds, heldOff>>

-----------------------------------------------------------------------------
(* stop()                                                                    *)

StopCall(s) ==
  /\ stop[s].pc = "idle"
  /\ stop' = [stop EXCEPT ![s].pc = "waiting"]
  /\ UNCHANGED <<state, latch, run, starts, resolving, bounds, heldOff>>

\* Mutated form: the run is given up at once.
StopEntersForgetful(s) ==
  /\ stop[s].pc = "waiting" /\ Free
  /\ desired' = FALSE /\ ready' = FALSE /\ sleeping' = FALSE
  /\ latch' = (latch /\ ~ready)
  /\ active' = NoRun
  /\ stop' = [stop EXCEPT ![s] = [pc |-> IF active = NoRun THEN "done" ELSE "closing", run |-> active]]
  /\ heldOff' = (starts = 0)
  /\ UNCHANGED <<preflight, run, starts, resolving, bounds>>

\* The timer is taken over and interrupted, the window service is told.
StopEnters(s) ==
  /\ stop[s].pc = "waiting" /\ Free
  /\ desired' = FALSE /\ ready' = FALSE /\ sleeping' = FALSE
  /\ latch' = (latch /\ ~ready)
  /\ stop' = [stop EXCEPT ![s] = [pc |-> IF active = NoRun THEN "done" ELSE "closing", run |-> active]]
  /\ heldOff' = (starts = 0)
  /\ UNCHANGED <<active, preflight, run, starts, resolving, bounds>>

\* closeRun: the process is killed with the run's scope.
Kill(s) ==
  /\ stop[s].pc = "closing"
  /\ Becomes(stop[s].run, Alive, "exited")
  /\ UNCHANGED <<state, latch, callers, bounds, heldOff>>

\* The caller's timeout: the run goes on closing behind its back.
StopTimesOut(s) ==
  /\ stop[s].pc = "closing" /\ run[stop[s].run] # "closed"
  /\ stop' = [stop EXCEPT ![s].pc = IF Living(stop[s].run) THEN "killing" ELSE "done"]
  /\ Fault
  /\ UNCHANGED <<state, latch, run, starts, resolving, heldOff>>

KillLate(s) ==
  /\ stop[s].pc = "killing"
  /\ run' = [run EXCEPT ![stop[s].run] = IF @ \in Alive THEN "exited" ELSE @]
  /\ stop' = [stop EXCEPT ![s].pc = "done"]
  /\ UNCHANGED <<state, latch, starts, resolving, bounds, heldOff>>

\* Mutated form: whatever took the place of the run, start() is called.
StopCleansUpAnyway(s) ==
  /\ stop[s].pc = "closing" /\ run[stop[s].run] = "closed" /\ Free
  /\ starts' = IF active = NoRun /\ ~sleeping THEN starts + 1 ELSE starts
  /\ stop' = [stop EXCEPT ![s].pc = "done"]
  /\ UNCHANGED <<state, latch, run, resolving, bounds, heldOff>>

\* The run's fiber has ended and cleared `active`: a backend that is wanted
\* again, and that nothing else starts, is started.
StopCleansUp(s) ==
  /\ stop[s].pc = "closing" /\ run[stop[s].run] = "closed" /\ Free
  /\ starts' = IF desired /\ active = NoRun /\ ~sleeping THEN starts + 1 ELSE starts
  /\ stop' = [stop EXCEPT ![s].pc = "done"]
  /\ UNCHANGED <<state, latch, run, resolving, bounds, heldOff>>

-----------------------------------------------------------------------------
Begun == DOMAIN run

Starting == StartFindsRun \/ StartResolves \/ RunBegins \/ RestartFires
Resolution == ConfigFails \/ PreflightFailsForNow \/ EntryMissing
                \/ \E fallback \in BOOLEAN : PreflightFails(fallback)
Running == \E r \in Begun : Spawned(r) \/ ReadyAnswers(r) \/ Finalize(r)
Breaking == \E r \in Begun : ReadyTimesOut(r) \/ RunExits(r)
Stopping == \E s \in Stop : StopEnters(s) \/ Kill(s) \/ KillLate(s) \/ StopCleansUp(s)

Next == \/ StartCall \/ Starting \/ Resolution
        \/ Running \/ Breaking
        \/ \E s \in Stop : StopCall(s) \/ StopTimesOut(s)
        \/ Stopping

\* Fibers run, the mutex is fair, timers fire, processes start and can be
\* killed.  Nobody has to call, and nothing has to fail.
Fairness ==
  /\ WF_vars(StartFindsRun \/ StartResolves) /\ WF_vars(RunBegins) /\ WF_vars(RestartFires)
  /\ WF_vars(Running)
  /\ \A s \in Stop : WF_vars(StopEnters(s)) /\ WF_vars(Kill(s)) /\ WF_vars(KillLate(s))
                       /\ WF_vars(StopCleansUp(s))

Spec == Init /\ [][Next]_vars /\ Fairness

-----------------------------------------------------------------------------
\* Every variable has its type.
TypeOK ==
  /\ desired \in BOOLEAN /\ ready \in BOOLEAN /\ latch \in BOOLEAN /\ sleeping \in BOOLEAN
  /\ active \in Nat /\ preflight \in Nat
  /\ run \in Seq(RunState)
  /\ starts \in Nat /\ resolving \in BOOLEAN
  /\ stop \in [Stop -> [pc : {"idle", "waiting", "closing", "killing", "done"}, run : Nat]]
  /\ calls \in 0..MaxStarts /\ faults \in 0..MaxFaults
  /\ heldOff \in BOOLEAN

\* At most one process of the backend is alive, and it is the active run's:
\* two would fight over the port and the database.
OneBackend == \A r \in Begun : Living(r) => r = active

\* The window service thinks that a backend answers exactly while the instance
\* does, whichever of start, stop and the process's end comes first.
LatchIsTrue == latch = ready /\ (ready => active # NoRun)

\* A backend that is wanted runs, or is about to be started: no failure of a
\* start, no end of a process and no stop that a start overtook leaves it
\* wanted and forgotten.
WantedIsServed == desired => active # NoRun \/ sleeping \/ starts > 0 \/ resolving

\* A stop() that found no start() waiting is final until start() is called.
StopHolds == heldOff => ~desired /\ starts = 0 /\ ~resolving

\* When calls and failures have ended, a backend that is wanted answers, or
\* its readiness was given up on; one that is not wanted is gone.
Converges ==
  /\ <>[]desired => <>[](active # NoRun /\ (ready \/ run[active] = "silent"))
  /\ <>[](~desired) => <>[](~latch /\ \A r \in Begun : ~Living(r))
=============================================================================
