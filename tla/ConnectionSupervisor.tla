------------------------- MODULE ConnectionSupervisor -------------------------
(***************************************************************************)
(* packages/client-runtime/src/connection/supervisor.ts: the one fiber     *)
(* that keeps one environment connected, its callers (connect, disconnect, *)
(* retryNow), the two fibers that follow the network and the wake-ups, and *)
(* the queue of signals between them.                                      *)
(*                                                                         *)
(* A caller first changes the intent and then offers a signal; the fiber   *)
(* reads the intent at the top of its loop and otherwise sees only the     *)
(* signals, some of which it ignores, so what it does and what is wanted   *)
(* agree only as long as the right signal is still on its way.             *)
(***************************************************************************)
EXTENDS Integers, Sequences, SequencesExt

CONSTANTS Relay,       \* the target is a RelayConnectionTarget
          MaxCalls,    \* bound: calls, network changes and wake-ups
          MaxFaults    \* bound: failed attempts, probes and sessions

ASSUME SupervisorAssumption == /\ Relay \in BOOLEAN
                               /\ MaxCalls \in Nat
                               /\ MaxFaults \in Nat

VARIABLES desired,     \* intent.desired
          online,      \* intent.network # "offline"
          offering,    \* signals whose intent is set and whose offer is to come
          signals,     \* the Queue
          resetRetry,  \* resetRetryState
          pc,          \* what the supervisor's fiber does
          outcome,     \* the AttemptOutcome while the attempt's scope closes
          failures,    \* failureCount
          generation,  \* generation
          session,     \* the generation of the published session, 0 for none
          phase,       \* state.phase
          calls, faults,
          newest       \* history: the generation of the newest session published

intent == <<desired, online>>
queue == <<offering, signals, resetRetry>>
loop == <<pc, outcome, failures, generation>>
view == <<session, phase, newest>>
bounds == <<calls, faults>>
vars == <<intent, queue, loop, view, bounds>>

Signal == {"connect", "disconnect", "retry", "online", "offline",
           "active", "reconnect", "credentials"}

\* isApplicationActiveWakeup; "active" is application-active and its probe form.
ActiveWakeup == {"active", "reconnect"}

\* Signals that end an attempt or a session.
Ending == {"disconnect", "retry", "offline", "reconnect"}
            \cup (IF Relay THEN {"credentials"} ELSE {})

Phase == {"available", "offline", "connecting", "connected", "blocked", "backoff"}
Parked == {"available", "offline", "blocked"}
Pc == Parked \cup {"top", "establishing", "connected", "probing", "releasing", "backoff"}

None == [kind |-> "none", established |-> FALSE, stable |-> FALSE, reset |-> FALSE]
Failure == {"transient", "blocked"}
Outcome == [kind: {"none", "interrupted"} \cup Failure,
            established: BOOLEAN, stable: BOOLEAN, reset: BOOLEAN]

\* Signals on their way to the fiber.
Pending == offering \cup Range(signals)

Init ==
  /\ desired \in BOOLEAN
  /\ online \in BOOLEAN
  /\ offering = {} /\ signals = <<>> /\ resetRetry = FALSE
  /\ pc = "top" /\ outcome = None /\ failures = 0 /\ generation = 0
  /\ session = 0 /\ newest = 0
  /\ phase = IF ~desired THEN "available" ELSE IF online THEN "connecting" ELSE "offline"
  /\ calls = 0 /\ faults = 0

-----------------------------------------------------------------------------
(* The callers and the two streams.                                          *)

Called == calls < MaxCalls /\ calls' = calls + 1 /\ UNCHANGED faults
Sends(s) == s \notin offering /\ offering' = offering \cup {s}

Connect ==
  /\ Called
  /\ desired' = TRUE
  /\ Sends("connect")
  /\ UNCHANGED <<online, signals, resetRetry, loop, view>>

Disconnect ==
  /\ Called
  /\ desired' = FALSE
  /\ Sends("disconnect")
  /\ UNCHANGED <<online, signals, resetRetry, loop, view>>

RetryNow ==
  /\ Called
  /\ resetRetry' = TRUE
  /\ Sends("retry")
  /\ UNCHANGED <<intent, signals, loop, view>>

\* One fiber follows the network: it offers one change before it takes the next.
NetworkChanges ==
  /\ Called
  /\ offering \cap {"online", "offline"} = {}
  /\ online' = ~online
  /\ Sends(IF online THEN "offline" ELSE "online")
  /\ UNCHANGED <<desired, signals, resetRetry, loop, view>>

Wake(s) ==
  /\ Called
  /\ signals' = Append(signals, s)
  /\ UNCHANGED <<intent, offering, resetRetry, loop, view>>

Offer(s) ==
  /\ s \in offering
  /\ offering' = offering \ {s}
  /\ signals' = Append(signals, s)
  /\ UNCHANGED <<intent, resetRetry, loop, view, bounds>>

-----------------------------------------------------------------------------
(* The top of the loop.                                                      *)

\* The ladder after resetRetryState was read and cleared.
Ladder == IF resetRetry THEN 0 ELSE failures

ParkAvailable ==
  /\ pc = "top"
  /\ ~desired
  /\ resetRetry' = FALSE
  /\ failures' = 0
  /\ session' = 0
  /\ phase' = "available"
  /\ pc' = "available"
  /\ UNCHANGED <<intent, offering, signals, outcome, generation, newest, bounds>>

ParkOffline ==
  /\ pc = "top"
  /\ desired /\ ~online
  /\ resetRetry' = FALSE
  /\ failures' = Ladder
  /\ session' = 0
  /\ phase' = "offline"
  /\ pc' = "offline"
  /\ UNCHANGED <<intent, offering, signals, outcome, generation, newest, bounds>>

BeginAttempt ==
  /\ pc = "top"
  /\ desired /\ online
  /\ resetRetry' = FALSE
  /\ failures' = Ladder
  /\ pc' = "establishing"
  /\ UNCHANGED <<intent, offering, signals, outcome, generation, view, bounds>>

\* Mutated form: a parked fiber drops the signals it was not waiting for.
ParkedTakesItsOwn ==
  /\ pc \in Parked
  /\ signals # <<>>
  /\ signals' = Tail(signals)
  /\ failures' = IF Head(signals) \in ActiveWakeup /\ pc # "available" THEN 0 ELSE failures
  /\ pc' = IF pc = "offline" /\ Head(signals) # "online" THEN pc ELSE "top"
  /\ UNCHANGED <<intent, offering, resetRetry, outcome, generation, view, bounds>>

\* Any signal wakes a parked fiber; the application coming back resets the ladder.
ParkedTakes ==
  /\ pc \in Parked
  /\ signals # <<>>
  /\ signals' = Tail(signals)
  /\ failures' = IF Head(signals) \in ActiveWakeup /\ pc # "available" THEN 0 ELSE failures
  /\ pc' = "top"
  /\ UNCHANGED <<intent, offering, resetRetry, outcome, generation, view, bounds>>

-----------------------------------------------------------------------------
(* The attempt.                                                              *)

\* The attempt ends: Effect.ensuring(clearLease), then its scope closes.
Ends(kind, established, reset) ==
  /\ \E stable \in IF established THEN BOOLEAN ELSE {FALSE} :
       outcome' = [kind |-> kind, established |-> established, stable |-> stable, reset |-> reset]
  /\ session' = 0
  /\ pc' = "releasing"

Fault == faults < MaxFaults /\ faults' = faults + 1 /\ UNCHANGED calls

Report ==
  /\ pc = "establishing"
  /\ phase # "connecting"
  /\ phase' = "connecting"
  /\ UNCHANGED <<intent, queue, loop, session, newest, bounds>>

EstablishingTakes ==
  /\ pc = "establishing"
  /\ signals # <<>>
  /\ signals' = Tail(signals)
  /\ \/ /\ Head(signals) \in Ending
        /\ Ends("interrupted", FALSE, Head(signals) = "reconnect")
     \/ /\ Head(signals) \notin Ending
        /\ UNCHANGED <<pc, outcome, session>>
  /\ UNCHANGED <<intent, offering, resetRetry, failures, generation, phase, newest, bounds>>

\* The driver's lease arrives: the intent is read again before it is published.
EstablishSucceeds ==
  /\ pc = "establishing"
  /\ phase = "connecting"
  /\ \/ /\ desired /\ online
        /\ session' = generation + 1
        /\ newest' = generation + 1
        /\ phase' = "connected"
        /\ pc' = "connected"
        /\ UNCHANGED outcome
     \/ /\ ~(desired /\ online)
        /\ Ends("interrupted", FALSE, FALSE)
        /\ UNCHANGED <<phase, newest>>
  /\ UNCHANGED <<intent, queue, failures, generation, bounds>>

EstablishFails(kind) ==
  /\ pc = "establishing"
  /\ phase = "connecting"
  /\ Fault
  /\ Ends(kind, FALSE, FALSE)
  /\ UNCHANGED <<intent, queue, failures, generation, phase, newest>>

EstablishTimesOut ==
  /\ pc = "establishing"
  /\ Fault
  /\ Ends("transient", FALSE, FALSE)
  /\ UNCHANGED <<intent, queue, failures, generation, phase, newest>>

\* Mutated form: the network is not followed while the session is up.
ConnectedTakesDeaf ==
  /\ pc = "connected"
  /\ signals # <<>>
  /\ signals' = Tail(signals)
  /\ \/ /\ Head(signals) \in Ending \ {"offline"}
        /\ Ends("interrupted", TRUE, Head(signals) = "reconnect")
     \/ /\ Head(signals) = "active"
        /\ pc' = "probing"
        /\ UNCHANGED <<outcome, session>>
     \/ /\ Head(signals) \notin (Ending \ {"offline"}) \cup {"active"}
        /\ UNCHANGED <<pc, outcome, session>>
  /\ UNCHANGED <<intent, offering, resetRetry, failures, generation, phase, newest, bounds>>

ConnectedTakes ==
  /\ pc = "connected"
  /\ signals # <<>>
  /\ signals' = Tail(signals)
  /\ \/ /\ Head(signals) \in Ending
        /\ Ends("interrupted", TRUE, Head(signals) = "reconnect")
     \/ /\ Head(signals) = "active"
        /\ pc' = "probing"
        /\ UNCHANGED <<outcome, session>>
     \/ /\ Head(signals) \notin Ending \cup {"active"}
        /\ UNCHANGED <<pc, outcome, session>>
  /\ UNCHANGED <<intent, offering, resetRetry, failures, generation, phase, newest, bounds>>

\* Mutated form: a retry asked for during a health check is dropped.
ProbingTakesNoRetry ==
  /\ pc = "probing"
  /\ signals # <<>>
  /\ signals' = Tail(signals)
  /\ \/ /\ Head(signals) \in Ending \ {"retry"}
        /\ Ends("interrupted", TRUE, Head(signals) = "reconnect")
     \/ /\ Head(signals) \notin Ending \ {"retry"}
        /\ UNCHANGED <<pc, outcome, session>>
  /\ UNCHANGED <<intent, offering, resetRetry, failures, generation, phase, newest, bounds>>

\* Signals that arrive while a health check runs are taken and mostly ignored.
ProbingTakes ==
  /\ pc = "probing"
  /\ signals # <<>>
  /\ signals' = Tail(signals)
  /\ \/ /\ Head(signals) \in Ending
        /\ Ends("interrupted", TRUE, Head(signals) = "reconnect")
     \/ /\ Head(signals) \notin Ending
        /\ UNCHANGED <<pc, outcome, session>>
  /\ UNCHANGED <<intent, offering, resetRetry, failures, generation, phase, newest, bounds>>

ProbeSucceeds ==
  /\ pc = "probing"
  /\ pc' = "connected"
  /\ UNCHANGED <<intent, queue, outcome, failures, generation, view, bounds>>

ProbeFails(kind) ==
  /\ pc = "probing"
  /\ Fault
  /\ Ends(kind, TRUE, FALSE)
  /\ UNCHANGED <<intent, queue, failures, generation, phase, newest>>

\* The socket closes, with or without a health check under way.
SessionCloses ==
  /\ pc \in {"connected", "probing"}
  /\ Fault
  /\ Ends("transient", TRUE, FALSE)
  /\ UNCHANGED <<intent, queue, failures, generation, phase, newest>>

-----------------------------------------------------------------------------
(* After the attempt.                                                        *)

\* The ladder after a session that was stable, and the generation it used up.
Settled == IF outcome.stable THEN 0 ELSE failures
Advanced == IF outcome.established THEN generation + 1 ELSE generation

\* Mutated form: an attempt that was interrupted counts as a failure.
ReleaseInterruptedCounts ==
  /\ pc = "releasing"
  /\ outcome.kind = "interrupted"
  /\ generation' = Advanced
  /\ failures' = IF outcome.reset THEN 0 ELSE Settled + 1
  /\ outcome' = None
  /\ pc' = "top"
  /\ UNCHANGED <<intent, queue, view, bounds>>

ReleaseInterrupted ==
  /\ pc = "releasing"
  /\ outcome.kind = "interrupted"
  /\ generation' = Advanced
  /\ failures' = IF outcome.reset THEN 0 ELSE Settled
  /\ outcome' = None
  /\ pc' = "top"
  /\ UNCHANGED <<intent, queue, view, bounds>>

ReleaseBlocked ==
  /\ pc = "releasing"
  /\ outcome.kind = "blocked"
  /\ generation' = Advanced
  /\ failures' = Settled
  /\ outcome' = None
  /\ pc' = "blocked"
  /\ phase' = "blocked"
  /\ UNCHANGED <<intent, queue, session, newest, bounds>>

ReleaseTransient ==
  /\ pc = "releasing"
  /\ outcome.kind = "transient"
  /\ generation' = Advanced
  /\ failures' = Settled + 1
  /\ outcome' = None
  /\ pc' = "backoff"
  /\ phase' = "backoff"
  /\ UNCHANGED <<intent, queue, session, newest, bounds>>

BackoffTakes ==
  /\ pc = "backoff"
  /\ signals # <<>>
  /\ signals' = Tail(signals)
  /\ failures' = IF Head(signals) \in ActiveWakeup THEN 0 ELSE failures
  /\ pc' = "top"
  /\ UNCHANGED <<intent, offering, resetRetry, outcome, generation, view, bounds>>

BackoffEnds ==
  /\ pc = "backoff"
  /\ pc' = "top"
  /\ UNCHANGED <<intent, queue, outcome, failures, generation, view, bounds>>

-----------------------------------------------------------------------------
Callers == Connect \/ Disconnect \/ RetryNow \/ NetworkChanges
             \/ \E s \in {"active", "reconnect", "credentials"} : Wake(s)
Takes == ParkedTakes \/ EstablishingTakes \/ ConnectedTakes \/ ProbingTakes \/ BackoffTakes
Top == ParkAvailable \/ ParkOffline \/ BeginAttempt
Release == ReleaseInterrupted \/ ReleaseBlocked \/ ReleaseTransient

\* What ends an establishment or a probe of itself: an answer, or the timeout.
Answers == EstablishSucceeds \/ ProbeSucceeds
             \/ \E kind \in Failure : EstablishFails(kind) \/ ProbeFails(kind)
             \/ EstablishTimesOut

Next == Callers \/ (\E s \in Signal : Offer(s)) \/ Takes \/ Top \/ Report
          \/ Answers \/ SessionCloses \/ Release \/ BackoffEnds

\* A fiber that can run does; a server that is not failing any more answers
\* and a timer fires.  Nothing obliges the callers, or sessions to close.
Fairness ==
  /\ \A s \in Signal : WF_vars(Offer(s))
  /\ WF_vars(Takes) /\ WF_vars(Top) /\ WF_vars(Report)
  /\ WF_vars(Answers) /\ WF_vars(Release) /\ WF_vars(BackoffEnds)

Spec == Init /\ [][Next]_vars /\ Fairness

-----------------------------------------------------------------------------
\* Every variable has its type.
TypeOK ==
  /\ desired \in BOOLEAN /\ online \in BOOLEAN
  /\ offering \in SUBSET Signal /\ signals \in Seq(Signal) /\ resetRetry \in BOOLEAN
  /\ pc \in Pc /\ outcome \in Outcome /\ failures \in Nat /\ generation \in Nat
  /\ session \in Nat /\ newest \in Nat /\ phase \in Phase
  /\ calls \in 0..MaxCalls /\ faults \in 0..MaxFaults

\* The fiber works for a connection, or waits to work for one again.
Working == \/ pc \in {"establishing", "connected", "probing", "blocked", "backoff"}
           \/ pc = "releasing" /\ outcome.kind \in Failure

\* While the fiber works for a connection that is no longer wanted, or that
\* the network no longer carries, the signal that will stop it is on its way:
\* none of the waits of the loop (establishment, session, health check,
\* blocked, back-off) may have taken it without acting on it.
WorkIsWanted ==
  Working => /\ desired \/ "disconnect" \in Pending
             /\ online \/ "offline" \in Pending

\* A fiber that waits because nothing is wanted, or because the network is
\* down, has a reason to, or the signal that wakes it is on its way.
ParkedForReason ==
  /\ pc = "available" => ~desired \/ "connect" \in Pending
  /\ pc = "offline" => /\ desired \/ "disconnect" \in Pending
                       /\ ~online \/ "online" \in Pending

\* retryNow() is served: its request to reset the ladder never stays behind
\* with nothing on its way that takes the fiber back to the top of the loop.
RetryIsServed ==
  resetRetry => \/ "retry" \in Pending
                \/ pc = "top"
                \/ pc = "releasing" /\ outcome.kind = "interrupted"

\* Only failures climb the ladder: being offline, disconnected, asked to
\* retry or interrupted uses up no attempt.
LadderIsEarned == failures <= faults

\* Consumers re-read their queries when the generation changes, so a session
\* is never published under the generation of an earlier one, or an older.
SessionsAreNew == [][session' # session /\ session' # 0 => session' > newest]_vars

\* Once intent and network come to rest and failures end, the connection does
\* too: a session that is up or an error that waits for the user to act; or
\* none, and the state that says why.
Converges ==
  /\ <>[](desired /\ online) => <>[]((session # 0 /\ phase = "connected") \/ phase = "blocked")
  /\ <>[](desired /\ ~online) => <>[](session = 0 /\ phase = "offline")
  /\ <>[](~desired) => <>[](session = 0 /\ phase = "available")
=============================================================================
