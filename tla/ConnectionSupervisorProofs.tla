---------------------- MODULE ConnectionSupervisorProofs ----------------------
(***************************************************************************)
(* The safety of ConnectionSupervisor for every number of calls and        *)
(* failures.  The properties speak of the signals on their way; a step     *)
(* changes those in one of four manners (LEMMAS Sending, Waking, Offering, *)
(* Taking), and the steps are proved from these.  Two facts make the       *)
(* invariant inductive: a transient failure leaves room on the ladder, and *)
(* the generation of the newest session is used up when its scope closed.  *)
(***************************************************************************)
EXTENDS ConnectionSupervisor, SequenceTheorems, TLAPS

\* A session is published only while its attempt runs.
SessionHeld == session # 0 => pc \in {"connected", "probing"}

\* A transient failure that is being cleaned up has been counted as a fault.
LadderRoom ==
  /\ failures <= faults
  /\ pc = "releasing" /\ outcome.kind = "transient" => failures < faults

\* The newest session is older than the next one will be.
GenerationUsed ==
  /\ newest <= generation + 1
  /\ \/ newest <= generation
     \/ pc \in {"connected", "probing"}
     \/ pc = "releasing" /\ outcome.established

Signals == WorkIsWanted /\ ParkedForReason /\ RetryIsServed
Counts == SessionHeld /\ LadderRoom /\ GenerationUsed
IInv == TypeOK /\ Signals /\ Counts

-----------------------------------------------------------------------------
(* The signals on their way.                                                 *)

LEMMA RangeOfAppend ==
  ASSUME NEW q \in Seq(Signal), NEW s \in Signal
  PROVE  Append(q, s) \in Seq(Signal) /\ Range(Append(q, s)) = Range(q) \cup {s}
<1> DEFINE r == Append(q, s)
<1>1. /\ r \in Seq(Signal) /\ DOMAIN r = 1..(Len(q) + 1) /\ DOMAIN q = 1..Len(q)
      /\ \A n \in DOMAIN q : r[n] = q[n]
      /\ r[Len(q) + 1] = s /\ Len(q) \in Nat
  OBVIOUS
<1> HIDE DEF r
<1>2. Range(r) = Range(q) \cup {s} BY <1>1 DEF Range
<1> QED BY <1>1, <1>2 DEF r

LEMMA RangeOfTail ==
  ASSUME NEW q \in Seq(Signal), q # <<>>
  PROVE  /\ Tail(q) \in Seq(Signal) /\ Head(q) \in Signal
         /\ Range(q) = Range(Tail(q)) \cup {Head(q)}
<1> DEFINE r == Tail(q)
<1>1. /\ r \in Seq(Signal) /\ DOMAIN r = 1..(Len(q) - 1) /\ DOMAIN q = 1..Len(q)
      /\ Len(q) \in Nat \ {0} /\ \A n \in DOMAIN r : r[n] = q[n + 1]
      /\ Head(q) = q[1]
  OBVIOUS
<1> HIDE DEF r
<1>2. Head(q) \in Signal /\ 1 \in DOMAIN q BY <1>1
<1>3. \A n \in DOMAIN q : n # 1 => n - 1 \in DOMAIN r /\ r[n - 1] = q[n] BY <1>1
<1>4. \A n \in DOMAIN r : n + 1 \in DOMAIN q BY <1>1
<1>5. Range(q) = Range(r) \cup {Head(q)} BY <1>1, <1>2, <1>3, <1>4 DEF Range
<1> QED BY <1>1, <1>2, <1>5 DEF r

LEMMA Sending ==
  ASSUME NEW s \in Signal, Sends(s), UNCHANGED signals
  PROVE  Pending' = Pending \cup {s}
  BY DEF Sends, Pending

LEMMA Waking ==
  ASSUME TypeOK, NEW s \in Signal, signals' = Append(signals, s), UNCHANGED offering
  PROVE  Pending' = Pending \cup {s}
<1>1. Range(signals') = Range(signals) \cup {s} BY RangeOfAppend DEF TypeOK
<1> QED BY <1>1 DEF Pending

LEMMA Offering ==
  ASSUME TypeOK, NEW s \in Signal, Offer(s)
  PROVE  Pending' = Pending
<1>1. Range(signals') = Range(signals) \cup {s} BY RangeOfAppend DEF TypeOK, Offer
<1> QED BY <1>1 DEF Pending, Offer

LEMMA Taking ==
  ASSUME TypeOK, signals # <<>>, signals' = Tail(signals), UNCHANGED offering
  PROVE  Pending = Pending' \cup {Head(signals)}
<1>1. Range(signals) = Range(signals') \cup {Head(signals)} BY RangeOfTail DEF TypeOK
<1> QED BY <1>1 DEF Pending

LEMMA Resting ==
  ASSUME UNCHANGED <<offering, signals>>
  PROVE  Pending' = Pending
  BY DEF Pending

-----------------------------------------------------------------------------
(* Type correctness.                                                         *)

LEMMA EndsType ==
  ASSUME NEW kind \in {"none", "interrupted"} \cup Failure,
         NEW established \in BOOLEAN, NEW reset \in BOOLEAN,
         Ends(kind, established, reset)
  PROVE  /\ outcome' \in Outcome /\ outcome'.kind = kind
         /\ outcome'.established = established
         /\ session' = 0 /\ pc' = "releasing"
<1>1. PICK stable \in BOOLEAN :
        outcome' = [kind |-> kind, established |-> established, stable |-> stable, reset |-> reset]
  BY DEF Ends
<1>2. outcome' \in Outcome BY <1>1 DEF Outcome
<1> QED BY <1>1, <1>2 DEF Ends

LEMMA TypeInit == Init => TypeOK
<1>1. None \in Outcome BY DEF Outcome, None
<1>2. ASSUME Init PROVE phase \in Phase /\ pc \in Pc BY <1>2 DEF Init, Phase, Pc
<1>3. <<>> \in Seq(Signal) /\ {} \in SUBSET Signal OBVIOUS
<1>4. 0 \in 0..MaxCalls /\ 0 \in 0..MaxFaults BY SupervisorAssumption
<1>5. ASSUME Init PROVE resetRetry \in BOOLEAN BY <1>5, Zenon DEF Init
<1>6. 0 \in Nat OBVIOUS
<1> QED BY <1>1, <1>2, <1>3, <1>4, <1>5, <1>6, Zenon DEF Init, TypeOK

LEMMA TypeStep ==
  ASSUME TypeOK, [Next]_vars
  PROVE  TypeOK'
<1> USE SupervisorAssumption
<1>0. /\ "releasing" \in Pc /\ "top" \in Pc /\ None \in Outcome
      /\ {"interrupted"} \cup Failure \subseteq {"none", "interrupted"} \cup Failure
  BY DEF Pc, Outcome, None, Failure
<1>1. ASSUME Callers PROVE TypeOK'
  <2>0. {"connect", "disconnect", "retry", "online", "offline"} \subseteq Signal BY DEF Signal
  <2>1. CASE Connect BY <2>0, <2>1 DEF Connect, Called, Sends, TypeOK, loop, view
  <2>2. CASE Disconnect
    <3>1. desired' \in BOOLEAN BY <2>2, Zenon DEF Disconnect
    <3>2. offering' \in SUBSET Signal BY <2>0, <2>2 DEF Disconnect, Sends, TypeOK
    <3>3. calls' \in 0..MaxCalls /\ faults' = faults BY <2>2 DEF Disconnect, Called, TypeOK
    <3> QED BY <2>2, <3>1, <3>2, <3>3 DEF Disconnect, TypeOK, loop, view
  <2>3. CASE RetryNow BY <2>0, <2>3 DEF RetryNow, Called, Sends, TypeOK, loop, view, intent
  <2>4. CASE NetworkChanges
    BY <2>0, <2>4 DEF NetworkChanges, Called, Sends, TypeOK, loop, view
  <2>5. ASSUME NEW s \in {"active", "reconnect", "credentials"}, Wake(s) PROVE TypeOK'
    <3>1. s \in Signal BY DEF Signal
    <3>2. signals' \in Seq(Signal) BY <2>5, <3>1, RangeOfAppend DEF Wake, TypeOK
    <3> QED BY <2>5, <3>2 DEF Wake, Called, TypeOK, loop, view, intent
  <2> QED BY <1>1, <2>1, <2>2, <2>3, <2>4, <2>5 DEF Callers
<1>2. ASSUME NEW s \in Signal, Offer(s) PROVE TypeOK'
  <2>1. signals' \in Seq(Signal) BY <1>2, RangeOfAppend DEF Offer, TypeOK
  <2> QED BY <1>2, <2>1 DEF Offer, TypeOK, intent, loop, view, bounds
<1>3. ASSUME Takes PROVE TypeOK'
  <2>1. signals' \in Seq(Signal) /\ UNCHANGED <<intent, offering, resetRetry, generation, phase, newest, bounds>>
    <3>1. signals # <<>> /\ signals' = Tail(signals)
          /\ UNCHANGED <<intent, offering, resetRetry, generation, phase, newest, bounds>>
      BY <1>3 DEF Takes, ParkedTakes, EstablishingTakes, ConnectedTakes, ProbingTakes,
                  BackoffTakes, view
    <3> QED BY <3>1, RangeOfTail DEF TypeOK
  <2>2. failures' \in Nat /\ pc' \in Pc /\ outcome' \in Outcome /\ session' \in Nat
    <3>1. CASE ParkedTakes \/ BackoffTakes
      BY <3>1, <1>0 DEF ParkedTakes, BackoffTakes, TypeOK, view
    <3>2. ASSUME NEW established \in BOOLEAN,
                 Ends("interrupted", established, Head(signals) = "reconnect"),
                 UNCHANGED failures
          PROVE  failures' \in Nat /\ pc' \in Pc /\ outcome' \in Outcome /\ session' \in Nat
      <4>1. outcome' \in Outcome /\ session' = 0 /\ pc' = "releasing"
        BY <3>2, <1>0, EndsType
      <4> QED BY <3>2, <4>1, <1>0 DEF TypeOK
    <3>3. CASE EstablishingTakes BY <3>2, <3>3 DEF EstablishingTakes, TypeOK
    <3>4. CASE ConnectedTakes BY <3>2, <3>4 DEF ConnectedTakes, TypeOK, Pc
    <3>5. CASE ProbingTakes BY <3>2, <3>5 DEF ProbingTakes, TypeOK
    <3> QED BY <1>3, <3>1, <3>3, <3>4, <3>5 DEF Takes
  <2> QED BY <2>1, <2>2 DEF TypeOK, intent, bounds
<1>4. ASSUME Top PROVE TypeOK'
  <2>1. Ladder \in Nat BY DEF Ladder, TypeOK
  <2>2. {"available", "offline", "establishing"} \subseteq Pc /\ {"available", "offline"} \subseteq Phase
    BY DEF Pc, Parked, Phase
  <2>3. CASE ParkAvailable
    BY <2>2, <2>3 DEF ParkAvailable, TypeOK, intent, bounds
  <2>4. CASE ParkOffline
    BY <2>1, <2>2, <2>4 DEF ParkOffline, TypeOK, intent, bounds
  <2>5. CASE BeginAttempt
    BY <2>1, <2>2, <2>5 DEF BeginAttempt, TypeOK, intent, view, bounds
  <2> QED BY <1>4, <2>3, <2>4, <2>5 DEF Top
<1>5. CASE Report BY <1>5 DEF Report, TypeOK, Phase, intent, queue, loop, bounds
<1>6. ASSUME NEW kind \in {"interrupted"} \cup Failure, NEW established \in BOOLEAN,
             Ends(kind, established, FALSE), Fault \/ UNCHANGED bounds,
             UNCHANGED <<intent, queue, failures, generation, phase, newest>>
      PROVE  TypeOK'
  <2>1. outcome' \in Outcome /\ session' = 0 /\ pc' = "releasing" BY <1>6, <1>0, EndsType
  <2> QED BY <1>6, <2>1, <1>0 DEF TypeOK, Fault, intent, queue, bounds
<1>7. ASSUME Answers PROVE TypeOK'
  <2>1. CASE EstablishSucceeds
    <3>1. ASSUME Ends("interrupted", FALSE, FALSE), UNCHANGED <<phase, newest>> PROVE TypeOK'
      BY <2>1, <3>1, <1>6 DEF EstablishSucceeds
    <3>2. "connected" \in Pc \cap Phase BY DEF Pc, Phase
    <3>3. ASSUME session' = generation + 1, newest' = generation + 1, phase' = "connected",
                 pc' = "connected", UNCHANGED outcome
          PROVE  TypeOK'
      <4>1. UNCHANGED <<intent, queue, failures, generation, bounds>> BY <2>1 DEF EstablishSucceeds
      <4> QED BY <3>2, <3>3, <4>1 DEF TypeOK, intent, queue, bounds
    <3> QED BY <2>1, <3>1, <3>3, Zenon DEF EstablishSucceeds
  <2>2. CASE ProbeSucceeds
    BY <2>2 DEF ProbeSucceeds, TypeOK, Pc, intent, queue, view, bounds
  <2>3. ASSUME NEW kind \in Failure, EstablishFails(kind) PROVE TypeOK'
    BY <2>3, <1>6 DEF EstablishFails
  <2>4. ASSUME NEW kind \in Failure, ProbeFails(kind) PROVE TypeOK'
    BY <2>4, <1>6 DEF ProbeFails
  <2>5. CASE EstablishTimesOut BY <2>5, <1>6 DEF EstablishTimesOut, Failure
  <2> QED BY <1>7, <2>1, <2>2, <2>3, <2>4, <2>5 DEF Answers
<1>8. CASE SessionCloses BY <1>8, <1>6 DEF SessionCloses, Failure
<1>9. ASSUME Release PROVE TypeOK'
  <2>1. Settled \in Nat /\ Advanced \in Nat BY DEF Settled, Advanced, TypeOK
  <2> QED BY <1>9, <2>1, <1>0 DEF Release, ReleaseInterrupted, ReleaseBlocked, ReleaseTransient,
                             TypeOK, Pc, Parked, Phase, intent, queue, view, bounds
<1>10. CASE BackoffEnds
  BY <1>10, <1>0 DEF BackoffEnds, TypeOK, intent, queue, view, bounds
<1>11. CASE UNCHANGED vars
  BY <1>11 DEF vars, intent, queue, loop, view, bounds, TypeOK
<1> QED BY <1>1, <1>2, <1>3, <1>4, <1>5, <1>7, <1>8, <1>9, <1>10, <1>11 DEF Next

-----------------------------------------------------------------------------
(* The signals and the intent.                                               *)

\* The signals that would be missed by work that goes on are in Ending.
LEMMA EndingSignals == {"disconnect", "offline", "retry"} \subseteq Ending
  BY DEF Ending

LEMMA SignalsStep ==
  ASSUME TypeOK, Signals, [Next]_vars
  PROVE  Signals'
<1> USE DEF Signals
<1>1. ASSUME Callers PROVE Signals'
  <2>0. {"connect", "disconnect", "retry", "online", "offline"} \subseteq Signal BY DEF Signal
  <2>1. CASE Connect
    <3>1. Pending' = Pending \cup {"connect"} BY <2>0, <2>1, Sending DEF Connect
    <3>2. Working' = Working BY <2>1 DEF Connect, loop, Working
    <3> QED BY <2>1, <3>1, <3>2 DEF Connect, loop, WorkIsWanted, ParkedForReason, RetryIsServed
  <2>2. CASE Disconnect
    <3>1. Pending' = Pending \cup {"disconnect"} BY <2>0, <2>2, Sending DEF Disconnect
    <3>2. Working' = Working BY <2>2 DEF Disconnect, loop, Working
    <3> QED BY <2>2, <3>1, <3>2 DEF Disconnect, loop, WorkIsWanted, ParkedForReason, RetryIsServed
  <2>3. CASE RetryNow
    <3>1. Pending' = Pending \cup {"retry"} BY <2>0, <2>3, Sending DEF RetryNow
    <3>2. Working' = Working BY <2>3 DEF RetryNow, loop, Working
    <3> QED BY <2>3, <3>1, <3>2
            DEF RetryNow, intent, loop, WorkIsWanted, ParkedForReason, RetryIsServed
  <2>4. CASE NetworkChanges
    <3>1. Pending' = Pending \cup {IF online THEN "offline" ELSE "online"}
      BY <2>0, <2>4, Sending DEF NetworkChanges
    <3>2. Working' = Working BY <2>4 DEF NetworkChanges, loop, Working
    <3>3. online' = ~online /\ UNCHANGED <<desired, resetRetry, pc, outcome>>
      BY <2>4 DEF NetworkChanges, loop
    <3> QED BY <3>1, <3>2, <3>3 DEF TypeOK, WorkIsWanted, ParkedForReason, RetryIsServed
  <2>5. ASSUME NEW s \in {"active", "reconnect", "credentials"}, Wake(s) PROVE Signals'
    <3>1. s \in Signal BY DEF Signal
    <3>2. Pending' = Pending \cup {s} BY <2>5, <3>1, Waking DEF Wake
    <3>3. Working' = Working BY <2>5 DEF Wake, loop, Working
    <3> QED BY <2>5, <3>2, <3>3
            DEF Wake, intent, loop, WorkIsWanted, ParkedForReason, RetryIsServed
  <2> QED BY <1>1, <2>1, <2>2, <2>3, <2>4, <2>5 DEF Callers
<1>2. ASSUME NEW s \in Signal, Offer(s) PROVE Signals'
  <2>1. Pending' = Pending BY <1>2, Offering
  <2>2. Working' = Working BY <1>2 DEF Offer, loop, Working
  <2> QED BY <1>2, <2>1, <2>2
          DEF Offer, intent, loop, WorkIsWanted, ParkedForReason, RetryIsServed
<1>3. ASSUME Takes PROVE Signals'
  <2>1. /\ Pending = Pending' \cup {Head(signals)}
        /\ UNCHANGED <<desired, online, resetRetry>>
    <3>1. /\ signals # <<>> /\ signals' = Tail(signals)
          /\ UNCHANGED <<desired, online, offering, resetRetry>>
      BY <1>3 DEF Takes, ParkedTakes, EstablishingTakes, ConnectedTakes, ProbingTakes,
                  BackoffTakes, intent
    <3> QED BY <3>1, Taking
  <2>2. ASSUME pc' = "top" PROVE Signals'
    BY <2>2 DEF WorkIsWanted, Working, ParkedForReason, RetryIsServed
  <2>3. ASSUME NEW established \in BOOLEAN,
               Ends("interrupted", established, Head(signals) = "reconnect")
        PROVE  Signals'
    <3>1. outcome'.kind = "interrupted" /\ pc' = "releasing" BY <2>3, EndsType
    <3> QED BY <3>1 DEF WorkIsWanted, Working, Failure, ParkedForReason, RetryIsServed
  <2>4. ASSUME Head(signals) \notin Ending,
               pc \in {"establishing", "connected", "probing"},
               pc' \in {"establishing", "connected", "probing"}
        PROVE  Signals'
    <3>1. Head(signals) \notin {"disconnect", "offline", "retry"} BY <2>4, EndingSignals
    <3>2. Working BY <2>4 DEF Working
    <3> QED BY <2>1, <2>4, <3>1, <3>2 DEF WorkIsWanted, ParkedForReason, RetryIsServed
  <2>5. CASE ParkedTakes \/ BackoffTakes BY <2>2, <2>5 DEF ParkedTakes, BackoffTakes
  <2>6. CASE EstablishingTakes BY <2>3, <2>4, <2>6 DEF EstablishingTakes
  <2>7. CASE ConnectedTakes BY <2>3, <2>4, <2>7, EndingSignals DEF ConnectedTakes, Ending
  <2>8. CASE ProbingTakes BY <2>3, <2>4, <2>8 DEF ProbingTakes
  <2> QED BY <1>3, <2>5, <2>6, <2>7, <2>8 DEF Takes
<1>4. ASSUME Top PROVE Signals'
  <2>1. ~resetRetry' /\ UNCHANGED <<desired, online>>
    BY <1>4 DEF Top, ParkAvailable, ParkOffline, BeginAttempt, intent
  <2> QED BY <1>4, <2>1 DEF Top, ParkAvailable, ParkOffline, BeginAttempt,
                            WorkIsWanted, Working, ParkedForReason, RetryIsServed
<1>5. CASE Report
  <2>1. Pending' = Pending BY <1>5, Resting DEF Report, queue
  <2>2. Working' = Working BY <1>5 DEF Report, loop, Working
  <2> QED BY <1>5, <2>1, <2>2
          DEF Report, intent, queue, loop, WorkIsWanted, ParkedForReason, RetryIsServed
<1>6. ASSUME NEW kind \in {"interrupted"} \cup Failure, NEW established \in BOOLEAN,
             Ends(kind, established, FALSE), UNCHANGED <<intent, queue>>,
             pc \in {"establishing", "connected", "probing"}
      PROVE  Signals'
  <2>1. pc' = "releasing" BY <1>6, EndsType DEF Ends
  <2>2. Pending' = Pending BY <1>6, Resting DEF queue
  <2>3. Working BY <1>6 DEF Working
  <2> QED BY <1>6, <2>1, <2>2, <2>3
          DEF intent, queue, WorkIsWanted, ParkedForReason, RetryIsServed
<1>7. ASSUME UNCHANGED <<intent, queue>>,
             pc \in {"establishing", "connected", "probing"}, pc' \in {"connected", "probing"}
      PROVE  Signals'
  <2>1. Pending' = Pending BY <1>7, Resting DEF queue
  <2>2. Working BY <1>7 DEF Working
  <2> QED BY <1>7, <2>1, <2>2
          DEF intent, queue, WorkIsWanted, ParkedForReason, RetryIsServed
<1>8. ASSUME Answers PROVE Signals'
  <2>1. CASE EstablishSucceeds
    <3>1. pc = "establishing" /\ UNCHANGED <<intent, queue>> BY <2>1 DEF EstablishSucceeds
    <3>2. CASE Ends("interrupted", FALSE, FALSE) BY <1>6, <3>1, <3>2
    <3>3. CASE pc' = "connected" BY <1>7, <3>1, <3>3
    <3> QED BY <2>1, <3>2, <3>3 DEF EstablishSucceeds
  <2>2. CASE ProbeSucceeds BY <2>2, <1>7 DEF ProbeSucceeds
  <2>3. ASSUME NEW kind \in Failure, EstablishFails(kind) PROVE Signals'
    BY <2>3, <1>6 DEF EstablishFails
  <2>4. ASSUME NEW kind \in Failure, ProbeFails(kind) PROVE Signals'
    BY <2>4, <1>6 DEF ProbeFails
  <2>5. CASE EstablishTimesOut BY <2>5, <1>6 DEF EstablishTimesOut, Failure
  <2> QED BY <1>8, <2>1, <2>2, <2>3, <2>4, <2>5 DEF Answers
<1>9. CASE SessionCloses BY <1>9, <1>6 DEF SessionCloses, Failure
<1>10. ASSUME Release PROVE Signals'
  <2>1. Pending' = Pending /\ UNCHANGED <<desired, online, resetRetry>>
    BY <1>10, Resting
       DEF Release, ReleaseInterrupted, ReleaseBlocked, ReleaseTransient, intent, queue
  <2>2. CASE ReleaseInterrupted
    BY <2>1, <2>2 DEF ReleaseInterrupted, WorkIsWanted, Working, ParkedForReason, RetryIsServed
  <2>3. CASE ReleaseBlocked \/ ReleaseTransient
    BY <2>1, <2>3 DEF ReleaseBlocked, ReleaseTransient, WorkIsWanted, Working, Failure,
                      ParkedForReason, RetryIsServed
  <2> QED BY <1>10, <2>2, <2>3 DEF Release
<1>11. CASE BackoffEnds
  <2>1. Pending' = Pending BY <1>11, Resting DEF BackoffEnds, queue
  <2> QED BY <1>11, <2>1
          DEF BackoffEnds, intent, queue, WorkIsWanted, Working, ParkedForReason, RetryIsServed
<1>12. CASE UNCHANGED vars
  <2>1. Pending' = Pending /\ Working' = Working
    BY <1>12, Resting DEF vars, queue, loop, Working
  <2> QED BY <1>12, <2>1
          DEF vars, intent, queue, loop, WorkIsWanted, ParkedForReason, RetryIsServed
<1> QED BY <1>1, <1>2, <1>3, <1>4, <1>5, <1>8, <1>9, <1>10, <1>11, <1>12 DEF Next

-----------------------------------------------------------------------------
(* The counts.                                                               *)

LEMMA CountsStep ==
  ASSUME TypeOK, Counts, [Next]_vars
  PROVE  Counts' /\ (session' # session /\ session' # 0 => session' > newest)
<1> USE DEF Counts
<1> DEFINE Goal == Counts' /\ (session' # session /\ session' # 0 => session' > newest)
<1>1. ASSUME UNCHANGED <<loop, session, newest, faults>> PROVE Goal
  BY <1>1 DEF loop, SessionHeld, LadderRoom, GenerationUsed
<1>2. ASSUME Callers PROVE Goal
  BY <1>1, <1>2 DEF Callers, Connect, Disconnect, RetryNow, NetworkChanges, Wake, Called, view
<1>3. ASSUME NEW s \in Signal, Offer(s) PROVE Goal
  BY <1>1, <1>3 DEF Offer, view, bounds
<1>4. ASSUME pc' = "releasing", outcome'.kind = "interrupted", session' = 0,
             pc \in {"connected", "probing"} => outcome'.established,
             pc \in {"establishing", "connected", "probing"},
             UNCHANGED <<failures, generation, newest, faults>>
      PROVE  Goal
  BY <1>4 DEF TypeOK, SessionHeld, LadderRoom, GenerationUsed
<1>5. ASSUME pc # "releasing", pc' # "releasing",
             pc \in {"connected", "probing"} <=> pc' \in {"connected", "probing"},
             failures' \in {0, failures},
             UNCHANGED <<session, generation, newest, faults>>
      PROVE  Goal
  BY <1>5 DEF TypeOK, SessionHeld, LadderRoom, GenerationUsed
<1>6. ASSUME Takes PROVE Goal
  <2>1. UNCHANGED <<generation, newest, faults>>
    BY <1>6 DEF Takes, ParkedTakes, EstablishingTakes, ConnectedTakes, ProbingTakes,
                BackoffTakes, view, bounds
  <2>2. ASSUME NEW established \in BOOLEAN, pc \in {"connected", "probing"} => established,
               pc \in {"establishing", "connected", "probing"},
               Ends("interrupted", established, Head(signals) = "reconnect"),
               UNCHANGED failures
        PROVE  Goal
    <3>1. /\ pc' = "releasing" /\ outcome'.kind = "interrupted" /\ session' = 0
          /\ outcome'.established = established
      BY <2>2, EndsType
    <3>2. pc \in {"connected", "probing"} => outcome'.established BY <2>2, <3>1, Zenon
    <3> QED BY <1>4, <2>1, <2>2, <3>1, <3>2
  <2>3. CASE ParkedTakes \/ BackoffTakes
    BY <1>5, <2>1, <2>3 DEF ParkedTakes, Parked, BackoffTakes, view
  <2>4. CASE EstablishingTakes
    BY <1>5, <2>1, <2>2, <2>4 DEF EstablishingTakes
  <2>5. CASE ConnectedTakes
    BY <1>5, <2>1, <2>2, <2>5 DEF ConnectedTakes
  <2>6. CASE ProbingTakes
    BY <1>5, <2>1, <2>2, <2>6 DEF ProbingTakes
  <2> QED BY <1>6, <2>3, <2>4, <2>5, <2>6 DEF Takes
<1>7. ASSUME Top PROVE Goal
  <2>1. Ladder \in {0, failures} BY DEF Ladder
  <2>2. /\ pc = "top" /\ pc' \in {"available", "offline", "establishing"}
        /\ failures' \in {0, failures} /\ session' \in {0, session}
        /\ UNCHANGED <<generation, newest, faults>>
    BY <1>7, <2>1 DEF Top, ParkAvailable, ParkOffline, BeginAttempt, view, bounds
  <2> QED BY <2>2 DEF TypeOK, SessionHeld, LadderRoom, GenerationUsed
<1>8. CASE Report BY <1>1, <1>8 DEF Report, bounds
<1>9. ASSUME NEW kind \in Failure, Fault,
             NEW established \in BOOLEAN, pc \in {"connected", "probing"} => established,
             pc \in {"establishing", "connected", "probing"},
             Ends(kind, established, FALSE),
             UNCHANGED <<failures, generation, newest>>
      PROVE  Goal
  <2>1. /\ pc' = "releasing" /\ session' = 0 /\ outcome'.established = established
        /\ faults' = faults + 1
    BY <1>9, EndsType DEF Fault
  <2>2. pc \in {"connected", "probing"} => outcome'.established BY <1>9, <2>1, Zenon
  <2>3. UNCHANGED <<failures, generation, newest>> BY <1>9
  <2> QED BY <1>9, <2>1, <2>2, <2>3 DEF TypeOK, SessionHeld, LadderRoom, GenerationUsed
<1>10. ASSUME Answers PROVE Goal
  <2>1. CASE EstablishSucceeds
    <3>1. /\ pc = "establishing"
          /\ UNCHANGED <<failures, generation, faults>>
      BY <2>1 DEF EstablishSucceeds, bounds
    <3>2. ASSUME session' = generation + 1, newest' = generation + 1, pc' = "connected"
          PROVE  Goal
      BY <3>1, <3>2 DEF TypeOK, SessionHeld, LadderRoom, GenerationUsed
    <3>3. ASSUME Ends("interrupted", FALSE, FALSE), UNCHANGED newest PROVE Goal
      <4>1. /\ pc' = "releasing" /\ outcome'.kind = "interrupted"
            /\ session' = 0 /\ outcome'.established = FALSE
        BY <3>3, EndsType
      <4> QED BY <1>4, <3>1, <3>3, <4>1
    <3> QED BY <2>1, <3>2, <3>3 DEF EstablishSucceeds
  <2>2. CASE ProbeSucceeds
    BY <1>5, <2>2 DEF ProbeSucceeds, view, bounds
  <2>3. ASSUME NEW kind \in Failure, EstablishFails(kind) PROVE Goal
    BY <1>9, <2>3 DEF EstablishFails
  <2>4. ASSUME NEW kind \in Failure, ProbeFails(kind) PROVE Goal
    BY <1>9, <2>4 DEF ProbeFails
  <2>5. CASE EstablishTimesOut BY <1>9, <2>5 DEF EstablishTimesOut, Failure
  <2> QED BY <1>10, <2>1, <2>2, <2>3, <2>4, <2>5 DEF Answers
<1>11. CASE SessionCloses BY <1>9, <1>11 DEF SessionCloses, Failure
<1>12. ASSUME Release PROVE Goal
  <2>1. /\ pc = "releasing" /\ pc' \in {"top", "blocked", "backoff"}
        /\ generation' = Advanced /\ UNCHANGED <<session, newest, faults>>
    BY <1>12 DEF Release, ReleaseInterrupted, ReleaseBlocked, ReleaseTransient, view, bounds
  <2>2. failures' <= faults /\ failures' \in Nat
    <3>1. Settled \in {0, failures} BY DEF Settled
    <3>2. CASE ReleaseInterrupted \/ ReleaseBlocked
      BY <3>1, <3>2 DEF ReleaseInterrupted, ReleaseBlocked, TypeOK, LadderRoom
    <3>3. CASE ReleaseTransient
      BY <3>1, <3>3 DEF ReleaseTransient, TypeOK, LadderRoom
    <3> QED BY <1>12, <3>2, <3>3 DEF Release
  <2>3. newest <= generation' BY <2>1 DEF Advanced, TypeOK, GenerationUsed
  <2> QED BY <2>1, <2>2, <2>3 DEF Advanced, TypeOK, SessionHeld, LadderRoom, GenerationUsed
<1>13. CASE BackoffEnds BY <1>5, <1>13 DEF BackoffEnds, view, bounds
<1>14. CASE UNCHANGED vars BY <1>1, <1>14 DEF vars, view, bounds
<1> QED BY <1>2, <1>3, <1>6, <1>7, <1>8, <1>10, <1>11, <1>12, <1>13, <1>14 DEF Next

-----------------------------------------------------------------------------
LEMMA Initially == Init => IInv
<1> SUFFICES ASSUME Init PROVE IInv OBVIOUS
<1>1. TypeOK BY TypeInit
<1>2. Signals BY DEF Init, Signals, WorkIsWanted, Working, ParkedForReason, RetryIsServed
<1>3. Counts BY DEF Init, Counts, SessionHeld, LadderRoom, GenerationUsed
<1> QED BY <1>1, <1>2, <1>3 DEF IInv

LEMMA Preserved == IInv /\ [Next]_vars => IInv'
  BY TypeStep, SignalsStep, CountsStep DEF IInv

THEOREM Invariance == Spec => []IInv
  BY Initially, Preserved, PTL DEF Spec

\* The supervisor is type-correct however many calls and failures there are.
THEOREM TypeCorrect == Spec => []TypeOK
<1>1. IInv => TypeOK BY DEF IInv
<1> QED BY <1>1, Invariance, PTL

\* No wait of the loop takes the signal that should stop it without acting on it.
THEOREM WorkStaysWanted == Spec => []WorkIsWanted
<1>1. IInv => WorkIsWanted BY DEF IInv, Signals
<1> QED BY <1>1, Invariance, PTL

\* The fiber is never parked on an intent that has changed.
THEOREM ParksForReason == Spec => []ParkedForReason
<1>1. IInv => ParkedForReason BY DEF IInv, Signals
<1> QED BY <1>1, Invariance, PTL

\* No retryNow() is forgotten.
THEOREM RetriesServed == Spec => []RetryIsServed
<1>1. IInv => RetryIsServed BY DEF IInv, Signals
<1> QED BY <1>1, Invariance, PTL

\* Only failures lengthen the back-off.
THEOREM LadderEarned == Spec => []LadderIsEarned
<1>1. IInv => LadderIsEarned
  BY DEF IInv, TypeOK, Counts, LadderRoom, LadderIsEarned
<1> QED BY <1>1, Invariance, PTL

\* Every published session has a generation of its own.
THEOREM SessionsNew == Spec => SessionsAreNew
<1>1. IInv /\ [Next]_vars => [session' # session /\ session' # 0 => session' > newest]_vars
  BY CountsStep DEF IInv
<1> QED BY <1>1, Invariance, PTL DEF Spec, SessionsAreNew
=============================================================================
