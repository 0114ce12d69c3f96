------------------------------ MODULE CommandLog ------------------------------
(***************************************************************************)
(* What the orchestration engine promises to the callers of dispatch()     *)
(* (orchestration/Services/OrchestrationEngine.ts and                      *)
(* docs/internals/overview.md, "Orchestration"): one ledger of events; a   *)
(* command is decided against the state the whole ledger stands for, and   *)
(* its events enter the ledger all at once and at most once, however many  *)
(* times it is dispatched; a refusal can be recorded too; an answer tells  *)
(* the truth about the ledger, or says that nobody knows.                  *)
(***************************************************************************)
EXTENDS Naturals, Sequences

CONSTANTS Call,          \* calls of dispatch()
          Command,       \* command identities (commandId)
          CommandOf,     \* the command each call carries
          EmptyModel,
          Decide(_, _),  \* state, command -> the bodies of its events; <<>> refuses
          Apply(_, _)    \* state, body -> state

VARIABLES ledger,   \* events, each [command, body]
          verdict,  \* what is on record for each command
          answer    \* what each call was told

vars == <<ledger, verdict, answer>>

Event(c, b) == [command |-> c, body |-> b]
Undecided == [status |-> "none"]
Accepted(n) == [status |-> "accepted", sequence |-> n]
IsRefused(v) == v.status = "rejected"

\* What a call of dispatch() knows.
Unasked == [status |-> "not called"]
Waiting == [status |-> "waiting"]
Rejected == [status |-> "refused"]
Failed == [status |-> "failed"]
Lost == [status |-> "lost"]

\* The states a ledger goes through, and the one it stands for.
StatesOf(events) ==
  LET s[n \in 0..Len(events)] == IF n = 0 THEN EmptyModel ELSE Apply(s[n - 1], events[n].body)
  IN s

StateOf(events) == StatesOf(events)[Len(events)]

Batch(c) == LET bodies == Decide(StateOf(ledger), c)
            IN [n \in DOMAIN bodies |-> Event(c, bodies[n])]

Init ==
  /\ ledger = <<>>
  /\ verdict = [c \in Command |-> Undecided]
  /\ answer = [k \in Call |-> Unasked]

Submit(k) ==
  /\ answer[k] = Unasked
  /\ answer' = [answer EXCEPT ![k] = Waiting]
  /\ UNCHANGED <<ledger, verdict>>

\* Somebody waits for the command, it has no verdict yet, the ledger allows it.
Accept(c) ==
  /\ \E k \in Call : answer[k] = Waiting /\ CommandOf[k] = c
  /\ verdict[c] = Undecided
  /\ Batch(c) # <<>>
  /\ ledger' = ledger \o Batch(c)
  /\ verdict' = [verdict EXCEPT ![c] = Accepted(Len(ledger'))]
  /\ UNCHANGED answer

Refuse(c) ==
  /\ verdict[c] = Undecided
  /\ Batch(c) = <<>>
  /\ \E n \in 0..Len(ledger) :
       verdict' = [verdict EXCEPT ![c] = [status |-> "rejected", sequence |-> n]]
  /\ UNCHANGED <<ledger, answer>>

\* The sequence number told is the one of the command's last event.
AnswerAccepted(k) ==
  /\ answer[k] = Waiting
  /\ verdict[CommandOf[k]].status = "accepted"
  /\ answer' = [answer EXCEPT ![k] = verdict[CommandOf[k]]]
  /\ UNCHANGED <<ledger, verdict>>

\* A refusal is told from the record, or because the ledger refuses now.
AnswerRejected(k) ==
  /\ answer[k] = Waiting
  /\ \/ IsRefused(verdict[CommandOf[k]])
     \/ verdict[CommandOf[k]] = Undecided /\ Batch(CommandOf[k]) = <<>>
  /\ answer' = [answer EXCEPT ![k] = Rejected]
  /\ UNCHANGED <<ledger, verdict>>

\* A storage error: the command may or may not be in the ledger.
AnswerFailed(k) ==
  /\ answer[k] = Waiting
  /\ answer' = [answer EXCEPT ![k] = Failed]
  /\ UNCHANGED <<ledger, verdict>>

\* The process dies: nobody who waits is ever told.
Lose ==
  /\ answer' = [k \in Call |-> IF answer[k] = Waiting THEN Lost ELSE answer[k]]
  /\ UNCHANGED <<ledger, verdict>>

Next ==
  \/ \E c \in Command : Accept(c) \/ Refuse(c)
  \/ \E k \in Call : \/ Submit(k) \/ AnswerAccepted(k)
                     \/ AnswerRejected(k) \/ AnswerFailed(k)
  \/ Lose

Spec == Init /\ [][Next]_vars
=============================================================================
