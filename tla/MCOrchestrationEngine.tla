----------------------- MODULE MCOrchestrationEngine -----------------------
(***************************************************************************)
(* A small instance of OrchestrationEngine: a project, a thread in it, and *)
(* three of the decider's commands (decider.ts project.create,             *)
(* thread.create, project.delete with force, which decides two events when *)
(* the thread still exists).  thread.create is dispatched twice, as a      *)
(* client that saw its connection drop does.                               *)
(***************************************************************************)
EXTENDS OrchestrationEngine

CONSTANTS create, add, addAgain, delete

MCCommand == {"project.create", "thread.create", "project.delete"}

MCCommandOf ==
  [k \in Call |-> CASE k = create -> "project.create"
                    [] k = delete -> "project.delete"
                    [] OTHER -> "thread.create"]

MCBody == {"project.created", "thread.created", "thread.deleted", "project.deleted"}

MCModel == [project : {"absent", "active", "deleted"}, thread : {"absent", "active", "deleted"}]
MCEmptyModel == [project |-> "absent", thread |-> "absent"]

\* requireProject and requireThread look the entity up, deleted or not;
\* a forced project.delete first deletes the threads that are not.
MCDecide(m, c) ==
  CASE c = "project.create" /\ m.project = "absent" -> <<"project.created">>
    [] c = "thread.create" /\ m.project # "absent" /\ m.thread = "absent" -> <<"thread.created">>
    [] c = "project.delete" /\ m.project # "absent" ->
         IF m.thread = "active" THEN <<"thread.deleted", "project.deleted">>
                                ELSE <<"project.deleted">>
    [] OTHER -> <<>>

MCApply(m, b) ==
  CASE b = "project.created" -> [m EXCEPT !.project = "active"]
    [] b = "project.deleted" -> [m EXCEPT !.project = "deleted"]
    [] b = "thread.created" -> [m EXCEPT !.thread = "active"]
    [] b = "thread.deleted" -> [m EXCEPT !.thread = "deleted"]

\* A COMMIT that reports a failure needs its reconciliation: the two do not fail
\* in the same behaviour.
MCFaults == SUBSET {"receipt", "transaction", "refusal", "commit"}
              \cup SUBSET {"receipt", "transaction", "refusal", "reconcile"}
MCNoFaults == {{}}

MCProjector == {"projects", "threads", "proposedPlans"}
MCProjectorOrder == <<"projects", "proposedPlans", "threads">>

\* getCommandReadModel joins what the projects and the threads projector wrote:
\* for each, the state after the events that projector applied.
MCHydrate(events, rows) ==
  LET Wrote(p) == FoldLeftDomain(
        LAMBDA m, n : IF n \in rows[p] THEN MCApply(m, events[n].body) ELSE m,
        MCEmptyModel, events)
  IN [project |-> Wrote("projects").project, thread |-> Wrote("threads").thread]
=============================================================================
