-------------------------- MODULE JobQueueRefinement --------------------------
(***************************************************************************)
(* The queue, lock and worker protocol implements the job life cycle as    *)
(* long as API requests do not overlap.  A worker runs a job in the sense  *)
(* of JobLifecycle from the commit of its claim to the commit of the       *)
(* outcome, or until a crash or a Redis failure takes it away.             *)
(***************************************************************************)
EXTENDS JobQueue

Runners == [j \in Jobs |-> {w \in Workers : Executes(w, j)}]

Lifecycle == INSTANCE JobLifecycle WITH runners <- Runners

\* Every behaviour of the job queue is, through that mapping, a behaviour of the
\* abstract life cycle: no lost claim, no double execution, no illegal edge.
ImplementsLifecycle == Lifecycle!Spec

=============================================================================
