------------------------------ MODULE IoWorker ------------------------------
(***************************************************************************)
(* The background file thread (IoWorker.cpp): one queue of jobs under one   *)
(* lock, one thread that takes them in order.  Post returns at once; Run      *)
(* and Drain block the calling thread until the job they posted is over.       *)
(***************************************************************************)
EXTENDS Integers, Sequences

CONSTANTS
  Jobs,      \* what a job does
  Nothing,   \* the empty job of Drain
  NoJob,     \* no job is running
  Callers,   \* threads that call Run or Drain
  Nobody,    \* the caller of a job that was only posted
  MaxJobs    \* bound: jobs waiting at a time

Posted == [do : Jobs \cup {Nothing}, by : Callers \cup {Nobody}]

\* What the theorems suppose of the constants.
WorkerAssumption ==
  /\ Nothing \notin Jobs /\ Nobody \notin Callers /\ NoJob \notin Posted
  /\ MaxJobs \in Nat

VARIABLES
  jobs,     \* the queue
  running,  \* the job the thread has taken out of it
  blocked,  \* callers waiting for their job
  ahead     \* history variable: for a blocked caller, how many jobs posted no
            \* later than its own are not over yet; 0 for the others

vars == <<jobs, running, blocked, ahead>>

Init ==
  /\ jobs = << >>
  /\ running = NoJob
  /\ blocked = {}
  /\ ahead = [c \in Callers |-> 0]

\* The jobs that are not over, in the order of their posting.
Line == IF running = NoJob THEN jobs ELSE <<running>> \o jobs

\* Slip: push_front where push_back is meant.
EnqueueInFront(j) == jobs' = <<j>> \o jobs

Enqueue(j) == jobs' = Append(jobs, j)

Post(do) ==
  /\ Len(jobs) < MaxJobs
  /\ Enqueue([do |-> do, by |-> Nobody])
  /\ UNCHANGED <<running, blocked, ahead>>

\* Post, then wait on the future the job resolves.
Run(c, do) ==
  /\ c \notin blocked
  /\ Len(jobs) < MaxJobs
  /\ Enqueue([do |-> do, by |-> c])
  /\ blocked' = blocked \cup {c}
  /\ ahead' = [ahead EXCEPT ![c] = Len(Line) + 1]
  /\ UNCHANGED running

Drain(c) == Run(c, Nothing)

Take ==
  /\ running = NoJob
  /\ jobs # << >>
  /\ running' = Head(jobs)
  /\ jobs' = Tail(jobs)
  /\ UNCHANGED <<blocked, ahead>>

\* The job is over; one that was run and not just posted wakes its caller.
Finish ==
  /\ running # NoJob
  /\ running' = NoJob
  /\ blocked' = blocked \ {running.by}
  /\ ahead' = [c \in Callers |-> IF c \in blocked' THEN ahead[c] - 1 ELSE 0]
  /\ UNCHANGED jobs

Next ==
  \/ \E j \in Jobs : Post(j)
  \/ \E c \in Callers : Drain(c) \/ \E j \in Jobs : Run(c, j)
  \/ Take
  \/ Finish

Spec == Init /\ [][Next]_vars

\* The thread is never joined and jobs end; what callers do is their own affair.
FairSpec == Spec /\ WF_vars(Take) /\ WF_vars(Finish)

-----------------------------------------------------------------------------

TypeOK ==
  /\ jobs \in Seq(Posted)
  /\ running \in Posted \cup {NoJob}
  /\ blocked \subseteq Callers
  /\ ahead \in [Callers -> Nat]

\* A blocked caller has exactly one job in the line, where its count says, so no
\* caller waits for a job that is lost and none is woken by another's
\* (Run's promise is resolved by its own job alone, IoWorker.cpp:55-64).
JobOfEachCaller ==
  /\ \A c \in blocked : ahead[c] \in 1 .. Len(Line) /\ Line[ahead[c]].by = c
  /\ \A i \in 1 .. Len(Line) : Line[i].by = Nobody \/ (Line[i].by \in blocked /\ ahead[Line[i].by] = i)

\* "Waits until every job posted so far has finished" (IoWorker.h:25): a caller
\* leaves Run or Drain only in the step that ends its own job, the last of those
\* posted up to then.
DrainStepWaits == \A c \in Callers : c \in blocked \ blocked' => ahead[c] = 1 /\ running.by = c

Waits(c) == c \in blocked
=============================================================================
