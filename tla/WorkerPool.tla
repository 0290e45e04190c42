----------------------------- MODULE WorkerPool -----------------------------
(***************************************************************************)
(* The pool of worker threads (poolworker.cpp, worker.cpp) and the         *)
(* CountDown its jobs may carry: the queue of jobs behind m_mutex, the     *)
(* loop of Worker::run, and the condition variable a producer waits on.    *)
(* The producers that add jobs are in the modules that extend this one.    *)
(***************************************************************************)
EXTENDS Integers, Sequences, FiniteSets

CONSTANTS Strategies,  \* what a job is about
          Workers,     \* threads of the pool
          None         \* no job

ASSUME PoolAssumption ==
  /\ IsFiniteSet(Strategies) /\ Strategies # {}
  /\ IsFiniteSet(Workers) /\ Workers # {}
  /\ None \notin Strategies

VARIABLES
  queue,   \* PoolWorker::m_jobs
  pc,      \* where each worker is in Worker::run
  job,     \* the job each worker holds
  alive,   \* the workers whose m_running is true
  count,   \* CountDown::count
  asleep   \* a thread waits on CountDown::condition

poolVars == <<queue, pc, job, alive, count, asleep>>

Busy(w) == pc[w] \in {"process", "done"}

PoolInit ==
  /\ queue = <<>>
  /\ pc = [w \in Workers |-> "loop"] /\ job = [w \in Workers |-> None]
  /\ alive = Workers
  /\ count = 0 /\ asleep = FALSE

(* while (m_running)                                                       *)
Loop(w) ==
  /\ pc[w] = "loop"
  /\ pc' = [pc EXCEPT ![w] = IF w \in alive THEN "next" ELSE "ended"]
  /\ UNCHANGED <<queue, job, alive, count, asleep>>

NextJobPeek(w) ==
  /\ pc[w] = "next"
  /\ IF queue = <<>>
     THEN pc' = [pc EXCEPT ![w] = "loop"] /\ UNCHANGED job
     ELSE job' = [job EXCEPT ![w] = Head(queue)] /\ pc' = [pc EXCEPT ![w] = "process"]
  /\ UNCHANGED <<queue, alive, count, asleep>>

(* nextJob(): the oldest job, or none.                                     *)
NextJob(w) ==
  /\ pc[w] = "next"
  /\ IF queue = <<>>
     THEN pc' = [pc EXCEPT ![w] = "loop"] /\ UNCHANGED <<queue, job>>
     ELSE /\ job' = [job EXCEPT ![w] = Head(queue)]
          /\ queue' = Tail(queue)
          /\ pc' = [pc EXCEPT ![w] = "process"]
  /\ UNCHANGED <<alive, count, asleep>>

(* The end of job->strategy->process().                                    *)
Process(w) ==
  /\ pc[w] = "process"
  /\ pc' = [pc EXCEPT ![w] = "done"]
  /\ UNCHANGED <<queue, job, alive, count, asleep>>

(* countDown->done() wakes the waiting thread only once nothing is left.   *)
DoneNoWake(w) ==
  /\ pc[w] = "done"
  /\ count' = count - 1
  /\ asleep' = (asleep /\ count' >= 0)
  /\ pc' = [pc EXCEPT ![w] = "loop"] /\ job' = [job EXCEPT ![w] = None]
  /\ UNCHANGED <<queue, alive>>

Done(w) ==
  /\ pc[w] = "done"
  /\ count' = count - 1
  /\ asleep' = (asleep /\ count' > 0)
  /\ pc' = [pc EXCEPT ![w] = "loop"] /\ job' = [job EXCEPT ![w] = None]
  /\ UNCHANGED <<queue, alive>>

(* terminate(): the workers leave at the end of their iteration; the jobs  *)
(* still in the queue stay there.                                          *)
StopWorkers ==
  /\ alive' = {}
  /\ UNCHANGED <<queue, pc, job, count, asleep>>

WorkerNext(w) == Loop(w) \/ NextJob(w) \/ Process(w) \/ Done(w)
=============================================================================
