---------------------------- MODULE BacktestLoop ----------------------------
(***************************************************************************)
(* A backtest of several strategies: the thread of Backtest::run adds one  *)
(* job per strategy and time step and waits for the pool before it         *)
(* advances, while the application thread (main.cpp) watches the progress, *)
(* stops the backtest, then terminates it and the pool.                    *)
(***************************************************************************)
EXTENDS WorkerPool

CONSTANTS Silent,    \* strategies whose market may have no tick in a step
          FromTs, ToTs, Timestep

ASSUME LoopAssumption ==
  /\ Silent \subseteq Strategies
  /\ FromTs \in Nat \ {0} /\ ToTs \in Nat /\ FromTs < ToTs
  /\ Timestep \in Nat \ {0}

VARIABLES
  loop,     \* where Backtest::run is
  todo,     \* strategies the for loop has not visited yet
  curTs,    \* m_curTs
  running,  \* m_running of the backtest
  app,      \* where the application thread is
  reported  \* it has displayed "Completed !"

loopVars == <<loop, todo, curTs, running>>
appVars == <<app, reported>>
vars == <<poolVars, loopVars, appVars>>

Init ==
  /\ PoolInit
  /\ loop = "top" /\ todo = {} /\ curTs = FromTs /\ running = TRUE
  /\ app = "run" /\ reported = FALSE

-----------------------------------------------------------------------------
(* Backtest::run.                                                          *)

BeginRoundOneMore ==
  /\ loop = "top" /\ running /\ curTs <= ToTs
  /\ count' = Cardinality(Strategies) + 1
  /\ todo' = Strategies
  /\ loop' = "visit"
  /\ UNCHANGED <<queue, pc, job, alive, asleep, curTs, running, appVars>>

(* The head of the loop: leave it, or reset the countdown.                 *)
BeginRound ==
  /\ loop = "top" /\ running /\ curTs <= ToTs
  /\ count' = Cardinality(Strategies)
  /\ todo' = Strategies
  /\ loop' = "visit"
  /\ UNCHANGED <<queue, pc, job, alive, asleep, curTs, running, appVars>>

EndLoop ==
  /\ loop = "top" /\ ~(running /\ curTs <= ToTs)
  /\ loop' = "ended" /\ running' = FALSE
  /\ UNCHANGED <<poolVars, todo, curTs, appVars>>

(* A strategy without ticks is skipped: "no ticks for this run".           *)
AddJob(s) ==
  /\ loop = "visit" /\ s \in todo
  /\ todo' = todo \ {s}
  /\ queue' = Append(queue, s)
  /\ UNCHANGED <<pc, job, alive, count, asleep, loop, curTs, running, appVars>>

SkipSilent(s) ==
  /\ loop = "visit" /\ s \in todo \cap Silent
  /\ todo' = todo \ {s}
  /\ UNCHANGED <<poolVars, loop, curTs, running, appVars>>

(* countDown.wait(): test the count under the mutex, sleep while it is     *)
(* positive.                                                               *)
WaitNot ==
  /\ loop = "visit" /\ todo = {}
  /\ loop' = "top" /\ curTs' = curTs + Timestep
  /\ UNCHANGED <<poolVars, todo, running, appVars>>

Wait ==
  /\ loop = "visit" /\ todo = {} /\ ~asleep
  /\ IF count > 0
     THEN asleep' = TRUE /\ UNCHANGED <<loop, curTs>>
     ELSE loop' = "top" /\ curTs' = curTs + Timestep /\ UNCHANGED asleep
  /\ UNCHANGED <<queue, pc, job, alive, count, todo, running, appVars>>

(* A condition variable may return without having been woken.              *)
SpuriousWake ==
  /\ asleep /\ asleep' = FALSE
  /\ UNCHANGED <<queue, pc, job, alive, count, loopVars, appVars>>

-----------------------------------------------------------------------------
(* The application thread.                                                 *)

(* In non interactive mode the progress ends the run.                      *)
SeeCompleted ==
  /\ app = "run" /\ curTs >= ToTs
  /\ reported' = TRUE /\ app' = "stop"
  /\ UNCHANGED <<poolVars, loopVars>>

Quit ==
  /\ app = "run"
  /\ app' = "stop"
  /\ UNCHANGED <<poolVars, loopVars, reported>>

StopNoWait ==
  /\ app = "stop"
  /\ running' = FALSE /\ app' = "terminate"
  /\ UNCHANGED <<poolVars, loop, todo, curTs, reported>>

(* Backtest::stop() does not wait for a run that already ended.            *)
Stop ==
  /\ app = "stop"
  /\ running' = FALSE
  /\ app' = IF running THEN "finish" ELSE "terminate"
  /\ UNCHANGED <<poolVars, loop, todo, curTs, reported>>

WaitFinish ==
  /\ app = "finish" /\ loop = "ended"
  /\ app' = "terminate"
  /\ UNCHANGED <<poolVars, loopVars, reported>>

(* Backtest::terminate() deletes the strategies.                           *)
Terminate ==
  /\ app = "terminate"
  /\ app' = "pool"
  /\ UNCHANGED <<poolVars, loopVars, reported>>

TerminatePool ==
  /\ app = "pool"
  /\ app' = "end"
  /\ StopWorkers
  /\ UNCHANGED <<loopVars, reported>>

-----------------------------------------------------------------------------

RunNext ==
  \/ BeginRound \/ EndLoop \/ Wait
  \/ \E s \in Strategies : AddJob(s) \/ SkipSilent(s)

AppEnds == SeeCompleted \/ Stop \/ WaitFinish \/ Terminate \/ TerminatePool

PoolNext == \E w \in Workers : WorkerNext(w) /\ UNCHANGED <<loopVars, appVars>>

Next == RunNext \/ SpuriousWake \/ Quit \/ AppEnds \/ PoolNext

Spec == Init /\ [][Next]_vars

(* The system schedules every thread, and the application thread looks at  *)
(* the progress every 10 ms; nobody has to quit, and wakes without a       *)
(* reason are not relied on.                                               *)
Fairness ==
  /\ WF_vars(RunNext)
  /\ WF_vars(AppEnds)
  /\ \A w \in Workers : WF_vars(WorkerNext(w) /\ UNCHANGED <<loopVars, appVars>>)

FairSpec == Spec /\ Fairness

-----------------------------------------------------------------------------
(* Properties.                                                             *)

InQueue == {queue[i] : i \in 1..Len(queue)}
Held == {job[w] : w \in {v \in Workers : Busy(v)}}

\* The type invariant of the pool, the backtest loop and the application thread.
TypeOK ==
  /\ queue \in Seq(Strategies)
  /\ pc \in [Workers -> {"loop", "next", "process", "done", "ended"}]
  /\ job \in [Workers -> Strategies \cup {None}]
  /\ alive \subseteq Workers
  /\ count \in Int /\ asleep \in BOOLEAN
  /\ loop \in {"top", "visit", "ended"} /\ todo \subseteq Strategies
  /\ curTs \in Nat /\ running \in BOOLEAN
  /\ app \in {"run", "stop", "finish", "terminate", "pool", "end"}
  /\ reported \in BOOLEAN

\* addJob() locks only the queue: what keeps a strategy from being processed by
\* two workers at once is the barrier of Backtest::run.
OneWorkerEach ==
  \A v, w \in Workers : Busy(v) /\ Busy(w) /\ job[v] = job[w] => v = w

\* Backtest::terminate() deletes the strategies before PoolWorker::terminate()
\* stops the workers: no worker, and no job of the queue, may then refer to one.
FreedIdle ==
  app \in {"pool", "end"} => queue = <<>> /\ \A w \in Workers : ~Busy(w)

(* A strategy counts as processed once process() has returned, or once it  *)
(* was found to have nothing to process.                                   *)
Processed ==
  IF loop = "visit"
  THEN Strategies \ (todo \cup InQueue \cup {job[w] : w \in {v \in Workers : pc[v] = "process"}})
  ELSE {}

R == INSTANCE Rounds WITH ts <- curTs, processed <- Processed

\* "sync before continue": time only advances once the jobs of every strategy
\* at the current time are over, and there is one per strategy at most.
RefinesRounds == R!RoundSpec

\* "sync before continue": a thread that waits on the countdown continues.
RoundEnds == [](loop = "visit" => <>(loop # "visit"))

\* Quitting ends the program: Backtest::stop() waits for the run to finish.
Ends == <>(app = "end")
=============================================================================
