-------------------------- MODULE BacktestLoopProofs --------------------------
(***************************************************************************)
(* The barrier of the multi-strategy backtest, for any number of           *)
(* strategies and workers: the strategies the loop has not visited, those  *)
(* in the queue and those a worker holds never overlap, and the countdown  *)
(* is at least their number.  The thread that returns from wait() knows    *)
(* that nothing is left of the round.                                      *)
(***************************************************************************)
EXTENDS BacktestLoop, FiniteSetTheorems, TLAPS

(* What is left of a round.                                                *)
Pending == todo \cup InQueue \cup Held

(* A worker holds a job exactly while it is about it.                      *)
JobsHeld == \A w \in Workers : job[w] \in Strategies <=> Busy(w)

(* A strategy is in one place at most.                                     *)
OnePlace ==
  /\ \A i, j \in 1..Len(queue) : queue[i] = queue[j] => i = j
  /\ \A i \in 1..Len(queue) : queue[i] \notin todo
  /\ \A w \in Workers : Busy(w) => job[w] \notin todo
  /\ \A w \in Workers, i \in 1..Len(queue) : Busy(w) => job[w] # queue[i]

(* The countdown covers what is left; outside a round nothing is left.     *)
Covered ==
  /\ loop = "visit" => Cardinality(Pending) <= count /\ curTs <= ToTs
  /\ loop # "visit" => Pending = {}

(* Who still runs when the application thread moves on.                    *)
Stopped ==
  /\ app \in {"run", "stop"} /\ ~running => loop = "ended"
  /\ app \in {"terminate", "pool", "end"} => loop = "ended"

BInv == TypeOK /\ JobsHeld /\ OnePlace /\ OneWorkerEach /\ Covered /\ Stopped

-----------------------------------------------------------------------------
(* Facts about the sequences and sets.                                     *)

\* What nextJob() pops and leaves of the queue of jobs.
LEMMA Popped ==
  ASSUME NEW S, NEW q \in Seq(S), q # <<>>
  PROVE  /\ Head(q) \in S /\ Head(q) = q[1] /\ 1 \in 1..Len(q)
         /\ Tail(q) \in Seq(S)
         /\ \A i \in 1..Len(Tail(q)) : Tail(q)[i] = q[i+1] /\ i+1 \in 1..Len(q)
         /\ \A i \in 2..Len(q) : i-1 \in 1..Len(Tail(q)) /\ q[i] = Tail(q)[i-1]
  OBVIOUS

\* What addJob() adds to the queue of jobs.
LEMMA Pushed ==
  ASSUME NEW S, NEW q \in Seq(S), NEW s \in S
  PROVE  /\ Append(q, s) \in Seq(S)
         /\ Len(Append(q, s)) = Len(q) + 1
         /\ \A i \in 1..Len(q) : Append(q, s)[i] = q[i]
         /\ Append(q, s)[Len(q) + 1] = s
  OBVIOUS

\* A round has finitely many strategies left, and the countdown covers any subset.
LEMMA PendingFinite ==
  ASSUME TypeOK, JobsHeld
  PROVE  /\ Pending \subseteq Strategies /\ IsFiniteSet(Pending)
         /\ Cardinality(Pending) \in Nat
         /\ \A T \in SUBSET Pending : Cardinality(T) <= Cardinality(Pending)
<1>1. todo \subseteq Strategies
  BY DEF TypeOK
<1>2. InQueue \subseteq Strategies
  BY DEF TypeOK, InQueue
<1>3. Held \subseteq Strategies
  BY DEF JobsHeld, Held
<1>4. Pending \subseteq Strategies
  BY <1>1, <1>2, <1>3 DEF Pending
<1>5. IsFiniteSet(Pending)
  BY <1>4, FS_Subset, PoolAssumption
<1> QED
  BY <1>4, <1>5, FS_CardinalityType, FS_Subset

\* Nothing is pending exactly when nothing is to visit, queued or held.
LEMMA PendingEmpty ==
  ASSUME TypeOK, Pending = {}
  PROVE  todo = {} /\ queue = <<>> /\ \A w \in Workers : ~Busy(w)
<1>1. todo = {} /\ InQueue = {} /\ Held = {}
  BY DEF Pending
<1>2. queue = <<>>
  <2>1. queue \in Seq(Strategies)
    BY DEF TypeOK
  <2>2. SUFFICES ASSUME queue # <<>> PROVE FALSE
    OBVIOUS
  <2>3. 1 \in 1..Len(queue)
    BY <2>1, <2>2, Popped
  <2> QED
    BY <1>1, <2>3 DEF InQueue
<1>3. \A w \in Workers : ~Busy(w)
  BY <1>1 DEF Held
<1> QED
  BY <1>1, <1>2, <1>3

-----------------------------------------------------------------------------
(* The invariant holds initially and every action keeps it.                *)

\* The pool starts without jobs and the loop outside a round.
LEMMA InitBInv == Init => BInv
<1> SUFFICES ASSUME Init PROVE BInv
  OBVIOUS
<1> USE DEF Init, PoolInit
<1>1. TypeOK
  <2>1. queue \in Seq(Strategies) /\ count \in Int /\ curTs \in Nat
    BY LoopAssumption
  <2>2. /\ pc \in [Workers -> {"loop", "next", "process", "done", "ended"}]
        /\ job \in [Workers -> Strategies \cup {None}]
    OBVIOUS
  <2> QED
    BY <2>1, <2>2 DEF TypeOK
<1>2. JobsHeld /\ OnePlace /\ OneWorkerEach
  BY PoolAssumption DEF JobsHeld, OnePlace, OneWorkerEach, Busy
<1>3. Covered
  BY DEF Covered, Pending, InQueue, Held, Busy
<1>4. Stopped
  BY DEF Stopped
<1> QED
  BY <1>1, <1>2, <1>3, <1>4 DEF BInv

\* Steps that touch neither the jobs nor the countdown: the head of Worker::run,
\* a spurious wake, and every step of the application thread.
LEMMA PendingKept ==
  ASSUME BInv, TypeOK', UNCHANGED <<queue, job, count, todo, loop, curTs>>,
         \A w \in Workers : Busy(w)' <=> Busy(w)
  PROVE  JobsHeld' /\ OnePlace' /\ OneWorkerEach' /\ Covered'
<1>1. JobsHeld' /\ OnePlace' /\ OneWorkerEach'
  BY DEF BInv, JobsHeld, OnePlace, OneWorkerEach
<1>2. InQueue' = InQueue /\ Held' = Held
  BY DEF InQueue, Held
<1> QED
  BY <1>1, <1>2 DEF BInv, Covered, Pending

\* The test of m_running by a worker.
LEMMA LoopBInv ==
  ASSUME BInv, NEW w \in Workers, Loop(w), UNCHANGED <<loopVars, appVars>>
  PROVE  BInv'
<1> USE DEF Loop, loopVars, appVars
<1>1. TypeOK'
  BY DEF BInv, TypeOK
<1>2. \A v \in Workers : Busy(v)' <=> Busy(v)
  BY DEF BInv, TypeOK, Busy
<1>3. JobsHeld' /\ OnePlace' /\ OneWorkerEach' /\ Covered'
  BY <1>1, <1>2, PendingKept
<1>4. Stopped'
  BY DEF BInv, Stopped
<1> QED
  BY <1>1, <1>3, <1>4 DEF BInv

\* A job moves from the head of the queue to a worker: what is pending is the same.
LEMMA NextJobBInv ==
  ASSUME BInv, NEW w \in Workers, NextJob(w), UNCHANGED <<loopVars, appVars>>
  PROVE  BInv'
<1> USE DEF loopVars, appVars
<1>t. TypeOK
  BY DEF BInv
<1>s. Stopped'
  BY DEF NextJob, BInv, Stopped
<1>1. CASE queue = <<>>
  <2>1. TypeOK'
    BY <1>1, <1>t DEF NextJob, TypeOK
  <2>2. \A v \in Workers : Busy(v)' <=> Busy(v)
    BY <1>1, <1>t DEF NextJob, TypeOK, Busy
  <2> QED
    BY <1>1, <1>s, <2>1, <2>2, PendingKept DEF NextJob, BInv
<1>2. CASE queue # <<>>
  <2> DEFINE s == Head(queue)
  <2>1. queue \in Seq(Strategies)
    BY <1>t DEF TypeOK
  <2>2. /\ s \in Strategies /\ s = queue[1] /\ 1 \in 1..Len(queue)
        /\ Tail(queue) \in Seq(Strategies)
        /\ \A i \in 1..Len(Tail(queue)) : Tail(queue)[i] = queue[i+1] /\ i+1 \in 1..Len(queue)
        /\ \A i \in 2..Len(queue) : i-1 \in 1..Len(Tail(queue)) /\ queue[i] = Tail(queue)[i-1]
    BY <1>2, <2>1, Popped
  <2>3. /\ job' = [job EXCEPT ![w] = s] /\ queue' = Tail(queue)
        /\ pc' = [pc EXCEPT ![w] = "process"] /\ pc[w] = "next"
        /\ UNCHANGED <<alive, count, asleep, todo, loop, curTs, running, app, reported>>
    BY <1>2 DEF NextJob
  <2> HIDE DEF s
  <2>4. TypeOK'
    BY <1>t, <2>2, <2>3 DEF TypeOK
  <2>5. /\ Busy(w)' /\ ~Busy(w) /\ job'[w] = s
        /\ \A v \in Workers \ {w} : (Busy(v)' <=> Busy(v)) /\ job'[v] = job[v]
    BY <1>t, <2>3 DEF TypeOK, Busy
  <2>6. JobsHeld'
    BY <2>2, <2>5 DEF BInv, JobsHeld
  <2>7. \A i \in 1..Len(queue') : queue'[i] # s
    BY <2>1, <2>2, <2>3 DEF BInv, OnePlace
  <2>8. OnePlace'
    <3>1. \A i, j \in 1..Len(queue') : queue'[i] = queue'[j] => i = j
      BY <2>1, <2>2, <2>3 DEF BInv, OnePlace
    <3>2. \A i \in 1..Len(queue') : queue'[i] \notin todo'
      BY <2>2, <2>3 DEF BInv, OnePlace
    <3>3. \A v \in Workers : Busy(v)' => job'[v] \notin todo'
      BY <2>2, <2>3, <2>5 DEF BInv, OnePlace
    <3>4. \A v \in Workers, i \in 1..Len(queue') : Busy(v)' => job'[v] # queue'[i]
      BY <2>2, <2>3, <2>5, <2>7 DEF BInv, OnePlace
    <3> QED
      BY <3>1, <3>2, <3>3, <3>4 DEF OnePlace
  <2>9. OneWorkerEach'
    <3>1. \A v \in Workers \ {w} : Busy(v) => job[v] # s
      BY <2>2 DEF BInv, OnePlace
    <3> QED
      BY <2>5, <3>1 DEF BInv, OneWorkerEach
  <2>10. Pending' = Pending
    <3>1. InQueue = InQueue' \cup {s}
      <4>1. InQueue' \cup {s} \subseteq InQueue
        BY <2>2, <2>3 DEF InQueue
      <4>2. \A i \in 1..Len(queue) : queue[i] = s \/ queue[i] \in InQueue'
        <5> SUFFICES ASSUME NEW i \in 1..Len(queue), i # 1 PROVE queue[i] \in InQueue'
          BY <2>2
        <5>1. i \in 2..Len(queue)
          BY <2>1
        <5> QED
          BY <2>2, <2>3, <5>1 DEF InQueue
      <4> QED
        BY <4>1, <4>2 DEF InQueue
    <3>2. Held' = Held \cup {s}
      BY <2>5 DEF Held
    <3> QED
      BY <2>3, <3>1, <3>2 DEF Pending
  <2> QED
    BY <1>s, <2>3, <2>4, <2>6, <2>8, <2>9, <2>10 DEF BInv, Covered
<1> QED
  BY <1>1, <1>2

\* The end of process(): the worker is still about the same job.
LEMMA ProcessBInv ==
  ASSUME BInv, NEW w \in Workers, Process(w), UNCHANGED <<loopVars, appVars>>
  PROVE  BInv'
<1> USE DEF Process, loopVars, appVars
<1>1. TypeOK'
  BY DEF BInv, TypeOK
<1>2. \A v \in Workers : Busy(v)' <=> Busy(v)
  BY DEF BInv, TypeOK, Busy
<1>3. JobsHeld' /\ OnePlace' /\ OneWorkerEach' /\ Covered'
  BY <1>1, <1>2, PendingKept
<1>4. Stopped'
  BY DEF BInv, Stopped
<1> QED
  BY <1>1, <1>3, <1>4 DEF BInv

\* countDown->done(): one strategy less is pending, and the count is one less.
LEMMA DoneBInv ==
  ASSUME BInv, NEW w \in Workers, Done(w), UNCHANGED <<loopVars, appVars>>
  PROVE  BInv'
<1> DEFINE s == job[w]
<1>t. TypeOK /\ JobsHeld
  BY DEF BInv
<1>d. /\ pc[w] = "done" /\ count' = count - 1 /\ asleep' = (asleep /\ count' > 0)
      /\ pc' = [pc EXCEPT ![w] = "loop"] /\ job' = [job EXCEPT ![w] = None]
      /\ UNCHANGED <<queue, alive, loop, todo, curTs, running, app, reported>>
  BY DEF Done, loopVars, appVars
<1>1. TypeOK'
  <2>1. asleep' \in BOOLEAN
    BY <1>d
  <2> QED
    BY <1>t, <1>d, <2>1 DEF TypeOK
<1>2. /\ Busy(w) /\ ~Busy(w)' /\ job'[w] = None /\ s \in Strategies
      /\ \A v \in Workers \ {w} : (Busy(v)' <=> Busy(v)) /\ job'[v] = job[v]
  BY <1>t, <1>d DEF TypeOK, Busy, JobsHeld
<1>3. JobsHeld' /\ OnePlace' /\ OneWorkerEach'
  <2>1. JobsHeld'
    BY <1>2, PoolAssumption DEF BInv, JobsHeld
  <2>2. OnePlace'
    BY <1>2, <1>d DEF BInv, OnePlace
  <2>3. OneWorkerEach'
    BY <1>2 DEF BInv, OneWorkerEach
  <2> QED
    BY <2>1, <2>2, <2>3
<1>4. Pending' = Pending \ {s} /\ s \in Pending
  <2>1. InQueue' = InQueue /\ s \notin InQueue /\ s \notin todo
    BY <1>2, <1>d DEF InQueue, BInv, OnePlace
  <2>2. Held' = Held \ {s} /\ s \in Held
    BY <1>2 DEF Held, BInv, OneWorkerEach
  <2> QED
    BY <1>d, <2>1, <2>2 DEF Pending
<1>5. Covered'
  <2>1. loop = "visit"
    BY <1>4 DEF BInv, Covered
  <2>2. Cardinality(Pending) <= count /\ curTs <= ToTs
    BY <2>1 DEF BInv, Covered
  <2>3. IsFiniteSet(Pending) /\ Cardinality(Pending) \in Nat
    BY <1>t, PendingFinite
  <2>4. Cardinality(Pending') = Cardinality(Pending) - 1
    BY <1>4, <2>3, FS_RemoveElement
  <2> HIDE DEF s
  <2> QED
    BY <1>d, <1>t, <2>1, <2>2, <2>3, <2>4 DEF Covered, TypeOK
<1>6. Stopped'
  BY <1>d DEF BInv, Stopped
<1> QED
  BY <1>1, <1>3, <1>5, <1>6 DEF BInv

\* Resetting the countdown: every strategy is to visit, none is queued or held.
LEMMA BeginRoundBInv == BInv /\ BeginRound => BInv'
<1> SUFFICES ASSUME BInv, BeginRound PROVE BInv'
  OBVIOUS
<1>d. /\ loop = "top" /\ running /\ curTs <= ToTs
      /\ count' = Cardinality(Strategies) /\ todo' = Strategies /\ loop' = "visit"
      /\ UNCHANGED <<queue, pc, job, alive, asleep, curTs, running, app, reported>>
  BY DEF BeginRound, appVars
<1>t. TypeOK /\ Pending = {}
  BY <1>d DEF BInv, Covered
<1>1. queue = <<>> /\ \A w \in Workers : ~Busy(w)
  BY <1>t, PendingEmpty
<1>2. TypeOK'
  BY <1>d, <1>t, FS_CardinalityType, PoolAssumption DEF TypeOK
<1>3. \A w \in Workers : ~Busy(w)' /\ Busy(w)' = Busy(w)
  BY <1>d, <1>1 DEF Busy
<1>4. JobsHeld' /\ OnePlace' /\ OneWorkerEach'
  BY <1>d, <1>1, <1>3 DEF BInv, JobsHeld, OnePlace, OneWorkerEach
<1>5. Pending' = Strategies
  BY <1>d, <1>1, <1>3 DEF Pending, InQueue, Held
<1>6. Covered'
  <2>1. Cardinality(Strategies) \in Nat
    BY FS_CardinalityType, PoolAssumption
  <2> QED
    BY <1>d, <1>5, <2>1 DEF Covered
<1>7. Stopped'
  BY <1>d DEF BInv, Stopped
<1> QED
  BY <1>2, <1>4, <1>6, <1>7 DEF BInv

\* The end of Backtest::run, where nothing is pending either.
LEMMA EndLoopBInv == BInv /\ EndLoop => BInv'
<1> SUFFICES ASSUME BInv, EndLoop PROVE BInv'
  OBVIOUS
<1> USE DEF EndLoop, poolVars, appVars
<1>1. TypeOK'
  BY DEF BInv, TypeOK
<1>2. JobsHeld' /\ OnePlace' /\ OneWorkerEach'
  BY DEF BInv, JobsHeld, OnePlace, OneWorkerEach, Busy
<1>3. Pending' = Pending
  BY DEF Pending, InQueue, Held, Busy
<1>4. Covered' /\ Stopped'
  BY <1>3 DEF BInv, Covered, Stopped
<1> QED
  BY <1>1, <1>2, <1>4 DEF BInv

\* addJob(): a strategy to visit becomes a queued one.
LEMMA AddJobBInv ==
  ASSUME BInv, NEW s \in Strategies, AddJob(s)
  PROVE  BInv'
<1>t. TypeOK /\ queue \in Seq(Strategies)
  BY DEF BInv, TypeOK
<1>d. /\ loop = "visit" /\ s \in todo /\ todo' = todo \ {s} /\ queue' = Append(queue, s)
      /\ UNCHANGED <<pc, job, alive, count, asleep, loop, curTs, running, app, reported>>
  BY DEF AddJob, appVars
<1>q. /\ queue' \in Seq(Strategies) /\ Len(queue') = Len(queue) + 1 /\ Len(queue) \in Nat
      /\ \A i \in 1..Len(queue) : queue'[i] = queue[i]
      /\ queue'[Len(queue) + 1] = s
  BY <1>t, <1>d, Pushed
<1>1. TypeOK'
  BY <1>t, <1>d, <1>q DEF TypeOK
<1>2. \A w \in Workers : Busy(w)' <=> Busy(w)
  BY <1>d DEF Busy
<1>3. JobsHeld' /\ OneWorkerEach'
  BY <1>2, <1>d DEF BInv, JobsHeld, OneWorkerEach
<1>i. \A i \in 1..Len(queue') : i \in 1..Len(queue) \/ i = Len(queue) + 1
  BY <1>q
<1>o. /\ \A i, j \in 1..Len(queue) : queue[i] = queue[j] => i = j
      /\ \A i \in 1..Len(queue) : queue[i] \notin todo
      /\ \A w \in Workers : Busy(w) => job[w] \notin todo
      /\ \A w \in Workers, i \in 1..Len(queue) : Busy(w) => job[w] # queue[i]
  BY DEF BInv, OnePlace
<1>4. OnePlace'
  <2>1. \A i, j \in 1..Len(queue') : queue'[i] = queue'[j] => i = j
    BY <1>d, <1>q, <1>i, <1>o
  <2>2. \A i \in 1..Len(queue') : queue'[i] \notin todo'
    BY <1>d, <1>q, <1>i, <1>o
  <2>3. \A w \in Workers : Busy(w)' => job'[w] \notin todo'
    BY <1>d, <1>2, <1>o
  <2>4. \A w \in Workers, i \in 1..Len(queue') : Busy(w)' => job'[w] # queue'[i]
    BY <1>d, <1>q, <1>i, <1>o, <1>2
  <2> QED
    BY <2>1, <2>2, <2>3, <2>4 DEF OnePlace
<1>5. Pending' = Pending
  <2>1. InQueue' = InQueue \cup {s}
    <3>1. InQueue' \subseteq InQueue \cup {s}
      BY <1>q, <1>i DEF InQueue
    <3>2. \A i \in 1..Len(queue) : i \in 1..Len(queue')
      BY <1>q
    <3>3. Len(queue) + 1 \in 1..Len(queue')
      BY <1>q
    <3>4. InQueue \cup {s} \subseteq InQueue'
      BY <1>q, <3>2, <3>3 DEF InQueue
    <3> QED
      BY <3>1, <3>4
  <2>2. Held' = Held
    BY <1>d, <1>2 DEF Held
  <2> QED
    BY <1>d, <2>1, <2>2 DEF Pending
<1>6. Covered' /\ Stopped'
  BY <1>d, <1>5 DEF BInv, Covered, Stopped
<1> QED
  BY <1>1, <1>3, <1>4, <1>6 DEF BInv

\* A strategy that is skipped is no longer pending; the count keeps covering the rest.
LEMMA SkipSilentBInv ==
  ASSUME BInv, NEW s \in Strategies, SkipSilent(s)
  PROVE  BInv'
<1>d. /\ loop = "visit" /\ s \in todo /\ todo' = todo \ {s}
      /\ UNCHANGED <<queue, pc, job, alive, count, asleep, loop, curTs, running, app, reported>>
  BY DEF SkipSilent, poolVars, appVars
<1>t. TypeOK /\ JobsHeld
  BY DEF BInv
<1>1. TypeOK'
  BY <1>t, <1>d DEF TypeOK
<1>2. \A w \in Workers : Busy(w)' <=> Busy(w)
  BY <1>d DEF Busy
<1>3. JobsHeld' /\ OnePlace' /\ OneWorkerEach'
  BY <1>2, <1>d DEF BInv, JobsHeld, OnePlace, OneWorkerEach
<1>4. Pending' \subseteq Pending
  BY <1>d, <1>2 DEF Pending, InQueue, Held
<1>5. Covered'
  <2>1. Cardinality(Pending') <= Cardinality(Pending)
    BY <1>t, <1>4, PendingFinite
  <2>2. Cardinality(Pending) \in Nat /\ Cardinality(Pending') \in Nat
    BY <1>t, <1>1, <1>3, <1>4, PendingFinite, FS_Subset, FS_CardinalityType
  <2>3. Cardinality(Pending) <= count /\ curTs <= ToTs
    BY <1>d DEF BInv, Covered
  <2> QED
    BY <1>d, <1>t, <2>1, <2>2, <2>3 DEF Covered, TypeOK
<1>6. Stopped'
  BY <1>d DEF BInv, Stopped
<1> QED
  BY <1>1, <1>3, <1>5, <1>6 DEF BInv

\* wait() returns only when nothing of the round is pending.
LEMMA RoundOver ==
  ASSUME BInv, loop = "visit", ~(count > 0)
  PROVE  Pending = {}
<1>1. TypeOK /\ JobsHeld /\ Cardinality(Pending) <= count /\ count \in Int
  BY DEF BInv, Covered, TypeOK
<1>2. IsFiniteSet(Pending) /\ Cardinality(Pending) \in Nat
  BY <1>1, PendingFinite
<1>3. Cardinality(Pending) = 0
  BY <1>1, <1>2
<1> QED
  BY <1>2, <1>3, FS_EmptySet

\* countDown.wait(): either the thread sleeps or the round is over.
LEMMA WaitBInv == BInv /\ Wait => BInv'
<1> SUFFICES ASSUME BInv, Wait PROVE BInv'
  OBVIOUS
<1>d. /\ loop = "visit"
      /\ \/ count > 0 /\ asleep' = TRUE /\ loop' = loop /\ curTs' = curTs
         \/ ~(count > 0) /\ loop' = "top" /\ curTs' = curTs + Timestep /\ asleep' = asleep
      /\ UNCHANGED <<queue, pc, job, alive, count, todo, running, app, reported>>
  BY DEF Wait, appVars
<1>t. TypeOK
  BY DEF BInv
<1>1. TypeOK'
  <2>1. asleep' \in BOOLEAN
    BY <1>d, <1>t DEF TypeOK
  <2>2. curTs' \in Nat
    BY <1>d, <1>t, LoopAssumption DEF TypeOK
  <2> QED
    BY <1>d, <1>t, <2>1, <2>2 DEF TypeOK
<1>2. \A w \in Workers : Busy(w)' <=> Busy(w)
  BY <1>d DEF Busy
<1>3. JobsHeld' /\ OnePlace' /\ OneWorkerEach'
  BY <1>2, <1>d DEF BInv, JobsHeld, OnePlace, OneWorkerEach
<1>4. Pending' = Pending
  BY <1>d, <1>2 DEF Pending, InQueue, Held
<1>5. Covered'
  <2>1. CASE count > 0
    BY <1>d, <1>4, <2>1 DEF BInv, Covered
  <2>2. CASE ~(count > 0)
    BY <1>d, <1>4, <2>2, RoundOver DEF Covered
  <2> QED
    BY <2>1, <2>2
<1>6. Stopped'
  BY <1>d DEF BInv, Stopped
<1> QED
  BY <1>1, <1>3, <1>5, <1>6 DEF BInv

\* A wake without a reason, and the application thread: the jobs are not touched.
LEMMA AppBInv == BInv /\ (SpuriousWake \/ Quit \/ AppEnds) => BInv'
<1> SUFFICES ASSUME BInv, SpuriousWake \/ Quit \/ AppEnds PROVE BInv'
  OBVIOUS
<1>d. UNCHANGED <<queue, pc, job, count, loop, todo, curTs>>
  BY DEF SpuriousWake, Quit, AppEnds, SeeCompleted, Stop, WaitFinish, Terminate,
         TerminatePool, StopWorkers, poolVars, loopVars
<1>1. TypeOK'
  BY <1>d DEF BInv, TypeOK, SpuriousWake, Quit, AppEnds, SeeCompleted, Stop, WaitFinish,
         Terminate, TerminatePool, StopWorkers, poolVars, loopVars, appVars
<1>2. \A w \in Workers : Busy(w)' <=> Busy(w)
  BY <1>d DEF Busy
<1>3. JobsHeld' /\ OnePlace' /\ OneWorkerEach' /\ Covered'
  BY <1>d, <1>1, <1>2, PendingKept
<1>4. Stopped'
  BY <1>d DEF BInv, Stopped, SpuriousWake, Quit, AppEnds, SeeCompleted, Stop, WaitFinish,
         Terminate, TerminatePool, StopWorkers, loopVars, appVars
<1> QED
  BY <1>1, <1>3, <1>4 DEF BInv

\* Every step of the system, or a step of something else, keeps the invariant.
LEMMA StepBInv == BInv /\ [Next]_vars => BInv'
<1> SUFFICES ASSUME BInv, [Next]_vars PROVE BInv'
  OBVIOUS
<1>1. CASE RunNext
  BY <1>1, BeginRoundBInv, EndLoopBInv, WaitBInv, AddJobBInv, SkipSilentBInv DEF RunNext
<1>2. CASE SpuriousWake \/ Quit \/ AppEnds
  BY <1>2, AppBInv
<1>3. CASE PoolNext
  BY <1>3, LoopBInv, NextJobBInv, ProcessBInv, DoneBInv DEF PoolNext, WorkerNext
<1>4. CASE UNCHANGED vars
  <2>1. UNCHANGED <<queue, pc, job, alive, count, asleep, loop, todo, curTs, running, app, reported>>
    BY <1>4 DEF vars, poolVars, loopVars, appVars
  <2>2. TypeOK' /\ Stopped'
    BY <2>1 DEF BInv, TypeOK, Stopped
  <2>3. \A w \in Workers : Busy(w)' <=> Busy(w)
    BY <2>1 DEF Busy
  <2>4. JobsHeld' /\ OnePlace' /\ OneWorkerEach' /\ Covered'
    BY <2>1, <2>2, <2>3, PendingKept
  <2> QED
    BY <2>2, <2>4 DEF BInv
<1> QED
  BY <1>1, <1>2, <1>3, <1>4 DEF Next

\* The invariant of the barrier holds in every reachable state.
LEMMA Barrier == Spec => []BInv
  BY InitBInv, StepBInv, PTL DEF Spec

-----------------------------------------------------------------------------
(* What follows.                                                           *)

\* However many strategies and workers there are, no strategy is ever processed
\* by two workers of the pool at once, although addJob() and nextJob() would let
\* it: the barrier of Backtest::run is enough.
THEOREM OneWorkerEachAlways == Spec => []OneWorkerEach
<1>1. BInv => OneWorkerEach
  BY DEF BInv
<1> QED
  BY <1>1, Barrier, PTL

\* Once Backtest::terminate() has deleted the strategies, no job of the queue and
\* no worker refers to one, although the pool is terminated later.
THEOREM FreedIdleAlways == Spec => []FreedIdle
<1>1. BInv => FreedIdle
  <2> SUFFICES ASSUME BInv, app \in {"pool", "end"}
               PROVE  queue = <<>> /\ \A w \in Workers : ~Busy(w)
    BY DEF FreedIdle
  <2>1. Pending = {} /\ TypeOK
    BY DEF BInv, Stopped, Covered
  <2> QED
    BY <2>1, PendingEmpty
<1> QED
  BY <1>1, Barrier, PTL

-----------------------------------------------------------------------------
(* The backtest loop implements the rounds.                                *)

(* The jobs whose process() has not returned yet.                          *)
InProcess == {job[w] : w \in {v \in Workers : pc[v] = "process"}}

\* A step that leaves the same strategies unprocessed is a stutter of the rounds.
LEMMA SameRound ==
  ASSUME UNCHANGED <<curTs, loop>>,
         todo' \cup InQueue' \cup InProcess' = todo \cup InQueue \cup InProcess
  PROVE  UNCHANGED <<curTs, Processed>>
  BY DEF Processed, InProcess

\* A step after which exactly one strategy of a round has been processed more.
LEMMA OneMore ==
  ASSUME UNCHANGED <<curTs, loop>>, loop = "visit", curTs <= ToTs,
         NEW s \in Strategies, s \in todo \cup InQueue \cup InProcess,
         todo' \cup InQueue' \cup InProcess' = (todo \cup InQueue \cup InProcess) \ {s}
  PROVE  R!ProcessOne(s)
<1>1. s \notin Processed
  BY DEF Processed, InProcess
<1>2. Processed' = Processed \cup {s}
  BY DEF Processed, InProcess
<1> QED
  BY <1>1, <1>2 DEF R!ProcessOne

\* The steps of the backtest thread: a skipped strategy counts as processed, and
\* the return of wait() begins the next round.
LEMMA RunRounds ==
  ASSUME BInv, RunNext
  PROVE  R!RoundNext \/ UNCHANGED <<curTs, Processed>>
<1>t. TypeOK /\ queue \in Seq(Strategies)
  BY DEF BInv, TypeOK
<1>1. CASE BeginRound
  <2>1. todo' = Strategies /\ loop = "top" /\ loop' = "visit" /\ curTs' = curTs
    BY <1>1 DEF BeginRound
  <2> QED
    BY <2>1 DEF Processed
<1>2. CASE EndLoop
  BY <1>2 DEF EndLoop, Processed
<1>3. CASE Wait
  <2>1. CASE count > 0
    <3>1. UNCHANGED <<queue, pc, job, todo, loop, curTs>>
      BY <1>3, <2>1 DEF Wait
    <3> QED
      BY <3>1, SameRound DEF InQueue, InProcess
  <2>2. CASE ~(count > 0)
    <3>1. loop = "visit" /\ loop' = "top" /\ curTs' = curTs + Timestep /\ curTs <= ToTs
      BY <1>3, <2>2 DEF Wait, BInv, Covered
    <3>2. todo = {} /\ InQueue = {} /\ Held = {}
      BY <2>2, <3>1, RoundOver DEF Pending
    <3>3. InProcess \subseteq Held
      BY DEF InProcess, Held, Busy
    <3>4. Processed = Strategies /\ Processed' = {}
      BY <3>1, <3>2, <3>3 DEF Processed, InProcess
    <3> QED
      BY <3>1, <3>4 DEF R!RoundNext, R!NextRound
  <2> QED
    BY <2>1, <2>2
<1>4. ASSUME NEW s \in Strategies, AddJob(s) PROVE UNCHANGED <<curTs, Processed>>
  <2>1. /\ s \in todo /\ todo' = todo \ {s} /\ queue' = Append(queue, s)
        /\ UNCHANGED <<pc, job, loop, curTs>>
    BY <1>4 DEF AddJob
  <2>2. InQueue' = InQueue \cup {s}
    <3>1. /\ Len(queue') = Len(queue) + 1 /\ Len(queue) \in Nat
          /\ \A i \in 1..Len(queue) : queue'[i] = queue[i]
          /\ queue'[Len(queue) + 1] = s
      BY <1>t, <2>1, Pushed
    <3>2. /\ \A i \in 1..Len(queue') : i \in 1..Len(queue) \/ i = Len(queue) + 1
          /\ \A i \in 1..Len(queue) : i \in 1..Len(queue')
          /\ Len(queue) + 1 \in 1..Len(queue')
      BY <3>1
    <3>3. InQueue' \subseteq InQueue \cup {s}
      BY <3>1, <3>2 DEF InQueue
    <3>4. InQueue \cup {s} \subseteq InQueue'
      BY <3>1, <3>2 DEF InQueue
    <3> QED
      BY <3>3, <3>4
  <2>3. InProcess' = InProcess
    BY <2>1 DEF InProcess
  <2> QED
    BY <2>1, <2>2, <2>3, SameRound
<1>5. ASSUME NEW s \in Strategies, SkipSilent(s) PROVE R!ProcessOne(s)
  <2>1. /\ loop = "visit" /\ s \in todo /\ todo' = todo \ {s}
        /\ UNCHANGED <<queue, pc, job, loop, curTs>>
    BY <1>5 DEF SkipSilent, poolVars
  <2>2. InQueue' = InQueue /\ InProcess' = InProcess
    BY <2>1 DEF InQueue, InProcess
  <2>3. s \notin InQueue /\ s \notin InProcess
    BY <2>1 DEF BInv, OnePlace, InQueue, InProcess, Busy
  <2>4. curTs <= ToTs
    BY <2>1 DEF BInv, Covered
  <2> QED
    BY <2>1, <2>2, <2>3, <2>4, OneMore
<1> QED
  BY <1>1, <1>2, <1>3, <1>4, <1>5 DEF RunNext, R!RoundNext

\* The steps of a worker: the end of process() is the step of the round.
LEMMA PoolRounds ==
  ASSUME BInv, PoolNext
  PROVE  R!RoundNext \/ UNCHANGED <<curTs, Processed>>
<1>t. TypeOK /\ queue \in Seq(Strategies)
  BY DEF BInv, TypeOK
<1>w. PICK w \in Workers : WorkerNext(w) /\ UNCHANGED <<loopVars, appVars>>
  BY DEF PoolNext
<1>u. UNCHANGED <<loop, todo, curTs>>
  BY <1>w DEF loopVars
<1>1. CASE Loop(w)
  <2>1. queue' = queue /\ job' = job /\ pc[w] = "loop" /\ pc'[w] # "process"
        /\ \A v \in Workers \ {w} : pc'[v] = pc[v]
    BY <1>1, <1>t DEF Loop, TypeOK
  <2>2. InQueue' = InQueue /\ InProcess' = InProcess
    BY <2>1 DEF InQueue, InProcess
  <2> QED
    BY <1>u, <2>2, SameRound
<1>2. CASE NextJob(w)
  <2>1. CASE queue = <<>>
    <3>1. queue' = queue /\ job' = job /\ pc[w] = "next" /\ pc'[w] # "process"
          /\ \A v \in Workers \ {w} : pc'[v] = pc[v]
      BY <1>2, <1>t, <2>1 DEF NextJob, TypeOK
    <3>2. InQueue' = InQueue /\ InProcess' = InProcess
      BY <3>1 DEF InQueue, InProcess
    <3> QED
      BY <1>u, <3>2, SameRound
  <2>2. CASE queue # <<>>
    <3> DEFINE s == Head(queue)
    <3>1. /\ pc[w] = "next" /\ pc'[w] = "process" /\ job'[w] = s
          /\ \A v \in Workers \ {w} : pc'[v] = pc[v] /\ job'[v] = job[v]
      BY <1>2, <1>t, <2>2 DEF NextJob, TypeOK
    <3>2. queue' = Tail(queue)
      BY <1>2, <2>2 DEF NextJob
    <3>3. /\ s = queue[1] /\ 1 \in 1..Len(queue)
          /\ \A i \in 1..Len(Tail(queue)) : Tail(queue)[i] = queue[i+1] /\ i+1 \in 1..Len(queue)
          /\ \A i \in 2..Len(queue) : i-1 \in 1..Len(Tail(queue)) /\ queue[i] = Tail(queue)[i-1]
      BY <1>t, <2>2, Popped
    <3> HIDE DEF s
    <3>4. InProcess' = InProcess \cup {s}
      BY <3>1 DEF InProcess
    <3>5. InQueue = InQueue' \cup {s}
      <4>1. InQueue' \cup {s} \subseteq InQueue
        BY <3>2, <3>3 DEF InQueue
      <4>2. ASSUME NEW i \in 1..Len(queue) PROVE queue[i] \in InQueue' \cup {s}
        <5>1. CASE i = 1
          BY <5>1, <3>3
        <5>2. CASE i # 1
          <6>1. i \in 2..Len(queue)
            BY <1>t, <5>2
          <6> QED
            BY <3>2, <3>3, <6>1 DEF InQueue
        <5> QED
          BY <5>1, <5>2
      <4> QED
        BY <4>1, <4>2 DEF InQueue
    <3> QED
      BY <1>u, <3>4, <3>5, SameRound
  <2> QED
    BY <2>1, <2>2
<1>3. CASE Process(w)
  <2> DEFINE s == job[w]
  <2>1. /\ queue' = queue /\ job' = job /\ pc[w] = "process" /\ pc'[w] = "done"
        /\ \A v \in Workers \ {w} : pc'[v] = pc[v]
    BY <1>3, <1>t DEF Process, TypeOK
  <2>2. s \in Strategies
    BY <2>1 DEF BInv, JobsHeld, Busy
  <2>3. InQueue' = InQueue /\ s \notin InQueue /\ s \notin todo
    BY <2>1 DEF BInv, OnePlace, InQueue, Busy
  <2>4. InProcess' = InProcess \ {s} /\ s \in InProcess
    BY <2>1 DEF BInv, OneWorkerEach, InProcess, Busy
  <2>5. s \in Pending
    BY <2>1 DEF Pending, Held, Busy
  <2>6. loop = "visit" /\ curTs <= ToTs
    BY <2>5 DEF BInv, Covered
  <2> HIDE DEF s
  <2>7. R!ProcessOne(s)
    BY <1>u, <2>2, <2>3, <2>4, <2>6, OneMore
  <2> QED
    BY <2>2, <2>7 DEF R!RoundNext
<1>4. CASE Done(w)
  <2>1. /\ queue' = queue /\ pc[w] = "done" /\ pc'[w] = "loop"
        /\ \A v \in Workers \ {w} : pc'[v] = pc[v] /\ job'[v] = job[v]
    BY <1>4, <1>t DEF Done, TypeOK
  <2>2. InQueue' = InQueue /\ InProcess' = InProcess
    BY <2>1 DEF InQueue, InProcess
  <2> QED
    BY <1>u, <2>2, SameRound
<1> QED
  BY <1>w, <1>1, <1>2, <1>3, <1>4 DEF WorkerNext

\* The backtest of several strategies implements the rounds: "sync before
\* continue", time only advances once every strategy has been processed, once.
THEOREM RoundsImplemented == Spec => RefinesRounds
<1>1. Init => R!RoundInit
  BY DEF Init, R!RoundInit, Processed
<1>2. BInv /\ [Next]_vars => [R!RoundNext]_<<curTs, Processed>>
  <2> SUFFICES ASSUME BInv, [Next]_vars
               PROVE  R!RoundNext \/ UNCHANGED <<curTs, Processed>>
    OBVIOUS
  <2>1. CASE SpuriousWake \/ Quit \/ AppEnds \/ UNCHANGED vars
    <3>1. UNCHANGED <<queue, pc, job, loop, todo, curTs>>
      BY <2>1 DEF SpuriousWake, Quit, AppEnds, SeeCompleted, Stop, WaitFinish, Terminate,
             TerminatePool, StopWorkers, vars, poolVars, loopVars
    <3> QED
      BY <3>1, SameRound DEF InQueue, InProcess
  <2> QED
    BY <2>1, RunRounds, PoolRounds DEF Next
<1> QED
  BY <1>1, <1>2, Barrier, PTL DEF Spec, RefinesRounds, R!RoundSpec
=============================================================================
