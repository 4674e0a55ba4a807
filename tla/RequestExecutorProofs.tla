------------------------- MODULE RequestExecutorProofs -------------------------
(***************************************************************************)
(* Proofs about the request executor, for any event loops, threads, jobs   *)
(* and capacity.  They rest on where a job can be: it is queued once, or one *)
(* worker has it, exactly while it is accepted and has not ended.            *)
(***************************************************************************)
EXTENDS RequestExecutor, FiniteSetTheorems, TLAPS

\* What an accepted job is waiting for: its place in the queue, or its worker.
Placed(j) == j \in Queued \/ \E w \in Threads : job[w] = j

OnePlaceEach ==
  /\ \A a, b \in DOMAIN jobs : jobs[a] = jobs[b] => a = b
  /\ \A v, w \in Threads : job[v] # NoJob /\ job[v] = job[w] => v = w
  /\ \A w \in Threads : job[w] \notin Queued
  /\ \A j \in Jobs : fate[j] = "accepted" <=> Placed(j)

\* A worker leaves only when the queue is empty and will stay so; Stop returns
\* when all have left.
StopsInOrder ==
  /\ stopping <=> spc # "idle"
  /\ (\E w \in Threads : wpc[w] = "exited") => stopping /\ jobs = << >>
  /\ spc = "stopped" => \A w \in Threads : wpc[w] = "exited"

ExecutorInv == ExecutorTypeOK /\ OnePlaceEach /\ StopsInOrder

LEMMA ExecutorInitInv == ExecutorInit => ExecutorInv
<1> SUFFICES ASSUME ExecutorInit PROVE ExecutorInv
  OBVIOUS
<1>1. ExecutorTypeOK
  <2>1. jobs \in Seq(Jobs) /\ Len(jobs) <= QueueCapacity
    BY ExecutorAssumption DEF ExecutorInit
  <2> QED
    BY <2>1 DEF ExecutorInit, ExecutorTypeOK, Running
<1>2. OnePlaceEach
  BY ExecutorAssumption DEF ExecutorInit, OnePlaceEach, Placed, Queued
<1>3. StopsInOrder
  BY DEF ExecutorInit, StopsInOrder
<1> QED
  BY <1>1, <1>2, <1>3 DEF ExecutorInv

\* A step that leaves jobs where they are and only wakes, puts to sleep or ends
\* threads.
LEMMA ThreadsMove ==
  ASSUME ExecutorInv,
         UNCHANGED <<jobs, job, fate>>,
         lpc' \in [Loops -> Jobs \cup {NoJob}],
         wpc' \in [Threads -> {"check", "asleep", "running", "exited"}],
         \A w \in Threads : wpc'[w] = "running" <=> wpc[w] = "running",
         stopping' \in BOOLEAN, spc' \in {"idle", "notify", "joining", "stopped"},
         StopsInOrder'
  PROVE  ExecutorInv'
<1>1. ExecutorTypeOK'
  BY DEF ExecutorInv, ExecutorTypeOK, Running
<1>2. OnePlaceEach'
  BY DEF ExecutorInv, OnePlaceEach, Placed, Queued
<1> QED
  BY <1>1, <1>2 DEF ExecutorInv

\* Whoever is notified was asleep; the others stay where they are.
LEMMA WakesOne ==
  ASSUME ExecutorInv, WakeOneWorker
  PROVE  /\ wpc' \in [Threads -> {"check", "asleep", "running", "exited"}]
         /\ \A w \in Threads : wpc'[w] = wpc[w] \/ (wpc[w] = "asleep" /\ wpc'[w] = "check")
  BY DEF ExecutorInv, ExecutorTypeOK, WakeOneWorker

LEMMA SubmitKeeps ==
  ASSUME ExecutorInv, NEW l \in Loops, NEW j \in Jobs, Submit(l, j)
  PROVE  ExecutorInv'
<1>1. CASE Accepts
  <2>1. /\ jobs' = Append(jobs, j) /\ fate' = [fate EXCEPT ![j] = "accepted"]
        /\ lpc' = [lpc EXCEPT ![l] = j]
        /\ ~stopping /\ Len(jobs) < QueueCapacity /\ fate[j] = "new"
        /\ UNCHANGED <<stopping, wpc, job, spc>>
    BY <1>1 DEF Submit, Accepts
  <2>2. /\ jobs \in Seq(Jobs) /\ jobs' \in Seq(Jobs) /\ Len(jobs') = Len(jobs) + 1
        /\ Len(jobs) \in Nat /\ DOMAIN jobs = 1 .. Len(jobs)
        /\ DOMAIN jobs' = 1 .. (Len(jobs) + 1)
        /\ jobs'[Len(jobs) + 1] = j
        /\ \A k \in 1 .. Len(jobs) : jobs'[k] = jobs[k]
    BY <2>1 DEF ExecutorInv, ExecutorTypeOK
  <2>3. Queued' = Queued \cup {j}
    BY <2>2 DEF Queued
  <2>4. ~Placed(j)
    BY <2>1 DEF ExecutorInv, OnePlaceEach
  <2>5. j \notin Queued /\ \A w \in Threads : job[w] # j
    BY <2>4 DEF Placed
  <2>6. ExecutorTypeOK'
    <3>1. /\ Len(jobs') <= QueueCapacity
          /\ fate' \in [Jobs -> {"new", "refused", "accepted", "ended"}]
          /\ lpc' \in [Loops -> Jobs \cup {NoJob}]
      BY <2>1, <2>2, ExecutorAssumption DEF ExecutorInv, ExecutorTypeOK
    <3> QED
      BY <2>1, <2>2, <3>1 DEF ExecutorInv, ExecutorTypeOK, Running
  <2>7. OnePlaceEach'
    <3>1. \A a, b \in DOMAIN jobs' : jobs'[a] = jobs'[b] => a = b
      <4>1. \A a \in 1 .. Len(jobs) : jobs'[a] # j
        BY <2>2, <2>5 DEF Queued
      <4> QED
        BY <2>2, <4>1 DEF ExecutorInv, OnePlaceEach
    <3>2. \A w \in Threads : job'[w] \notin Queued'
      BY <2>1, <2>3, <2>5 DEF ExecutorInv, OnePlaceEach
    <3>3. \A i \in Jobs : Placed(i)' <=> Placed(i) \/ i = j
      BY <2>1, <2>3 DEF Placed
    <3>4. \A i \in Jobs : fate'[i] = "accepted" <=> fate[i] = "accepted" \/ i = j
      BY <2>1 DEF ExecutorInv, ExecutorTypeOK
    <3>5. \A i \in Jobs : fate'[i] = "accepted" <=> Placed(i)'
      BY <3>3, <3>4 DEF ExecutorInv, OnePlaceEach
    <3> QED
      BY <2>1, <3>1, <3>2, <3>5 DEF ExecutorInv, OnePlaceEach
  <2>8. StopsInOrder'
    BY <2>1 DEF ExecutorInv, StopsInOrder
  <2> QED
    BY <2>6, <2>7, <2>8 DEF ExecutorInv
<1>2. CASE ~Accepts
  <2>1. /\ fate' = [fate EXCEPT ![j] = "refused"] /\ fate[j] = "new"
        /\ UNCHANGED <<jobs, lpc, stopping, wpc, job, spc>>
    BY <1>2 DEF Submit
  <2>2. fate' \in [Jobs -> {"new", "refused", "accepted", "ended"}]
    BY <2>1 DEF ExecutorInv, ExecutorTypeOK
  <2>3. ExecutorTypeOK'
    BY <2>1, <2>2 DEF ExecutorInv, ExecutorTypeOK, Running
  <2>4. \A i \in Jobs : /\ fate'[i] = "accepted" <=> fate[i] = "accepted"
                        /\ Placed(i)' <=> Placed(i)
    BY <2>1 DEF ExecutorInv, ExecutorTypeOK, Placed, Queued
  <2>5. OnePlaceEach'
    BY <2>1, <2>4 DEF ExecutorInv, OnePlaceEach, Queued
  <2>6. StopsInOrder'
    BY <2>1 DEF ExecutorInv, StopsInOrder
  <2> QED
    BY <2>3, <2>5, <2>6 DEF ExecutorInv
<1> QED
  BY <1>1, <1>2

\* The job at the head of the queue leaves it for w, and nothing else moves.
LEMMA TakeKeeps ==
  ASSUME ExecutorInv, NEW w \in Threads, Take(w)
  PROVE  ExecutorInv'
<1> DEFINE first == Head(jobs)
<1>1. /\ wpc[w] = "check" /\ jobs # << >>
      /\ job' = [job EXCEPT ![w] = first] /\ jobs' = Tail(jobs)
      /\ wpc' = [wpc EXCEPT ![w] = "running"]
      /\ UNCHANGED <<stopping, lpc, fate, spc>>
  BY DEF Take
<1>2. /\ jobs \in Seq(Jobs) /\ Len(jobs) \in Nat \ {0} /\ DOMAIN jobs = 1 .. Len(jobs)
      /\ jobs' \in Seq(Jobs) /\ Len(jobs') = Len(jobs) - 1
      /\ DOMAIN jobs' = 1 .. (Len(jobs) - 1)
      /\ \A k \in 1 .. (Len(jobs) - 1) : jobs'[k] = jobs[k + 1]
      /\ first = jobs[1] /\ first \in Jobs
  BY <1>1 DEF ExecutorInv, ExecutorTypeOK
<1>3. first # NoJob /\ job[w] = NoJob
  BY <1>1, <1>2, ExecutorAssumption DEF ExecutorInv, ExecutorTypeOK, Running
<1>4. /\ job' \in [Threads -> Jobs \cup {NoJob}] /\ job'[w] = first
      /\ \A v \in Threads : v # w => job'[v] = job[v]
      /\ wpc' \in [Threads -> {"check", "asleep", "running", "exited"}]
      /\ wpc'[w] = "running"
      /\ \A v \in Threads : v # w => wpc'[v] = wpc[v]
  BY <1>1, <1>2 DEF ExecutorInv, ExecutorTypeOK
<1> HIDE DEF first
<1>5. first \notin Queued' /\ Queued = Queued' \cup {first}
  <2>1. \A k \in DOMAIN jobs' : jobs'[k] # first
    <3> SUFFICES ASSUME NEW k \in DOMAIN jobs', jobs'[k] = first PROVE FALSE
      OBVIOUS
    <3>1. k + 1 \in DOMAIN jobs /\ 1 \in DOMAIN jobs /\ jobs[k + 1] = jobs[1] /\ k + 1 # 1
      BY <1>2
    <3> QED
      BY <3>1 DEF ExecutorInv, OnePlaceEach
  <2>2. \A k \in DOMAIN jobs' : jobs'[k] \in Queued
    <3> SUFFICES ASSUME NEW k \in DOMAIN jobs' PROVE jobs'[k] \in Queued
      OBVIOUS
    <3>1. k + 1 \in DOMAIN jobs /\ jobs'[k] = jobs[k + 1]
      BY <1>2
    <3> QED
      BY <3>1 DEF Queued
  <2>3. \A k \in DOMAIN jobs : jobs[k] = first \/ jobs[k] \in Queued'
    <3> SUFFICES ASSUME NEW k \in DOMAIN jobs, k # 1 PROVE jobs[k] \in Queued'
      BY <1>2
    <3>1. k - 1 \in DOMAIN jobs' /\ jobs'[k - 1] = jobs[k]
      BY <1>2
    <3> QED
      BY <3>1 DEF Queued
  <2>4. first \in Queued
    BY <1>2 DEF Queued
  <2> QED
    BY <2>1, <2>2, <2>3, <2>4 DEF Queued
<1>6. \A v \in Threads : job[v] # first
  BY <1>5 DEF ExecutorInv, OnePlaceEach
<1>7. ExecutorTypeOK'
  <2>1. Len(jobs') <= QueueCapacity
    BY <1>2, ExecutorAssumption DEF ExecutorInv, ExecutorTypeOK
  <2>2. \A v \in Threads : Running(v)' <=> job'[v] # NoJob
    BY <1>3, <1>4 DEF ExecutorInv, ExecutorTypeOK, Running
  <2> QED
    BY <1>1, <1>2, <1>4, <2>1, <2>2 DEF ExecutorInv, ExecutorTypeOK
<1>8. OnePlaceEach'
  <2>1. \A a, b \in DOMAIN jobs' : jobs'[a] = jobs'[b] => a = b
    <3> SUFFICES ASSUME NEW a \in DOMAIN jobs', NEW b \in DOMAIN jobs', jobs'[a] = jobs'[b]
                 PROVE  a = b
      OBVIOUS
    <3>1. /\ a \in Nat /\ b \in Nat
          /\ a + 1 \in DOMAIN jobs /\ b + 1 \in DOMAIN jobs /\ jobs[a + 1] = jobs[b + 1]
      BY <1>2
    <3>2. a + 1 = b + 1
      BY <3>1 DEF ExecutorInv, OnePlaceEach
    <3> QED
      BY <3>1, <3>2
  <2>2. \A u, v \in Threads : job'[u] # NoJob /\ job'[u] = job'[v] => u = v
    BY <1>4, <1>6 DEF ExecutorInv, OnePlaceEach
  <2>3. \A v \in Threads : job'[v] \notin Queued'
    BY <1>4, <1>5 DEF ExecutorInv, OnePlaceEach
  <2>4. \A j \in Jobs : Placed(j)' <=> Placed(j)
    <3> SUFFICES ASSUME NEW j \in Jobs PROVE Placed(j)' <=> Placed(j)
      OBVIOUS
    <3>1. (\E v \in Threads : job'[v] = j) <=> j = first \/ \E v \in Threads : job[v] = j
      BY <1>3, <1>4, ExecutorAssumption
    <3> QED
      BY <1>5, <3>1 DEF Placed
  <2>5. \A j \in Jobs : fate'[j] = "accepted" <=> Placed(j)'
    BY <1>1, <2>4 DEF ExecutorInv, OnePlaceEach
  <2> QED
    BY <2>1, <2>2, <2>3, <2>5 DEF OnePlaceEach
<1>9. StopsInOrder'
  BY <1>1, <1>4 DEF ExecutorInv, StopsInOrder
<1> QED
  BY <1>7, <1>8, <1>9 DEF ExecutorInv

\* The job of w has ended, and w has none.
LEMMA EndJobKeeps ==
  ASSUME ExecutorInv, NEW w \in Threads, EndJob(w)
  PROVE  ExecutorInv'
<1>1. fate' = [fate EXCEPT ![job[w]] = "ended"]
  BY DEF EndJob
<1>2. /\ wpc[w] = "running" /\ wpc' = [wpc EXCEPT ![w] = "check"]
      /\ job' = [job EXCEPT ![w] = NoJob]
      /\ UNCHANGED <<jobs, stopping, lpc, spc>>
  BY DEF EndJob, Running
<1>3. job[w] # NoJob /\ job[w] \in Jobs
  BY <1>2 DEF ExecutorInv, ExecutorTypeOK, Running
<1>4. /\ job' \in [Threads -> Jobs \cup {NoJob}] /\ job'[w] = NoJob
      /\ \A v \in Threads : v # w => job'[v] = job[v]
      /\ wpc' \in [Threads -> {"check", "asleep", "running", "exited"}]
      /\ wpc'[w] = "check"
      /\ \A v \in Threads : v # w => wpc'[v] = wpc[v]
      /\ fate' \in [Jobs -> {"new", "refused", "accepted", "ended"}]
      /\ fate'[job[w]] = "ended"
      /\ \A j \in Jobs : j # job[w] => fate'[j] = fate[j]
  BY <1>1, <1>2, <1>3 DEF ExecutorInv, ExecutorTypeOK
<1>5. ExecutorTypeOK'
  BY <1>2, <1>4 DEF ExecutorInv, ExecutorTypeOK, Running
<1>6. Queued' = Queued
  BY <1>2 DEF Queued
<1>7. NoJob \notin Queued
  BY ExecutorAssumption DEF ExecutorInv, ExecutorTypeOK, Queued
<1>8. OnePlaceEach'
  <2>1. \A u, v \in Threads : job'[u] # NoJob /\ job'[u] = job'[v] => u = v
    BY <1>4 DEF ExecutorInv, OnePlaceEach
  <2>2. \A v \in Threads : job'[v] \notin Queued'
    BY <1>4, <1>6, <1>7 DEF ExecutorInv, OnePlaceEach
  <2>3. \A j \in Jobs : fate'[j] = "accepted" <=> Placed(j)'
    <3> SUFFICES ASSUME NEW j \in Jobs PROVE fate'[j] = "accepted" <=> Placed(j)'
      OBVIOUS
    <3>1. CASE j = job[w]
      <4>1. j \notin Queued' /\ \A v \in Threads : job'[v] # j
        BY <1>3, <1>4, <1>6, <3>1 DEF ExecutorInv, OnePlaceEach
      <4> QED
        BY <1>4, <3>1, <4>1 DEF Placed
    <3>2. CASE j # job[w]
      <4>1. (\E v \in Threads : job'[v] = j) <=> \E v \in Threads : job[v] = j
        BY <1>4, <3>2, ExecutorAssumption
      <4>2. Placed(j)' <=> Placed(j)
        BY <1>6, <4>1 DEF Placed
      <4> QED
        BY <1>4, <3>2, <4>2 DEF ExecutorInv, OnePlaceEach
    <3> QED
      BY <3>1, <3>2
  <2> QED
    BY <1>2, <2>1, <2>2, <2>3 DEF ExecutorInv, OnePlaceEach
<1>9. StopsInOrder'
  BY <1>2, <1>4 DEF ExecutorInv, StopsInOrder
<1> QED
  BY <1>5, <1>8, <1>9 DEF ExecutorInv

\* Nothing is queued when a worker rests, so one that leaves leaves nothing.
LEMMA RestKeeps ==
  ASSUME ExecutorInv, NEW w \in Threads, Rest(w)
  PROVE  ExecutorInv'
<1>1. /\ wpc[w] = "check" /\ jobs = << >>
      /\ wpc' = [wpc EXCEPT ![w] = IF stopping THEN "exited" ELSE "asleep"]
      /\ UNCHANGED <<jobs, stopping, lpc, job, fate, spc>>
  BY DEF Rest
<1>2. /\ wpc' \in [Threads -> {"check", "asleep", "running", "exited"}]
      /\ wpc'[w] = "exited" => stopping
      /\ wpc'[w] # "running"
      /\ \A v \in Threads : v # w => wpc'[v] = wpc[v]
  BY <1>1 DEF ExecutorInv, ExecutorTypeOK
<1>3. spc # "stopped"
  BY <1>1 DEF ExecutorInv, StopsInOrder
<1>4. StopsInOrder'
  BY <1>1, <1>2, <1>3 DEF ExecutorInv, StopsInOrder
<1>5. /\ lpc' \in [Loops -> Jobs \cup {NoJob}] /\ stopping' \in BOOLEAN
      /\ spc' \in {"idle", "notify", "joining", "stopped"}
  BY <1>1 DEF ExecutorInv, ExecutorTypeOK
<1> QED
  BY <1>1, <1>2, <1>4, <1>5, ThreadsMove

LEMMA WakingKeeps ==
  ASSUME ExecutorInv,
         \/ \E l \in Loops : Notify(l)
         \/ \E w \in Threads : SpuriousWakeup(w)
         \/ StopBegins \/ StopNotifies \/ StopJoins
  PROVE  ExecutorInv'
<1>0. ExecutorTypeOK /\ StopsInOrder
  BY DEF ExecutorInv
<1>1. UNCHANGED <<jobs, job, fate>>
  BY DEF Notify, SpuriousWakeup, StopBegins, StopNotifies, StopJoins
<1>2. lpc' \in [Loops -> Jobs \cup {NoJob}]
  <2>1. ASSUME NEW l \in Loops, Notify(l) PROVE lpc' \in [Loops -> Jobs \cup {NoJob}]
    BY <1>0, <2>1 DEF Notify, ExecutorTypeOK
  <2>2. ASSUME UNCHANGED lpc PROVE lpc' \in [Loops -> Jobs \cup {NoJob}]
    BY <1>0, <2>2 DEF ExecutorTypeOK
  <2> QED
    BY <2>1, <2>2 DEF SpuriousWakeup, StopBegins, StopNotifies, StopJoins
<1>3. /\ wpc' \in [Threads -> {"check", "asleep", "running", "exited"}]
      /\ \A w \in Threads : wpc'[w] = wpc[w] \/ (wpc[w] = "asleep" /\ wpc'[w] = "check")
  <2>1. ASSUME NEW l \in Loops, Notify(l) PROVE <1>3!1 /\ <1>3!2
    BY <2>1, WakesOne DEF Notify
  <2>2. ASSUME NEW v \in Threads, SpuriousWakeup(v) PROVE <1>3!1 /\ <1>3!2
    BY <1>0, <2>2 DEF SpuriousWakeup, ExecutorTypeOK
  <2>3. ASSUME StopNotifies PROVE <1>3!1 /\ <1>3!2
    BY <1>0, <2>3 DEF StopNotifies, ExecutorTypeOK
  <2>4. ASSUME UNCHANGED wpc PROVE <1>3!1 /\ <1>3!2
    BY <1>0, <2>4 DEF ExecutorTypeOK
  <2> QED
    BY <2>1, <2>2, <2>3, <2>4 DEF StopBegins, StopJoins
<1>4. /\ stopping' \in BOOLEAN /\ spc' \in {"idle", "notify", "joining", "stopped"}
      /\ stopping => stopping'
      /\ stopping' <=> spc' # "idle"
      /\ spc' = "stopped" => \A w \in Threads : wpc'[w] = "exited"
  <2>1. CASE UNCHANGED <<stopping, spc>>
    <3>1. spc = "stopped" => \A w \in Threads : wpc'[w] = "exited"
      BY <1>0, <1>3 DEF StopsInOrder
    <3> QED
      BY <1>0, <2>1, <3>1 DEF ExecutorTypeOK, StopsInOrder
  <2>2. CASE StopBegins
    BY <1>0, <2>2 DEF StopBegins, StopsInOrder
  <2>3. CASE StopNotifies
    BY <1>0, <2>3 DEF StopNotifies, StopsInOrder, ExecutorTypeOK
  <2>4. CASE StopJoins
    BY <1>0, <2>4 DEF StopJoins, StopsInOrder, ExecutorTypeOK
  <2> QED
    BY <2>1, <2>2, <2>3, <2>4 DEF Notify, SpuriousWakeup
<1>5. StopsInOrder'
  BY <1>0, <1>1, <1>3, <1>4 DEF StopsInOrder
<1> QED
  BY <1>1, <1>2, <1>3, <1>4, <1>5, ThreadsMove

LEMMA ExecutorNextInv == ExecutorInv /\ [ExecutorNext]_executorVars => ExecutorInv'
<1> SUFFICES ASSUME ExecutorInv, [ExecutorNext]_executorVars PROVE ExecutorInv'
  OBVIOUS
<1>1. CASE UNCHANGED executorVars
  BY <1>1 DEF executorVars, ExecutorInv, ExecutorTypeOK, Running, OnePlaceEach, Placed, Queued,
              StopsInOrder
<1>2. CASE ExecutorNext
  BY <1>2, SubmitKeeps, TakeKeeps, EndJobKeeps, RestKeeps, WakingKeeps
  DEF ExecutorNext, Worker, Stopper
<1> QED
  BY <1>1, <1>2

LEMMA ExecutorInvariant == ExecutorSpec => []ExecutorInv
<1> QED
  BY ExecutorInitInv, ExecutorNextInv, PTL DEF ExecutorSpec

\* The executor's queue, workers and jobs have their types, and the queue never
\* exceeds queue_capacity_.
THEOREM ExecutorTypeCorrect == ExecutorSpec => []ExecutorTypeOK
<1>1. ExecutorInv => ExecutorTypeOK
  BY DEF ExecutorInv
<1> QED
  BY <1>1, ExecutorInvariant, PTL

LEMMA InvServesAccepted == ExecutorInv => AcceptedIsServed
<1> SUFFICES ASSUME ExecutorInv, NEW j \in Jobs
             PROVE  LET runners == {w \in Threads : job[w] = j}
                    IN  /\ Cardinality(runners) <= 1
                        /\ fate[j] = "accepted" <=> j \in Queued \/ runners # {}
                        /\ ~(j \in Queued /\ runners # {})
  BY DEF AcceptedIsServed
<1> DEFINE runners == {w \in Threads : job[w] = j}
<1>1. Cardinality(runners) <= 1
  <2>1. CASE runners = {}
    BY <2>1, FS_EmptySet
  <2>2. CASE runners # {}
    <3>1. PICK w \in runners : TRUE
      BY <2>2
    <3>2. \A v \in runners : v = w
      BY <3>1, ExecutorAssumption DEF ExecutorInv, OnePlaceEach
    <3>3. runners = {w}
      BY <3>1, <3>2
    <3> QED
      BY <3>3, FS_Singleton
  <2> QED
    BY <2>1, <2>2
<1>2. fate[j] = "accepted" <=> j \in Queued \/ runners # {}
  BY DEF ExecutorInv, OnePlaceEach, Placed
<1>3. ~(j \in Queued /\ runners # {})
  BY DEF ExecutorInv, OnePlaceEach
<1> QED
  BY <1>1, <1>2, <1>3

\* Neither an exception nor a full queue nor Stop makes the executor lose an
\* accepted job, and no job is run by two workers or twice.
THEOREM ServedCorrect == ExecutorSpec => []AcceptedIsServed
<1> QED
  BY InvServesAccepted, ExecutorInvariant, PTL
=============================================================================
