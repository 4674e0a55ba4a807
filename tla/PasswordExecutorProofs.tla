----------------------- MODULE PasswordExecutorProofs -----------------------
(***************************************************************************)
(* Proofs about PasswordExecutor, for any callers, workers and queue       *)
(* depth: the answer of Run tells what became of its work, every job is at *)
(* exactly one place, and no notification is lost.                         *)
(*                                                                         *)
(* The invariant behind the first two: how often a job's work was invoked  *)
(* follows from the place the job is at.  The third counts notifications.  *)
(***************************************************************************)
EXTENDS PasswordExecutor, FiniteSetTheorems, TLAPS

-----------------------------------------------------------------------------
(* Sequences without repetitions. *)

Unique(s) == \A j, k \in DOMAIN s : s[j] = s[k] => j = k
Elements(s) == {s[k] : k \in DOMAIN s}

LEMMA UniqueAppend ==
  ASSUME NEW S, NEW s \in Seq(S), Unique(s), NEW x \in S, x \notin Elements(s)
  PROVE  /\ Append(s, x) \in Seq(S)
         /\ Len(Append(s, x)) = Len(s) + 1
         /\ Unique(Append(s, x))
         /\ Elements(Append(s, x)) = Elements(s) \cup {x}
<1> DEFINE t == Append(s, x)
<1>1. /\ t \in Seq(S)
      /\ Len(t) = Len(s) + 1
      /\ Len(s) \in Nat
      /\ DOMAIN s = 1 .. Len(s)
      /\ DOMAIN t = 1 .. Len(s) + 1
      /\ \A k \in 1 .. Len(s) : t[k] = s[k]
      /\ t[Len(s) + 1] = x
  OBVIOUS
<1> HIDE DEF t
<1>2. Unique(t)
  BY <1>1 DEF Unique, Elements
<1>3. \A y : y \in Elements(t) <=> y \in Elements(s) \cup {x}
  BY <1>1 DEF Elements
<1> QED
  BY <1>1, <1>2, <1>3 DEF t

LEMMA UniqueTail ==
  ASSUME NEW S, NEW s \in Seq(S), Unique(s), s # << >>
  PROVE  /\ Tail(s) \in Seq(S)
         /\ Len(Tail(s)) = Len(s) - 1
         /\ Unique(Tail(s))
         /\ Head(s) \in S
         /\ Head(s) \in Elements(s)
         /\ Elements(Tail(s)) = Elements(s) \ {Head(s)}
<1> DEFINE t == Tail(s)
<1>1. /\ t \in Seq(S)
      /\ Len(s) \in Nat /\ Len(s) > 0
      /\ Len(t) = Len(s) - 1
      /\ DOMAIN s = 1 .. Len(s)
      /\ DOMAIN t = 1 .. Len(s) - 1
      /\ \A k \in 1 .. Len(s) - 1 : t[k] = s[k + 1]
      /\ Head(s) = s[1]
      /\ Head(s) \in S
  OBVIOUS
<1> HIDE DEF t
<1>2. Unique(t)
  BY <1>1 DEF Unique
<1>3. ASSUME NEW y, y \in Elements(s), y # Head(s)
      PROVE  y \in Elements(t)
  <2>1. PICK k \in 1 .. Len(s) : s[k] = y
    BY <1>1, <1>3 DEF Elements
  <2>2. k - 1 \in 1 .. Len(s) - 1 /\ t[k - 1] = y
    BY <1>1, <1>3, <2>1
  <2> QED
    BY <1>1, <2>2 DEF Elements
<1>4. \A y \in Elements(t) : y \in Elements(s) /\ y # Head(s)
  BY <1>1 DEF Elements, Unique
<1> QED
  BY <1>1, <1>2, <1>3, <1>4 DEF t, Elements

LEMMA Concatenation ==
  ASSUME NEW S, NEW a \in Seq(S), NEW b \in Seq(S)
  PROVE  /\ a \o b \in Seq(S)
         /\ Len(a \o b) = Len(a) + Len(b)
         /\ \A k \in 1 .. Len(a) + Len(b) :
              (a \o b)[k] = IF k <= Len(a) THEN a[k] ELSE b[k - Len(a)]
  OBVIOUS

LEMMA UniqueRemove ==
  ASSUME NEW S, NEW s \in Seq(S), Unique(s), NEW i \in DOMAIN s
  PROVE  /\ RemoveAt(s, i) \in Seq(S)
         /\ Len(RemoveAt(s, i)) = Len(s) - 1
         /\ Unique(RemoveAt(s, i))
         /\ Elements(RemoveAt(s, i)) = Elements(s) \ {s[i]}
<1> DEFINE t == RemoveAt(s, i)
<1>1. /\ Len(s) \in Nat /\ i \in 1 .. Len(s)
      /\ DOMAIN s = 1 .. Len(s)
  OBVIOUS
<1>2. /\ SubSeq(s, 1, i - 1) \in Seq(S)
      /\ Len(SubSeq(s, 1, i - 1)) = i - 1
      /\ \A k \in 1 .. i - 1 : SubSeq(s, 1, i - 1)[k] = s[k]
  BY <1>1
<1>3. /\ SubSeq(s, i + 1, Len(s)) \in Seq(S)
      /\ Len(SubSeq(s, i + 1, Len(s))) = Len(s) - i
      /\ \A k \in 1 .. Len(s) - i : SubSeq(s, i + 1, Len(s))[k] = s[i + k]
  BY <1>1
<1> DEFINE a == SubSeq(s, 1, i - 1)
           b == SubSeq(s, i + 1, Len(s))
<1>4. /\ t \in Seq(S)
      /\ Len(t) = Len(s) - 1
      /\ DOMAIN t = 1 .. Len(s) - 1
      /\ \A k \in 1 .. Len(s) - 1 : t[k] = IF k < i THEN s[k] ELSE s[k + 1]
  <2>1. /\ a \in Seq(S) /\ Len(a) = i - 1
        /\ b \in Seq(S) /\ Len(b) = Len(s) - i
        /\ \A k \in 1 .. i - 1 : a[k] = s[k]
        /\ \A k \in 1 .. Len(s) - i : b[k] = s[i + k]
    BY <1>2, <1>3
  <2>2. t = a \o b
    BY DEF RemoveAt
  <2> HIDE DEF a, b, t
  <2>3. t \in Seq(S) /\ Len(t) = Len(a) + Len(b)
    BY <2>1, <2>2, Concatenation
  <2>4. \A k \in 1 .. Len(a) + Len(b) :
           t[k] = IF k <= Len(a) THEN a[k] ELSE b[k - Len(a)]
    BY <2>1, <2>2, Concatenation
  <2>5. Len(t) = Len(s) - 1 /\ DOMAIN t = 1 .. Len(s) - 1
    BY <1>1, <2>1, <2>3
  <2>6. ASSUME NEW k \in 1 .. Len(s) - 1
        PROVE  t[k] = IF k < i THEN s[k] ELSE s[k + 1]
    <3>1. CASE k < i
      BY <1>1, <2>1, <2>4, <3>1
    <3>2. CASE ~(k < i)
      <4>1. k \in 1 .. Len(a) + Len(b) /\ ~(k <= Len(a))
        BY <1>1, <2>1, <3>2
      <4>2. t[k] = b[k - (i - 1)]
        BY <2>1, <2>4, <4>1
      <4>3. k - (i - 1) \in 1 .. Len(s) - i /\ i + (k - (i - 1)) = k + 1
        BY <1>1, <3>2
      <4> QED
        BY <2>1, <3>2, <4>2, <4>3
    <3> QED
      BY <3>1, <3>2
  <2> QED
    BY <2>3, <2>5, <2>6
<1> HIDE DEF t
<1>5. Unique(t)
  <2> SUFFICES ASSUME NEW j \in 1 .. Len(s) - 1, NEW k \in 1 .. Len(s) - 1, t[j] = t[k]
               PROVE  j = k
    BY <1>4 DEF Unique
  <2> DEFINE up(n) == IF n < i THEN n ELSE n + 1
  <2>1. up(j) \in 1 .. Len(s) /\ up(k) \in 1 .. Len(s)
    BY <1>1
  <2>2. s[up(j)] = s[up(k)]
    BY <1>4
  <2>3. up(j) = up(k)
    <3> HIDE DEF up
    <3> QED
      BY <1>1, <2>1, <2>2 DEF Unique
  <2> QED
    BY <1>1, <2>3
<1>6. ASSUME NEW y, y \in Elements(s), y # s[i]
      PROVE  y \in Elements(t)
  <2>1. PICK k \in 1 .. Len(s) : s[k] = y
    BY <1>1, <1>6 DEF Elements
  <2>2. CASE k < i
    BY <1>1, <1>4, <2>1, <2>2 DEF Elements
  <2>3. CASE k > i
    <3>1. k - 1 \in 1 .. Len(s) - 1 /\ t[k - 1] = y
      BY <1>1, <1>4, <2>1, <2>3
    <3> QED
      BY <1>4, <3>1 DEF Elements
  <2> QED
    BY <1>1, <1>6, <2>1, <2>2, <2>3
<1>7. \A y \in Elements(t) : y \in Elements(s) /\ y # s[i]
  BY <1>1, <1>4 DEF Elements, Unique
<1> QED
  BY <1>4, <1>5, <1>6, <1>7 DEF t, Elements
-----------------------------------------------------------------------------
(* The inductive invariant. *)

WorkerStates == {"check", "asleep", "claimed", "invoked", "notify", "exited"}
CallerStates == {"idle", "pushed", "check", "asleep", "lastcheck", "lastsleep"}
BusyStates == {"claimed", "invoked"}

Types ==
  /\ queue \in Seq(Callers)
  /\ cpc \in [Callers -> CallerStates]
  /\ done \in [Callers -> BOOLEAN]
  /\ result \in [Callers -> {"none", "true", "false"}]
  /\ runs \in [Callers -> Nat]
  /\ wpc \in [Workers -> WorkerStates]
  /\ job \in [Workers -> Callers \cup {NoJob}]

\* A queued job was never invoked, and its caller is in Run.
QueuedJobs ==
  /\ Unique(queue)
  /\ \A c \in Queued : cpc[c] # "idle" /\ ~done[c] /\ runs[c] = 0

\* A claimed job has left the queue, has one worker, and its caller is in Run.
ClaimedJobs ==
  \A w \in Workers : wpc[w] \in BusyStates =>
    /\ job[w] \in Callers
    /\ job[w] \notin Queued
    /\ cpc[job[w]] # "idle"
    /\ ~done[job[w]]
    /\ runs[job[w]] = IF wpc[w] = "claimed" THEN 0 ELSE 1
    /\ \A v \in Workers : wpc[v] \in BusyStates /\ job[v] = job[w] => v = w

\* The job of a caller in Run is somewhere, and was run once when it is done.
PlacedJobs ==
  \A c \in Callers : cpc[c] # "idle" =>
    /\ \/ c \in Queued
       \/ done[c]
       \/ \E w \in Workers : wpc[w] \in BusyStates /\ job[w] = c
    /\ done[c] => runs[c] = 1

\* What the last Run answered.
Answers ==
  \A c \in Callers : cpc[c] = "idle" =>
    /\ result[c] = "false" => runs[c] = 0
    /\ result[c] = "true" => runs[c] = 1

PoolInv == Types /\ QueuedJobs /\ ClaimedJobs /\ PlacedJobs /\ Answers

LEMMA QueuedIsElements == Queued = Elements(queue)
  BY DEF Queued, Elements

LEMMA PoolInit == Init => PoolInv
<1> SUFFICES ASSUME Init PROVE PoolInv
  OBVIOUS
<1>1. Queued = {}
  BY DEF Init, Queued
<1>2. Types
  BY DEF Init, Types, WorkerStates, CallerStates
<1>3. QueuedJobs
  BY <1>1 DEF Init, QueuedJobs, Unique
<1> QED
  BY <1>1, <1>2, <1>3 DEF Init, PoolInv, ClaimedJobs, PlacedJobs, Answers, BusyStates

\* Steps that move callers and workers between places where they wait, and
\* leave every job where it is.
LEMMA PoolWaiting ==
  ASSUME PoolInv,
         UNCHANGED <<queue, done, result, runs, job>>,
         cpc' \in [Callers -> CallerStates],
         wpc' \in [Workers -> WorkerStates],
         \A c \in Callers : cpc'[c] = "idle" <=> cpc[c] = "idle",
         \A w \in Workers : \/ wpc'[w] = wpc[w]
                            \/ wpc[w] \notin BusyStates /\ wpc'[w] \notin BusyStates
  PROVE  PoolInv'
<1>1. Queued' = Queued
  BY DEF Queued
<1>2. \A c \in Queued : c \in Callers
  BY DEF Queued, PoolInv, Types
<1>3. Types'
  BY DEF PoolInv, Types
<1>4. QueuedJobs'
  BY <1>1, <1>2 DEF PoolInv, QueuedJobs, Unique
<1>5. \A w \in Workers :
        /\ wpc'[w] \in BusyStates <=> wpc[w] \in BusyStates
        /\ wpc[w] \in BusyStates => wpc'[w] = wpc[w]
  OBVIOUS
<1>6. ClaimedJobs'
  BY <1>1, <1>5 DEF PoolInv, ClaimedJobs
<1>7. PlacedJobs'
  BY <1>1, <1>5 DEF PoolInv, PlacedJobs
<1>8. Answers'
  BY DEF PoolInv, Answers
<1> QED
  BY <1>3, <1>4, <1>6, <1>7, <1>8 DEF PoolInv

\* Steps by which c returns from Run with an answer that is true of its job.
LEMMA PoolReturn ==
  ASSUME PoolInv, NEW c \in Callers, NEW answer \in {"true", "false"},
         Return(c, answer),
         UNCHANGED <<done, runs, wpc, job>>,
         queue' \in Seq(Callers), Unique(queue)', Queued' = Queued \ {c},
         \A w \in Workers : wpc[w] \in BusyStates => job[w] # c,
         runs[c] = IF answer = "true" THEN 1 ELSE 0
  PROVE  PoolInv'
<1>1. \A d \in Queued : d \in Callers
  BY DEF Queued, PoolInv, Types
<1>2. Types'
  BY DEF PoolInv, Types, Return, CallerStates
<1>3. /\ cpc'[c] = "idle" /\ result'[c] = answer
      /\ \A d \in Callers : d # c => cpc'[d] = cpc[d] /\ result'[d] = result[d]
  BY DEF PoolInv, Types, Return
<1>4. QueuedJobs'
  BY <1>1, <1>3 DEF PoolInv, QueuedJobs
<1>5. ClaimedJobs'
  BY <1>3 DEF PoolInv, ClaimedJobs
<1>6. PlacedJobs'
  BY <1>3 DEF PoolInv, PlacedJobs
<1>7. Answers'
  BY <1>3 DEF PoolInv, Answers
<1> QED
  BY <1>2, <1>4, <1>5, <1>6, <1>7 DEF PoolInv

LEMMA PoolPush ==
  ASSUME PoolInv, NEW c \in Callers, Push(c)
  PROVE  PoolInv'
<1>1. /\ c \notin Queued /\ cpc[c] = "idle"
      /\ \A d \in Queued : d \in Callers
      /\ \A w \in Workers : wpc[w] \in BusyStates => job[w] # c
  BY DEF Push, PoolInv, QueuedJobs, ClaimedJobs, Types, Queued
<1>2. /\ done'[c] = FALSE /\ runs'[c] = 0
      /\ \A d \in Callers : d # c => done'[d] = done[d] /\ runs'[d] = runs[d]
      /\ done' \in [Callers -> BOOLEAN] /\ runs' \in [Callers -> Nat]
      /\ UNCHANGED <<wpc, job>>
  BY DEF Push, PoolInv, Types, workerVars
<1>3. CASE stopping \/ Len(queue) >= QueueDepth
  <2>1. Return(c, "false") /\ UNCHANGED queue /\ Queued' = Queued
    BY <1>3 DEF Push, Queued
  <2>2. /\ cpc'[c] = "idle" /\ result'[c] = "false"
        /\ \A d \in Callers : d # c => cpc'[d] = cpc[d] /\ result'[d] = result[d]
    BY <2>1 DEF Return, PoolInv, Types
  <2>3. Types'
    BY <1>2, <2>1 DEF PoolInv, Types, Return, CallerStates
  <2>4. QueuedJobs' /\ ClaimedJobs'
    BY <1>1, <1>2, <2>1, <2>2 DEF PoolInv, QueuedJobs, ClaimedJobs, Unique
  <2>5. PlacedJobs' /\ Answers'
    BY <1>1, <1>2, <2>1, <2>2 DEF PoolInv, PlacedJobs, Answers
  <2> QED
    BY <2>3, <2>4, <2>5 DEF PoolInv
<1>4. CASE ~(stopping \/ Len(queue) >= QueueDepth)
  <2>1. /\ queue' = Append(queue, c)
        /\ cpc' = [cpc EXCEPT ![c] = "pushed"]
        /\ result' = [result EXCEPT ![c] = "none"]
    BY <1>4 DEF Push
  <2>2. queue' \in Seq(Callers) /\ Unique(queue)' /\ Queued' = Queued \cup {c}
    <3>1. queue \in Seq(Callers) /\ Unique(queue) /\ c \notin Elements(queue)
      BY <1>1, QueuedIsElements DEF PoolInv, Types, QueuedJobs
    <3>2. /\ Append(queue, c) \in Seq(Callers)
          /\ Unique(Append(queue, c))
          /\ Elements(Append(queue, c)) = Elements(queue) \cup {c}
      BY <3>1, UniqueAppend
    <3>3. Queued' = Elements(queue')
      BY DEF Queued, Elements
    <3> QED
      BY <2>1, <3>2, <3>3, QueuedIsElements DEF Unique
  <2>3. /\ cpc'[c] = "pushed" /\ result'[c] = "none"
        /\ \A d \in Callers : d # c => cpc'[d] = cpc[d] /\ result'[d] = result[d]
    BY <2>1 DEF PoolInv, Types
  <2>4. Types'
    BY <1>2, <2>1, <2>2 DEF PoolInv, Types, CallerStates
  <2>5. QueuedJobs'
    BY <1>1, <1>2, <2>2, <2>3 DEF PoolInv, QueuedJobs
  <2>6. ClaimedJobs'
    BY <1>1, <1>2, <2>2, <2>3 DEF PoolInv, ClaimedJobs
  <2>7. PlacedJobs' /\ Answers'
    BY <1>1, <1>2, <2>2, <2>3 DEF PoolInv, PlacedJobs, Answers
  <2> QED
    BY <2>4, <2>5, <2>6, <2>7 DEF PoolInv
<1> QED
  BY <1>3, <1>4

\* A job that is done is neither queued nor claimed and ran once.
LEMMA DoneRanOnce ==
  ASSUME PoolInv, NEW c \in Callers, cpc[c] # "idle", done[c]
  PROVE  /\ runs[c] = 1
         /\ c \notin Queued
         /\ \A w \in Workers : wpc[w] \in BusyStates => job[w] # c
  BY DEF PoolInv, PlacedJobs, QueuedJobs, ClaimedJobs

LEMMA PoolCheckDone ==
  ASSUME PoolInv, NEW c \in Callers, CheckDone(c)
  PROVE  PoolInv'
<1>1. Queued' = Queued /\ UNCHANGED <<queue, done, runs, wpc, job>> /\ cpc[c] # "idle"
  BY DEF CheckDone, Queued, workerVars
<1>2. CASE done[c]
  <2>1. Return(c, "true")
    BY <1>2 DEF CheckDone
  <2>2. queue' \in Seq(Callers) /\ Unique(queue)'
    BY <1>1 DEF PoolInv, Types, QueuedJobs, Unique
  <2> QED
    BY <1>1, <1>2, <2>1, <2>2, DoneRanOnce, PoolReturn
<1>3. CASE ~done[c]
  <2>1. cpc' \in [Callers -> CallerStates] /\ UNCHANGED result
    BY <1>3 DEF CheckDone, PoolInv, Types, CallerStates
  <2>2. \A d \in Callers : cpc'[d] = "idle" <=> cpc[d] = "idle"
    BY <1>3 DEF CheckDone, PoolInv, Types
  <2>3. wpc' \in [Workers -> WorkerStates]
    BY <1>1 DEF PoolInv, Types
  <2> QED
    BY <1>1, <2>1, <2>2, <2>3, PoolWaiting
<1> QED
  BY <1>2, <1>3

LEMMA PoolTimeOut ==
  ASSUME PoolInv, NEW c \in Callers, TimeOut(c)
  PROVE  PoolInv'
<1>1. UNCHANGED <<done, runs, wpc, job>> /\ cpc[c] = "asleep"
  BY DEF TimeOut, workerVars
<1>2. CASE done[c]
  <2>1. Return(c, "true") /\ UNCHANGED queue /\ Queued' = Queued
    BY <1>2 DEF TimeOut, Queued
  <2>2. queue' \in Seq(Callers) /\ Unique(queue)'
    BY <2>1 DEF PoolInv, Types, QueuedJobs, Unique
  <2>3. /\ runs[c] = 1 /\ Queued' = Queued \ {c}
        /\ \A w \in Workers : wpc[w] \in BusyStates => job[w] # c
    BY <1>1, <1>2, <2>1, DoneRanOnce
  <2> QED
    BY <1>1, <2>1, <2>2, <2>3, PoolReturn
<1>3. CASE ~done[c] /\ c \in Queued
  <2>1. Return(c, "false") /\ \E k \in DOMAIN queue : queue[k] = c /\ queue' = RemoveAt(queue, k)
    BY <1>3 DEF TimeOut
  <2>2. PICK k \in DOMAIN queue : queue[k] = c /\ queue' = RemoveAt(queue, k)
    BY <2>1
  <2>3. queue \in Seq(Callers) /\ Unique(queue)
    BY DEF PoolInv, Types, QueuedJobs
  <2>4. queue' \in Seq(Callers) /\ Unique(queue') /\ Elements(queue') = Elements(queue) \ {c}
    BY <2>2, <2>3, UniqueRemove
  <2>5. Unique(queue)' /\ Queued' = Queued \ {c}
    BY <2>4 DEF Unique, Queued, Elements
  <2>6. runs[c] = 0 /\ \A w \in Workers : wpc[w] \in BusyStates => job[w] # c
    BY <1>3 DEF PoolInv, QueuedJobs, ClaimedJobs
  <2> QED
    BY <1>1, <2>1, <2>4, <2>5, <2>6, PoolReturn
<1>4. CASE ~done[c] /\ c \notin Queued
  <2>1. cpc' = [cpc EXCEPT ![c] = "lastsleep"] /\ UNCHANGED <<queue, result>>
    BY <1>4 DEF TimeOut
  <2>2. /\ cpc' \in [Callers -> CallerStates]
        /\ \A d \in Callers : cpc'[d] = "idle" <=> cpc[d] = "idle"
    BY <1>1, <2>1 DEF PoolInv, Types, CallerStates
  <2>3. wpc' \in [Workers -> WorkerStates]
    BY <1>1 DEF PoolInv, Types
  <2> QED
    BY <1>1, <2>1, <2>2, <2>3, PoolWaiting
<1> QED
  BY <1>2, <1>3, <1>4

LEMMA PoolClaim ==
  ASSUME PoolInv, NEW w \in Workers, Claim(w)
  PROVE  PoolInv'
<1>1. UNCHANGED <<cpc, done, result, runs>> /\ wpc[w] = "check" /\ wpc[w] \notin BusyStates
  BY DEF Claim, callerVars, BusyStates
<1>2. CASE queue # << >>
  <2> DEFINE c == Head(queue)
  <2>1. /\ job' = [job EXCEPT ![w] = c]
        /\ queue' = Tail(queue)
        /\ wpc' = [wpc EXCEPT ![w] = "claimed"]
    BY <1>2 DEF Claim
  <2>2. queue \in Seq(Callers) /\ Unique(queue)
    BY DEF PoolInv, Types, QueuedJobs
  <2>3. /\ Tail(queue) \in Seq(Callers)
        /\ Unique(Tail(queue))
        /\ c \in Callers
        /\ c \in Elements(queue)
        /\ Elements(Tail(queue)) = Elements(queue) \ {c}
    BY <1>2, <2>2, UniqueTail
  <2>4. /\ queue' \in Seq(Callers) /\ Unique(queue)'
        /\ c \in Queued /\ Queued' = Queued \ {c}
    BY <2>1, <2>3 DEF Unique, Queued, Elements
  <2> HIDE DEF c
  <2>5. /\ wpc'[w] = "claimed" /\ job'[w] = c
        /\ \A v \in Workers : v # w => wpc'[v] = wpc[v] /\ job'[v] = job[v]
    BY <2>1 DEF PoolInv, Types
  <2>6. Types'
    BY <1>1, <2>1, <2>3, <2>4 DEF PoolInv, Types, WorkerStates
  <2>7. QueuedJobs'
    BY <1>1, <2>4 DEF PoolInv, QueuedJobs
  <2>8. ClaimedJobs'
    <3>1. /\ cpc[c] # "idle" /\ ~done[c] /\ runs[c] = 0
          /\ \A v \in Workers : wpc[v] \in BusyStates => job[v] # c
      BY <2>4 DEF PoolInv, QueuedJobs, ClaimedJobs
    <3> QED
      BY <1>1, <2>3, <2>4, <2>5, <3>1 DEF PoolInv, ClaimedJobs
  <2>9. PlacedJobs' /\ Answers'
    BY <1>1, <2>4, <2>5 DEF PoolInv, PlacedJobs, Answers, BusyStates
  <2> QED
    BY <2>6, <2>7, <2>8, <2>9 DEF PoolInv
<1>3. CASE queue = << >>
  <2>1. /\ wpc' = [wpc EXCEPT ![w] = IF stopping THEN "exited" ELSE "asleep"]
        /\ UNCHANGED <<queue, job>>
    BY <1>3 DEF Claim
  <2>2. /\ wpc' \in [Workers -> WorkerStates]
        /\ \A v \in Workers : \/ wpc'[v] = wpc[v]
                              \/ wpc[v] \notin BusyStates /\ wpc'[v] \notin BusyStates
    BY <1>1, <2>1 DEF PoolInv, Types, WorkerStates, BusyStates
  <2>3. cpc' \in [Callers -> CallerStates]
    BY <1>1 DEF PoolInv, Types
  <2> QED
    BY <1>1, <2>1, <2>2, <2>3, PoolWaiting
<1> QED
  BY <1>2, <1>3

LEMMA PoolInvoke ==
  ASSUME PoolInv, NEW w \in Workers, Invoke(w)
  PROVE  PoolInv'
<1> DEFINE c == job[w]
<1>1. /\ UNCHANGED <<queue, cpc, done, result, job>> /\ Queued' = Queued
      /\ wpc[w] = "claimed" /\ wpc[w] \in BusyStates
      /\ wpc' = [wpc EXCEPT ![w] = "invoked"]
      /\ runs' = [runs EXCEPT ![c] = @ + 1]
  BY DEF Invoke, BusyStates, Queued
<1>2. /\ c \in Callers /\ c \notin Queued /\ cpc[c] # "idle" /\ ~done[c] /\ runs[c] = 0
      /\ \A v \in Workers : wpc[v] \in BusyStates /\ job[v] = c => v = w
  BY <1>1 DEF PoolInv, ClaimedJobs
<1> HIDE DEF c
<1>3. /\ wpc'[w] = "invoked"
      /\ \A v \in Workers : v # w => wpc'[v] = wpc[v]
      /\ runs'[c] = 1
      /\ \A d \in Callers : d # c => runs'[d] = runs[d]
      /\ \A v \in Workers : wpc'[v] \in BusyStates <=> wpc[v] \in BusyStates
  BY <1>1, <1>2 DEF PoolInv, Types, BusyStates
<1>4. Types'
  BY <1>1, <1>2 DEF PoolInv, Types, WorkerStates
<1>5. QueuedJobs'
  <2>1. \A d \in Queued : d \in Callers /\ d # c
    BY <1>2 DEF PoolInv, Types, Queued
  <2> QED
    BY <1>1, <1>3, <2>1 DEF PoolInv, QueuedJobs, Unique
<1>6. ClaimedJobs'
  <2> SUFFICES ASSUME NEW v \in Workers, wpc'[v] \in BusyStates
               PROVE  /\ job[v] \in Callers /\ job[v] \notin Queued
                      /\ cpc[job[v]] # "idle" /\ ~done[job[v]]
                      /\ runs'[job[v]] = IF wpc'[v] = "claimed" THEN 0 ELSE 1
                      /\ \A u \in Workers : wpc'[u] \in BusyStates /\ job[u] = job[v] => u = v
    BY <1>1 DEF ClaimedJobs
  <2>1. CASE v = w
    BY <1>1, <1>2, <1>3, <2>1 DEF c
  <2>2. CASE v # w
    <3>1. job[v] # c
      BY <1>2, <1>3, <2>2
    <3> QED
      BY <1>3, <2>2, <3>1 DEF PoolInv, ClaimedJobs
  <2> QED
    BY <2>1, <2>2
<1>7. PlacedJobs' /\ Answers'
  BY <1>1, <1>2, <1>3 DEF PoolInv, PlacedJobs, Answers
<1> QED
  BY <1>4, <1>5, <1>6, <1>7 DEF PoolInv

LEMMA PoolComplete ==
  ASSUME PoolInv, NEW w \in Workers, Complete(w)
  PROVE  PoolInv'
<1> DEFINE c == job[w]
<1>1. /\ UNCHANGED <<queue, cpc, result, runs, job>> /\ Queued' = Queued
      /\ wpc[w] = "invoked" /\ wpc[w] \in BusyStates
      /\ wpc' = [wpc EXCEPT ![w] = "notify"]
      /\ done' = [done EXCEPT ![c] = TRUE]
  BY DEF Complete, BusyStates, Queued
<1>2. /\ c \in Callers /\ c \notin Queued /\ cpc[c] # "idle" /\ runs[c] = 1
      /\ \A v \in Workers : wpc[v] \in BusyStates /\ job[v] = c => v = w
  BY <1>1 DEF PoolInv, ClaimedJobs
<1> HIDE DEF c
<1>3. /\ wpc'[w] \notin BusyStates
      /\ \A v \in Workers : v # w => wpc'[v] = wpc[v]
      /\ done'[c] = TRUE
      /\ \A d \in Callers : d # c => done'[d] = done[d]
  BY <1>1, <1>2 DEF PoolInv, Types, BusyStates
<1>4. Types'
  BY <1>1, <1>2 DEF PoolInv, Types, WorkerStates
<1>5. QueuedJobs'
  <2>1. \A d \in Queued : d \in Callers /\ d # c
    BY <1>2 DEF PoolInv, Types, Queued
  <2> QED
    BY <1>1, <1>3, <2>1 DEF PoolInv, QueuedJobs, Unique
<1>6. ClaimedJobs'
  BY <1>1, <1>2, <1>3 DEF PoolInv, ClaimedJobs
<1>7. PlacedJobs' /\ Answers'
  BY <1>1, <1>2, <1>3 DEF PoolInv, PlacedJobs, Answers, c
<1> QED
  BY <1>4, <1>5, <1>6, <1>7 DEF PoolInv

LEMMA PoolNext == PoolInv /\ [Next]_vars => PoolInv'
<1> SUFFICES ASSUME PoolInv, [Next]_vars PROVE PoolInv'
  OBVIOUS
<1> USE DEF PoolInv, Types
<1>1. ASSUME NEW c \in Callers, Announce(c) PROVE PoolInv'
  <2>1. /\ wpc' \in [Workers -> WorkerStates]
        /\ \A w \in Workers : \/ wpc'[w] = wpc[w]
                              \/ wpc[w] \notin BusyStates /\ wpc'[w] \notin BusyStates
    BY <1>1 DEF Announce, WakeOneWorker, WorkerStates, BusyStates
  <2>2. /\ cpc' \in [Callers -> CallerStates]
        /\ \A d \in Callers : cpc'[d] = "idle" <=> cpc[d] = "idle"
    BY <1>1 DEF Announce, CallerStates
  <2>3. UNCHANGED <<queue, done, result, runs, job>>
    BY <1>1 DEF Announce
  <2> HIDE DEF PoolInv, Types
  <2> QED
    BY <2>1, <2>2, <2>3, PoolWaiting
<1>2. ASSUME NEW w \in Workers, NotifyFinished(w) PROVE PoolInv'
  <2>1. /\ wpc' \in [Workers -> WorkerStates]
        /\ \A v \in Workers : \/ wpc'[v] = wpc[v]
                              \/ wpc[v] \notin BusyStates /\ wpc'[v] \notin BusyStates
    BY <1>2 DEF NotifyFinished, WorkerStates, BusyStates
  <2>2. /\ cpc' \in [Callers -> CallerStates]
        /\ \A d \in Callers : cpc'[d] = "idle" <=> cpc[d] = "idle"
    BY <1>2 DEF NotifyFinished, CallerStates
  <2>3. UNCHANGED <<queue, done, result, runs, job>>
    BY <1>2 DEF NotifyFinished
  <2> HIDE DEF PoolInv, Types
  <2> QED
    BY <2>1, <2>2, <2>3, PoolWaiting
<1>3. ASSUME NEW w \in Workers, WorkerWakes(w) PROVE PoolInv'
  <2>1. /\ wpc' \in [Workers -> WorkerStates]
        /\ \A v \in Workers : \/ wpc'[v] = wpc[v]
                              \/ wpc[v] \notin BusyStates /\ wpc'[v] \notin BusyStates
    BY <1>3 DEF WorkerWakes, WorkerStates, BusyStates
  <2>2. UNCHANGED <<queue, cpc, done, result, runs, job>> /\ cpc' \in [Callers -> CallerStates]
    BY <1>3 DEF WorkerWakes, callerVars
  <2> HIDE DEF PoolInv, Types
  <2> QED
    BY <2>1, <2>2, PoolWaiting
<1>4. ASSUME NEW c \in Callers, CallerWakes(c) PROVE PoolInv'
  <2>1. /\ cpc' \in [Callers -> CallerStates]
        /\ \A d \in Callers : cpc'[d] = "idle" <=> cpc[d] = "idle"
    BY <1>4 DEF CallerWakes, CallerStates
  <2>2. /\ UNCHANGED <<queue, done, result, runs, wpc, job>>
        /\ wpc' \in [Workers -> WorkerStates]
    BY <1>4 DEF CallerWakes, workerVars
  <2> HIDE DEF PoolInv, Types
  <2> QED
    BY <2>1, <2>2, PoolWaiting
<1>5. CASE DrainBegins \/ DrainJoins \/ UNCHANGED vars
  <2>1. /\ UNCHANGED <<queue, cpc, done, result, runs, wpc, job>>
        /\ wpc' \in [Workers -> WorkerStates]
        /\ cpc' \in [Callers -> CallerStates]
    BY <1>5 DEF DrainBegins, DrainJoins, vars, callerVars, workerVars
  <2> HIDE DEF PoolInv, Types
  <2> QED
    BY <2>1, PoolWaiting
<1>6. CASE DrainNotifies
  <2>1. /\ wpc' \in [Workers -> WorkerStates]
        /\ \A v \in Workers : \/ wpc'[v] = wpc[v]
                              \/ wpc[v] \notin BusyStates /\ wpc'[v] \notin BusyStates
    BY <1>6 DEF DrainNotifies, WorkerStates, BusyStates
  <2>2. UNCHANGED <<queue, cpc, done, result, runs, job>> /\ cpc' \in [Callers -> CallerStates]
    BY <1>6 DEF DrainNotifies, callerVars
  <2> HIDE DEF PoolInv, Types
  <2> QED
    BY <2>1, <2>2, PoolWaiting
<1> HIDE DEF PoolInv, Types
<1> QED
  BY <1>1, <1>2, <1>3, <1>4, <1>5, <1>6, PoolPush, PoolCheckDone, PoolTimeOut,
     PoolClaim, PoolInvoke, PoolComplete
  DEF Next, Caller, Worker, Drainer

LEMMA PoolInvariant == Spec => []PoolInv
<1>1. Init => PoolInv
  BY PoolInit
<1>2. PoolInv /\ [Next]_vars => PoolInv'
  BY PoolNext
<1> QED
  BY <1>1, <1>2, PTL DEF Spec

-----------------------------------------------------------------------------
(* The theorems. *)

\* What Run answers is what became of its work: "false" means never invoked,
\* "true" means invoked once and ended.
THEOREM AnswersCorrect == Spec => []AnswerTellsWhatRan
<1>1. PoolInv => AnswerTellsWhatRan
  <2> SUFFICES ASSUME PoolInv, NEW c \in Callers, cpc[c] = "idle"
               PROVE  /\ result[c] = "false" => runs[c] = 0
                      /\ result[c] = "true" => runs[c] = 1
                      /\ c \notin Queued /\ ~Claimed(c)
    BY DEF AnswerTellsWhatRan
  <2>1. c \notin Queued
    BY DEF PoolInv, QueuedJobs
  <2>2. ~Claimed(c)
    BY DEF PoolInv, ClaimedJobs, Claimed, Busy, BusyStates
  <2> QED
    BY <2>1, <2>2 DEF PoolInv, Answers
<1> QED
  BY <1>1, PoolInvariant, PTL

\* A job is queued, with one worker, or done, and never at two of these.
THEOREM PlacesCorrect == Spec => []EveryJobHasOnePlace
<1>1. PoolInv => EveryJobHasOnePlace
  <2> SUFFICES ASSUME PoolInv PROVE EveryJobHasOnePlace
    OBVIOUS
  <2>1. \A j, k \in DOMAIN queue : queue[j] = queue[k] => j = k
    BY DEF PoolInv, QueuedJobs, Unique
  <2>2. \A v, w \in Busy : job[v] = job[w] => v = w
    BY DEF PoolInv, ClaimedJobs, Busy, BusyStates
  <2>3. ASSUME NEW c \in Callers, cpc[c] # "idle"
        PROVE  /\ c \in Queued <=> ~Claimed(c) /\ ~done[c]
               /\ ~(Claimed(c) /\ done[c])
    <3>1. c \in Queued \/ Claimed(c) \/ done[c]
      BY <2>3 DEF PoolInv, PlacedJobs, Claimed, Busy, BusyStates
    <3>2. Claimed(c) => c \notin Queued /\ ~done[c]
      BY DEF PoolInv, ClaimedJobs, Claimed, Busy, BusyStates
    <3>3. c \in Queued => ~done[c]
      BY DEF PoolInv, QueuedJobs
    <3> QED
      BY <3>1, <3>2, <3>3
  <2> QED
    BY <2>1, <2>2, <2>3 DEF EveryJobHasOnePlace
<1> QED
  BY <1>1, PoolInvariant, PTL

\* The part of TypeOK that PoolInv does not give: the bound of the queue and
\* the counter of busy workers.
Counts ==
  /\ Len(queue) <= QueueDepth
  /\ active = Cardinality(Busy)
  /\ stopping \in BOOLEAN
  /\ dpc \in {"idle", "notify", "joining", "drained"}

LEMMA BusyUnchanged ==
  ASSUME \A w \in Workers : wpc'[w] \in BusyStates <=> wpc[w] \in BusyStates
  PROVE  Busy' = Busy
  BY DEF Busy, BusyStates

LEMMA CountsNext == PoolInv /\ PoolInv' /\ Counts /\ [Next]_vars => Counts'
<1> SUFFICES ASSUME PoolInv, PoolInv', Counts, [Next]_vars PROVE Counts'
  OBVIOUS
<1>1. /\ QueueDepth \in Nat
      /\ queue \in Seq(Callers) /\ Len(queue) \in Nat
      /\ wpc \in [Workers -> WorkerStates]
  BY PoolAssumption DEF PoolInv, Types
<1>2. IsFiniteSet(Busy)
  BY PoolAssumption, FS_Subset DEF Busy
<1>3. ASSUME NEW c \in Callers, Push(c) PROVE Counts'
  <2>1. Busy' = Busy /\ UNCHANGED <<active, stopping, dpc>>
    BY <1>3 DEF Push, workerVars, Busy
  <2>2. Len(queue') <= QueueDepth
    <3>1. queue' = queue \/ (Len(queue) < QueueDepth /\ queue' = Append(queue, c))
      BY <1>1, <1>3 DEF Push
    <3> QED
      BY <1>1, <3>1 DEF Counts
  <2> QED
    BY <2>1, <2>2 DEF Counts
<1>4. ASSUME NEW c \in Callers, CheckDone(c) \/ CallerWakes(c) PROVE Counts'
  BY <1>4 DEF CheckDone, CallerWakes, workerVars, Counts, Busy
<1>5. ASSUME NEW c \in Callers, Announce(c) PROVE Counts'
  <2>1. \A w \in Workers : wpc'[w] \in BusyStates <=> wpc[w] \in BusyStates
    BY <1>1, <1>5 DEF Announce, WakeOneWorker, BusyStates
  <2> QED
    BY <1>5, <2>1, BusyUnchanged DEF Announce, Counts
<1>6. ASSUME NEW c \in Callers, TimeOut(c) PROVE Counts'
  <2>1. Busy' = Busy /\ UNCHANGED <<active, stopping, dpc>>
    BY <1>6 DEF TimeOut, workerVars, Busy
  <2>2. Len(queue') <= QueueDepth
    <3>1. queue' = queue \/ \E k \in DOMAIN queue : queue' = RemoveAt(queue, k)
      BY <1>6 DEF TimeOut
    <3>2. Unique(queue)
      BY DEF PoolInv, QueuedJobs
    <3>3. \A k \in DOMAIN queue : Len(RemoveAt(queue, k)) = Len(queue) - 1
      BY <1>1, <3>2, UniqueRemove
    <3> QED
      BY <1>1, <3>1, <3>3 DEF Counts
  <2> QED
    BY <2>1, <2>2 DEF Counts
<1>7. ASSUME NEW w \in Workers, Claim(w) PROVE Counts'
  <2>1. UNCHANGED <<stopping, dpc>> /\ wpc[w] = "check"
    BY <1>7 DEF Claim
  <2>2. CASE queue # << >>
    <3>1. /\ queue' = Tail(queue) /\ active' = active + 1
          /\ wpc' = [wpc EXCEPT ![w] = "claimed"]
      BY <1>7, <2>2 DEF Claim
    <3>2. Len(queue') <= QueueDepth
      BY <1>1, <2>2, <3>1 DEF Counts
    <3>3. w \notin Busy /\ Busy' = Busy \cup {w}
      BY <1>1, <2>1, <3>1 DEF Busy
    <3>4. Cardinality(Busy') = Cardinality(Busy) + 1
      BY <1>2, <3>3, FS_AddElement
    <3> QED
      BY <2>1, <3>1, <3>2, <3>4 DEF Counts
  <2>3. CASE queue = << >>
    <3>1. /\ wpc' = [wpc EXCEPT ![w] = IF stopping THEN "exited" ELSE "asleep"]
          /\ UNCHANGED <<queue, active>>
      BY <1>7, <2>3 DEF Claim
    <3>2. \A v \in Workers : wpc'[v] \in BusyStates <=> wpc[v] \in BusyStates
      BY <1>1, <2>1, <3>1 DEF BusyStates
    <3> QED
      BY <2>1, <3>1, <3>2, BusyUnchanged DEF Counts
  <2> QED
    BY <2>2, <2>3
<1>8. ASSUME NEW w \in Workers, Complete(w) PROVE Counts'
  <2>1. /\ UNCHANGED <<queue, stopping, dpc>> /\ wpc[w] = "invoked"
        /\ active' = active - 1 /\ wpc' = [wpc EXCEPT ![w] = "notify"]
    BY <1>8 DEF Complete
  <2>2. w \in Busy /\ Busy' = Busy \ {w}
    BY <1>1, <2>1 DEF Busy
  <2>3. Cardinality(Busy') = Cardinality(Busy) - 1
    BY <1>2, <2>2, FS_RemoveElement
  <2> QED
    BY <2>1, <2>3 DEF Counts
<1>9. ASSUME NEW w \in Workers, Invoke(w) \/ NotifyFinished(w) \/ WorkerWakes(w)
      PROVE  Counts'
  <2>1. \A v \in Workers : wpc'[v] \in BusyStates <=> wpc[v] \in BusyStates
    BY <1>1, <1>9 DEF Invoke, NotifyFinished, WorkerWakes, BusyStates
  <2> QED
    BY <1>9, <2>1, BusyUnchanged DEF Invoke, NotifyFinished, WorkerWakes, Counts
<1>10. CASE DrainNotifies
  <2>1. \A v \in Workers : wpc'[v] \in BusyStates <=> wpc[v] \in BusyStates
    BY <1>1, <1>10 DEF DrainNotifies, BusyStates
  <2> QED
    BY <1>10, <2>1, BusyUnchanged DEF DrainNotifies, Counts
<1>11. CASE DrainBegins \/ DrainJoins \/ UNCHANGED vars
  BY <1>11 DEF DrainBegins, DrainJoins, vars, workerVars, Counts, Busy
<1> QED
  BY <1>3, <1>4, <1>5, <1>6, <1>7, <1>8, <1>9, <1>10, <1>11
  DEF Next, Caller, Worker, Drainer

\* Type correctness, with the queue within its depth and the counter of busy
\* workers equal to their number.
THEOREM PoolTypeCorrect == Spec => []TypeOK
<1>1. Init => Counts
  <2> SUFFICES ASSUME Init PROVE Counts
    OBVIOUS
  <2>1. Busy = {}
    BY DEF Init, Busy
  <2>2. active = Cardinality(Busy)
    BY <2>1, FS_EmptySet DEF Init
  <2>3. Len(queue) <= QueueDepth
    BY PoolAssumption DEF Init
  <2> QED
    BY <2>2, <2>3 DEF Init, Counts
<1>2. Spec => []Counts
  <2>1. PoolInv /\ PoolInv' /\ Counts /\ [Next]_vars => Counts'
    BY CountsNext
  <2> QED
    BY <1>1, <2>1, PoolInvariant, PTL DEF Spec
<1>3. PoolInv /\ Counts => TypeOK
  <2> SUFFICES ASSUME PoolInv, Counts PROVE TypeOK
    OBVIOUS
  <2>1. \A w \in Busy : job[w] # NoJob
    BY PoolAssumption DEF PoolInv, ClaimedJobs, Busy, BusyStates
  <2> QED
    BY <2>1 DEF PoolInv, Types, Counts, TypeOK, WorkerStates, CallerStates
<1> QED
  BY <1>2, <1>3, PoolInvariant, PTL

-----------------------------------------------------------------------------
(* Wakeups.  Whoever puts a job into the queue is counted until he has        *)
(* notified a worker, and that worker until it has looked into the queue.     *)

Looking == {w \in Workers : wpc[w] = "check"}
Announcing == {c \in Callers : cpc[c] = "pushed"}
SomeoneSleeps == \E w \in Workers : wpc[w] = "asleep"

\* However many callers there are, finitely many are about to notify.
WakeupInv == IsFiniteSet(Announcing) /\ NoLostWakeup

LEMMA WakeupCounts ==
  ASSUME PoolInv, WakeupInv
  PROVE  /\ IsFiniteSet(Looking) /\ Cardinality(Looking) \in Nat
         /\ Cardinality(Announcing) \in Nat /\ Len(queue) \in Nat
         /\ SomeoneSleeps => Len(queue) <= Cardinality(Looking) + Cardinality(Announcing)
<1>1. IsFiniteSet(Looking)
  BY PoolAssumption, FS_Subset DEF Looking
<1>2. Cardinality(Looking) \in Nat /\ Cardinality(Announcing) \in Nat
  BY <1>1, FS_CardinalityType DEF WakeupInv
<1>3. Len(queue) \in Nat
  BY DEF PoolInv, Types
<1> QED
  BY <1>1, <1>2, <1>3 DEF WakeupInv, NoLostWakeup, Looking, Announcing, SomeoneSleeps

\* Steps by which nobody stops looking or falls asleep.
LEMMA NobodySleeps ==
  ASSUME PoolInv, PoolInv', WakeupInv,
         Len(queue') <= Len(queue), Looking \subseteq Looking',
         Announcing' = Announcing, SomeoneSleeps' => SomeoneSleeps
  PROVE  WakeupInv'
<1>1. IsFiniteSet(Looking') /\ Looking' \subseteq Workers
  BY PoolAssumption, FS_Subset DEF Looking
<1>2. Cardinality(Looking) <= Cardinality(Looking') /\ Cardinality(Looking') \in Nat
  BY <1>1, FS_Subset, FS_CardinalityType
<1>3. Len(queue') \in Nat
  BY DEF PoolInv, Types
<1>4. SomeoneSleeps' => Len(queue') <= Cardinality(Looking') + Cardinality(Announcing')
  BY <1>2, <1>3, WakeupCounts
<1> QED
  BY <1>4 DEF WakeupInv, NoLostWakeup, Looking, Announcing, SomeoneSleeps

LEMMA PushWakes ==
  ASSUME PoolInv, PoolInv', WakeupInv, NEW c \in Callers, Push(c)
  PROVE  WakeupInv'
<1>1. /\ wpc' = wpc /\ cpc[c] = "idle" /\ cpc \in [Callers -> CallerStates]
      /\ queue \in Seq(Callers)
  BY DEF Push, workerVars, PoolInv, Types
<1>2. Looking' = Looking /\ (SomeoneSleeps' <=> SomeoneSleeps)
  BY <1>1 DEF Looking, SomeoneSleeps
<1>3. CASE stopping \/ Len(queue) >= QueueDepth
  <2>1. queue' = queue /\ cpc' = [cpc EXCEPT ![c] = "idle"]
    BY <1>3 DEF Push, Return
  <2>2. Announcing' = Announcing
    BY <1>1, <2>1 DEF Announcing
  <2>3. Len(queue') <= Len(queue)
    BY <1>1, <2>1
  <2> QED
    BY <1>2, <2>2, <2>3, NobodySleeps
<1>4. CASE ~(stopping \/ Len(queue) >= QueueDepth)
  <2>1. queue' = Append(queue, c) /\ cpc' = [cpc EXCEPT ![c] = "pushed"]
    BY <1>4 DEF Push
  <2>2. c \notin Announcing /\ Announcing' = Announcing \cup {c}
    BY <1>1, <2>1 DEF Announcing
  <2>3. IsFiniteSet(Announcing') /\ Cardinality(Announcing') = Cardinality(Announcing) + 1
    BY <2>2, FS_AddElement DEF WakeupInv
  <2>4. Len(queue') = Len(queue) + 1
    BY <1>1, <2>1
  <2>5. SomeoneSleeps' => Len(queue') <= Cardinality(Looking') + Cardinality(Announcing')
    BY <1>2, <2>3, <2>4, WakeupCounts
  <2> QED
    BY <2>3, <2>5 DEF WakeupInv, NoLostWakeup, Looking, Announcing, SomeoneSleeps
<1> QED
  BY <1>3, <1>4

\* The caller is counted no more, but the worker it wakes is; where nobody
\* sleeps, all who can look will.
LEMMA AnnounceWakes ==
  ASSUME PoolInv, PoolInv', WakeupInv, NEW c \in Callers, Announce(c)
  PROVE  WakeupInv'
<1>1. /\ cpc[c] = "pushed" /\ cpc' = [cpc EXCEPT ![c] = "check"] /\ queue' = queue
      /\ cpc \in [Callers -> CallerStates] /\ wpc \in [Workers -> WorkerStates]
  BY DEF Announce, PoolInv, Types
<1>2. c \in Announcing /\ Announcing' = Announcing \ {c}
  BY <1>1 DEF Announcing
<1>3. IsFiniteSet(Announcing') /\ Cardinality(Announcing') = Cardinality(Announcing) - 1
  BY <1>2, FS_RemoveElement DEF WakeupInv
<1>4. CASE SomeoneSleeps
  <2>1. PICK w \in Workers : wpc[w] = "asleep" /\ wpc' = [wpc EXCEPT ![w] = "check"]
    BY <1>4 DEF Announce, WakeOneWorker, SomeoneSleeps
  <2>2. w \notin Looking /\ Looking' = Looking \cup {w}
    BY <1>1, <2>1 DEF Looking
  <2>3. Cardinality(Looking') = Cardinality(Looking) + 1
    BY <2>2, WakeupCounts, FS_AddElement
  <2>4. Len(queue') <= Cardinality(Looking') + Cardinality(Announcing')
    BY <1>1, <1>3, <1>4, <2>3, WakeupCounts
  <2> QED
    BY <1>3, <2>4 DEF WakeupInv, NoLostWakeup, Looking, Announcing
<1>5. CASE ~SomeoneSleeps
  <2>1. ~SomeoneSleeps'
    BY <1>5 DEF Announce, WakeOneWorker, SomeoneSleeps
  <2> QED
    BY <1>3, <2>1 DEF WakeupInv, NoLostWakeup, SomeoneSleeps
<1> QED
  BY <1>4, <1>5

\* A worker that looks takes a job away, or finds that there is none.
LEMMA ClaimWakes ==
  ASSUME PoolInv, PoolInv', WakeupInv, NEW w \in Workers, Claim(w)
  PROVE  WakeupInv'
<1>1. /\ wpc[w] = "check" /\ cpc' = cpc /\ queue \in Seq(Callers)
      /\ wpc \in [Workers -> WorkerStates]
  BY DEF Claim, callerVars, PoolInv, Types
<1>2. Announcing' = Announcing
  BY <1>1 DEF Announcing
<1>3. CASE queue = << >>
  <2>1. queue' = queue
    BY <1>3 DEF Claim
  <2>2. Len(queue') = 0
    BY <1>3, <2>1
  <2>3. IsFiniteSet(Looking')
    BY PoolAssumption, FS_Subset DEF Looking
  <2>4. Len(queue') <= Cardinality(Looking') + Cardinality(Announcing')
    BY <1>2, <2>2, <2>3, WakeupCounts, FS_CardinalityType
  <2> QED
    BY <1>2, <2>4 DEF WakeupInv, NoLostWakeup, Looking, Announcing
<1>4. CASE queue # << >>
  <2>1. queue' = Tail(queue) /\ wpc' = [wpc EXCEPT ![w] = "claimed"]
    BY <1>4 DEF Claim
  <2>2. w \in Looking /\ Looking' = Looking \ {w} /\ (SomeoneSleeps' <=> SomeoneSleeps)
    BY <1>1, <2>1 DEF Looking, SomeoneSleeps
  <2>3. Cardinality(Looking') = Cardinality(Looking) - 1
    BY <2>2, WakeupCounts, FS_RemoveElement
  <2>4. Len(queue') = Len(queue) - 1
    BY <1>1, <1>4, <2>1
  <2>5. SomeoneSleeps' => Len(queue') <= Cardinality(Looking') + Cardinality(Announcing')
    BY <1>2, <2>2, <2>3, <2>4, WakeupCounts
  <2> QED
    BY <1>2, <2>5 DEF WakeupInv, NoLostWakeup, Looking, Announcing, SomeoneSleeps
<1> QED
  BY <1>3, <1>4

LEMMA WakeupNext == PoolInv /\ PoolInv' /\ WakeupInv /\ [Next]_vars => WakeupInv'
<1> SUFFICES ASSUME PoolInv, PoolInv', WakeupInv, [Next]_vars PROVE WakeupInv'
  OBVIOUS
<1>0. /\ queue \in Seq(Callers) /\ Len(queue) \in Nat
      /\ cpc \in [Callers -> CallerStates] /\ wpc \in [Workers -> WorkerStates]
  BY DEF PoolInv, Types
<1>1. ASSUME NEW c \in Callers, CheckDone(c) \/ CallerWakes(c) \/ TimeOut(c)
      PROVE  WakeupInv'
  <2>1. wpc' = wpc
    BY <1>1 DEF CheckDone, CallerWakes, TimeOut, workerVars
  <2>2. Announcing' = Announcing
    BY <1>0, <1>1 DEF CheckDone, CallerWakes, TimeOut, Return, Announcing
  <2>3. Len(queue') <= Len(queue)
    <3>1. queue' = queue \/ \E k \in DOMAIN queue : queue' = RemoveAt(queue, k)
      BY <1>1 DEF CheckDone, CallerWakes, TimeOut
    <3>2. \A k \in DOMAIN queue : Len(RemoveAt(queue, k)) = Len(queue) - 1
      BY <1>0, UniqueRemove DEF PoolInv, QueuedJobs
    <3> QED
      BY <1>0, <3>1, <3>2
  <2>4. Looking' = Looking /\ (SomeoneSleeps' <=> SomeoneSleeps)
    BY <2>1 DEF Looking, SomeoneSleeps
  <2> QED
    BY <2>2, <2>3, <2>4, NobodySleeps
<1>2. ASSUME NEW w \in Workers,
             Invoke(w) \/ Complete(w) \/ NotifyFinished(w) \/ WorkerWakes(w)
      PROVE  WakeupInv'
  <2>1. queue' = queue
    BY <1>2 DEF Invoke, Complete, NotifyFinished, WorkerWakes
  <2>2. Announcing' = Announcing
    BY <1>0, <1>2 DEF Invoke, Complete, NotifyFinished, WorkerWakes, callerVars, Announcing
  <2>3. Looking \subseteq Looking' /\ (SomeoneSleeps' => SomeoneSleeps)
    BY <1>0, <1>2 DEF Invoke, Complete, NotifyFinished, WorkerWakes, Looking, SomeoneSleeps
  <2> QED
    BY <1>0, <2>1, <2>2, <2>3, NobodySleeps
<1>3. CASE DrainBegins \/ DrainJoins \/ DrainNotifies \/ UNCHANGED vars
  <2>1. queue' = queue /\ cpc' = cpc
    BY <1>3 DEF DrainBegins, DrainJoins, DrainNotifies, vars, callerVars
  <2>2. Looking \subseteq Looking' /\ (SomeoneSleeps' => SomeoneSleeps)
    BY <1>3 DEF DrainBegins, DrainJoins, DrainNotifies, vars, workerVars, Looking, SomeoneSleeps
  <2>3. Announcing' = Announcing
    BY <2>1 DEF Announcing
  <2> QED
    BY <1>0, <2>1, <2>2, <2>3, NobodySleeps
<1> QED
  BY <1>1, <1>2, <1>3, PushWakes, AnnounceWakes, ClaimWakes DEF Next, Caller, Worker, Drainer

\* No wakeup is lost: when a worker sleeps, as many workers and callers are on
\* their way to the queue as there are jobs in it, however many call Run.
THEOREM WakeupsCorrect == Spec => []NoLostWakeup
<1>1. Init => WakeupInv
  <2> SUFFICES ASSUME Init PROVE WakeupInv
    OBVIOUS
  <2>1. Announcing = {} /\ ~SomeoneSleeps
    BY DEF Init, Announcing, SomeoneSleeps
  <2>2. IsFiniteSet(Announcing)
    BY <2>1, FS_EmptySet
  <2> QED
    BY <2>1, <2>2 DEF WakeupInv, NoLostWakeup, SomeoneSleeps
<1>2. PoolInv /\ PoolInv' /\ WakeupInv /\ [Next]_vars => WakeupInv'
  BY WakeupNext
<1>3. WakeupInv => NoLostWakeup
  BY DEF WakeupInv
<1> QED
  BY <1>1, <1>2, <1>3, PoolInvariant, PTL DEF Spec
=============================================================================
