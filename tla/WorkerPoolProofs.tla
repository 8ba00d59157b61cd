-------------------------- MODULE WorkerPoolProofs --------------------------
(***************************************************************************)
(* PoolInv is an invariant of the server, for any set of threads, any      *)
(* number of ids, stops and faults; the safety properties follow from it.  *)
(***************************************************************************)
EXTENDS CancelLatency, Library, DownloadTableProofs, FiniteSetTheorems

\* What PoolInv says of the threads.
ThreadsOK ==
  /\ server \in {"down", "recovered", "serving", "stopping"}
  /\ pc \in [Workers -> Phases]
  /\ job \in [Workers -> Ids \cup {0}]
  /\ result \in [Workers -> Paths \cup {NoPath}]
  /\ stops \in Nat

LEMMA TypeSplit == TypeOK <=> TableOK /\ ThreadsOK
BY DEF TypeOK, ThreadsOK

LEMMA NoIdIsZero == 0 \notin Ids
BY DEF Ids

LEMMA InitInv == Init => PoolInv
<1> SUFFICES ASSUME Init PROVE PoolInv
  OBVIOUS
<1>1. TableInv
  BY TableInitInv DEF Init
<1>2. TypeOK
  BY <1>1 DEF TypeOK, TableInv, Init, NoThreads, Phases
<1> QED
  BY <1>1, <1>2 DEF PoolInv, Init, NoThreads, JobsHeld, HeldRows, CancelSeen,
     PathsFinished, ThreadsOfProcess, Alive, ExclusiveClaim, Holds, Holding, Ended

(***************************************************************************)
(* A step that leaves the threads alone keeps the invariant if the table   *)
(* operation in it keeps its own and the held rows.                        *)
(***************************************************************************)
LEMMA ThreadsUntouched ==
  ASSUME PoolInv, TableInv', HeldRowsKept, UNCHANGED threads, stops' \in Nat,
         \/ server' = server
         \/ server = "serving" /\ server' = "stopping"
  PROVE  PoolInv'
<1>1. TypeOK'
  BY DEF PoolInv, TypeOK, TableInv, threads
<1>2. HeldRows' /\ CancelSeen'
  BY NoIdIsZero DEF PoolInv, TypeOK, JobsHeld, HeldRows, CancelSeen,
     HeldRowsKept, HoldKept, HeldStatuses, threads, Holding, Ended
<1>3. JobsHeld' /\ PathsFinished' /\ ThreadsOfProcess' /\ ExclusiveClaim'
  BY DEF PoolInv, JobsHeld, PathsFinished, ThreadsOfProcess, Alive,
     ExclusiveClaim, Holds, threads
<1> QED BY <1>1, <1>2, <1>3 DEF PoolInv

\* No thread survives, or none ran.
LEMMA NoThreadRuns ==
  ASSUME PoolInv, TableInv', NoThreads',
         server' \in {"down", "recovered", "serving", "stopping"}, stops' \in Nat
  PROVE  PoolInv'
BY DEF PoolInv, TypeOK, TableInv, NoThreads, Phases, JobsHeld, HeldRows, CancelSeen,
       PathsFinished, ThreadsOfProcess, Alive, ExclusiveClaim, Holds, Holding,
       Ended

(***************************************************************************)
(* One thread moves from a phase to another one.                           *)
(***************************************************************************)
LEMMA Moved ==
  ASSUME PoolInv, NEW w \in Workers, NEW from, NEW to, Goes(w, from, to),
         to \in Phases
  PROVE  /\ Alive /\ pc[w] = from /\ pc'[w] = to
         /\ pc' \in [Workers -> Phases]
         /\ \A v \in Workers \ {w} : pc'[v] = pc[v]
BY DEF Goes, PoolInv, TypeOK

\* It keeps the job it has, or has none: neither phase changes what it holds.
LEMMA KeepsJob ==
  ASSUME PoolInv, NEW w \in Workers, NEW from, NEW to \in Phases,
         Goes(w, from, to),
         (from \in Holding) <=> (to \in Holding),
         from # "finished",
         to = "cancelled" => downloads'[job[w]].cancel_requested,
         TableInv', HeldRowsKept, UNCHANGED <<server, job, stops>>,
         \/ result' = result
         \/ /\ to = "finished"
            /\ \E path \in Paths \cup {NoPath} :
                 result' = [result EXCEPT ![w] = path]
  PROVE  PoolInv'
<1>1. /\ Alive /\ pc[w] = from /\ pc'[w] = to /\ pc' \in [Workers -> Phases]
      /\ \A v \in Workers \ {w} : pc'[v] = pc[v]
  BY Moved
<1>2. TypeOK'
  BY <1>1 DEF PoolInv, TypeOK, TableInv
<1>3. \A v \in Workers : pc'[v] \in Holding <=> pc[v] \in Holding
  BY <1>1
<1>4. HeldRows'
  BY <1>3, NoIdIsZero DEF PoolInv, TypeOK, JobsHeld, HeldRows, HeldRowsKept,
     HoldKept, HeldStatuses
<1>5. CancelSeen'
  BY <1>1, NoIdIsZero DEF PoolInv, TypeOK, JobsHeld, HeldRows, CancelSeen,
     HeldRowsKept, HoldKept, HeldStatuses, Holding, Ended
<1>6. JobsHeld' /\ ThreadsOfProcess' /\ ExclusiveClaim'
  BY <1>1, <1>3 DEF PoolInv, JobsHeld, ThreadsOfProcess, Alive, ExclusiveClaim,
     Holds
<1>7. PathsFinished'
  BY <1>1 DEF PoolInv, TypeOK, PathsFinished
<1> QED BY <1>2, <1>4, <1>5, <1>6, <1>7 DEF PoolInv

\* It lets its job go.
LEMMA GivesUp ==
  ASSUME PoolInv, NEW w \in Workers, NEW from, NEW to \in Phases \ Holding,
         Goes(w, from, to), LetsGo(w), TableInv',
         \A k \in Ids \ {job[w]} : downloads'[k] = downloads[k]
  PROVE  PoolInv'
<1>1. /\ Alive /\ pc[w] = from /\ pc'[w] = to /\ pc' \in [Workers -> Phases]
      /\ \A v \in Workers \ {w} : pc'[v] = pc[v]
  BY Moved
<1>2. /\ job'[w] = 0 /\ result'[w] = NoPath
      /\ \A v \in Workers \ {w} : job'[v] = job[v] /\ result'[v] = result[v]
  BY DEF LetsGo, PoolInv, TypeOK
<1>3. TypeOK'
  BY <1>1 DEF PoolInv, TypeOK, TableInv, LetsGo
<1>4. \A v \in Workers \ {w} :
        pc[v] \in Holding => job[v] \in Ids /\ downloads'[job[v]] = downloads[job[v]]
  BY NoIdIsZero DEF PoolInv, TypeOK, JobsHeld, ExclusiveClaim, Holds
<1>5. HeldRows' /\ CancelSeen'
  BY <1>1, <1>2, <1>4 DEF PoolInv, HeldRows, CancelSeen, Holding, Ended
<1>6. JobsHeld' /\ PathsFinished' /\ ThreadsOfProcess' /\ ExclusiveClaim'
  BY <1>1, <1>2 DEF PoolInv, JobsHeld, PathsFinished, ThreadsOfProcess, Alive,
     ExclusiveClaim, Holds, LetsGo
<1> QED BY <1>3, <1>5, <1>6 DEF PoolInv

(***************************************************************************)
(* Every action keeps the invariant and the rows that ended.               *)
(***************************************************************************)
LEMMA ClaimStep ==
  ASSUME PoolInv, NEW w \in Workers, NEW j \in Ids, Claim(w, j)
  PROVE  PoolInv' /\ EndedRowsKept
<1>1. /\ TableInv' /\ EndedRowsKept /\ HeldRowsKept
      /\ downloads[j].status = "queued" /\ downloads'[j].status = "active"
  BY ClaimInv DEF Claim, PoolInv
<1>2. /\ Alive /\ pc[w] = "claiming" /\ pc'[w] = "claimed"
      /\ pc' \in [Workers -> Phases]
      /\ \A v \in Workers \ {w} : pc'[v] = pc[v]
  BY Moved DEF Claim, Phases, Holding
<1>3. job'[w] = j /\ \A v \in Workers \ {w} : job'[v] = job[v]
  BY DEF Claim, PoolInv, TypeOK
<1>4. TypeOK'
  BY <1>1, <1>2 DEF Claim, PoolInv, TypeOK, TableInv
<1>5. JobsHeld' /\ HeldRows' /\ CancelSeen'
  BY <1>1, <1>2, <1>3, NoIdIsZero DEF PoolInv, TypeOK, JobsHeld, HeldRows,
     CancelSeen, HeldRowsKept, HoldKept, HeldStatuses, Holding, Ended
<1>6. PathsFinished' /\ ThreadsOfProcess'
  BY <1>2 DEF PoolInv, Claim, PathsFinished, ThreadsOfProcess, Alive
<1>7. ExclusiveClaim'
  <2>1. \A v \in Workers : ~Holds(v, j)
    BY <1>1 DEF PoolInv, HeldRows, Holds
  <2> QED BY <2>1, <1>2, <1>3 DEF PoolInv, ExclusiveClaim, Holds
<1> QED BY <1>1, <1>4, <1>5, <1>6, <1>7 DEF PoolInv

LEMMA WorkerStep ==
  ASSUME PoolInv, NEW w \in Workers, WorkerSteps(w) \/ ThreadDies(w)
  PROVE  PoolInv' /\ EndedRowsKept
<1> USE DEF Phases, Holding, Ended
<1>u. downloads' = downloads => TableInv' /\ EndedRowsKept /\ HeldRowsKept
  BY NothingWrittenInv DEF PoolInv
<1>j. pc[w] \in Holding => job[w] \in Ids
  BY NoIdIsZero DEF PoolInv, TypeOK, JobsHeld
<1>1. CASE LoopTest(w)
  BY <1>1, <1>u, KeepsJob DEF LoopTest
<1>2. CASE ClaimNothing(w)
  BY <1>2, <1>u, KeepsJob DEF ClaimNothing
<1>3. CASE \E j \in Ids : Claim(w, j)
  BY <1>3, ClaimStep
<1>4. CASE ReadJob(w)
  <2>1. Exists(job[w])
    BY <1>4 DEF ReadJob, Goes, PoolInv, HeldRows, Exists
  <2> QED BY <1>4, <1>u, <2>1, KeepsJob DEF ReadJob
<1>5. CASE HookPoll(w)
  BY <1>5, <1>u, KeepsJob DEF HookPoll, IsCancelRequested
<1>6. CASE HookReport(w)
  <2>1. pc[w] = "polled"
    BY <1>6 DEF HookReport, Goes
  <2>2. TableInv' /\ EndedRowsKept /\ HeldRowsKept
    BY <1>6, <1>u, <1>j, <2>1, ProgressInv, ReportedAssumption
       DEF HookReport, PoolInv
  <2> QED BY <1>6, <2>2, KeepsJob DEF HookReport
<1>7. CASE DownloadFails(w)
  BY <1>7, <1>u, KeepsJob DEF DownloadFails
<1>8. CASE DownloadFinishes(w)
  BY <1>8, <1>u, KeepsJob DEF DownloadFinishes
<1>9. CASE Release(w)
  <2>1. PICK phase \in Ended : Goes(w, phase, "loop")
    BY <1>9 DEF Release
  <2>2. pc[w] = phase
    BY <2>1 DEF Goes
  <2>3. /\ Outcome(phase) \in Terminal
        /\ result[w] \in Paths \cup {NoPath}
        /\ result[w] # NoPath => Outcome(phase) = "done"
    BY <2>2 DEF Outcome, Terminal, PoolInv, TypeOK, PathsFinished
  <2>4. /\ TableInv' /\ EndedRowsKept
        /\ \A k \in Ids \ {job[w]} : downloads'[k] = downloads[k]
    BY <1>9, <1>j, <2>2, <2>3, ReleaseInv DEF Release, PoolInv
  <2> QED BY <1>9, <2>1, <2>4, GivesUp DEF Release
<1>10. CASE ThreadDies(w)
  BY <1>10, <1>u, GivesUp DEF ThreadDies
<1> QED
  BY <1>1, <1>2, <1>3, <1>4, <1>5, <1>6, <1>7, <1>8, <1>9, <1>10
     DEF WorkerSteps

LEMMA ProcessStep ==
  ASSUME PoolInv, Recover \/ StartPool \/ Stop \/ Exit \/ Crash
  PROVE  PoolInv' /\ EndedRowsKept
<1>u. downloads' = downloads => TableInv' /\ EndedRowsKept /\ HeldRowsKept
  BY NothingWrittenInv DEF PoolInv
<1>1. CASE Recover
  <2>1. TableInv' /\ EndedRowsKept
    BY <1>1, RequeueInv DEF Recover, PoolInv
  <2>2. NoThreads'
    BY <1>1 DEF Recover, threads, NoThreads, PoolInv, TypeOK, ThreadsOfProcess,
       Alive, JobsHeld, PathsFinished, Holding, Ended
  <2> QED BY <1>1, <2>1, <2>2, NoThreadRuns DEF Recover, PoolInv, TypeOK
<1>2. CASE StartPool
  <2>1. \A w \in Workers : pc[w] = "off" /\ job[w] = 0 /\ result[w] = NoPath
    BY <1>2 DEF StartPool, PoolInv, TypeOK, ThreadsOfProcess, Alive, JobsHeld,
       PathsFinished, Holding, Ended
  <2>2. /\ pc' \in [Workers -> {"loop", "off"}]
        /\ UNCHANGED <<downloads, job, result, stops>> /\ server' = "serving"
    BY <1>2 DEF StartPool
  <2>3. TypeOK'
    BY <2>2 DEF PoolInv, TypeOK, TableOK, Phases
  <2>4. JobsHeld' /\ HeldRows' /\ CancelSeen' /\ PathsFinished' /\ ExclusiveClaim'
    BY <2>1, <2>2 DEF JobsHeld, HeldRows, CancelSeen, PathsFinished,
       ExclusiveClaim, Holds, Holding, Ended
  <2>5. ThreadsOfProcess'
    BY <2>2 DEF ThreadsOfProcess, Alive
  <2> QED BY <1>u, <2>2, <2>3, <2>4, <2>5 DEF PoolInv
<1>3. CASE Stop
  BY <1>3, <1>u, ThreadsUntouched DEF Stop, PoolInv, TypeOK, threads
<1>4. CASE Exit \/ Crash
  <2>1. NoThreads' /\ downloads' = downloads /\ server' = "down"
    BY <1>4 DEF Exit, Crash, ThreadsVanish, NoThreads
  <2>2. stops' \in Nat
    BY <1>4 DEF Exit, Crash, PoolInv, TypeOK
  <2> QED BY <1>u, <2>1, <2>2, NoThreadRuns
<1> QED BY <1>1, <1>2, <1>3, <1>4

LEMMA TableStep ==
  ASSUME PoolInv,
         \/ \E j \in Ids, t \in Stamps : Enqueue(j, t)
         \/ \E j \in Ids : Cancel(j)
         \/ Reap
         \/ Tick
  PROVE  PoolInv' /\ EndedRowsKept
<1>1. TableInv' /\ EndedRowsKept /\ HeldRowsKept
  BY EnqueueInv, CancelInv, ReapInv, TimeInv
     DEF Enqueue, Cancel, Reap, Tick, PoolInv
<1>2. UNCHANGED <<server, threads, stops>>
  BY DEF Enqueue, Cancel, Reap, Tick
<1> QED BY <1>1, <1>2, ThreadsUntouched DEF PoolInv, TypeOK

LEMMA NextInv == PoolInv /\ [Next]_vars => PoolInv' /\ EndedRowsKept
<1> SUFFICES ASSUME PoolInv, [Next]_vars PROVE PoolInv' /\ EndedRowsKept
  OBVIOUS
<1>1. CASE Next
  BY <1>1, ProcessStep, TableStep, WorkerStep DEF Next
<1>2. CASE UNCHANGED vars
  <2>1. TableInv' /\ EndedRowsKept /\ HeldRowsKept
    BY <1>2, NothingWrittenInv DEF vars, PoolInv
  <2> QED BY <1>2, <2>1, ThreadsUntouched DEF vars, threads, PoolInv, TypeOK
<1> QED BY <1>1, <1>2

(***************************************************************************)
(* No step of the server loses a row or takes a request to cancel back,    *)
(* and only a report moves the progress of a job with such a request.      *)
(***************************************************************************)
LEMMA OnlyReportsProgress ==
  ASSUME PoolInv, [Next]_vars
  PROVE  /\ RowsStay
         /\ NoneProgresses \/ \E w \in Workers : HookReport(w)
<1>u. downloads' = downloads => RowsStay /\ NoneProgresses
  BY QuietRows DEF QuietStep
<1>1. CASE Recover
  BY <1>1, RequeueQuiet DEF Recover, PoolInv, QuietStep
<1>2. CASE StartPool \/ Stop \/ Exit \/ Crash
  BY <1>2, <1>u DEF StartPool, Stop, Exit, Crash, ThreadsVanish
<1>3. CASE \/ \E j \in Ids, t \in Stamps : Enqueue(j, t)
           \/ \E j \in Ids : Cancel(j)
           \/ Reap \/ Tick
  BY <1>3, EnqueueQuiet, CancelQuiet, ReapQuiet, TimeQuiet
     DEF Enqueue, Cancel, Reap, Tick, PoolInv, QuietStep
<1>4. ASSUME NEW w \in Workers, NEW j \in Ids, Claim(w, j)
      PROVE  RowsStay /\ NoneProgresses
  BY <1>4, ClaimKeepsRows DEF Claim, PoolInv
<1>5. ASSUME NEW w \in Workers, HookReport(w) PROVE RowsStay
  <2>1. job[w] \in Ids
    BY <1>5, NoIdIsZero DEF HookReport, Goes, PoolInv, TypeOK, JobsHeld, Holding
  <2> QED BY <1>5, <1>u, <2>1, ProgressKeepsRows, ReportedAssumption
          DEF HookReport, PoolInv
<1>6. ASSUME NEW w \in Workers, Release(w)
      PROVE  RowsStay /\ NoneProgresses
  <2>1. PICK phase \in Ended : Goes(w, phase, "loop")
    BY <1>6 DEF Release
  <2>2. job[w] \in Ids /\ pc[w] = phase /\ Outcome(phase) \in Terminal
    BY <2>1, NoIdIsZero
       DEF Goes, Ended, Holding, PoolInv, TypeOK, JobsHeld, Outcome, Terminal
  <2> QED BY <1>6, <2>2, ReleaseQuiet DEF Release, PoolInv, QuietStep
<1>7. ASSUME NEW w \in Workers,
             \/ LoopTest(w) \/ ClaimNothing(w) \/ ReadJob(w) \/ HookPoll(w)
             \/ DownloadFails(w) \/ DownloadFinishes(w) \/ ThreadDies(w)
      PROVE  RowsStay /\ NoneProgresses
  BY <1>7, <1>u DEF LoopTest, ClaimNothing, ReadJob, HookPoll, DownloadFails,
     DownloadFinishes, ThreadDies
<1>8. CASE UNCHANGED vars
  BY <1>8, <1>u DEF vars
<1> QED
  BY <1>1, <1>2, <1>3, <1>4, <1>5, <1>6, <1>7, <1>8 DEF Next, WorkerSteps

-----------------------------------------------------------------------------
(***************************************************************************)
(* The inductive invariant always holds: the types of the columns and      *)
(* variables, and who may hold which row in which status.                  *)
(***************************************************************************)
THEOREM PoolInvariant == Spec => []PoolInv
BY InitInv, NextInv, PTL DEF Spec

(***************************************************************************)
(* No two threads ever work on one job, whatever number of threads claims, *)
(* and however claims, reaps, cancels, deaths and restarts interleave.     *)
(***************************************************************************)
THEOREM ClaimsAreExclusive == Spec => []ExclusiveClaim
BY PoolInvariant, PTL DEF PoolInv

(***************************************************************************)
(* Every column and variable keeps its type: in particular no progress     *)
(* beyond 100 is ever stored, whatever yt-dlp reports.                     *)
(***************************************************************************)
THEOREM PoolTypes == Spec => []TypeOK
BY PoolInvariant, PTL DEF PoolInv

(***************************************************************************)
(* The columns of every row agree with its status at all times.            *)
(***************************************************************************)
THEOREM TableIsConsistent == Spec => []RowsConsistent
<1>1. PoolInv => RowsConsistent
  BY DEF PoolInv, TableInv
<1> QED BY <1>1, PoolInvariant, PTL

(***************************************************************************)
(* A row that ended is never written again: a late thread's progress and   *)
(* result are dropped, and no restart revives it.                          *)
(***************************************************************************)
THEOREM EndedRowsAreFrozen == Spec => TerminalFrozen
<1>1. PoolInv /\ [Next]_vars
        => [\A j \in Ids : downloads[j].status \in Terminal
                              => downloads'[j] = downloads[j]]_vars
  BY NextInv DEF EndedRowsKept
<1> QED BY <1>1, PoolInvariant, PTL DEF Spec, TerminalFrozen

-----------------------------------------------------------------------------
(***************************************************************************)
(* Stranded rows are counted against dead threads.  A step either strands  *)
(* nothing, or is the death of a thread, which strands what it held.       *)
(***************************************************************************)
Dead == {w \in Workers : pc[w] = "dead"}

CountsOK ==
  /\ IsFiniteSet(Stranded) /\ IsFiniteSet(Dead)
  /\ Cardinality(Stranded) \in Nat /\ Cardinality(Dead) \in Nat

LEMMA CountsAreNumbers == CountsOK
<1>1. IsFiniteSet(Ids)
  BY FS_Interval, MaxIdAssumption DEF Ids
<1>2. Stranded \in SUBSET Ids /\ Dead \in SUBSET Workers
  BY DEF Stranded, Dead
<1>3. IsFiniteSet(Stranded) /\ IsFiniteSet(Dead)
  BY <1>1, <1>2, FS_Subset, WorkersAssumption
<1> QED BY <1>3, FS_CardinalityType DEF CountsOK

LEMMA CountsStayNumbers == CountsOK /\ CountsOK'
BY CountsAreNumbers, PTL

LEMMA NothingStrands ==
  ASSUME Alive, StrandInv, Stranded' \subseteq Stranded, Dead \subseteq Dead'
  PROVE  DeathStrandsOneJob'
<1>1. Cardinality(Stranded') <= Cardinality(Stranded)
  BY CountsAreNumbers, FS_Subset DEF CountsOK
<1>2. Cardinality(Dead) <= Cardinality(Dead')
  BY CountsStayNumbers, FS_Subset DEF CountsOK
<1>3. Cardinality(Stranded) <= Cardinality(Dead)
  BY DEF StrandInv, DeathStrandsOneJob, Dead
<1>4. Cardinality(Stranded') <= Cardinality(Dead')
  BY <1>1, <1>2, <1>3, CountsStayNumbers DEF CountsOK
<1> QED BY <1>4 DEF DeathStrandsOneJob, Dead

\* A row is stranded only by a step that takes its thread away.
LEMMA KeptRowsDoNotStrand ==
  ASSUME StrandInv, Alive, Dead \subseteq Dead',
         \A k \in Ids : downloads'[k].status = "active"
           => \/ \E v \in Workers : Holds(v, k)'
              \/ /\ downloads[k].status = "active"
                 /\ \A v \in Workers : Holds(v, k) => Holds(v, k)'
  PROVE  DeathStrandsOneJob'
<1>1. Stranded' \subseteq Stranded
  BY DEF Stranded
<1> QED BY <1>1, NothingStrands

LEMMA OneMore ==
  ASSUME NEW S, IsFiniteSet(S), NEW x
  PROVE  /\ IsFiniteSet(S \cup {x})
         /\ Cardinality(S \cup {x}) <= Cardinality(S) + 1
<1>1. Cardinality(S) \in Nat
  BY FS_CardinalityType
<1>2. CASE x \in S
  <2>1. S \cup {x} = S
    BY <1>2
  <2>2. IsFiniteSet(S \cup {x}) /\ Cardinality(S \cup {x}) = Cardinality(S)
    BY <2>1, Zenon
  <2> QED BY <1>1, <2>2
<1>3. CASE x \notin S
  BY <1>1, <1>3, FS_AddElement
<1> QED BY <1>2, <1>3

LEMMA DeathStrands ==
  ASSUME PoolInv, StrandInv, NEW w \in Workers, ThreadDies(w)
  PROVE  DeathStrandsOneJob'
<1>1. PICK phase \in {"claiming", "claimed"} \cup Ended : Goes(w, phase, "dead")
  BY DEF ThreadDies
<1>2. /\ Alive /\ pc[w] # "dead" /\ pc'[w] = "dead"
      /\ \A v \in Workers \ {w} : pc'[v] = pc[v] /\ job'[v] = job[v]
  BY <1>1 DEF Goes, Ended, ThreadDies, LetsGo, PoolInv, TypeOK
<1>3. Dead' = Dead \cup {w} /\ w \notin Dead
  BY <1>2 DEF Dead
<1>4. Stranded' \subseteq Stranded \cup {job[w]}
  BY <1>2 DEF Stranded, Holds, ThreadDies
<1>5. Cardinality(Dead') = Cardinality(Dead) + 1
  BY <1>3, CountsAreNumbers, FS_AddElement DEF CountsOK
<1>6. /\ IsFiniteSet(Stranded \cup {job[w]})
      /\ Cardinality(Stranded \cup {job[w]}) <= Cardinality(Stranded) + 1
  BY CountsAreNumbers, OneMore DEF CountsOK
<1>7. Cardinality(Stranded') <= Cardinality(Stranded \cup {job[w]})
  BY <1>4, <1>6, FS_Subset
<1>8. Cardinality(Stranded) <= Cardinality(Dead)
  BY <1>2 DEF StrandInv, DeathStrandsOneJob, Dead
<1>9. Cardinality(Stranded \cup {job[w]}) \in Nat /\ Cardinality(Stranded') \in Nat
  BY <1>4, <1>6, FS_Subset, FS_CardinalityType
<1>10. Cardinality(Stranded') <= Cardinality(Dead')
  BY <1>5, <1>6, <1>7, <1>8, <1>9, CountsAreNumbers DEF CountsOK
<1> QED BY <1>10 DEF DeathStrandsOneJob, Dead

LEMMA WorkerStrands ==
  ASSUME PoolInv, StrandInv, NEW w \in Workers, WorkerSteps(w)
  PROVE  DeathStrandsOneJob'
<1> USE DEF Holding, Ended
<1>m. /\ Alive /\ pc[w] # "dead"
      /\ \A v \in Workers \ {w} : pc'[v] = pc[v] /\ job'[v] = job[v]
  BY DEF WorkerSteps, LoopTest, ClaimNothing, Claim, ReadJob, HookPoll, HookReport,
     DownloadFails, DownloadFinishes, Release, LetsGo, Goes, PoolInv, TypeOK
<1>d. Dead \subseteq Dead'
  BY <1>m DEF Dead
<1>h. \A v \in Workers \ {w}, k \in Ids : Holds(v, k) => Holds(v, k)'
  BY <1>m DEF Holds
<1>1. CASE \E j \in Ids : Claim(w, j)
  <2>1. PICK j \in Ids : Claim(w, j)
    BY <1>1
  <2>2. Holds(w, j)' /\ \A k \in Ids : ~Holds(w, k)
    BY <2>1 DEF Claim, Goes, Holds, PoolInv, TypeOK
  <2>3. \A k \in Ids \ {j} : downloads'[k] = downloads[k]
    BY <2>1, ClaimInv DEF Claim, PoolInv
  <2> QED BY <1>m, <1>d, <1>h, <2>2, <2>3, KeptRowsDoNotStrand
<1>2. CASE Release(w)
  <2>1. PICK phase \in Ended : Goes(w, phase, "loop")
    BY <1>2 DEF Release
  <2>2. job[w] \in Ids /\ pc[w] = phase /\ Outcome(phase) \in Terminal
    BY <2>1, NoIdIsZero DEF Goes, PoolInv, TypeOK, JobsHeld, Outcome, Terminal
  <2>3. QuietStep /\ downloads'[job[w]].status # "active"
    BY <1>2, <2>2, ReleaseQuiet DEF Release, PoolInv
  <2>4. \A k \in Ids \ {job[w]} : ~Holds(w, k)
    BY DEF Holds
  <2> QED BY <1>m, <1>d, <1>h, <2>3, <2>4, KeptRowsDoNotStrand
          DEF QuietStep, NoneStarted
<1>3. CASE \/ LoopTest(w) \/ ClaimNothing(w) \/ ReadJob(w) \/ HookPoll(w)
           \/ HookReport(w) \/ DownloadFails(w) \/ DownloadFinishes(w)
  <2>1. NoneStarted
    <3>1. CASE HookReport(w)
      <4>1. job[w] \in Ids
        BY <3>1, NoIdIsZero DEF HookReport, Goes, PoolInv, TypeOK, JobsHeld
      <4> QED BY <3>1, <4>1, ProgressKeepsRows, ReportedAssumption
              DEF HookReport, PoolInv, NoneStarted
    <3>2. CASE ~HookReport(w)
      BY <1>3, <3>2 DEF LoopTest, ClaimNothing, ReadJob, HookPoll, DownloadFails,
         DownloadFinishes, NoneStarted
    <3> QED BY <3>1, <3>2
  <2>2. \A k \in Ids : Holds(w, k) => Holds(w, k)'
    <3>1. ReadJob(w) => Exists(job[w])
      BY DEF ReadJob, Goes, PoolInv, HeldRows, Exists
    <3> QED BY <1>3, <3>1 DEF LoopTest, ClaimNothing, ReadJob, HookPoll,
            HookReport, DownloadFails, DownloadFinishes, Goes, Holds, PoolInv,
            TypeOK
  <2> QED BY <1>m, <1>d, <1>h, <2>1, <2>2, KeptRowsDoNotStrand DEF NoneStarted
<1> QED BY <1>1, <1>2, <1>3 DEF WorkerSteps

LEMMA StrandStep ==
  ASSUME PoolInv, StrandInv, [Next]_vars PROVE StrandInv'
<1>t. CASE /\ NoneStarted /\ UNCHANGED threads
           /\ server' = server \/ (Alive /\ server' = "stopping")
  <2>1. RecoveredIsIdle'
    BY <1>t DEF StrandInv, RecoveredIsIdle, NoneStarted
  <2>2. Dead \subseteq Dead' /\ \A v \in Workers, k \in Ids : Holds(v, k) => Holds(v, k)'
    BY <1>t DEF threads, Dead, Holds
  <2>3. CASE Alive
    BY <1>t, <2>1, <2>2, <2>3, KeptRowsDoNotStrand DEF StrandInv, NoneStarted
  <2>4. CASE ~Alive
    BY <1>t, <2>1, <2>4 DEF StrandInv, DeathStrandsOneJob, Alive
  <2> QED BY <2>3, <2>4
<1>1. CASE Recover
  BY <1>1, RequeueQuiet
     DEF Recover, PoolInv, StrandInv, RecoveredIsIdle, DeathStrandsOneJob, Alive
<1>2. CASE StartPool
  <2>1. Stranded' = {}
    BY <1>2 DEF StartPool, StrandInv, RecoveredIsIdle, Stranded
  <2>2. Cardinality(Dead') \in Nat
    BY CountsStayNumbers DEF CountsOK
  <2> QED BY <1>2, <2>1, <2>2, FS_EmptySet
          DEF StartPool, StrandInv, RecoveredIsIdle, DeathStrandsOneJob, Dead
<1>3. CASE Exit \/ Crash
  BY <1>3 DEF Exit, Crash, ThreadsVanish, StrandInv, RecoveredIsIdle,
     DeathStrandsOneJob, Alive
<1>4. CASE Stop
  BY <1>4, <1>t DEF Stop, Alive, NoneStarted
<1>5. CASE \/ \E j \in Ids, t \in Stamps : Enqueue(j, t)
           \/ \E j \in Ids : Cancel(j)
           \/ Reap \/ Tick
  <2>1. NoneStarted
    BY <1>5, EnqueueQuiet, CancelQuiet, ReapQuiet, TimeQuiet
       DEF Enqueue, Cancel, Reap, Tick, PoolInv, QuietStep
  <2> QED BY <1>5, <2>1, <1>t DEF Enqueue, Cancel, Reap, Tick
<1>6. ASSUME NEW w \in Workers, WorkerSteps(w) \/ ThreadDies(w) PROVE StrandInv'
  <2>1. Alive /\ server' = server
    BY <1>6 DEF WorkerSteps, LoopTest, ClaimNothing, Claim, ReadJob, HookPoll,
       HookReport, DownloadFails, DownloadFinishes, Release, ThreadDies, LetsGo,
       Goes
  <2>2. DeathStrandsOneJob'
    BY <1>6, WorkerStrands, DeathStrands
  <2> QED BY <2>1, <2>2 DEF StrandInv, RecoveredIsIdle, Alive
<1>7. CASE UNCHANGED vars
  BY <1>7, <1>t DEF vars, threads, NoneStarted
<1> QED BY <1>1, <1>2, <1>3, <1>4, <1>5, <1>6, <1>7 DEF Next

LEMMA StrandInvariant == Spec => [](PoolInv /\ StrandInv)
<1>1. Init => StrandInv
  BY DEF Init, StrandInv, RecoveredIsIdle, DeathStrandsOneJob, Alive
<1>2. PoolInv /\ StrandInv /\ [Next]_vars => StrandInv'
  BY StrandStep
<1> QED BY <1>1, <1>2, PoolInvariant, PTL DEF Spec

(***************************************************************************)
(* For any number of threads: while the process lives, no more rows are    *)
(* active with nobody working on them than threads have died.              *)
(***************************************************************************)
THEOREM DeathsStrandNoMore == Spec => []DeathStrandsOneJob
<1>1. StrandInv => DeathStrandsOneJob
  BY DEF StrandInv
<1> QED BY <1>1, StrandInvariant, PTL

-----------------------------------------------------------------------------
(***************************************************************************)
(* The server implements JobLifecycle: every step of it is one step in the *)
(* life of one job, a timeout of some, a new start of all, or nothing.     *)
(* What the life of a job leaves open, how late a request to cancel takes  *)
(* effect, is the last part (CancelLatency).                               *)
(***************************************************************************)
\* The refinement mapping, and what a step of the table does to it.
state == [j \in Ids |-> downloads[j].status]
asked == [j \in Ids |-> IsCancelRequested(j)]

LEMMA OneJobChanges ==
  ASSUME NEW j \in Ids, \A k \in Ids \ {j} : downloads'[k] = downloads[k],
         NEW s, downloads'[j].status = s
  PROVE  state' = [state EXCEPT ![j] = s]
BY DEF state

LEMMA OneJobAsked ==
  ASSUME NEW j \in Ids, \A k \in Ids \ {j} : downloads'[k] = downloads[k],
         IsCancelRequested(j)'
  PROVE  asked' = [asked EXCEPT ![j] = TRUE]
<1>1. IsCancelRequested(j)' = TRUE
  BY DEF IsCancelRequested
<1>2. \A k \in Ids \ {j} : IsCancelRequested(k)' = IsCancelRequested(k)
  BY DEF IsCancelRequested, Exists
<1>3. asked' = [k \in Ids |-> IF k = j THEN TRUE ELSE asked[k]]
  BY <1>1, <1>2, Zenon DEF asked
<1> QED BY <1>3 DEF asked

LEMMA SameStatus ==
  ASSUME NEW j \in Ids, \A k \in Ids \ {j} : downloads'[k] = downloads[k]
  PROVE  /\ downloads'[j].status = downloads[j].status => UNCHANGED state
         /\ IsCancelRequested(j)' = IsCancelRequested(j) => UNCHANGED asked
BY DEF state, asked, IsCancelRequested, Exists

LEMMA NothingHappens ==
  downloads' = downloads => UNCHANGED <<state, asked>>
BY DEF state, asked, IsCancelRequested, Exists

-----------------------------------------------------------------------------
LEMMA Submits ==
  ASSUME PoolInv, NEW j \in Ids, NEW t \in Stamps, EnqueueDownload(j, t)
  PROVE  Lifecycle!Submit(j)
<1>1. /\ downloads'[j] = NewRow(t)
      /\ \A k \in Ids \ {j} : downloads'[k] = downloads[k]
  BY DEF EnqueueDownload, PoolInv, TypeOK, TableOK
<1>2. ~Exists(j) /\ \A k \in Ids : k > j => ~Exists(k)
  BY DEF EnqueueDownload, IsNextId, Ids
<1>3. downloads'[j].status = "queued" /\ ~IsCancelRequested(j)'
  BY <1>1 DEF NewRow, IsCancelRequested
<1>4. UNCHANGED asked
  BY <1>1, <1>2, <1>3 DEF asked, IsCancelRequested, Exists
<1>5. state' = [state EXCEPT ![j] = "queued"]
  BY <1>1, <1>3, OneJobChanges
<1> QED BY <1>2, <1>4, <1>5 DEF Lifecycle!Submit, state, asked, Exists

LEMMA Starts ==
  ASSUME PoolInv, NEW j \in Ids, ClaimNext(j) PROVE Lifecycle!Start(j)
<1>1. /\ downloads[j].status = "queued" /\ downloads'[j].status = "active"
      /\ \A k \in Ids \ {j} : downloads'[k] = downloads[k]
  BY ClaimInv DEF PoolInv
<1>2. ASSUME NEW k \in Ids, downloads[k].status = "queued" PROVE j <= k
  <2>1. Exists(j) /\ Exists(k) /\ downloads[j] \in Row /\ downloads[k] \in Row
    BY <1>1, <1>2, ExistingRow DEF PoolInv, Statuses
  <2>2. k # j => ClaimedBefore(j, k)
    BY <1>2 DEF ClaimNext, Claimable
  <2>3. downloads[j].created_at \in Int /\ downloads[k].created_at \in Int
    BY <2>1 DEF Row, Stamps
  <2>4. k < j => downloads[k].created_at <= downloads[j].created_at
    BY <2>1 DEF PoolInv, TableInv, StampsFollowIds
  <2> QED BY <2>2, <2>3, <2>4 DEF ClaimedBefore, Ids
<1>3. downloads'[j].cancel_requested = downloads[j].cancel_requested
  <2>1. ASSUME NEW r \in Row,
               NEW s, s = [r EXCEPT !.status = "active", !.claimed_at = 0]
        PROVE  s.cancel_requested = r.cancel_requested
    BY <2>1 DEF Row
  <2>2. downloads[j] \in Row
    BY <1>1, ExistingRow DEF PoolInv, Statuses
  <2>3. downloads'[j] = [downloads[j] EXCEPT !.status = "active", !.claimed_at = 0]
    BY DEF ClaimNext, PoolInv, TypeOK, TableOK
  <2> QED BY <2>1, <2>2, <2>3
<1>4. UNCHANGED asked
  BY <1>1, <1>3, SameStatus DEF IsCancelRequested, Exists
<1>5. state' = [state EXCEPT ![j] = "active"]
  BY <1>1, OneJobChanges
<1> QED BY <1>1, <1>2, <1>4, <1>5 DEF Lifecycle!Start, state, asked

LEMMA Reports ==
  ASSUME PoolInv, NEW j \in Ids, NEW p \in Int, UpdateProgress(j, p)
  PROVE  UNCHANGED <<state, asked>>
<1>1. CASE downloads[j].status # "active"
  BY <1>1, NothingHappens DEF UpdateProgress
<1>2. CASE downloads[j].status = "active"
  <2>1. ASSUME NEW r \in Row, NEW s, s = [r EXCEPT !.progress = Clamped(p)]
        PROVE  s.status = r.status /\ s.cancel_requested = r.cancel_requested
    BY <2>1 DEF Row
  <2>2. downloads[j] \in Row
    BY <1>2, ExistingRow DEF PoolInv, Statuses
  <2>3. /\ downloads'[j] = [downloads[j] EXCEPT !.progress = Clamped(p)]
        /\ \A k \in Ids \ {j} : downloads'[k] = downloads[k]
    BY <1>2 DEF UpdateProgress, PoolInv, TypeOK, TableOK
  <2>4. /\ downloads'[j].status = downloads[j].status
        /\ downloads'[j].cancel_requested = downloads[j].cancel_requested
    BY <2>1, <2>2, <2>3
  <2> QED BY <2>3, <2>4, SameStatus DEF IsCancelRequested, Exists
<1> QED BY <1>1, <1>2

LEMMA Ends ==
  ASSUME PoolInv, NEW j \in Ids, NEW outcome \in Terminal, NEW path,
         outcome = "cancelled" => downloads[j].cancel_requested,
         ReleaseJob(j, outcome, path)
  PROVE  Lifecycle!End(j, outcome) \/ UNCHANGED <<state, asked>>
<1>1. CASE ~Releasable(downloads[j])
  BY <1>1, NothingHappens DEF ReleaseJob
<1>2. CASE Releasable(downloads[j])
  <2> DEFINE Released(r) ==
        [r EXCEPT !.status = outcome,
                  !.finished_at = TRUE,
                  !.error_code = IF outcome = "error" THEN "ytdlp_error" ELSE @,
                  !.file_path = IF path = NoPath THEN @ ELSE path]
  <2>1. ASSUME NEW r \in Row, NEW s, s = Released(r)
        PROVE  s.status = outcome /\ s.cancel_requested = r.cancel_requested
    BY <2>1 DEF Row
  <2>2. downloads[j] \in Row /\ Exists(j) /\ downloads[j].status = "active"
    BY <1>2, ExistingRow DEF PoolInv, Statuses, Releasable
  <2>3. /\ downloads'[j] = Released(downloads[j])
        /\ \A k \in Ids \ {j} : downloads'[k] = downloads[k]
    BY <1>2 DEF ReleaseJob, PoolInv, TypeOK, TableOK
  <2>4. /\ downloads'[j].status = outcome
        /\ downloads'[j].cancel_requested = downloads[j].cancel_requested
    BY <2>1, <2>2, <2>3
  <2>5. state' = [state EXCEPT ![j] = outcome]
    BY <2>3, <2>4, OneJobChanges
  <2>6. UNCHANGED asked
    <3>1. Exists(j)'
      BY <2>4 DEF Exists, Terminal
    <3> QED BY <2>2, <2>3, <2>4, <3>1, SameStatus DEF IsCancelRequested
  <2>7. outcome = "cancelled" => asked[j]
    BY <2>2 DEF asked, IsCancelRequested
  <2>8. outcome \in {"done", "error"} \/ (outcome = "cancelled" /\ asked[j])
    BY <2>7 DEF Terminal
  <2>9. state[j] = "active"
    BY <2>2 DEF state
  <2> QED BY <2>5, <2>6, <2>8, <2>9 DEF Lifecycle!End, state, asked
<1> QED BY <1>1, <1>2

LEMMA Cancels ==
  ASSUME PoolInv, NEW j \in Ids, CancelJob(j)
  PROVE  \/ Lifecycle!CancelQueued(j)
         \/ Lifecycle!AskToCancel(j)
         \/ UNCHANGED <<state, asked>>
<1>1. CASE downloads[j].status = "queued"
  <2> DEFINE Cancelled(r) ==
        [r EXCEPT !.status = "cancelled", !.finished_at = TRUE]
  <2>1. ASSUME NEW r \in Row, NEW s, s = Cancelled(r)
        PROVE  s.status = "cancelled" /\ s.cancel_requested = r.cancel_requested
    BY <2>1 DEF Row
  <2>2. downloads[j] \in Row /\ Exists(j)
    BY <1>1, ExistingRow DEF PoolInv, Statuses
  <2>3. /\ downloads'[j] = Cancelled(downloads[j])
        /\ \A k \in Ids \ {j} : downloads'[k] = downloads[k]
    BY <1>1 DEF CancelJob, PoolInv, TypeOK, TableOK
  <2>4. /\ downloads'[j].status = "cancelled"
        /\ downloads'[j].cancel_requested = downloads[j].cancel_requested
    BY <2>1, <2>2, <2>3
  <2>5. state' = [state EXCEPT ![j] = "cancelled"]
    BY <2>3, <2>4, OneJobChanges
  <2>6. UNCHANGED asked
    <3>1. Exists(j)'
      BY <2>4 DEF Exists
    <3> QED BY <2>2, <2>3, <2>4, <3>1, SameStatus DEF IsCancelRequested
  <2> QED BY <1>1, <2>5, <2>6 DEF Lifecycle!CancelQueued, state, asked
<1>2. CASE downloads[j].status = "active"
  <2> DEFINE Flagged(r) == [r EXCEPT !.cancel_requested = TRUE]
  <2>1. ASSUME NEW r \in Row, NEW s, s = Flagged(r)
        PROVE  s.status = r.status /\ s.cancel_requested = TRUE
    BY <2>1 DEF Row
  <2>2. downloads[j] \in Row
    BY <1>2, ExistingRow DEF PoolInv, Statuses
  <2>3. /\ downloads'[j] = Flagged(downloads[j])
        /\ \A k \in Ids \ {j} : downloads'[k] = downloads[k]
    BY <1>2 DEF CancelJob, PoolInv, TypeOK, TableOK
  <2>4. downloads'[j].status = "active" /\ downloads'[j].cancel_requested = TRUE
    BY <1>2, <2>1, <2>2, <2>3
  <2>5. asked' = [asked EXCEPT ![j] = TRUE]
    <3>1. IsCancelRequested(j)'
      BY <2>4 DEF IsCancelRequested, Exists
    <3> QED BY <2>3, <3>1, OneJobAsked
  <2>6. UNCHANGED state
    BY <1>2, <2>3, <2>4, SameStatus
  <2> QED BY <1>2, <2>5, <2>6 DEF Lifecycle!AskToCancel, state, asked
<1>3. CASE downloads[j].status \notin {"queued", "active"}
  BY <1>3, NothingHappens DEF CancelJob
<1> QED BY <1>1, <1>2, <1>3

LEMMA TimesOut ==
  ASSUME PoolInv, DetectStaleJobs
  PROVE  \E gone \in SUBSET Ids : Lifecycle!TimeOut(gone)
<1> DEFINE gone == {j \in Ids : IsStale(downloads[j])}
           Failed(r) == [r EXCEPT !.status = "error",
                                  !.error_code = "stale_worker",
                                  !.finished_at = TRUE]
<1>1. ASSUME NEW r \in Row, NEW s, s = Failed(r)
      PROVE  s.status = "error" /\ s.cancel_requested = r.cancel_requested
  BY <1>1 DEF Row
<1>2. \A k \in gone : downloads[k].status = "active" /\ downloads[k] \in Row
  BY ExistingRow DEF IsStale, PoolInv, Statuses
<1>3. \A k \in Ids :
        downloads'[k] = IF k \in gone THEN Failed(downloads[k]) ELSE downloads[k]
  BY DEF DetectStaleJobs
<1> HIDE DEF gone, Failed
<1>4. \A k \in gone :
        /\ downloads'[k].status = "error"
        /\ downloads'[k].cancel_requested = downloads[k].cancel_requested
  <2>1. gone \subseteq Ids
    BY DEF gone
  <2> QED BY <1>1, <1>2, <1>3, <2>1
<1>5. state' = [j \in Ids |-> IF j \in gone THEN "error" ELSE state[j]]
  BY <1>3, <1>4 DEF state
<1>6. \A k \in Ids : IsCancelRequested(k)' = IsCancelRequested(k)
  BY <1>2, <1>3, <1>4 DEF IsCancelRequested, Exists
<1>7. UNCHANGED asked
  BY <1>6, Zenon DEF asked
<1>8. gone \in SUBSET Ids /\ \A j \in gone : state[j] = "active"
  BY <1>2 DEF gone, state
<1> QED BY <1>5, <1>7, <1>8 DEF Lifecycle!TimeOut, state, asked

LEMMA StartsOver ==
  ASSUME PoolInv, RequeueActiveOnStartup PROVE Lifecycle!StartOver
<1> DEFINE Requeued(r) == [r EXCEPT !.status = "queued", !.claimed_at = NULL]
<1>1. ASSUME NEW r \in Row, NEW s, s = Requeued(r)
      PROVE  s.status = "queued" /\ s.cancel_requested = r.cancel_requested
  BY <1>1 DEF Row
<1>2. \A k \in Ids : downloads[k].status = "active" => downloads[k] \in Row
  BY ExistingRow DEF PoolInv, Statuses
<1>3. \A k \in Ids :
        downloads'[k] = IF downloads[k].status = "active"
                        THEN Requeued(downloads[k]) ELSE downloads[k]
  BY DEF RequeueActiveOnStartup
<1> HIDE DEF Requeued
<1>4. \A k \in Ids :
        downloads[k].status = "active"
          => /\ downloads'[k].status = "queued"
             /\ downloads'[k].cancel_requested = downloads[k].cancel_requested
  BY <1>1, <1>2, <1>3
<1>5. state' = [j \in Ids |-> IF state[j] = "active" THEN "queued" ELSE state[j]]
  BY <1>3, <1>4 DEF state
<1>6. \A k \in Ids : IsCancelRequested(k)' = IsCancelRequested(k)
  BY <1>3, <1>4 DEF IsCancelRequested, Exists
<1>7. UNCHANGED asked
  BY <1>6, Zenon DEF asked
<1> QED BY <1>5, <1>7 DEF Lifecycle!StartOver, state, asked

LEMMA Waits ==
  ASSUME PoolInv, TimePasses PROVE UNCHANGED <<state, asked>>
<1> DEFINE Older(r) == [r EXCEPT !.claimed_at = @ + 1]
<1>1. ASSUME NEW r \in Row, NEW s, s = Older(r)
      PROVE  s.status = r.status /\ s.cancel_requested = r.cancel_requested
  BY <1>1 DEF Row
<1>2. \A k \in Ids : Growing(downloads[k]) => downloads[k] \in Row
  BY ExistingRow DEF PoolInv, Statuses, Growing
<1>3. \A k \in Ids :
        downloads'[k] = IF Growing(downloads[k])
                        THEN Older(downloads[k]) ELSE downloads[k]
  BY DEF TimePasses
<1> HIDE DEF Older
<1>4. \A k \in Ids :
        Growing(downloads[k])
          => /\ downloads'[k].status = downloads[k].status
             /\ downloads'[k].cancel_requested = downloads[k].cancel_requested
  BY <1>1, <1>2, <1>3
<1>5. UNCHANGED state
  BY <1>3, <1>4 DEF state
<1>6. \A k \in Ids : IsCancelRequested(k)' = IsCancelRequested(k)
  BY <1>3, <1>4 DEF IsCancelRequested, Exists
<1> QED BY <1>5, <1>6, Zenon DEF asked

-----------------------------------------------------------------------------
LEMMA InitRefines == Init => Lifecycle!JobInit
<1> SUFFICES ASSUME Init PROVE Lifecycle!JobInit
  OBVIOUS
<1>1. state = [j \in Ids |-> "absent"]
  BY DEF Init, TableInit, Absent, state
<1>2. \A j \in Ids : IsCancelRequested(j) = FALSE
  BY DEF Init, TableInit, Absent, IsCancelRequested, Exists
<1>3. asked = [j \in Ids |-> FALSE]
  BY <1>2, Zenon DEF asked
<1> QED BY <1>1, <1>3 DEF Lifecycle!JobInit, state, asked

LEMMA StepRefines ==
  PoolInv /\ [Next]_vars => [Lifecycle!JobNext]_<<state, asked>>
<1> SUFFICES ASSUME PoolInv, [Next]_vars
             PROVE  Lifecycle!JobNext \/ UNCHANGED <<state, asked>>
  OBVIOUS
<1>n. downloads' = downloads => UNCHANGED <<state, asked>>
  BY NothingHappens
<1>1. CASE Recover
  BY <1>1, StartsOver DEF Recover, Lifecycle!JobNext
<1>2. CASE StartPool \/ Stop \/ Exit \/ Crash
  BY <1>2, <1>n DEF StartPool, Stop, Exit, Crash, ThreadsVanish
<1>3. ASSUME NEW j \in Ids, NEW t \in Stamps, Enqueue(j, t)
      PROVE  Lifecycle!JobNext
  BY <1>3, Submits DEF Enqueue, Lifecycle!JobNext
<1>4. ASSUME NEW j \in Ids, Cancel(j)
      PROVE  Lifecycle!JobNext \/ UNCHANGED <<state, asked>>
  BY <1>4, Cancels DEF Cancel, Lifecycle!JobNext
<1>5. ASSUME NEW w \in Workers, WorkerSteps(w) \/ ThreadDies(w)
      PROVE  Lifecycle!JobNext \/ UNCHANGED <<state, asked>>
  <2>h. pc[w] \in Holding => job[w] \in Ids
    BY NoIdIsZero DEF PoolInv, TypeOK, JobsHeld
  <2>1. CASE LoopTest(w) \/ ClaimNothing(w) \/ ReadJob(w) \/ HookPoll(w)
             \/ DownloadFails(w) \/ DownloadFinishes(w) \/ ThreadDies(w)
    BY <2>1, <1>n DEF LoopTest, ClaimNothing, ReadJob, HookPoll, DownloadFails,
       DownloadFinishes, ThreadDies
  <2>2. ASSUME NEW j \in Ids, Claim(w, j) PROVE Lifecycle!JobNext
    BY <2>2, Starts DEF Claim, Lifecycle!JobNext
  <2>3. CASE HookReport(w)
    <3>1. pc[w] \in Holding
      BY <2>3 DEF HookReport, Goes, Holding
    <3> QED BY <2>3, <2>h, <3>1, <1>n, Reports, ReportedAssumption DEF HookReport
  <2>4. CASE Release(w)
    <3>1. pc[w] \in Ended /\ job[w] \in Ids
      BY <2>4, <2>h DEF Release, Goes, Holding
    <3>2. /\ Outcome(pc[w]) \in {"done", "error", "cancelled"}
          /\ Outcome(pc[w]) = "cancelled" => downloads[job[w]].cancel_requested
      BY <3>1 DEF Outcome, Ended, PoolInv, CancelSeen
    <3>3. ReleaseJob(job[w], Outcome(pc[w]), result[w])
      BY <2>4 DEF Release
    <3>4. ASSUME NEW j \in Ids, NEW outcome \in Terminal, NEW path,
                 outcome = "cancelled" => downloads[j].cancel_requested,
                 ReleaseJob(j, outcome, path)
          PROVE  Lifecycle!JobNext \/ UNCHANGED <<state, asked>>
      BY <3>4, Ends DEF Lifecycle!JobNext, Terminal
    <3> QED BY <3>1, <3>2, <3>3, <3>4 DEF Terminal
  <2> QED BY <1>5, <2>1, <2>2, <2>3, <2>4 DEF WorkerSteps
<1>6. CASE Reap
  BY <1>6, TimesOut DEF Reap, Lifecycle!JobNext
<1>7. CASE Tick
  BY <1>7, Waits DEF Tick
<1>8. CASE UNCHANGED vars
  BY <1>8, <1>n DEF vars
<1> QED BY <1>1, <1>2, <1>3, <1>4, <1>5, <1>6, <1>7, <1>8 DEF Next

(***************************************************************************)
(* The server implements the documented life of a download: first come,    *)
(* first served; an end is final; cancelled in flight only on request.     *)
(***************************************************************************)
THEOREM ServerKeepsLifecycle == Spec => KeepsLifecycle
<1>1. UNCHANGED <<state, asked>> => UNCHANGED Lifecycle!jobVars
  BY DEF Lifecycle!jobVars, state, asked
<1>2. PoolInv /\ [Next]_vars => [Lifecycle!JobNext]_(Lifecycle!jobVars)
  BY StepRefines, <1>1
<1> QED
  BY InitRefines, PoolInvariant, <1>2, PTL
     DEF Spec, KeepsLifecycle, Lifecycle!JobSpec

-----------------------------------------------------------------------------
\* Only a poll that finds no request makes a thread a poller.
LEMMA OnlyPollsPoll ==
  ASSUME PoolInv, [Next]_vars, NEW w \in Workers, pc'[w] = "polled"
  PROVE  /\ job'[w] = job[w]
         /\ pc[w] = "polled" \/ (HookPoll(w) /\ ~IsCancelRequested(job[w]))
<1>1. CASE Recover \/ StartPool \/ Stop \/ Exit \/ Crash \/ Reap \/ Tick \/ UNCHANGED vars
  BY <1>1 DEF Recover, StartPool, Stop, Exit, Crash, ThreadsVanish, Reap, Tick,
     threads, vars
<1>2. CASE \/ \E j \in Ids, t \in Stamps : Enqueue(j, t)
           \/ \E j \in Ids : Cancel(j)
  BY <1>2 DEF Enqueue, Cancel, threads
<1>3. ASSUME NEW v \in Workers, WorkerSteps(v) \/ ThreadDies(v)
      PROVE  /\ job'[w] = job[w]
             /\ pc[w] = "polled" \/ (HookPoll(w) /\ ~IsCancelRequested(job[w]))
  <2>1. CASE v # w
    BY <1>3, <2>1 DEF WorkerSteps, LoopTest, ClaimNothing, Claim, ReadJob, HookPoll,
       HookReport, DownloadFails, DownloadFinishes, Release, ThreadDies, LetsGo,
       Goes, PoolInv, TypeOK
  <2>2. CASE v = w
    <3>1. HookPoll(w)
      BY <1>3, <2>2 DEF WorkerSteps, LoopTest, ClaimNothing, Claim, ReadJob,
         HookReport, DownloadFails, DownloadFinishes, Release, ThreadDies, Goes,
         PoolInv, TypeOK, Ended
    <3> QED BY <3>1 DEF HookPoll, Goes, PoolInv, TypeOK
  <2> QED BY <2>1, <2>2
<1> QED BY <1>1, <1>2, <1>3 DEF Next

LEMMA LateStep ==
  ASSUME PoolInv, LateInv, [LateNext]_lateVars PROVE LateInv'
<1>1. CASE UNCHANGED lateVars
  BY <1>1 DEF LateInv, LateIsRequested, PollersAreFirst, IsCancelRequested,
     Exists, vars, lateVars
<1>2. CASE LateNext
  <2>n. [Next]_vars
    BY <1>2 DEF LateNext
  <2>r. RowsStay
    BY <2>n, OnlyReportsProgress
  <2>h. \A w \in Workers : pc[w] = "polled" => job[w] \in Ids
    BY NoIdIsZero DEF PoolInv, TypeOK, JobsHeld, Holding
  <2>l. late' = [j \in Ids |-> IF IsCancelRequested(j) /\ ProgressMoves(j)
                               THEN late[j] + 1 ELSE late[j]]
    BY <1>2 DEF LateNext
  <2>1. CASE NoneProgresses
    <3>1. late' = late
      BY <2>1, <2>l DEF NoneProgresses, ProgressMoves, LateInv
    <3>2. LateIsRequested'
      BY <2>r, <3>1 DEF LateInv, LateIsRequested, RowsStay
    <3>3. ASSUME NEW w \in Workers, pc'[w] = "polled" PROVE late'[job'[w]] = 0
      <4>1. /\ job'[w] = job[w]
            /\ pc[w] = "polled" \/ (HookPoll(w) /\ ~IsCancelRequested(job[w]))
        BY <2>n, <3>3, OnlyPollsPoll
      <4>2. HookPoll(w) => job[w] \in Ids
        BY NoIdIsZero DEF HookPoll, Goes, PoolInv, TypeOK, JobsHeld, Holding
      <4> QED BY <3>1, <4>1, <4>2 DEF LateInv, LateIsRequested, PollersAreFirst
    <3> QED BY <3>1, <3>2, <3>3 DEF LateInv, PollersAreFirst
  <2>2. ASSUME NEW w \in Workers, HookReport(w) PROVE LateInv'
    <3>1. /\ pc[w] = "polled" /\ pc'[w] = "running" /\ job' = job
          /\ \A v \in Workers \ {w} : pc'[v] = pc[v]
      BY <2>2 DEF HookReport, Goes, PoolInv, TypeOK
    <3>2. job[w] \in Ids /\ late[job[w]] = 0
      BY <2>h, <3>1 DEF LateInv, PollersAreFirst
    <3>3. \A k \in Ids \ {job[w]} : downloads'[k] = downloads[k]
      BY <2>2, <3>2, ProgressKeepsRows, ReportedAssumption
         DEF HookReport, PoolInv
    <3>4. \A k \in Ids \ {job[w]} : late'[k] = late[k]
      BY <2>l, <3>3 DEF ProgressMoves
    <3>5. late'[job[w]] \in 0 .. 1
      BY <2>l, <3>2
    <3>6. late' \in [Ids -> 0 .. 1]
      BY <2>l, <3>2, <3>4, <3>5 DEF LateInv
    <3>7. LateIsRequested'
      <4>1. late'[job[w]] # 0 => IsCancelRequested(job[w])
        BY <2>l, <3>2
      <4> QED BY <2>r, <3>2, <3>4, <4>1 DEF LateInv, LateIsRequested, RowsStay
    <3>8. PollersAreFirst'
      <4>1. \A v \in Workers \ {w} : pc[v] = "polled" => job[v] # job[w]
        BY <3>1, <3>2 DEF PoolInv, ExclusiveClaim, Holds, Holding
      <4> QED BY <2>h, <3>1, <3>4, <4>1 DEF LateInv, PollersAreFirst
    <3> QED BY <3>6, <3>7, <3>8 DEF LateInv
  <2> QED BY <2>n, <2>1, <2>2, OnlyReportsProgress
<1> QED BY <1>1, <1>2

(***************************************************************************)
(* After a request to cancel, at most one more progress value is stored    *)
(* for the job, for any number of threads, attempts, restarts and reaps.   *)
(***************************************************************************)
THEOREM OneLateWrite == LateSpec => []AtMostOneLateWrite
<1>1. LateInit => PoolInv /\ LateInv
  <2>1. Init => \A w \in Workers : pc[w] # "polled"
    BY DEF Init, NoThreads
  <2> QED BY <2>1, InitInv DEF LateInit, LateInv, LateIsRequested, PollersAreFirst
<1>2. PoolInv /\ LateInv /\ [LateNext]_lateVars => PoolInv' /\ LateInv'
  <2>1. [LateNext]_lateVars => [Next]_vars
    BY DEF LateNext, lateVars
  <2> QED BY <2>1, NextInv, LateStep
<1>3. LateInv => AtMostOneLateWrite
  BY DEF LateInv, AtMostOneLateWrite
<1> QED BY <1>1, <1>2, <1>3, PTL DEF LateSpec

\* What a step does to the jobs that were put back with a request: a thread
\* that polls one sees the request, and one that has polled holds an active
\* row, or a reaped one, and not one that goes back to the queue.
LEMMA DoomedStep ==
  ASSUME PoolInv, DoomedInv, [LateNext]_lateVars PROVE DoomedInv'
<1>n. [Next]_vars
  BY DEF LateNext, lateVars
<1>r. RowsStay
  BY <1>n, OnlyReportsProgress
<1>1. \A j \in doomed' : \/ j \in doomed
                         \/ j \in Ids /\ IsCancelRequested(j) /\ PutBack(j)
  BY DEF LateNext, lateVars
<1>2. doomed' \subseteq Ids /\ DoomedAreRequested'
  BY <1>r, <1>1 DEF DoomedInv, DoomedAreRequested, RowsStay
<1>3. ASSUME NEW w \in Workers, pc'[w] = "polled" PROVE job'[w] \notin doomed'
  <2>1. /\ job'[w] = job[w]
        /\ pc[w] = "polled" \/ (HookPoll(w) /\ ~IsCancelRequested(job[w]))
    BY <1>n, <1>3, OnlyPollsPoll
  <2>2. job[w] \notin doomed
    BY <2>1 DEF DoomedInv, DoomedAreRequested, NobodyPolledTheDoomed
  <2>3. downloads'[job'[w]].status \in {"active", "error"}
    <3>1. HeldRows'
      BY <1>n, NextInv DEF PoolInv
    <3> QED BY <1>3, <3>1 DEF HeldRows, Holding
  <2>4. ~PutBack(job[w])
    BY <2>1, <2>3 DEF PutBack
  <2> QED BY <1>1, <2>1, <2>2, <2>4
<1> QED BY <1>2, <1>3 DEF DoomedInv, NobodyPolledTheDoomed

LEMMA DoomedStandStill ==
  ASSUME PoolInv, DoomedInv, [LateNext]_lateVars, NEW j \in doomed
  PROVE  ~ProgressMoves(j)
<1>n. [Next]_vars
  BY DEF LateNext, lateVars
<1>1. j \in Ids /\ IsCancelRequested(j)
  BY DEF DoomedInv, DoomedAreRequested
<1>2. CASE NoneProgresses
  BY <1>1, <1>2 DEF NoneProgresses, ProgressMoves
<1>3. ASSUME NEW w \in Workers, HookReport(w) PROVE ~ProgressMoves(j)
  <2>1. pc[w] = "polled" /\ job[w] \in Ids
    BY <1>3, NoIdIsZero DEF HookReport, Goes, PoolInv, TypeOK, JobsHeld, Holding
  <2>2. job[w] # j
    BY <2>1 DEF DoomedInv, NobodyPolledTheDoomed
  <2>3. downloads'[j] = downloads[j]
    BY <1>1, <1>3, <2>1, <2>2, ProgressKeepsRows, ReportedAssumption
       DEF HookReport, PoolInv
  <2> QED BY <2>3 DEF ProgressMoves
<1> QED BY <1>n, <1>2, <1>3, OnlyReportsProgress

(***************************************************************************)
(* A request to cancel survives a restart: the later attempts of a job     *)
(* that was put back with one store no progress, for any number of threads *)
(* and restarts.                                                           *)
(***************************************************************************)
THEOREM RequestsAreRemembered == LateSpec => RequestSurvivesRestart
<1>1. LateInit => PoolInv /\ DoomedInv
  <2>1. Init => \A w \in Workers : pc[w] # "polled"
    BY DEF Init, NoThreads
  <2> QED BY <2>1, InitInv
          DEF LateInit, DoomedInv, DoomedAreRequested, NobodyPolledTheDoomed
<1>2. PoolInv /\ DoomedInv /\ [LateNext]_lateVars => PoolInv' /\ DoomedInv'
  <2>1. [LateNext]_lateVars => [Next]_vars
    BY DEF LateNext, lateVars
  <2> QED BY <2>1, NextInv, DoomedStep
<1>3. PoolInv /\ DoomedInv /\ [LateNext]_lateVars
        => [\A j \in doomed : ~ProgressMoves(j)]_lateVars
  BY DoomedStandStill
<1> QED BY <1>1, <1>2, <1>3, PTL DEF LateSpec, RequestSurvivesRestart

-----------------------------------------------------------------------------
(***************************************************************************)
(* Progress.  A thread takes its job from phase to phase; what the table   *)
(* and the other threads do meanwhile takes neither the job nor a request  *)
(* to cancel it away, short of the end of the claim or of the process.     *)
(***************************************************************************)
Active(j) == downloads[j].status = "active"
Asked(j) == downloads[j].cancel_requested
At(w, j, phases) == pc[w] \in phases /\ job[w] = j

\* What a thread's own step does.
LEMMA OwnStep ==
  ASSUME PoolInv, NEW w \in Workers, WorkerSteps(w)
  PROVE  /\ Alive /\ UNCHANGED server
         /\ pc[w] \in {"claimed", "running", "polled"} => job'[w] = job[w]
         /\ pc[w] = "claimed" => pc'[w] = "running"
         /\ pc[w] = "running" => pc'[w] \in {"polled"} \cup Ended
         /\ pc[w] = "running" /\ IsCancelRequested(job[w]) => pc'[w] \in Ended
         /\ pc[w] = "polled" => pc'[w] \in {"running", "failed"}
         /\ pc[w] \in Ended =>
              pc'[w] = "loop" /\ downloads'[job[w]].status # "active"
         /\ pc[w] = "loop" => pc'[w] \in {"claiming", "off"}
         /\ pc[w] = "claiming" => pc'[w] \in {"claimed", "loop"}
<1> USE DEF Ended
<1>j. pc[w] \in Holding => job[w] \in Ids /\ Exists(job[w])
  BY NoIdIsZero DEF PoolInv, TypeOK, JobsHeld, HeldRows, Exists
<1>1. CASE LoopTest(w) \/ ClaimNothing(w) \/ \E j \in Ids : Claim(w, j)
  BY <1>1 DEF LoopTest, ClaimNothing, Claim, Goes, PoolInv, TypeOK
<1>2. CASE ReadJob(w) \/ HookReport(w)
  BY <1>2, <1>j DEF ReadJob, HookReport, Goes, Holding, PoolInv, TypeOK
<1>3. CASE HookPoll(w)
  BY <1>3 DEF HookPoll, Goes, PoolInv, TypeOK
<1>4. CASE DownloadFails(w) \/ DownloadFinishes(w)
  BY <1>4 DEF DownloadFails, DownloadFinishes, Goes, PoolInv, TypeOK
<1>5. CASE Release(w)
  <2>1. PICK phase \in Ended : Goes(w, phase, "loop")
    BY <1>5 DEF Release
  <2>2. job[w] \in Ids /\ pc[w] = phase /\ Outcome(phase) \in Terminal
    BY <2>1, <1>j DEF Goes, Holding, Outcome, Terminal
  <2>3. downloads'[job[w]].status # "active"
    BY <1>5, <2>2, ReleaseQuiet DEF Release, PoolInv
  <2> QED BY <1>5, <2>1, <2>2, <2>3 DEF Release, LetsGo, Goes, PoolInv, TypeOK
<1> QED BY <1>1, <1>2, <1>3, <1>4, <1>5 DEF WorkerSteps

\* What any other step leaves of a thread.
LEMMA OthersStep ==
  ASSUME PoolInv, [Next]_vars, NEW w \in Workers
  PROVE  \/ WorkerSteps(w)
         \/ pc'[w] = pc[w] /\ job'[w] = job[w]
         \/ pc'[w] = "dead" \/ server' = "down" \/ server = "recovered"
<1>1. CASE Recover \/ Stop \/ UNCHANGED vars \/ Reap \/ Tick
           \/ (\E j \in Ids, t \in Stamps : Enqueue(j, t))
           \/ (\E j \in Ids : Cancel(j))
  BY <1>1 DEF Recover, Stop, Reap, Tick, Enqueue, Cancel, threads, vars
<1>2. CASE StartPool \/ Exit \/ Crash
  BY <1>2 DEF StartPool, Exit, Crash, ThreadsVanish
<1>3. ASSUME NEW v \in Workers \ {w}, WorkerSteps(v) \/ ThreadDies(v)
      PROVE  pc'[w] = pc[w] /\ job'[w] = job[w]
  BY <1>3 DEF WorkerSteps, LoopTest, ClaimNothing, Claim, ReadJob, HookPoll,
     HookReport, DownloadFails, DownloadFinishes, Release, ThreadDies, LetsGo,
     Goes, PoolInv, TypeOK
<1>4. CASE ThreadDies(w)
  BY <1>4 DEF ThreadDies, Goes, PoolInv, TypeOK
<1> QED BY <1>1, <1>2, <1>3, <1>4 DEF Next

\* The phases of a claim, for the thread that holds it.
LEMMA ClaimPhases ==
  ASSUME PoolInv, [Next]_vars, NEW w \in Workers, NEW j \in Ids
  PROVE  \/ pc'[w] = "dead" \/ server' = "down" \/ ~Active(j)'
         \/ /\ At(w, j, {"claimed"}) => At(w, j, {"claimed", "running"})'
            /\ At(w, j, {"running"}) => At(w, j, {"running", "polled"} \cup Ended)'
            /\ At(w, j, {"running"}) /\ Active(j) /\ Asked(j)
                 => At(w, j, {"running"} \cup Ended)'
            /\ At(w, j, {"polled"}) => At(w, j, {"polled", "running"} \cup Ended)'
            /\ At(w, j, Ended) => At(w, j, Ended)'
<1>1. CASE server = "recovered"
  <2>1. pc[w] = "off"
    BY <1>1 DEF PoolInv, ThreadsOfProcess, Alive
  <2> QED BY <2>1 DEF At, Ended
<1>2. CASE pc'[w] = pc[w] /\ job'[w] = job[w]
  BY <1>2 DEF At
<1>3. CASE WorkerSteps(w)
  BY <1>3, OwnStep DEF At, Active, Asked, IsCancelRequested, Exists, Ended
<1> QED BY <1>1, <1>2, <1>3, OthersStep

LEMMA RequestsStay ==
  ASSUME PoolInv, [Next]_vars, NEW j \in Ids, Asked(j), Active(j)
  PROVE  Asked(j)'
BY OnlyReportsProgress DEF RowsStay, IsCancelRequested, Exists, Asked, Active

\* What the thread's own step brings.
LEMMA HolderMoves ==
  ASSUME PoolInv, NEW w \in Workers, NEW j \in Ids, WorkerSteps(w)
  PROVE  /\ At(w, j, {"claimed"}) => At(w, j, {"running"})'
         /\ At(w, j, {"running"}) /\ Active(j) /\ Asked(j) => At(w, j, Ended)'
         /\ At(w, j, {"polled"}) => At(w, j, {"running"} \cup Ended)'
         /\ At(w, j, Ended) => ~Active(j)'
BY OwnStep DEF At, Active, Asked, IsCancelRequested, Exists, Ended

\* A restart queues the job again.
LEMMA RecoverRequeues ==
  ASSUME PoolInv, NEW j \in Ids, Recover PROVE ~Active(j)'
BY RequeueQuiet DEF Recover, PoolInv, Active

LEMMA DownStep ==
  ASSUME PoolInv, [Next]_vars, NEW j \in Ids, server = "down"
  PROVE  server' = "down" \/ ~Active(j)'
<1>1. Recover => ~Active(j)'
  BY RecoverRequeues
<1>2. Recover \/ server' = "down"
  BY DEF Next, Recover, StartPool, Stop, Exit, Crash, ThreadsVanish, Enqueue,
     Cancel, WorkerSteps, LoopTest, ClaimNothing, Claim, ReadJob, HookPoll,
     HookReport, DownloadFails, DownloadFinishes, Release, ThreadDies, LetsGo,
     Goes, Alive, Reap, Tick, vars
<1> QED BY <1>1, <1>2

\* While no thread has died, an active job is held, or the process is gone.
LEMMA ActiveIsHeld ==
  ASSUME PoolInv, StrandInv, NEW j \in Ids, Active(j), NobodyIsDead
  PROVE  server = "down" \/ \E w \in Workers : Holds(w, j)
<1>1. CASE Alive
  <2>1. Dead = {}
    BY DEF Dead, NobodyIsDead
  <2>2. Cardinality(Stranded) <= 0
    BY <1>1, <2>1, FS_EmptySet DEF StrandInv, DeathStrandsOneJob, Dead
  <2>3. Stranded = {}
    BY <2>2, CountsAreNumbers, FS_EmptySet DEF CountsOK
  <2> QED BY <2>3 DEF Stranded, Active
<1>2. CASE ~Alive
  BY <1>2 DEF PoolInv, TypeOK, Alive, StrandInv, RecoveredIsIdle, Active
<1> QED BY <1>1, <1>2

Working == LiveSpec /\ WorkersFair /\ NobodyDies /\ []NothingStuck

RowEnds(j) == <>~Active(j)

RequestEnds(w, j) == [](Holds(w, j) => (Active(j) /\ Asked(j) => RowEnds(j)))

LEMMA HeldRequestEnds ==
  ASSUME NEW w \in Workers, NEW j \in Ids
  PROVE  Working => RequestEnds(w, j)
<1>1. PoolInv /\ [Next]_vars
        => \/ ~(pc[w] # "dead")' \/ (server = "down")' \/ ~Active(j)'
           \/ /\ At(w, j, {"claimed"}) => At(w, j, {"claimed", "running"})'
              /\ At(w, j, {"running"}) /\ Active(j) /\ Asked(j)
                   => At(w, j, {"running"} \cup Ended)'
              /\ At(w, j, {"polled"}) => At(w, j, {"polled", "running"} \cup Ended)'
              /\ At(w, j, Ended) => At(w, j, Ended)'
  BY ClaimPhases
<1>2. PoolInv /\ <<WorkerSteps(w)>>_vars
        => /\ At(w, j, {"claimed"}) => At(w, j, {"running"})'
           /\ At(w, j, {"running"}) /\ Active(j) /\ Asked(j) => At(w, j, Ended)'
           /\ At(w, j, {"polled"}) => At(w, j, {"running"} \cup Ended)'
           /\ At(w, j, Ended) => ~Active(j)'
  BY HolderMoves
<1>3. PoolInv /\ [Next]_vars /\ Asked(j) /\ Active(j) => Asked(j)'
  BY RequestsStay
<1>4. PoolInv /\ [Next]_vars /\ server = "down" => (server = "down")' \/ ~Active(j)'
  BY DownStep
<1>5. PoolInv /\ <<Recover>>_vars => ~Active(j)'
  BY RecoverRequeues
<1>6. NothingStuck
        => /\ server = "down" => ENABLED <<Recover>>_vars
           /\ Holds(w, j) => CanStep(w)
  BY DEF NothingStuck, Holds, Holding, Ended
<1>7. /\ At(w, j, {"claimed", "running"})
           => At(w, j, {"claimed"}) \/ At(w, j, {"running"})
      /\ At(w, j, {"running"} \cup Ended) => At(w, j, {"running"}) \/ At(w, j, Ended)
      /\ At(w, j, {"polled", "running"} \cup Ended)
           => At(w, j, {"polled"}) \/ At(w, j, {"running"}) \/ At(w, j, Ended)
      /\ Holds(w, j) <=> \/ At(w, j, {"claimed"}) \/ At(w, j, {"polled"})
                         \/ At(w, j, {"running"}) \/ At(w, j, Ended)
  BY DEF At, Holds, Holding
<1>8. WorkersFair => WorkerFair(w)
  BY Zenon DEF WorkersFair
<1>9. NobodyIsDead => pc[w] # "dead"
  BY DEF NobodyIsDead
<1> QED
  BY <1>1, <1>2, <1>3, <1>4, <1>5, <1>6, <1>7, <1>8, <1>9, PoolInvariant, PTL
     DEF Working, LiveSpec, ProcessFair, Spec, WorkerFair, CanStep, NobodyDies, RowEnds,
     RequestEnds

\* Whichever thread holds the job; or the process is gone, and comes back.
LEMMA DownEnds ==
  ASSUME NEW j \in Ids
  PROVE  LiveSpec /\ []NothingStuck => [](server = "down" => RowEnds(j))
<1>1. PoolInv /\ [Next]_vars /\ server = "down" => (server = "down")' \/ ~Active(j)'
  BY DownStep
<1>2. PoolInv /\ <<Recover>>_vars => ~Active(j)'
  BY RecoverRequeues
<1>3. NothingStuck => (server = "down" => ENABLED <<Recover>>_vars)
  BY DEF NothingStuck
<1> QED
  BY <1>1, <1>2, <1>3, PoolInvariant, PTL DEF LiveSpec, ProcessFair, Spec, RowEnds

(***************************************************************************)
(* A cancel request ends the claim it is made for, for any number of       *)
(* threads, jobs and restarts, if no thread hangs or dies.                 *)
(***************************************************************************)
THEOREM RequestsEndClaims == LiveSpec /\ []NothingStuck => CancelEndsClaim
<1>1. ASSUME NEW j \in Ids
      PROVE  Working => (downloads[j].status = "active" /\ downloads[j].cancel_requested
                           ~> downloads[j].status # "active")
  <2> DEFINE Goal == Active(j) /\ Asked(j) => RowEnds(j)
  <2>1. Working => \A w \in Workers : RequestEnds(w, j)
    BY HeldRequestEnds
  <2>2. (\A w \in Workers : RequestEnds(w, j))
          => \A w \in Workers : [](Holds(w, j) => Goal)
    BY DEF RequestEnds
  <2> HIDE DEF Goal
  <2>3. (\A w \in Workers : [](Holds(w, j) => Goal))
          => [](\A w \in Workers : Holds(w, j) => Goal)
    BY Zenon
  <2>4. (\A w \in Workers : Holds(w, j) => Goal)
          => ((\E w \in Workers : Holds(w, j)) => Goal)
    BY Zenon
  <2>5. PoolInv /\ StrandInv /\ NobodyIsDead /\ Active(j)
          => server = "down" \/ \E w \in Workers : Holds(w, j)
    BY ActiveIsHeld
  <2>6. Goal => (Active(j) /\ Asked(j) => RowEnds(j))
    BY DEF Goal
  <2>7. Working => (Active(j) /\ Asked(j) ~> ~Active(j))
    BY <2>1, <2>2, <2>3, <2>4, <2>5, <2>6, DownEnds, StrandInvariant, PTL
       DEF Working, LiveSpec, NobodyDies, RowEnds
  <2>8. /\ Active(j) <=> downloads[j].status = "active"
        /\ ~Active(j) <=> downloads[j].status # "active"
        /\ Asked(j) <=> downloads[j].cancel_requested
    BY DEF Active, Asked
  <2> QED BY <2>7, <2>8, PTL
<1> QED BY <1>1 DEF CancelEndsClaim, Working

(***************************************************************************)
(* The clock of a claim.  It moves with every tick and with nothing else.  *)
(***************************************************************************)
Aged(j, n) == Active(j) /\ downloads[j].claimed_at = n
Stale(j) == IsStale(downloads[j])

LEMMA OnlyTicksAge ==
  ASSUME PoolInv, [Next]_vars, ~Tick PROVE ClaimTimesStay
<1>u. downloads' = downloads => ClaimTimesStay
  BY DEF ClaimTimesStay
<1>j. \A w \in Workers : pc[w] \in Holding => job[w] \in Ids
  BY NoIdIsZero DEF PoolInv, TypeOK, JobsHeld
<1>1. CASE Recover \/ Reap
  BY <1>1, SweepsKeepTimes DEF Recover, Reap, PoolInv
<1>2. CASE \/ \E j \in Ids, t \in Stamps : Enqueue(j, t)
           \/ \E j \in Ids : Cancel(j)
           \/ \E w \in Workers, j \in Ids : Claim(w, j)
  BY <1>2, TransactionsKeepTimes DEF Enqueue, Cancel, Claim, PoolInv
<1>3. ASSUME NEW w \in Workers, HookReport(w) PROVE ClaimTimesStay
  <2>1. job[w] \in Ids
    BY <1>3, <1>j DEF HookReport, Goes, Holding
  <2> QED BY <1>3, <1>u, <2>1, TransactionsKeepTimes, ReportedAssumption
          DEF HookReport, PoolInv
<1>4. ASSUME NEW w \in Workers, Release(w) PROVE ClaimTimesStay
  <2>1. PICK phase \in Ended : Goes(w, phase, "loop")
    BY <1>4 DEF Release
  <2>2. job[w] \in Ids /\ pc[w] = phase /\ Outcome(phase) \in Terminal
    BY <2>1, <1>j DEF Goes, Holding, Ended, Outcome, Terminal
  <2>3. result[w] \in Paths \cup {NoPath}
    BY DEF PoolInv, TypeOK
  <2>4. ReleaseJob(job[w], Outcome(phase), result[w])
    BY <1>4, <2>2 DEF Release
  <2> QED BY <2>2, <2>3, <2>4, TransactionsKeepTimes DEF PoolInv
<1>5. CASE \/ StartPool \/ Stop \/ Exit \/ Crash \/ UNCHANGED vars
           \/ \E w \in Workers :
                \/ LoopTest(w) \/ ClaimNothing(w) \/ ReadJob(w) \/ HookPoll(w)
                \/ DownloadFails(w) \/ DownloadFinishes(w) \/ ThreadDies(w)
  BY <1>5, <1>u DEF StartPool, Stop, Exit, Crash, ThreadsVanish, vars, LoopTest,
     ClaimNothing, ReadJob, HookPoll, DownloadFails, DownloadFinishes, ThreadDies
<1> QED BY <1>1, <1>2, <1>3, <1>4, <1>5 DEF Next, WorkerSteps

LEMMA AgeStep ==
  ASSUME PoolInv, [Next]_vars, NEW j \in Ids, NEW n \in 0 .. StaleTimeout
  PROVE  /\ Aged(j, n) => Aged(j, n)' \/ Aged(j, n + 1)' \/ ~Active(j)'
         /\ Aged(j, n) /\ Tick => Aged(j, n + 1)'
         /\ Stale(j) => Stale(j)' \/ ~Active(j)'
<1>1. CASE Tick
  <2>1. Active(j) => IF Growing(downloads[j])
                     THEN downloads'[j].claimed_at = downloads[j].claimed_at + 1
                     ELSE downloads'[j].claimed_at = downloads[j].claimed_at
    BY <1>1, TickAges DEF Tick, PoolInv, Active
  <2>2. Active(j) => Active(j)'
    BY <1>1, TickAges DEF Tick, PoolInv, Active
  <2>3. Aged(j, n) => Growing(downloads[j])
    BY DEF Aged, Active, Growing
  <2>4. Stale(j) => Active(j) /\ ~Growing(downloads[j])
    BY StaleTimeoutAssumption DEF Stale, IsStale, Growing, Active
  <2> QED BY <2>1, <2>2, <2>3, <2>4 DEF Aged, Stale, IsStale, Active
<1>2. CASE ~Tick
  BY <1>2, OnlyTicksAge DEF ClaimTimesStay, Aged, Stale, IsStale, Active
<1> QED BY <1>1, <1>2

LEMMA StaleClaimEnds ==
  ASSUME NEW j \in Ids
  PROVE  LiveSpec /\ []NothingStuck /\ ReaperFair => (Stale(j) ~> ~Active(j))
<1>1. PoolInv /\ [Next]_vars => (Stale(j) => Stale(j)' \/ ~Active(j)')
  BY AgeStep, StaleTimeoutAssumption
<1>2. PoolInv /\ Stale(j) /\ <<Reap>>_vars => ~Active(j)'
  BY StaleEnds DEF Reap, PoolInv, Stale, Active
<1>3. PoolInv /\ StrandInv /\ Stale(j) => Alive \/ server = "down"
  BY DEF PoolInv, TypeOK, Alive, StrandInv, RecoveredIsIdle, Stale, IsStale
<1>4. NothingStuck => (Alive /\ Stale(j) => ENABLED <<Reap>>_vars)
  BY DEF NothingStuck, Stale
<1> QED
  BY <1>1, <1>2, <1>3, <1>4, DownEnds, StrandInvariant, PTL
     DEF LiveSpec, ReaperFair, Spec, RowEnds

LEMMA ClaimGrowsOlder ==
  ASSUME NEW j \in Ids, NEW n \in 0 .. StaleTimeout
  PROVE  LiveSpec /\ []NothingStuck /\ ReaperFair
           => (Aged(j, n) ~> Aged(j, n + 1) \/ ~Active(j))
<1>1. PoolInv /\ [Next]_vars
        => (Aged(j, n) => Aged(j, n)' \/ Aged(j, n + 1)' \/ ~Active(j)')
  BY AgeStep
<1>2. PoolInv /\ Aged(j, n) /\ <<Tick>>_vars => Aged(j, n + 1)'
  BY AgeStep DEF Next
<1>3. NothingStuck => (Aged(j, n) => ENABLED <<Tick>>_vars)
  BY DEF NothingStuck, Aged, Active, Growing
<1> QED
  BY <1>1, <1>2, <1>3, PoolInvariant, PTL DEF LiveSpec, ReaperFair, Spec

(***************************************************************************)
(* What NoClaimForEver is made of, for any timeout: every tick of a        *)
(* running claim makes it older or the claim ends, and one that is too old *)
(* ends by the reaper or a restart, whatever its thread does.  (Only the   *)
(* count from 0 to the timeout is missing: an induction.)                  *)
(***************************************************************************)
THEOREM ClaimsGrowOldAndEnd ==
  LiveSpec /\ []NothingStuck /\ ReaperFair
    => \A j \in Ids :
         /\ \A n \in 0 .. StaleTimeout :
              Aged(j, n) ~> Aged(j, n + 1) \/ ~Active(j)
         /\ Aged(j, StaleTimeout + 1) ~> ~Active(j)
<1>1. ASSUME NEW j \in Ids
      PROVE  LiveSpec /\ []NothingStuck /\ ReaperFair
               => (Aged(j, StaleTimeout + 1) ~> ~Active(j))
  <2>1. Aged(j, StaleTimeout + 1) => Stale(j)
    BY StaleTimeoutAssumption DEF Aged, Active, Stale, IsStale, NULL
  <2> QED BY <2>1, StaleClaimEnds, PTL
<1> QED BY <1>1, ClaimGrowsOlder

(***************************************************************************)
(* A download that ends, ends the claim: from polled or running the thread *)
(* goes on to record what it did.                                          *)
(***************************************************************************)
LEMMA EndingMoves ==
  ASSUME PoolInv, NEW w \in Workers, DownloadEnds(w)
  PROVE  pc[w] \in {"running", "polled"} /\ pc'[w] \in Ended /\ job'[w] = job[w]
BY DEF DownloadEnds, DownloadFails, DownloadFinishes, Goes, Ended, PoolInv, TypeOK

ClaimEnds(w, j) == [](Holds(w, j) => (Active(j) => RowEnds(j)))

LEMMA HeldJobEnds ==
  ASSUME NEW w \in Workers, NEW j \in Ids
  PROVE  Working /\ DownloadsEnd => ClaimEnds(w, j)
<1>1. PoolInv /\ [Next]_vars
        => \/ ~(pc[w] # "dead")' \/ (server = "down")' \/ ~Active(j)'
           \/ /\ At(w, j, {"claimed"}) => At(w, j, {"claimed", "running"})'
              /\ At(w, j, {"running"}) => At(w, j, {"running", "polled"} \cup Ended)'
              /\ At(w, j, {"polled"}) => At(w, j, {"polled", "running"} \cup Ended)'
              /\ At(w, j, Ended) => At(w, j, Ended)'
  BY ClaimPhases
<1>2. PoolInv /\ <<WorkerSteps(w)>>_vars
        => /\ At(w, j, {"claimed"}) => At(w, j, {"running"})'
           /\ At(w, j, {"polled"}) => At(w, j, {"running"} \cup Ended)'
           /\ At(w, j, Ended) => ~Active(j)'
  BY HolderMoves
<1>3. PoolInv /\ <<DownloadEnds(w)>>_vars
        => (At(w, j, {"running"}) \/ At(w, j, {"polled"}) => At(w, j, Ended)')
  BY EndingMoves DEF At
<1>4. NothingStuck
        => /\ Holds(w, j) => CanStep(w)
           /\ At(w, j, {"running"}) => CanEnd(w)
  BY DEF NothingStuck, Holds, Holding, Ended, At
<1>5. /\ At(w, j, {"claimed", "running"})
           => At(w, j, {"claimed"}) \/ At(w, j, {"running"})
      /\ At(w, j, {"running"} \cup Ended) => At(w, j, {"running"}) \/ At(w, j, Ended)
      /\ At(w, j, {"polled", "running"} \cup Ended)
           => At(w, j, {"polled"}) \/ At(w, j, {"running"}) \/ At(w, j, Ended)
      /\ At(w, j, {"running", "polled"} \cup Ended)
           => At(w, j, {"polled"}) \/ At(w, j, {"running"}) \/ At(w, j, Ended)
      /\ Holds(w, j) <=> \/ At(w, j, {"claimed"}) \/ At(w, j, {"polled"})
                         \/ At(w, j, {"running"}) \/ At(w, j, Ended)
      /\ At(w, j, {"polled"}) => ~At(w, j, {"running"})
  BY DEF At, Holds, Holding
<1>6. WorkersFair => WorkerFair(w)
  BY Zenon DEF WorkersFair
<1>7. DownloadsEnd => DownloadEndsFair(w)
  BY Zenon DEF DownloadsEnd
<1>8. NobodyIsDead => pc[w] # "dead"
  BY DEF NobodyIsDead
<1> QED
  BY <1>1, <1>2, <1>3, <1>4, <1>5, <1>6, <1>7, <1>8, DownEnds, PoolInvariant, PTL
     DEF Working, LiveSpec, Spec, WorkerFair, DownloadEndsFair, CanStep, CanEnd,
     NobodyDies, RowEnds, ClaimEnds

(***************************************************************************)
(* Half of EveryJobEnds, for any number of threads and jobs: what is       *)
(* claimed ends, or a restart queues it again.                             *)
(***************************************************************************)
THEOREM ClaimedJobsEnd ==
  Working /\ DownloadsEnd => \A j \in Ids : Active(j) ~> ~Active(j)
<1>1. ASSUME NEW j \in Ids
      PROVE  Working /\ DownloadsEnd => (Active(j) ~> ~Active(j))
  <2> DEFINE Goal == Active(j) => RowEnds(j)
  <2>1. Working /\ DownloadsEnd => \A w \in Workers : ClaimEnds(w, j)
    BY HeldJobEnds
  <2>2. (\A w \in Workers : ClaimEnds(w, j))
          => \A w \in Workers : [](Holds(w, j) => Goal)
    BY DEF ClaimEnds
  <2> HIDE DEF Goal
  <2>3. (\A w \in Workers : [](Holds(w, j) => Goal))
          => [](\A w \in Workers : Holds(w, j) => Goal)
    BY Zenon
  <2>4. (\A w \in Workers : Holds(w, j) => Goal)
          => ((\E w \in Workers : Holds(w, j)) => Goal)
    BY Zenon
  <2>5. PoolInv /\ StrandInv /\ NobodyIsDead /\ Active(j)
          => server = "down" \/ \E w \in Workers : Holds(w, j)
    BY ActiveIsHeld
  <2>6. Goal => (Active(j) => RowEnds(j))
    BY DEF Goal
  <2> QED
    BY <2>1, <2>2, <2>3, <2>4, <2>5, <2>6, DownEnds, StrandInvariant, PTL
       DEF Working, LiveSpec, NobodyDies, RowEnds
<1> QED BY <1>1

(***************************************************************************)
(* The other half: while the process serves, the job whose turn it is does *)
(* not wait for ever.  The pool has a thread, which comes back from what   *)
(* it does and claims it, if nobody else has.                              *)
(***************************************************************************)
IsFirst(j) ==
  /\ Claimable(downloads[j])
  /\ \A k \in Ids \ {j} : Claimable(downloads[k]) => ClaimedBefore(j, k)

In(w, phases) == pc[w] \in phases

PoolIsUp ==
  server = "serving" /\ WorkersEnabled => \E w \in Workers : pc[w] # "off"

LEMMA OnlyOneIsFirst ==
  ASSUME TableInv, NEW j \in Ids, NEW k \in Ids, IsFirst(j), ClaimNext(k)
  PROVE  k = j
<1>1. SUFFICES ASSUME k # j PROVE FALSE
  OBVIOUS
<1>2. ClaimedBefore(j, k) /\ ClaimedBefore(k, j)
  BY <1>1 DEF IsFirst, ClaimNext, Claimable
<1>3. downloads[j] \in Row /\ downloads[k] \in Row
  BY ExistingRow DEF IsFirst, ClaimNext, Claimable, Statuses
<1> QED BY <1>2, <1>3, MaxStampAssumption DEF ClaimedBefore, Row, Stamps, Ids

\* A claim takes the first job; a thread that finds one does not go on waiting.
LEMMA FirstIsTaken ==
  ASSUME PoolInv, NEW w \in Workers, NEW j \in Ids, IsFirst(j), WorkerSteps(w),
         pc[w] = "claiming"
  PROVE  ~IsFirst(j)'
<1>1. PICK k \in Ids : Claim(w, k)
  BY DEF WorkerSteps, LoopTest, ClaimNothing, NothingToClaim, IsFirst, ReadJob,
     HookPoll, HookReport, DownloadFails, DownloadFinishes, Release, Goes, Ended
<1>2. k = j /\ downloads'[k].status = "active"
  BY <1>1, OnlyOneIsFirst, ClaimInv DEF Claim, PoolInv
<1> QED BY <1>2 DEF IsFirst, Claimable

LEMMA RoundOfAThread ==
  ASSUME PoolInv, [Next]_vars, NEW w \in Workers, NEW j \in Ids, IsFirst(j),
         server = "serving"
  PROVE  \/ pc'[w] = "dead" \/ server' # "serving" \/ ~IsFirst(j)'
         \/ /\ In(w, {"loop"}) => In(w, {"loop", "claiming"})'
            /\ In(w, {"claiming"}) => In(w, {"claiming"})'
            /\ In(w, {"claimed"}) => In(w, {"claimed", "running"})'
            /\ In(w, {"running"}) => In(w, {"running", "polled"} \cup Ended)'
            /\ In(w, {"polled"}) => In(w, {"polled", "running"} \cup Ended)'
            /\ In(w, Ended) => In(w, {"loop"} \cup Ended)'
<1>1. CASE pc'[w] = pc[w]
  BY <1>1 DEF In
<1>2. CASE WorkerSteps(w)
  <2>1. pc[w] = "loop" => pc'[w] = "claiming"
    BY <1>2 DEF WorkerSteps, LoopTest, ClaimNothing, Claim, ReadJob, HookPoll,
       HookReport, DownloadFails, DownloadFinishes, Release, Goes, Ended, PoolInv,
       TypeOK
  <2> QED BY <1>2, <2>1, OwnStep, FirstIsTaken DEF In, Ended
<1> QED BY <1>1, <1>2, OthersStep

LEMMA RoundGoesOn ==
  ASSUME PoolInv, NEW w \in Workers, NEW j \in Ids, IsFirst(j), WorkerSteps(w),
         server = "serving"
  PROVE  /\ In(w, {"loop"}) => In(w, {"claiming"})'
         /\ In(w, {"claiming"}) => ~IsFirst(j)'
         /\ In(w, {"claimed"}) => In(w, {"running"})'
         /\ In(w, {"polled"}) => In(w, {"running"} \cup Ended)'
         /\ In(w, Ended) => In(w, {"loop"})'
<1>1. pc[w] = "loop" => pc'[w] = "claiming"
  BY DEF WorkerSteps, LoopTest, ClaimNothing, Claim, ReadJob, HookPoll,
     HookReport, DownloadFails, DownloadFinishes, Release, Goes, Ended, PoolInv,
     TypeOK
<1> QED BY <1>1, OwnStep, FirstIsTaken DEF In, Ended

LEMMA PoolStaysUp ==
  ASSUME PoolInv, PoolIsUp, [Next]_vars PROVE PoolIsUp'
<1>1. CASE StartPool
  <2>1. PICK pool \in (SUBSET Workers) \ {{}} :
          pc' = [w \in Workers |->
                   IF WorkersEnabled /\ w \in pool THEN "loop" ELSE "off"]
    BY <1>1 DEF StartPool
  <2>2. PICK w \in pool : w \in Workers
    BY <2>1
  <2>3. WorkersEnabled => pc'[w] = "loop"
    BY <2>1, <2>2
  <2> QED BY <2>2, <2>3 DEF PoolIsUp
<1>2. CASE server' = "serving" /\ server = "serving"
  <2>1. ASSUME NEW w \in Workers, pc[w] # "off" PROVE pc'[w] # "off"
    <3>1. CASE WorkerSteps(w)
      BY <1>2, <2>1, <3>1 DEF WorkerSteps, LoopTest, ClaimNothing, Claim, ReadJob,
         HookPoll, HookReport, DownloadFails, DownloadFinishes, Release, Goes,
         Ended, PoolInv, TypeOK
    <3> QED BY <1>2, <2>1, <3>1, OthersStep
  <2> QED BY <1>2, <2>1 DEF PoolIsUp
<1>3. CASE server' # "serving"
  BY <1>3 DEF PoolIsUp
<1>4. StartPool \/ server' # "serving" \/ server = "serving"
  BY DEF Next, Recover, StartPool, Stop, Exit, Crash, ThreadsVanish, Enqueue,
     Cancel, WorkerSteps, LoopTest, ClaimNothing, Claim, ReadJob, HookPoll,
     HookReport, DownloadFails, DownloadFinishes, Release, ThreadDies, LetsGo,
     Reap, Tick, vars
<1> QED BY <1>1, <1>2, <1>3, <1>4

Moves(j) == <>(~IsFirst(j) \/ server # "serving")

TurnComes(w, j) ==
  [](pc[w] \notin {"off", "dead"} => (IsFirst(j) /\ server = "serving" => Moves(j)))

LEMMA ThreadComesBack ==
  ASSUME NEW w \in Workers, NEW j \in Ids
  PROVE  Working /\ DownloadsEnd => TurnComes(w, j)
<1>1. PoolInv /\ [Next]_vars /\ IsFirst(j) /\ server = "serving"
        => \/ ~(pc[w] # "dead")' \/ (server # "serving")' \/ ~IsFirst(j)'
           \/ /\ In(w, {"loop"}) => In(w, {"loop", "claiming"})'
              /\ In(w, {"claiming"}) => In(w, {"claiming"})'
              /\ In(w, {"claimed"}) => In(w, {"claimed", "running"})'
              /\ In(w, {"running"}) => In(w, {"running", "polled"} \cup Ended)'
              /\ In(w, {"polled"}) => In(w, {"polled", "running"} \cup Ended)'
              /\ In(w, Ended) => In(w, {"loop"} \cup Ended)'
  BY RoundOfAThread
<1>2. PoolInv /\ IsFirst(j) /\ server = "serving" /\ <<WorkerSteps(w)>>_vars
        => /\ In(w, {"loop"}) => In(w, {"claiming"})'
           /\ In(w, {"claiming"}) => ~IsFirst(j)'
           /\ In(w, {"claimed"}) => In(w, {"running"})'
           /\ In(w, {"polled"}) => In(w, {"running"} \cup Ended)'
           /\ In(w, Ended) => In(w, {"loop"})'
  BY RoundGoesOn
<1>3. PoolInv /\ <<DownloadEnds(w)>>_vars => In(w, Ended)'
  BY EndingMoves DEF In
<1>4. NothingStuck
        => /\ pc[w] \notin {"off", "dead"} => CanStep(w)
           /\ In(w, {"running"}) => CanEnd(w)
  BY DEF NothingStuck, In
<1>5. /\ In(w, {"loop", "claiming"}) => In(w, {"loop"}) \/ In(w, {"claiming"})
      /\ In(w, {"claimed", "running"}) => In(w, {"claimed"}) \/ In(w, {"running"})
      /\ In(w, {"running"} \cup Ended) => In(w, {"running"}) \/ In(w, Ended)
      /\ In(w, {"loop"} \cup Ended) => In(w, {"loop"}) \/ In(w, Ended)
      /\ In(w, {"polled", "running"} \cup Ended)
           => In(w, {"polled"}) \/ In(w, {"running"}) \/ In(w, Ended)
      /\ In(w, {"running", "polled"} \cup Ended)
           => In(w, {"polled"}) \/ In(w, {"running"}) \/ In(w, Ended)
  BY DEF In
<1>6. PoolInv
        => (pc[w] \notin {"off", "dead"}
              <=> \/ In(w, {"loop"}) \/ In(w, {"claiming"}) \/ In(w, {"claimed"})
                  \/ In(w, {"polled"}) \/ In(w, {"running"}) \/ In(w, Ended))
  BY DEF PoolInv, TypeOK, Phases, Holding, In, Ended
<1>7. WorkersFair => WorkerFair(w)
  BY Zenon DEF WorkersFair
<1>8. DownloadsEnd => DownloadEndsFair(w)
  BY Zenon DEF DownloadsEnd
<1>9. NobodyIsDead => pc[w] # "dead"
  BY DEF NobodyIsDead
<1>10. server # "serving" <=> ~(server = "serving")
  OBVIOUS
<1> QED
  BY <1>1, <1>2, <1>3, <1>4, <1>5, <1>6, <1>7, <1>8, <1>9, <1>10, PoolInvariant, PTL
     DEF Working, LiveSpec, Spec, WorkerFair, DownloadEndsFair, CanStep, CanEnd,
     NobodyDies, Moves, TurnComes

(***************************************************************************)
(* The other half of EveryJobEnds, one job at a time: the first job in the *)
(* queue is claimed or cancelled, or the server stops, however long the    *)
(* jobs in the threads' hands were to run.  (Missing is only the count of  *)
(* the jobs before it and of the restarts: an induction.)                  *)
(***************************************************************************)
THEOREM QueueMoves ==
  ASSUME WorkersEnabled
  PROVE  Working /\ DownloadsEnd
           => \A j \in Ids : IsFirst(j) /\ server = "serving"
                               ~> ~IsFirst(j) \/ server # "serving"
<1>1. ASSUME NEW j \in Ids
      PROVE  Working /\ DownloadsEnd
               => (IsFirst(j) /\ server = "serving" ~> ~IsFirst(j) \/ server # "serving")
  <2> DEFINE Goal == IsFirst(j) /\ server = "serving" => Moves(j)
  <2>1. Working /\ DownloadsEnd => \A w \in Workers : TurnComes(w, j)
    BY ThreadComesBack
  <2>2. (\A w \in Workers : TurnComes(w, j))
          => \A w \in Workers : [](pc[w] \notin {"off", "dead"} => Goal)
    BY DEF TurnComes
  <2> HIDE DEF Goal
  <2>3. (\A w \in Workers : [](pc[w] \notin {"off", "dead"} => Goal))
          => [](\A w \in Workers : pc[w] \notin {"off", "dead"} => Goal)
    BY Zenon
  <2>4. (\A w \in Workers : pc[w] \notin {"off", "dead"} => Goal)
          => ((\E w \in Workers : pc[w] \notin {"off", "dead"}) => Goal)
    BY Zenon
  <2>5. Init => PoolIsUp
    BY DEF Init, PoolIsUp
  <2>6. PoolInv /\ PoolIsUp /\ [Next]_vars => PoolIsUp'
    BY PoolStaysUp
  <2>7. PoolIsUp /\ NobodyIsDead /\ server = "serving"
          => \E w \in Workers : pc[w] \notin {"off", "dead"}
    BY DEF PoolIsUp, NobodyIsDead
  <2>8. Goal => (IsFirst(j) /\ server = "serving" => Moves(j))
    BY DEF Goal
  <2> QED
    BY <2>1, <2>2, <2>3, <2>4, <2>5, <2>6, <2>7, <2>8, PoolInvariant, PTL
       DEF Working, LiveSpec, Spec, NobodyDies, Moves
<1> QED BY <1>1

-----------------------------------------------------------------------------
(***************************************************************************)
(* Deletions, one at a time, next to the working server: they destroy only *)
(* what they may, and the invariant of the pool survives them.  For any    *)
(* number of threads, ids, paths, stops and faults; with two requests at   *)
(* once it is false (run library_race).                                    *)
(***************************************************************************)
LEMMA LibraryInitInv == LibraryInit => LibraryInv
<1> SUFFICES ASSUME LibraryInit PROVE LibraryInv
  OBVIOUS
<1>1. PoolInv
  BY InitInv DEF LibraryInit
<1>2. LibraryTypeOK
  BY <1>1 DEF LibraryInit, LibraryTypeOK, Idle, PoolInv
<1>3. LoadedIsDone
  BY DEF LibraryInit, LoadedIsDone
<1> QED BY <1>1, <1>2, <1>3 DEF LibraryInv

\* What a download leaves on disk is a path.
LEMMA ProducedArePaths ==
  ASSUME PoolInv, PoolInv' PROVE Produced \ {NoPath} \subseteq Paths
BY DEF Produced, PoolInv, TypeOK

\* The rows that requests have loaded are done and stay as they are.
LEMMA ServerStepInv ==
  ASSUME LibraryInv, ServerStep PROVE LibraryInv'
<1>1. PoolInv' /\ EndedRowsKept
  BY NextInv DEF ServerStep, LibraryInv
<1>2. request' = request \/ request' = [r \in Requests |-> Idle]
  BY DEF ServerStep
<1>3. LibraryTypeOK'
  <2>1. files' \subseteq Paths
    BY <1>1, ProducedArePaths DEF ServerStep, LibraryInv, LibraryTypeOK
  <2> QED BY <1>1, <1>2, <2>1 DEF LibraryInv, LibraryTypeOK, Idle, PoolInv
<1>4. LoadedIsDone'
  BY <1>1, <1>2 DEF LibraryInv, LoadedIsDone, EndedRowsKept, Terminal
<1> QED BY <1>1, <1>3, <1>4 DEF LibraryInv

LEMMA PoolUntouched ==
  ASSUME PoolInv, UNCHANGED vars PROVE PoolInv'
BY NextInv

\* The steps of a request that leave the table alone.
LEMMA RequestMoves ==
  ASSUME LibraryInv, UNCHANGED vars, files' \subseteq Paths, NEW r \in Requests,
         NEW to, request' = [request EXCEPT ![r] = to],
         \/ to = Idle
         \/ /\ to.at \in {"loaded", "removed"} /\ to.id \in Ids
            /\ to = [at |-> to.at, id |-> to.id, path |-> to.path]
            /\ downloads[to.id].status = "done"
            /\ downloads[to.id].file_path = to.path
  PROVE  LibraryInv'
<1>1. PoolInv'
  BY PoolUntouched DEF LibraryInv
<1>2. downloads' = downloads
  BY DEF vars
<1>3. to # Idle => downloads[to.id] \in Row
  BY ExistingRow DEF LibraryInv, PoolInv, Statuses, Terminal
<1>4. to # Idle => to.path \in Paths \cup {NoPath}
  BY <1>3 DEF Row
<1>5. LibraryTypeOK'
  BY <1>1, <1>4 DEF LibraryInv, LibraryTypeOK, Idle, PoolInv
<1>6. LoadedIsDone'
  BY <1>2 DEF LibraryInv, LibraryTypeOK, LoadedIsDone
<1> QED BY <1>1, <1>5, <1>6 DEF LibraryInv

LEMMA DeleteRowInv ==
  ASSUME OneAtATime, LibraryInv, NEW r \in Requests, DeleteRow(r)
  PROVE  LibraryInv'
<1>1. request[r] # Idle
  BY DEF DeleteRow, Idle
<1>2. /\ request[r].id \in Ids
      /\ downloads[request[r].id].status = "done"
  BY <1>1 DEF LibraryInv, LoadedIsDone
<1>3. TableInv' /\ HeldRowsKept
  BY <1>2, DeleteInv DEF DeleteRow, LibraryInv, PoolInv
<1>4. PoolInv'
  BY <1>3, ThreadsUntouched DEF DeleteRow, LibraryInv, PoolInv, TypeOK
<1>5. LibraryTypeOK'
  BY <1>4 DEF DeleteRow, LibraryInv, LibraryTypeOK, Idle, PoolInv
<1>6. LoadedIsDone'
  <2>1. \A s \in Requests : request'[s] = Idle
    BY DEF DeleteRow, OneAtATime, LibraryInv, LibraryTypeOK
  <2> QED BY <2>1 DEF LoadedIsDone
<1> QED BY <1>4, <1>5, <1>6 DEF LibraryInv

LEMMA DeleteStepInv ==
  ASSUME OneAtATime, LibraryInv, NEW r \in Requests, Delete(r)
  PROVE  LibraryInv'
<1>1. ASSUME NEW j \in Ids, LoadRow(r, j) PROVE LibraryInv'
  <2> DEFINE to == [at |-> "loaded", id |-> j, path |-> downloads[j].file_path]
  <2>1. /\ UNCHANGED vars /\ files' \subseteq Paths
        /\ request' = [request EXCEPT ![r] = to]
    BY <1>1 DEF LoadRow, Ask, LibraryInv, LibraryTypeOK
  <2>2. /\ to.at = "loaded" /\ to.id = j /\ to.path = downloads[j].file_path
        /\ to = [at |-> to.at, id |-> to.id, path |-> to.path]
        /\ downloads[j].status = "done"
    BY <1>1 DEF LoadRow
  <2> HIDE DEF to
  <2> QED BY <2>1, <2>2, RequestMoves
<1>2. CASE RemoveFails(r) \/ CommitFails(r)
  BY <1>2, RequestMoves DEF RemoveFails, CommitFails, LibraryInv, LibraryTypeOK
<1>3. CASE RemoveFile(r)
  <2> DEFINE to == [request[r] EXCEPT !.at = "removed"]
  <2>1. /\ UNCHANGED vars /\ files' \subseteq Paths
        /\ request' = [request EXCEPT ![r] = to]
        /\ request[r] # Idle
    BY <1>3 DEF RemoveFile, LibraryInv, LibraryTypeOK, Idle
  <2>2. /\ to.at = "removed" /\ to.id = request[r].id /\ to.path = request[r].path
        /\ to = [at |-> to.at, id |-> to.id, path |-> to.path]
    BY DEF LibraryInv, LibraryTypeOK
  <2>3. /\ request[r].id \in Ids
        /\ downloads[request[r].id].status = "done"
        /\ downloads[request[r].id].file_path = request[r].path
    BY <2>1 DEF LibraryInv, LoadedIsDone
  <2> HIDE DEF to
  <2> QED BY <2>1, <2>2, <2>3, RequestMoves
<1>4. CASE DeleteRow(r)
  BY <1>4, DeleteRowInv
<1> QED BY <1>1, <1>2, <1>3, <1>4 DEF Delete

LEMMA LibraryStepInv ==
  ASSUME OneAtATime, LibraryInv, [LibraryNext]_libVars PROVE LibraryInv'
<1>1. CASE UNCHANGED libVars
  <2>1. PoolInv'
    BY <1>1, PoolUntouched DEF libVars, LibraryInv
  <2> QED BY <1>1, <2>1 DEF libVars, vars, LibraryInv, LibraryTypeOK, LoadedIsDone,
          PoolInv
<1> QED BY <1>1, ServerStepInv, DeleteStepInv DEF LibraryNext

(***************************************************************************)
(* The pool keeps its promises while the library deletes: whatever is      *)
(* deleted, claims stay exclusive and rows consistent, and a loaded row    *)
(* is not stale.                                                           *)
(***************************************************************************)
THEOREM LibraryKeepsPool ==
  ASSUME OneAtATime PROVE LibrarySpec => [](LibraryInv /\ LibraryTypeOK)
<1>1. LibraryInv /\ [LibraryNext]_libVars => LibraryInv'
  BY LibraryStepInv
<1>2. LibraryInv => LibraryTypeOK
  BY DEF LibraryInv
<1> QED BY LibraryInitInv, <1>1, <1>2, PTL DEF LibrarySpec

(***************************************************************************)
(* No row but a done one is ever deleted.                                  *)
(***************************************************************************)
THEOREM DoneRowsAreDeleted ==
  ASSUME OneAtATime PROVE LibrarySpec => OnlyDoneRowsDeleted
<1>1. ASSUME LibraryInv, [LibraryNext]_libVars, NEW j \in Ids,
             downloads[j].status \notin {"done", "absent"}
      PROVE  downloads'[j].status # "absent"
  <2>1. CASE ServerStep \/ UNCHANGED libVars
    <3>1. [Next]_vars
      BY <2>1 DEF ServerStep, libVars
    <3>2. RowsStay
      BY <1>1, <3>1, OnlyReportsProgress DEF LibraryInv
    <3> QED BY <1>1, <3>2 DEF RowsStay, Exists
  <2>2. ASSUME NEW r \in Requests, DeleteRow(r)
        PROVE  downloads'[j].status # "absent"
    <3>1. request[r] # Idle
      BY <2>2 DEF DeleteRow, Idle
    <3>2. request[r].id # j
      BY <1>1, <3>1 DEF LibraryInv, LoadedIsDone
    <3>3. downloads'[j] = downloads[j]
      BY <1>1, <2>2, <3>2 DEF DeleteRow, LibraryInv, PoolInv, TypeOK, TableOK
    <3> QED BY <1>1, <3>3
  <2>3. ASSUME NEW r \in Requests,
               \/ \E k \in Ids : LoadRow(r, k)
               \/ RemoveFails(r) \/ RemoveFile(r) \/ CommitFails(r)
        PROVE  downloads'[j].status # "absent"
    BY <1>1, <2>3 DEF LoadRow, Ask, RemoveFails, RemoveFile, CommitFails, vars
  <2> QED BY <1>1, <2>1, <2>2, <2>3 DEF LibraryNext, Delete
<1>2. LibraryInv /\ [LibraryNext]_libVars
        => [\A j \in Ids : downloads[j].status \notin {"done", "absent"}
                             => downloads'[j].status # "absent"]_libVars
  BY <1>1
<1> QED BY LibraryKeepsPool, <1>2, PTL DEF LibrarySpec, OnlyDoneRowsDeleted

(***************************************************************************)
(* No file is removed but that of a done row which names it at that time.  *)
(***************************************************************************)
THEOREM FilesFollowRows ==
  ASSUME OneAtATime PROVE LibrarySpec => FilesGoWithTheirRows
<1> DEFINE Named(p) ==
      \E r \in Requests, j \in Ids :
         /\ request[r].at = "loaded" /\ request[r].id = j
         /\ downloads[j].status = "done" /\ downloads[j].file_path = p
<1>1. ASSUME LibraryInv, [LibraryNext]_libVars, NEW p \in files \ files'
      PROVE  Named(p)
  <2>1. PICK r \in Requests : RemoveFile(r)
    BY <1>1 DEF LibraryNext, ServerStep, Delete, LoadRow, Ask, RemoveFails,
       DeleteRow, CommitFails, libVars
  <2>2. request[r].at = "loaded" /\ request[r].path = p /\ request[r] # Idle
    BY <1>1, <2>1 DEF RemoveFile, Idle
  <2> QED BY <1>1, <2>2 DEF LibraryInv, LoadedIsDone
<1>2. LibraryInv /\ [LibraryNext]_libVars
        => [\A p \in files \ files' : Named(p)]_libVars
  BY <1>1
<1> QED BY LibraryKeepsPool, <1>2, PTL DEF LibrarySpec, FilesGoWithTheirRows

(***************************************************************************)
(* An id is given away only if no thread works for its former owner.       *)
(***************************************************************************)
THEOREM FreedIdsAreFree ==
  ASSUME OneAtATime PROVE LibrarySpec => ReusedIdsAreFree
<1>1. LibraryInv => \A j \in Ids, w \in Workers : Holds(w, j) => Exists(j)
  BY DEF LibraryInv, PoolInv, HeldRows, Holds, Exists
<1>2. LibraryInv /\ [LibraryNext]_libVars
        => [\A j \in Ids : ~Exists(j) /\ Exists(j)'
                             => \A w \in Workers : ~Holds(w, j)]_libVars
  BY <1>1
<1> QED BY LibraryKeepsPool, <1>2, PTL DEF LibrarySpec, ReusedIdsAreFree

-----------------------------------------------------------------------------
(***************************************************************************)
(* A deletion that is asked for again and again completes.  The shape of a *)
(* request is all it takes, so that any number of them may run at once.    *)
(***************************************************************************)
Free(r) == request[r] = Idle
Loaded(r, k) == request[r].at = "loaded" /\ request[r].id = k
Removed(r, k) == request[r].at = "removed" /\ request[r].id = k
Busy(r, k) == Loaded(r, k) \/ Removed(r, k)

Shape(q) ==
  \/ q = Idle
  \/ /\ q = [at |-> q.at, id |-> q.id, path |-> q.path]
     /\ q.at \in {"loaded", "removed"} /\ q.id \in Ids

TableShape == downloads = [k \in Ids |-> downloads[k]]

RequestsOK ==
  /\ request = [r \in Requests |-> request[r]]
  /\ \A r \in Requests : Shape(request[r]) /\ (~Free(r) => server = "serving")

LEMMA RequestsInit == LibraryInit => RequestsOK
BY DEF LibraryInit, RequestsOK, Shape, Free

\* The server leaves a request alone, stops only without one, and crashes
\* with all of them.
LEMMA ServerAndRequests ==
  ASSUME RequestsOK, ServerStep
  PROVE  /\ RequestsOK'
         /\ \A r \in Requests : request'[r] = request[r] \/ Free(r)'
<1>1. CASE server' = "down"
  BY <1>1 DEF ServerStep, RequestsOK, Shape, Free
<1>2. CASE server' # "down"
  <2>1. request' = request
    BY <1>2 DEF ServerStep
  <2>2. CASE server # "serving"
    BY <2>1, <2>2 DEF RequestsOK, Free, Shape
  <2>3. CASE Stop
    BY <2>1, <2>3 DEF ServerStep, RequestsOK, Free, Shape
  <2>4. CASE server = "serving" /\ ~Stop
    <3>1. server' = "serving"
      BY <1>2, <2>4 DEF ServerStep, Next, Recover, StartPool, Exit, Crash,
         ThreadsVanish, Enqueue, Cancel, WorkerSteps, LoopTest, ClaimNothing,
         Claim, ReadJob, HookPoll, HookReport, DownloadFails, DownloadFinishes,
         Release, ThreadDies, LetsGo, Reap, Tick
    <3> QED BY <2>1, <3>1 DEF RequestsOK, Free, Shape
  <2> QED BY <2>2, <2>3, <2>4
<1> QED BY <1>1, <1>2

\* One request moves; the server is where it was.
LEMMA DeleteAndRequests ==
  ASSUME RequestsOK, NEW r \in Requests, Delete(r)
  PROVE  /\ RequestsOK'
         /\ \A s \in Requests \ {r} : request'[s] = request[s]
         /\ Free(r) => server = "serving"
         /\ \A k : Loaded(r, k) => Removed(r, k)' \/ Free(r)'
         /\ \A k : Removed(r, k) => Free(r)'
<1>s. server' = server /\ Shape(request[r])
  BY DEF Delete, LoadRow, Ask, RemoveFails, RemoveFile, DeleteRow, CommitFails,
     vars, RequestsOK
<1>1. ASSUME NEW j \in Ids, LoadRow(r, j)
      PROVE  /\ request'[r] = [at |-> "loaded", id |-> j, path |-> downloads[j].file_path]
             /\ \A s \in Requests \ {r} : request'[s] = request[s]
             /\ request' = [s \in Requests |-> request'[s]]
             /\ server = "serving" /\ Free(r)
  BY <1>1 DEF LoadRow, Ask, RequestsOK, Free
<1>2. CASE RemoveFails(r) \/ CommitFails(r) \/ DeleteRow(r)
  <2>1. /\ request'[r] = Idle /\ request[r] # Idle
        /\ \A s \in Requests \ {r} : request'[s] = request[s]
        /\ request' = [s \in Requests |-> request'[s]]
    BY <1>2 DEF RemoveFails, CommitFails, DeleteRow, RequestsOK, Idle
  <2> QED BY <1>s, <2>1 DEF RequestsOK, Shape, Free
<1>3. CASE RemoveFile(r)
  <2>1. request[r].at = "loaded" /\ request[r] # Idle
    BY <1>3 DEF RemoveFile, Idle
  <2>2. /\ request'[r] = [request[r] EXCEPT !.at = "removed"]
        /\ \A s \in Requests \ {r} : request'[s] = request[s]
        /\ request' = [s \in Requests |-> request'[s]]
    BY <1>3 DEF RemoveFile, RequestsOK
  <2>3. /\ request'[r] = [at |-> "removed", id |-> request[r].id,
                          path |-> request[r].path]
        /\ request[r].id \in Ids
    BY <1>s, <2>1, <2>2 DEF Shape
  <2> QED BY <1>s, <2>1, <2>2, <2>3 DEF RequestsOK, Shape, Free, Loaded, Removed
<1>4. ASSUME NEW j \in Ids, LoadRow(r, j)
      PROVE  /\ RequestsOK'
             /\ ~(\E k : Loaded(r, k) \/ Removed(r, k))
  <2>1. Shape([at |-> "loaded", id |-> j, path |-> downloads[j].file_path])
    BY DEF Shape
  <2>2. Shape(request'[r])
    BY <1>1, <1>4, <2>1
  <2>3. RequestsOK'
    BY <1>s, <1>1, <1>4, <2>2 DEF RequestsOK, Shape, Free
  <2>4. ~(\E k : Loaded(r, k) \/ Removed(r, k))
    <3>1. request[r] = Idle
      BY <1>1, <1>4 DEF Free
    <3>2. request[r].at = "idle"
      BY <3>1 DEF Idle
    <3> QED BY <3>2 DEF Loaded, Removed
  <2> QED BY <2>3, <2>4
<1> QED BY <1>1, <1>2, <1>3, <1>4 DEF Delete, Free, Loaded, Removed, DeleteRow,
        RemoveFails, CommitFails

LEMMA RequestStep ==
  ASSUME RequestsOK, [LibraryNext]_libVars, NEW r \in Requests
  PROVE  /\ RequestsOK'
         /\ Free(r) /\ ~(server = "serving") => Free(r)'
         /\ \A k : Loaded(r, k) => Loaded(r, k)' \/ Removed(r, k)' \/ Free(r)'
         /\ \A k : Removed(r, k) => Removed(r, k)' \/ Free(r)'
<1>1. CASE UNCHANGED libVars
  BY <1>1 DEF libVars, vars, RequestsOK, Free, Loaded, Removed
<1>2. CASE ServerStep
  BY <1>2, ServerAndRequests DEF Free, Loaded, Removed
<1>3. ASSUME NEW s \in Requests, Delete(s)
      PROVE  /\ RequestsOK'
             /\ Free(r) /\ ~(server = "serving") => Free(r)'
             /\ \A k : Loaded(r, k) => Loaded(r, k)' \/ Removed(r, k)' \/ Free(r)'
             /\ \A k : Removed(r, k) => Removed(r, k)' \/ Free(r)'
  <2>1. CASE s = r
    BY <1>3, <2>1, DeleteAndRequests
  <2>2. CASE s # r
    BY <1>3, <2>2, DeleteAndRequests DEF Free, Loaded, Removed
  <2> QED BY <2>1, <2>2
<1> QED BY <1>1, <1>2, <1>3 DEF LibraryNext

LEMMA TableShapeStays ==
  ASSUME TableShape, [LibraryNext]_libVars PROVE TableShape'
<1>1. CASE UNCHANGED downloads
  BY <1>1 DEF TableShape
<1>2. CASE \E r \in Requests : Delete(r)
  BY <1>1, <1>2 DEF Delete, LoadRow, Ask, RemoveFails, RemoveFile, DeleteRow,
     CommitFails, vars, TableShape
<1>3. CASE \/ Recover \/ Reap \/ Tick
           \/ \E j \in Ids, t \in Stamps : Enqueue(j, t)
           \/ \E j \in Ids : Cancel(j)
  BY <1>3 DEF Recover, RequeueActiveOnStartup, Reap, DetectStaleJobs, Tick,
     TimePasses, Enqueue, EnqueueDownload, Cancel, CancelJob, TableShape
<1>4. CASE \E w \in Workers : (\E j \in Ids : Claim(w, j)) \/ HookReport(w) \/ Release(w)
  BY <1>4 DEF Claim, ClaimNext, HookReport, UpdateProgress, Release, ReleaseJob,
     TableShape
<1>5. CASE \/ StartPool \/ Stop \/ Exit \/ Crash
           \/ \E w \in Workers :
                \/ LoopTest(w) \/ ClaimNothing(w) \/ ReadJob(w) \/ HookPoll(w)
                \/ DownloadFails(w) \/ DownloadFinishes(w) \/ ThreadDies(w)
  BY <1>1, <1>5 DEF StartPool, Stop, Exit, Crash, ThreadsVanish, LoopTest,
     ClaimNothing, ReadJob, HookPoll, DownloadFails, DownloadFinishes, ThreadDies
<1>6. CASE UNCHANGED libVars
  BY <1>1, <1>6 DEF libVars, vars
<1> QED
  BY <1>2, <1>3, <1>4, <1>5, <1>6 DEF LibraryNext, ServerStep, Next, WorkerSteps

\* The three steps of a deletion.
LEMMA DeletionSteps ==
  ASSUME RequestsOK, TableShape, NEW r \in Requests, NEW j \in Ids
  PROVE  /\ LoadRow(r, j) => Loaded(r, j)'
         /\ RemoveFor(r, j) => Removed(r, j)'
         /\ DeleteFor(r, j) => downloads'[j].status # "done" /\ Free(r)'
<1>1. LoadRow(r, j) => Loaded(r, j)'
  BY DEF LoadRow, Ask, RequestsOK, Loaded
<1>2. RemoveFor(r, j) => Removed(r, j)'
  <2>1. SUFFICES ASSUME RemoveFor(r, j) PROVE Removed(r, j)'
    OBVIOUS
  <2>2. request[r].at = "loaded" /\ request[r].id = j
    BY <2>1 DEF RemoveFor, RemoveFile
  <2>3. Loaded(r, j) /\ ~Free(r)'
    BY <2>1, <2>2 DEF RemoveFor, RemoveFile, RequestsOK, Loaded, Free, Idle
  <2> QED BY <2>1, <2>3, DeleteAndRequests DEF RemoveFor, Delete
<1>3. DeleteFor(r, j) => downloads'[j].status # "done" /\ Free(r)'
  BY DEF DeleteFor, DeleteRow, RequestsOK, TableShape, Absent, Free
<1> QED BY <1>1, <1>2, <1>3

LEMMA RequestsStayOK == LibrarySpec => [](RequestsOK /\ TableShape)
<1>1. LibraryInit => RequestsOK /\ TableShape
  BY RequestsInit DEF LibraryInit, Init, TableInit, TableShape
<1>2. RequestsOK /\ TableShape /\ [LibraryNext]_libVars => (RequestsOK /\ TableShape)'
  <2> SUFFICES ASSUME RequestsOK, TableShape, [LibraryNext]_libVars
               PROVE  RequestsOK' /\ TableShape'
    OBVIOUS
  <2>1. RequestsOK'
    <3>1. CASE UNCHANGED libVars
      BY <3>1 DEF libVars, vars, RequestsOK, Free
    <3>2. CASE ServerStep
      BY <3>2, ServerAndRequests
    <3>3. ASSUME NEW s \in Requests, Delete(s) PROVE RequestsOK'
      BY <3>3, DeleteAndRequests
    <3> QED BY <3>1, <3>2, <3>3 DEF LibraryNext
  <2> QED BY <2>1, TableShapeStays
<1> QED BY <1>1, <1>2, PTL DEF LibrarySpec

\* The three steps of a deletion, each taken if it can be taken again and
\* again: AskedFor with the guards of the actions written for ENABLED.
Askable(r, j) == server = "serving" /\ Free(r) /\ downloads[j].status = "done"

Repeats(r, j) ==
  /\ []<>Askable(r, j) => []<><<LoadRow(r, j)>>_libVars
  /\ []<>Loaded(r, j) => []<><<RemoveFor(r, j)>>_libVars
  /\ []<>Removed(r, j) => []<><<DeleteFor(r, j)>>_libVars

AllRepeat == \A r \in Requests, j \in Ids : Repeats(r, j)

Retrying == LibrarySpec /\ AllRepeat

FreedFrom(r, k) == [](Busy(r, k) => <>Free(r))

LEMMA BusyEnds ==
  ASSUME NEW r \in Requests, NEW k \in Ids PROVE Retrying => FreedFrom(r, k)
<1>1. RequestsOK /\ [LibraryNext]_libVars
        => /\ Loaded(r, k) => Loaded(r, k)' \/ Removed(r, k)' \/ Free(r)'
           /\ Removed(r, k) => Removed(r, k)' \/ Free(r)'
  BY RequestStep
<1>2. RequestsOK /\ TableShape /\ <<RemoveFor(r, k)>>_libVars => Removed(r, k)'
  BY DeletionSteps
<1>3. RequestsOK /\ TableShape /\ <<DeleteFor(r, k)>>_libVars => Free(r)'
  BY DeletionSteps
<1>4. AllRepeat => Repeats(r, k)
  BY Zenon DEF AllRepeat
<1>5. Busy(r, k) <=> Loaded(r, k) \/ Removed(r, k)
  BY DEF Busy
<1> QED
  BY <1>1, <1>2, <1>3, <1>4, <1>5, RequestsStayOK, PTL
     DEF Retrying, LibrarySpec, Repeats, FreedFrom

LEMMA RequestsAreFreed ==
  ASSUME NEW r \in Requests PROVE Retrying => []<>Free(r)
<1> DEFINE Goal == <>Free(r)
<1>1. Retrying => \A k \in Ids : FreedFrom(r, k)
  BY BusyEnds
<1>2. (\A k \in Ids : FreedFrom(r, k)) => \A k \in Ids : [](Busy(r, k) => Goal)
  BY DEF FreedFrom
<1> HIDE DEF Goal
<1>3. (\A k \in Ids : [](Busy(r, k) => Goal)) => [](\A k \in Ids : Busy(r, k) => Goal)
  BY Zenon
<1>4. (\A k \in Ids : Busy(r, k) => Goal) => ((\E k \in Ids : Busy(r, k)) => Goal)
  BY Zenon
<1>5. RequestsOK => Free(r) \/ \E k \in Ids : Busy(r, k)
  BY DEF RequestsOK, Shape, Free, Busy, Loaded, Removed
<1>6. Goal => <>Free(r)
  BY DEF Goal
<1> QED
  BY <1>1, <1>2, <1>3, <1>4, <1>5, <1>6, RequestsStayOK, PTL DEF Retrying

(***************************************************************************)
(* A deletion that is asked for again and again succeeds some time, for    *)
(* any number of requests at once, and whatever crashes and failing        *)
(* commits cut short, if the server keeps coming back.                     *)
(***************************************************************************)
THEOREM RepeatedDeletionsComplete ==
  ASSUME Requests # {}
  PROVE  Retrying /\ []<>(server = "serving") => DeletionCompletes
<1>1. ASSUME NEW j \in Ids
      PROVE  Retrying /\ []<>(server = "serving")
               => (downloads[j].status = "done" ~> downloads[j].status # "done")
  <2>1. PICK r \in Requests : TRUE
    OBVIOUS
  <2>2. RequestsOK /\ [LibraryNext]_libVars
          => (Free(r) /\ ~(server = "serving") => Free(r)')
    BY RequestStep
  <2>3. RequestsOK => Free(r) \/ server = "serving"
    BY DEF RequestsOK
  <2>4. RequestsOK /\ TableShape /\ <<LoadRow(r, j)>>_libVars => Loaded(r, j)'
    BY DeletionSteps
  <2>5. RequestsOK /\ TableShape /\ <<RemoveFor(r, j)>>_libVars => Removed(r, j)'
    BY DeletionSteps
  <2>6. RequestsOK /\ TableShape /\ <<DeleteFor(r, j)>>_libVars
          => (downloads[j].status # "done")'
    BY DeletionSteps
  <2>7. Askable(r, j)
          <=> server = "serving" /\ Free(r) /\ downloads[j].status = "done"
    BY DEF Askable
  <2>8. AllRepeat => Repeats(r, j)
    BY Zenon DEF AllRepeat
  <2>9. Retrying => []<>Free(r)
    BY RequestsAreFreed
  <2>10. downloads[j].status # "done" <=> ~(downloads[j].status = "done")
    OBVIOUS
  <2> QED
    BY <2>2, <2>3, <2>4, <2>5, <2>6, <2>7, <2>8, <2>9, <2>10, RequestsStayOK, PTL
       DEF Retrying, LibrarySpec, Repeats
<1> QED BY <1>1 DEF DeletionCompletes
=============================================================================
