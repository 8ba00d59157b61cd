---------------------------- MODULE JobLifecycle ----------------------------
(***************************************************************************)
(* What the queue promises about a job, with no thread, table or clock in  *)
(* it: the documented life of a download (app/models.py, the docstrings of *)
(* app/services/queue.py).  Jobs start in the order they were submitted,   *)
(* end once and for all, and a job that started is cancelled only if       *)
(* somebody asked.  WorkerPoolProperties shows that the server keeps it.   *)
(***************************************************************************)
EXTENDS Integers

CONSTANT Jobs   \* integers: the order of submission

VARIABLES
  state,   \* the life of each job
  asked    \* was its cancellation asked for while it ran?

jobVars == <<state, asked>>

JobInit ==
  /\ state = [j \in Jobs |-> "absent"]
  /\ asked = [j \in Jobs |-> FALSE]

Submit(j) ==
  /\ state[j] = "absent"
  /\ \A k \in Jobs : k > j => state[k] = "absent"
  /\ state' = [state EXCEPT ![j] = "queued"]
  /\ UNCHANGED asked

Start(j) ==
  /\ state[j] = "queued"
  /\ \A k \in Jobs : state[k] = "queued" => j <= k
  /\ state' = [state EXCEPT ![j] = "active"]
  /\ UNCHANGED asked

End(j, outcome) ==
  /\ state[j] = "active"
  /\ outcome \in {"done", "error"} \/ (outcome = "cancelled" /\ asked[j])
  /\ state' = [state EXCEPT ![j] = outcome]
  /\ UNCHANGED asked

CancelQueued(j) ==
  /\ state[j] = "queued"
  /\ state' = [state EXCEPT ![j] = "cancelled"]
  /\ UNCHANGED asked

AskToCancel(j) ==
  /\ state[j] = "active"
  /\ asked' = [asked EXCEPT ![j] = TRUE]
  /\ UNCHANGED state

\* Some running jobs took too long and are given up together.
TimeOut(late) ==
  /\ \A j \in late : state[j] = "active"
  /\ state' = [j \in Jobs |-> IF j \in late THEN "error" ELSE state[j]]
  /\ UNCHANGED asked

\* A new process takes over: whatever ran starts again from the queue.
StartOver ==
  /\ state' = [j \in Jobs |->
                 IF state[j] = "active" THEN "queued" ELSE state[j]]
  /\ UNCHANGED asked

JobNext ==
  \/ \E j \in Jobs :
       \/ Submit(j) \/ Start(j) \/ CancelQueued(j) \/ AskToCancel(j)
       \/ \E outcome \in {"done", "error", "cancelled"} : End(j, outcome)
  \/ \E late \in SUBSET Jobs : TimeOut(late)
  \/ StartOver

JobSpec == JobInit /\ [][JobNext]_jobVars
=============================================================================
