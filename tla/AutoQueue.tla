------------------------------ MODULE AutoQueue ------------------------------
(***************************************************************************)
(* scripts/confirmatory_autoqueue.py: the login-node supervisor that       *)
(* submits one Slurm batch job after another, and the batch job itself     *)
(* (cluster/csis_controlled_h_confirmatory.sbatch), which continues the    *)
(* chain of BatchJournal.                                                  *)
(*                                                                         *)
(* Submitting a job is not idempotent, so the supervisor saves a marker    *)
(* before it calls sbatch and never calls it again while the marker        *)
(* stands.  Supervisors die and are restarted by hand, sbatch's answer is  *)
(* lost, accounting lags behind the cluster, jobs die at any point, and    *)
(* people submit jobs and run `resolve` by hand while the supervisor       *)
(* watches.                                                                *)
(*                                                                         *)
(* The chain is seen here as `confirmatory_batch.py preflight` shows it:   *)
(* how many queries and sessions are finalized, whether a session is       *)
(* unresolved, and whether a failure (or a failed smoke) blocks claims.    *)
(***************************************************************************)
EXTENDS Integers, Sequences, FiniteSets, Functions

CONSTANTS
    Supervisors,      \* processes that may run the supervisor
    MaxJobs,          \* --max-jobs
    ExpectedQueries,  \* 2016
    MaxBatch,         \* 32, CONF_MAX_NEW
    AfterIndex,       \* --after-index
    AfterSessions,    \* --after-sessions
    ManualJobs,       \* bound: jobs people submit by hand
    NoOne, NoState

ASSUME ConstantsAssumption ==
    /\ MaxJobs \in Nat \ {0} /\ MaxBatch \in Nat \ {0} /\ ManualJobs \in Nat
    /\ AfterIndex \in Nat /\ AfterSessions \in Nat \ {0}
    /\ ExpectedQueries \in Nat /\ 2 <= AfterIndex /\ AfterIndex < ExpectedQueries
    /\ NoOne \notin Supervisors

\* Slurm's job IDs, in the order of submission; 0 is the watched --after-job.
Jobs == 0 .. MaxJobs + ManualJobs

VARIABLES
    queue,      \* the state file
    stop,       \* the stop file exists
    lock,       \* who holds the state file's lock
    pc, mem,    \* a supervisor: where it is, its copy of the state
    job,        \* what each job is doing
    acct,       \* what sacct says of it
    chain,      \* the chain as preflight shows it
    mine, foreign, late   \* history: jobs sbatch accepted from the supervisor,
                          \* sessions no supervised job wrote, jobs accepted
                          \* since the stop file appeared

supervisor == <<queue, lock, pc, mem>>
cluster == <<job, acct>>
history == <<mine, foreign, late>>
vars == <<supervisor, stop, cluster, chain, history>>

Phases == {"waiting", "submit_pending", "stopped", "complete", "budget_exhausted"}

State == [phase     : Phases,
          current   : Jobs,
          submitted : Seq(Jobs),
          index     : 0 .. ExpectedQueries,    \* before_index
          sessions  : Nat]                     \* before_sessions

ASSUME NoStateAssumption == NoState \notin State

NewState == [phase |-> "waiting", current |-> 0, submitted |-> << >>,
             index |-> AfterIndex, sessions |-> AfterSessions]

Submitted(q) == IF q = NoState THEN {} ELSE Range(q.submitted)

Working == {"launched", "asking", "sealed"}
Ended == {"COMPLETED", "FAILED"}

Init ==
    /\ queue = NoState
    /\ stop = FALSE
    /\ lock = NoOne
    /\ pc = [s \in Supervisors |-> "idle"]
    /\ mem = [s \in Supervisors |-> NewState]
    /\ job = [j \in Jobs |-> IF j = 0 THEN "pending" ELSE "none"]
    /\ acct = [j \in Jobs |-> "absent"]
    /\ chain = [next |-> AfterIndex, sessions |-> AfterSessions,
                status |-> "none", failed |-> FALSE]
    /\ mine = {}
    /\ foreign = 0
    /\ late = 0

-----------------------------------------------------------------------------
(* The cluster and the people who use it *)

NewJob == CHOOSE j \in Jobs : job[j] = "none" /\ \A i \in 0 .. j - 1 : job[i] # "none"

\* sacct catches up with a job, at its own pace.
Account(j) ==
    /\ job[j] # "none"
    /\ acct' = [acct EXCEPT ![j] = IF job[j] \in Ended THEN job[j] ELSE "active"]
    /\ UNCHANGED <<supervisor, stop, job, chain, history>>

ManualSubmit ==
    /\ Cardinality({j \in Jobs \ {0} : job[j] # "none"} \ mine) < ManualJobs
    /\ job' = [job EXCEPT ![NewJob] = "pending"]
    /\ UNCHANGED <<supervisor, stop, acct, chain, history>>

TouchStop ==
    /\ ~stop
    /\ stop' = TRUE
    /\ UNCHANGED <<supervisor, cluster, chain, history>>

Complete == chain.next = ExpectedQueries /\ chain.status # "unresolved"
Runnable == ~Complete /\ chain.status # "unresolved" /\ ~chain.failed

JobLockFree == \A j \in Jobs : job[j] \notin Working

\* Bug: the launcher does not run preflight before it asks for a server.
JobStart_NoPreflight(j) ==
    /\ job[j] = "pending"
    /\ job' = [job EXCEPT ![j] = IF JobLockFree THEN "launched" ELSE "FAILED"]
    /\ UNCHANGED <<supervisor, stop, acct, chain, history>>

\* The launcher: the job lock, then preflight; either may end the job.
JobStart(j) ==
    /\ job[j] = "pending"
    /\ job' = [job EXCEPT ![j] = IF JobLockFree /\ Runnable THEN "launched" ELSE "FAILED"]
    /\ UNCHANGED <<supervisor, stop, acct, chain, history>>

\* `run` adopts a finalized session the journal lacks, and reserves its own;
\* if the adopted one was the last, it asks nothing.
JobOpen(j) ==
    /\ job[j] = "launched"
    /\ chain.status # "unresolved"
    /\ IF chain.next = ExpectedQueries
       THEN /\ chain' = [chain EXCEPT !.status = "none"]
            /\ job' = [job EXCEPT ![j] = "COMPLETED"]
       ELSE /\ chain' = [chain EXCEPT !.status = "unresolved"]
            /\ job' = [job EXCEPT ![j] = "asking"]
    /\ UNCHANGED <<supervisor, stop, acct, history>>

\* Bug: the batch may run past the end of the schedule.
Sealed_NoCap(n, failed) ==
    /\ failed => n > 0
    /\ chain' = [next |-> chain.next + n, sessions |-> chain.sessions + 1,
                 status |-> "finalized_orphan", failed |-> chain.failed \/ failed]

\* A session is finalized with n queries; failed says that its last one is a
\* transport failure or an ambiguous query.
Sealed(n, failed) ==
    /\ failed => n > 0
    /\ chain.next + n <= ExpectedQueries
    /\ chain' = [next |-> chain.next + n, sessions |-> chain.sessions + 1,
                 status |-> "finalized_orphan", failed |-> chain.failed \/ failed]

Supervised == mine \cup {0}

JobSeal(j, n, failed) ==
    /\ job[j] = "asking"
    /\ Sealed(n, failed)
    /\ job' = [job EXCEPT ![j] = "sealed"]
    /\ foreign' = IF j \in Supervised THEN foreign ELSE foreign + 1
    /\ UNCHANGED <<supervisor, stop, acct, mine, late>>

\* The session is appended to the journal and the analysis runs.
JobEnd(j) ==
    /\ job[j] = "sealed"
    /\ chain' = [chain EXCEPT !.status = "none"]
    /\ job' = [job EXCEPT ![j] = "COMPLETED"]
    /\ UNCHANGED <<supervisor, stop, acct, history>>

\* A server that fails its readiness check, the time limit, a node failure.
JobDie(j) ==
    /\ job[j] \in Working \cup {"pending"}
    /\ job' = [job EXCEPT ![j] = "FAILED"]
    /\ UNCHANGED <<supervisor, stop, acct, chain, history>>

\* Somebody runs `resolve` on what a dead job left behind.
Resolve(n, failed) ==
    /\ \A j \in Jobs : job[j] \notin {"asking", "sealed"}
    /\ \/ /\ chain.status = "unresolved"      \* reserved, but no session yet
          /\ chain' = [chain EXCEPT !.status = "none"]
          /\ UNCHANGED foreign
       \/ /\ chain.status = "unresolved"
          /\ failed => n > 0
          /\ chain.next + n <= ExpectedQueries
          /\ chain' = [next |-> chain.next + n, sessions |-> chain.sessions + 1,
                       status |-> "none", failed |-> chain.failed \/ failed]
          /\ foreign' = foreign + 1
       \/ /\ chain.status = "finalized_orphan"
          /\ chain' = [chain EXCEPT !.status = "none"]
          /\ UNCHANGED foreign
    /\ UNCHANGED <<supervisor, stop, cluster, mine, late>>

-----------------------------------------------------------------------------
(* The supervisor *)

Leave(s) ==
    /\ lock' = NoOne
    /\ pc' = [pc EXCEPT ![s] = "idle"]
    /\ mem' = [mem EXCEPT ![s] = NewState]

\* state.update(...) and the atomic write of the state file.
Save(s, q) ==
    /\ queue' = q
    /\ mem' = [mem EXCEPT ![s] = q]

\* The last write of a run: a final phase.
Finish(s, phase) ==
    /\ queue' = [mem[s] EXCEPT !.phase = phase]
    /\ Leave(s)

\* Bug: a marker of an earlier submission does not stop a restart.
Start_IgnoresMarker(s) ==
    /\ pc[s] = "idle" /\ lock = NoOne
    /\ queue # NoState => queue.phase \in {"waiting", "submit_pending"}
    /\ lock' = s
    /\ pc' = [pc EXCEPT ![s] = "watching"]
    /\ Save(s, IF queue = NoState THEN NewState ELSE [queue EXCEPT !.phase = "waiting"])
    /\ UNCHANGED <<stop, cluster, chain, history>>

\* Take the lock; create the state file or go on from it.  Only the phase
\* `waiting` goes on: a marker raises, a final phase is reported.
Start(s) ==
    /\ pc[s] = "idle" /\ lock = NoOne
    /\ queue # NoState => queue.phase = "waiting"
    /\ lock' = s
    /\ pc' = [pc EXCEPT ![s] = "watching"]
    /\ Save(s, IF queue = NoState THEN NewState ELSE queue)
    /\ UNCHANGED <<stop, cluster, chain, history>>

SeeStop(s) ==
    /\ pc[s] = "watching" /\ stop
    /\ Finish(s, "stopped")
    /\ UNCHANGED <<stop, cluster, chain, history>>

Watched(s) == acct[mem[s].current]

\* Bug: a failed job is polled on as if it were still active.
JobFailed_StillActive(s) ==
    /\ pc[s] = "watching" /\ ~stop
    /\ Watched(s) = "FAILED"
    /\ UNCHANGED vars

JobFailed(s) ==
    /\ pc[s] = "watching" /\ ~stop
    /\ Watched(s) = "FAILED"
    /\ Finish(s, "stopped")
    /\ UNCHANGED <<stop, cluster, chain, history>>

\* Bug: a job that left the running state is taken for a completed one.
JobCompleted_AnyEnd(s) ==
    /\ pc[s] = "watching" /\ ~stop
    /\ Watched(s) \in Ended
    /\ pc' = [pc EXCEPT ![s] = "checking"]
    /\ UNCHANGED <<queue, lock, mem, stop, cluster, chain, history>>

JobCompleted(s) ==
    /\ pc[s] = "watching" /\ ~stop
    /\ Watched(s) = "COMPLETED"
    /\ pc' = [pc EXCEPT ![s] = "checking"]
    /\ UNCHANGED <<queue, lock, mem, stop, cluster, chain, history>>

\* Bug: the queries count as progress whoever asked them.
DecideRaises_IgnoresSessions(q) ==
    \/ chain.status # "none"
    \/ chain.failed
    \/ chain.next - q.index \notin 1 .. MaxBatch

\* The gates of decide: nothing unresolved, no failure, and exactly one more
\* session, with 1..32 queries.
DecideRaises(q) ==
    \/ chain.status # "none"
    \/ chain.failed
    \/ chain.next - q.index \notin 1 .. MaxBatch
    \/ chain.sessions # q.sessions + 1

Decision(q) ==
    IF chain.next = ExpectedQueries THEN "complete"
    ELSE IF Len(q.submitted) >= MaxJobs THEN "budget_exhausted" ELSE "submit"

\* preflight and decide.  An error ends the run and leaves the file `waiting`.
\* (mem holds what the run will save next: here the new baseline, which a stop
\* discards, and in Sbatch the job's ID.)
Check(s) ==
    /\ pc[s] = "checking"
    /\ IF DecideRaises(mem[s])
       THEN Leave(s) /\ UNCHANGED queue
       ELSE IF Decision(mem[s]) # "submit"
       THEN Finish(s, Decision(mem[s]))
       ELSE /\ mem' = [mem EXCEPT ![s].index = chain.next, ![s].sessions = chain.sessions]
            /\ pc' = [pc EXCEPT ![s] = "submitting"]
            /\ UNCHANGED <<queue, lock>>
    /\ UNCHANGED <<stop, cluster, chain, history>>

SubmitSeesStop(s) ==
    /\ pc[s] = "submitting" /\ stop
    /\ queue' = [queue EXCEPT !.phase = "stopped"]
    /\ Leave(s)
    /\ UNCHANGED <<stop, cluster, chain, history>>

\* "A durable marker precedes the non-idempotent scheduler operation."
Mark(s) ==
    /\ pc[s] = "submitting" /\ ~stop
    /\ Save(s, [mem[s] EXCEPT !.phase = "submit_pending"])
    /\ pc' = [pc EXCEPT ![s] = "marked"]
    /\ UNCHANGED <<lock, stop, cluster, chain, history>>

\* Bug: a lost receipt is answered by another call.
Sbatch_Retries(s, receipt) ==
    /\ pc[s] = "marked"
    /\ job' = [job EXCEPT ![NewJob] = "pending"]
    /\ mine' = mine \cup {NewJob}
    /\ late' = IF stop THEN late + 1 ELSE late
    /\ IF receipt
       THEN /\ mem' = [mem EXCEPT ![s].current = NewJob]
            /\ pc' = [pc EXCEPT ![s] = "submitted"]
       ELSE UNCHANGED <<mem, pc>>
    /\ UNCHANGED <<queue, lock, stop, acct, chain, foreign>>

\* Slurm accepts the job; a lost receipt is a timeout, a non-zero exit or an
\* answer the supervisor cannot read, and ends the run.
Sbatch(s, receipt) ==
    /\ pc[s] = "marked"
    /\ job' = [job EXCEPT ![NewJob] = "pending"]
    /\ mine' = mine \cup {NewJob}
    /\ late' = IF stop THEN late + 1 ELSE late
    /\ IF receipt
       THEN /\ mem' = [mem EXCEPT ![s].current = NewJob]
            /\ pc' = [pc EXCEPT ![s] = "submitted"]
            /\ UNCHANGED lock
       ELSE Leave(s)
    /\ UNCHANGED <<queue, stop, acct, chain, foreign>>

SbatchRefused(s) ==
    /\ pc[s] = "marked"
    /\ Leave(s)
    /\ UNCHANGED <<queue, stop, cluster, chain, history>>

Record(s) ==
    LET id == mem[s].current IN
    /\ pc[s] = "submitted"
    /\ id # 0 /\ id \notin Range(mem[s].submitted)
    /\ Save(s, [mem[s] EXCEPT !.submitted = Append(@, id), !.phase = "waiting"])
    /\ pc' = [pc EXCEPT ![s] = "watching"]
    /\ UNCHANGED <<lock, stop, cluster, chain, history>>

\* The process dies, or stops because its source changed, sacct failed, the job
\* was missing from accounting for ten minutes, or preflight found the files in
\* the middle of a write.
Crash(s) ==
    /\ pc[s] # "idle"
    /\ Leave(s)
    /\ UNCHANGED <<queue, stop, cluster, chain, history>>

-----------------------------------------------------------------------------
SupervisorStep(s) ==
    \/ SeeStop(s) \/ JobFailed(s) \/ JobCompleted(s) \/ Check(s)
    \/ SubmitSeesStop(s) \/ Mark(s) \/ Record(s)
    \/ \E receipt \in BOOLEAN : Sbatch(s, receipt)
    \/ SbatchRefused(s)

JobStep(j) ==
    \/ JobStart(j) \/ JobOpen(j) \/ JobEnd(j) \/ JobDie(j)
    \/ \E n \in 0 .. MaxBatch, failed \in BOOLEAN : JobSeal(j, n, failed)

Next ==
    \/ \E s \in Supervisors : Start(s) \/ SupervisorStep(s) \/ Crash(s)
    \/ \E j \in Jobs : JobStep(j) \/ Account(j)
    \/ ManualSubmit \/ TouchStop
    \/ \E n \in 0 .. MaxBatch, failed \in BOOLEAN : Resolve(n, failed)

Spec == Init /\ [][Next]_vars

\* Slurm ends every job and accounts for it; a live supervisor goes on, and is
\* started again when it died.
Fairness ==
    /\ \A j \in Jobs : WF_vars(JobStep(j)) /\ WF_vars(Account(j) /\ acct' # acct)
    /\ \A s \in Supervisors : WF_vars(SupervisorStep(s))
    /\ SF_vars(\E s \in Supervisors : Start(s))

FairSpec == Spec /\ Fairness

-----------------------------------------------------------------------------
(* Properties *)

\* Every variable holds a value of its kind.
TypeOK ==
    /\ queue \in State \cup {NoState}
    /\ stop \in BOOLEAN
    /\ lock \in Supervisors \cup {NoOne}
    /\ pc \in [Supervisors -> {"idle", "watching", "checking", "submitting", "marked", "submitted"}]
    /\ mem \in [Supervisors -> State]
    /\ job \in [Jobs -> {"none", "pending"} \cup Working \cup Ended]
    /\ acct \in [Jobs -> {"absent", "active"} \cup Ended]
    /\ chain \in [next : 0 .. ExpectedQueries, sessions : Nat, failed : BOOLEAN,
                  status : {"none", "unresolved", "finalized_orphan"}]
    /\ mine \subseteq Jobs
    /\ foreign \in Nat /\ late \in Nat

\* A job sbatch accepted is in the state file, or the marker stands for it;
\* there is at most one such job, all of them together stay in the budget, and
\* each was preceded by a batch that answered at least one query.
\* ("The supervisor refuses to resubmit automatically.")
SubmissionsAccounted ==
    /\ Cardinality(mine) <= MaxJobs
    /\ Submitted(queue) \subseteq mine
    /\ Cardinality(mine \ Submitted(queue)) <= 1
    /\ mine # Submitted(queue) => queue.phase = "submit_pending"
    /\ mine # {} => Cardinality(mine) <= queue.index - AfterIndex

\* "Waiting-job failures ... also stop continuation": every supervised job but
\* the last one completed.
PredecessorsCompleted ==
    \A j \in Supervised : (\E i \in mine : i > j) => job[j] = "COMPLETED"

\* "Unexpected manual interleaving stops the queue": a check that lets a
\* submission through sees only sessions that supervised jobs wrote.
InterleavingStops ==
    [][\A s \in Supervisors : pc[s] = "checking" /\ pc'[s] = "submitting" => foreign = 0]_vars

\* No session is opened over an unresolved one or after a failure, whoever
\* submitted the job and however old the supervisor's reading of the chain was.
NoQueryAfterFailure ==
    [][\A j \in Jobs : job[j] # "asking" /\ job'[j] = "asking" =>
          chain.status # "unresolved" /\ ~chain.failed]_vars

\* "The stop file does not ... retract an in-flight submission. The supervisor
\* stops at its next check": at most one job is accepted after it appears.
StopHolds == late <= 1

\* The supervisor does not wait for ever: it ends in a final phase, behind its
\* marker, or at a check that keeps failing until somebody repairs the chain.
Blocked == queue # NoState /\ queue.phase = "waiting" /\ DecideRaises(queue)
                           /\ job[queue.current] = "COMPLETED"
Concludes == <>[][\A s \in Supervisors : ~Crash(s)]_vars =>
    <>[](queue # NoState /\ (queue.phase # "waiting" \/ Blocked))

=============================================================================
