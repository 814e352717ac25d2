--------------------------- MODULE AutoQueueProofs ---------------------------
(***************************************************************************)
(* TLAPS proofs about AutoQueue: for any number of supervisors, jobs and   *)
(* queries, every job sbatch accepted is accounted for, each but the last  *)
(* one completed, at most one is accepted after the stop file appears, and *)
(* a submission is let through only when nobody else wrote a session.      *)
(*                                                                         *)
(* The argument: the supervisor that holds the lock remembers the state    *)
(* file (PlaceInv); the file names the jobs it submitted, all of them      *)
(* unless the marker stands (FileInv); and the chain holds a session for   *)
(* each supervised job that sealed one and for each foreign one            *)
(* (SessionInv), so a chain that grew by exactly one session since the     *)
(* last decision has no foreign one.                                       *)
(***************************************************************************)
EXTENDS AutoQueue, FiniteSetTheorems, TLAPS

LockInv == \A s \in Supervisors : pc[s] # "idle" => lock = s

\* Job IDs are given out in order, and to the supervisor or by hand.
Used == {j \in Jobs \ {0} : job[j] # "none"}

JobInv ==
    /\ \E k \in Jobs : \A j \in Jobs : job[j] # "none" <=> j <= k
    /\ mine \subseteq Used
    /\ Cardinality(Used \ mine) <= ManualJobs

\* Accounting never tells an end that did not happen, one job works at a time,
\* and the chain stays runnable between its preflight and its first query.
ClusterInv ==
    /\ \A j \in Jobs : acct[j] \in Ended => job[j] = acct[j]
    /\ \A i, j \in Jobs : job[i] \in Working /\ job[j] \in Working => i = j
    /\ \A j \in Jobs : job[j] = "launched" => chain.status # "unresolved" /\ ~chain.failed

FileInv ==
    IF queue = NoState THEN mine = {}
    ELSE /\ Len(queue.submitted) <= MaxJobs
         /\ Cardinality(Submitted(queue)) = Len(queue.submitted)
         /\ Submitted(queue) \subseteq mine
         /\ queue.current \in Submitted(queue) \cup {0}
         /\ \A j \in Submitted(queue) : j <= queue.current
         /\ IF queue.phase = "submit_pending"
            THEN /\ Len(queue.submitted) < MaxJobs
                 /\ queue.index >= AfterIndex + Len(queue.submitted) + 1
                 /\ queue.sessions = AfterSessions + Len(queue.submitted) + 1
                 /\ \E id \in Jobs : mine \subseteq Submitted(queue) \cup {id}
            ELSE /\ mine = Submitted(queue)
                 /\ queue.index >= AfterIndex + Len(queue.submitted)
                 /\ queue.sessions = AfterSessions + Len(queue.submitted)

\* What the holder of the lock remembers, at each place of the supervisor.
Holds(s) ==
    /\ queue # NoState
    /\ pc[s] \in {"watching", "checking"} => mem[s] = queue /\ queue.phase = "waiting"
    /\ pc[s] = "submitting" =>
          /\ queue.phase = "waiting"
          /\ mem[s] = [queue EXCEPT !.index = mem[s].index, !.sessions = mem[s].sessions]
          /\ mem[s].index >= AfterIndex + Len(queue.submitted) + 1
          /\ mem[s].sessions = AfterSessions + Len(queue.submitted) + 1
          /\ Len(queue.submitted) < MaxJobs
    /\ pc[s] = "marked" =>
          /\ mem[s] = queue /\ queue.phase = "submit_pending"
          /\ mine = Submitted(queue)
    /\ pc[s] = "submitted" =>
          /\ queue.phase = "submit_pending"
          /\ mem[s] = [queue EXCEPT !.current = mem[s].current]
          /\ mem[s].current # 0 /\ mem[s].current \notin Submitted(queue)
          /\ mine = Submitted(queue) \cup {mem[s].current}
          /\ \A j \in Submitted(queue) : j < mem[s].current
    /\ pc[s] \in {"checking", "submitting", "marked"} => job[mem[s].current] = "COMPLETED"

PlaceInv == \A s \in Supervisors : pc[s] # "idle" => Holds(s)

StopInv ==
    /\ late \in {0, 1}
    /\ late = 1 => stop /\ \A s \in Supervisors : pc[s] # "marked"

\* Supervised jobs that wrote a session, as long as queries are left.
Contributors == {j \in Supervised : job[j] \in {"sealed", "COMPLETED"}}

SessionInv ==
    chain.next < ExpectedQueries =>
        chain.sessions >= AfterSessions + foreign + Cardinality(Contributors)

IInv == /\ TypeOK /\ LockInv /\ JobInv /\ ClusterInv /\ FileInv /\ PlaceInv
        /\ StopInv /\ PredecessorsCompleted /\ SessionInv

-----------------------------------------------------------------------------
LEMMA JobsFinite == Jobs \subseteq Nat /\ 0 \in Jobs /\ IsFiniteSet(Jobs)
BY FS_Interval, ConstantsAssumption DEF Jobs

LEMMA NewStateTyped == NewState \in State /\ NewState # NoState
<1>1. << >> \in Seq(Jobs)
  OBVIOUS
<1>2. AfterIndex \in 0 .. ExpectedQueries /\ AfterSessions \in Nat
  BY ConstantsAssumption
<1>3. NewState \in State
  BY <1>1, <1>2, JobsFinite DEF NewState, State, Phases
<1>. QED
  BY <1>3, NoStateAssumption

LEMMA RangeOfEmpty == Submitted(NewState) = {}
BY NewStateTyped DEF Submitted, NewState, Range

LEMMA RangeOfAppend ==
    ASSUME NEW S, NEW q \in Seq(S), NEW x \in S
    PROVE  Range(Append(q, x)) = Range(q) \cup {x}
<1>1. DOMAIN Append(q, x) = 1 .. Len(q) + 1 /\ DOMAIN q = 1 .. Len(q) /\ Len(q) \in Nat
  OBVIOUS
<1>2. \A i \in 1 .. Len(q) : Append(q, x)[i] = q[i]
  OBVIOUS
<1>3. Append(q, x)[Len(q) + 1] = x
  OBVIOUS
<1>. QED
  BY <1>1, <1>2, <1>3 DEF Range

\* What is submitted is a finite set of jobs.
LEMMA SubmittedFinite ==
    ASSUME NEW q \in State
    PROVE  /\ Submitted(q) = Range(q.submitted)
           /\ Submitted(q) \subseteq Jobs
           /\ IsFiniteSet(Submitted(q))
           /\ Len(q.submitted) \in Nat
<1>1. Submitted(q) = Range(q.submitted) /\ q.submitted \in Seq(Jobs)
  BY NoStateAssumption DEF Submitted, State
<1>2. Range(q.submitted) \subseteq Jobs
  BY <1>1 DEF Range
<1>. QED
  BY <1>1, <1>2, JobsFinite, FS_Subset

-----------------------------------------------------------------------------
\* The initial state satisfies the invariant.
LEMMA InitIInv == Init => IInv
<1>. SUFFICES ASSUME Init PROVE IInv
  OBVIOUS
<1>. USE ConstantsAssumption, JobsFinite
<1>1. TypeOK
  <2>1. chain \in [next : 0 .. ExpectedQueries, sessions : Nat, failed : BOOLEAN,
                   status : {"none", "unresolved", "finalized_orphan"}]
    BY DEF Init
  <2>2. /\ job \in [Jobs -> {"none", "pending"} \cup Working \cup Ended]
        /\ acct \in [Jobs -> {"absent", "active"} \cup Ended]
    BY DEF Init
  <2>. QED
    BY <2>1, <2>2, NewStateTyped DEF Init, TypeOK
<1>2. LockInv /\ PlaceInv /\ StopInv /\ FileInv
  BY DEF Init, LockInv, PlaceInv, StopInv, FileInv
<1>3. JobInv
  <2>1. Used = {}
    BY DEF Init, Used
  <2>2. \A j \in Jobs : job[j] # "none" <=> j <= 0
    BY DEF Init
  <2>. QED
    BY <2>1, <2>2, FS_EmptySet DEF Init, JobInv
<1>4. ClusterInv
  BY DEF Init, ClusterInv, Ended, Working
<1>5. PredecessorsCompleted
  BY DEF Init, PredecessorsCompleted
<1>6. SessionInv
  <2>1. Contributors = {}
    BY DEF Init, Contributors, Supervised
  <2>. QED
    BY <2>1, FS_EmptySet DEF Init, SessionInv
<1>. QED
  BY <1>1, <1>2, <1>3, <1>4, <1>5, <1>6 DEF IInv

-----------------------------------------------------------------------------
(* Steps of the supervisor that leave the cluster alone *)

\* They keep what is said of the cluster.
LEMMA ClusterKept ==
    ASSUME IInv, UNCHANGED <<cluster, chain, mine, foreign>>
    PROVE  JobInv' /\ ClusterInv' /\ PredecessorsCompleted' /\ SessionInv'
BY DEF IInv, JobInv, Used, ClusterInv, PredecessorsCompleted, Supervised, SessionInv,
       Contributors, cluster

\* The holder of the lock is alone.
LEMMA HolderAlone ==
    ASSUME IInv, NEW s \in Supervisors, pc[s] # "idle"
    PROVE  /\ lock = s
           /\ \A p \in Supervisors : p # s => pc[p] = "idle"
           /\ Holds(s)
           /\ queue \in State /\ queue # NoState /\ mem[s] \in State
BY DEF IInv, LockInv, PlaceInv, Holds, TypeOK

\* A supervisor that ends leaves a state file that satisfies the invariant.
LEMMA LeaveKeeps ==
    ASSUME IInv, NEW s \in Supervisors, pc[s] # "idle", Leave(s),
           queue' \in State, FileInv',
           UNCHANGED <<stop, cluster, chain, history>>
    PROVE  IInv'
<1>. USE HolderAlone
<1>1. \A p \in Supervisors : pc'[p] = "idle"
  BY DEF IInv, TypeOK, Leave
<1>2. TypeOK'
  BY NewStateTyped DEF IInv, TypeOK, Leave, cluster, history
<1>3. LockInv' /\ PlaceInv'
  BY <1>1 DEF LockInv, PlaceInv
<1>4. StopInv'
  BY <1>1 DEF IInv, StopInv, history
<1>. QED
  BY <1>2, <1>3, <1>4, ClusterKept DEF IInv, history

LEMMA CrashKeeps ==
    ASSUME IInv, NEW s \in Supervisors, pc[s] # "idle", Leave(s),
           UNCHANGED <<queue, stop, cluster, chain, history>>
    PROVE  IInv'
<1>1. FileInv'
  BY DEF IInv, FileInv, history
<1>. QED
  BY <1>1, LeaveKeeps, HolderAlone

LEMMA FinishKeeps ==
    ASSUME IInv, NEW s \in Supervisors, pc[s] \in {"watching", "checking"},
           NEW phase \in Phases \ {"submit_pending"}, Finish(s, phase),
           UNCHANGED <<stop, cluster, chain, history>>
    PROVE  IInv'
<1>1. mem[s] = queue /\ queue.phase = "waiting" /\ queue # NoState /\ queue \in State
  BY HolderAlone DEF Holds
<1>2. queue' = [queue EXCEPT !.phase = phase]
  BY <1>1 DEF Finish
<1>3. queue' \in State
  BY <1>1, <1>2 DEF State, Phases
<1>4. queue' # NoState /\ queue'.phase = phase /\ Submitted(queue') = Submitted(queue)
      /\ queue'.submitted = queue.submitted /\ queue'.current = queue.current
      /\ queue'.index = queue.index /\ queue'.sessions = queue.sessions
  BY <1>1, <1>2, <1>3, NoStateAssumption DEF State, Submitted
<1>5. FileInv'
  BY <1>1, <1>4 DEF IInv, FileInv, history
<1>. QED
  BY <1>3, <1>5, LeaveKeeps DEF Finish

LEMMA StartKeeps ==
    ASSUME IInv, NEW s \in Supervisors, Start(s)
    PROVE  IInv'
<1>. USE ConstantsAssumption
<1>1. \A p \in Supervisors : p # s => pc'[p] = "idle"
  BY DEF IInv, TypeOK, LockInv, Start
<1>2. pc'[s] = "watching" /\ mem'[s] = queue' /\ queue' \in State /\ queue' # NoState
  BY NewStateTyped, NoStateAssumption DEF IInv, TypeOK, Start, Save
<1>3. queue'.phase = "waiting"
  BY DEF Start, Save, NewState
<1>4. TypeOK'
  BY <1>2 DEF IInv, TypeOK, Start, Save, cluster, history
<1>5. LockInv'
  BY <1>1 DEF LockInv, Start
<1>6. FileInv'
  <2>1. CASE queue = NoState
    <3>1. queue' = NewState /\ mine = {} /\ mine' = mine
      BY <2>1 DEF IInv, FileInv, Start, Save, history
    <3>2. /\ Len(NewState.submitted) = 0 /\ Submitted(NewState) = {}
         /\ NewState.current = 0 /\ NewState.phase = "waiting"
         /\ NewState.index = AfterIndex /\ NewState.sessions = AfterSessions
      BY RangeOfEmpty DEF NewState
    <3>3. Cardinality({}) = 0
      BY FS_EmptySet
    <3>. QED
      BY <3>1, <3>2, <3>3, NewStateTyped DEF FileInv
  <2>2. CASE queue # NoState
    BY <2>2 DEF IInv, FileInv, Start, Save, history
  <2>. QED
    BY <2>1, <2>2
<1>7. PlaceInv'
  BY <1>1, <1>2, <1>3 DEF PlaceInv, Holds
<1>8. StopInv'
  BY <1>1, <1>2 DEF IInv, StopInv, Start, history
<1>. QED
  BY <1>4, <1>5, <1>6, <1>7, <1>8, ClusterKept DEF IInv, Start, history

\* A step that stays in the run and leaves the cluster alone.
LEMMA StayKeeps ==
    ASSUME IInv, NEW s \in Supervisors, pc[s] # "idle",
           NEW place \in {"watching", "checking", "submitting", "marked"},
           pc' = [pc EXCEPT ![s] = place],
           NEW q \in State, mem' = [mem EXCEPT ![s] = q],
           queue' \in State, FileInv', Holds(s)', place = "marked" => late = 0,
           UNCHANGED <<lock, stop, cluster, chain, history>>
    PROVE  IInv'
<1>. USE HolderAlone
<1>1. TypeOK'
  BY DEF IInv, TypeOK, cluster, history
<1>2. LockInv' /\ PlaceInv'
  BY DEF IInv, TypeOK, LockInv, PlaceInv
<1>3. StopInv'
  BY DEF IInv, TypeOK, StopInv, history
<1>. QED
  BY <1>1, <1>2, <1>3, ClusterKept DEF IInv, history

LEMMA JobCompletedKeeps ==
    ASSUME IInv, NEW s \in Supervisors, JobCompleted(s)
    PROVE  IInv'
<1>. USE HolderAlone
<1>1. job[mem[s].current] = "COMPLETED"
  BY DEF IInv, ClusterInv, TypeOK, State, JobCompleted, Watched, Ended
<1>2. mem' = [mem EXCEPT ![s] = mem[s]] /\ pc[s] = "watching" /\ pc'[s] = "checking"
  BY DEF IInv, TypeOK, JobCompleted
<1>3. FileInv'
  BY DEF IInv, FileInv, JobCompleted, history
<1>4. Holds(s)'
  BY <1>1, <1>2 DEF IInv, Holds, JobCompleted, cluster
<1>. QED
  BY <1>2, <1>3, <1>4, StayKeeps DEF JobCompleted


LEMMA CheckKeeps ==
    ASSUME IInv, NEW s \in Supervisors, Check(s)
    PROVE  IInv'
<1>. USE HolderAlone, ConstantsAssumption
<1>1. mem[s] = queue /\ queue.phase = "waiting" /\ job[mem[s].current] = "COMPLETED"
  BY DEF Holds, Check
<1>2. CASE DecideRaises(mem[s])
  BY <1>2, CrashKeeps DEF Check
<1>3. CASE ~DecideRaises(mem[s]) /\ Decision(mem[s]) # "submit"
  <2>1. Decision(mem[s]) \in Phases \ {"submit_pending"}
    BY <1>3 DEF Decision, Phases
  <2>2. Finish(s, Decision(mem[s])) /\ UNCHANGED <<stop, cluster, chain, history>>
    BY <1>3 DEF Check
  <2>. QED
    BY <2>1, <2>2, FinishKeeps DEF Check
<1>4. CASE ~DecideRaises(mem[s]) /\ Decision(mem[s]) = "submit"
  <2> DEFINE q == [mem[s] EXCEPT !.index = chain.next, !.sessions = chain.sessions]
  <2>1. /\ mem' = [mem EXCEPT ![s] = q] /\ pc' = [pc EXCEPT ![s] = "submitting"]
        /\ UNCHANGED <<queue, lock, stop, cluster, chain, history>> /\ pc[s] = "checking"
    <3>1. mem' = [mem EXCEPT ![s].index = chain.next, ![s].sessions = chain.sessions]
      BY <1>4 DEF Check
    <3>2. mem \in [Supervisors -> State]
      BY DEF IInv, TypeOK
    <3>3. mem' = [mem EXCEPT ![s] = q]
      BY <3>1, <3>2 DEF State
    <3>. QED
      BY <1>4, <3>3 DEF Check
  <2>2. /\ Len(queue.submitted) < MaxJobs
        /\ chain.sessions = queue.sessions + 1
        /\ chain.next - queue.index \in 1 .. MaxBatch
    BY <1>1, <1>4, SubmittedFinite DEF DecideRaises, Decision
  <2>3. chain.next \in 0 .. ExpectedQueries /\ chain.sessions \in Nat
    BY DEF IInv, TypeOK
  <2>4. q \in State
    BY <1>1, <2>1, <2>3 DEF State
  <2>5. mem'[s] = q /\ pc'[s] = "submitting" /\ queue' = queue
    BY <2>1 DEF IInv, TypeOK
  <2>6. queue.index >= AfterIndex + Len(queue.submitted)
        /\ queue.sessions = AfterSessions + Len(queue.submitted)
    BY <1>1, <2>1 DEF IInv, FileInv
  <2>7. q = [queue EXCEPT !.index = q.index, !.sessions = q.sessions]
        /\ q.index = chain.next /\ q.sessions = chain.sessions /\ q.current = queue.current
    BY <1>1, <2>1 DEF State
  <2>8. queue.index \in Int /\ queue.sessions \in Int /\ Len(queue.submitted) \in Nat
    BY <2>1, SubmittedFinite DEF State
  <2>9. Holds(s)'
    <3>1. q.index >= AfterIndex + Len(queue.submitted) + 1
      <4>1. chain.next >= AfterIndex + Len(queue.submitted) + 1
        <5>1. chain.next \in Int /\ chain.next - queue.index >= 1
          BY <2>2, <2>3
        <5>. HIDE DEF Holds, q
        <5>. QED
          BY <2>6, <2>8, <5>1, ConstantsAssumption
      <4>. QED
        BY <4>1, <2>7
    <3>2. q.sessions = AfterSessions + Len(queue.submitted) + 1
      BY <2>2, <2>3, <2>6, <2>7, <2>8
    <3>3. queue' # NoState /\ queue'.phase = "waiting" /\ Len(queue'.submitted) < MaxJobs
      BY <1>1, <2>1, <2>2
    <3>4. job'[mem'[s].current] = "COMPLETED"
      BY <1>1, <2>1, <2>5, <2>7 DEF cluster
    <3>5. mem'[s] = [queue' EXCEPT !.index = mem'[s].index, !.sessions = mem'[s].sessions]
      BY <2>5, <2>7
    <3>. HIDE DEF q
    <3>. QED
      BY <2>5, <2>7, <3>1, <3>2, <3>3, <3>4, <3>5 DEF Holds
  <2>10. FileInv'
    BY <2>1 DEF IInv, FileInv, history
  <2>. HIDE DEF q
  <2>. QED
    BY <2>1, <2>4, <2>9, <2>10, StayKeeps
<1>. QED
  BY <1>2, <1>3, <1>4

LEMMA SubmitSeesStopKeeps ==
    ASSUME IInv, NEW s \in Supervisors, SubmitSeesStop(s)
    PROVE  IInv'
<1>1. queue.phase = "waiting" /\ queue # NoState /\ queue \in State
  BY HolderAlone DEF Holds, SubmitSeesStop
<1>2. queue' = [queue EXCEPT !.phase = "stopped"]
  BY DEF SubmitSeesStop
<1>3. queue' \in State
  BY <1>1, <1>2 DEF State, Phases
<1>4. queue' # NoState /\ queue'.phase = "stopped" /\ Submitted(queue') = Submitted(queue)
      /\ queue'.submitted = queue.submitted /\ queue'.current = queue.current
      /\ queue'.index = queue.index /\ queue'.sessions = queue.sessions
  BY <1>1, <1>2, <1>3, NoStateAssumption DEF State, Submitted
<1>5. FileInv'
  BY <1>1, <1>4 DEF IInv, FileInv, SubmitSeesStop, history
<1>. QED
  BY <1>3, <1>5, LeaveKeeps DEF SubmitSeesStop

LEMMA MarkKeeps ==
    ASSUME IInv, NEW s \in Supervisors, Mark(s)
    PROVE  IInv'
<1>. USE HolderAlone
<1> DEFINE q == [mem[s] EXCEPT !.phase = "submit_pending"]
<1>1. pc[s] = "submitting" /\ queue.phase = "waiting" /\ queue \in State /\ mem[s] \in State
      /\ queue # NoState
  BY DEF Mark, Holds
<1>2. mem[s].submitted = queue.submitted /\ mem[s].current = queue.current
  <2>1. mem[s] = [queue EXCEPT !.index = mem[s].index, !.sessions = mem[s].sessions]
    BY <1>1 DEF Holds
  <2>. QED
    BY <1>1, <2>1 DEF State
<1>3. /\ mem[s].index >= AfterIndex + Len(queue.submitted) + 1
      /\ mem[s].sessions = AfterSessions + Len(queue.submitted) + 1
      /\ Len(queue.submitted) < MaxJobs /\ job[mem[s].current] = "COMPLETED"
  BY <1>1 DEF Holds
<1>4. q \in State /\ q # NoState
  BY <1>1, NoStateAssumption DEF State, Phases
<1>5. /\ q.phase = "submit_pending" /\ q.submitted = queue.submitted
      /\ q.current = queue.current /\ q.index = mem[s].index /\ q.sessions = mem[s].sessions
  BY <1>1, <1>2 DEF State
<1>6. Submitted(q) = Submitted(queue)
  BY <1>1, <1>4, <1>5 DEF Submitted
<1>7. queue' = q /\ mem' = [mem EXCEPT ![s] = q] /\ pc' = [pc EXCEPT ![s] = "marked"]
      /\ UNCHANGED <<lock, stop, cluster, chain, history>> /\ ~stop
  BY DEF Mark, Save
<1>8. mem'[s] = q /\ pc'[s] = "marked" /\ mine' = mine /\ job' = job
  BY <1>7 DEF IInv, TypeOK, history, cluster
<1>9. mine = Submitted(queue)
  BY <1>1 DEF IInv, FileInv
<1>. HIDE DEF q
<1>10. FileInv'
  BY <1>1, <1>3, <1>4, <1>5, <1>6, <1>7, <1>8, <1>9, JobsFinite DEF IInv, FileInv
<1>11. Holds(s)'
  <2>1. job'[mem'[s].current] = "COMPLETED"
    BY <1>2, <1>3, <1>5, <1>8
  <2>2. mem'[s] = queue' /\ queue' # NoState /\ queue'.phase = "submit_pending"
        /\ mine' = Submitted(queue')
    BY <1>4, <1>5, <1>6, <1>7, <1>8, <1>9
  <2>. QED
    BY <1>8, <2>1, <2>2 DEF Holds
<1>12. late = 0
  BY <1>7 DEF IInv, StopInv
<1>. QED
  BY <1>1, <1>4, <1>7, <1>10, <1>11, <1>12, StayKeeps

LEMMA RecordKeeps ==
    ASSUME IInv, NEW s \in Supervisors, Record(s)
    PROVE  IInv'
<1>. USE HolderAlone
<1> DEFINE id == mem[s].current
           q == [mem[s] EXCEPT !.submitted = Append(@, id), !.phase = "waiting"]
<1>1. pc[s] = "submitted" /\ queue \in State /\ mem[s] \in State /\ queue # NoState
      /\ queue.phase = "submit_pending"
  BY DEF Record, Holds
<1>2. mem[s].submitted = queue.submitted /\ mem[s].index = queue.index
      /\ mem[s].sessions = queue.sessions
  <2>1. mem[s] = [queue EXCEPT !.current = mem[s].current]
    BY <1>1 DEF Holds
  <2>. HIDE HolderAlone
  <2>. QED
    BY <1>1, <2>1 DEF State
<1>3. /\ id # 0 /\ id \notin Submitted(queue) /\ mine = Submitted(queue) \cup {id}
      /\ \A j \in Submitted(queue) : j < id
  BY <1>1 DEF Holds
<1>. HIDE DEF q
<1>4. id \in Jobs /\ id \in Nat /\ queue.submitted \in Seq(Jobs) /\ Len(queue.submitted) \in Nat
  BY <1>1, JobsFinite DEF State
<1>5. Append(queue.submitted, id) \in Seq(Jobs)
      /\ Len(Append(queue.submitted, id)) = Len(queue.submitted) + 1
  BY <1>4
<1>6. q \in State /\ q # NoState
  <2>1. q \in State
    BY <1>1, <1>2, <1>5 DEF q, State, Phases
  <2>. QED
    BY <2>1, NoStateAssumption
<1>7. /\ q.phase = "waiting" /\ q.submitted = Append(queue.submitted, id)
      /\ q.current = id /\ q.index = queue.index /\ q.sessions = queue.sessions
  BY <1>1, <1>2 DEF q, State
<1>8. Submitted(q) = Submitted(queue) \cup {id}
  <2>1. Submitted(q) = Range(Append(queue.submitted, id))
    BY <1>6, <1>7 DEF Submitted
  <2>2. Submitted(queue) = Range(queue.submitted)
    BY <1>1 DEF Submitted
  <2>. QED
    BY <1>4, <2>1, <2>2, RangeOfAppend
<1>9. queue' = q /\ mem' = [mem EXCEPT ![s] = q] /\ pc' = [pc EXCEPT ![s] = "watching"]
      /\ UNCHANGED <<lock, stop, cluster, chain, history>>
  BY DEF q, Record, Save
<1>10. mem'[s] = q /\ pc'[s] = "watching" /\ mine' = mine
  BY <1>9 DEF IInv, TypeOK, history
<1>11. IsFiniteSet(Submitted(queue)) /\ Cardinality(Submitted(queue)) = Len(queue.submitted)
       /\ Len(queue.submitted) < MaxJobs
       /\ queue.index >= AfterIndex + Len(queue.submitted) + 1
       /\ queue.sessions = AfterSessions + Len(queue.submitted) + 1
  BY <1>1, SubmittedFinite DEF IInv, FileInv
<1>12. Cardinality(Submitted(q)) = Len(q.submitted)
  BY <1>3, <1>5, <1>7, <1>8, <1>11, FS_AddElement
<1>13. Submitted(queue) \subseteq Nat
  BY <1>1, SubmittedFinite, JobsFinite
<1>. HIDE DEF id
<1>14. FileInv'
  <2>1. Len(q.submitted) <= MaxJobs /\ q.index >= AfterIndex + Len(q.submitted)
        /\ q.sessions = AfterSessions + Len(q.submitted)
    BY <1>1, <1>4, <1>5, <1>7, <1>11, ConstantsAssumption DEF State
  <2>2. q.current \in Submitted(q) /\ \A j \in Submitted(q) : j <= q.current
    BY <1>3, <1>4, <1>7, <1>8, <1>13
  <2>3. mine' = Submitted(q)
    BY <1>3, <1>8, <1>10
  <2>. QED
    BY <1>6, <1>7, <1>9, <1>12, <2>1, <2>2, <2>3 DEF FileInv
<1>15. Holds(s)'
  BY <1>6, <1>7, <1>9, <1>10 DEF Holds
<1>. QED
  BY <1>1, <1>6, <1>9, <1>14, <1>15, StayKeeps


-----------------------------------------------------------------------------
(* Steps of the cluster and of people *)

\* A step of a known job, or of a person, that undoes no completion keeps what
\* is said of the supervisors and the order of the submissions.
LEMMA SupervisorKept ==
    ASSUME IInv, UNCHANGED <<supervisor, mine, late>>, stop => stop',
           \A j \in Jobs : job[j] = "COMPLETED" => job'[j] = "COMPLETED"
    PROVE  LockInv' /\ FileInv' /\ PlaceInv' /\ StopInv' /\ PredecessorsCompleted'
<1>1. LockInv'
  BY DEF IInv, LockInv, supervisor
<1>2. FileInv'
  BY DEF IInv, FileInv, supervisor
<1>3. PlaceInv'
  <2>. SUFFICES ASSUME NEW s \in Supervisors, pc'[s] # "idle" PROVE Holds(s)'
    BY DEF PlaceInv
  <2>1. Holds(s) /\ mem[s].current \in Jobs
    BY DEF IInv, PlaceInv, TypeOK, State, supervisor
  <2>. QED
    BY <2>1 DEF Holds, supervisor
<1>4. StopInv'
  BY DEF IInv, TypeOK, StopInv, supervisor
<1>5. PredecessorsCompleted'
  <2>1. \A j \in Supervised : j \in Jobs
    BY JobsFinite DEF IInv, TypeOK, Supervised
  <2>. QED
    BY <2>1 DEF IInv, PredecessorsCompleted, Supervised
<1>. QED
  BY <1>1, <1>2, <1>3, <1>4, <1>5

\* Which jobs exist does not depend on how far they are.
LEMMA JobInvKept ==
    ASSUME IInv, mine' = mine, \A j \in Jobs : job[j] # "none" <=> job'[j] # "none"
    PROVE  JobInv'
<1>1. Used' = Used
  BY DEF Used
<1>. QED
  BY <1>1 DEF IInv, JobInv

LEMMA ContributorsFinite ==
    ASSUME TypeOK
    PROVE  /\ IsFiniteSet(Contributors) /\ Cardinality(Contributors) \in Nat
           /\ Supervised \subseteq Jobs
<1>1. Supervised \subseteq Jobs /\ Contributors \subseteq Jobs
  BY JobsFinite DEF TypeOK, Supervised, Contributors
<1>. QED
  BY <1>1, JobsFinite, FS_Subset, FS_CardinalityType

\* Fewer sealed jobs, the same sessions.
LEMMA SessionKept ==
    ASSUME IInv, TypeOK', Contributors' \subseteq Contributors, foreign' = foreign,
           chain'.next = chain.next, chain'.sessions = chain.sessions
    PROVE  SessionInv'
<1>1. Cardinality(Contributors') <= Cardinality(Contributors)
  BY ContributorsFinite, FS_Subset DEF IInv
<1>2. Cardinality(Contributors') \in Nat /\ Cardinality(Contributors) \in Nat
  BY ContributorsFinite, FS_Subset, FS_CardinalityType DEF IInv
<1>3. chain.sessions \in Nat /\ foreign \in Nat /\ AfterSessions \in Nat
  BY ConstantsAssumption DEF IInv, TypeOK
<1>. QED
  BY <1>1, <1>2, <1>3 DEF IInv, SessionInv

LEMMA AccountKeeps ==
    ASSUME IInv, NEW j \in Jobs, Account(j)
    PROVE  IInv'
<1>1. TypeOK'
  BY DEF IInv, TypeOK, Account, Ended, Working, supervisor, history
<1>2. job' = job /\ mine' = mine
  BY DEF Account, history
<1>3. JobInv'
  BY <1>2, JobInvKept
<1>4. ClusterInv'
  BY DEF IInv, TypeOK, ClusterInv, Account, Ended, Working
<1>5. SessionInv'
  BY DEF IInv, SessionInv, Contributors, Supervised, Account, history
<1>. QED
  BY <1>1, <1>2, <1>3, <1>4, <1>5, SupervisorKept DEF IInv, Account, history

LEMMA JobStartKeeps ==
    ASSUME IInv, NEW j \in Jobs, JobStart(j)
    PROVE  IInv'
<1>1. TypeOK'
  BY DEF IInv, TypeOK, JobStart, Ended, Working, supervisor, history
<1>2. /\ \A i \in Jobs : i # j => job'[i] = job[i]
      /\ job'[j] = IF JobLockFree /\ Runnable THEN "launched" ELSE "FAILED"
      /\ job[j] = "pending" /\ chain' = chain /\ mine' = mine /\ acct' = acct
  BY DEF IInv, TypeOK, JobStart, history
<1>3. JobInv'
  BY <1>2, JobInvKept
<1>4. ClusterInv'
  BY <1>2 DEF IInv, ClusterInv, JobLockFree, Runnable, Working, Ended
<1>5. Contributors' \subseteq Contributors
  BY <1>2, ContributorsFinite DEF IInv, Contributors, Supervised
<1>6. SessionInv'
  BY <1>1, <1>2, <1>5, SessionKept DEF JobStart, history
<1>. QED
  BY <1>1, <1>2, <1>3, <1>4, <1>6, SupervisorKept DEF IInv, JobStart, history

LEMMA JobOpenKeeps ==
    ASSUME IInv, NEW j \in Jobs, JobOpen(j)
    PROVE  IInv'
<1>1. TypeOK'
  <2>1. chain' \in [next : 0 .. ExpectedQueries, sessions : Nat, failed : BOOLEAN,
                     status : {"none", "unresolved", "finalized_orphan"}]
    BY DEF IInv, TypeOK, JobOpen
  <2>2. job' \in [Jobs -> {"none", "pending"} \cup Working \cup Ended]
    BY DEF IInv, TypeOK, JobOpen, Working, Ended
  <2>. QED
    BY <2>1, <2>2 DEF IInv, TypeOK, JobOpen, supervisor, history
<1>2. /\ \A i \in Jobs : i # j => job'[i] = job[i]
      /\ job[j] = "launched" /\ mine' = mine /\ acct' = acct /\ foreign' = foreign
      /\ chain'.next = chain.next /\ chain'.sessions = chain.sessions
      /\ job'[j] = IF chain.next = ExpectedQueries THEN "COMPLETED" ELSE "asking"
  BY DEF IInv, TypeOK, JobOpen, history
<1>3. JobInv'
  BY <1>2, JobInvKept
<1>4. ClusterInv'
  BY <1>2 DEF IInv, ClusterInv, Working, Ended
<1>5. SessionInv'
  <2>1. CASE chain.next = ExpectedQueries
    BY <1>2, <2>1, ConstantsAssumption DEF SessionInv
  <2>2. CASE chain.next # ExpectedQueries
    <3>1. Contributors' \subseteq Contributors
      BY <1>2, <2>2, ContributorsFinite DEF IInv, Contributors, Supervised
    <3>. QED
      BY <1>1, <1>2, <3>1, SessionKept
  <2>. QED
    BY <2>1, <2>2
<1>. QED
  BY <1>1, <1>2, <1>3, <1>4, <1>5, SupervisorKept DEF IInv, JobOpen, history

LEMMA JobSealKeeps ==
    ASSUME IInv, NEW j \in Jobs, NEW n \in 0 .. MaxBatch, NEW failed \in BOOLEAN,
           JobSeal(j, n, failed)
    PROVE  IInv'
<1>. USE ConstantsAssumption
<1>0. chain.next \in 0 .. ExpectedQueries /\ chain.sessions \in Nat /\ foreign \in Nat
  BY DEF IInv, TypeOK
<1>1. TypeOK'
  <2>1. chain.next + n \in 0 .. ExpectedQueries /\ chain.sessions + 1 \in Nat
    BY <1>0 DEF JobSeal, Sealed
  <2>2. chain' \in [next : 0 .. ExpectedQueries, sessions : Nat, failed : BOOLEAN,
                     status : {"none", "unresolved", "finalized_orphan"}]
    BY <2>1 DEF IInv, TypeOK, JobSeal, Sealed
  <2>3. job' \in [Jobs -> {"none", "pending"} \cup Working \cup Ended] /\ foreign' \in Nat
    BY <1>0 DEF IInv, TypeOK, JobSeal, Working, Ended
  <2>. QED
    BY <2>2, <2>3 DEF IInv, TypeOK, JobSeal, supervisor
<1>2. /\ \A i \in Jobs : i # j => job'[i] = job[i]
      /\ job[j] = "asking" /\ job'[j] = "sealed" /\ mine' = mine /\ acct' = acct
      /\ chain'.next = chain.next + n /\ chain'.sessions = chain.sessions + 1
      /\ foreign' = IF j \in Supervised THEN foreign ELSE foreign + 1
  BY DEF IInv, TypeOK, JobSeal, Sealed
<1>3. JobInv'
  BY <1>2, JobInvKept
<1>4. ClusterInv'
  BY <1>2 DEF IInv, ClusterInv, Working, Ended
<1>5. SessionInv'
  <2>1. /\ IsFiniteSet(Contributors) /\ Cardinality(Contributors) \in Nat
        /\ Cardinality(Contributors') \in Nat
    <3>1. Contributors' \subseteq Jobs
      BY <1>1, JobsFinite DEF TypeOK, Contributors, Supervised
    <3>. QED
      BY <3>1, JobsFinite, ContributorsFinite, FS_Subset, FS_CardinalityType DEF IInv
  <2>2. CASE j \in Supervised
    <3>1. Contributors' = Contributors \cup {j}
      BY <1>2, <2>2, ContributorsFinite DEF IInv, Contributors, Supervised
    <3>2. Cardinality(Contributors \cup {j}) = IF j \in Contributors THEN Cardinality(Contributors)
                                               ELSE Cardinality(Contributors) + 1
      BY <2>1, FS_AddElement
    <3>. QED
      BY <1>0, <1>2, <2>1, <2>2, <3>1, <3>2 DEF IInv, SessionInv
  <2>3. CASE j \notin Supervised
    <3>1. Contributors' = Contributors
      BY <1>2, <2>3, ContributorsFinite DEF IInv, Contributors, Supervised
    <3>. QED
      BY <1>0, <1>2, <2>1, <2>3, <3>1 DEF IInv, SessionInv
  <2>. QED
    BY <2>2, <2>3
<1>. QED
  BY <1>1, <1>2, <1>3, <1>4, <1>5, SupervisorKept DEF IInv, JobSeal


LEMMA JobEndKeeps ==
    ASSUME IInv, NEW j \in Jobs, JobEnd(j)
    PROVE  IInv'
<1>1. TypeOK'
  BY DEF IInv, TypeOK, JobEnd, Ended, Working, supervisor, history
<1>2. /\ \A i \in Jobs : i # j => job'[i] = job[i]
      /\ job[j] = "sealed" /\ job'[j] = "COMPLETED" /\ mine' = mine /\ acct' = acct
      /\ chain'.next = chain.next /\ chain'.sessions = chain.sessions
      /\ chain'.failed = chain.failed /\ chain'.status = "none" /\ foreign' = foreign
  BY DEF IInv, TypeOK, JobEnd, history
<1>3. JobInv'
  BY <1>2, JobInvKept
<1>4. ClusterInv'
  BY <1>2 DEF IInv, ClusterInv, Working, Ended
<1>5. Contributors' \subseteq Contributors
  BY <1>2, ContributorsFinite DEF IInv, Contributors, Supervised
<1>6. SessionInv'
  BY <1>1, <1>2, <1>5, SessionKept
<1>. QED
  BY <1>1, <1>2, <1>3, <1>4, <1>6, SupervisorKept DEF IInv, JobEnd, history

LEMMA JobDieKeeps ==
    ASSUME IInv, NEW j \in Jobs, JobDie(j)
    PROVE  IInv'
<1>1. TypeOK'
  BY DEF IInv, TypeOK, JobDie, Ended, Working, supervisor, history
<1>2. /\ \A i \in Jobs : i # j => job'[i] = job[i]
      /\ job[j] \in Working \cup {"pending"} /\ job'[j] = "FAILED"
      /\ mine' = mine /\ acct' = acct /\ chain' = chain /\ foreign' = foreign
  BY DEF IInv, TypeOK, JobDie, history
<1>3. JobInv'
  BY <1>2, JobInvKept DEF Working
<1>4. ClusterInv'
  BY <1>2 DEF IInv, ClusterInv, Working, Ended
<1>5. Contributors' \subseteq Contributors
  BY <1>2, ContributorsFinite DEF IInv, Contributors, Supervised
<1>6. SessionInv'
  BY <1>1, <1>2, <1>5, SessionKept
<1>. QED
  BY <1>1, <1>2, <1>3, <1>4, <1>6, SupervisorKept DEF IInv, JobDie, history, Working

LEMMA ResolveKeeps ==
    ASSUME IInv, NEW n \in 0 .. MaxBatch, NEW failed \in BOOLEAN, Resolve(n, failed)
    PROVE  IInv'
<1>. USE ConstantsAssumption
<1>0. chain.next \in 0 .. ExpectedQueries /\ chain.sessions \in Nat /\ foreign \in Nat
  BY DEF IInv, TypeOK
<1>1. job' = job /\ acct' = acct /\ mine' = mine
  BY DEF Resolve, cluster
<1>2. JobInv'
  BY <1>1, JobInvKept
<1>3. Contributors' = Contributors
  BY <1>1 DEF Contributors, Supervised
\* The three ways of the action, by what becomes of the chain.
<1>4. \/ /\ chain' = [chain EXCEPT !.status = "none"]
         /\ foreign' = foreign
      \/ /\ chain.status = "unresolved" /\ chain.next + n <= ExpectedQueries
         /\ chain' = [next |-> chain.next + n, sessions |-> chain.sessions + 1,
                      status |-> "none", failed |-> chain.failed \/ failed]
         /\ foreign' = foreign + 1
  BY DEF Resolve
<1>5. CASE chain' = [chain EXCEPT !.status = "none"] /\ foreign' = foreign
  <2>1. TypeOK'
    <3>1. chain' \in [next : 0 .. ExpectedQueries, sessions : Nat, failed : BOOLEAN,
                       status : {"none", "unresolved", "finalized_orphan"}]
      BY <1>5 DEF IInv, TypeOK
    <3>. QED
      BY <1>1, <1>5, <3>1 DEF IInv, TypeOK, Resolve, supervisor
  <2>2. chain'.next = chain.next /\ chain'.sessions = chain.sessions
        /\ chain'.status = "none" /\ chain'.failed = chain.failed
    BY <1>5 DEF IInv, TypeOK
  <2>3. ClusterInv'
    BY <1>1, <2>2 DEF IInv, ClusterInv
  <2>4. SessionInv'
    BY <1>3, <1>5, <2>1, <2>2, SessionKept
  <2>. QED
    BY <1>1, <1>2, <2>1, <2>3, <2>4, SupervisorKept DEF IInv, Resolve
<1>6. CASE /\ chain.status = "unresolved" /\ chain.next + n <= ExpectedQueries
           /\ chain' = [next |-> chain.next + n, sessions |-> chain.sessions + 1,
                        status |-> "none", failed |-> chain.failed \/ failed]
           /\ foreign' = foreign + 1
  <2>1. TypeOK'
    <3>1. chain.next + n \in 0 .. ExpectedQueries /\ chain.sessions + 1 \in Nat
      BY <1>0, <1>6
    <3>2. chain' \in [next : 0 .. ExpectedQueries, sessions : Nat, failed : BOOLEAN,
                       status : {"none", "unresolved", "finalized_orphan"}]
      BY <1>6, <3>1 DEF IInv, TypeOK
    <3>3. foreign' \in Nat
      BY <1>0, <1>6
    <3>. QED
      BY <1>1, <3>2, <3>3 DEF IInv, TypeOK, Resolve, supervisor
  <2>2. ClusterInv'
    BY <1>1, <1>6 DEF IInv, ClusterInv
  <2>3. SessionInv'
    <3>1. Cardinality(Contributors) \in Nat
      BY ContributorsFinite DEF IInv
    <3>2. chain'.next = chain.next + n /\ chain'.sessions = chain.sessions + 1
      BY <1>6
    <3>. QED
      BY <1>0, <1>3, <1>6, <3>1, <3>2 DEF IInv, SessionInv
  <2>. QED
    BY <1>1, <1>2, <2>1, <2>2, <2>3, SupervisorKept DEF IInv, Resolve
<1>. QED
  BY <1>4, <1>5, <1>6

LEMMA TouchStopKeeps ==
    ASSUME IInv, TouchStop
    PROVE  IInv'
<1>1. TypeOK'
  BY DEF IInv, TypeOK, TouchStop, supervisor, cluster, history
<1>2. JobInv' /\ ClusterInv' /\ SessionInv'
  BY ClusterKept DEF TouchStop, history
<1>. QED
  BY <1>1, <1>2, SupervisorKept DEF IInv, TouchStop, cluster, history

-----------------------------------------------------------------------------
(* Submissions *)

\* With a job ID left, the next one is new and larger than all in use.
LEMMA NewJobIsNext ==
    ASSUME IInv, Cardinality(Used) < MaxJobs + ManualJobs
    PROVE  /\ NewJob \in Jobs /\ NewJob # 0 /\ NewJob \in Nat
           /\ job[NewJob] = "none"
           /\ \A j \in Jobs : job[j] # "none" <=> j < NewJob
<1>. USE ConstantsAssumption, JobsFinite
<1>1. PICK k \in Jobs : \A j \in Jobs : job[j] # "none" <=> j <= k
  BY DEF IInv, JobInv
<1>2. Used = 1 .. k
  BY <1>1 DEF Used, Jobs
<1>3. Cardinality(Used) = k
  BY <1>1, <1>2, FS_Interval
<1>4. k + 1 \in Jobs /\ k \in Nat
  BY <1>1, <1>3 DEF Jobs
<1>5. job[k + 1] = "none" /\ \A i \in 0 .. (k + 1) - 1 : job[i] # "none"
  BY <1>1, <1>4 DEF Jobs
<1>6. NewJob \in Jobs /\ job[NewJob] = "none" /\ \A i \in 0 .. NewJob - 1 : job[i] # "none"
  BY <1>4, <1>5 DEF NewJob
<1>7. NewJob = k + 1
  <2>1. NewJob > k
    BY <1>1, <1>4, <1>6
  <2>2. ~(NewJob > k + 1)
    <3>1. SUFFICES ASSUME NewJob > k + 1 PROVE FALSE
      OBVIOUS
    <3>2. k + 1 \in 0 .. NewJob - 1
      BY <1>4, <1>6, <3>1
    <3>. QED
      BY <1>5, <1>6, <3>2
  <2>. QED
    BY <1>4, <1>6, <2>1, <2>2
<1>. QED
  BY <1>1, <1>4, <1>6, <1>7


\* The supervisor's jobs stay in its budget.
LEMMA MineBounded ==
    ASSUME IInv
    PROVE  /\ IsFiniteSet(mine) /\ Cardinality(mine) \in Nat
           /\ Cardinality(mine) <= MaxJobs
           /\ Cardinality(Used) = Cardinality(mine) + Cardinality(Used \ mine)
           /\ Cardinality(Used \ mine) \in Nat
<1>. USE ConstantsAssumption, JobsFinite
<1>1. IsFiniteSet(Used) /\ IsFiniteSet(mine) /\ mine \subseteq Used
  BY FS_Subset DEF IInv, TypeOK, JobInv, Used
<1>2. Cardinality(Used \ mine) = Cardinality(Used) - Cardinality(mine)
      /\ IsFiniteSet(Used \ mine)
  <2>1. Used \cap mine = mine
    BY <1>1
  <2>. QED
    BY <1>1, <2>1, FS_Difference
<1>3. /\ Cardinality(mine) \in Nat /\ Cardinality(Used) \in Nat
      /\ Cardinality(Used \ mine) \in Nat
  BY <1>1, <1>2, FS_CardinalityType
<1>4. Cardinality(mine) <= MaxJobs
  <2>1. CASE queue = NoState
    BY <2>1, FS_EmptySet DEF IInv, FileInv
  <2>2. CASE queue # NoState /\ queue.phase # "submit_pending"
    BY <2>2 DEF IInv, FileInv
  <2>3. CASE queue # NoState /\ queue.phase = "submit_pending"
    <3>1. queue \in State /\ IsFiniteSet(Submitted(queue)) /\ Len(queue.submitted) \in Nat
      BY <2>3, SubmittedFinite DEF IInv, TypeOK
    <3>2. PICK id \in Jobs : mine \subseteq Submitted(queue) \cup {id}
      BY <2>3 DEF IInv, FileInv
    <3>3. /\ IsFiniteSet(Submitted(queue) \cup {id})
          /\ Cardinality(Submitted(queue) \cup {id}) \in Nat
          /\ Cardinality(Submitted(queue) \cup {id}) <= Len(queue.submitted) + 1
          /\ Len(queue.submitted) < MaxJobs
      <4>1. Cardinality(Submitted(queue)) = Len(queue.submitted) /\ Len(queue.submitted) < MaxJobs
        BY <2>3 DEF IInv, FileInv
      <4>2. /\ IsFiniteSet(Submitted(queue) \cup {id})
            /\ Cardinality(Submitted(queue) \cup {id}) =
                  IF id \in Submitted(queue) THEN Cardinality(Submitted(queue))
                  ELSE Cardinality(Submitted(queue)) + 1
        BY <3>1, FS_AddElement
      <4>. QED
        BY <3>1, <4>1, <4>2
    <3>4. Cardinality(mine) <= Cardinality(Submitted(queue) \cup {id})
      BY <3>2, <3>3, FS_Subset
    <3>. QED
      BY <1>3, <3>1, <3>3, <3>4
  <2>. QED
    BY <2>1, <2>2, <2>3
<1>. QED
  BY <1>1, <1>2, <1>3, <1>4

\* A job that is submitted, by whomever.
LEMMA NewJobEffect ==
    ASSUME IInv, Cardinality(Used) < MaxJobs + ManualJobs,
           job' = [job EXCEPT ![NewJob] = "pending"], acct' = acct, chain' = chain
    PROVE  /\ \E k \in Jobs : \A j \in Jobs : job'[j] # "none" <=> j <= k
           /\ NewJob \notin Used /\ Used' = Used \cup {NewJob}
           /\ \A j \in Jobs : j # NewJob => job'[j] = job[j]
           /\ job'[NewJob] = "pending"
           /\ job' \in [Jobs -> {"none", "pending"} \cup Working \cup Ended]
           /\ ClusterInv'
<1>1. job' \in [Jobs -> {"none", "pending"} \cup Working \cup Ended]
  BY NewJobIsNext DEF IInv, TypeOK
<1>2. /\ \A j \in Jobs : j # NewJob => job'[j] = job[j]
      /\ job'[NewJob] = "pending" /\ job[NewJob] = "none"
      /\ NewJob \in Jobs /\ NewJob # 0
  BY NewJobIsNext DEF IInv, TypeOK
<1>3. \A j \in Jobs : job'[j] # "none" <=> j <= NewJob
  BY <1>2, NewJobIsNext, JobsFinite
<1>4. NewJob \notin Used /\ Used' = Used \cup {NewJob}
  BY <1>2 DEF Used
<1>5. ClusterInv'
  BY <1>2 DEF IInv, ClusterInv, Working, Ended
<1>. QED
  BY <1>1, <1>2, <1>3, <1>4, <1>5

LEMMA ManualSubmitKeeps ==
    ASSUME IInv, ManualSubmit
    PROVE  IInv'
<1>. USE ConstantsAssumption
<1>1. Cardinality(Used \ mine) < ManualJobs
  BY DEF ManualSubmit, Used
<1>2. Cardinality(Used) < MaxJobs + ManualJobs
  BY <1>1, MineBounded
<1>3. job' = [job EXCEPT ![NewJob] = "pending"] /\ acct' = acct /\ chain' = chain /\ mine' = mine
  BY DEF ManualSubmit, history
<1>4. TypeOK'
  BY <1>2, <1>3, NewJobEffect DEF IInv, TypeOK, ManualSubmit, supervisor, history
<1>5. JobInv'
  <2>1. Used' \ mine' = (Used \ mine) \cup {NewJob} /\ mine' \subseteq Used'
    BY <1>2, <1>3, NewJobEffect DEF IInv, JobInv
  <2>2. IsFiniteSet(Used \ mine)
    BY JobsFinite, FS_Subset DEF Used
  <2>3. Cardinality(Used' \ mine') <= ManualJobs
    <3>1. Cardinality(Used' \ mine') = IF NewJob \in Used \ mine THEN Cardinality(Used \ mine)
                                       ELSE Cardinality(Used \ mine) + 1
      BY <2>1, <2>2, FS_AddElement
    <3>2. Cardinality(Used \ mine) \in Nat
      BY MineBounded
    <3>. QED
      BY <1>1, <3>1, <3>2
  <2>. QED
    BY <1>2, <1>3, <2>1, <2>3, NewJobEffect DEF JobInv
<1>6. \A j \in Jobs : job[j] = "COMPLETED" => job'[j] = "COMPLETED"
  BY <1>2, <1>3, NewJobEffect, NewJobIsNext
<1>7. ClusterInv'
  BY <1>2, <1>3, NewJobEffect
<1>8. SessionInv'
  <2>1. Contributors' \subseteq Contributors
    BY <1>2, <1>3, <1>4, NewJobEffect, ContributorsFinite DEF IInv, Contributors, Supervised
  <2>. QED
    BY <1>3, <1>4, <2>1, SessionKept DEF ManualSubmit, history
<1>. QED
  BY <1>4, <1>5, <1>6, <1>7, <1>8, SupervisorKept DEF IInv, ManualSubmit, history

LEMMA SbatchKeeps ==
    ASSUME IInv, NEW s \in Supervisors, NEW receipt \in BOOLEAN, Sbatch(s, receipt)
    PROVE  IInv'
<1>. USE ConstantsAssumption, HolderAlone
<1>1. /\ mem[s] = queue /\ queue.phase = "submit_pending" /\ mine = Submitted(queue)
      /\ job[queue.current] = "COMPLETED" /\ pc[s] = "marked"
      /\ queue \in State /\ queue # NoState
  BY DEF Sbatch, Holds
<1>2. /\ job' = [job EXCEPT ![NewJob] = "pending"] /\ mine' = mine \cup {NewJob}
      /\ acct' = acct /\ chain' = chain /\ foreign' = foreign /\ queue' = queue /\ stop' = stop
      /\ late' = IF stop THEN late + 1 ELSE late
  BY DEF Sbatch
<1>3. /\ Len(queue.submitted) \in Nat /\ Len(queue.submitted) < MaxJobs
      /\ Cardinality(Submitted(queue)) = Len(queue.submitted)
      /\ queue.current \in Submitted(queue) \cup {0}
      /\ \A j \in Submitted(queue) : j <= queue.current
  BY <1>1, SubmittedFinite DEF IInv, FileInv
<1>4. Cardinality(Used) < MaxJobs + ManualJobs
  BY <1>1, <1>3, MineBounded DEF IInv, JobInv
<1>5. /\ NewJob \in Jobs /\ NewJob # 0 /\ NewJob \notin mine
      /\ \A j \in mine : j < NewJob
      /\ \A j \in Jobs : j # NewJob => job'[j] = job[j]
      /\ job[NewJob] = "none" /\ job'[NewJob] = "pending"
  BY <1>2, <1>4, NewJobIsNext, NewJobEffect DEF IInv, JobInv, Used
<1>6. late = 0 /\ late' \in {0, 1} /\ (late' = 1 => stop')
  BY <1>1, <1>2 DEF IInv, StopInv
<1>. HIDE DEF NewJob
<1>7. \/ /\ pc' = [pc EXCEPT ![s] = "submitted"] /\ lock' = lock
         /\ mem' = [mem EXCEPT ![s] = [queue EXCEPT !.current = NewJob]]
      \/ /\ pc' = [pc EXCEPT ![s] = "idle"] /\ lock' = NoOne
         /\ mem' = [mem EXCEPT ![s] = NewState]
  <2>1. CASE receipt
    <3>1. mem' = [mem EXCEPT ![s].current = NewJob] /\ mem \in [Supervisors -> State]
      BY <2>1 DEF Sbatch, IInv, TypeOK
    <3>2. mem' = [mem EXCEPT ![s] = [queue EXCEPT !.current = NewJob]]
      BY <1>1, <3>1
    <3>. QED
      BY <2>1, <3>2 DEF Sbatch
  <2>2. CASE ~receipt
    BY <2>2 DEF Sbatch, Leave
  <2>. QED
    BY <2>1, <2>2
<1>8. [queue EXCEPT !.current = NewJob] \in State
  BY <1>1, <1>5 DEF State
<1>9. TypeOK'
  <2>1. mem' \in [Supervisors -> State] /\ lock' \in Supervisors \cup {NoOne}
        /\ pc' \in [Supervisors -> {"idle", "watching", "checking", "submitting", "marked",
                                   "submitted"}]
    BY <1>7, <1>8, NewStateTyped DEF IInv, TypeOK
  <2>2. job' \in [Jobs -> {"none", "pending"} \cup Working \cup Ended]
    BY <1>2, <1>4, NewJobEffect
  <2>. QED
    BY <1>2, <1>5, <1>6, <2>1, <2>2 DEF IInv, TypeOK
<1>10. LockInv'
  BY <1>1, <1>7 DEF IInv, TypeOK, LockInv
<1>11. JobInv'
  <2>1. mine' \subseteq Used' /\ Used' \ mine' = Used \ mine
    BY <1>2, <1>4, <1>5, NewJobEffect DEF IInv, JobInv
  <2>. QED
    BY <1>2, <1>4, <2>1, NewJobEffect DEF IInv, JobInv
<1>12. ClusterInv'
  BY <1>2, <1>4, NewJobEffect
<1>13. FileInv'
  <2>1. mine' \subseteq Submitted(queue) \cup {NewJob}
    BY <1>1, <1>2
  <2>. QED
    BY <1>1, <1>2, <1>5, <2>1 DEF IInv, FileInv
<1>14. PlaceInv'
  <2>. SUFFICES ASSUME NEW p \in Supervisors, pc'[p] # "idle" PROVE Holds(p)'
    BY DEF PlaceInv
  <2>1. p = s /\ pc'[p] = "submitted" /\ mem'[p] = [queue EXCEPT !.current = NewJob]
    BY <1>1, <1>7 DEF IInv, TypeOK
  <2>2. mem'[p].current = NewJob
    BY <1>1, <2>1 DEF State
  <2>. QED
    BY <1>1, <1>2, <1>5, <2>1, <2>2 DEF Holds
<1>15. StopInv'
  <2>1. \A p \in Supervisors : pc'[p] # "marked"
    BY <1>1, <1>7 DEF IInv, TypeOK
  <2>. QED
    BY <1>6, <2>1 DEF StopInv
<1>16. PredecessorsCompleted'
  <2>. SUFFICES ASSUME NEW j \in mine \cup {NewJob, 0}, NEW i \in mine \cup {NewJob}, i > j
                PROVE  job'[j] = "COMPLETED"
    BY <1>2 DEF PredecessorsCompleted, Supervised
  <2>1. mine \subseteq Nat /\ mine \subseteq Jobs /\ NewJob \in Nat /\ 0 \in Jobs
    BY <1>5, JobsFinite DEF IInv, TypeOK
  <2>2. j # NewJob
    BY <1>5, <2>1
  <2>3. CASE j = queue.current
    BY <1>1, <1>5, <2>1, <2>2, <2>3
  <2>4. CASE j # queue.current
    <3>1. queue.current \in mine /\ queue.current > j
      BY <1>1, <1>3, <2>1, <2>2, <2>4
    <3>2. job[j] = "COMPLETED"
      BY <2>2, <3>1 DEF IInv, PredecessorsCompleted, Supervised
    <3>. QED
      BY <1>5, <2>1, <2>2, <3>2
  <2>. QED
    BY <2>3, <2>4
<1>17. SessionInv'
  <2>1. Contributors' \subseteq Contributors
    BY <1>2, <1>5, ContributorsFinite DEF IInv, Contributors, Supervised
  <2>. QED
    BY <1>2, <1>9, <2>1, SessionKept
<1>. QED
  BY <1>9, <1>10, <1>11, <1>12, <1>13, <1>14, <1>15, <1>16, <1>17 DEF IInv


-----------------------------------------------------------------------------
\* Every step preserves the invariant.
LEMMA NextKeeps ==
    ASSUME IInv, [Next]_vars
    PROVE  IInv'
<1>1. CASE \E s \in Supervisors : Start(s)
  BY <1>1, StartKeeps
<1>2. ASSUME NEW s \in Supervisors, SupervisorStep(s) PROVE IInv'
  <2>1. CASE SeeStop(s)
    BY <2>1, FinishKeeps DEF SeeStop, Phases
  <2>2. CASE JobFailed(s)
    BY <2>2, FinishKeeps DEF JobFailed, Phases
  <2>3. CASE SbatchRefused(s)
    BY <2>3, CrashKeeps DEF SbatchRefused
  <2>4. CASE JobCompleted(s)
    BY <2>4, JobCompletedKeeps
  <2>5. CASE Check(s)
    BY <2>5, CheckKeeps
  <2>6. CASE SubmitSeesStop(s)
    BY <2>6, SubmitSeesStopKeeps
  <2>7. CASE Mark(s)
    BY <2>7, MarkKeeps
  <2>8. CASE Record(s)
    BY <2>8, RecordKeeps
  <2>9. CASE \E receipt \in BOOLEAN : Sbatch(s, receipt)
    BY <2>9, SbatchKeeps
  <2>. QED
    BY <1>2, <2>1, <2>2, <2>3, <2>4, <2>5, <2>6, <2>7, <2>8, <2>9 DEF SupervisorStep
<1>3. ASSUME NEW s \in Supervisors, Crash(s) PROVE IInv'
  BY <1>3, CrashKeeps DEF Crash
<1>4. ASSUME NEW j \in Jobs, JobStep(j) \/ Account(j) PROVE IInv'
  BY <1>4, JobStartKeeps, JobOpenKeeps, JobSealKeeps, JobEndKeeps, JobDieKeeps, AccountKeeps
     DEF JobStep
<1>5. CASE ManualSubmit \/ TouchStop
  BY <1>5, ManualSubmitKeeps, TouchStopKeeps
<1>6. CASE \E n \in 0 .. MaxBatch, failed \in BOOLEAN : Resolve(n, failed)
  BY <1>6, ResolveKeeps
<1>7. CASE UNCHANGED vars
  <2>1. JobInv' /\ ClusterInv' /\ PredecessorsCompleted' /\ SessionInv'
    BY <1>7, ClusterKept DEF vars, cluster, history
  <2>2. TypeOK' /\ LockInv' /\ FileInv' /\ StopInv'
    BY <1>7 DEF IInv, TypeOK, LockInv, FileInv, StopInv, vars, supervisor, cluster, history
  <2>3. PlaceInv'
    BY <1>7 DEF IInv, PlaceInv, Holds, vars, supervisor, cluster, history
  <2>. QED
    BY <2>1, <2>2, <2>3 DEF IInv
<1>. QED
  BY <1>1, <1>2, <1>3, <1>4, <1>5, <1>6, <1>7 DEF Next

\* The state file, the lock, the cluster and the chain stay in step.
THEOREM InductiveInvariant == Spec => []IInv
BY InitIInv, NextKeeps, PTL DEF Spec

-----------------------------------------------------------------------------
\* Every variable holds a value of its kind: a next job ID always exists, and
\* the chain never runs past the end of the schedule.
THEOREM TypeCorrect == Spec => []TypeOK
<1>1. IInv => TypeOK
  BY DEF IInv
<1>. QED
  BY <1>1, InductiveInvariant, PTL

\* A job sbatch accepted is in the state file, or the marker stands for it; at
\* most one is missing there, all stay in the budget, and a batch with at least
\* one query preceded each: a lost receipt never leads to a second submission.
THEOREM JobsAccounted == Spec => []SubmissionsAccounted
<1>1. ASSUME IInv PROVE SubmissionsAccounted
  <2>. USE ConstantsAssumption, <1>1
  <2>1. CASE queue = NoState
    BY <2>1, MineBounded, FS_EmptySet DEF IInv, FileInv, SubmissionsAccounted, Submitted
  <2>2. CASE queue # NoState
    <3>1. queue \in State /\ Len(queue.submitted) \in Nat /\ IsFiniteSet(Submitted(queue))
          /\ Cardinality(Submitted(queue)) = Len(queue.submitted) /\ queue.index \in Int
      BY <2>2, SubmittedFinite DEF IInv, TypeOK, FileInv, State
    <3>2. CASE queue.phase = "submit_pending"
      <4>1. PICK id \in Jobs : mine \subseteq Submitted(queue) \cup {id}
        BY <2>2, <3>2 DEF IInv, FileInv
      <4>2. Cardinality(mine \ Submitted(queue)) <= 1
        <5>1. mine \ Submitted(queue) \in SUBSET {id} /\ IsFiniteSet({id}) /\ Cardinality({id}) = 1
          BY <4>1, FS_Singleton
        <5>. QED
          BY <5>1, FS_Subset
      <4>3. Cardinality(mine) <= Len(queue.submitted) + 1
        <5>1. /\ IsFiniteSet(Submitted(queue) \cup {id})
              /\ Cardinality(Submitted(queue) \cup {id}) =
                    IF id \in Submitted(queue) THEN Cardinality(Submitted(queue))
                    ELSE Cardinality(Submitted(queue)) + 1
          BY <3>1, FS_AddElement
        <5>2. Cardinality(mine) <= Cardinality(Submitted(queue) \cup {id})
          BY <4>1, <5>1, FS_Subset
        <5>. QED
          BY <3>1, <5>1, <5>2, MineBounded
      <4>4. /\ Submitted(queue) \subseteq mine
            /\ queue.index >= AfterIndex + Len(queue.submitted) + 1
        BY <2>2, <3>2 DEF IInv, FileInv
      <4>5. Cardinality(mine) <= queue.index - AfterIndex
        BY <3>1, <4>3, <4>4, MineBounded
      <4>. QED
        BY <3>2, <4>2, <4>4, <4>5, MineBounded DEF SubmissionsAccounted
    <3>3. CASE queue.phase # "submit_pending"
      <4>1. mine = Submitted(queue) /\ queue.index >= AfterIndex + Len(queue.submitted)
        BY <2>2, <3>3 DEF IInv, FileInv
      <4>2. Cardinality(mine \ Submitted(queue)) = 0
        <5>1. mine \ Submitted(queue) = {}
          BY <4>1
        <5>. QED
          BY <5>1, FS_EmptySet
      <4>3. Cardinality(mine) <= queue.index - AfterIndex
        BY <3>1, <4>1
      <4>. QED
        BY <4>1, <4>2, <4>3, MineBounded DEF SubmissionsAccounted
    <3>. QED
      BY <3>2, <3>3
  <2>. QED
    BY <2>1, <2>2
<1>. QED
  BY <1>1, InductiveInvariant, PTL

\* A supervised job is followed by another one only when it completed.
THEOREM OrderedJobs == Spec => []PredecessorsCompleted
<1>1. IInv => PredecessorsCompleted
  BY DEF IInv
<1>. QED
  BY <1>1, InductiveInvariant, PTL

\* At most one job is accepted after the stop file appears.
THEOREM StopObeyed == Spec => []StopHolds
<1>1. IInv => StopHolds
  BY DEF IInv, StopInv, StopHolds
<1>. QED
  BY <1>1, InductiveInvariant, PTL

\* No session opens over an unresolved one or after a failure, although a job
\* reads the chain once, in its preflight, and opens its session later.
THEOREM FailureEndsAsking == Spec => NoQueryAfterFailure
<1> DEFINE A == \A j \in Jobs : job[j] # "asking" /\ job'[j] = "asking" =>
                   chain.status # "unresolved" /\ ~chain.failed
<1>1. ASSUME IInv, [Next]_vars, NEW j \in Jobs, job[j] # "asking", job'[j] = "asking"
      PROVE  chain.status # "unresolved" /\ ~chain.failed
  <2>1. JobOpen(j)
    <3>1. job' # job
      BY <1>1
    <3>2. CASE \E i \in Jobs : JobStep(i)
      <4>1. PICK i \in Jobs : JobStep(i)
        BY <3>2
      <4>2. i = j
        BY <1>1, <4>1 DEF IInv, TypeOK, JobStep, JobStart, JobOpen, JobEnd, JobDie, JobSeal
      <4>3. ~JobStart(j) /\ ~JobEnd(j) /\ ~JobDie(j)
            /\ \A n \in 0 .. MaxBatch, failed \in BOOLEAN : ~JobSeal(j, n, failed)
        BY <1>1 DEF IInv, TypeOK, JobStart, JobEnd, JobDie, JobSeal
      <4>. QED
        BY <4>1, <4>2, <4>3 DEF JobStep
    <3>3. CASE job' = [job EXCEPT ![NewJob] = "pending"]
      BY <1>1, <3>3 DEF IInv, TypeOK
    <3>. QED
      BY <1>1, <3>1, <3>2, <3>3 DEF Next, SupervisorStep, Start, SeeStop, JobFailed, JobCompleted,
         Check, SubmitSeesStop, Mark, Record, Sbatch, SbatchRefused, Crash, Account, ManualSubmit,
         TouchStop, Resolve, vars, cluster
  <2>. QED
    BY <1>1, <2>1 DEF IInv, ClusterInv, JobOpen
<1>2. IInv /\ [Next]_vars => [A]_vars
  BY <1>1
<1>. QED
  BY <1>2, InductiveInvariant, PTL DEF Spec, NoQueryAfterFailure

\* A check that lets a submission through sees only sessions supervised jobs
\* wrote: the one new session since the last decision is the watched job's.
THEOREM InterleavingSeen == Spec => InterleavingStops
<1> DEFINE A == \A s \in Supervisors : pc[s] = "checking" /\ pc'[s] = "submitting" => foreign = 0
<1>1. ASSUME IInv, [Next]_vars, NEW s \in Supervisors, pc[s] = "checking", pc'[s] = "submitting"
      PROVE  foreign = 0
  <2>. USE ConstantsAssumption
  <2>1. Check(s)
    <3>1. pc' # pc
      BY <1>1
    <3>2. PICK p \in Supervisors : Start(p) \/ SupervisorStep(p) \/ Crash(p)
      BY <1>1, <3>1 DEF Next, JobStep, JobStart, JobOpen, JobSeal, JobEnd, JobDie, Account,
         ManualSubmit, TouchStop, Resolve, vars, supervisor
    <3>3. p = s
      BY <1>1, <3>2, HolderAlone DEF IInv, TypeOK, Start, SupervisorStep, SeeStop, JobFailed,
         JobCompleted, Check, SubmitSeesStop, Mark, Record, Sbatch, SbatchRefused, Crash, Leave, Finish
    <3>. QED
      BY <1>1, <3>2, <3>3 DEF IInv, TypeOK, Start, SupervisorStep, SeeStop, JobFailed,
         JobCompleted, SubmitSeesStop, Mark, Record, Sbatch, SbatchRefused, Crash, Leave, Finish
  <2>2. /\ mem[s] = queue /\ queue.phase = "waiting" /\ job[queue.current] = "COMPLETED"
        /\ queue \in State /\ queue # NoState
    BY <1>1, HolderAlone DEF Holds
  <2>3. ~DecideRaises(queue) /\ Decision(queue) = "submit"
    BY <1>1, <2>1, <2>2 DEF Check, Leave, Finish, IInv, TypeOK
  <2>4. chain.sessions = queue.sessions + 1 /\ chain.next # ExpectedQueries
    BY <2>3 DEF DecideRaises, Decision
  <2>5. /\ mine = Submitted(queue) /\ Cardinality(mine) = Len(queue.submitted)
        /\ queue.sessions = AfterSessions + Len(queue.submitted)
        /\ queue.current \in mine \cup {0} /\ \A j \in mine : j <= queue.current
        /\ 0 \notin mine /\ mine \subseteq Nat
    BY <1>1, <2>2, JobsFinite DEF IInv, FileInv, JobInv, Used
  <2>6. Contributors = Supervised
    <3>. SUFFICES ASSUME NEW j \in Supervised PROVE job[j] = "COMPLETED"
      BY DEF Contributors
    <3>1. CASE j = queue.current
      BY <2>2, <3>1
    <3>2. CASE j # queue.current
      <4>1. queue.current \in mine /\ queue.current > j
        BY <2>5, <3>2 DEF Supervised
      <4>. QED
        BY <1>1, <4>1 DEF IInv, PredecessorsCompleted
    <3>. QED
      BY <3>1, <3>2
  <2>7. Cardinality(Contributors) = Cardinality(mine) + 1
    BY <1>1, <2>5, <2>6, MineBounded, FS_AddElement DEF Supervised
  <2>8. chain.sessions >= AfterSessions + foreign + Cardinality(Contributors)
    BY <1>1, <2>4 DEF IInv, SessionInv, TypeOK
  <2>9. foreign \in Nat /\ chain.sessions \in Nat /\ Cardinality(mine) \in Nat
    BY <1>1, MineBounded DEF IInv, TypeOK
  <2>10. chain.sessions = (AfterSessions + Cardinality(mine)) + 1
    BY <2>4, <2>5
  <2>11. chain.sessions >= AfterSessions + foreign + (Cardinality(mine) + 1)
    BY <2>7, <2>8
  <2>12. AfterSessions \in Nat
    BY ConstantsAssumption
  <2>. HIDE ConstantsAssumption
  <2>. QED
    BY <2>9, <2>10, <2>11, <2>12
<1>2. IInv /\ [Next]_vars => [A]_vars
  BY <1>1
<1>. QED
  BY <1>2, InductiveInvariant, PTL DEF Spec, InterleavingStops

=============================================================================
