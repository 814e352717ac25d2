-------------------------- MODULE HeldoutRunProofs --------------------------
(***************************************************************************)
(* TLAPS proofs about HeldoutRun, for any number of processes, queries,    *)
(* smoke queries and threads.                                              *)
(*                                                                         *)
(* With `status` beside a live run only types and the truth of recorded    *)
(* answers survive: the run under the lock starts nothing whose answer is  *)
(* on disk, and what a thread brings back is what was heard (TrueInv).     *)
(* Without readers the lock makes its holder the only one to touch the     *)
(* files, so that what it loaded stays what is on disk: nothing it starts  *)
(* was ever sent, and what was sent keeps its marker or its row (OnceInv); *)
(* it looked at the failures and the smoke before it starts a query, and   *)
(* what has been saved since was looked at when it was saved (SpendInv).   *)
(***************************************************************************)
EXTENDS HeldoutRun, ListLemmas

Live(p) == pc[p] \notin {"idle", "again"}
Loading(p) == pc[p] \in {"loading", "converting", "clearing"}
Asking(p) == pc[p] \in {"pool", "saving"}

\* A writer that does anything holds the lock.
LockInv == \A p \in Writers : Live(p) => lock = p

\* The queue and the threads belong to a run in its pool.
PoolInv ==
    \A p \in Processes :
        /\ p \in Readers => ~Asking(p) /\ pc[p] # "again"
        /\ pc[p] \in {"converting", "clearing"} => cursor[p] < Queries
        /\ ~Live(p) => cursor[p] = 0
        /\ ~Asking(p) => todo[p] = {} /\ inflight[p] = Idle /\ batch[p] = {}
        /\ batch[p] \subseteq Finished(p)
        /\ pc[p] = "saving" => saving[p] \in Finished(p) /\ saving[p] \notin batch[p]
        /\ todo[p] \cap Busy(p) = {}

\* A run starts nothing whose answer is on disk.
TrueInv ==
    /\ AnswersTruthful
    /\ \A p \in Writers, q \in Query :
          /\ inflight[p][q] \in Answers \cup Failures => heard[q] = inflight[p][q]
          /\ q \in todo[p] \/ inflight[p][q] \in {"queued", "asking"} => row[q] \notin Answers
          /\ Loading(p) /\ q < cursor[p] /\ rows[p][q] = "none" => row[q] \notin Answers

GInv == TypeOK /\ LockInv /\ PoolInv /\ TrueInv

-----------------------------------------------------------------------------
\* What the holder loaded is what is on disk.
SeenRow(p, q) == IF p \in Resumers /\ row[q] = "lost" THEN "accepted" ELSE row[q]

\* Without readers: a query with nothing on disk was not sent, and the holder
\* starts only such queries.
OnceOf(p) ==
    /\ pc[p] = "converting" => row[cursor[p]] = "none"
    /\ pc[p] = "clearing" => row[cursor[p]] # "none" \/ cursor[p] \notin pending
    /\ Loading(p) => \A q \in Query : q < cursor[p] =>
          rows[p][q] = row[q] /\ (row[q] = "none" => asked[q] = 0)
    /\ \A q \in Query :
          /\ q \in todo[p] => row[q] = "none" /\ asked[q] = 0
          /\ inflight[p][q] # "no" => q \in pending
          /\ inflight[p][q] = "queued" => asked[q] = 0
          /\ inflight[p][q] # "no" =>
                row[q] = (IF pc[p] = "saving" /\ saving[p] = q THEN inflight[p][q] ELSE "none")

OnceInv == NeverRetried /\ NothingForgotten /\ \A p \in Writers : OnceOf(p)

\* Without readers: the run in its pool knows every row, has accepted or seen
\* no failure unless it stops, and past the smoke has seen it through.
SmokeThrough(r) ==
    /\ \A q \in Smoke : r[q] # "none"
    /\ Cardinality({q \in Smoke : r[q] = "truncated"}) <= 1

SpendOf(p) == Asking(p) =>
    /\ \A q \in Query :
          rows[p][q] = (IF pc[p] = "saving" /\ saving[p] = q THEN "none" ELSE SeenRow(p, q))
    /\ ~stop[p] => \A q \in Query : ~Failed(rows[p][q])
    /\ (\E n \in todo[p] : n \notin Smoke) => SmokeThrough(rows[p])

SpendInv == \A p \in Writers : SpendOf(p)

RInv == GInv /\ OnceInv /\ SpendInv

-----------------------------------------------------------------------------
(* The first element of the queue *)

LEMMA FirstOfQueue ==
    ASSUME NEW S \in SUBSET Query, S # {}
    PROVE  Min(S) \in S /\ Min(S) \in Query
<1>1. S \in SUBSET Nat
  BY ConstantsAssumption DEF Query
<1>. QED
  BY <1>1, MinOfNaturals

LEMMA CountToTwo ==
    ASSUME NEW n \in 0 .. 2
    PROVE  Min({n + 1, 2}) \in 0 .. 2 /\ (n = 0 => Min({n + 1, 2}) = 1)
<1>1. {n + 1, 2} \in SUBSET Nat /\ {n + 1, 2} # {}
  OBVIOUS
<1>2. Min({n + 1, 2}) \in {n + 1, 2} /\ \A y \in {n + 1, 2} : Min({n + 1, 2}) <= y
  BY <1>1, MinOfNaturals
<1>. DEFINE m == Min({n + 1, 2})
<1>3. (m = n + 1 \/ m = 2) /\ m <= n + 1 /\ m <= 2
  BY <1>2
<1>. HIDE DEF m
<1>4. m \in 0 .. 2 /\ (n = 0 => m = 1)
  BY <1>3
<1>. QED
  BY <1>4 DEF m

-----------------------------------------------------------------------------
(* Types, the lock and the truth of answers, with readers *)

LEMMA InitGInv == Init => GInv
<1>. SUFFICES ASSUME Init PROVE GInv
  OBVIOUS
<1>. USE ConstantsAssumption
<1>1. TypeOK
  BY DEF Init, TypeOK, NoRows, Idle, Query, Writers, Processes
<1>2. LockInv /\ PoolInv
  BY DEF Init, LockInv, PoolInv, Live, Asking, Finished, Busy, Idle, Query, Writers, Processes,
         Answers, Failures
<1>3. TrueInv
  BY DEF Init, TrueInv, AnswersTruthful, NoRows, Idle, Answers, Failures, Loading, Writers, Processes
<1>. QED
  BY <1>1, <1>2, <1>3 DEF GInv

\* Only the holder of the lock among the writers has anything in memory.
LEMMA OthersRest ==
    ASSUME GInv, NEW p \in Writers, Live(p), NEW w \in Writers, w # p
    PROVE  ~Live(w) /\ todo[w] = {} /\ batch[w] = {} /\ \A q \in Query : inflight[w][q] = "no"
<1>1. ~Live(w)
  BY DEF GInv, LockInv
<1>2. ~Asking(w) /\ w \in Processes
  BY <1>1 DEF Live, Asking, Processes
<1>. QED
  BY <1>1, <1>2 DEF GInv, PoolInv, Idle

\* A process with a queue or threads is a writer that holds the lock.
LEMMA PoolOwner ==
    ASSUME GInv, NEW p \in Processes, Asking(p)
    PROVE  p \in Writers /\ Live(p) /\ lock = p
<1>1. p \in Writers
  BY DEF GInv, PoolInv, Processes
<1>. QED
  BY <1>1 DEF GInv, LockInv, Live, Asking

LEMMA EnterRunKeeps ==
    ASSUME GInv, NEW p \in Processes, EnterRun(p)
    PROVE  GInv'
<1>. USE ConstantsAssumption
<1>1. p \in Writers /\ pc[p] \in {"idle", "again"} /\ lock = NoOne
      /\ pc' = [pc EXCEPT ![p] = "loading"] /\ lock' = p
      /\ UNCHANGED <<row, pending, cursor, rows, todo, inflight, batch, saving, stop, late, capped,
                     asked, heard>>
  BY DEF EnterRun, Goto, files, pool, history
<1>2. TypeOK'
  BY <1>1 DEF GInv, TypeOK
<1>3. LockInv'
  <2>1. \A w \in Writers : ~Live(w)
    BY <1>1 DEF GInv, LockInv, Writers, Processes
  <2>. QED
    BY <1>1, <2>1 DEF GInv, TypeOK, LockInv, Live, Writers, Processes
<1>4. PoolInv'
  BY <1>1 DEF GInv, TypeOK, PoolInv, Live, Asking, Finished, Busy, Writers, Processes
<1>5. TrueInv'
  <2>1. cursor[p] = 0
    BY <1>1 DEF GInv, PoolInv, Live
  <2>2. \A w \in Writers : Loading(w)' => w = p \/ Loading(w)
    BY <1>1 DEF GInv, TypeOK, Loading, Writers, Processes
  <2>. QED
    BY <1>1, <2>1, <2>2 DEF GInv, TrueInv, AnswersTruthful, Query
<1>. QED
  BY <1>2, <1>3, <1>4, <1>5 DEF GInv

LEMMA EnterStatusKeeps ==
    ASSUME GInv, NEW p \in Processes, EnterStatus(p)
    PROVE  GInv'
<1>. USE ConstantsAssumption
<1>1. p \in Readers /\ p \notin Writers /\ pc[p] = "idle"
      /\ pc' = [pc EXCEPT ![p] = "loading"]
      /\ UNCHANGED <<row, pending, lock, cursor, rows, todo, inflight, batch, saving, stop, late, capped,
                     asked, heard>>
  BY DEF EnterStatus, Goto, files, pool, history, Writers
<1>2. TypeOK'
  BY <1>1 DEF GInv, TypeOK
<1>3. LockInv'
  BY <1>1 DEF GInv, TypeOK, LockInv, Live, Writers, Processes
<1>4. PoolInv'
  BY <1>1 DEF GInv, TypeOK, PoolInv, Live, Asking, Finished, Busy, Writers, Processes
<1>5. TrueInv'
  BY <1>1 DEF GInv, TypeOK, TrueInv, AnswersTruthful, Loading, Writers, Processes
<1>. QED
  BY <1>2, <1>3, <1>4, <1>5 DEF GInv

LEMMA LookKeeps ==
    ASSUME GInv, NEW p \in Processes, Look(p)
    PROVE  GInv'
<1>. USE ConstantsAssumption
<1>1. PICK place \in {"converting", "clearing"} : pc' = [pc EXCEPT ![p] = place]
  BY DEF Look, Goto
<1>2. pc[p] = "loading" /\ cursor[p] < Queries
      /\ UNCHANGED <<row, pending, lock, cursor, rows, todo, inflight, batch, saving, stop, late, capped,
                     asked, heard>>
  BY DEF Look, files, pool, history
<1>3. TypeOK'
  BY <1>1, <1>2 DEF GInv, TypeOK
<1>4. LockInv'
  BY <1>1, <1>2 DEF GInv, TypeOK, LockInv, Live, Writers, Processes
<1>5. PoolInv'
  BY <1>1, <1>2 DEF GInv, TypeOK, PoolInv, Live, Asking, Finished, Busy, Writers, Processes
<1>6. TrueInv'
  BY <1>1, <1>2 DEF GInv, TypeOK, TrueInv, AnswersTruthful, Loading, Writers, Processes
<1>. QED
  BY <1>3, <1>4, <1>5, <1>6 DEF GInv

LEMMA ConvertKeeps ==
    ASSUME GInv, NEW p \in Processes, Convert(p)
    PROVE  GInv'
<1>. USE ConstantsAssumption
<1>1. pc[p] = "converting" /\ pc' = [pc EXCEPT ![p] = "clearing"]
      /\ row' = [row EXCEPT ![cursor[p]] = "lost"] /\ cursor[p] \in Query
      /\ UNCHANGED <<pending, lock, cursor, rows, todo, inflight, batch, saving, stop, late, capped,
                     asked, heard>>
  BY DEF Convert, Goto, pool, history, GInv, TypeOK, PoolInv, Query
<1>2. \A q \in Query : row'[q] = row[q] \/ row'[q] = "lost"
  BY <1>1 DEF GInv, TypeOK
<1>3. TypeOK'
  BY <1>1 DEF GInv, TypeOK, Rows
<1>4. LockInv'
  BY <1>1 DEF GInv, TypeOK, LockInv, Live, Writers, Processes
<1>5. PoolInv'
  BY <1>1 DEF GInv, TypeOK, PoolInv, Live, Asking, Finished, Busy, Writers, Processes
<1>6. TrueInv'
  BY <1>1, <1>2 DEF GInv, TypeOK, TrueInv, AnswersTruthful, Loading, Writers, Processes, Answers
<1>. QED
  BY <1>3, <1>4, <1>5, <1>6 DEF GInv

LEMMA ClearKeeps ==
    ASSUME GInv, NEW p \in Processes, Clear(p)
    PROVE  GInv'
<1>. USE ConstantsAssumption
<1>. DEFINE q == cursor[p]
<1>1. pc[p] = "clearing" /\ pc' = [pc EXCEPT ![p] = "loading"] /\ q \in Query
      /\ rows' = [rows EXCEPT ![p] = [rows[p] EXCEPT ![q] = row[q]]]
      /\ cursor' = [cursor EXCEPT ![p] = q + 1] /\ pending' = pending \ {q}
      /\ UNCHANGED <<row, lock, todo, inflight, batch, saving, stop, late, capped, asked, heard>>
  BY DEF Clear, Goto, pool, history, GInv, TypeOK, PoolInv, Query
<1>2. q + 1 \in 0 .. Queries /\ q \in Nat
  BY <1>1 DEF Query
<1>3. TypeOK'
  BY <1>1, <1>2 DEF GInv, TypeOK
<1>4. LockInv'
  BY <1>1 DEF GInv, TypeOK, LockInv, Live, Writers, Processes
<1>5. PoolInv'
  BY <1>1 DEF GInv, TypeOK, PoolInv, Live, Asking, Finished, Busy, Writers, Processes
<1>6. TrueInv'
  <2>1. /\ cursor'[p] = q + 1 /\ rows'[p][q] = row[q]
        /\ \A g \in Query : g # q => rows'[p][g] = rows[p][g]
        /\ \A w \in Processes : w # p => rows'[w] = rows[w] /\ cursor'[w] = cursor[w]
    BY <1>1 DEF GInv, TypeOK
  <2>2. \A w \in Processes : Loading(w)' => Loading(w)
    BY <1>1 DEF GInv, TypeOK, Loading
  <2>3. \A g \in Query : g < q + 1 /\ g # q => g < q
    BY <1>2 DEF Query
  <2>4. ASSUME NEW w \in Writers, NEW g \in Query, Loading(w)', g < cursor'[w], rows'[w][g] = "none"
        PROVE  row[g] \notin Answers
    <3>0. w \in Processes /\ Loading(w)
      BY <2>2, <2>4 DEF Processes
    <3>1. CASE w = p /\ g = q
      BY <2>1, <2>4, <3>1 DEF Answers
    <3>2. CASE w = p /\ g # q
      BY <2>1, <2>3, <2>4, <3>0, <3>2 DEF GInv, TrueInv
    <3>3. CASE w # p
      BY <2>1, <2>4, <3>0, <3>3 DEF GInv, TrueInv
    <3>. QED
      BY <3>1, <3>2, <3>3
  <2>. QED
    BY <1>1, <2>4 DEF GInv, TrueInv, AnswersTruthful
<1>. QED
  BY <1>3, <1>4, <1>5, <1>6 DEF GInv

LEMMA LeaveToKeeps ==
    ASSUME GInv, NEW p \in Processes, pc[p] # "idle", NEW place \in {"idle", "again"},
           place = "again" => p \in Writers,
           LeaveTo(p, place), UNCHANGED <<files, history>>
    PROVE  GInv'
<1>. USE ConstantsAssumption
<1>1. /\ pc' = [pc EXCEPT ![p] = place] /\ lock' = (IF lock = p THEN NoOne ELSE lock)
      /\ cursor' = [cursor EXCEPT ![p] = 0] /\ rows' = [rows EXCEPT ![p] = NoRows]
      /\ todo' = [todo EXCEPT ![p] = {}] /\ inflight' = [inflight EXCEPT ![p] = Idle]
      /\ batch' = [batch EXCEPT ![p] = {}] /\ saving' = [saving EXCEPT ![p] = 0]
      /\ stop' = [stop EXCEPT ![p] = FALSE] /\ late' = [late EXCEPT ![p] = FALSE]
      /\ capped' = [capped EXCEPT ![p] = FALSE]
      /\ UNCHANGED <<row, pending, asked, heard>>
  BY DEF LeaveTo, Goto, files, history
<1>2. NoRows \in [Query -> Rows \cup {"none", "accepted"}] /\ Idle \in [Query -> {"no"}]
      /\ 0 \in Query
  BY DEF NoRows, Idle, Query
<1>3. TypeOK'
  BY <1>1, <1>2 DEF GInv, TypeOK
<1>4. LockInv'
  BY <1>1 DEF GInv, TypeOK, LockInv, Live, Writers, Processes
<1>5. PoolInv'
  <2>1. \A w \in Processes : w # p =>
          /\ pc'[w] = pc[w] /\ cursor'[w] = cursor[w] /\ todo'[w] = todo[w] /\ batch'[w] = batch[w]
          /\ inflight'[w] = inflight[w] /\ saving'[w] = saving[w]
    BY <1>1 DEF GInv, TypeOK
  <2>2. /\ pc'[p] = place /\ cursor'[p] = 0 /\ todo'[p] = {} /\ batch'[p] = {} /\ inflight'[p] = Idle
    BY <1>1 DEF GInv, TypeOK
  <2>3. place = "again" => p \notin Readers
    BY DEF Writers
  <2>. QED
    BY <2>1, <2>2, <2>3 DEF GInv, PoolInv, Live, Asking, Finished, Busy
<1>6. TrueInv'
  <2>1. \A w \in Processes : w # p =>
          /\ pc'[w] = pc[w] /\ cursor'[w] = cursor[w] /\ todo'[w] = todo[w] /\ rows'[w] = rows[w]
          /\ inflight'[w] = inflight[w]
    BY <1>1 DEF GInv, TypeOK
  <2>2. ~Loading(p)' /\ todo'[p] = {} /\ \A q \in Query : inflight'[p][q] = "no"
    BY <1>1 DEF GInv, TypeOK, Loading, Idle
  <2>. QED
    BY <1>1, <2>1, <2>2 DEF GInv, TrueInv, AnswersTruthful, Loading, Writers, Processes, Answers, Failures
<1>. QED
  BY <1>3, <1>4, <1>5, <1>6 DEF GInv

LEMMA StartPoolKeeps ==
    ASSUME GInv, NEW p \in Processes, NEW maxNew \in BOOLEAN, StartPool(p, maxNew)
    PROVE  GInv'
<1>. USE ConstantsAssumption
<1>1. p \in Writers /\ pc[p] = "loading" /\ cursor[p] = Queries
  BY DEF StartPool, Loaded
<1>2. PICK queue \in SUBSET {q \in Query : rows[p][q] = "none"} : todo' = [todo EXCEPT ![p] = queue]
  <2>. DEFINE missing == {q \in Query : rows[p][q] = "none"}
              round == IF SmokeGate(Seen(p)) = "none" THEN {q \in missing : q < SmokeQueries} ELSE missing
              queue == IF maxNew /\ round # {} THEN {Min(round)} ELSE round
  <2>1. round \in SUBSET missing /\ round \in SUBSET Query
    OBVIOUS
  <2>2. todo' = [todo EXCEPT ![p] = queue]
    BY DEF StartPool
  <2>3. round # {} => Min(round) \in round
    BY <2>1, FirstOfQueue
  <2>. HIDE DEF round
  <2>4. queue \in SUBSET missing
    BY <2>1, <2>3
  <2>. QED
    BY <2>2, <2>4
<1>3. /\ pc' = [pc EXCEPT ![p] = "pool"] /\ capped' = [capped EXCEPT ![p] = maxNew]
      /\ rows' = [rows EXCEPT ![p] = Seen(p)]
      /\ UNCHANGED <<row, pending, lock, cursor, inflight, batch, saving, stop, late, asked, heard>>
  BY DEF StartPool, Goto, files, history
<1>4. Seen(p) \in [Query -> Rows \cup {"none", "accepted"}]
  BY DEF Seen, GInv, TypeOK
<1>5. TypeOK'
  BY <1>2, <1>3, <1>4 DEF GInv, TypeOK
<1>6. LockInv'
  BY <1>1, <1>3 DEF GInv, TypeOK, LockInv, Live, Writers, Processes
<1>7. PoolInv'
  <2>1. \A q \in Query : inflight[p][q] = "no"
    BY <1>1 DEF GInv, PoolInv, Asking, Idle
  <2>2. p \notin Readers
    BY <1>1 DEF Writers
  <2>. QED
    BY <1>1, <1>2, <1>3, <2>1, <2>2 DEF GInv, TypeOK, PoolInv, Live, Asking, Finished, Busy
<1>8. TrueInv'
  <2>1. \A q \in queue : row[q] \notin Answers
    <3>1. \A q \in Query : q < cursor[p]
      BY <1>1 DEF Query
    <3>. QED
      BY <1>1, <1>2, <3>1 DEF GInv, TrueInv, Loading
  <2>2. todo'[p] = queue /\ \A w \in Processes : w # p => todo'[w] = todo[w] /\ rows'[w] = rows[w]
    BY <1>2, <1>3 DEF GInv, TypeOK
  <2>3. ~Loading(p)' /\ \A w \in Processes : w # p => (Loading(w)' <=> Loading(w))
    BY <1>3 DEF GInv, TypeOK, Loading
  <2>. QED
    BY <1>1, <1>3, <2>1, <2>2, <2>3 DEF GInv, TrueInv, AnswersTruthful, Writers, Processes
<1>. QED
  BY <1>5, <1>6, <1>7, <1>8 DEF GInv

LEMMA DeadlineKeeps ==
    ASSUME GInv, NEW p \in Processes, Deadline(p)
    PROVE  GInv'
<1>1. late' = [late EXCEPT ![p] = TRUE]
      /\ UNCHANGED <<row, pending, lock, pc, cursor, rows, todo, inflight, batch, saving, stop, capped,
                     asked, heard>>
  BY DEF Deadline, files, load, history
<1>2. TypeOK'
  BY <1>1 DEF GInv, TypeOK
<1>3. LockInv' /\ PoolInv' /\ TrueInv'
  BY <1>1 DEF GInv, LockInv, PoolInv, TrueInv, AnswersTruthful, Live, Asking, Loading, Finished, Busy
<1>. QED
  BY <1>2, <1>3 DEF GInv

LEMMA MarkPendingKeeps ==
    ASSUME GInv, NEW p \in Processes, MarkPending(p)
    PROVE  GInv'
<1>. USE ConstantsAssumption
<1>. DEFINE q == Min(todo[p])
<1>1. pc[p] = "pool" /\ batch[p] = {} /\ todo[p] # {}
  BY DEF MarkPending, MayStart, Starting
<1>2. q \in todo[p] /\ q \in Query
  BY <1>1, FirstOfQueue DEF GInv, TypeOK
<1>3. /\ pending' = pending \cup {q} /\ todo' = [todo EXCEPT ![p] = todo[p] \ {q}]
      /\ inflight' = [inflight EXCEPT ![p] = [inflight[p] EXCEPT ![q] = "queued"]]
      /\ UNCHANGED <<row, lock, pc, cursor, rows, batch, saving, stop, late, capped, asked, heard>>
  BY DEF MarkPending, load, history
<1>. HIDE DEF q
<1>4. /\ todo'[p] = todo[p] \ {q} /\ inflight'[p][q] = "queued"
      /\ \A g \in Query : g # q => inflight'[p][g] = inflight[p][g]
      /\ \A w \in Processes : w # p => todo'[w] = todo[w] /\ inflight'[w] = inflight[w]
  BY <1>2, <1>3 DEF GInv, TypeOK
<1>5. TypeOK'
  BY <1>2, <1>3 DEF GInv, TypeOK
<1>6. LockInv'
  BY <1>3 DEF GInv, LockInv, Live
<1>7. PoolInv'
  <2>1. Busy(p)' = Busy(p) \cup {q} /\ \A w \in Processes : w # p => Busy(w)' = Busy(w)
    BY <1>2, <1>4 DEF Busy
  <2>2. \A w \in Processes : w # p => Finished(w)' = Finished(w)
    BY <1>4 DEF Finished
  <2>3. \A w \in Processes : todo'[w] \cap Busy(w)' = {}
    BY <1>4, <2>1 DEF GInv, PoolInv
  <2>. QED
    BY <1>1, <1>3, <1>4, <2>2, <2>3 DEF GInv, PoolInv, Live, Asking
<1>8. TrueInv'
  <2>1. p \in Writers /\ \A g \in Query : g \in todo'[p] => g \in todo[p]
    BY <1>1, <1>4, PoolOwner DEF Asking
  <2>2. row[q] \notin Answers
    BY <1>2, <2>1 DEF GInv, TrueInv
  <2>3. "queued" \notin Answers \cup Failures
    BY DEF Answers, Failures
  <2>. QED
    BY <1>2, <1>3, <1>4, <2>1, <2>2, <2>3
       DEF GInv, TrueInv, AnswersTruthful, Loading, Writers, Processes
<1>. QED
  BY <1>5, <1>6, <1>7, <1>8 DEF GInv

LEMMA AskKeeps ==
    ASSUME GInv, NEW p \in Processes, NEW q \in Query, Ask(p, q)
    PROVE  GInv'
<1>. USE ConstantsAssumption
<1>1. inflight[p][q] = "queued" /\ asked' = [asked EXCEPT ![q] = Min({asked[q] + 1, 2})]
      /\ inflight' = [inflight EXCEPT ![p] = [inflight[p] EXCEPT ![q] = "asking"]]
      /\ UNCHANGED <<row, pending, lock, pc, cursor, rows, todo, batch, saving, stop, late, capped, heard>>
  BY DEF Ask, files, load
<1>2. /\ inflight'[p][q] = "asking"
      /\ \A g \in Query : g # q => inflight'[p][g] = inflight[p][g]
      /\ \A w \in Processes : w # p => inflight'[w] = inflight[w]
  BY <1>1 DEF GInv, TypeOK
<1>3. TypeOK'
  <2>1. Min({asked[q] + 1, 2}) \in 0 .. 2
    BY CountToTwo DEF GInv, TypeOK
  <2>2. asked' \in [Query -> 0 .. 2]
    BY <1>1, <2>1 DEF GInv, TypeOK
  <2>3. inflight' \in [Processes -> [Query -> {"no", "queued", "asking"} \cup Answers \cup Failures]]
    BY <1>1 DEF GInv, TypeOK
  <2>. QED
    BY <1>1, <2>2, <2>3 DEF GInv, TypeOK
<1>4. LockInv'
  BY <1>1 DEF GInv, LockInv, Live
<1>5. PoolInv'
  <2>1. \A w \in Processes : Busy(w)' = Busy(w) /\ Finished(w)' = Finished(w)
    BY <1>1, <1>2 DEF Busy, Finished, Answers, Failures
  <2>2. Asking(p)
    BY <1>1 DEF GInv, PoolInv, Idle
  <2>3. \A w \in Processes : ~Asking(w) => inflight'[w] = Idle
    BY <1>2, <2>2 DEF GInv, PoolInv
  <2>. QED
    BY <1>1, <2>1, <2>3 DEF GInv, PoolInv, Live, Asking
<1>6. TrueInv'
  BY <1>1, <1>2 DEF GInv, TrueInv, AnswersTruthful, Loading, Answers, Failures, Writers, Processes
<1>. QED
  BY <1>3, <1>4, <1>5, <1>6 DEF GInv

LEMMA AnswerKeeps ==
    ASSUME GInv, NEW p \in Processes, NEW q \in Query, NEW r \in Answers \cup Failures, Answer(p, q, r)
    PROVE  GInv'
<1>. USE ConstantsAssumption
<1>1. inflight[p][q] = "asking" /\ heard' = [heard EXCEPT ![q] = r]
      /\ inflight' = [inflight EXCEPT ![p] = [inflight[p] EXCEPT ![q] = r]]
      /\ UNCHANGED <<row, pending, lock, pc, cursor, rows, todo, batch, saving, stop, late, capped, asked>>
  BY DEF Answer, files, load
<1>2. /\ inflight'[p][q] = r /\ heard'[q] = r /\ r \notin {"no", "queued", "asking"}
      /\ \A g \in Query : g # q => inflight'[p][g] = inflight[p][g] /\ heard'[g] = heard[g]
      /\ \A w \in Processes : w # p => inflight'[w] = inflight[w]
  BY <1>1 DEF GInv, TypeOK, Answers, Failures
<1>3. TypeOK'
  BY <1>1 DEF GInv, TypeOK, Rows
<1>4. LockInv'
  BY <1>1 DEF GInv, LockInv, Live
<1>5. Asking(p)
  BY <1>1 DEF GInv, PoolInv, Idle
<1>6. PoolInv'
  <2>1. /\ \A w \in Processes : Busy(w)' = Busy(w)
        /\ \A w \in Processes : Finished(w) \subseteq Finished(w)'
    BY <1>1, <1>2 DEF Busy, Finished
  <2>2. \A w \in Processes : ~Asking(w) => inflight'[w] = Idle
    BY <1>2, <1>5 DEF GInv, PoolInv
  <2>. QED
    BY <1>1, <2>1, <2>2 DEF GInv, PoolInv, Live, Asking
<1>7. TrueInv'
  <2>1. p \in Writers /\ Live(p)
    BY <1>5, PoolOwner
  <2>2. \A w \in Writers, g \in Query : w # p => inflight'[w][g] = "no"
    BY <1>2, <2>1, OthersRest DEF Processes
  <2>3. row[q] \notin Answers
    BY <1>1, <2>1 DEF GInv, TrueInv
  <2>4. \A w \in Writers, g \in Query :
          /\ inflight'[w][g] \in Answers \cup Failures => heard'[g] = inflight'[w][g]
          /\ inflight'[w][g] \in {"queued", "asking"} => row[g] \notin Answers
    <3>. SUFFICES ASSUME NEW w \in Writers, NEW g \in Query
                  PROVE  /\ inflight'[w][g] \in Answers \cup Failures => heard'[g] = inflight'[w][g]
                         /\ inflight'[w][g] \in {"queued", "asking"} => row[g] \notin Answers
      OBVIOUS
    <3>1. CASE w # p
      BY <2>2, <3>1 DEF Answers, Failures
    <3>2. CASE w = p /\ g = q
      BY <1>2, <3>2
    <3>3. CASE w = p /\ g # q
      BY <1>2, <2>1, <3>3 DEF GInv, TrueInv
    <3>. QED
      BY <3>1, <3>2, <3>3
  <2>5. AnswersTruthful'
    BY <1>1, <1>2, <2>3 DEF GInv, TrueInv, AnswersTruthful
  <2>. QED
    BY <1>1, <2>4, <2>5 DEF GInv, TrueInv, Loading
<1>. QED
  BY <1>3, <1>4, <1>6, <1>7 DEF GInv

\* What the main thread does when it saves the row of a future.
LEMMA SaveRowEffect ==
    ASSUME GInv, NEW p \in Processes, NEW q \in Query, SaveRow(p, q)
    PROVE  /\ p \in Writers /\ Live(p) /\ lock = p /\ pc[p] = "pool"
           /\ q \in Finished(p) /\ q \notin todo[p] /\ inflight[p][q] \in Answers \cup Failures
           /\ batch'[p] \subseteq Finished(p) /\ q \notin batch'[p]
           /\ batch' \in [Processes -> SUBSET Query]
           /\ pc' = [pc EXCEPT ![p] = "saving"] /\ saving' = [saving EXCEPT ![p] = q]
           /\ row' = [row EXCEPT ![q] = inflight[p][q]]
           /\ \A w \in Processes : w # p => batch'[w] = batch[w]
           /\ UNCHANGED <<pending, lock, cursor, rows, todo, inflight, stop, late, capped, asked, heard>>
<1>1. /\ pc[p] = "pool" /\ pc' = [pc EXCEPT ![p] = "saving"] /\ saving' = [saving EXCEPT ![p] = q]
      /\ row' = [row EXCEPT ![q] = inflight[p][q]]
      /\ UNCHANGED <<pending, lock, cursor, rows, todo, inflight, stop, late, capped, asked, heard>>
  BY DEF SaveRow, Goto, history
<1>2. /\ q \in Finished(p) /\ batch'[p] \subseteq Finished(p) /\ q \notin batch'[p]
      /\ batch' \in [Processes -> SUBSET Query]
      /\ \A w \in Processes : w # p => batch'[w] = batch[w]
  <2>1. batch[p] \subseteq Finished(p) /\ Finished(p) \subseteq Query /\ batch \in [Processes -> SUBSET Query]
    BY DEF GInv, TypeOK, PoolInv, Finished
  <2>2. CASE batch[p] = {}
    BY <2>1, <2>2 DEF SaveRow, NextFuture
  <2>3. CASE batch[p] # {}
    BY <2>1, <2>3 DEF SaveRow, NextFuture
  <2>. QED
    BY <2>2, <2>3
<1>3. inflight[p][q] \in Answers \cup Failures
  BY <1>2 DEF Finished
<1>4. q \notin todo[p]
  <2>1. q \in Busy(p)
    BY <1>3 DEF Busy, Answers, Failures
  <2>. QED
    BY <2>1 DEF GInv, PoolInv
<1>5. p \in Writers /\ Live(p) /\ lock = p
  BY <1>1, PoolOwner DEF Asking
<1>. QED
  BY <1>1, <1>2, <1>3, <1>4, <1>5

LEMMA SaveRowKeeps ==
    ASSUME GInv, NEW p \in Processes, NEW q \in Query, SaveRow(p, q)
    PROVE  GInv'
<1>. USE ConstantsAssumption
<1>1. /\ p \in Writers /\ Live(p) /\ lock = p /\ pc[p] = "pool"
      /\ q \in Finished(p) /\ q \notin todo[p] /\ inflight[p][q] \in Answers \cup Failures
      /\ batch'[p] \subseteq Finished(p) /\ q \notin batch'[p]
      /\ batch' \in [Processes -> SUBSET Query]
      /\ pc' = [pc EXCEPT ![p] = "saving"] /\ saving' = [saving EXCEPT ![p] = q]
      /\ row' = [row EXCEPT ![q] = inflight[p][q]]
      /\ \A w \in Processes : w # p => batch'[w] = batch[w]
      /\ UNCHANGED <<pending, lock, cursor, rows, todo, inflight, stop, late, capped, asked, heard>>
  BY SaveRowEffect
<1>2. /\ pc'[p] = "saving" /\ saving'[p] = q /\ row'[q] = inflight[p][q]
      /\ \A g \in Query : g # q => row'[g] = row[g]
      /\ \A w \in Processes : w # p => pc'[w] = pc[w] /\ saving'[w] = saving[w]
  BY <1>1 DEF GInv, TypeOK
<1>3. TypeOK'
  BY <1>1 DEF GInv, TypeOK, Rows
<1>4. LockInv'
  BY <1>1, <1>2 DEF GInv, LockInv, Live, Writers, Processes
<1>5. PoolInv'
  <2>1. \A w \in Processes : Busy(w)' = Busy(w) /\ Finished(w)' = Finished(w)
    BY <1>1 DEF Busy, Finished
  <2>2. p \notin Readers
    BY <1>1 DEF Writers
  <2>. QED
    BY <1>1, <1>2, <2>1, <2>2 DEF GInv, PoolInv, Live, Asking
<1>6. TrueInv'
  <2>1. \A w \in Writers : w # p => ~Live(w) /\ todo[w] = {} /\ \A g \in Query : inflight[w][g] = "no"
    BY <1>1, OthersRest
  <2>2. heard[q] = inflight[p][q]
    BY <1>1 DEF GInv, TrueInv
  <2>3. AnswersTruthful'
    BY <1>1, <1>2, <2>2 DEF GInv, TrueInv, AnswersTruthful
  <2>4. \A w \in Writers : ~Loading(w)'
    BY <1>1, <1>2, <2>1 DEF Loading, Live, Writers, Processes
  <2>5. ASSUME NEW w \in Writers, NEW g \in Query, g \in todo[w] \/ inflight[w][g] \in {"queued", "asking"}
        PROVE  row'[g] \notin Answers
    <3>1. w = p
      BY <2>1, <2>5
    <3>2. g # q
      BY <1>1, <2>5, <3>1 DEF Answers, Failures
    <3>. QED
      BY <1>2, <2>5, <3>1, <3>2 DEF GInv, TrueInv
  <2>. QED
    BY <1>1, <2>3, <2>4, <2>5 DEF GInv, TrueInv
<1>. QED
  BY <1>3, <1>4, <1>5, <1>6 DEF GInv

LEMMA SaveDoneKeeps ==
    ASSUME GInv, NEW p \in Processes, SaveDone(p)
    PROVE  GInv'
<1>. USE ConstantsAssumption
<1>. DEFINE q == saving[p]
<1>1. pc[p] = "saving" /\ pc' = [pc EXCEPT ![p] = "pool"] /\ pending' = pending \ {q}
      /\ rows' = [rows EXCEPT ![p] = [rows[p] EXCEPT ![q] = inflight[p][q]]]
      /\ inflight' = [inflight EXCEPT ![p] = [inflight[p] EXCEPT ![q] = "no"]]
      /\ stop' = [stop EXCEPT ![p] = stop[p] \/ Failed(inflight[p][q])]
      /\ saving' = [saving EXCEPT ![p] = 0]
      /\ UNCHANGED <<row, lock, cursor, todo, batch, late, capped, asked, heard>>
  BY DEF SaveDone, Goto, history
<1>2. q \in Query /\ q \in Finished(p) /\ q \notin batch[p] /\ inflight[p][q] \in Answers \cup Failures
      /\ 0 \in Query
  BY <1>1 DEF GInv, TypeOK, PoolInv, Finished, Query
<1>. HIDE DEF q
<1>3. /\ pc'[p] = "pool" /\ inflight'[p][q] = "no"
      /\ \A g \in Query : g # q => inflight'[p][g] = inflight[p][g]
      /\ \A w \in Processes : w # p =>
            pc'[w] = pc[w] /\ inflight'[w] = inflight[w] /\ rows'[w] = rows[w] /\ saving'[w] = saving[w]
  BY <1>1, <1>2 DEF GInv, TypeOK
<1>4. TypeOK'
  <2>1. (stop[p] \/ Failed(inflight[p][q])) \in BOOLEAN
    OBVIOUS
  <2>2. stop' \in [Processes -> BOOLEAN]
    BY <1>1, <2>1 DEF GInv, TypeOK
  <2>3. rows' \in [Processes -> [Query -> Rows \cup {"none", "accepted"}]]
    BY <1>1, <1>2 DEF GInv, TypeOK, Rows
  <2>4. inflight' \in [Processes -> [Query -> {"no", "queued", "asking"} \cup Answers \cup Failures]]
    BY <1>1 DEF GInv, TypeOK
  <2>. QED
    BY <1>1, <1>2, <2>2, <2>3, <2>4 DEF GInv, TypeOK
<1>5. LockInv'
  BY <1>1, <1>3 DEF GInv, LockInv, Live, Writers, Processes
<1>6. PoolInv'
  <2>1. /\ Busy(p)' \subseteq Busy(p) /\ \A w \in Processes : w # p => Busy(w)' = Busy(w)
        /\ Finished(p)' = Finished(p) \ {q} /\ \A w \in Processes : w # p => Finished(w)' = Finished(w)
    BY <1>2, <1>3 DEF Busy, Finished, Answers, Failures
  <2>2. p \notin Readers
    BY <1>1, PoolOwner DEF Asking, Writers
  <2>. QED
    BY <1>1, <1>2, <1>3, <2>1, <2>2 DEF GInv, PoolInv, Live, Asking
<1>7. TrueInv'
  <2>1. \A w \in Processes : Loading(w)' => w # p /\ Loading(w)
    BY <1>3 DEF Loading
  <2>. QED
    BY <1>1, <1>3, <2>1 DEF GInv, TrueInv, AnswersTruthful, Answers, Failures, Writers, Processes
<1>. QED
  BY <1>4, <1>5, <1>6, <1>7 DEF GInv

\* Every step preserves what holds with readers.
LEMMA NextKeeps == GInv /\ [Next]_vars => GInv'
<1>. SUFFICES ASSUME GInv, [Next]_vars PROVE GInv'
  OBVIOUS
<1>1. CASE UNCHANGED vars
  BY <1>1 DEF vars, files, load, pool, history, GInv, TypeOK, LockInv, PoolInv, TrueInv,
     AnswersTruthful, Live, Asking, Loading, Finished, Busy
<1>2. ASSUME NEW p \in Processes, EnterRun(p) \/ EnterStatus(p) \/ Deadline(p) PROVE GInv'
  BY <1>2, EnterRunKeeps, EnterStatusKeeps, DeadlineKeeps
<1>3. ASSUME NEW p \in Processes, StatusDone(p) \/ Refuse(p) \/ PoolDone(p) \/ Crash(p) PROVE GInv'
  <2>1. pc[p] # "idle" /\ UNCHANGED <<files, history>>
    BY <1>3 DEF StatusDone, Refuse, PoolDone, Crash, Loaded
  <2>2. \E place \in {"idle", "again"} :
            LeaveTo(p, place) /\ (place = "again" => pc[p] = "pool")
    BY <1>3 DEF StatusDone, Refuse, PoolDone, Crash, Leave
  <2>3. pc[p] = "pool" => p \in Writers
    BY PoolOwner DEF Asking
  <2>. QED
    BY <2>1, <2>2, <2>3, LeaveToKeeps
<1>4. ASSUME NEW p \in Processes, Look(p) \/ Convert(p) \/ Clear(p) PROVE GInv'
  BY <1>4, LookKeeps, ConvertKeeps, ClearKeeps
<1>5. ASSUME NEW p \in Processes, NEW maxNew \in BOOLEAN, StartPool(p, maxNew) PROVE GInv'
  BY <1>5, StartPoolKeeps
<1>6. ASSUME NEW p \in Processes, MarkPending(p) \/ SaveDone(p) PROVE GInv'
  BY <1>6, MarkPendingKeeps, SaveDoneKeeps
<1>7. ASSUME NEW p \in Processes, NEW q \in Query, SaveRow(p, q) \/ Worker(p, q) PROVE GInv'
  BY <1>7, SaveRowKeeps, AskKeeps, AnswerKeeps DEF Worker
<1>. QED
  BY <1>1, <1>2, <1>3, <1>4, <1>5, <1>6, <1>7 DEF Next, MainStep

\* GInv holds in every reachable state, readers or not.
THEOREM SharedInvariant == Spec => []GInv
<1>. QED
  BY InitGInv, NextKeeps, PTL DEF Spec

\* Every variable keeps its type.
THEOREM TypeCorrect == Spec => []TypeOK
<1>1. GInv => TypeOK
  BY DEF GInv
<1>. QED
  BY <1>1, SharedInvariant, PTL

\* An answer on disk is the last one received for its query, even with `status`
\* beside a live run.
THEOREM AnswersTrue == Spec => []AnswersTruthful
<1>1. GInv => AnswersTruthful
  BY DEF GInv, TrueInv
<1>. QED
  BY <1>1, SharedInvariant, PTL

-----------------------------------------------------------------------------
(* One request per query, and nothing spent after a failure, without readers *)

\* A writer at rest has nothing to keep.
LEMMA RestIsSafe ==
    ASSUME NEW w, ~Live(w), todo[w] = {}, \A q \in Query : inflight[w][q] = "no"
    PROVE  OnceOf(w) /\ SpendOf(w)
BY DEF OnceOf, SpendOf, Live, Loading, Asking

\* While one writer acts, the others stay at rest.
LEMMA RestIsKept ==
    ASSUME GInv, NEW p \in Writers, Live(p), NEW w \in Writers, w # p,
           pc'[w] = pc[w], todo'[w] = todo[w], inflight'[w] = inflight[w]
    PROVE  OnceOf(w)' /\ SpendOf(w)'
<1>1. ~Live(w) /\ todo[w] = {} /\ \A q \in Query : inflight[w][q] = "no"
  BY OthersRest
<1>. QED
  BY <1>1 DEF OnceOf, SpendOf, Live, Loading, Asking

LEMMA EnterRunOnce ==
    ASSUME RInv, NEW p \in Processes, EnterRun(p)
    PROVE  OnceInv' /\ SpendInv'
<1>1. p \in Writers /\ pc[p] \in {"idle", "again"} /\ lock = NoOne
      /\ pc' = [pc EXCEPT ![p] = "loading"]
      /\ UNCHANGED <<row, pending, cursor, rows, todo, inflight, batch, saving, stop, late, capped,
                     asked, heard>>
  BY DEF EnterRun, Goto, files, pool, history
<1>2. NeverRetried' /\ NothingForgotten'
  BY <1>1 DEF RInv, OnceInv, NeverRetried, NothingForgotten
<1>3. \A w \in Writers : ~Live(w) /\ w \in Processes
  BY <1>1, ConstantsAssumption DEF RInv, GInv, LockInv, Writers, Processes
<1>4. \A w \in Writers : cursor[w] = 0 /\ todo[w] = {} /\ \A q \in Query : inflight[w][q] = "no"
  BY <1>3 DEF RInv, GInv, PoolInv, Live, Asking, Idle
<1>5. \A w \in Writers : pc'[w] \in {"idle", "again", "loading"}
  BY <1>1, <1>3 DEF RInv, GInv, TypeOK, Live
<1>6. \A w \in Writers : OnceOf(w)' /\ SpendOf(w)'
  BY <1>1, <1>4, <1>5 DEF OnceOf, SpendOf, Asking, Query
<1>. QED
  BY <1>2, <1>6 DEF OnceInv, SpendInv

LEMMA LookOnce ==
    ASSUME RInv, NEW p \in Writers, Look(p)
    PROVE  OnceInv' /\ SpendInv'
<1>1. /\ pc[p] = "loading" /\ cursor[p] < Queries
      /\ UNCHANGED <<row, pending, lock, cursor, rows, todo, inflight, batch, saving, stop, late, capped,
                     asked, heard>>
  BY DEF Look, files, pool, history
<1>2. /\ \A w \in Writers : w # p => pc'[w] = pc[w]
      /\ \/ pc'[p] = "converting" /\ cursor[p] \in pending /\ row[cursor[p]] = "none"
         \/ pc'[p] = "clearing" /\ (cursor[p] \notin pending \/ row[cursor[p]] # "none")
  BY DEF Look, Goto, RInv, GInv, TypeOK, Writers, Processes
<1>3. NeverRetried' /\ NothingForgotten'
  BY <1>1 DEF RInv, OnceInv, NeverRetried, NothingForgotten
<1>4. OnceOf(p) /\ Live(p)
  BY <1>1 DEF RInv, OnceInv, Live
<1>5. OnceOf(p)' /\ SpendOf(p)'
  BY <1>1, <1>2, <1>4 DEF OnceOf, SpendOf, Loading, Asking
<1>6. \A w \in Writers : w # p => OnceOf(w)' /\ SpendOf(w)'
  BY <1>1, <1>2, <1>4, RestIsKept DEF RInv
<1>. QED
  BY <1>3, <1>5, <1>6 DEF OnceInv, SpendInv

LEMMA ConvertOnce ==
    ASSUME RInv, NEW p \in Writers, Convert(p)
    PROVE  OnceInv' /\ SpendInv'
<1>1. /\ pc[p] = "converting" /\ row' = [row EXCEPT ![cursor[p]] = "lost"] /\ cursor[p] \in Query
      /\ UNCHANGED <<pending, lock, cursor, rows, todo, inflight, batch, saving, stop, late, capped,
                     asked, heard>>
  BY ConstantsAssumption DEF Convert, pool, history, RInv, GInv, TypeOK, PoolInv, Query, Processes
<1>2. /\ pc'[p] = "clearing" /\ \A w \in Writers : w # p => pc'[w] = pc[w]
      /\ row'[cursor[p]] = "lost" /\ \A q \in Query : q # cursor[p] => row'[q] = row[q]
  BY <1>1 DEF Convert, Goto, RInv, GInv, TypeOK, Processes
<1>3. NeverRetried' /\ NothingForgotten'
  BY <1>1, <1>2 DEF RInv, OnceInv, NeverRetried, NothingForgotten
<1>4. OnceOf(p) /\ Live(p) /\ p \in Processes
  BY <1>1 DEF RInv, OnceInv, Live, Processes
<1>5. todo[p] = {} /\ \A q \in Query : inflight[p][q] = "no"
  BY <1>1, <1>4 DEF RInv, GInv, PoolInv, Asking, Idle
<1>6. OnceOf(p)' /\ SpendOf(p)'
  <2>1. \A q \in Query : q < cursor[p] => q # cursor[p]
    BY <1>1 DEF Query
  <2>. QED
    BY <1>1, <1>2, <1>4, <1>5, <2>1 DEF OnceOf, SpendOf, Loading, Asking
<1>7. \A w \in Writers : w # p => OnceOf(w)' /\ SpendOf(w)'
  BY <1>1, <1>2, <1>4, RestIsKept DEF RInv
<1>. QED
  BY <1>3, <1>6, <1>7 DEF OnceInv, SpendInv

LEMMA ClearOnce ==
    ASSUME RInv, NEW p \in Writers, Clear(p)
    PROVE  OnceInv' /\ SpendInv'
<1>. DEFINE c == cursor[p]
<1>1. /\ pc[p] = "clearing" /\ c \in Query /\ pending' = pending \ {c}
      /\ UNCHANGED <<row, lock, todo, inflight, batch, saving, stop, late, capped, asked, heard>>
  BY ConstantsAssumption DEF Clear, pool, history, RInv, GInv, TypeOK, PoolInv, Query, Processes
<1>2. /\ pc'[p] = "loading" /\ cursor'[p] = c + 1 /\ rows'[p][c] = row[c]
      /\ \A q \in Query : q # c => rows'[p][q] = rows[p][q]
      /\ \A w \in Writers : w # p => pc'[w] = pc[w]
  BY <1>1 DEF Clear, Goto, RInv, GInv, TypeOK, Processes
<1>3. OnceOf(p) /\ Live(p) /\ p \in Processes
  BY <1>1 DEF RInv, OnceInv, Live, Processes
<1>4. todo[p] = {} /\ \A q \in Query : inflight[p][q] = "no"
  BY <1>1, <1>3 DEF RInv, GInv, PoolInv, Asking, Idle
<1>5. row[c] # "none" \/ c \notin pending
  BY <1>1, <1>3 DEF OnceOf
<1>6. \A q \in Query : asked[q] > 0 => q \in pending \/ row[q] # "none"
  BY DEF RInv, OnceInv, NothingForgotten
<1>7. NeverRetried' /\ NothingForgotten'
  BY <1>1, <1>5, <1>6 DEF RInv, OnceInv, NeverRetried, NothingForgotten
<1>8. OnceOf(p)' /\ SpendOf(p)'
  <2>1. \A q \in Query : q < c + 1 => q = c \/ (q # c /\ q < c)
    BY <1>1 DEF Query
  <2>2. row[c] = "none" => asked[c] = 0
    <3>1. asked[c] \in 0 .. 2
      BY <1>1 DEF RInv, GInv, TypeOK
    <3>. QED
      BY <1>1, <1>5, <1>6, <3>1
  <2>3. \A q \in Query : q < c => rows[p][q] = row[q] /\ (row[q] = "none" => asked[q] = 0)
    BY <1>1, <1>3 DEF OnceOf, Loading
  <2>4. \A q \in Query : q < c + 1 => rows'[p][q] = row[q] /\ (row[q] = "none" => asked[q] = 0)
    BY <1>2, <2>1, <2>2, <2>3
  <2>. HIDE DEF c
  <2>. QED
    BY <1>1, <1>2, <1>4, <2>4 DEF OnceOf, SpendOf, Asking
<1>9. \A w \in Writers : w # p => OnceOf(w)' /\ SpendOf(w)'
  BY <1>1, <1>2, <1>3, RestIsKept DEF RInv
<1>. QED
  BY <1>7, <1>8, <1>9 DEF OnceInv, SpendInv

LEMMA LeaveToOnce ==
    ASSUME RInv, NEW p \in Writers, NEW place \in {"idle", "again"},
           LeaveTo(p, place), UNCHANGED <<files, history>>
    PROVE  OnceInv' /\ SpendInv'
<1>1. UNCHANGED <<row, pending, asked, heard>> /\ p \in Processes
  BY DEF files, history, Processes
<1>2. /\ pc'[p] = place /\ todo'[p] = {} /\ inflight'[p] = Idle
      /\ \A w \in Writers : w # p =>
            /\ pc'[w] = pc[w] /\ cursor'[w] = cursor[w] /\ rows'[w] = rows[w] /\ todo'[w] = todo[w]
            /\ inflight'[w] = inflight[w] /\ saving'[w] = saving[w] /\ stop'[w] = stop[w]
  BY <1>1 DEF LeaveTo, Goto, RInv, GInv, TypeOK, Processes
<1>3. NeverRetried' /\ NothingForgotten'
  BY <1>1 DEF RInv, OnceInv, NeverRetried, NothingForgotten
<1>4. OnceOf(p)' /\ SpendOf(p)'
  BY <1>2 DEF OnceOf, SpendOf, Loading, Asking, Idle
<1>5. ASSUME NEW w \in Writers, w # p PROVE OnceOf(w)' /\ SpendOf(w)'
  BY <1>1, <1>2, <1>5 DEF RInv, OnceInv, SpendInv, OnceOf, SpendOf, Loading, Asking, SeenRow
<1>. QED
  BY <1>3, <1>4, <1>5 DEF OnceInv, SpendInv

\* A passed smoke gate saw the smoke through.
LEMMA GatePassed ==
    ASSUME NEW r, SmokeGate(r) \notin {"none", "failed"}
    PROVE  SmokeThrough(r)
<1>. DEFINE truncated == {q \in Smoke : r[q] = "truncated"}
<1>1. Cardinality(truncated) \in Nat
  <2>1. IsFiniteSet(Smoke)
    BY ConstantsAssumption, FS_Interval DEF Smoke
  <2>2. IsFiniteSet(truncated)
    BY <2>1, FS_Subset
  <2>. QED
    BY <2>2, FS_CardinalityType
<1>2. (\A q \in Smoke : r[q] # "none") /\ ~ Cardinality(truncated) > 1
  BY DEF SmokeGate, Smoke
<1>. HIDE DEF truncated
<1>3. Cardinality(truncated) <= 1
  BY <1>1, <1>2
<1>. QED
  BY <1>2, <1>3 DEF SmokeThrough, truncated

LEMMA StartPoolOnce ==
    ASSUME RInv, NEW p \in Writers, NEW maxNew \in BOOLEAN, StartPool(p, maxNew)
    PROVE  OnceInv' /\ SpendInv'
<1>1. /\ pc[p] = "loading" /\ cursor[p] = Queries /\ Admits(p) /\ p \in Processes
      /\ UNCHANGED <<row, pending, lock, cursor, inflight, batch, saving, stop, late, asked, heard>>
  BY DEF StartPool, Loaded, files, history, Processes
<1>2. /\ pc'[p] = "pool" /\ rows'[p] = Seen(p)
      /\ \A w \in Writers : w # p => pc'[w] = pc[w] /\ todo'[w] = todo[w]
  BY <1>1 DEF StartPool, Goto, RInv, GInv, TypeOK, Processes
<1>3. /\ todo'[p] \subseteq {q \in Query : rows[p][q] = "none"}
      /\ (\E n \in todo'[p] : n \notin Smoke) => SmokeGate(Seen(p)) # "none"
  <2>. DEFINE missing == {q \in Query : rows[p][q] = "none"}
              round == IF SmokeGate(Seen(p)) = "none" THEN {q \in missing : q < SmokeQueries} ELSE missing
              queue == IF maxNew /\ round # {} THEN {Min(round)} ELSE round
  <2>1. round \in SUBSET missing /\ round \in SUBSET Query
    OBVIOUS
  <2>2. todo'[p] = queue
    BY <1>1 DEF StartPool, RInv, GInv, TypeOK
  <2>3. SmokeGate(Seen(p)) = "none" => round \subseteq Smoke
    BY ConstantsAssumption DEF Smoke, Query
  <2>4. round # {} => Min(round) \in round
    BY <2>1, FirstOfQueue
  <2>. HIDE DEF round
  <2>5. queue \subseteq round
    BY <2>4
  <2>. QED
    BY <2>1, <2>2, <2>3, <2>5
<1>4. OnceOf(p) /\ Live(p)
  BY <1>1 DEF RInv, OnceInv, Live
<1>5. \A q \in Query : rows[p][q] = row[q] /\ (row[q] = "none" => asked[q] = 0)
  <2>1. \A q \in Query : q < cursor[p]
    BY <1>1, ConstantsAssumption DEF Query
  <2>. QED
    BY <1>1, <1>4, <2>1 DEF OnceOf, Loading
<1>6. ~stop[p] => \A q \in Query : ~Failed(Seen(p)[q])
  BY <1>1 DEF Admits
<1>7. \A q \in Query : inflight[p][q] = "no"
  BY <1>1 DEF RInv, GInv, PoolInv, Asking, Idle
<1>8. NeverRetried' /\ NothingForgotten'
  BY <1>1 DEF RInv, OnceInv, NeverRetried, NothingForgotten
<1>9. OnceOf(p)'
  BY <1>1, <1>2, <1>3, <1>5, <1>7 DEF OnceOf, Loading
<1>10. SpendOf(p)'
  <2>1. \A q \in Query : Seen(p)[q] = SeenRow(p, q)
    BY <1>5 DEF Seen, SeenRow
  <2>2. (\E n \in todo'[p] : n \notin Smoke) => SmokeThrough(Seen(p))
    BY <1>1, <1>3, GatePassed DEF Admits
  <2>. QED
    BY <1>1, <1>2, <1>6, <2>1, <2>2 DEF SpendOf, SeenRow
<1>11. \A w \in Writers : w # p => OnceOf(w)' /\ SpendOf(w)'
  BY <1>1, <1>2, <1>4, RestIsKept DEF RInv
<1>. QED
  BY <1>8, <1>9, <1>10, <1>11 DEF OnceInv, SpendInv

LEMMA DeadlineOnce ==
    ASSUME RInv, NEW p \in Writers, Deadline(p)
    PROVE  OnceInv' /\ SpendInv'
BY DEF Deadline, files, load, history, RInv, OnceInv, SpendInv, NeverRetried, NothingForgotten,
   OnceOf, SpendOf, Loading, Asking, SeenRow

LEMMA MarkPendingOnce ==
    ASSUME RInv, NEW p \in Writers, MarkPending(p)
    PROVE  OnceInv' /\ SpendInv'
<1>. DEFINE n == Min(todo[p])
<1>1. /\ pc[p] = "pool" /\ pending' = pending \cup {n} /\ p \in Processes
      /\ UNCHANGED <<row, lock, pc, cursor, rows, batch, saving, stop, late, capped, asked, heard>>
  BY DEF MarkPending, load, history, Processes
<1>2. n \in todo[p] /\ n \in Query
  BY <1>1, FirstOfQueue DEF MarkPending, MayStart, Starting, RInv, GInv, TypeOK
<1>3. /\ todo'[p] = todo[p] \ {n} /\ inflight'[p][n] = "queued"
      /\ \A q \in Query : q # n => inflight'[p][q] = inflight[p][q]
      /\ \A w \in Writers : w # p => todo'[w] = todo[w] /\ inflight'[w] = inflight[w]
  BY <1>1, <1>2 DEF MarkPending, RInv, GInv, TypeOK, Processes
<1>. HIDE DEF n
<1>4. OnceOf(p) /\ SpendOf(p) /\ Live(p)
  BY <1>1 DEF RInv, OnceInv, SpendInv, Live
<1>5. NeverRetried' /\ NothingForgotten'
  BY <1>1 DEF RInv, OnceInv, NeverRetried, NothingForgotten
<1>6. OnceOf(p)'
  <2>1. row[n] = "none" /\ asked[n] = 0
    BY <1>2, <1>4 DEF OnceOf
  <2>2. \A q \in Query : inflight'[p][q] # "no" => q \in pending' /\ row[q] = "none"
    BY <1>1, <1>3, <1>4, <2>1 DEF OnceOf
  <2>3. \A q \in Query : inflight'[p][q] = "queued" => asked[q] = 0
    BY <1>3, <1>4, <2>1 DEF OnceOf
  <2>. QED
    BY <1>1, <1>3, <1>4, <2>2, <2>3 DEF OnceOf, Loading
<1>7. SpendOf(p)'
  BY <1>1, <1>3, <1>4 DEF SpendOf, Asking, SeenRow
<1>8. \A w \in Writers : w # p => OnceOf(w)' /\ SpendOf(w)'
  BY <1>1, <1>3, <1>4, RestIsKept DEF RInv
<1>. QED
  BY <1>5, <1>6, <1>7, <1>8 DEF OnceInv, SpendInv

LEMMA AskOnce ==
    ASSUME RInv, NEW p \in Writers, NEW q \in Query, Ask(p, q)
    PROVE  OnceInv' /\ SpendInv'
<1>1. /\ inflight[p][q] = "queued" /\ p \in Processes
      /\ UNCHANGED <<row, pending, lock, pc, cursor, rows, todo, batch, saving, stop, late, capped, heard>>
  BY DEF Ask, files, load, Processes
<1>2. Asking(p) /\ Live(p) /\ OnceOf(p) /\ SpendOf(p)
  BY <1>1 DEF RInv, GInv, OnceInv, SpendInv, PoolInv, Idle, Asking, Live
<1>3. asked[q] = 0 /\ q \in pending /\ q \notin todo[p]
  BY <1>1, <1>2 DEF OnceOf, RInv, GInv, PoolInv, Busy
<1>4. /\ asked'[q] = 1 /\ inflight'[p][q] = "asking"
      /\ \A g \in Query : g # q => asked'[g] = asked[g] /\ inflight'[p][g] = inflight[p][g]
      /\ \A w \in Writers : w # p => inflight'[w] = inflight[w]
  <2>1. Min({asked[q] + 1, 2}) = 1
    BY <1>3, CountToTwo
  <2>. QED
    BY <1>1, <2>1 DEF Ask, RInv, GInv, TypeOK, Processes
<1>5. NeverRetried' /\ NothingForgotten'
  BY <1>1, <1>3, <1>4 DEF RInv, OnceInv, NeverRetried, NothingForgotten
<1>6. OnceOf(p)'
  <2>1. \A g \in Query : g \in todo[p] => g # q
    BY <1>3
  <2>2. ~Loading(p)
    BY <1>2 DEF Asking, Loading
  <2>3. saving[p] \in Query /\ (pc[p] = "saving" => saving[p] # q)
    BY <1>1 DEF RInv, GInv, TypeOK, PoolInv, Finished, Answers, Failures
  <2>. QED
    BY <1>1, <1>2, <1>3, <1>4, <2>1, <2>2, <2>3 DEF OnceOf, Asking, Loading
<1>7. SpendOf(p)'
  BY <1>1, <1>2 DEF SpendOf, Asking, SeenRow
<1>8. \A w \in Writers : w # p => OnceOf(w)' /\ SpendOf(w)'
  BY <1>1, <1>2, <1>4, RestIsKept DEF RInv
<1>. QED
  BY <1>5, <1>6, <1>7, <1>8 DEF OnceInv, SpendInv

LEMMA AnswerOnce ==
    ASSUME RInv, NEW p \in Writers, NEW q \in Query, NEW r \in Answers \cup Failures, Answer(p, q, r)
    PROVE  OnceInv' /\ SpendInv'
<1>1. /\ inflight[p][q] = "asking" /\ p \in Processes
      /\ UNCHANGED <<row, pending, lock, pc, cursor, rows, todo, batch, saving, stop, late, capped, asked>>
  BY DEF Answer, files, load, Processes
<1>2. Asking(p) /\ Live(p) /\ OnceOf(p) /\ SpendOf(p)
  BY <1>1 DEF RInv, GInv, OnceInv, SpendInv, PoolInv, Idle, Asking, Live
<1>3. /\ inflight'[p][q] = r /\ r \notin {"no", "queued", "asking"}
      /\ \A g \in Query : g # q => inflight'[p][g] = inflight[p][g]
      /\ \A w \in Writers : w # p => inflight'[w] = inflight[w]
  BY <1>1 DEF Answer, RInv, GInv, TypeOK, Processes, Answers, Failures
<1>4. NeverRetried' /\ NothingForgotten'
  BY <1>1 DEF RInv, OnceInv, NeverRetried, NothingForgotten
<1>5. OnceOf(p)'
  <2>1. ~Loading(p)
    BY <1>2 DEF Asking, Loading
  <2>2. saving[p] \in Query /\ (pc[p] = "saving" => saving[p] # q)
    BY <1>1 DEF RInv, GInv, TypeOK, PoolInv, Finished, Answers, Failures
  <2>. QED
    BY <1>1, <1>2, <1>3, <2>1, <2>2 DEF OnceOf, Asking, Loading
<1>6. SpendOf(p)'
  BY <1>1, <1>2 DEF SpendOf, Asking, SeenRow
<1>7. \A w \in Writers : w # p => OnceOf(w)' /\ SpendOf(w)'
  BY <1>1, <1>2, <1>3, RestIsKept DEF RInv
<1>. QED
  BY <1>4, <1>5, <1>6, <1>7 DEF OnceInv, SpendInv

LEMMA SaveRowOnce ==
    ASSUME RInv, NEW p \in Writers, NEW q \in Query, SaveRow(p, q)
    PROVE  OnceInv' /\ SpendInv'
<1>0. p \in Processes
  BY DEF Processes
<1>1. /\ Live(p) /\ pc[p] = "pool" /\ q \in Finished(p) /\ q \notin todo[p]
      /\ inflight[p][q] \in Answers \cup Failures
      /\ pc' = [pc EXCEPT ![p] = "saving"] /\ saving' = [saving EXCEPT ![p] = q]
      /\ row' = [row EXCEPT ![q] = inflight[p][q]]
      /\ UNCHANGED <<pending, lock, cursor, rows, todo, inflight, stop, late, capped, asked, heard>>
  BY <1>0, SaveRowEffect DEF RInv
<1>2. /\ pc'[p] = "saving" /\ saving'[p] = q /\ row'[q] = inflight[p][q]
      /\ inflight[p][q] \notin {"no", "none", "queued"}
      /\ \A g \in Query : g # q => row'[g] = row[g]
      /\ \A w \in Writers : w # p => pc'[w] = pc[w]
  BY <1>0, <1>1 DEF RInv, GInv, TypeOK, Processes, Answers, Failures
<1>3. OnceOf(p) /\ SpendOf(p)
  BY DEF RInv, OnceInv, SpendInv
<1>4. NeverRetried' /\ NothingForgotten'
  BY <1>1, <1>2 DEF RInv, OnceInv, NeverRetried, NothingForgotten
<1>5. \A g \in Query : inflight[p][g] # "no" => row[g] = "none"
  BY <1>1, <1>3 DEF OnceOf
<1>6. OnceOf(p)'
  BY <1>1, <1>2, <1>3, <1>5 DEF OnceOf, Loading
<1>7. SpendOf(p)'
  <2>1. \A g \in Query : rows[p][g] = SeenRow(p, g)
    BY <1>1, <1>3 DEF SpendOf, Asking
  <2>2. rows[p][q] = "none"
    BY <1>2, <1>5, <2>1 DEF SeenRow
  <2>. QED
    BY <1>1, <1>2, <1>3, <2>1, <2>2 DEF SpendOf, Asking, SeenRow
<1>8. \A w \in Writers : w # p => OnceOf(w)' /\ SpendOf(w)'
  BY <1>1, <1>2, RestIsKept DEF RInv
<1>. QED
  BY <1>4, <1>6, <1>7, <1>8 DEF OnceInv, SpendInv

LEMMA SaveDoneOnce ==
    ASSUME RInv, NEW p \in Writers, SaveDone(p)
    PROVE  OnceInv' /\ SpendInv'
<1>. DEFINE q == saving[p]
<1>1. /\ pc[p] = "saving" /\ pending' = pending \ {q} /\ p \in Processes
      /\ stop'[p] = (stop[p] \/ Failed(inflight[p][q]))
      /\ UNCHANGED <<row, lock, cursor, todo, batch, late, capped, asked, heard>>
  BY DEF SaveDone, history, RInv, GInv, TypeOK, Processes
<1>2. q \in Query /\ inflight[p][q] \in Answers \cup Failures
      /\ inflight[p][q] \notin {"no", "none", "lost"}
  BY <1>1 DEF RInv, GInv, PoolInv, Finished, Answers, Failures
<1>3. /\ pc'[p] = "pool" /\ inflight'[p][q] = "no" /\ rows'[p][q] = inflight[p][q]
      /\ \A g \in Query : g # q => inflight'[p][g] = inflight[p][g] /\ rows'[p][g] = rows[p][g]
      /\ \A w \in Writers : w # p => pc'[w] = pc[w] /\ inflight'[w] = inflight[w]
  BY <1>1, <1>2 DEF SaveDone, Goto, RInv, GInv, TypeOK, Processes
<1>. HIDE DEF q
<1>4. OnceOf(p) /\ SpendOf(p) /\ Live(p)
  BY <1>1 DEF RInv, OnceInv, SpendInv, Live
<1>5. /\ row[q] = inflight[p][q]
      /\ \A g \in Query : g # q /\ inflight[p][g] # "no" => row[g] = "none"
  BY <1>1, <1>2, <1>4 DEF OnceOf, q
<1>6. NeverRetried' /\ NothingForgotten'
  BY <1>1, <1>2, <1>5 DEF RInv, OnceInv, NeverRetried, NothingForgotten
<1>7. OnceOf(p)'
  BY <1>1, <1>3, <1>4, <1>5 DEF OnceOf, Loading
<1>8. SpendOf(p)'
  <2>1. rows[p][q] = "none" /\ \A g \in Query : g # q => rows[p][g] = SeenRow(p, g)
    BY <1>1, <1>2, <1>4 DEF SpendOf, Asking, q
  <2>2. \A g \in Query : rows'[p][g] = SeenRow(p, g)
    BY <1>2, <1>3, <1>5, <2>1 DEF SeenRow
  <2>3. ~stop'[p] => \A g \in Query : ~Failed(rows'[p][g])
    BY <1>1, <1>3, <1>4 DEF SpendOf, Asking
  <2>4. ASSUME SmokeThrough(rows[p])
        PROVE  SmokeThrough(rows'[p])
    <3>1. Smoke \subseteq Query
      BY ConstantsAssumption DEF Smoke, Query
    <3>2. q \notin Smoke
      BY <2>1, <2>4 DEF SmokeThrough
    <3>3. \A g \in Smoke : rows'[p][g] = rows[p][g]
      BY <1>3, <3>1, <3>2
    <3>4. {g \in Smoke : rows'[p][g] = "truncated"} = {g \in Smoke : rows[p][g] = "truncated"}
      BY <3>3
    <3>. QED
      BY <2>4, <3>3, <3>4 DEF SmokeThrough
  <2>5. (\E n \in todo[p] : n \notin Smoke) => SmokeThrough(rows[p])
    BY <1>1, <1>4 DEF SpendOf, Asking
  <2>. QED
    BY <1>1, <1>3, <2>2, <2>3, <2>4, <2>5 DEF SpendOf, SeenRow
<1>9. \A w \in Writers : w # p => OnceOf(w)' /\ SpendOf(w)'
  BY <1>1, <1>3, <1>4, RestIsKept DEF RInv
<1>. QED
  BY <1>6, <1>7, <1>8, <1>9 DEF OnceInv, SpendInv

LEMMA InitOnce == Init => OnceInv /\ SpendInv
<1>. SUFFICES ASSUME Init PROVE OnceInv /\ SpendInv
  OBVIOUS
<1>1. NeverRetried /\ NothingForgotten
  BY DEF Init, NeverRetried, NothingForgotten
<1>2. \A p \in Writers : OnceOf(p) /\ SpendOf(p)
  BY RestIsSafe DEF Init, Live, Idle, Writers, Processes
<1>. QED
  BY <1>1, <1>2 DEF OnceInv, SpendInv

\* Without readers every step preserves the whole invariant.
LEMMA NextOnce == Readers = {} => (RInv /\ [Next]_vars => RInv')
<1>. SUFFICES ASSUME Readers = {}, RInv, [Next]_vars PROVE RInv'
  OBVIOUS
<1>0. Processes = Writers
  BY DEF Processes
<1>1. GInv'
  BY NextKeeps DEF RInv
<1>2. CASE UNCHANGED vars
  <2>1. OnceInv' /\ SpendInv'
    BY <1>2 DEF vars, files, load, pool, history, RInv, OnceInv, SpendInv, NeverRetried,
       NothingForgotten, OnceOf, SpendOf, Loading, Asking, SeenRow
  <2>. QED
    BY <1>1, <2>1 DEF RInv
<1>3. CASE Next
  <2>0. PICK p \in Writers :
            \/ EnterRun(p) \/ EnterStatus(p) \/ MainStep(p) \/ Deadline(p) \/ Crash(p)
            \/ \E q \in Query : Worker(p, q)
    BY <1>0, <1>3 DEF Next
  <2>1. ~EnterStatus(p)
    BY DEF EnterStatus
  <2>2. ASSUME StatusDone(p) \/ Refuse(p) \/ PoolDone(p) \/ Crash(p) PROVE OnceInv' /\ SpendInv'
    <3>1. UNCHANGED <<files, history>> /\ \E place \in {"idle", "again"} : LeaveTo(p, place)
      BY <2>2 DEF StatusDone, Refuse, PoolDone, Crash, Leave
    <3>. QED
      BY <3>1, LeaveToOnce
  <2>3. ASSUME EnterRun(p) \/ Look(p) \/ Convert(p) \/ Clear(p) \/ Deadline(p)
        PROVE  OnceInv' /\ SpendInv'
    BY <1>0, <2>3, EnterRunOnce, LookOnce, ConvertOnce, ClearOnce, DeadlineOnce
  <2>4. ASSUME NEW maxNew \in BOOLEAN, StartPool(p, maxNew) PROVE OnceInv' /\ SpendInv'
    BY <2>4, StartPoolOnce
  <2>5. ASSUME MarkPending(p) \/ SaveDone(p) PROVE OnceInv' /\ SpendInv'
    BY <2>5, MarkPendingOnce, SaveDoneOnce
  <2>6. ASSUME NEW q \in Query, SaveRow(p, q) \/ Worker(p, q) PROVE OnceInv' /\ SpendInv'
    BY <2>6, SaveRowOnce, AskOnce, AnswerOnce DEF Worker
  <2>7. OnceInv' /\ SpendInv'
    BY <2>0, <2>1, <2>2, <2>3, <2>4, <2>5, <2>6 DEF MainStep
  <2>. QED
    BY <1>1, <2>7 DEF RInv
<1>. QED
  BY <1>2, <1>3

\* RInv holds in every reachable state of the writers alone.
THEOREM LockedInvariant == Readers = {} => (Spec => []RInv)
<1>. SUFFICES ASSUME Readers = {} PROVE Spec => []RInv
  OBVIOUS
<1>1. Init => RInv
  BY InitGInv, InitOnce DEF RInv
<1>2. RInv /\ [Next]_vars => RInv'
  BY NextOnce
<1>. QED
  BY <1>1, <1>2, PTL DEF Spec

\* One request per query: without a lockless reader nothing is ever sent twice.
THEOREM OneRequest == Readers = {} => (Spec => []NeverRetried)
<1>. SUFFICES ASSUME Readers = {} PROVE Spec => []NeverRetried
  OBVIOUS
<1>1. RInv => NeverRetried
  BY DEF RInv, OnceInv
<1>2. Spec => []RInv
  BY LockedInvariant
<1>. QED
  BY <1>1, <1>2, PTL

\* Without a lockless reader, what was sent always has its marker or its row.
THEOREM SentIsFound == Readers = {} => (Spec => []NothingForgotten)
<1>. SUFFICES ASSUME Readers = {} PROVE Spec => []NothingForgotten
  OBVIOUS
<1>1. RInv => NothingForgotten
  BY DEF RInv, OnceInv
<1>2. Spec => []RInv
  BY LockedInvariant
<1>. QED
  BY <1>1, <1>2, PTL

\* The only steps that write a row, Convert and SaveRow, find none there.
LEMMA StepKeepsRows ==
    Readers = {} =>
        (RInv /\ [Next]_vars => [\A q \in Query : row[q] # "none" => row'[q] = row[q]]_vars)
<1>. SUFFICES ASSUME Readers = {}, RInv, Next
              PROVE  \A q \in Query : row[q] # "none" => row'[q] = row[q]
  OBVIOUS
<1>1. PICK p \in Writers :
            \/ EnterRun(p) \/ EnterStatus(p) \/ MainStep(p) \/ Deadline(p) \/ Crash(p)
            \/ \E q \in Query : Worker(p, q)
  BY DEF Next, Processes
<1>2. OnceOf(p) /\ p \in Processes
  BY DEF RInv, OnceInv, Processes
<1>3. CASE Convert(p)
  <2>1. pc[p] = "converting" /\ row' = [row EXCEPT ![cursor[p]] = "lost"]
    BY <1>3 DEF Convert
  <2>2. row[cursor[p]] = "none"
    BY <1>2, <2>1 DEF OnceOf
  <2>. QED
    BY <2>1, <2>2 DEF RInv, GInv, TypeOK
<1>4. ASSUME NEW n \in Query, SaveRow(p, n)
      PROVE  \A q \in Query : row[q] # "none" => row'[q] = row[q]
  <2>1. pc[p] = "pool" /\ inflight[p][n] # "no" /\ row' = [row EXCEPT ![n] = inflight[p][n]]
    BY <1>2, <1>4, SaveRowEffect DEF RInv, Answers, Failures
  <2>2. row[n] = "none"
    BY <1>2, <2>1 DEF OnceOf
  <2>. QED
    BY <2>1, <2>2 DEF RInv, GInv, TypeOK
<1>5. ASSUME ~Convert(p), \A q \in Query : ~SaveRow(p, q) PROVE UNCHANGED row
  BY <1>1, <1>5 DEF MainStep, EnterRun, EnterStatus, Look, Clear, StatusDone, Refuse, StartPool,
     MarkPending, SaveDone, PoolDone, Deadline, Crash, Worker, Ask, Answer, files
<1>. QED
  BY <1>3, <1>4, <1>5

\* Evidence is append-only without a lockless reader: no row is ever replaced.
THEOREM RowsStay == Readers = {} => (Spec => RowsFinal)
<1>. SUFFICES ASSUME Readers = {} PROVE Spec => RowsFinal
  OBVIOUS
<1>1. RInv /\ [Next]_vars => [\A q \in Query : row[q] # "none" => row'[q] = row[q]]_vars
  BY StepKeepsRows
<1>2. Spec => []RInv
  BY LockedInvariant
<1>. QED
  BY <1>1, <1>2, PTL DEF Spec, RowsFinal

\* A new marker is MarkPending's, by a run that has not stopped and has looked at
\* every row.
LEMMA StepSpendsWell ==
    Readers = {} =>
        (RInv /\ [Next]_vars =>
            [\A n \in pending' \ pending :
               /\ \A q \in Query : Failed(row[q]) => row[q] = "lost" /\ lock \in Resumers
               /\ n \notin Smoke => TruncatedSmoke <= 1 /\ \A q \in Smoke : row[q] # "none"]_vars)
<1>. SUFFICES ASSUME Readers = {}, RInv, Next, NEW n \in pending' \ pending
              PROVE  /\ \A q \in Query : Failed(row[q]) => row[q] = "lost" /\ lock \in Resumers
                     /\ n \notin Smoke => TruncatedSmoke <= 1 /\ \A q \in Smoke : row[q] # "none"
  OBVIOUS
<1>1. PICK p \in Writers :
            \/ EnterRun(p) \/ EnterStatus(p) \/ MainStep(p) \/ Deadline(p) \/ Crash(p)
            \/ \E q \in Query : Worker(p, q)
  BY DEF Next, Processes
<1>2. MarkPending(p)
  <2>1. ~(pending' \subseteq pending)
    OBVIOUS
  <2>. QED
    BY <1>1, <2>1 DEF MainStep, EnterRun, EnterStatus, Look, Convert, Clear, StatusDone, Refuse, StartPool,
       SaveRow, SaveDone, PoolDone, Deadline, Crash, Worker, Ask, Answer, files
<1>3. pc[p] = "pool" /\ ~stop[p] /\ todo[p] # {} /\ pending' = pending \cup {Min(todo[p])}
  BY <1>2 DEF MarkPending, MayStart, Starting
<1>4. n \in todo[p]
  <2>1. todo[p] \in SUBSET Query
    BY DEF RInv, GInv, TypeOK, Processes
  <2>2. n = Min(todo[p])
    BY <1>3
  <2>. QED
    BY <1>3, <2>1, <2>2, FirstOfQueue
<1>5. lock = p
  BY <1>3 DEF RInv, GInv, LockInv, Live
<1>6. /\ \A q \in Query : rows[p][q] = SeenRow(p, q) /\ ~Failed(rows[p][q])
      /\ n \notin Smoke => SmokeThrough(rows[p])
  BY <1>3, <1>4 DEF RInv, SpendInv, SpendOf, Asking
<1>7. \A q \in Query : Failed(row[q]) => row[q] = "lost" /\ p \in Resumers
  BY <1>6 DEF SeenRow
<1>8. ASSUME n \notin Smoke
      PROVE  TruncatedSmoke <= 1 /\ \A q \in Smoke : row[q] # "none"
  <2>1. \A q \in Smoke : rows[p][q] = SeenRow(p, q)
    BY <1>6, ConstantsAssumption DEF Smoke, Query
  <2>2. {q \in Smoke : row[q] = "truncated"} = {q \in Smoke : rows[p][q] = "truncated"}
    BY <2>1 DEF SeenRow
  <2>. QED
    BY <1>6, <1>8, <2>1, <2>2 DEF SmokeThrough, TruncatedSmoke, SeenRow
<1>. QED
  BY <1>5, <1>7, <1>8

\* Without a lockless reader no query is started while a failure nobody has
\* accepted is on disk, and none past the smoke before the smoke is through.
THEOREM SpendingGated == Readers = {} => (Spec => NoSpendAfterFailure)
<1>. SUFFICES ASSUME Readers = {} PROVE Spec => NoSpendAfterFailure
  OBVIOUS
<1>1. RInv /\ [Next]_vars =>
        [\A n \in pending' \ pending :
           /\ \A q \in Query : Failed(row[q]) => row[q] = "lost" /\ lock \in Resumers
           /\ n \notin Smoke => TruncatedSmoke <= 1 /\ \A q \in Smoke : row[q] # "none"]_vars
  BY StepSpendsWell
<1>2. Spec => []RInv
  BY LockedInvariant
<1>. QED
  BY <1>1, <1>2, PTL DEF Spec, NoSpendAfterFailure

=============================================================================
