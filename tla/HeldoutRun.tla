------------------------------ MODULE HeldoutRun ------------------------------
(***************************************************************************)
(* scripts/heldout_v3_inference.py and the wrapper heldout_v3_resume.py:   *)
(* one model answers a fixed schedule of queries through a pool of worker  *)
(* threads.                                                                *)
(*                                                                         *)
(* Each query has a `.pending` marker while it is in flight and a row file *)
(* for good.  load_rows turns a marker without a row into a permanent      *)
(* "lost in flight" row, so that nothing is asked twice.  `run` loads,     *)
(* gates and asks under a lock; `status`, `analyze` and the later analysis *)
(* scripts call the same load_rows without it.                             *)
(*                                                                         *)
(* A row is the worth of its answer; the oracle, the prompts and the       *)
(* receipts, the same for every row, are left out.                         *)
(***************************************************************************)
EXTENDS Integers, FiniteSets, FiniteSetsExt

CONSTANTS
    Runners,        \* processes that execute `run`
    Resumers,       \* processes that execute `run` through heldout_v3_resume
    Readers,        \* processes that execute `status`
    Queries,        \* len(schedule)
    SmokeQueries,   \* cfg['inference']['smoke_queries']
    Concurrency,    \* cfg['inference']['concurrency']
    NoOne

ASSUME ConstantsAssumption ==
    /\ Queries \in Nat \ {0} /\ SmokeQueries \in 1 .. Queries /\ Concurrency \in Nat \ {0}
    /\ Runners \cap Resumers = {} /\ (Runners \cup Resumers) \cap Readers = {}
    /\ NoOne \notin Runners \cup Resumers \cup Readers

Writers == Runners \cup Resumers
Processes == Writers \cup Readers
Query == 0 .. Queries - 1

Answers == {"answer", "truncated"}
\* ask() returned without a response, or with one it could not use.
Failures == {"transport_failure", "ambiguous_query"}
Rows == Answers \cup Failures \cup {"lost"}
Failed(r) == r \in Failures \cup {"lost"}

VARIABLES
    row, pending,                   \* the files
    lock,
    pc, cursor,                     \* a process and its place in load_rows
    rows, todo, inflight,           \* a run: its rows, its queue, its futures,
    batch, saving,                  \* the futures wait() returned, the one being saved
    stop, late, capped,             \* the stop event, the deadline, --max-new
    asked, heard                    \* history: requests sent, responses received

files == <<row, pending>>
load == <<pc, cursor, rows>>
pool == <<todo, inflight, batch, saving, stop, late, capped>>
history == <<asked, heard>>
vars == <<files, lock, load, pool, history>>

NoRows == [q \in Query |-> "none"]
Idle == [q \in Query |-> "no"]

Init ==
    /\ row = NoRows
    /\ pending = {}
    /\ lock = NoOne
    /\ pc = [p \in Processes |-> "idle"]
    /\ cursor = [p \in Processes |-> 0]
    /\ rows = [p \in Processes |-> NoRows]
    /\ todo = [p \in Processes |-> {}]
    /\ inflight = [p \in Processes |-> Idle]
    /\ batch = [p \in Processes |-> {}]
    /\ saving = [p \in Processes |-> 0]
    /\ stop = [p \in Processes |-> FALSE]
    /\ late = [p \in Processes |-> FALSE]
    /\ capped = [p \in Processes |-> FALSE]
    /\ asked = [q \in Query |-> 0]
    /\ heard = NoRows

Goto(p, place) == pc' = [pc EXCEPT ![p] = place]

\* The process ends (or its run() returns, at `place`): lock, threads and memory
\* are gone.
LeaveTo(p, place) ==
    /\ Goto(p, place)
    /\ lock' = IF lock = p THEN NoOne ELSE lock
    /\ cursor' = [cursor EXCEPT ![p] = 0]
    /\ rows' = [rows EXCEPT ![p] = NoRows]
    /\ todo' = [todo EXCEPT ![p] = {}]
    /\ inflight' = [inflight EXCEPT ![p] = Idle]
    /\ batch' = [batch EXCEPT ![p] = {}]
    /\ saving' = [saving EXCEPT ![p] = 0]
    /\ stop' = [stop EXCEPT ![p] = FALSE]
    /\ late' = [late EXCEPT ![p] = FALSE]
    /\ capped' = [capped EXCEPT ![p] = FALSE]
Leave(p) == LeaveTo(p, "idle")

-----------------------------------------------------------------------------
(* load_rows *)

\* `run` is entered under the lock, and again after a passed smoke; `status`
\* takes no lock.
EnterRun(p) ==
    /\ p \in Writers
    /\ pc[p] \in {"idle", "again"} /\ lock = NoOne
    /\ lock' = p
    /\ Goto(p, "loading")
    /\ UNCHANGED <<files, cursor, rows, pool, history>>

EnterStatus(p) ==
    /\ p \in Readers
    /\ pc[p] = "idle"
    /\ Goto(p, "loading")
    /\ UNCHANGED <<files, lock, cursor, rows, pool, history>>

\* Bug: every marker counts as an orphan.
Look_AnyMarker(p) ==
    LET q == cursor[p] IN
    /\ pc[p] = "loading" /\ q < Queries
    /\ Goto(p, IF q \in pending THEN "converting" ELSE "clearing")
    /\ UNCHANGED <<files, lock, cursor, rows, pool, history>>

\* The next query: is there a marker without a row?
Look(p) ==
    LET q == cursor[p] IN
    /\ pc[p] = "loading" /\ q < Queries
    /\ Goto(p, IF q \in pending /\ row[q] = "none" THEN "converting" ELSE "clearing")
    /\ UNCHANGED <<files, lock, cursor, rows, pool, history>>

\* Bug: an orphaned marker is dropped, and its query asked again.
Convert_Drops(p) ==
    /\ pc[p] = "converting"
    /\ Goto(p, "clearing")
    /\ UNCHANGED <<files, lock, cursor, rows, pool, history>>

\* Bug: the resume wrapper's masked row is what is written.
Convert_Masked(p) ==
    /\ pc[p] = "converting"
    /\ row' = [row EXCEPT ![cursor[p]] = "accepted"]
    /\ Goto(p, "clearing")
    /\ UNCHANGED <<pending, lock, cursor, rows, pool, history>>

\* An orphaned marker becomes a permanent row.
Convert(p) ==
    /\ pc[p] = "converting"
    /\ row' = [row EXCEPT ![cursor[p]] = "lost"]
    /\ Goto(p, "clearing")
    /\ UNCHANGED <<pending, lock, cursor, rows, pool, history>>

\* The marker is looked for again, and removed; then the row is read.
Clear(p) ==
    LET q == cursor[p] IN
    /\ pc[p] = "clearing"
    /\ pending' = pending \ {q}
    /\ rows' = [rows EXCEPT ![p][q] = row[q]]
    /\ cursor' = [cursor EXCEPT ![p] = q + 1]
    /\ Goto(p, "loading")
    /\ UNCHANGED <<row, lock, pool, history>>

Loaded(p) == pc[p] = "loading" /\ cursor[p] = Queries

StatusDone(p) ==
    /\ Loaded(p) /\ p \in Readers
    /\ Leave(p)
    /\ UNCHANGED <<files, history>>

-----------------------------------------------------------------------------
(* run: the gates *)

\* masked_rows: with the resume wrapper a person has named exactly the failed
\* rows, and all of them are lost in flight.
Accepted(p) == p \in Resumers /\ \E q \in Query : rows[p][q] = "lost"

\* The rows as the run sees them, the accepted ones no longer failures.
Seen(p) == [q \in Query |-> IF p \in Resumers /\ rows[p][q] = "lost" THEN "accepted" ELSE rows[p][q]]

\* None until every smoke query has its row; at most one of them truncated.
SmokeGate(r) ==
    LET smoke == 0 .. SmokeQueries - 1 IN
    IF \E q \in smoke : r[q] = "none" THEN "none"
    ELSE IF (\E q \in smoke : Failed(r[q])) \/ Cardinality({q \in smoke : r[q] = "truncated"}) > 1
    THEN "failed" ELSE "passed"

\* An unaccepted failure, or a failed smoke, ends the run before it asks.
Admits(p) ==
    /\ p \in Resumers => Accepted(p)
    /\ \A q \in Query : ~Failed(Seen(p)[q])
    /\ SmokeGate(Seen(p)) # "failed"

Refuse(p) ==
    /\ Loaded(p) /\ p \in Writers /\ ~Admits(p)
    /\ Leave(p)
    /\ UNCHANGED <<files, history>>

\* Bug: every round is a smoke round.
StartPool_SmokeOnly(p, maxNew) ==
    LET round == {q \in 0 .. SmokeQueries - 1 : rows[p][q] = "none"} IN
    /\ Loaded(p) /\ p \in Writers /\ Admits(p)
    /\ rows' = [rows EXCEPT ![p] = Seen(p)]
    /\ todo' = [todo EXCEPT ![p] = round]
    /\ capped' = [capped EXCEPT ![p] = maxNew]
    /\ Goto(p, "pool")
    /\ UNCHANGED <<files, lock, cursor, inflight, batch, saving, stop, late, history>>

\* The queue: smoke first; with --max-new one query at a time (a bound on the
\* values of --max-new).
StartPool(p, maxNew) ==
    LET missing == {q \in Query : rows[p][q] = "none"}
        round == IF SmokeGate(Seen(p)) = "none" THEN {q \in missing : q < SmokeQueries} ELSE missing
    IN
    /\ Loaded(p) /\ p \in Writers /\ Admits(p)
    /\ rows' = [rows EXCEPT ![p] = Seen(p)]
    /\ todo' = [todo EXCEPT ![p] = IF maxNew /\ round # {} THEN {Min(round)} ELSE round]
    /\ capped' = [capped EXCEPT ![p] = maxNew]
    /\ Goto(p, "pool")
    /\ UNCHANGED <<files, lock, cursor, inflight, batch, saving, stop, late, history>>

-----------------------------------------------------------------------------
(* run: the pool *)

Busy(p) == {q \in Query : inflight[p][q] # "no"}

\* The main thread is in its inner loop: a thread is free, and wait()'s futures are saved.
Starting(p) == Cardinality(Busy(p)) < Concurrency /\ batch[p] = {} /\ todo[p] # {}

\* Bug: the stop event is not looked at.
MayStart_GoesOn(p) == Starting(p) /\ ~late[p]

MayStart(p) == Starting(p) /\ ~stop[p] /\ ~late[p]

\* deadline_ok turns false, once.
Deadline(p) ==
    /\ pc[p] = "pool" /\ ~late[p]
    /\ late' = [late EXCEPT ![p] = TRUE]
    /\ UNCHANGED <<files, lock, load, todo, inflight, batch, saving, stop, capped, history>>

\* Bug: the query is submitted before its marker is written (at its answer).
MarkPending_Late(p) ==
    LET q == Min(todo[p]) IN
    /\ pc[p] = "pool" /\ MayStart(p)
    /\ todo' = [todo EXCEPT ![p] = @ \ {q}]
    /\ inflight' = [inflight EXCEPT ![p][q] = "queued"]
    /\ UNCHANGED <<files, lock, load, batch, saving, stop, late, capped, history>>

\* The marker is on disk before the request can leave.
MarkPending(p) ==
    LET q == Min(todo[p]) IN
    /\ pc[p] = "pool" /\ MayStart(p)
    /\ pending' = pending \cup {q}
    /\ todo' = [todo EXCEPT ![p] = @ \ {q}]
    /\ inflight' = [inflight EXCEPT ![p][q] = "queued"]
    /\ UNCHANGED <<row, lock, load, batch, saving, stop, late, capped, history>>

\* A worker thread: ask.  (The history counts to 2, which is its bound.)
Ask(p, q) ==
    /\ inflight[p][q] = "queued"
    /\ inflight' = [inflight EXCEPT ![p][q] = "asking"]
    /\ asked' = [asked EXCEPT ![q] = Min({@ + 1, 2})]
    /\ UNCHANGED <<files, lock, load, todo, batch, saving, stop, late, capped, heard>>

Answer(p, q, r) ==
    /\ inflight[p][q] = "asking"
    /\ inflight' = [inflight EXCEPT ![p][q] = r]
    /\ heard' = [heard EXCEPT ![q] = r]
    /\ UNCHANGED <<files, lock, load, todo, batch, saving, stop, late, capped, asked>>

Finished(p) == {q \in Query : inflight[p][q] \in Answers \cup Failures}

\* With nothing to start the main thread waits, and saves every future wait() returns.
NextFuture(p, q) ==
    IF batch[p] = {}
    THEN ~MayStart(p) /\ q \in Finished(p) /\ batch' = [batch EXCEPT ![p] = Finished(p) \ {q}]
    ELSE q \in batch[p] /\ batch' = [batch EXCEPT ![p] = @ \ {q}]

\* Bug: the row of another finished future goes to this query's file.
SaveRow_Swapped(p, q) ==
    /\ pc[p] = "pool" /\ NextFuture(p, q)
    /\ row' = [row EXCEPT ![q] = inflight[p][Min(Finished(p))]]
    /\ saving' = [saving EXCEPT ![p] = q]
    /\ Goto(p, "saving")
    /\ UNCHANGED <<pending, lock, cursor, rows, todo, inflight, stop, late, capped, history>>

\* save, first half: the row file.
SaveRow(p, q) ==
    /\ pc[p] = "pool" /\ NextFuture(p, q)
    /\ row' = [row EXCEPT ![q] = inflight[p][q]]
    /\ saving' = [saving EXCEPT ![p] = q]
    /\ Goto(p, "saving")
    /\ UNCHANGED <<pending, lock, cursor, rows, todo, inflight, stop, late, capped, history>>

\* save, second half: the marker, the memory, the stop event.
SaveDone(p) ==
    LET q == saving[p] IN
    /\ pc[p] = "saving"
    /\ pending' = pending \ {q}
    /\ rows' = [rows EXCEPT ![p][q] = inflight[p][q]]
    /\ inflight' = [inflight EXCEPT ![p][q] = "no"]
    /\ stop' = [stop EXCEPT ![p] = @ \/ Failed(inflight[p][q])]
    /\ saving' = [saving EXCEPT ![p] = 0]
    /\ Goto(p, "pool")
    /\ UNCHANGED <<row, lock, cursor, todo, batch, late, capped, history>>

\* The pool is empty: run() returns, and main calls it again after a smoke that
\* passed.
PoolDone(p) ==
    /\ pc[p] = "pool" /\ ~MayStart(p) /\ Busy(p) = {}
    /\ LeaveTo(p, IF /\ SmokeGate(rows[p]) = "passed"
                     /\ \E q \in Query : rows[p][q] = "none"
                     /\ ~stop[p] /\ ~late[p] /\ ~capped[p]
                  THEN "again" ELSE "idle")
    /\ UNCHANGED <<files, history>>

\* The process dies, with its threads.  (Also: the lock is taken when main calls
\* run again, or a marker vanishes under load_rows.)
Crash(p) ==
    /\ pc[p] # "idle"
    /\ Leave(p)
    /\ UNCHANGED <<files, history>>

-----------------------------------------------------------------------------
MainStep(p) ==
    \/ Look(p) \/ Convert(p) \/ Clear(p) \/ StatusDone(p)
    \/ Refuse(p) \/ \E maxNew \in BOOLEAN : StartPool(p, maxNew)
    \/ MarkPending(p) \/ \E q \in Query : SaveRow(p, q)
    \/ SaveDone(p) \/ PoolDone(p)

Worker(p, q) == Ask(p, q) \/ \E r \in Answers \cup Failures : Answer(p, q, r)

Next == \E p \in Processes :
    \/ EnterRun(p) \/ EnterStatus(p) \/ MainStep(p) \/ Deadline(p) \/ Crash(p)
    \/ \E q \in Query : Worker(p, q)

Spec == Init /\ [][Next]_vars

\* A live process goes on, and people keep launching runs, now and then with
\* time for a query.
Fairness ==
    /\ \A p \in Processes : WF_vars(MainStep(p))
    /\ \A p \in Writers, q \in Query : WF_vars(Worker(p, q))
    /\ \A p \in Writers : SF_vars(EnterRun(p)) /\ SF_vars(MarkPending(p))

FairSpec == Spec /\ Fairness

-----------------------------------------------------------------------------
(* Properties *)

\* Every variable holds a value of its kind.
TypeOK ==
    /\ row \in [Query -> Rows \cup {"none"}]
    /\ pending \subseteq Query
    /\ lock \in Writers \cup {NoOne}
    /\ pc \in [Processes -> {"idle", "again", "loading", "converting", "clearing", "pool", "saving"}]
    /\ cursor \in [Processes -> 0 .. Queries]
    /\ rows \in [Processes -> [Query -> Rows \cup {"none", "accepted"}]]
    /\ todo \in [Processes -> SUBSET Query]
    /\ inflight \in [Processes -> [Query -> {"no", "queued", "asking"} \cup Answers \cup Failures]]
    /\ batch \in [Processes -> SUBSET Query]
    /\ saving \in [Processes -> Query]
    /\ stop \in [Processes -> BOOLEAN] /\ late \in [Processes -> BOOLEAN]
    /\ capped \in [Processes -> BOOLEAN]
    /\ asked \in [Query -> 0 .. 2] /\ heard \in [Query -> Rows \cup {"none"}]

\* "One request, never retried": whatever dies, and whoever loads the rows
\* meanwhile, no query is sent twice.
NeverRetried == \A q \in Query : asked[q] <= 1

\* A query that was sent always has its marker or its row on disk, so that a
\* dead run's queries are all found.
NothingForgotten == \A q \in Query : asked[q] > 0 => q \in pending \/ row[q] # "none"

\* Evidence is append-only: a row that is on disk is never replaced.
RowsFinal == [][\A q \in Query : row[q] # "none" => row'[q] = row[q]]_vars

Smoke == 0 .. SmokeQueries - 1
PastSmoke == \E q \in Query \ Smoke : asked[q] > 0
TruncatedSmoke == Cardinality({q \in Smoke : row[q] = "truncated"})

\* With `status` beside the run, too, an answer on disk is the last one received
\* for its query.
AnswersTruthful == \A q \in Query : row[q] \in Answers => heard[q] = row[q]

\* "smoke first": no query past the smoke is sent unless the smoke queries all
\* have rows, with no execution failure and at most one truncation.
SmokePasses ==
    PastSmoke =>
        /\ \A q \in Smoke : row[q] # "none" /\ ~Failed(row[q])
        /\ TruncatedSmoke <= 1

\* "inspect before spending more compute": no query is started while a row on
\* disk is a failure nobody has accepted, and none past the smoke, with the
\* wrapper either, while a smoke query has no row or two were truncated.
NoSpendAfterFailure ==
    [][\A n \in pending' \ pending :
          /\ \A q \in Query : Failed(row[q]) => row[q] = "lost" /\ lock \in Resumers
          /\ n \notin Smoke => TruncatedSmoke <= 1 /\ \A q \in Smoke : row[q] # "none"]_vars

\* Once no run dies while it loads, the schedule is finished, or stopped by a
\* failure or a failed smoke, whatever dies later on.
Finishes ==
    <>[][\A p \in Writers :
            pc[p] \in {"loading", "converting", "clearing"} /\ pc'[p] = "idle" => Loaded(p) /\ ~Admits(p)]_vars =>
        <>(\/ \A q \in Query : row[q] # "none"
           \/ \E q \in Query : Failed(row[q])
           \/ SmokeGate(row) = "failed")

=============================================================================
