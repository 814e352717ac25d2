---------------------------- MODULE BatchJournal ----------------------------
(***************************************************************************)
(* scripts/confirmatory_batch.py: the exact-once continuation of a         *)
(* confirmation run over several server sessions.                          *)
(*                                                                         *)
(* The evidence is a chain of files in one directory: a journal, one       *)
(* report per session and one file per recorded row.  Every file is        *)
(* replaced atomically, but an operation writes several of them, and the   *)
(* process can die between any two writes.  Operators run `run` (ask the   *)
(* model up to max_new queries) and `resolve` (account for what a dead run *)
(* left behind, without asking) in any order; a lock that dies with its    *)
(* process keeps two of them from writing at once.                         *)
(*                                                                         *)
(* A SHA-256 of a file is modelled by the content it stands for.  A row is *)
(* its query index and the worth of its answer; prompts, scores and the    *)
(* frozen metadata, equal in every file, are left out.                     *)
(***************************************************************************)
EXTENDS Integers, Sequences, FiniteSets

CONSTANTS
    Operators,          \* processes that may run the script
    ExpectedQueries,    \* len(schedule); the parent report covers query 0
    MaxBatch,           \* amendment["batch"]["maximum_new_queries"]
    MaxEmptySessions,   \* bound: sessions that end before their first query
    NoOne,              \* no process holds the lock
    NoReport            \* a session report that does not exist

Query == 1 .. ExpectedQueries - 1
SessionIds == 1 .. ExpectedQueries - 1 + MaxEmptySessions

Replies == {"legal", "illegal", "transport_failure"}
Results == Replies \cup {"ambiguous_query"}
Row == [index : Query, result : Results]

Report == [start     : 1 .. ExpectedQueries,
           requested : 1 .. MaxBatch,
           planned   : 1 .. ExpectedQueries,
           rows      : Seq(Row),             \* completed_rows
           pending   : Query \cup {0},       \* 0 for None
           complete  : BOOLEAN,
           finalized : BOOLEAN]

Journal == [sessions : Seq([start : 1 .. ExpectedQueries,
                            end   : 1 .. ExpectedQueries,
                            sha   : Report]),
            active   : SessionIds \cup {0},  \* 0 for None
            next     : 1 .. ExpectedQueries,
            complete : BOOLEAN]

ASSUME ConstantsAssumption ==
    /\ ExpectedQueries \in Nat \ {0, 1}
    /\ MaxBatch \in Nat \ {0}
    /\ MaxEmptySessions \in Nat
    /\ NoOne \notin Operators
    /\ NoReport \notin Report

VARIABLES
    journal, report, rowFile,           \* the files
    lock,                               \* who holds the journal's lock file
    pc, command, jmem, rmem, reply,     \* a process: where it is, what it runs,
                                        \* its journal, its report, its row
    asked, heard                        \* history: calls sent, replies received

disk == <<journal, report, rowFile>>
memory == <<pc, command, jmem, rmem, reply>>
vars == <<disk, lock, memory, asked, heard>>

NewJournal == [sessions |-> << >>, active |-> 0, next |-> 1, complete |-> FALSE]
NoRow == [index |-> 1, result |-> "ambiguous_query"]

-----------------------------------------------------------------------------
(* Reading the chain *)

End(r) == r.start + Len(r.rows)
Current(j) == Len(j.sessions) + 1

\* load_rows: the row files are exactly those the report lists, plus at most
\* the one of the pending query.
RowsLoad(r, files) ==
    /\ End(r) <= r.planned
    /\ \A i \in 1 .. Len(r.rows) : i <= Len(files) /\ files[i] = r.rows[i]
    /\ r.complete <=> End(r) = r.planned
    /\ r.complete => r.pending = 0
    /\ Len(files) <= Len(r.rows) + (IF r.pending = 0 THEN 0 ELSE 1)

ValidSession(r, files, requireFinalized) ==
    /\ r.requested \in 1 .. MaxBatch
    /\ r.start <= r.planned /\ r.planned <= ExpectedQueries
    /\ r.planned <= r.start + r.requested
    /\ requireFinalized => r.finalized /\ r.pending = 0
    /\ RowsLoad(r, files)
    /\ \A i \in 1 .. Len(r.rows) : r.rows[i].index = r.start + i - 1
    /\ r.finalized => r.complete /\ r.planned = End(r)

SmokeOk(rows) == \E row \in rows : row.index = 1 /\ row.result = "legal"

\* The rows of the first n sessions of journal j.
SessionRows(j, n) ==
    UNION {{r.rows[i] : i \in DOMAIN r.rows} : r \in {report[k] : k \in 1 .. n}}

ValidJournal(j) ==
    /\ \A k \in DOMAIN j.sessions :
          LET entry == j.sessions[k]
              r == report[k]
          IN  /\ r = entry.sha
              /\ entry.start = r.start /\ entry.end = End(r)
              /\ r.start = (IF k = 1 THEN 1 ELSE j.sessions[k - 1].end)
              /\ IF r.start = 1 THEN r.requested = 1
                                ELSE SmokeOk(SessionRows(j, k - 1))
              /\ ValidSession(r, rowFile[k], TRUE)
    /\ j.next = (IF j.sessions = << >> THEN 1 ELSE j.sessions[Len(j.sessions)].end)
    /\ j.complete <=> j.next = ExpectedQueries
    /\ \A s \in SessionIds : s > Current(j) => report[s] = NoReport /\ rowFile[s] = << >>

\* The report after the last journaled session, if there is one on disk.
Orphan(j) == IF Current(j) \in SessionIds THEN report[Current(j)] ELSE NoReport

OrphanStatus(j, r) ==
    IF r = NoReport THEN IF j.active # 0 THEN "reserved" ELSE "none"
    ELSE IF r.finalized THEN "finalized_orphan"
    ELSE IF r.pending # 0 THEN "pending" ELSE "interrupted"

ValidOrphan(j) ==
    /\ j.active # 0 => j.active = Current(j)
    /\ Orphan(j) # NoReport => ValidSession(Orphan(j), rowFile[Current(j)], FALSE)

ChainLoads == ValidJournal(journal) /\ ValidOrphan(journal)

\* Bug: the status pass forgets a finalized session the journal lacks.
Inspect_JournalOnly ==
    LET rows == SessionRows(journal, Len(journal.sessions))
        failedSmoke == journal.next > 1 /\ ~SmokeOk(rows)
        status == OrphanStatus(journal, Orphan(journal))
        unresolved == status \in {"reserved", "pending", "interrupted"}
        complete == journal.next = ExpectedQueries /\ ~unresolved
    IN  [runnable |-> ~complete /\ ~unresolved /\ ~failedSmoke,
         complete |-> complete,
         next     |-> journal.next,
         status   |-> status,
         failures |-> \E row \in rows : row.result \in {"transport_failure", "ambiguous_query"}]

\* inspect_chain, what preflight prints.
Inspect ==
    LET r == Orphan(journal)
        status == OrphanStatus(journal, r)
        rows == SessionRows(journal, Len(journal.sessions)) \cup
                (IF r = NoReport THEN {} ELSE {r.rows[i] : i \in DOMAIN r.rows})
        virtualNext == IF status = "finalized_orphan" THEN End(r) ELSE journal.next
        unresolved == status \in {"reserved", "pending", "interrupted"}
        complete == virtualNext = ExpectedQueries /\ ~unresolved
        failedSmoke == virtualNext > 1 /\ ~SmokeOk(rows)
    IN  [runnable |-> ~complete /\ ~unresolved /\ ~failedSmoke,
         complete |-> complete,
         next     |-> virtualNext,
         status   |-> status,
         failures |-> \E row \in rows : row.result \in {"transport_failure", "ambiguous_query"}]

\* Bug: only transport failures are counted as execution failures.
PrimaryEvidence_TransportOnly ==
    /\ Inspect.status = "none"
    /\ journal.next = ExpectedQueries
    /\ SmokeOk(SessionRows(journal, Len(journal.sessions)))
    /\ ~\E row \in SessionRows(journal, Len(journal.sessions)) : row.result = "transport_failure"

\* analyze_chain: a chain with no unjournaled session, every query covered and
\* a passing smoke; the validity gates further require zero failures.
PrimaryEvidence ==
    /\ Inspect.status = "none"
    /\ journal.next = ExpectedQueries
    /\ SmokeOk(SessionRows(journal, Len(journal.sessions)))
    /\ ~Inspect.failures

-----------------------------------------------------------------------------
Init ==
    /\ journal = NewJournal
    /\ report = [s \in SessionIds |-> NoReport]
    /\ rowFile = [s \in SessionIds |-> << >>]
    /\ lock = NoOne
    /\ pc = [p \in Operators |-> "idle"]
    /\ command = [p \in Operators |-> "run"]
    /\ jmem = [p \in Operators |-> NewJournal]
    /\ rmem = [p \in Operators |-> NoReport]
    /\ reply = [p \in Operators |-> NoRow]
    /\ asked = [g \in Query |-> 0]
    /\ heard = [g \in Query |-> "nothing"]

LockFree == lock = NoOne
At(p, place) == pc[p] = place
Goto(p, place) == pc' = [pc EXCEPT ![p] = place]

\* The process ends, in whatever way: its memory and its lock are gone.
Leave(p) ==
    /\ lock' = NoOne
    /\ Goto(p, "idle")
    /\ command' = [command EXCEPT ![p] = "run"]
    /\ jmem' = [jmem EXCEPT ![p] = NewJournal]
    /\ rmem' = [rmem EXCEPT ![p] = NoReport]
    /\ reply' = [reply EXCEPT ![p] = NoRow]

\* _atomic_write_json of the two kinds of mutable file.
SaveJournal(p, j) ==
    /\ journal' = j
    /\ jmem' = [jmem EXCEPT ![p] = j]
SaveReport(p, r) ==
    /\ report' = [report EXCEPT ![Current(jmem[p])] = r]
    /\ rmem' = [rmem EXCEPT ![p] = r]

Status(p) == OrphanStatus(jmem[p], rmem[p])

\* Bug: the command does not wait for the lock.
Enter_NoLock(p, c) ==
    /\ At(p, "idle")
    /\ ChainLoads
    /\ lock' = p
    /\ Goto(p, "loaded")
    /\ command' = [command EXCEPT ![p] = c]
    /\ jmem' = [jmem EXCEPT ![p] = journal]
    /\ rmem' = [rmem EXCEPT ![p] = Orphan(journal)]
    /\ UNCHANGED <<disk, reply, asked, heard>>

\* Take the lock (or fail at once), load and validate the chain.  A chain that
\* does not validate raises before anything is written.
Enter(p, c) ==
    /\ At(p, "idle")
    /\ LockFree
    /\ ChainLoads
    /\ lock' = p
    /\ Goto(p, "loaded")
    /\ command' = [command EXCEPT ![p] = c]
    /\ jmem' = [jmem EXCEPT ![p] = journal]
    /\ rmem' = [rmem EXCEPT ![p] = Orphan(journal)]
    /\ UNCHANGED <<disk, reply, asked, heard>>

\* _append_finalized: the journal with the finalized report r as its next entry.
Appended(j, r) ==
    [sessions |-> Append(j.sessions, [start |-> j.next, end |-> j.next + Len(r.rows), sha |-> r]),
     active   |-> 0,
     next     |-> j.next + Len(r.rows),
     complete |-> j.next + Len(r.rows) = ExpectedQueries]

-----------------------------------------------------------------------------
(* run_batch *)

\* Bug: after adopting, the run goes on with the next index it loaded.
RunAdoptOrphan_StaleNext(p) ==
    /\ At(p, "loaded") /\ command[p] = "run" /\ Status(p) = "finalized_orphan"
    /\ journal' = Appended(jmem[p], report[Current(jmem[p])])
    /\ jmem' = [jmem EXCEPT ![p] = [journal' EXCEPT !.next = jmem[p].next]]
    /\ rmem' = [rmem EXCEPT ![p] = NoReport]
    /\ UNCHANGED <<report, rowFile, lock, pc, command, reply, asked, heard>>

RunAdoptOrphan(p) ==
    /\ At(p, "loaded") /\ command[p] = "run" /\ Status(p) = "finalized_orphan"
    /\ rmem[p].start = jmem[p].next
    /\ SaveJournal(p, Appended(jmem[p], report[Current(jmem[p])]))
    /\ rmem' = [rmem EXCEPT ![p] = NoReport]
    /\ UNCHANGED <<report, rowFile, lock, pc, command, reply, asked, heard>>

\* Bug: the smoke's verdict is not looked at again.
GatePasses_NoSmoke(j, maxNew) ==
    /\ ~j.complete
    /\ j.next = 1 => maxNew = 1

\* The first continuation session is a one-query smoke; no later session
\* without a passing one.
GatePasses(j, maxNew) ==
    /\ ~j.complete
    /\ IF j.next = 1 THEN maxNew = 1
                     ELSE SmokeOk(SessionRows(j, Len(j.sessions)))

\* Bug: the planned end is not capped at the end of the schedule.
AtMostEnd_NoCap(n) == n

AtMostEnd(n) == IF n > ExpectedQueries THEN ExpectedQueries ELSE n

NewReport(start, maxNew) ==
    [start |-> start, requested |-> maxNew, planned |-> AtMostEnd(start + maxNew),
     rows |-> << >>, pending |-> 0, complete |-> FALSE, finalized |-> FALSE]

RunReserve(p, maxNew) ==
    LET j == jmem[p] IN
    /\ At(p, "loaded") /\ command[p] = "run" /\ Status(p) = "none"
    /\ GatePasses(j, maxNew)
    /\ Current(j) \in SessionIds
    /\ report[Current(j)] = NoReport /\ rowFile[Current(j)] = << >>
    /\ SaveJournal(p, [j EXCEPT !.active = Current(j)])
    /\ rmem' = [rmem EXCEPT ![p] = NewReport(j.next, maxNew)]
    /\ Goto(p, "reserved")
    /\ UNCHANGED <<report, rowFile, lock, command, reply, asked, heard>>

OpenSession(p) ==
    /\ At(p, "reserved")
    /\ SaveReport(p, rmem[p])
    /\ Goto(p, "loop")
    /\ UNCHANGED <<journal, rowFile, lock, command, jmem, reply, asked, heard>>

\* Bound: the environment cuts sessions short before their first query only
\* MaxEmptySessions times.
MayEndEmpty(p) ==
    Len(rmem[p].rows) = 0 =>
        Cardinality({k \in DOMAIN jmem[p].sessions : jmem[p].sessions[k].start = jmem[p].sessions[k].end})
            < MaxEmptySessions

Exhausted(p) == End(rmem[p]) = rmem[p].planned

MarkPending(p) ==
    /\ At(p, "loop") /\ ~Exhausted(p)
    /\ SaveReport(p, [rmem[p] EXCEPT !.pending = End(rmem[p])])
    /\ Goto(p, "marked")
    /\ UNCHANGED <<journal, rowFile, lock, command, jmem, reply, asked, heard>>

\* The planned queries are done, or too little time is left for another one.
StopLoop(p) ==
    /\ At(p, "loop")
    /\ Exhausted(p) \/ MayEndEmpty(p)
    /\ Goto(p, "closing")
    /\ UNCHANGED <<disk, lock, command, jmem, rmem, reply, asked, heard>>

Ask(p) ==
    /\ At(p, "marked")
    /\ asked' = [asked EXCEPT ![rmem[p].pending] = @ + 1]
    /\ Goto(p, "inflight")
    /\ UNCHANGED <<disk, lock, command, jmem, rmem, reply, heard>>

Receive(p, r) ==
    /\ At(p, "inflight")
    /\ reply' = [reply EXCEPT ![p] = [index |-> rmem[p].pending, result |-> r]]
    /\ heard' = [heard EXCEPT ![rmem[p].pending] = r]
    /\ Goto(p, "answered")
    /\ UNCHANGED <<disk, lock, command, jmem, rmem, asked>>

\* _write_row, first half: the row's own file.
WriteRow(p) ==
    LET s == Current(jmem[p]) IN
    /\ At(p, "answered")
    /\ Len(rowFile[s]) = Len(rmem[p].rows)
    /\ rowFile' = [rowFile EXCEPT ![s] = Append(@, reply[p])]
    /\ Goto(p, "rowSaved")
    /\ UNCHANGED <<journal, report, lock, command, jmem, rmem, reply, asked, heard>>

\* _write_row, second half: the report that lists it.
RecordRow(p) ==
    LET r == rmem[p] IN
    /\ At(p, "rowSaved")
    /\ SaveReport(p, [r EXCEPT !.rows = Append(@, reply[p]),
                               !.pending = 0,
                               !.complete = End(r) + 1 = r.planned])
    /\ Goto(p, IF command[p] = "resolve" \/ reply[p].result = "transport_failure"
               THEN "closing" ELSE "loop")
    /\ UNCHANGED <<journal, rowFile, lock, command, jmem, reply, asked, heard>>

\* Bug: the planned bound is not narrowed to the covered queries.
Finalize_KeepsPlan(p) ==
    /\ At(p, "closing") /\ rmem[p].pending = 0
    /\ SaveReport(p, [rmem[p] EXCEPT !.complete = TRUE, !.finalized = TRUE])
    /\ Goto(p, "finalized")
    /\ UNCHANGED <<journal, rowFile, lock, command, jmem, reply, asked, heard>>

Finalize(p) ==
    /\ At(p, "closing") /\ rmem[p].pending = 0
    /\ SaveReport(p, [rmem[p] EXCEPT !.planned = End(rmem[p]),
                                     !.complete = TRUE,
                                     !.finalized = TRUE])
    /\ Goto(p, "finalized")
    /\ UNCHANGED <<journal, rowFile, lock, command, jmem, reply, asked, heard>>

AppendFinalized(p) ==
    /\ At(p, "finalized")
    /\ ValidSession(rmem[p], rowFile[Current(jmem[p])], TRUE)
    /\ rmem[p].start = jmem[p].next
    /\ journal' = Appended(jmem[p], report[Current(jmem[p])])
    /\ Leave(p)
    /\ UNCHANGED <<report, rowFile, asked, heard>>

-----------------------------------------------------------------------------
(* resolve_active *)

Resolving(p, status) == At(p, "loaded") /\ command[p] = "resolve" /\ Status(p) = status

\* Bug: the reservation without a session is left in the journal.
ResolveReserved_Keeps(p) ==
    /\ Resolving(p, "reserved")
    /\ Leave(p)
    /\ UNCHANGED <<disk, asked, heard>>

ResolveReserved(p) ==
    /\ Resolving(p, "reserved")
    /\ journal' = [jmem[p] EXCEPT !.active = 0]
    /\ Leave(p)
    /\ UNCHANGED <<report, rowFile, asked, heard>>

ResolveFinalized(p) ==
    /\ Resolving(p, "finalized_orphan")
    /\ rmem[p].start = jmem[p].next
    /\ journal' = Appended(jmem[p], report[Current(jmem[p])])
    /\ Leave(p)
    /\ UNCHANGED <<report, rowFile, asked, heard>>

\* Bug: the in-flight marker of a lost reply is cleared instead of accounted for.
ResolvePending_Forgets(p) ==
    LET r == rmem[p]
        files == rowFile[Current(jmem[p])]
    IN
    /\ Resolving(p, "pending")
    /\ r.pending = End(r)
    /\ IF Len(files) > Len(r.rows)
       THEN /\ reply' = [reply EXCEPT ![p] = files[Len(r.rows) + 1]]
            /\ Goto(p, "rowSaved")
            /\ UNCHANGED rmem
       ELSE /\ rmem' = [rmem EXCEPT ![p].pending = 0]
            /\ Goto(p, "closing")
            /\ UNCHANGED reply
    /\ UNCHANGED <<disk, lock, command, jmem, asked, heard>>

\* _reconcile_pending: a row that reached the disk is taken as it is, a lost
\* reply becomes an ambiguous row.
ResolvePending(p) ==
    LET r == rmem[p]
        files == rowFile[Current(jmem[p])]
    IN
    /\ Resolving(p, "pending")
    /\ r.pending = End(r)
    /\ IF Len(files) > Len(r.rows)
       THEN /\ reply' = [reply EXCEPT ![p] = files[Len(r.rows) + 1]]
            /\ Goto(p, "rowSaved")
       ELSE /\ reply' = [reply EXCEPT ![p] = [index |-> r.pending, result |-> "ambiguous_query"]]
            /\ Goto(p, "answered")
    /\ UNCHANGED <<disk, lock, command, jmem, rmem, asked, heard>>

ResolveInterrupted(p) ==
    /\ Resolving(p, "interrupted")
    /\ Goto(p, "closing")
    /\ UNCHANGED <<disk, lock, command, jmem, rmem, reply, asked, heard>>

-----------------------------------------------------------------------------
(* A command that ends without effect, and a process that dies *)

\* run: unresolved session, chain complete, wrong query count, failed smoke or
\* too little time; resolve: nothing to resolve.
Refusable(p) ==
    /\ At(p, "loaded")
    /\ IF command[p] = "run" THEN Status(p) # "finalized_orphan" ELSE Status(p) = "none"

Refuse(p) ==
    /\ Refusable(p)
    /\ Leave(p)
    /\ UNCHANGED <<disk, asked, heard>>

\* A process that dies before it wrote anything has only held the lock.
Crash(p) ==
    /\ ~At(p, "idle") /\ ~At(p, "loaded")
    /\ At(p, "loop") => MayEndEmpty(p)
    /\ Leave(p)
    /\ UNCHANGED <<disk, asked, heard>>

-----------------------------------------------------------------------------
SessionStep(p) ==
    \/ OpenSession(p) \/ MarkPending(p) \/ StopLoop(p) \/ Ask(p)
    \/ \E r \in Replies : Receive(p, r)
    \/ WriteRow(p) \/ RecordRow(p) \/ Finalize(p) \/ AppendFinalized(p)

ResolveStep(p) ==
    \/ ResolveReserved(p) \/ ResolveFinalized(p)
    \/ ResolvePending(p) \/ ResolveInterrupted(p)

Step(p) == RunAdoptOrphan(p) \/ SessionStep(p) \/ ResolveStep(p)

Next ==
    \E p \in Operators :
        \/ \E c \in {"run", "resolve"} : Enter(p, c)
        \/ \E m \in 1 .. MaxBatch : RunReserve(p, m)
        \/ Step(p) \/ Refuse(p) \/ Crash(p)

Spec == Init /\ [][Next]_vars

\* A live process goes on; some operator keeps coming back with each command,
\* and now and then with enough time and the right query count.
Fairness ==
    /\ \A p \in Operators : WF_vars(Step(p) \/ Refuse(p))
    /\ \A c \in {"run", "resolve"} : SF_vars(\E p \in Operators : Enter(p, c))
    /\ SF_vars(\E p \in Operators, m \in 1 .. MaxBatch : RunReserve(p, m))

FairSpec == Spec /\ Fairness

-----------------------------------------------------------------------------
(* Properties *)

\* Every variable holds a value of its kind.
TypeOK ==
    /\ journal \in Journal
    /\ report \in [SessionIds -> Report \cup {NoReport}]
    /\ rowFile \in [SessionIds -> Seq(Row)]
    /\ lock \in Operators \cup {NoOne}
    /\ pc \in [Operators -> {"idle", "loaded", "reserved", "loop", "marked", "inflight",
                              "answered", "rowSaved", "closing", "finalized"}]
    /\ command \in [Operators -> {"run", "resolve"}]
    /\ jmem \in [Operators -> Journal]
    /\ rmem \in [Operators -> Report \cup {NoReport}]
    /\ reply \in [Operators -> Row]
    /\ asked \in [Query -> Nat]
    /\ heard \in [Query -> Replies \cup {"nothing"}]

\* A query is sent to the model at most once, whatever dies and whoever runs
\* `run` or `resolve` next ("exact-once batch continuation").
AtMostOnce == \A g \in Query : asked[g] <= 1

\* The rows on disk, in the order of their sessions.
DiskRows(g) == {k \in SessionIds : \E i \in DOMAIN rowFile[k] : rowFile[k][i].index = g}

\* No query has a row in two sessions, and a row says what was received: a
\* reply that reached the disk is never replaced by an ambiguous row, and no
\* reply is made up.
RowsTruthful ==
    /\ \A g \in Query : Cardinality(DiskRows(g)) <= 1
    /\ \A k \in SessionIds : \A i \in DOMAIN rowFile[k] :
          LET row == rowFile[k][i] IN
          row.result # "ambiguous_query" => asked[row.index] > 0 /\ heard[row.index] = row.result

\* Whatever write the process died after, the next command loads the chain:
\* the validators accept every state the program itself can leave behind.
ChainAlwaysLoads == ChainLoads

SmokeRowLegal ==
    \E k \in SessionIds : \E i \in DOMAIN rowFile[k] :
        rowFile[k][i] = [index |-> 1, result |-> "legal"]

\* "no replacement is allowed": no query after the first continuation query
\* is asked unless that one has a legal row.
SmokeGate == (\E g \in Query : g > 1 /\ asked[g] > 0) => SmokeRowLegal

\* The two readers of the chain agree: with nobody writing, preflight says
\* runnable exactly when a `run` would find nothing to resolve and a query it may
\* ask, and it counts every row on disk that no unresolved session holds.
PreflightAgreesWithRun ==
    LockFree =>
        /\ Inspect.runnable <=>
              /\ Inspect.status \in {"none", "finalized_orphan"}
              /\ Inspect.next < ExpectedQueries
              /\ Inspect.next = 1 \/ SmokeRowLegal
        /\ \A g \in Query : g < Inspect.next <=> DiskRows(g) # {} /\
                ~(Inspect.status \in {"pending", "interrupted"} /\ Current(journal) \in DiskRows(g))

\* Evidence that passes every gate of the analysis holds one received reply for
\* every query, each asked exactly once.
EvidenceSound ==
    PrimaryEvidence => \A g \in Query : asked[g] = 1 /\ heard[g] \in {"legal", "illegal"}

\* Once processes stop dying, the chain is completed or stopped by a failed
\* smoke: no state it can be left in needs more than `run` and `resolve`.
SmokeFailed ==
    journal.next > 1 /\ ~SmokeOk(SessionRows(journal, Len(journal.sessions)))
Settles ==
    <>[][\A p \in Operators : ~Crash(p)]_vars => <>(journal.complete \/ SmokeFailed)

=============================================================================
