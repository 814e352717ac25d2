------------------------- MODULE BatchJournalProofs -------------------------
(***************************************************************************)
(* TLAPS proofs about BatchJournal, for any number of operators, queries   *)
(* and sessions.                                                           *)
(*                                                                         *)
(* The first part: a query is sent to the model at most once.  The process *)
(* that holds the lock remembers the files as they are (MemInv), the one   *)
(* session the journal lacks continues it (SessionInv), and no query from  *)
(* the frontier on was ever asked, where the frontier is past the pending  *)
(* query (AskInv).  A process about to ask stands right before it          *)
(* (PlaceInv).                                                             *)
(*                                                                         *)
(* The second part is about the files: the validators accept every state   *)
(* the program can leave behind, the rows on disk are what was received    *)
(* and no query has two of them, preflight and `run` agree, the smoke      *)
(* gates every later query, evidence that passes is complete, and the      *)
(* files are an implementation of EvidenceLog.  The entries of the journal *)
(* follow one another and cover every query before `next` (EntriesInv,     *)
(* OrderInv), the open session was gated and its row files stand at their  *)
(* places (OpenInv), the holder's reply is the row it will write or has    *)
(* written (ReplyInv), and a row says what was heard (HeardInv).           *)
(***************************************************************************)
EXTENDS BatchJournal, BatchEvidence, FiniteSetTheorems, SequenceTheorems, TLAPS

Cur == Current(journal)
Open == Orphan(journal)

LockInv == \A p \in Operators : pc[p] # "idle" => lock = p

MemInv ==
    \A p \in Operators : pc[p] # "idle" =>
        /\ jmem[p] = journal
        /\ IF pc[p] = "reserved"
           THEN /\ Cur \in SessionIds
                /\ Open = NoReport
                /\ rmem[p] \in Report
                /\ rmem[p].start = journal.next
                /\ rmem[p].start <= rmem[p].planned
                /\ rmem[p].rows = << >>
                /\ rmem[p].pending = 0
           ELSE /\ rmem[p] = Open
                /\ pc[p] # "loaded" => Open # NoReport

SessionInv ==
    /\ \A s \in SessionIds : s > Cur => report[s] = NoReport
    /\ Open # NoReport =>
          /\ Open.start = journal.next
          /\ End(Open) <= Open.planned
          /\ Open.pending # 0 => /\ Open.pending = End(Open)
                                 /\ End(Open) < Open.planned

PlaceInv ==
    \A p \in Operators :
        /\ pc[p] \in {"loop", "closing", "finalized"} => Open.pending = 0
        /\ pc[p] \in {"marked", "inflight", "answered", "rowSaved"} => Open.pending # 0
        /\ pc[p] = "marked" => asked[Open.pending] = 0
        /\ pc[p] = "loaded" /\ Open # NoReport /\ Open.finalized => Open.pending = 0

\* No query from here on was ever sent.
Frontier ==
    IF Open = NoReport THEN journal.next
    ELSE IF Open.pending = 0 THEN End(Open) ELSE End(Open) + 1

AskInv ==
    \A g \in Query : asked[g] <= 1 /\ (g >= Frontier => asked[g] = 0)

IInv == TypeOK /\ LockInv /\ MemInv /\ SessionInv /\ PlaceInv /\ AskInv

-----------------------------------------------------------------------------
\* The initial files and processes satisfy the invariant.
LEMMA InitIInv == Init => IInv
<1>. SUFFICES ASSUME Init PROVE IInv
  OBVIOUS
<1>. USE ConstantsAssumption
<1>1. NewJournal \in Journal
  BY DEF NewJournal, Journal
<1>2. NoRow \in Row
  BY DEF NoRow, Row, Query, Results
<1>3. TypeOK
  BY <1>1, <1>2 DEF Init, TypeOK
<1>4. Open = NoReport /\ Cur = 1
  BY DEF Init, Open, Orphan, Cur, Current, NewJournal, SessionIds
<1>5. LockInv /\ MemInv /\ PlaceInv
  BY DEF Init, LockInv, MemInv, PlaceInv
<1>6. SessionInv
  BY <1>4 DEF Init, SessionInv
<1>7. AskInv
  BY <1>4 DEF Init, AskInv
<1>. QED
  BY <1>3, <1>5, <1>6, <1>7 DEF IInv

-----------------------------------------------------------------------------
\* What the holder of the lock knows, for the proofs of its actions.
LEMMA HolderKnows ==
    ASSUME IInv, NEW p \in Operators, pc[p] # "idle"
    PROVE  /\ lock = p
           /\ \A q \in Operators : q # p => pc[q] = "idle"
           /\ jmem[p] = journal
           /\ pc[p] # "reserved" => rmem[p] = Open
           /\ pc[p] \notin {"loaded", "reserved"} =>
                 Open # NoReport /\ Open \in Report /\ Cur \in SessionIds
BY ConstantsAssumption DEF IInv, LockInv, MemInv, TypeOK, Open, Orphan, Cur

\* A process that ends keeps the files and takes its memory away.
LEMMA LeaveKeeps ==
    ASSUME IInv, NEW p \in Operators, pc[p] # "idle", Leave(p),
           UNCHANGED <<disk, asked, heard>>
    PROVE  IInv'
<1>. USE ConstantsAssumption
<1>0. NewJournal \in Journal /\ NoRow \in Row
  BY DEF NewJournal, Journal, NoRow, Row, Query, Results
<1>1. TypeOK'
  BY <1>0 DEF IInv, TypeOK, Leave, Goto, disk
<1>2. \A q \in Operators : pc'[q] = "idle"
  BY HolderKnows DEF IInv, TypeOK, Leave, Goto
<1>3. LockInv' /\ MemInv' /\ PlaceInv'
  BY <1>2 DEF LockInv, MemInv, PlaceInv
<1>4. SessionInv'
  BY DEF IInv, SessionInv, Open, Orphan, Cur, disk
<1>5. AskInv'
  BY DEF IInv, AskInv, Frontier, Open, Orphan, Cur, disk
<1>. QED
  BY <1>1, <1>3, <1>4, <1>5 DEF IInv

LEMMA EnterKeeps ==
    ASSUME IInv, NEW p \in Operators, NEW c \in {"run", "resolve"}, Enter(p, c)
    PROVE  IInv'
<1>. USE ConstantsAssumption
<1>1. \A q \in Operators : pc[q] = "idle"
  BY DEF IInv, LockInv, Enter, LockFree
<1>2. Open' = Open /\ Cur' = Cur /\ journal' = journal /\ asked' = asked /\ report' = report
  BY DEF Enter, disk, Open, Orphan, Cur
<1>3. Open \in Report \cup {NoReport}
  BY DEF IInv, TypeOK, Open, Orphan
<1>4. TypeOK'
  BY <1>3 DEF IInv, TypeOK, Enter, Goto, disk, Open
<1>5. LockInv'
  BY <1>1 DEF IInv, TypeOK, LockInv, Enter, Goto
<1>6. MemInv'
  BY <1>1, <1>2 DEF IInv, TypeOK, MemInv, Enter, Goto, Open
<1>7. SessionInv' /\ AskInv'
  BY <1>2 DEF IInv, SessionInv, AskInv, Frontier
<1>8. PlaceInv'
  <2>1. Open # NoReport /\ Open.finalized => Open.pending = 0
    BY DEF Enter, ChainLoads, ValidOrphan, ValidSession, RowsLoad, Open
  <2>. QED
    BY <1>1, <1>2, <2>1 DEF IInv, TypeOK, PlaceInv, Enter, Goto
<1>. QED
  BY <1>4, <1>5, <1>6, <1>7, <1>8 DEF IInv

-----------------------------------------------------------------------------
(* Steps that write the open session's report *)

\* What writing report r through the holder's memory does to the files.
LEMMA SaveReportEffect ==
    ASSUME IInv, NEW p \in Operators, pc[p] # "idle", Cur \in SessionIds,
           NEW r \in Report, SaveReport(p, r), UNCHANGED journal
    PROVE  /\ Open' = r /\ Cur' = Cur
           /\ rmem'[p] = r
           /\ report' \in [SessionIds -> Report \cup {NoReport}]
           /\ rmem' \in [Operators -> Report \cup {NoReport}]
           /\ \A s \in SessionIds : s # Cur => report'[s] = report[s]
<1>1. jmem[p] = journal
  BY HolderKnows
<1>. QED
  BY <1>1 DEF IInv, TypeOK, SaveReport, Open, Orphan, Cur

\* A report that still continues the journal may be written, if the process
\* then stands where its pending query says.
LEMMA ReportStepKeeps ==
    ASSUME IInv, NEW p \in Operators, pc[p] # "idle", Cur \in SessionIds,
           NEW r \in Report, SaveReport(p, r),
           UNCHANGED <<journal, rowFile, lock, command, jmem, reply, asked, heard>>,
           NEW place \in {"loop", "marked", "closing", "finalized"}, Goto(p, place),
           r.start = journal.next, End(r) <= r.planned,
           r.pending # 0 => r.pending = End(r) /\ End(r) < r.planned,
           r.pending # 0 <=> place = "marked",
           Frontier <= (IF place = "marked" THEN End(r) + 1 ELSE End(r)),
           place = "marked" => asked[r.pending] = 0
    PROVE  IInv'
<1>. USE ConstantsAssumption
<1>1. /\ Open' = r /\ Cur' = Cur /\ rmem'[p] = r
      /\ report' \in [SessionIds -> Report \cup {NoReport}]
      /\ rmem' \in [Operators -> Report \cup {NoReport}]
      /\ \A s \in SessionIds : s # Cur => report'[s] = report[s]
  BY SaveReportEffect
<1>2. /\ pc'[p] = place /\ jmem[p] = journal /\ lock = p
      /\ \A q \in Operators : q # p => pc[q] = "idle" /\ pc'[q] = "idle"
  BY HolderKnows DEF IInv, TypeOK, Goto
<1>3. TypeOK'
  BY <1>1 DEF IInv, TypeOK, Goto
<1>4. LockInv'
  BY <1>2 DEF LockInv
<1>5. MemInv'
  BY <1>1, <1>2 DEF MemInv
<1>6. SessionInv'
  BY <1>1 DEF IInv, SessionInv, SessionIds
<1>7. PlaceInv'
  BY <1>1, <1>2 DEF PlaceInv
<1>8. AskInv'
  <2>1. journal.next \in Nat /\ End(r) \in Nat
    BY DEF IInv, TypeOK, Journal, Report, End
  <2>2. Frontier' = IF place = "marked" THEN End(r) + 1 ELSE End(r)
    BY <1>1 DEF Frontier
  <2>3. Frontier \in Int
    <3>1. Open \in Report \cup {NoReport}
      BY DEF IInv, TypeOK, Open, Orphan
    <3>2. Open # NoReport => End(Open) \in Nat
      BY <3>1 DEF Report, End
    <3>. QED
      BY <2>1, <3>2 DEF Frontier
  <2>. QED
    BY <2>1, <2>2, <2>3 DEF IInv, AskInv, Query
<1>. QED
  BY <1>3, <1>4, <1>5, <1>6, <1>7, <1>8 DEF IInv

\* What is known of the open session's report.
LEMMA OpenReport ==
    ASSUME IInv, Open # NoReport
    PROVE  /\ Open \in Report
           /\ End(Open) \in 1 .. ExpectedQueries
           /\ Len(Open.rows) \in Nat
           /\ Cur \in SessionIds
           /\ Open.start = journal.next /\ End(Open) <= Open.planned
           /\ Frontier = IF Open.pending = 0 THEN End(Open) ELSE End(Open) + 1
<1>1. Open \in Report /\ Cur \in SessionIds
  BY DEF IInv, TypeOK, Open, Orphan, Cur
<1>2. Len(Open.rows) \in Nat /\ Open.start \in 1 .. ExpectedQueries /\ Open.planned \in 1 .. ExpectedQueries
  BY <1>1 DEF Report
<1>. QED
  BY <1>1, <1>2, ConstantsAssumption DEF IInv, SessionInv, Frontier, End

LEMMA OpenSessionKeeps ==
    ASSUME IInv, NEW p \in Operators, OpenSession(p)
    PROVE  IInv'
<1>. USE ConstantsAssumption
<1>. DEFINE r == rmem[p]
<1>1. /\ pc[p] = "reserved" /\ Cur \in SessionIds /\ Open = NoReport /\ r \in Report
      /\ r.start = journal.next /\ r.start <= r.planned /\ r.rows = << >> /\ r.pending = 0
  BY DEF IInv, MemInv, OpenSession, At
<1>2. End(r) = r.start /\ r.start \in Nat /\ r.planned \in Nat
  BY <1>1 DEF End, Report
<1>3. Frontier <= End(r)
  BY <1>1, <1>2 DEF Frontier
<1>. QED
  BY <1>1, <1>2, <1>3, ReportStepKeeps DEF OpenSession

LEMMA MarkPendingKeeps ==
    ASSUME IInv, NEW p \in Operators, MarkPending(p)
    PROVE  IInv'
<1>. USE ConstantsAssumption
<1>. DEFINE r == [rmem[p] EXCEPT !.pending = End(rmem[p])]
<1>1. pc[p] = "loop"
  BY DEF MarkPending, At
<1>2. rmem[p] = Open /\ Open # NoReport /\ Cur \in SessionIds
  BY <1>1, HolderKnows
<1>3. Open.pending = 0
  BY <1>1 DEF IInv, PlaceInv
<1>4. End(Open) # Open.planned /\ End(Open) <= Open.planned
  BY <1>2, OpenReport DEF MarkPending, Exhausted
<1>5. End(Open) \in Query /\ End(Open) < Open.planned
  BY <1>2, <1>4, OpenReport DEF Query, Report
<1>6. r \in Report /\ End(r) = End(Open) /\ r.pending = End(Open)
      /\ r.start = Open.start /\ r.planned = Open.planned
  BY <1>2, <1>5, OpenReport DEF Report, End
<1>7. r.pending # 0 /\ asked[r.pending] = 0 /\ Frontier <= End(r) + 1
  BY <1>2, <1>3, <1>5, <1>6, OpenReport DEF IInv, AskInv, Query
<1>8. /\ SaveReport(p, r) /\ Goto(p, "marked")
      /\ UNCHANGED <<journal, rowFile, lock, command, jmem, reply, asked, heard>>
  BY DEF MarkPending
<1>. QED
  BY <1>1, <1>2, <1>5, <1>6, <1>7, <1>8, OpenReport, ReportStepKeeps

LEMMA RecordRowKeeps ==
    ASSUME IInv, NEW p \in Operators, RecordRow(p)
    PROVE  IInv'
<1>. USE ConstantsAssumption
<1>. DEFINE o == rmem[p]
            r == [o EXCEPT !.rows = Append(@, reply[p]), !.pending = 0,
                           !.complete = End(o) + 1 = o.planned]
            place == IF command[p] = "resolve" \/ reply[p].result = "transport_failure"
                     THEN "closing" ELSE "loop"
<1>1. pc[p] = "rowSaved"
  BY DEF RecordRow, At
<1>2. o = Open /\ Open # NoReport /\ Cur \in SessionIds
  BY <1>1, HolderKnows
<1>3. Open.pending # 0 /\ End(Open) < Open.planned
  BY <1>1, <1>2 DEF IInv, PlaceInv, SessionInv
<1>4. reply[p] \in Row
  BY DEF IInv, TypeOK
<1>5. /\ r \in Report /\ End(r) = End(Open) + 1 /\ r.pending = 0
      /\ r.start = Open.start /\ r.planned = Open.planned
  <2>1. o \in Report /\ o.rows \in Seq(Row) /\ o.start \in Nat
    BY <1>2, OpenReport DEF Report
  <2>2. /\ Append(o.rows, reply[p]) \in Seq(Row)
        /\ Len(Append(o.rows, reply[p])) = Len(o.rows) + 1 /\ Len(o.rows) \in Nat
    BY <1>4, <2>1
  <2>3. r \in Report
    BY <2>1, <2>2 DEF Report
  <2>4. /\ r.rows = Append(o.rows, reply[p]) /\ r.pending = 0
        /\ r.start = o.start /\ r.planned = o.planned
    BY <2>1 DEF Report
  <2>. QED
    BY <1>2, <2>1, <2>2, <2>3, <2>4 DEF End
<1>6. Frontier <= End(r) /\ End(r) <= r.planned
  BY <1>2, <1>3, <1>5, OpenReport DEF Report
<1>7. /\ SaveReport(p, r) /\ Goto(p, place)
      /\ UNCHANGED <<journal, rowFile, lock, command, jmem, reply, asked, heard>>
  BY DEF RecordRow
<1>8. place \in {"loop", "closing"}
  OBVIOUS
<1>. HIDE DEF place, r
<1>. QED
  BY <1>1, <1>2, <1>5, <1>6, <1>7, <1>8, OpenReport, ReportStepKeeps

LEMMA FinalizeKeeps ==
    ASSUME IInv, NEW p \in Operators, Finalize(p)
    PROVE  IInv'
<1>. USE ConstantsAssumption
<1>. DEFINE o == rmem[p]
            r == [o EXCEPT !.planned = End(o), !.complete = TRUE, !.finalized = TRUE]
<1>1. pc[p] = "closing" /\ o.pending = 0
  BY DEF Finalize, At
<1>2. o = Open /\ Open # NoReport /\ Cur \in SessionIds
  BY <1>1, HolderKnows
<1>3. r \in Report /\ End(r) = End(Open) /\ r.pending = 0
      /\ r.start = Open.start /\ r.planned = End(Open)
  BY <1>1, <1>2, OpenReport DEF Report, End
<1>4. Frontier <= End(r) /\ End(r) <= r.planned
  BY <1>1, <1>2, <1>3, OpenReport
<1>5. /\ SaveReport(p, r) /\ Goto(p, "finalized")
      /\ UNCHANGED <<journal, rowFile, lock, command, jmem, reply, asked, heard>>
  BY DEF Finalize
<1>. HIDE DEF r
<1>. QED
  BY <1>1, <1>2, <1>3, <1>4, <1>5, OpenReport, ReportStepKeeps

-----------------------------------------------------------------------------
(* Steps that leave the journal and the reports alone *)

\* The step asks only queries before the frontier, and those for the first time.
AsksBelowFrontier ==
    \A g \in Query : asked'[g] = asked[g] \/ (g < Frontier /\ asked'[g] = 1)

\* The history and the files of rows keep their types.
QuietTypesNext ==
    /\ rowFile' \in [SessionIds -> Seq(Row)]
    /\ reply' \in [Operators -> Row]
    /\ asked' \in [Query -> Nat]
    /\ heard' \in [Query -> Replies \cup {"nothing"}]

\* The holder moves on between two writes; only its own reply, the row files
\* and the history may change.
LEMMA QuietStepKeeps ==
    ASSUME IInv, NEW p \in Operators, pc[p] # "idle", pc[p] # "reserved",
           UNCHANGED <<journal, report, lock, command, jmem, rmem>>,
           QuietTypesNext, AsksBelowFrontier,
           NEW place \in {"loop", "closing", "inflight", "answered", "rowSaved"},
           Goto(p, place), Open # NoReport,
           (place = "loop" \/ place = "closing") <=> Open.pending = 0
    PROVE  IInv'
<1>. USE ConstantsAssumption
<1>1. Open' = Open /\ Cur' = Cur /\ Frontier' = Frontier
  BY DEF Open, Orphan, Cur, Frontier
<1>2. /\ pc'[p] = place /\ jmem[p] = journal /\ lock = p /\ rmem[p] = Open
      /\ \A q \in Operators : q # p => pc[q] = "idle" /\ pc'[q] = "idle"
  BY HolderKnows DEF IInv, TypeOK, Goto
<1>3. TypeOK'
  BY DEF IInv, TypeOK, Goto, QuietTypesNext
<1>4. LockInv'
  BY <1>2 DEF LockInv
<1>5. MemInv'
  BY <1>1, <1>2 DEF MemInv
<1>6. SessionInv'
  BY <1>1 DEF IInv, SessionInv
<1>7. PlaceInv'
  BY <1>1, <1>2 DEF PlaceInv
<1>8. AskInv'
  <2>1. Frontier \in Int
    BY OpenReport
  <2>2. \A g \in Query : g \in Int /\ asked[g] <= 1 /\ (g >= Frontier => asked[g] = 0)
    BY DEF IInv, AskInv, Query
  <2>. QED
    BY <1>1, <2>1, <2>2 DEF AskInv, AsksBelowFrontier
<1>. QED
  BY <1>3, <1>4, <1>5, <1>6, <1>7, <1>8 DEF IInv

\* The types QuietStepKeeps asks for.
LEMMA QuietTypes ==
    ASSUME IInv
    PROVE  /\ rowFile \in [SessionIds -> Seq(Row)]
           /\ reply \in [Operators -> Row]
           /\ asked \in [Query -> Nat]
           /\ heard \in [Query -> Replies \cup {"nothing"}]
BY DEF IInv, TypeOK

LEMMA StopLoopKeeps ==
    ASSUME IInv, NEW p \in Operators, StopLoop(p)
    PROVE  IInv'
<1>1. pc[p] = "loop"
  BY DEF StopLoop, At
<1>2. Open # NoReport /\ Open.pending = 0
  BY <1>1, HolderKnows DEF IInv, PlaceInv
<1>3. /\ UNCHANGED <<journal, report, lock, command, jmem, rmem, rowFile, reply, asked, heard>>
      /\ Goto(p, "closing")
  BY DEF StopLoop, disk
<1>4. QuietTypesNext /\ AsksBelowFrontier
  BY <1>3, QuietTypes DEF QuietTypesNext, AsksBelowFrontier
<1>. QED
  BY <1>1, <1>2, <1>3, <1>4, QuietStepKeeps

LEMMA AskKeeps ==
    ASSUME IInv, NEW p \in Operators, Ask(p)
    PROVE  IInv'
<1>1. pc[p] = "marked"
  BY DEF Ask, At
<1>2. Open # NoReport /\ rmem[p] = Open /\ Open.pending # 0 /\ asked[Open.pending] = 0
  BY <1>1, HolderKnows DEF IInv, PlaceInv
<1>3. Open.pending \in Query /\ Open.pending < Frontier
  BY <1>2, OpenReport DEF IInv, SessionInv, Query, Report
<1>4. asked' = [asked EXCEPT ![Open.pending] = 1] /\ asked' \in [Query -> Nat]
  BY <1>2, <1>3 DEF IInv, TypeOK, Ask
<1>5. \A g \in Query : asked'[g] = asked[g] \/ (g < Frontier /\ asked'[g] = 1)
  BY <1>3, <1>4 DEF IInv, TypeOK
<1>6. /\ UNCHANGED <<journal, report, lock, command, jmem, rmem, rowFile, reply, heard>>
      /\ Goto(p, "inflight")
  BY DEF Ask, disk
<1>7. QuietTypesNext /\ AsksBelowFrontier
  BY <1>4, <1>5, <1>6, QuietTypes DEF QuietTypesNext, AsksBelowFrontier
<1>. QED
  BY <1>1, <1>2, <1>6, <1>7, QuietStepKeeps

LEMMA ReceiveKeeps ==
    ASSUME IInv, NEW p \in Operators, NEW r \in Replies, Receive(p, r)
    PROVE  IInv'
<1>1. pc[p] = "inflight"
  BY DEF Receive, At
<1>2. Open # NoReport /\ rmem[p] = Open /\ Open.pending # 0 /\ Open.pending \in Query
  BY <1>1, HolderKnows DEF IInv, PlaceInv, Report
<1>3. [index |-> rmem[p].pending, result |-> r] \in Row
  BY <1>2 DEF Row, Results
<1>4. reply' \in [Operators -> Row] /\ heard' \in [Query -> Replies \cup {"nothing"}]
  BY <1>2, <1>3 DEF IInv, TypeOK, Receive
<1>5. /\ UNCHANGED <<journal, report, lock, command, jmem, rmem, rowFile, asked>>
      /\ Goto(p, "answered")
  BY DEF Receive, disk
<1>6. QuietTypesNext /\ AsksBelowFrontier
  BY <1>4, <1>5, QuietTypes DEF QuietTypesNext, AsksBelowFrontier
<1>. QED
  BY <1>1, <1>2, <1>5, <1>6, QuietStepKeeps

LEMMA WriteRowKeeps ==
    ASSUME IInv, NEW p \in Operators, WriteRow(p)
    PROVE  IInv'
<1>1. pc[p] = "answered"
  BY DEF WriteRow, At
<1>2. Open # NoReport /\ jmem[p] = journal /\ Open.pending # 0 /\ Cur \in SessionIds
  BY <1>1, HolderKnows DEF IInv, PlaceInv
<1>3. rowFile' = [rowFile EXCEPT ![Cur] = Append(@, reply[p])]
  BY <1>2 DEF WriteRow, Cur
<1>4. reply[p] \in Row /\ rowFile[Cur] \in Seq(Row) /\ rowFile \in [SessionIds -> Seq(Row)]
  BY <1>2 DEF IInv, TypeOK
<1>5. rowFile' \in [SessionIds -> Seq(Row)]
  BY <1>2, <1>3, <1>4
<1>6. /\ UNCHANGED <<journal, report, lock, command, jmem, rmem, reply, asked, heard>>
      /\ Goto(p, "rowSaved")
  BY DEF WriteRow
<1>7. QuietTypesNext /\ AsksBelowFrontier
  BY <1>5, <1>6, QuietTypes DEF QuietTypesNext, AsksBelowFrontier
<1>. QED
  BY <1>1, <1>2, <1>6, <1>7, QuietStepKeeps

LEMMA ResolvePendingKeeps ==
    ASSUME IInv, NEW p \in Operators, ResolvePending(p)
    PROVE  IInv'
<1>. DEFINE files == rowFile[Current(jmem[p])]
            n == Len(rmem[p].rows)
<1>1. pc[p] = "loaded" /\ Status(p) = "pending"
  BY DEF ResolvePending, Resolving, At
<1>2. jmem[p] = journal /\ rmem[p] = Open /\ Open # NoReport /\ Open.pending # 0
  BY <1>1, HolderKnows DEF Status, OrphanStatus
<1>3. Open \in Report /\ Cur \in SessionIds /\ Open.pending \in Query /\ n \in Nat
  BY <1>2, OpenReport DEF Report
<1>4. files \in Seq(Row) /\ Len(files) \in Nat
  BY <1>2, <1>3 DEF IInv, TypeOK, Cur
<1>5. UNCHANGED <<journal, report, lock, command, jmem, rmem, rowFile, asked, heard>>
  BY DEF ResolvePending, disk
<1>6. CASE Len(files) > n
  <2>1. files[n + 1] \in Row
    BY <1>3, <1>4, <1>6
  <2>2. reply' = [reply EXCEPT ![p] = files[n + 1]] /\ Goto(p, "rowSaved")
    BY <1>6 DEF ResolvePending
  <2>3. reply' \in [Operators -> Row]
    BY <2>1, <2>2 DEF IInv, TypeOK
  <2>4. QuietTypesNext /\ AsksBelowFrontier
    BY <1>5, <2>3, QuietTypes DEF QuietTypesNext, AsksBelowFrontier
  <2>. QED
    BY <1>1, <1>2, <1>5, <2>2, <2>4, QuietStepKeeps
<1>7. CASE ~(Len(files) > n)
  <2>1. [index |-> rmem[p].pending, result |-> "ambiguous_query"] \in Row
    BY <1>2, <1>3 DEF Row, Results
  <2>2. /\ reply' = [reply EXCEPT ![p] = [index |-> rmem[p].pending, result |-> "ambiguous_query"]]
        /\ Goto(p, "answered")
    BY <1>7 DEF ResolvePending
  <2>3. reply' \in [Operators -> Row]
    BY <2>1, <2>2 DEF IInv, TypeOK
  <2>4. QuietTypesNext /\ AsksBelowFrontier
    BY <1>5, <2>3, QuietTypes DEF QuietTypesNext, AsksBelowFrontier
  <2>. QED
    BY <1>1, <1>2, <1>5, <2>2, <2>4, QuietStepKeeps
<1>. QED
  BY <1>6, <1>7

LEMMA ResolveInterruptedKeeps ==
    ASSUME IInv, NEW p \in Operators, ResolveInterrupted(p)
    PROVE  IInv'
<1>1. pc[p] = "loaded" /\ Status(p) = "interrupted"
  BY DEF ResolveInterrupted, Resolving, At
<1>2. Open # NoReport /\ Open.pending = 0
  BY <1>1, HolderKnows DEF Status, OrphanStatus
<1>3. /\ UNCHANGED <<journal, report, lock, command, jmem, rmem, rowFile, reply, asked, heard>>
      /\ Goto(p, "closing")
  BY DEF ResolveInterrupted, disk
<1>4. QuietTypesNext /\ AsksBelowFrontier
  BY <1>3, QuietTypes DEF QuietTypesNext, AsksBelowFrontier
<1>. QED
  BY <1>1, <1>2, <1>3, <1>4, QuietStepKeeps

-----------------------------------------------------------------------------
(* Steps that write the journal *)

\* The journal with the finalized report of the open session appended is a
\* journal, and the frontier is its next index.
LEMMA AppendedJournal ==
    ASSUME IInv, Open # NoReport, Open.pending = 0
    PROVE  /\ Appended(journal, Open) \in Journal
           /\ Current(Appended(journal, Open)) = Cur + 1
           /\ Appended(journal, Open).next = Frontier
<1>. USE ConstantsAssumption
<1>. DEFINE entry == [start |-> journal.next, end |-> journal.next + Len(Open.rows), sha |-> Open]
            j == Appended(journal, Open)
            Entries == [start : 1 .. ExpectedQueries, end : 1 .. ExpectedQueries, sha : Report]
<1>1. /\ Open \in Report /\ Open.start = journal.next /\ Frontier = End(Open)
      /\ End(Open) \in 1 .. ExpectedQueries
  BY OpenReport
<1>2. End(Open) = journal.next + Len(Open.rows)
  BY <1>1 DEF End
<1>3. journal.next \in 1 .. ExpectedQueries /\ journal.sessions \in Seq(Entries)
  BY DEF IInv, TypeOK, Journal
<1>4. entry \in Entries
  BY <1>1, <1>2, <1>3
<1>5. /\ Append(journal.sessions, entry) \in Seq(Entries)
      /\ Len(Append(journal.sessions, entry)) = Len(journal.sessions) + 1
      /\ Len(journal.sessions) \in Nat
  BY <1>3, <1>4
<1>6. /\ j.sessions = Append(journal.sessions, entry)
      /\ j.next = End(Open)
      /\ j = [sessions |-> Append(journal.sessions, entry), active |-> 0,
              next |-> End(Open), complete |-> End(Open) = ExpectedQueries]
  BY <1>2 DEF Appended
<1>7. j \in Journal
  BY <1>1, <1>5, <1>6 DEF Journal
<1>8. Current(j) = Cur + 1
  BY <1>5, <1>6 DEF Current, Cur
<1>. QED
  BY <1>1, <1>6, <1>7, <1>8

\* What the appended journal means for the files.
LEMMA AppendEffect ==
    ASSUME IInv, Open # NoReport, Open.pending = 0,
           journal' = Appended(journal, Open), UNCHANGED report
    PROVE  /\ journal' \in Journal /\ Cur' = Cur + 1 /\ Cur \in Int
           /\ Open' = NoReport /\ Frontier' = Frontier
           /\ SessionInv'
<1>1. /\ journal' \in Journal /\ Cur' = Cur + 1 /\ journal'.next = Frontier
  BY AppendedJournal DEF Cur
<1>2. Cur \in Int
  BY OpenReport DEF SessionIds
<1>3. \A s \in SessionIds : s > Cur => report[s] = NoReport
  BY DEF IInv, SessionInv
<1>4. Open' = NoReport
  BY <1>1, <1>2, <1>3 DEF Open, Orphan, Cur, SessionIds
<1>5. Frontier' = Frontier
  BY <1>1, <1>4 DEF Frontier
<1>6. SessionInv'
  BY <1>1, <1>2, <1>3, <1>4 DEF SessionInv, SessionIds
<1>. QED
  BY <1>1, <1>2, <1>4, <1>5, <1>6

\* A process that appends the open session and ends.
LEMMA AppendAndLeaveKeeps ==
    ASSUME IInv, NEW p \in Operators, pc[p] # "idle", Open # NoReport, Open.pending = 0,
           journal' = Appended(journal, Open), Leave(p),
           UNCHANGED <<report, rowFile, asked, heard>>
    PROVE  IInv'
<1>. USE ConstantsAssumption
<1>0. NewJournal \in Journal /\ NoRow \in Row
  BY DEF NewJournal, Journal, NoRow, Row, Query, Results
<1>1. /\ journal' \in Journal /\ Frontier' = Frontier /\ SessionInv'
  BY AppendEffect
<1>2. TypeOK'
  BY <1>0, <1>1 DEF IInv, TypeOK, Leave, Goto
<1>3. \A q \in Operators : pc'[q] = "idle"
  BY HolderKnows DEF IInv, TypeOK, Leave, Goto
<1>4. LockInv' /\ MemInv' /\ PlaceInv'
  BY <1>3 DEF LockInv, MemInv, PlaceInv
<1>5. AskInv'
  BY <1>1 DEF IInv, AskInv
<1>. QED
  BY <1>1, <1>2, <1>4, <1>5 DEF IInv

LEMMA AppendFinalizedKeeps ==
    ASSUME IInv, NEW p \in Operators, AppendFinalized(p)
    PROVE  IInv'
<1>1. pc[p] = "finalized"
  BY DEF AppendFinalized, At
<1>2. Open # NoReport /\ Open.pending = 0 /\ jmem[p] = journal /\ Cur \in SessionIds
  BY <1>1, HolderKnows DEF IInv, PlaceInv
<1>3. journal' = Appended(journal, Open)
  BY <1>2 DEF AppendFinalized, Open, Orphan, Cur
<1>4. Leave(p) /\ UNCHANGED <<report, rowFile, asked, heard>>
  BY DEF AppendFinalized
<1>. QED
  BY <1>1, <1>2, <1>3, <1>4, AppendAndLeaveKeeps

LEMMA ResolveFinalizedKeeps ==
    ASSUME IInv, NEW p \in Operators, ResolveFinalized(p)
    PROVE  IInv'
<1>1. pc[p] = "loaded" /\ Status(p) = "finalized_orphan"
  BY DEF ResolveFinalized, Resolving, At
<1>2. Open # NoReport /\ jmem[p] = journal /\ Open.finalized
  BY <1>1, HolderKnows DEF Status, OrphanStatus
<1>3. Open.pending = 0 /\ Cur \in SessionIds
  BY <1>1, <1>2, OpenReport DEF IInv, PlaceInv
<1>4. journal' = Appended(journal, Open)
  BY <1>2, <1>3 DEF ResolveFinalized, Open, Orphan, Cur
<1>5. Leave(p) /\ UNCHANGED <<report, rowFile, asked, heard>>
  BY DEF ResolveFinalized
<1>. QED
  BY <1>1, <1>2, <1>3, <1>4, <1>5, AppendAndLeaveKeeps

LEMMA RunAdoptOrphanKeeps ==
    ASSUME IInv, NEW p \in Operators, RunAdoptOrphan(p)
    PROVE  IInv'
<1>. USE ConstantsAssumption
<1>1. pc[p] = "loaded" /\ Status(p) = "finalized_orphan"
  BY DEF RunAdoptOrphan, At
<1>2. Open # NoReport /\ jmem[p] = journal /\ Open.finalized
  BY <1>1, HolderKnows DEF Status, OrphanStatus
<1>3. Open.pending = 0 /\ Cur \in SessionIds
  BY <1>1, <1>2, OpenReport DEF IInv, PlaceInv
<1>4. journal' = Appended(journal, Open) /\ jmem' = [jmem EXCEPT ![p] = journal']
  BY <1>2, <1>3 DEF RunAdoptOrphan, SaveJournal, Open, Orphan, Cur
<1>5. /\ rmem' = [rmem EXCEPT ![p] = NoReport]
      /\ UNCHANGED <<report, rowFile, lock, pc, command, reply, asked, heard>>
  BY DEF RunAdoptOrphan
<1>6. /\ journal' \in Journal /\ Open' = NoReport /\ Frontier' = Frontier /\ SessionInv'
  BY <1>2, <1>3, <1>4, <1>5, AppendEffect
<1>7. TypeOK'
  BY <1>4, <1>5, <1>6 DEF IInv, TypeOK
<1>8. \A q \in Operators : q # p => pc'[q] = "idle"
  BY <1>1, <1>5, HolderKnows
<1>9. LockInv'
  BY <1>5 DEF IInv, LockInv
<1>10. jmem'[p] = journal' /\ rmem'[p] = Open' /\ pc'[p] = "loaded"
  BY <1>1, <1>4, <1>5, <1>6 DEF IInv, TypeOK
<1>11. MemInv'
  BY <1>8, <1>10 DEF MemInv
<1>12. PlaceInv'
  BY <1>6, <1>8, <1>10 DEF PlaceInv
<1>13. AskInv'
  BY <1>5, <1>6 DEF IInv, AskInv
<1>. QED
  BY <1>6, <1>7, <1>9, <1>11, <1>12, <1>13 DEF IInv

\* Changing only the reservation leaves the open session and the frontier.
LEMMA ReservationEffect ==
    ASSUME IInv, NEW a \in SessionIds \cup {0},
           journal' = [journal EXCEPT !.active = a], UNCHANGED <<report, asked>>
    PROVE  /\ journal' \in Journal /\ Cur' = Cur /\ Open' = Open
           /\ journal'.next = journal.next
           /\ SessionInv' /\ AskInv'
<1>1. /\ journal' \in Journal /\ journal'.next = journal.next
      /\ journal'.sessions = journal.sessions
  BY DEF IInv, TypeOK, Journal
<1>2. Cur' = Cur /\ Open' = Open
  BY <1>1 DEF Cur, Current, Open, Orphan
<1>3. Frontier' = Frontier
  BY <1>1, <1>2 DEF Frontier
<1>. QED
  BY <1>1, <1>2, <1>3 DEF IInv, SessionInv, AskInv

LEMMA RunReserveKeeps ==
    ASSUME IInv, NEW p \in Operators, NEW m \in 1 .. MaxBatch, RunReserve(p, m)
    PROVE  IInv'
<1>. USE ConstantsAssumption
<1>. DEFINE r == NewReport(journal.next, m)
<1>1. pc[p] = "loaded"
  BY DEF RunReserve, At
<1>2. jmem[p] = journal
  BY <1>1, HolderKnows
<1>3. /\ Cur \in SessionIds /\ report[Cur] = NoReport /\ Open = NoReport
      /\ journal' = [journal EXCEPT !.active = Cur]
      /\ jmem' = [jmem EXCEPT ![p] = journal']
      /\ rmem' = [rmem EXCEPT ![p] = r] /\ Goto(p, "reserved")
      /\ UNCHANGED <<report, rowFile, lock, command, reply, asked, heard>>
  BY <1>2 DEF RunReserve, SaveJournal, Cur, Open, Orphan
<1>4. /\ journal' \in Journal /\ Cur' = Cur /\ Open' = NoReport
      /\ journal'.next = journal.next /\ SessionInv' /\ AskInv'
  BY <1>3, ReservationEffect
<1>5. journal.next \in 1 .. ExpectedQueries
  BY DEF IInv, TypeOK, Journal
<1>6. /\ r \in Report /\ r.start = journal.next /\ r.start <= r.planned
      /\ r.rows = << >> /\ r.pending = 0
  BY <1>5 DEF NewReport, AtMostEnd, Report
<1>7. TypeOK'
  BY <1>3, <1>4, <1>6 DEF IInv, TypeOK, Goto
<1>8. /\ pc'[p] = "reserved" /\ jmem'[p] = journal' /\ rmem'[p] = r /\ lock' = p
      /\ \A q \in Operators : q # p => pc'[q] = "idle"
  BY <1>1, <1>3, HolderKnows DEF IInv, TypeOK, Goto
<1>9. LockInv' /\ PlaceInv'
  BY <1>8 DEF LockInv, PlaceInv
<1>10. MemInv'
  BY <1>3, <1>4, <1>6, <1>8 DEF MemInv
<1>. QED
  BY <1>4, <1>7, <1>9, <1>10 DEF IInv

LEMMA ResolveReservedKeeps ==
    ASSUME IInv, NEW p \in Operators, ResolveReserved(p)
    PROVE  IInv'
<1>. USE ConstantsAssumption
<1>0. NewJournal \in Journal /\ NoRow \in Row
  BY DEF NewJournal, Journal, NoRow, Row, Query, Results
<1>1. pc[p] = "loaded" /\ Leave(p) /\ UNCHANGED <<report, rowFile, asked, heard>>
  BY DEF ResolveReserved, Resolving, At
<1>2. journal' = [journal EXCEPT !.active = 0]
  BY <1>1, HolderKnows DEF ResolveReserved
<1>3. journal' \in Journal /\ SessionInv' /\ AskInv'
  BY <1>1, <1>2, ReservationEffect
<1>4. TypeOK'
  BY <1>0, <1>1, <1>3 DEF IInv, TypeOK, Leave, Goto
<1>5. \A q \in Operators : pc'[q] = "idle"
  BY <1>1, HolderKnows DEF IInv, TypeOK, Leave, Goto
<1>6. LockInv' /\ MemInv' /\ PlaceInv'
  BY <1>5 DEF LockInv, MemInv, PlaceInv
<1>. QED
  BY <1>3, <1>4, <1>6 DEF IInv

-----------------------------------------------------------------------------
\* Every step preserves the invariant.
LEMMA NextKeeps == IInv /\ [Next]_vars => IInv'
<1>. SUFFICES ASSUME IInv, [Next]_vars PROVE IInv'
  OBVIOUS
<1>1. CASE UNCHANGED vars
  BY <1>1 DEF vars, disk, memory, IInv, TypeOK, LockInv, MemInv, SessionInv, PlaceInv,
              AskInv, Frontier, Open, Orphan, Cur
<1>2. ASSUME NEW p \in Operators, NEW c \in {"run", "resolve"}, Enter(p, c) PROVE IInv'
  BY <1>2, EnterKeeps
<1>3. ASSUME NEW p \in Operators, NEW m \in 1 .. MaxBatch, RunReserve(p, m) PROVE IInv'
  BY <1>3, RunReserveKeeps
<1>4. ASSUME NEW p \in Operators, SessionStep(p) PROVE IInv'
  BY <1>4, OpenSessionKeeps, MarkPendingKeeps, StopLoopKeeps, AskKeeps, ReceiveKeeps,
     WriteRowKeeps, RecordRowKeeps, FinalizeKeeps, AppendFinalizedKeeps DEF SessionStep
<1>5. ASSUME NEW p \in Operators, ResolveStep(p) PROVE IInv'
  BY <1>5, ResolveReservedKeeps, ResolveFinalizedKeeps, ResolvePendingKeeps,
     ResolveInterruptedKeeps DEF ResolveStep
<1>6. ASSUME NEW p \in Operators, RunAdoptOrphan(p) PROVE IInv'
  BY <1>6, RunAdoptOrphanKeeps
<1>7. ASSUME NEW p \in Operators, Refuse(p) \/ Crash(p) PROVE IInv'
  <2>1. pc[p] # "idle" /\ Leave(p) /\ UNCHANGED <<disk, asked, heard>>
    BY <1>7 DEF Refuse, Crash, Refusable, At
  <2>. QED
    BY <2>1, LeaveKeeps
<1>. QED
  BY <1>1, <1>2, <1>3, <1>4, <1>5, <1>6, <1>7 DEF Next, Step

\* IInv holds in every reachable state.
THEOREM InductiveInvariant == Spec => []IInv
<1>. QED
  BY InitIInv, NextKeeps, PTL DEF Spec

\* Every variable keeps its type, however operators and crashes interleave.
THEOREM TypeCorrect == Spec => []TypeOK
<1>1. IInv => TypeOK
  BY DEF IInv
<1>. QED
  BY <1>1, InductiveInvariant, PTL

\* No query is sent to the model twice, for any number of operators, queries,
\* sessions and crashes.
THEOREM NeverAskedTwice == Spec => []AtMostOnce
<1>1. IInv => AtMostOnce
  BY DEF IInv, AskInv, AtMostOnce
<1>. QED
  BY <1>1, InductiveInvariant, PTL

-----------------------------------------------------------------------------
(* The files *)

N == Len(journal.sessions)
Entry(k) == journal.sessions[k]
OpenFile == IF Cur \in SessionIds THEN rowFile[Cur] ELSE << >>

\* The rows the first n reports of `reports` list.
RowsUpTo(reports, n) ==
    UNION {{r.rows[i] : i \in DOMAIN r.rows} : r \in {reports[k] : k \in 1 .. n}}

\* What allowed the session with report r to begin after n others.
Gated(r, reports, n) == IF r.start = 1 THEN r.requested = 1 ELSE SmokeOk(RowsUpTo(reports, n))

\* Entry k of the journal and the files of its session.
EntryValid(entries, reports, files, k) ==
    /\ reports[k] = entries[k].sha
    /\ entries[k].start = reports[k].start /\ entries[k].end = End(reports[k])
    /\ reports[k].start = (IF k = 1 THEN 1 ELSE entries[k - 1].end)
    /\ Gated(reports[k], reports, k - 1)
    /\ ValidSession(reports[k], files[k], TRUE)

EntriesInv ==
    /\ N \in SessionIds \cup {0}
    /\ \A k \in 1 .. N : EntryValid(journal.sessions, report, rowFile, k)
    /\ journal.next = (IF N = 0 THEN 1 ELSE Entry(N).end)
    /\ journal.complete <=> journal.next = ExpectedQueries
    /\ \A s \in SessionIds : s > Cur => rowFile[s] = << >>

\* The entries follow one another and leave no query out.
OrderInv ==
    /\ \A i, k \in 1 .. N : i < k => Entry(i).end <= Entry(k).start
    /\ \A k \in 1 .. N : Entry(k).end <= journal.next
    /\ \A g \in Query : g < journal.next =>
          \E k \in 1 .. N : Entry(k).start <= g /\ g < Entry(k).end

OpenInv ==
    /\ journal.active # 0 => journal.active = Cur
    /\ Open = NoReport => OpenFile = << >>
    /\ Open # NoReport =>
          /\ ValidSession(Open, OpenFile, FALSE)
          /\ Gated(Open, report, N)
          /\ \A i \in DOMAIN OpenFile : OpenFile[i].index = Open.start + i - 1
    /\ \A p \in Operators : pc[p] = "reserved" =>
          /\ rmem[p] = NewReport(journal.next, rmem[p].requested)
          /\ journal.next < ExpectedQueries
          /\ Gated(rmem[p], report, N)

\* Row says what was received for its query.
Truthful(row, sent, received) ==
    row.result # "ambiguous_query" => sent[row.index] > 0 /\ received[row.index] = row.result

ReplyOk(p) ==
    /\ pc[p] \in {"marked", "inflight"} => Len(OpenFile) = Len(Open.rows)
    /\ pc[p] = "inflight" => asked[Open.pending] > 0
    /\ pc[p] \in {"answered", "rowSaved"} => reply[p].index = Open.pending
    /\ pc[p] = "answered" => Truthful(reply[p], asked, heard)
    /\ pc[p] = "rowSaved" =>
          /\ Len(OpenFile) = Len(Open.rows) + 1
          /\ OpenFile[Len(Open.rows) + 1] = reply[p]

ReplyInv == \A p \in Operators : ReplyOk(p)

HeardInv == \A k \in SessionIds : \A i \in DOMAIN rowFile[k] : Truthful(rowFile[k][i], asked, heard)

CInv == IInv /\ EntriesInv /\ OrderInv /\ OpenInv /\ ReplyInv /\ HeardInv /\ SmokeGate

-----------------------------------------------------------------------------
LEMMA Naturals ==
    ASSUME IInv
    PROVE  /\ N \in Nat /\ Cur = N + 1
           /\ journal.next \in 1 .. ExpectedQueries
           /\ \A k \in 1 .. N : /\ Entry(k).start \in Nat /\ Entry(k).end \in Nat
                                /\ Entry(k).sha \in Report
<1>. DEFINE Entries == [start : 1 .. ExpectedQueries, end : 1 .. ExpectedQueries, sha : Report]
<1>1. journal.sessions \in Seq(Entries) /\ journal.next \in 1 .. ExpectedQueries
  BY DEF IInv, TypeOK, Journal
<1>. HIDE DEF Entries
<1>2. N \in Nat /\ \A k \in 1 .. N : Entry(k) \in Entries
  BY <1>1 DEF N, Entry
<1>. QED
  BY <1>1, <1>2, ConstantsAssumption DEF Cur, Current, N, Entries

\* The initial files satisfy the invariant.
LEMMA InitCInv == Init => CInv
<1>. SUFFICES ASSUME Init PROVE CInv
  OBVIOUS
<1>. USE ConstantsAssumption
<1>1. IInv
  BY InitIInv
<1>2. N = 0 /\ Cur = 1 /\ Open = NoReport /\ OpenFile = << >>
  BY DEF Init, N, Cur, Current, Open, Orphan, NewJournal, SessionIds, OpenFile
<1>3. EntriesInv /\ OrderInv
  BY <1>2 DEF Init, EntriesInv, OrderInv, NewJournal, Query
<1>4. OpenInv
  BY <1>2 DEF Init, OpenInv, NewJournal
<1>5. ReplyInv
  BY DEF Init, ReplyInv, ReplyOk
<1>6. HeardInv /\ SmokeGate
  BY DEF Init, HeardInv, SmokeGate
<1>. QED
  BY <1>1, <1>3, <1>4, <1>5, <1>6 DEF CInv

\* The rows up to a session depend on the reports up to it.
LEMMA RowsSame ==
    ASSUME NEW f, NEW h, NEW n \in Nat, \A k \in 1 .. n : f[k] = h[k]
    PROVE  RowsUpTo(f, n) = RowsUpTo(h, n)
<1>1. {f[k] : k \in 1 .. n} = {h[k] : k \in 1 .. n}
  OBVIOUS
<1>. QED
  BY <1>1 DEF RowsUpTo

\* Files of journaled sessions are not touched, and later ones not created.
LEMMA EntriesKept ==
    ASSUME IInv, EntriesInv, OrderInv,
           journal'.sessions = journal.sessions, journal'.next = journal.next,
           journal'.complete = journal.complete,
           \A k \in 1 .. N : report'[k] = report[k] /\ rowFile'[k] = rowFile[k],
           \A s \in SessionIds : s > Cur => rowFile'[s] = rowFile[s]
    PROVE  /\ EntriesInv' /\ OrderInv' /\ N' = N /\ Cur' = Cur
           /\ RowsUpTo(report', N') = RowsUpTo(report, N)
<1>1. N' = N /\ Cur' = Cur /\ N \in Nat /\ \A k : Entry(k)' = Entry(k)
  BY Naturals DEF N, Cur, Current, Entry
<1>2. \A n \in 0 .. N : RowsUpTo(report', n) = RowsUpTo(report, n)
  BY <1>1, RowsSame
<1>3. \A k \in 1 .. N : EntryValid(journal'.sessions, report', rowFile', k)
  <2>. SUFFICES ASSUME NEW k \in 1 .. N
                PROVE  EntryValid(journal'.sessions, report', rowFile', k)
    OBVIOUS
  <2>1. RowsUpTo(report', k - 1) = RowsUpTo(report, k - 1)
    BY <1>1, <1>2
  <2>2. EntryValid(journal.sessions, report, rowFile, k)
    BY DEF EntriesInv
  <2>. QED
    BY <2>1, <2>2 DEF EntryValid, Gated
<1>4. EntriesInv'
  BY <1>1, <1>3 DEF EntriesInv
<1>5. OrderInv'
  BY <1>1 DEF OrderInv
<1>. QED
  BY <1>1, <1>2, <1>4, <1>5

-----------------------------------------------------------------------------
(* Steps that write no file *)

\* With the files as they were, so is all that is said of them.
LEMMA DiskKept ==
    ASSUME CInv, UNCHANGED disk,
           \A q \in Operators : pc'[q] = "reserved" => pc[q] = "reserved" /\ rmem'[q] = rmem[q]
    PROVE  /\ EntriesInv' /\ OrderInv' /\ OpenInv'
           /\ Open' = Open /\ OpenFile' = OpenFile /\ Cur' = Cur
<1>1. journal' = journal /\ report' = report /\ rowFile' = rowFile
  BY DEF disk
<1>2. /\ EntriesInv' /\ OrderInv' /\ N' = N /\ Cur' = Cur
  BY <1>1, EntriesKept DEF CInv
<1>3. Open' = Open /\ OpenFile' = OpenFile
  BY <1>1, <1>2 DEF Open, Orphan, OpenFile
<1>4. OpenInv'
  BY <1>1, <1>2, <1>3 DEF CInv, OpenInv
<1>. QED
  BY <1>2, <1>3, <1>4

\* A step that writes and sends nothing.
LEMMA QuietKeeps ==
    ASSUME CInv, IInv', UNCHANGED <<disk, asked, heard>>, NEW p \in Operators,
           \A q \in Operators : q # p => pc'[q] = "idle",
           pc'[p] # "reserved",
           ReplyOk(p)'
    PROVE  CInv'
<1>1. /\ EntriesInv' /\ OrderInv' /\ OpenInv'
  BY DiskKept
<1>2. ReplyInv'
  BY DEF ReplyInv, ReplyOk
<1>3. HeardInv' /\ SmokeGate'
  BY DEF CInv, HeardInv, SmokeGate, SmokeRowLegal, disk
<1>. QED
  BY <1>1, <1>2, <1>3 DEF CInv

LEMMA EnterChain ==
    ASSUME CInv, IInv', NEW p \in Operators, NEW c \in {"run", "resolve"}, Enter(p, c)
    PROVE  CInv'
<1>1. pc' = [pc EXCEPT ![p] = "loaded"] /\ \A q \in Operators : pc[q] = "idle"
  BY ConstantsAssumption DEF CInv, IInv, LockInv, Enter, LockFree, Goto
<1>2. pc'[p] = "loaded" /\ \A q \in Operators : q # p => pc'[q] = "idle"
  BY <1>1 DEF CInv, IInv, TypeOK
<1>3. ReplyOk(p)'
  BY <1>2 DEF ReplyOk
<1>. QED
  BY <1>2, <1>3, QuietKeeps DEF Enter

LEMMA LeaveChain ==
    ASSUME CInv, IInv', NEW p \in Operators, pc[p] # "idle", Leave(p),
           UNCHANGED <<disk, asked, heard>>
    PROVE  CInv'
<1>1. \A q \in Operators : pc'[q] = "idle"
  BY HolderKnows DEF CInv, IInv, TypeOK, Leave, Goto
<1>2. ReplyOk(p)'
  BY <1>1 DEF ReplyOk
<1>. QED
  BY <1>1, <1>2, QuietKeeps

\* Where the holder and the others stand after it moved on.
LEMMA HolderMoves ==
    ASSUME CInv, NEW p \in Operators, pc[p] # "idle", NEW place, Goto(p, place)
    PROVE  pc'[p] = place /\ \A q \in Operators : q # p => pc'[q] = "idle"
BY HolderKnows DEF CInv, IInv, TypeOK, Goto

LEMMA StopLoopChain ==
    ASSUME CInv, IInv', NEW p \in Operators, StopLoop(p)
    PROVE  CInv'
<1>1. pc'[p] = "closing" /\ \A q \in Operators : q # p => pc'[q] = "idle"
  BY HolderMoves DEF StopLoop, At
<1>2. ReplyOk(p)'
  BY <1>1 DEF ReplyOk
<1>. QED
  BY <1>1, <1>2, QuietKeeps DEF StopLoop

LEMMA ResolveInterruptedChain ==
    ASSUME CInv, IInv', NEW p \in Operators, ResolveInterrupted(p)
    PROVE  CInv'
<1>1. pc'[p] = "closing" /\ \A q \in Operators : q # p => pc'[q] = "idle"
  BY HolderMoves DEF ResolveInterrupted, Resolving, At
<1>2. ReplyOk(p)'
  BY <1>1 DEF ReplyOk
<1>. QED
  BY <1>1, <1>2, QuietKeeps DEF ResolveInterrupted

\* How long the files of the open session are.
LEMMA OpenFileLength ==
    ASSUME CInv, Open # NoReport
    PROVE  /\ OpenFile = rowFile[Cur] /\ OpenFile \in Seq(Row) /\ Cur \in SessionIds
           /\ Open \in Report /\ Open.rows \in Seq(Row)
           /\ Len(OpenFile) \in Nat /\ Len(Open.rows) \in Nat
           /\ DOMAIN OpenFile = 1 .. Len(OpenFile) /\ DOMAIN Open.rows = 1 .. Len(Open.rows)
           /\ Len(Open.rows) <= Len(OpenFile)
           /\ Len(OpenFile) <= Len(Open.rows) + (IF Open.pending = 0 THEN 0 ELSE 1)
           /\ \A i \in 1 .. Len(Open.rows) : OpenFile[i] = Open.rows[i]
<1>1. Cur \in SessionIds /\ Open \in Report
  BY OpenReport DEF CInv
<1>2. OpenFile = rowFile[Cur] /\ OpenFile \in Seq(Row) /\ Open.rows \in Seq(Row)
  BY <1>1 DEF CInv, IInv, TypeOK, OpenFile, Report
<1>3. /\ Len(OpenFile) \in Nat /\ Len(Open.rows) \in Nat
      /\ DOMAIN OpenFile = 1 .. Len(OpenFile) /\ DOMAIN Open.rows = 1 .. Len(Open.rows)
  BY <1>2
<1>4. RowsLoad(Open, OpenFile)
  BY DEF CInv, OpenInv, ValidSession
<1>5. /\ \A i \in 1 .. Len(Open.rows) : i <= Len(OpenFile) /\ OpenFile[i] = Open.rows[i]
      /\ Len(OpenFile) <= Len(Open.rows) + (IF Open.pending = 0 THEN 0 ELSE 1)
  BY <1>4 DEF RowsLoad
<1>6. Len(Open.rows) <= Len(OpenFile)
  <2>1. CASE Len(Open.rows) = 0
    BY <1>3, <2>1
  <2>2. CASE Len(Open.rows) # 0
    BY <1>3, <1>5, <2>2
  <2>. QED
    BY <2>1, <2>2
<1>. QED
  BY <1>1, <1>2, <1>3, <1>5, <1>6

LEMMA ResolvePendingChain ==
    ASSUME CInv, IInv', NEW p \in Operators, ResolvePending(p)
    PROVE  CInv'
<1>. DEFINE files == rowFile[Current(jmem[p])]
            n == Len(rmem[p].rows)
<1>1. pc[p] = "loaded" /\ Status(p) = "pending"
  BY DEF ResolvePending, Resolving, At
<1>2. jmem[p] = journal /\ rmem[p] = Open /\ Open # NoReport
  BY <1>1, HolderKnows DEF CInv, Status, OrphanStatus
<1>3. files = OpenFile /\ n = Len(Open.rows) /\ Open.pending # 0 /\ Open.pending = End(Open)
  BY <1>1, <1>2, OpenFileLength DEF Cur, Status, OrphanStatus, ResolvePending
<1>4. UNCHANGED <<disk, asked, heard>>
  BY DEF ResolvePending
<1>5. Open' = Open /\ OpenFile' = OpenFile
  BY <1>4 DEF disk, Open, Orphan, OpenFile, Cur
<1>6. \/ /\ Len(OpenFile) > Len(Open.rows)
         /\ reply' = [reply EXCEPT ![p] = OpenFile[Len(Open.rows) + 1]]
         /\ Goto(p, "rowSaved")
      \/ /\ reply' = [reply EXCEPT ![p] = [index |-> Open.pending, result |-> "ambiguous_query"]]
         /\ Goto(p, "answered")
  BY <1>2, <1>3 DEF ResolvePending
<1>7. CASE /\ Len(OpenFile) > Len(Open.rows)
           /\ reply' = [reply EXCEPT ![p] = OpenFile[Len(Open.rows) + 1]]
           /\ Goto(p, "rowSaved")
  <2>1. pc'[p] = "rowSaved" /\ \A q \in Operators : q # p => pc'[q] = "idle"
    BY <1>1, <1>7, HolderMoves
  <2>2. Len(OpenFile) = Len(Open.rows) + 1 /\ Len(Open.rows) + 1 \in DOMAIN OpenFile
    <3>1. /\ Len(OpenFile) \in Nat /\ Len(Open.rows) \in Nat
          /\ Len(OpenFile) <= Len(Open.rows) + 1
      BY <1>2, <1>3, OpenFileLength
    <3>2. Len(OpenFile) > Len(Open.rows)
      BY <1>7
    <3>3. Len(OpenFile) = Len(Open.rows) + 1
      BY <3>1, <3>2
    <3>4. Len(Open.rows) + 1 \in 1 .. Len(OpenFile)
      BY <3>1, <3>3
    <3>5. DOMAIN OpenFile = 1 .. Len(OpenFile)
      BY <1>2, OpenFileLength
    <3>. QED
      BY <3>3, <3>4, <3>5
  <2>3. OpenFile[Len(Open.rows) + 1].index = Open.start + (Len(Open.rows) + 1) - 1
    BY <1>2, <2>2 DEF CInv, OpenInv
  <2>4. Open.start + (Len(Open.rows) + 1) - 1 = Open.pending
    BY <1>2, <1>3, OpenFileLength DEF End, Report
  <2>5. reply'[p] = OpenFile[Len(Open.rows) + 1]
    BY <1>7 DEF CInv, IInv, TypeOK
  <2>6. ReplyOk(p)'
    BY <1>5, <2>1, <2>2, <2>3, <2>4, <2>5 DEF ReplyOk
  <2>. QED
    BY <1>4, <2>1, <2>6, QuietKeeps
<1>8. CASE /\ reply' = [reply EXCEPT ![p] = [index |-> Open.pending, result |-> "ambiguous_query"]]
           /\ Goto(p, "answered")
  <2>1. pc'[p] = "answered" /\ \A q \in Operators : q # p => pc'[q] = "idle"
    BY <1>1, <1>8, HolderMoves
  <2>2. reply'[p] = [index |-> Open.pending, result |-> "ambiguous_query"]
    BY <1>8 DEF CInv, IInv, TypeOK
  <2>3. ReplyOk(p)'
    BY <1>5, <2>1, <2>2 DEF ReplyOk, Truthful
  <2>. QED
    BY <1>4, <2>1, <2>3, QuietKeeps
<1>. QED
  BY <1>6, <1>7, <1>8


-----------------------------------------------------------------------------
(* Where the rows on disk stand *)

\* The row files of a journaled session are the rows its report lists.
LEMMA JournaledRows ==
    ASSUME CInv, NEW k \in 1 .. N
    PROVE  /\ k \in SessionIds /\ k \in Nat /\ k # Cur /\ report[k] \in Report
           /\ rowFile[k] \in Seq(Row) /\ Len(rowFile[k]) \in Nat
           /\ Entry(k).start = report[k].start /\ Entry(k).start \in Nat
           /\ Entry(k).end = Entry(k).start + Len(rowFile[k]) /\ Entry(k).end <= journal.next
           /\ Len(rowFile[k]) = Len(report[k].rows)
           /\ \A i \in 1 .. Len(rowFile[k]) :
                 /\ rowFile[k][i] = report[k].rows[i]
                 /\ rowFile[k][i].index = Entry(k).start + i - 1
<1>. DEFINE r == report[k]
            files == rowFile[k]
<1>1. k \in SessionIds /\ k \in Nat /\ k # Cur
  BY Naturals, ConstantsAssumption DEF CInv, EntriesInv, SessionIds
<1>2. /\ r = Entry(k).sha /\ Entry(k).start = r.start /\ Entry(k).end = End(r)
      /\ ValidSession(r, files, TRUE)
  BY DEF CInv, EntriesInv, EntryValid, Entry
<1>3. r \in Report /\ files \in Seq(Row)
  BY <1>1, <1>2, Naturals DEF CInv, IInv, TypeOK
<1>4. Len(files) \in Nat /\ r.rows \in Seq(Row) /\ Len(r.rows) \in Nat /\ r.start \in Nat
  BY <1>3, ConstantsAssumption DEF Report
<1>5. /\ \A i \in 1 .. Len(r.rows) : i <= Len(files) /\ files[i] = r.rows[i]
      /\ \A i \in 1 .. Len(r.rows) : r.rows[i].index = r.start + i - 1
      /\ Len(files) <= Len(r.rows)
  <2>1. RowsLoad(r, files) /\ r.pending = 0
        /\ \A i \in 1 .. Len(r.rows) : r.rows[i].index = r.start + i - 1
    BY <1>2 DEF ValidSession
  <2>2. /\ \A i \in 1 .. Len(r.rows) : i <= Len(files) /\ files[i] = r.rows[i]
        /\ Len(files) <= Len(r.rows) + 0
    BY <2>1 DEF RowsLoad
  <2>3. Len(files) <= Len(r.rows)
    BY <1>4, <2>2
  <2>. QED
    BY <2>1, <2>2, <2>3
<1>6. Len(files) = Len(r.rows)
  <2>1. CASE Len(r.rows) = 0
    BY <1>4, <1>5, <2>1
  <2>2. CASE Len(r.rows) # 0
    <3>1. Len(r.rows) \in 1 .. Len(r.rows)
      BY <1>4, <2>2
    <3>2. Len(r.rows) <= Len(files)
      BY <1>5, <3>1
    <3>. QED
      BY <1>4, <1>5, <3>2
  <2>. QED
    BY <2>1, <2>2
<1>7. Entry(k).end = Entry(k).start + Len(files) /\ Entry(k).end <= journal.next
  BY <1>2, <1>6 DEF End, CInv, OrderInv
<1>. QED
  BY <1>1, <1>2, <1>3, <1>4, <1>5, <1>6, <1>7

\* Every row on disk has its place, in a journaled session or the open one.
LEMMA RowPlaces ==
    ASSUME CInv, NEW k \in SessionIds, NEW i \in DOMAIN rowFile[k]
    PROVE  /\ rowFile[k][i] \in Row /\ rowFile[k][i].index \in Query
           /\ rowFile[k][i].index \in Nat
           /\ k < Cur => /\ k \in 1 .. N /\ i \in 1 .. Len(rowFile[k])
                        /\ rowFile[k][i].index = Entry(k).start + i - 1
                        /\ Entry(k).start <= rowFile[k][i].index
                        /\ rowFile[k][i].index < Entry(k).end
                        /\ rowFile[k][i].index < journal.next
           /\ k >= Cur => /\ k = Cur /\ Open # NoReport /\ i \in 1 .. Len(OpenFile)
                         /\ rowFile[k] = OpenFile
                         /\ rowFile[k][i].index = journal.next + i - 1
<1>1. rowFile[k] \in Seq(Row)
  BY DEF CInv, IInv, TypeOK
<1>2. i \in 1 .. Len(rowFile[k]) /\ Len(rowFile[k]) \in Nat /\ i \in Nat
  BY <1>1
<1>3. rowFile[k][i] \in Row
  BY <1>1, <1>2
<1>4. rowFile[k][i].index \in Query /\ rowFile[k][i].index \in Nat
  BY <1>3, ConstantsAssumption DEF Row, Query
<1>5. k \in Nat /\ Cur = N + 1 /\ N \in Nat /\ k >= 1
  BY Naturals, ConstantsAssumption DEF CInv, SessionIds
<1>6. CASE k < Cur
  <2>1. k \in 1 .. N
    BY <1>5, <1>6
  <2>2. rowFile[k][i].index = Entry(k).start + i - 1
    BY <1>2, <2>1, JournaledRows
  <2>3. /\ Entry(k).start \in Nat /\ Entry(k).end = Entry(k).start + Len(rowFile[k])
        /\ Entry(k).end <= journal.next /\ journal.next \in Nat
    BY <2>1, JournaledRows, Naturals, ConstantsAssumption DEF CInv
  <2>4. /\ Entry(k).start <= rowFile[k][i].index
        /\ rowFile[k][i].index < Entry(k).end
        /\ rowFile[k][i].index < journal.next
    BY <1>2, <2>2, <2>3
  <2>5. ~(k >= Cur)
    BY <1>5, <1>6
  <2>. QED
    BY <1>2, <1>3, <1>4, <2>1, <2>2, <2>4, <2>5
<1>7. CASE k >= Cur
  <2>1. k = Cur
    <3>1. rowFile[k] # << >>
      BY <1>2
    <3>. QED
      BY <1>5, <1>7, <3>1 DEF CInv, EntriesInv
  <2>2. rowFile[k] = OpenFile /\ OpenFile # << >>
    BY <1>2, <2>1 DEF OpenFile
  <2>3. Open # NoReport
    BY <2>2 DEF CInv, OpenInv
  <2>4. rowFile[k][i].index = journal.next + i - 1
    BY <2>2, <2>3, OpenReport DEF CInv, OpenInv
  <2>. QED
    BY <1>2, <1>3, <1>4, <1>5, <1>7, <2>1, <2>2, <2>3, <2>4
<1>. QED
  BY <1>5, <1>6, <1>7

\* A smoke that passed in a journaled session is on disk.
LEMMA SmokeOnDisk ==
    ASSUME CInv, SmokeOk(RowsUpTo(report, N))
    PROVE  SmokeRowLegal
<1>1. PICK row \in RowsUpTo(report, N) : row.index = 1 /\ row.result = "legal"
  BY DEF SmokeOk
<1>2. PICK k \in 1 .. N : \E i \in DOMAIN report[k].rows : row = report[k].rows[i]
  BY <1>1 DEF RowsUpTo
<1>3. PICK i \in DOMAIN report[k].rows : row = report[k].rows[i]
  BY <1>2
<1>4. /\ k \in SessionIds /\ report[k] \in Report /\ rowFile[k] \in Seq(Row)
      /\ Len(rowFile[k]) = Len(report[k].rows)
  BY JournaledRows
<1>5. DOMAIN report[k].rows = 1 .. Len(report[k].rows)
  BY <1>4 DEF Report
<1>6. i \in 1 .. Len(rowFile[k]) /\ i \in DOMAIN rowFile[k]
  BY <1>3, <1>4, <1>5
<1>7. rowFile[k][i] = row /\ rowFile[k][i] \in Row
  BY <1>3, <1>4, <1>6, JournaledRows
<1>8. row = [index |-> 1, result |-> "legal"]
  BY <1>1, <1>7 DEF Row
<1>. QED
  BY <1>4, <1>6, <1>7, <1>8 DEF SmokeRowLegal

\* A session with a query after the first one left was gated by the smoke.
LEMMA GateOpens ==
    ASSUME CInv, Open # NoReport, End(Open) < Open.planned, End(Open) > 1
    PROVE  SmokeOk(RowsUpTo(report, N))
<1>1. ValidSession(Open, OpenFile, FALSE) /\ Gated(Open, report, N)
  BY DEF CInv, OpenInv
<1>2. Open.planned <= Open.start + Open.requested
  BY <1>1 DEF ValidSession
<1>3. Open.planned \in Nat /\ Open.start \in Nat /\ Open.requested \in Nat /\ Len(Open.rows) \in Nat
  BY OpenFileLength, ConstantsAssumption DEF Report
<1>4. ~(Open.start = 1 /\ Open.requested = 1)
  BY <1>2, <1>3 DEF End
<1>. QED
  BY <1>1, <1>4 DEF Gated

-----------------------------------------------------------------------------
(* Sending a query and hearing of it *)

LEMMA AskChain ==
    ASSUME CInv, IInv', NEW p \in Operators, Ask(p)
    PROVE  CInv'
<1>1. pc[p] = "marked" /\ UNCHANGED <<disk, heard, reply>>
  BY DEF Ask, At
<1>2. pc'[p] = "inflight" /\ \A q \in Operators : q # p => pc'[q] = "idle"
  BY HolderMoves DEF Ask, At
<1>3. EntriesInv' /\ OrderInv' /\ OpenInv' /\ Open' = Open /\ OpenFile' = OpenFile
  BY <1>1, <1>2, DiskKept
<1>4. Open # NoReport /\ rmem[p] = Open /\ Open.pending # 0 /\ Open.pending = End(Open)
      /\ End(Open) < Open.planned
  BY <1>1, HolderKnows DEF CInv, IInv, PlaceInv, SessionInv
<1>5. Open.pending \in Query /\ asked \in [Query -> Nat]
  BY <1>4, OpenFileLength DEF Report, CInv, IInv, TypeOK
<1>6. asked'[Open.pending] > 0 /\ \A g \in Query : asked'[g] = asked[g] \/ g = Open.pending
  BY <1>4, <1>5 DEF Ask
<1>7. ReplyInv'
  <2>1. Len(OpenFile) = Len(Open.rows)
    BY <1>1 DEF CInv, ReplyInv, ReplyOk
  <2>. QED
    BY <1>2, <1>3, <1>6, <2>1 DEF ReplyInv, ReplyOk
<1>8. HeardInv'
  <2>. SUFFICES ASSUME NEW k \in SessionIds, NEW i \in DOMAIN rowFile[k]
                PROVE  Truthful(rowFile[k][i], asked', heard)
    BY <1>1 DEF HeardInv, disk
  <2>1. Truthful(rowFile[k][i], asked, heard) /\ rowFile[k][i].index \in Query
    BY RowPlaces DEF CInv, HeardInv
  <2>. QED
    BY <1>6, <2>1 DEF Truthful
<1>9. SmokeGate'
  <2>. SUFFICES ASSUME NEW g \in Query, g > 1, asked'[g] > 0 PROVE SmokeRowLegal
    BY <1>1 DEF SmokeGate, SmokeRowLegal, disk
  <2>1. CASE asked[g] > 0
    BY <2>1 DEF CInv, SmokeGate
  <2>2. CASE g = Open.pending
    BY <1>4, <2>2, GateOpens, SmokeOnDisk
  <2>. QED
    BY <1>6, <2>1, <2>2
<1>. QED
  BY <1>3, <1>7, <1>8, <1>9 DEF CInv

LEMMA ReceiveChain ==
    ASSUME CInv, IInv', NEW p \in Operators, NEW r \in Replies, Receive(p, r)
    PROVE  CInv'
<1>1. pc[p] = "inflight" /\ UNCHANGED <<disk, asked>>
  BY DEF Receive, At
<1>2. pc'[p] = "answered" /\ \A q \in Operators : q # p => pc'[q] = "idle"
  BY HolderMoves DEF Receive, At
<1>3. EntriesInv' /\ OrderInv' /\ OpenInv' /\ Open' = Open /\ OpenFile' = OpenFile
  BY <1>1, <1>2, DiskKept
<1>4. Open # NoReport /\ rmem[p] = Open /\ Open.pending # 0 /\ Open.pending = End(Open)
  BY <1>1, HolderKnows DEF CInv, IInv, PlaceInv, SessionInv
<1>5. Open.pending \in Query
  BY <1>4, OpenFileLength DEF Report
<1>6. /\ reply'[p] = [index |-> Open.pending, result |-> r]
      /\ heard'[Open.pending] = r /\ \A g \in Query : g # Open.pending => heard'[g] = heard[g]
  BY <1>4, <1>5 DEF Receive, CInv, IInv, TypeOK
<1>7. asked[Open.pending] > 0 /\ Len(OpenFile) = Len(Open.rows)
  BY <1>1 DEF CInv, ReplyInv, ReplyOk
<1>8. ReplyInv'
  BY <1>1, <1>2, <1>3, <1>6, <1>7 DEF ReplyInv, ReplyOk, Truthful
<1>9. HeardInv'
  <2>. SUFFICES ASSUME NEW k \in SessionIds, NEW i \in DOMAIN rowFile[k]
                PROVE  Truthful(rowFile[k][i], asked, heard')
    BY <1>1 DEF HeardInv, disk
  <2>1. Truthful(rowFile[k][i], asked, heard) /\ rowFile[k][i].index \in Query
    BY RowPlaces DEF CInv, HeardInv
  <2>2. rowFile[k][i].index # Open.pending
    <3>1. /\ Open.start = journal.next /\ journal.next \in Nat /\ Len(Open.rows) \in Nat
          /\ Open.pending = journal.next + Len(Open.rows) /\ Cur \in Nat /\ k \in Nat
      BY <1>4, OpenReport, Naturals, ConstantsAssumption DEF CInv, End, SessionIds
    <3>2. CASE k < Cur
      <4>1. rowFile[k][i].index < journal.next /\ rowFile[k][i].index \in Nat
        BY <3>2, RowPlaces
      <4>. QED
        BY <3>1, <4>1
    <3>3. CASE k >= Cur
      <4>1. rowFile[k][i].index = journal.next + i - 1 /\ i \in 1 .. Len(OpenFile)
        BY <3>3, RowPlaces
      <4>2. i \in 1 .. Len(Open.rows)
        BY <1>7, <4>1
      <4>. QED
        BY <3>1, <4>1, <4>2
    <3>. QED
      BY <3>1, <3>2, <3>3
  <2>. QED
    BY <1>6, <2>1, <2>2 DEF Truthful
<1>10. SmokeGate'
  BY <1>1 DEF CInv, SmokeGate, SmokeRowLegal, disk
<1>. QED
  BY <1>3, <1>8, <1>9, <1>10 DEF CInv


-----------------------------------------------------------------------------
(* Writing a row, and the report that lists it *)

LEMMA AppendedRow ==
    ASSUME NEW f \in Seq(Row), NEW row \in Row
    PROVE  /\ Append(f, row) \in Seq(Row) /\ Len(f) \in Nat
           /\ Len(Append(f, row)) = Len(f) + 1
           /\ \A i \in 1 .. Len(f) : Append(f, row)[i] = f[i]
           /\ Append(f, row)[Len(f) + 1] = row
OBVIOUS

LEMMA WriteRowChain ==
    ASSUME CInv, IInv', NEW p \in Operators, WriteRow(p)
    PROVE  CInv'
<1>. DEFINE row == reply[p]
<1>1. pc[p] = "answered" /\ UNCHANGED <<journal, report, asked, heard, reply>>
  BY DEF WriteRow, At
<1>2. pc'[p] = "rowSaved" /\ \A q \in Operators : q # p => pc'[q] = "idle"
  BY HolderMoves DEF WriteRow, At
<1>3. Open # NoReport /\ rmem[p] = Open /\ jmem[p] = journal /\ Open.pending # 0
      /\ Open.pending = End(Open)
  BY <1>1, HolderKnows DEF CInv, IInv, PlaceInv, SessionInv
<1>4. /\ OpenFile = rowFile[Cur] /\ Cur \in SessionIds /\ OpenFile \in Seq(Row)
      /\ row \in Row /\ rowFile \in [SessionIds -> Seq(Row)]
  BY <1>3, OpenFileLength DEF CInv, IInv, TypeOK
<1>5. rowFile' = [rowFile EXCEPT ![Cur] = Append(OpenFile, row)]
      /\ Len(OpenFile) = Len(Open.rows)
  BY <1>3, <1>4 DEF WriteRow, Cur
<1>6. \A k \in SessionIds : k # Cur => rowFile'[k] = rowFile[k]
  BY <1>4, <1>5
<1>7. EntriesInv' /\ OrderInv' /\ N' = N /\ Cur' = Cur
  <2>1. \A k \in 1 .. N : rowFile'[k] = rowFile[k]
    BY <1>6, JournaledRows
  <2>2. \A s \in SessionIds : s > Cur => rowFile'[s] = rowFile[s]
    BY <1>4, <1>6, ConstantsAssumption DEF SessionIds
  <2>. QED
    BY <1>1, <2>1, <2>2, EntriesKept DEF CInv
<1>8. Open' = Open /\ OpenFile' = Append(OpenFile, row)
  BY <1>1, <1>4, <1>5, <1>7 DEF Open, Orphan, OpenFile, Cur
<1>9. /\ Len(OpenFile') = Len(OpenFile) + 1 /\ Len(OpenFile) \in Nat /\ OpenFile' \in Seq(Row)
      /\ \A i \in 1 .. Len(OpenFile) : OpenFile'[i] = OpenFile[i]
      /\ OpenFile'[Len(OpenFile) + 1] = row
  BY <1>4, <1>8, AppendedRow
<1>10. /\ row.index = Open.pending /\ Truthful(row, asked, heard)
  BY <1>1 DEF CInv, ReplyInv, ReplyOk
<1>11. OpenInv'
  <2>1. ValidSession(Open, OpenFile', FALSE)
    <3>1. ValidSession(Open, OpenFile, FALSE)
      BY <1>3 DEF CInv, OpenInv
    <3>2. RowsLoad(Open, OpenFile')
      <4>1. \A i \in 1 .. Len(Open.rows) : i <= Len(OpenFile') /\ OpenFile'[i] = Open.rows[i]
        BY <1>3, <1>5, <1>9, OpenFileLength
      <4>2. Len(OpenFile') <= Len(Open.rows) + 1
        BY <1>5, <1>9
      <4>. QED
        BY <1>3, <3>1, <4>1, <4>2 DEF ValidSession, RowsLoad
    <3>. QED
      BY <3>1, <3>2 DEF ValidSession
  <2>2. \A i \in DOMAIN OpenFile' : OpenFile'[i].index = Open.start + i - 1
    <3>. SUFFICES ASSUME NEW i \in 1 .. Len(OpenFile) + 1
                  PROVE  OpenFile'[i].index = Open.start + i - 1
      BY <1>9
    <3>1. CASE i \in 1 .. Len(OpenFile)
      <4>1. i \in DOMAIN OpenFile
        BY <1>4, <3>1
      <4>. QED
        BY <1>3, <1>9, <3>1, <4>1 DEF CInv, OpenInv
    <3>2. CASE i = Len(OpenFile) + 1
      <4>1. OpenFile'[i].index = Open.start + Len(OpenFile)
        BY <1>3, <1>5, <1>9, <1>10, <3>2 DEF End
      <4>2. Open.start \in Nat
        BY <1>3, OpenFileLength, ConstantsAssumption DEF Report
      <4>. QED
        BY <1>9, <3>2, <4>1, <4>2
    <3>. QED
      BY <1>9, <3>1, <3>2
  <2>. QED
    BY <1>1, <1>2, <1>3, <1>7, <1>8, <2>1, <2>2 DEF CInv, OpenInv
<1>12. ReplyInv'
  BY <1>1, <1>2, <1>5, <1>8, <1>9, <1>10 DEF ReplyInv, ReplyOk
<1>13. HeardInv'
  <2>. SUFFICES ASSUME NEW k \in SessionIds, NEW i \in DOMAIN rowFile'[k]
                PROVE  Truthful(rowFile'[k][i], asked, heard)
    BY <1>1 DEF HeardInv
  <2>1. CASE k # Cur
    BY <1>6, <2>1 DEF CInv, HeardInv
  <2>2. CASE k = Cur
    <3>1. rowFile'[k] = OpenFile'
      BY <1>4, <1>5, <1>8, <2>2
    <3>2. i \in 1 .. Len(OpenFile) + 1
      BY <1>9, <3>1
    <3>3. CASE i \in 1 .. Len(OpenFile)
      BY <1>4, <1>9, <2>2, <3>1, <3>3 DEF CInv, HeardInv
    <3>4. CASE i = Len(OpenFile) + 1
      BY <1>9, <1>10, <3>1, <3>4
    <3>. QED
      BY <1>9, <3>2, <3>3, <3>4
  <2>. QED
    BY <2>1, <2>2
<1>14. SmokeGate'
  <2>. SUFFICES ASSUME SmokeRowLegal PROVE SmokeRowLegal'
    BY <1>1 DEF CInv, SmokeGate
  <2>1. PICK k \in SessionIds : \E i \in DOMAIN rowFile[k] :
                rowFile[k][i] = [index |-> 1, result |-> "legal"]
    BY DEF SmokeRowLegal
  <2>2. PICK i \in DOMAIN rowFile[k] : rowFile[k][i] = [index |-> 1, result |-> "legal"]
    BY <2>1
  <2>3. i \in DOMAIN rowFile'[k] /\ rowFile'[k][i] = rowFile[k][i]
    <3>1. CASE k # Cur
      BY <1>6, <3>1
    <3>2. CASE k = Cur
      <4>1. rowFile'[k] = OpenFile' /\ rowFile[k] = OpenFile
        BY <1>4, <1>5, <1>8, <3>2
      <4>2. i \in 1 .. Len(OpenFile) /\ DOMAIN OpenFile' = 1 .. Len(OpenFile) + 1
        BY <1>4, <1>9, <4>1
      <4>. QED
        BY <1>9, <4>1, <4>2
    <3>. QED
      BY <3>1, <3>2
  <2>. QED
    BY <2>2, <2>3 DEF SmokeRowLegal
<1>. QED
  BY <1>7, <1>11, <1>12, <1>13, <1>14 DEF CInv

\* A report that continues the journal, was gated and agrees with the row files
\* may be written.
LEMMA ReportChain ==
    ASSUME CInv, IInv', NEW p \in Operators, pc[p] # "idle", Cur \in SessionIds,
           NEW r \in Report, SaveReport(p, r),
           UNCHANGED <<journal, rowFile, reply, asked, heard>>,
           NEW place \in {"loop", "marked", "closing", "finalized"}, Goto(p, place),
           r.start = journal.next, ValidSession(r, OpenFile, FALSE), Gated(r, report, N),
           \A i \in DOMAIN OpenFile : OpenFile[i].index = r.start + i - 1,
           place = "marked" => Len(OpenFile) = Len(r.rows)
    PROVE  CInv'
<1>1. /\ Open' = r /\ Cur' = Cur /\ \A s \in SessionIds : s # Cur => report'[s] = report[s]
  BY SaveReportEffect DEF CInv
<1>2. pc'[p] = place /\ \A q \in Operators : q # p => pc'[q] = "idle"
  BY HolderMoves
<1>3. EntriesInv' /\ OrderInv' /\ N' = N /\ RowsUpTo(report', N') = RowsUpTo(report, N)
  <2>1. \A k \in 1 .. N : report'[k] = report[k]
    BY <1>1, JournaledRows
  <2>. QED
    BY <2>1, EntriesKept DEF CInv
<1>4. OpenFile' = OpenFile
  BY <1>1 DEF OpenFile
<1>5. r # NoReport
  BY ConstantsAssumption
<1>6. OpenInv'
  BY <1>1, <1>2, <1>3, <1>4, <1>5 DEF CInv, OpenInv, Gated
<1>7. ReplyInv'
  BY <1>1, <1>2, <1>4 DEF ReplyInv, ReplyOk
<1>8. HeardInv' /\ SmokeGate'
  BY DEF CInv, HeardInv, SmokeGate, SmokeRowLegal
<1>. QED
  BY <1>3, <1>6, <1>7, <1>8 DEF CInv

LEMMA OpenSessionChain ==
    ASSUME CInv, IInv', NEW p \in Operators, OpenSession(p)
    PROVE  CInv'
<1>. USE ConstantsAssumption
<1>. DEFINE r == rmem[p]
<1>1. /\ pc[p] = "reserved" /\ Cur \in SessionIds /\ Open = NoReport /\ r \in Report
      /\ r.start = journal.next
  BY DEF CInv, IInv, MemInv, OpenSession, At
<1>2. /\ r = NewReport(journal.next, r.requested) /\ journal.next < ExpectedQueries
      /\ Gated(r, report, N) /\ OpenFile = << >>
  BY <1>1 DEF CInv, OpenInv
<1>3. r.requested \in 1 .. MaxBatch /\ journal.next \in Nat
  BY <1>1, Naturals DEF Report, CInv
<1>4. /\ r.rows = << >> /\ r.pending = 0 /\ r.complete = FALSE /\ r.finalized = FALSE
      /\ r.planned = AtMostEnd(journal.next + r.requested)
  BY <1>2 DEF NewReport
<1>5. /\ r.start < r.planned /\ r.planned <= ExpectedQueries
      /\ r.planned <= r.start + r.requested /\ r.planned \in Nat
  BY <1>1, <1>2, <1>3, <1>4 DEF AtMostEnd
<1>6. End(r) = r.start /\ Len(r.rows) = 0 /\ Len(OpenFile) = 0
  BY <1>1, <1>2, <1>3, <1>4 DEF End
<1>7. RowsLoad(r, OpenFile)
  BY <1>1, <1>3, <1>4, <1>5, <1>6 DEF RowsLoad
<1>8. ValidSession(r, OpenFile, FALSE)
  BY <1>1, <1>3, <1>4, <1>5, <1>6, <1>7 DEF ValidSession
<1>9. \A i \in DOMAIN OpenFile : OpenFile[i].index = r.start + i - 1
  BY <1>2
<1>. QED
  BY <1>1, <1>2, <1>8, <1>9, ReportChain DEF OpenSession

LEMMA MarkPendingChain ==
    ASSUME CInv, IInv', NEW p \in Operators, MarkPending(p)
    PROVE  CInv'
<1>. DEFINE r == [rmem[p] EXCEPT !.pending = End(rmem[p])]
<1>1. pc[p] = "loop" /\ rmem[p] = Open /\ Open # NoReport /\ Open.pending = 0
  BY HolderKnows DEF MarkPending, At, CInv, IInv, PlaceInv
<1>2. Open \in Report /\ Cur \in SessionIds /\ End(Open) # Open.planned
      /\ End(Open) \in 1 .. ExpectedQueries /\ Open.start = journal.next
      /\ End(Open) <= Open.planned
  BY <1>1, OpenReport DEF MarkPending, Exhausted, CInv
<1>3. End(Open) \in Query
  BY <1>2, ConstantsAssumption DEF Query, Report
<1>4. /\ r \in Report /\ r.pending = End(Open) /\ r.start = Open.start /\ r.rows = Open.rows
      /\ r.requested = Open.requested /\ r.planned = Open.planned
      /\ r.complete = Open.complete /\ r.finalized = Open.finalized /\ End(r) = End(Open)
  BY <1>1, <1>2, <1>3 DEF Report, End
<1>5. ValidSession(Open, OpenFile, FALSE) /\ Gated(Open, report, N)
      /\ \A i \in DOMAIN OpenFile : OpenFile[i].index = Open.start + i - 1
  BY <1>1 DEF CInv, OpenInv
<1>6. Len(OpenFile) = Len(Open.rows) /\ Len(OpenFile) \in Nat
  BY <1>1, OpenFileLength
<1>7. ~Open.complete /\ ~Open.finalized
  BY <1>2, <1>5 DEF ValidSession, RowsLoad
<1>. HIDE DEF r
<1>8. ValidSession(r, OpenFile, FALSE) /\ Gated(r, report, N)
  <2>1. RowsLoad(r, OpenFile)
    <3>1. RowsLoad(Open, OpenFile)
      BY <1>5 DEF ValidSession
    <3>2. Len(OpenFile) <= Len(r.rows) + 1 /\ r.pending # 0
      BY <1>2, <1>4, <1>6
    <3>3. /\ End(r) <= r.planned
          /\ \A i \in 1 .. Len(r.rows) : i <= Len(OpenFile) /\ OpenFile[i] = r.rows[i]
          /\ r.complete <=> End(r) = r.planned
      BY <1>4, <3>1 DEF RowsLoad
    <3>. QED
      BY <1>4, <1>7, <3>2, <3>3 DEF RowsLoad
  <2>. QED
    BY <1>4, <1>5, <1>7, <2>1 DEF ValidSession, Gated
<1>9. SaveReport(p, r) /\ Goto(p, "marked")
      /\ UNCHANGED <<journal, rowFile, reply, asked, heard>>
  BY DEF MarkPending, r
<1>. QED
  BY <1>1, <1>2, <1>4, <1>5, <1>6, <1>8, <1>9, ReportChain


LEMMA RecordRowChain ==
    ASSUME CInv, IInv', NEW p \in Operators, RecordRow(p)
    PROVE  CInv'
<1>. DEFINE o == rmem[p]
            r == [o EXCEPT !.rows = Append(@, reply[p]), !.pending = 0,
                           !.complete = End(o) + 1 = o.planned]
            place == IF command[p] = "resolve" \/ reply[p].result = "transport_failure"
                     THEN "closing" ELSE "loop"
<1>1. pc[p] = "rowSaved" /\ o = Open /\ Open # NoReport /\ Open.pending # 0
      /\ Open.pending = End(Open) /\ End(Open) < Open.planned
  BY HolderKnows DEF RecordRow, At, CInv, IInv, PlaceInv, SessionInv
<1>2. Open \in Report /\ Cur \in SessionIds /\ Open.start = journal.next
      /\ Open.rows \in Seq(Row) /\ reply[p] \in Row
  BY <1>1, OpenReport, OpenFileLength DEF CInv, IInv, TypeOK
<1>3. /\ Append(Open.rows, reply[p]) \in Seq(Row) /\ Len(Open.rows) \in Nat
      /\ Len(Append(Open.rows, reply[p])) = Len(Open.rows) + 1
      /\ \A i \in 1 .. Len(Open.rows) : Append(Open.rows, reply[p])[i] = Open.rows[i]
      /\ Append(Open.rows, reply[p])[Len(Open.rows) + 1] = reply[p]
  BY <1>2, AppendedRow
<1>4. /\ r \in Report /\ r.pending = 0 /\ r.start = Open.start
      /\ r.rows = Append(Open.rows, reply[p])
      /\ r.requested = Open.requested /\ r.planned = Open.planned
      /\ r.complete = (End(Open) + 1 = Open.planned) /\ r.finalized = Open.finalized
  BY <1>1, <1>2, <1>3 DEF Report
<1>5. ValidSession(Open, OpenFile, FALSE) /\ Gated(Open, report, N)
      /\ \A i \in DOMAIN OpenFile : OpenFile[i].index = Open.start + i - 1
  BY <1>1 DEF CInv, OpenInv
<1>6. Len(OpenFile) = Len(Open.rows) + 1 /\ OpenFile[Len(Open.rows) + 1] = reply[p]
  BY <1>1 DEF CInv, ReplyInv, ReplyOk
<1>7. ~Open.finalized
  BY <1>1, <1>5 DEF ValidSession, RowsLoad
<1>8. Open.start \in Nat /\ Open.planned \in Nat /\ End(Open) \in Nat
  BY <1>2, <1>3, ConstantsAssumption DEF Report, End
<1>9. SaveReport(p, r) /\ Goto(p, place) /\ place \in {"loop", "closing"}
      /\ UNCHANGED <<journal, rowFile, reply, asked, heard>>
  BY DEF RecordRow
<1>. HIDE DEF r, o, place
<1>10. End(r) = End(Open) + 1 /\ Len(r.rows) = Len(OpenFile)
  BY <1>3, <1>4, <1>6, <1>8 DEF End
<1>11. \A i \in 1 .. Len(r.rows) : OpenFile[i] = r.rows[i]
  <2>. SUFFICES ASSUME NEW i \in 1 .. Len(Open.rows) + 1 PROVE OpenFile[i] = r.rows[i]
    BY <1>6, <1>10
  <2>1. CASE i \in 1 .. Len(Open.rows)
    BY <1>1, <1>3, <1>4, <2>1, OpenFileLength
  <2>2. CASE i = Len(Open.rows) + 1
    BY <1>3, <1>4, <1>6, <2>2
  <2>. QED
    BY <1>3, <2>1, <2>2
<1>12. \A i \in 1 .. Len(r.rows) : r.rows[i].index = r.start + i - 1
  <2>1. DOMAIN OpenFile = 1 .. Len(OpenFile)
    BY <1>1, OpenFileLength
  <2>. QED
    BY <1>4, <1>5, <1>10, <1>11, <2>1
<1>13. RowsLoad(r, OpenFile)
  <2>1. Len(OpenFile) \in Nat /\ Len(OpenFile) <= Len(r.rows) + 0
    BY <1>3, <1>6, <1>10
  <2>2. End(r) <= r.planned
    BY <1>1, <1>4, <1>8, <1>10
  <2>3. \A i \in 1 .. Len(r.rows) : i <= Len(OpenFile) /\ OpenFile[i] = r.rows[i]
    BY <1>10, <1>11, <2>1
  <2>4. r.complete <=> End(r) = r.planned
    BY <1>4, <1>10
  <2>. QED
    BY <1>4, <2>1, <2>2, <2>3, <2>4 DEF RowsLoad
<1>14. ValidSession(r, OpenFile, FALSE) /\ Gated(r, report, N)
  BY <1>4, <1>5, <1>7, <1>12, <1>13 DEF ValidSession, Gated
<1>. QED
  BY <1>1, <1>2, <1>4, <1>5, <1>9, <1>14, ReportChain

LEMMA FinalizeChain ==
    ASSUME CInv, IInv', NEW p \in Operators, Finalize(p)
    PROVE  CInv'
<1>. DEFINE r == [rmem[p] EXCEPT !.planned = End(rmem[p]), !.complete = TRUE, !.finalized = TRUE]
<1>1. pc[p] = "closing" /\ rmem[p] = Open /\ Open # NoReport /\ Open.pending = 0
  BY HolderKnows DEF Finalize, At, CInv, IInv, PlaceInv
<1>2. Open \in Report /\ Cur \in SessionIds /\ Open.start = journal.next
      /\ End(Open) \in 1 .. ExpectedQueries /\ End(Open) <= Open.planned
  BY <1>1, OpenReport DEF CInv
<1>3. /\ r \in Report /\ r.pending = 0 /\ r.start = Open.start /\ r.rows = Open.rows
      /\ r.requested = Open.requested /\ r.planned = End(Open) /\ r.complete /\ r.finalized
      /\ End(r) = End(Open)
  BY <1>1, <1>2 DEF Report, End
<1>4. ValidSession(Open, OpenFile, FALSE) /\ Gated(Open, report, N)
      /\ \A i \in DOMAIN OpenFile : OpenFile[i].index = Open.start + i - 1
  BY <1>1 DEF CInv, OpenInv
<1>5. SaveReport(p, r) /\ Goto(p, "finalized")
      /\ UNCHANGED <<journal, rowFile, reply, asked, heard>>
  BY DEF Finalize
<1>. HIDE DEF r
<1>6. Open.start \in Nat /\ Open.planned \in Nat /\ End(Open) \in Nat /\ Open.requested \in Nat
      /\ Len(Open.rows) \in Nat /\ ExpectedQueries \in Nat
  BY <1>1, <1>2, OpenFileLength, ConstantsAssumption DEF Report
<1>7. RowsLoad(r, OpenFile)
  <2>1. RowsLoad(Open, OpenFile)
    BY <1>4 DEF ValidSession
  <2>. QED
    BY <1>1, <1>3, <1>6, <2>1 DEF RowsLoad
<1>8. ValidSession(r, OpenFile, FALSE)
  <2>1. /\ Open.planned <= ExpectedQueries /\ Open.planned <= Open.start + Open.requested
        /\ Open.requested \in 1 .. MaxBatch
        /\ \A i \in 1 .. Len(Open.rows) : Open.rows[i].index = Open.start + i - 1
    BY <1>4 DEF ValidSession
  <2>2. r.start <= r.planned /\ r.planned <= ExpectedQueries /\ r.planned <= r.start + r.requested
    BY <1>2, <1>3, <1>6, <2>1 DEF End
  <2>. QED
    BY <1>3, <1>7, <2>1, <2>2 DEF ValidSession
<1>9. Gated(r, report, N)
  BY <1>3, <1>4 DEF Gated
<1>. QED
  BY <1>1, <1>2, <1>3, <1>4, <1>5, <1>8, <1>9, ReportChain

-----------------------------------------------------------------------------
(* Writing the journal *)

\* A step that changes only the reservation.
LEMMA ReservationChain ==
    ASSUME CInv, NEW a \in SessionIds \cup {0},
           journal' = [journal EXCEPT !.active = a], UNCHANGED <<report, rowFile, asked, heard>>
    PROVE  /\ EntriesInv' /\ OrderInv' /\ HeardInv' /\ SmokeGate'
           /\ N' = N /\ Cur' = Cur /\ Open' = Open /\ OpenFile' = OpenFile
           /\ journal'.next = journal.next /\ journal'.active = a
<1>1. /\ journal'.next = journal.next /\ journal'.sessions = journal.sessions
      /\ journal'.complete = journal.complete /\ journal'.active = a
  BY DEF CInv, IInv, TypeOK, Journal
<1>2. EntriesInv' /\ OrderInv' /\ N' = N /\ Cur' = Cur
  BY <1>1, EntriesKept DEF CInv
<1>3. Open' = Open /\ OpenFile' = OpenFile
  BY <1>2 DEF OpenFile, Open, Orphan, Cur
<1>4. HeardInv' /\ SmokeGate'
  BY DEF CInv, HeardInv, SmokeGate, SmokeRowLegal
<1>. QED
  BY <1>1, <1>2, <1>3, <1>4

LEMMA RunReserveChain ==
    ASSUME CInv, IInv', NEW p \in Operators, NEW m \in 1 .. MaxBatch, RunReserve(p, m)
    PROVE  CInv'
<1>1. pc[p] = "loaded" /\ jmem[p] = journal
  BY HolderKnows DEF RunReserve, At, CInv
<1>2. /\ Cur \in SessionIds /\ Open = NoReport /\ GatePasses(journal, m)
      /\ journal' = [journal EXCEPT !.active = Cur] /\ rmem' = [rmem EXCEPT ![p] = NewReport(journal.next, m)]
      /\ Goto(p, "reserved") /\ UNCHANGED <<report, rowFile, asked, heard>>
  BY <1>1 DEF RunReserve, SaveJournal, Cur, Open, Orphan
<1>3. pc'[p] = "reserved" /\ \A q \in Operators : q # p => pc'[q] = "idle"
  BY <1>1, <1>2, HolderMoves
<1>4. rmem'[p] = NewReport(journal.next, m)
  BY <1>2 DEF CInv, IInv, TypeOK
<1>5. NewReport(journal.next, m).requested = m /\ NewReport(journal.next, m).start = journal.next
  BY DEF NewReport
<1>6. journal.next < ExpectedQueries
  <2>1. ~journal.complete
    BY <1>2 DEF GatePasses
  <2>. QED
    BY <2>1, Naturals, ConstantsAssumption DEF CInv, EntriesInv
<1>7. Gated(NewReport(journal.next, m), report, N)
  BY <1>2, <1>5 DEF GatePasses, Gated, RowsUpTo, SessionRows, N
<1>8. /\ EntriesInv' /\ OrderInv' /\ HeardInv' /\ SmokeGate'
      /\ N' = N /\ Cur' = Cur /\ Open' = Open /\ OpenFile' = OpenFile
      /\ journal'.next = journal.next /\ journal'.active = Cur
  BY <1>2, ReservationChain
<1>9. OpenInv'
  <2>1. OpenFile = << >>
    BY <1>2 DEF CInv, OpenInv
  <2>2. \A q \in Operators : pc'[q] = "reserved" =>
          /\ rmem'[q] = NewReport(journal'.next, rmem'[q].requested)
          /\ journal'.next < ExpectedQueries
          /\ Gated(rmem'[q], report', N')
    BY <1>2, <1>3, <1>4, <1>5, <1>6, <1>7, <1>8
  <2>. QED
    BY <1>2, <1>8, <2>1, <2>2 DEF OpenInv
<1>10. ReplyInv'
  BY <1>3 DEF ReplyInv, ReplyOk
<1>. QED
  BY <1>8, <1>9, <1>10 DEF CInv

LEMMA ResolveReservedChain ==
    ASSUME CInv, IInv', NEW p \in Operators, ResolveReserved(p)
    PROVE  CInv'
<1>1. pc[p] = "loaded" /\ Leave(p) /\ UNCHANGED <<report, rowFile, asked, heard>>
  BY DEF ResolveReserved, Resolving, At
<1>2. journal' = [journal EXCEPT !.active = 0]
  BY <1>1, HolderKnows DEF ResolveReserved, CInv
<1>3. \A q \in Operators : pc'[q] = "idle"
  BY <1>1, HolderKnows DEF CInv, IInv, TypeOK, Leave, Goto
<1>4. /\ EntriesInv' /\ OrderInv' /\ HeardInv' /\ SmokeGate'
      /\ N' = N /\ Cur' = Cur /\ Open' = Open /\ OpenFile' = OpenFile
      /\ journal'.next = journal.next /\ journal'.active = 0
  BY <1>1, <1>2, ReservationChain
<1>5. OpenInv'
  BY <1>1, <1>3, <1>4 DEF CInv, OpenInv
<1>6. ReplyInv'
  BY <1>3 DEF ReplyInv, ReplyOk
<1>. QED
  BY <1>4, <1>5, <1>6 DEF CInv


\* The journal with a finalized session appended: what it lists.
LEMMA AppendedEntries ==
    ASSUME CInv, Open # NoReport, Open.pending = 0, journal' = Appended(journal, Open)
    PROVE  /\ N' = N + 1 /\ N \in Nat /\ Cur' = N + 2 /\ Cur = N + 1
           /\ \A k \in 1 .. N : journal'.sessions[k] = journal.sessions[k]
           /\ journal'.sessions[N + 1] = [start |-> journal.next, end |-> End(Open), sha |-> Open]
           /\ journal'.next = End(Open) /\ journal'.active = 0
           /\ journal'.complete = (End(Open) = ExpectedQueries)
           /\ Open.start = journal.next /\ N + 1 \in SessionIds /\ End(Open) \in Nat
           /\ journal.next <= End(Open) /\ journal.next \in Nat
<1>. DEFINE entry == [start |-> journal.next, end |-> End(Open), sha |-> Open]
            Entries == [start : 1 .. ExpectedQueries, end : 1 .. ExpectedQueries, sha : Report]
<1>1. /\ Open \in Report /\ Open.start = journal.next /\ End(Open) \in 1 .. ExpectedQueries
      /\ Cur \in SessionIds /\ Len(Open.rows) \in Nat
  BY OpenReport DEF CInv
<1>2. N \in Nat /\ Cur = N + 1 /\ journal.next \in 1 .. ExpectedQueries
  BY Naturals DEF CInv
<1>3. End(Open) = journal.next + Len(Open.rows)
  BY <1>1 DEF End
<1>4. journal.sessions \in Seq(Entries) /\ entry \in Entries
  BY <1>1, <1>2 DEF CInv, IInv, TypeOK, Journal
<1>5. /\ journal'.sessions = Append(journal.sessions, entry)
      /\ journal'.next = End(Open) /\ journal'.active = 0
      /\ journal'.complete = (End(Open) = ExpectedQueries)
  BY <1>3 DEF Appended
<1>. HIDE DEF Entries, entry
<1>6. /\ N' = N + 1
      /\ \A k \in 1 .. N : journal'.sessions[k] = journal.sessions[k]
      /\ journal'.sessions[N + 1] = entry
  BY <1>4, <1>5 DEF N
<1>7. Cur' = N + 2
  BY <1>2, <1>6 DEF Cur, Current, N
<1>8. journal.next \in Nat /\ End(Open) \in Nat /\ journal.next <= End(Open)
  BY <1>1, <1>2, <1>3, ConstantsAssumption
<1>9. N + 1 \in SessionIds
  BY <1>1, <1>2
<1>. QED
  BY <1>1, <1>2, <1>5, <1>6, <1>7, <1>8, <1>9 DEF entry

\* Every entry of the appended journal is valid.
LEMMA AppendedValid ==
    ASSUME CInv, Open # NoReport, ValidSession(Open, OpenFile, TRUE),
           journal' = Appended(journal, Open), UNCHANGED <<report, rowFile>>
    PROVE  EntriesInv'
<1>1. Open.pending = 0 /\ Gated(Open, report, N)
  BY DEF ValidSession, CInv, OpenInv
<1>2. /\ N' = N + 1 /\ N \in Nat /\ Cur' = N + 2 /\ Cur = N + 1
      /\ \A k \in 1 .. N : journal'.sessions[k] = journal.sessions[k]
      /\ journal'.sessions[N + 1] = [start |-> journal.next, end |-> End(Open), sha |-> Open]
      /\ journal'.next = End(Open)
      /\ journal'.complete = (End(Open) = ExpectedQueries)
      /\ Open.start = journal.next /\ N + 1 \in SessionIds
  BY <1>1, AppendedEntries
<1>3. report[N + 1] = Open /\ rowFile[N + 1] = OpenFile
  BY <1>2, OpenFileLength DEF Open, Orphan, Cur
<1>4. \A k \in 1 .. N : EntryValid(journal'.sessions, report, rowFile, k)
  <2>. SUFFICES ASSUME NEW k \in 1 .. N PROVE EntryValid(journal'.sessions, report, rowFile, k)
    OBVIOUS
  <2>1. EntryValid(journal.sessions, report, rowFile, k)
    BY DEF CInv, EntriesInv
  <2>2. journal'.sessions[k] = journal.sessions[k]
    BY <1>2
  <2>3. k # 1 => journal'.sessions[k - 1] = journal.sessions[k - 1]
    BY <1>2
  <2>. QED
    BY <2>1, <2>2, <2>3 DEF EntryValid
<1>5. EntryValid(journal'.sessions, report, rowFile, N + 1)
  <2>1. journal.next = (IF N = 0 THEN 1 ELSE journal.sessions[N].end)
    BY DEF CInv, EntriesInv, Entry
  <2>2. Open.start = (IF N + 1 = 1 THEN 1 ELSE journal'.sessions[N].end)
    <3>1. CASE N = 0
      BY <1>2, <2>1, <3>1
    <3>2. CASE N # 0
      BY <1>2, <2>1, <3>2
    <3>. QED
      BY <3>1, <3>2
  <2>3. (N + 1) - 1 = N
    BY <1>2
  <2>4. journal'.sessions[N + 1].sha = Open /\ journal'.sessions[N + 1].start = Open.start
        /\ journal'.sessions[N + 1].end = End(Open)
    BY <1>2
  <2>5. Gated(report[N + 1], report, (N + 1) - 1)
    BY <1>1, <1>3, <2>3
  <2>6. report[N + 1].start = (IF N + 1 = 1 THEN 1 ELSE journal'.sessions[(N + 1) - 1].end)
    BY <1>3, <2>2, <2>3
  <2>. QED
    BY <1>3, <2>4, <2>5, <2>6 DEF EntryValid
<1>6. \A k \in 1 .. N' : EntryValid(journal'.sessions, report', rowFile', k)
  <2>. SUFFICES ASSUME NEW k \in 1 .. N + 1
                PROVE  EntryValid(journal'.sessions, report, rowFile, k)
    BY <1>2
  <2>1. k \in 1 .. N \/ k = N + 1
    BY <1>2
  <2>. QED
    BY <1>4, <1>5, <2>1
<1>7. \A s \in SessionIds : s > Cur' => rowFile'[s] = << >>
  <2>. SUFFICES ASSUME NEW s \in SessionIds, s > N + 2 PROVE rowFile[s] = << >>
    BY <1>2
  <2>1. s > Cur
    BY <1>2 DEF SessionIds
  <2>. QED
    BY <2>1 DEF CInv, EntriesInv
<1>8. journal'.next = (IF N' = 0 THEN 1 ELSE journal'.sessions[N'].end)
  BY <1>2
<1>9. N' \in SessionIds \cup {0} /\ (journal'.complete <=> journal'.next = ExpectedQueries)
  BY <1>2
<1>. QED
  BY <1>6, <1>7, <1>8, <1>9 DEF EntriesInv, Entry

\* The appended session takes over where the journal ended.
LEMMA AppendedOrder ==
    ASSUME CInv, Open # NoReport, Open.pending = 0, journal' = Appended(journal, Open)
    PROVE  OrderInv'
<1>1. /\ N' = N + 1 /\ N \in Nat
      /\ \A k \in 1 .. N : journal'.sessions[k] = journal.sessions[k]
      /\ journal'.sessions[N + 1] = [start |-> journal.next, end |-> End(Open), sha |-> Open]
      /\ journal'.next = End(Open) /\ End(Open) \in Nat
      /\ journal.next <= End(Open) /\ journal.next \in Nat
  BY AppendedEntries
<1>2. /\ \A k \in 1 .. N : journal'.sessions[k] = Entry(k)
      /\ journal'.sessions[N'].start = journal.next /\ journal'.sessions[N'].end = End(Open)
  BY <1>1 DEF Entry
<1>3. \A k \in 1 .. N : Entry(k).start \in Nat /\ Entry(k).end \in Nat
  BY Naturals DEF CInv
<1>4. /\ \A i, k \in 1 .. N : i < k => Entry(i).end <= Entry(k).start
      /\ \A k \in 1 .. N : Entry(k).end <= journal.next
      /\ \A g \in Query : g < journal.next =>
            \E k \in 1 .. N : Entry(k).start <= g /\ g < Entry(k).end
  BY DEF CInv, OrderInv
<1>5. \A i, k \in 1 .. N' : i < k => journal'.sessions[i].end <= journal'.sessions[k].start
  <2>. SUFFICES ASSUME NEW i \in 1 .. N', NEW k \in 1 .. N', i < k
                PROVE  journal'.sessions[i].end <= journal'.sessions[k].start
    OBVIOUS
  <2>1. i \in 1 .. N /\ (k \in 1 .. N \/ k = N')
    BY <1>1
  <2>2. CASE k \in 1 .. N
    BY <1>2, <1>4, <2>1, <2>2
  <2>3. CASE k = N'
    <3>1. journal'.sessions[k].start = journal.next
      BY <1>2, <2>3
    <3>. QED
      BY <1>2, <1>4, <2>1, <3>1
  <2>. QED
    BY <2>1, <2>2, <2>3
<1>6. \A k \in 1 .. N' : journal'.sessions[k].end <= journal'.next
  <2>. SUFFICES ASSUME NEW k \in 1 .. N' PROVE journal'.sessions[k].end <= journal'.next
    OBVIOUS
  <2>1. CASE k \in 1 .. N
    <3>1. journal'.sessions[k].end <= journal.next /\ journal'.sessions[k].end \in Nat
      BY <1>2, <1>3, <1>4, <2>1
    <3>. QED
      BY <1>1, <3>1
  <2>2. CASE k = N'
    <3>1. journal'.sessions[k].end = End(Open)
      BY <1>2, <2>2
    <3>. QED
      BY <1>1, <3>1
  <2>. QED
    BY <1>1, <2>1, <2>2
<1>7. \A g \in Query : g < journal'.next =>
            \E k \in 1 .. N' : journal'.sessions[k].start <= g /\ g < journal'.sessions[k].end
  <2>. SUFFICES ASSUME NEW g \in Query, g < End(Open)
                PROVE  \E k \in 1 .. N' : journal'.sessions[k].start <= g /\ g < journal'.sessions[k].end
    BY <1>1
  <2>0. g \in Nat
    BY ConstantsAssumption DEF Query
  <2>1. CASE g < journal.next
    <3>1. PICK k \in 1 .. N : Entry(k).start <= g /\ g < Entry(k).end
      BY <1>4, <2>1
    <3>2. k \in 1 .. N' /\ journal'.sessions[k] = Entry(k)
      BY <1>1, <1>2
    <3>. QED
      BY <3>1, <3>2
  <2>2. CASE ~(g < journal.next)
    <3>1. N' \in 1 .. N' /\ journal.next <= g
      BY <1>1, <2>0, <2>2
    <3>. QED
      BY <1>2, <3>1
  <2>. QED
    BY <2>1, <2>2
<1>. QED
  BY <1>5, <1>6, <1>7 DEF OrderInv, Entry

\* What a process leaves behind that appends the open session.
LEMMA AppendChain ==
    ASSUME CInv, IInv', Open # NoReport, ValidSession(Open, OpenFile, TRUE),
           journal' = Appended(journal, Open), UNCHANGED <<report, rowFile, asked, heard>>,
           \A q \in Operators : pc'[q] \in {"idle", "loaded"}
    PROVE  CInv'
<1>1. Open.pending = 0
  BY DEF ValidSession
<1>2. EntriesInv' /\ OrderInv'
  BY <1>1, AppendedValid, AppendedOrder
<1>3. journal'.active = 0 /\ Cur' = N + 2 /\ Cur = N + 1 /\ N \in Nat
  BY <1>1, AppendedEntries
<1>4. Open' = NoReport
  BY <1>1, AppendEffect DEF CInv
<1>5. OpenFile' = << >>
  <2>1. Cur' > Cur
    BY <1>3
  <2>. QED
    BY <2>1 DEF CInv, EntriesInv, OpenFile
<1>6. OpenInv'
  BY <1>3, <1>4, <1>5 DEF OpenInv
<1>7. ReplyInv'
  BY DEF ReplyInv, ReplyOk
<1>8. HeardInv' /\ SmokeGate'
  BY DEF CInv, HeardInv, SmokeGate, SmokeRowLegal
<1>. QED
  BY <1>2, <1>6, <1>7, <1>8 DEF CInv

\* A finalized session that a process has just loaded may be appended.
LEMMA LoadedFinalized ==
    ASSUME CInv, NEW p \in Operators, pc[p] = "loaded", Status(p) = "finalized_orphan"
    PROVE  /\ Open # NoReport /\ jmem[p] = journal /\ report[Current(jmem[p])] = Open
           /\ ValidSession(Open, OpenFile, TRUE)
<1>1. Open # NoReport /\ jmem[p] = journal /\ Open.finalized
  BY HolderKnows DEF CInv, Status, OrphanStatus
<1>2. Open.pending = 0
  BY <1>1 DEF CInv, IInv, PlaceInv
<1>3. report[Current(jmem[p])] = Open
  BY <1>1, OpenFileLength DEF Open, Orphan, Cur
<1>4. ValidSession(Open, OpenFile, FALSE)
  BY <1>1 DEF CInv, OpenInv
<1>. QED
  BY <1>1, <1>2, <1>3, <1>4 DEF ValidSession

LEMMA AppendFinalizedChain ==
    ASSUME CInv, IInv', NEW p \in Operators, AppendFinalized(p)
    PROVE  CInv'
<1>1. pc[p] = "finalized" /\ Leave(p) /\ UNCHANGED <<report, rowFile, asked, heard>>
  BY DEF AppendFinalized, At
<1>2. Open # NoReport /\ jmem[p] = journal /\ rmem[p] = Open
  BY <1>1, HolderKnows DEF CInv
<1>3. report[Cur] = Open /\ rowFile[Cur] = OpenFile
  BY <1>2, OpenFileLength DEF Open, Orphan, Cur
<1>4. ValidSession(Open, OpenFile, TRUE) /\ journal' = Appended(journal, Open)
  BY <1>2, <1>3 DEF AppendFinalized, Cur
<1>5. \A q \in Operators : pc'[q] = "idle"
  BY <1>1, HolderKnows DEF CInv, IInv, TypeOK, Leave, Goto
<1>. QED
  BY <1>1, <1>2, <1>4, <1>5, AppendChain

LEMMA ResolveFinalizedChain ==
    ASSUME CInv, IInv', NEW p \in Operators, ResolveFinalized(p)
    PROVE  CInv'
<1>1. /\ pc[p] = "loaded" /\ Status(p) = "finalized_orphan" /\ Leave(p)
      /\ UNCHANGED <<report, rowFile, asked, heard>>
  BY DEF ResolveFinalized, Resolving, At
<1>2. /\ Open # NoReport /\ ValidSession(Open, OpenFile, TRUE)
      /\ jmem[p] = journal /\ report[Current(jmem[p])] = Open
  BY <1>1, LoadedFinalized
<1>3. journal' = Appended(journal, Open)
  BY <1>2 DEF ResolveFinalized
<1>4. \A q \in Operators : pc'[q] = "idle"
  BY <1>1, HolderKnows DEF CInv, IInv, TypeOK, Leave, Goto
<1>. QED
  BY <1>1, <1>2, <1>3, <1>4, AppendChain

LEMMA RunAdoptOrphanChain ==
    ASSUME CInv, IInv', NEW p \in Operators, RunAdoptOrphan(p)
    PROVE  CInv'
<1>1. /\ pc[p] = "loaded" /\ Status(p) = "finalized_orphan"
      /\ UNCHANGED <<report, rowFile, asked, heard, pc>>
  BY DEF RunAdoptOrphan, At
<1>2. /\ Open # NoReport /\ ValidSession(Open, OpenFile, TRUE)
      /\ jmem[p] = journal /\ report[Current(jmem[p])] = Open
  BY <1>1, LoadedFinalized
<1>3. journal' = Appended(journal, Open)
  BY <1>2 DEF RunAdoptOrphan, SaveJournal
<1>4. \A q \in Operators : pc'[q] \in {"idle", "loaded"}
  BY <1>1, HolderKnows DEF CInv
<1>. QED
  BY <1>1, <1>2, <1>3, <1>4, AppendChain

-----------------------------------------------------------------------------
\* Every step preserves what is said of the files.
LEMMA NextChain == CInv /\ [Next]_vars => CInv'
<1>. SUFFICES ASSUME CInv, [Next]_vars PROVE CInv'
  OBVIOUS
<1>0. IInv'
  BY NextKeeps DEF CInv
<1>1. CASE UNCHANGED vars
  <2>1. UNCHANGED disk /\ UNCHANGED <<pc, rmem, reply, asked, heard>>
    BY <1>1 DEF vars, memory
  <2>2. EntriesInv' /\ OrderInv' /\ OpenInv' /\ Open' = Open /\ OpenFile' = OpenFile
    BY <2>1, DiskKept
  <2>3. ReplyInv' /\ HeardInv' /\ SmokeGate'
    BY <2>1, <2>2 DEF CInv, ReplyInv, ReplyOk, HeardInv, SmokeGate, SmokeRowLegal, disk
  <2>. QED
    BY <1>0, <2>2, <2>3 DEF CInv
<1>2. ASSUME NEW p \in Operators, NEW c \in {"run", "resolve"}, Enter(p, c) PROVE CInv'
  BY <1>0, <1>2, EnterChain
<1>3. ASSUME NEW p \in Operators, NEW m \in 1 .. MaxBatch, RunReserve(p, m) PROVE CInv'
  BY <1>0, <1>3, RunReserveChain
<1>4. ASSUME NEW p \in Operators, SessionStep(p) PROVE CInv'
  BY <1>0, <1>4, OpenSessionChain, MarkPendingChain, StopLoopChain, AskChain, ReceiveChain,
     WriteRowChain, RecordRowChain, FinalizeChain, AppendFinalizedChain DEF SessionStep
<1>5. ASSUME NEW p \in Operators, ResolveStep(p) PROVE CInv'
  BY <1>0, <1>5, ResolveReservedChain, ResolveFinalizedChain, ResolvePendingChain,
     ResolveInterruptedChain DEF ResolveStep
<1>6. ASSUME NEW p \in Operators, RunAdoptOrphan(p) PROVE CInv'
  BY <1>0, <1>6, RunAdoptOrphanChain
<1>7. ASSUME NEW p \in Operators, Refuse(p) \/ Crash(p) PROVE CInv'
  <2>1. pc[p] # "idle" /\ Leave(p) /\ UNCHANGED <<disk, asked, heard>>
    BY <1>7 DEF Refuse, Crash, Refusable, At
  <2>. QED
    BY <1>0, <2>1, LeaveChain
<1>. QED
  BY <1>1, <1>2, <1>3, <1>4, <1>5, <1>6, <1>7 DEF Next, Step

\* CInv holds in every reachable state.
THEOREM ChainInvariant == Spec => []CInv
<1>. QED
  BY InitCInv, NextChain, PTL DEF Spec

\* No query after the smoke is asked unless the smoke has a legal row on disk.
THEOREM SmokeGates == Spec => []SmokeGate
<1>1. CInv => SmokeGate
  BY DEF CInv
<1>. QED
  BY <1>1, ChainInvariant, PTL

-----------------------------------------------------------------------------
(* What the invariant says of the readers of the chain *)

\* The next command loads the chain, whatever write the last process died after.
THEOREM ChainLoadsAlways == Spec => []ChainAlwaysLoads
<1>1. CInv => ChainAlwaysLoads
  <2>. SUFFICES ASSUME CInv PROVE ChainLoads
    BY DEF ChainAlwaysLoads
  <2>0. DOMAIN journal.sessions = 1 .. N /\ (journal.sessions = << >> <=> N = 0)
    BY DEF N, CInv, IInv, TypeOK, Journal
  <2>1. \A k \in 1 .. N : EntryValid(journal.sessions, report, rowFile, k)
    BY DEF CInv, EntriesInv
  <2>2. \A n : SessionRows(journal, n) = RowsUpTo(report, n)
    BY DEF SessionRows, RowsUpTo
  <2>3. /\ journal.next = (IF N = 0 THEN 1 ELSE journal.sessions[N].end)
        /\ journal.complete <=> journal.next = ExpectedQueries
    BY DEF CInv, EntriesInv, Entry
  <2>4. \A s \in SessionIds : s > Cur => report[s] = NoReport /\ rowFile[s] = << >>
    BY DEF CInv, IInv, SessionInv, EntriesInv
  <2>5. ValidJournal(journal)
    <3>1. ASSUME NEW k \in 1 .. N
          PROVE  LET entry == journal.sessions[k]
                     r == report[k]
                 IN  /\ r = entry.sha
                     /\ entry.start = r.start /\ entry.end = End(r)
                     /\ r.start = (IF k = 1 THEN 1 ELSE journal.sessions[k - 1].end)
                     /\ IF r.start = 1 THEN r.requested = 1
                                       ELSE SmokeOk(SessionRows(journal, k - 1))
                     /\ ValidSession(r, rowFile[k], TRUE)
      <4>1. EntryValid(journal.sessions, report, rowFile, k)
        BY <2>1
      <4>2. SessionRows(journal, k - 1) = RowsUpTo(report, k - 1)
        BY <2>2
      <4>. QED
        BY <4>1, <4>2 DEF EntryValid, Gated
    <3>2. \A s \in SessionIds : s > Current(journal) => report[s] = NoReport /\ rowFile[s] = << >>
      BY <2>4 DEF Cur
    <3>3. journal.next = (IF journal.sessions = << >> THEN 1
                          ELSE journal.sessions[Len(journal.sessions)].end)
      BY <2>0, <2>3 DEF N
    <3>. QED
      BY <2>0, <2>3, <3>1, <3>2, <3>3 DEF ValidJournal
  <2>6. ValidOrphan(journal)
    <3>1. Open # NoReport => ValidSession(Open, rowFile[Cur], FALSE)
      BY OpenFileLength DEF CInv, OpenInv
    <3>. QED
      BY <3>1 DEF ValidOrphan, CInv, OpenInv, Open, Cur
  <2>. QED
    BY <2>5, <2>6 DEF ChainLoads
<1>. QED
  BY <1>1, ChainInvariant, PTL

\* A row on disk belongs to one session.
LEMMA RowsApart ==
    ASSUME CInv, NEW k \in SessionIds, NEW m \in SessionIds, k < m,
           NEW i \in DOMAIN rowFile[k], NEW j \in DOMAIN rowFile[m]
    PROVE  rowFile[k][i].index # rowFile[m][j].index
<1>. DEFINE a == rowFile[k][i].index
            b == rowFile[m][j].index
<1>1. a \in Nat /\ b \in Nat /\ N \in Nat /\ Cur = N + 1 /\ k \in Nat /\ m \in Nat
  BY RowPlaces, Naturals, ConstantsAssumption DEF CInv, SessionIds
<1>2. ~(k >= Cur)
  <2>1. k >= Cur => k = Cur
    BY RowPlaces
  <2>2. m >= Cur => m = Cur
    BY RowPlaces
  <2>. QED
    BY <1>1, <2>1, <2>2
<1>3. k \in 1 .. N /\ a < Entry(k).end /\ a < journal.next
  BY <1>1, <1>2, RowPlaces
<1>4. Entry(k).end \in Nat /\ journal.next \in Nat
  BY <1>3, Naturals, ConstantsAssumption DEF CInv
<1>5. CASE m < Cur
  <2>1. m \in 1 .. N /\ Entry(m).start <= b /\ Entry(m).start \in Nat
    BY <1>5, RowPlaces, Naturals DEF CInv
  <2>2. Entry(k).end <= Entry(m).start
    BY <1>3, <2>1 DEF CInv, OrderInv
  <2>. QED
    BY <1>1, <1>3, <1>4, <2>1, <2>2
<1>6. CASE m >= Cur
  <2>1. b = journal.next + j - 1 /\ j \in 1 .. Len(OpenFile)
    BY <1>6, RowPlaces
  <2>. QED
    BY <1>1, <1>3, <1>4, <2>1
<1>. QED
  BY <1>1, <1>5, <1>6

\* A query has at most one row on disk, and the row says what was received.
THEOREM RowsTrue == Spec => []RowsTruthful
<1>1. CInv => RowsTruthful
  <2>. SUFFICES ASSUME CInv PROVE RowsTruthful
    OBVIOUS
  <2>1. ASSUME NEW g \in Query PROVE Cardinality(DiskRows(g)) <= 1
    <3>1. \A k, m \in DiskRows(g) : k = m
      <4>. SUFFICES ASSUME NEW k \in DiskRows(g), NEW m \in DiskRows(g), k # m PROVE FALSE
        OBVIOUS
      <4>1. k \in SessionIds /\ m \in SessionIds
        BY DEF DiskRows
      <4>2. k < m \/ m < k
        BY <4>1 DEF SessionIds
      <4>3. PICK i \in DOMAIN rowFile[k] : rowFile[k][i].index = g
        BY DEF DiskRows
      <4>4. PICK j \in DOMAIN rowFile[m] : rowFile[m][j].index = g
        BY DEF DiskRows
      <4>. QED
        BY <4>1, <4>2, <4>3, <4>4, RowsApart
    <3>2. CASE DiskRows(g) = {}
      BY <3>2, FS_EmptySet
    <3>3. CASE DiskRows(g) # {}
      <4>1. PICK k \in DiskRows(g) : DiskRows(g) = {k}
        BY <3>1, <3>3
      <4>2. Cardinality({k}) = 1
        BY FS_Singleton
      <4>. QED
        BY <4>1, <4>2
    <3>. QED
      BY <3>2, <3>3
  <2>2. \A k \in SessionIds : \A i \in DOMAIN rowFile[k] : Truthful(rowFile[k][i], asked, heard)
    BY DEF CInv, HeardInv
  <2>. QED
    BY <2>1, <2>2 DEF RowsTruthful, Truthful
<1>. QED
  BY <1>1, ChainInvariant, PTL

\* Every query before `next` has its row in a journaled session.
LEMMA CoveredOnDisk ==
    ASSUME CInv, NEW g \in Query, g < journal.next
    PROVE  \E k \in 1 .. N : \E i \in 1 .. Len(rowFile[k]) :
              /\ k \in SessionIds /\ i \in DOMAIN rowFile[k] /\ i \in DOMAIN report[k].rows
              /\ rowFile[k][i].index = g /\ rowFile[k][i] = report[k].rows[i]
              /\ rowFile[k][i] \in Row
<1>1. PICK k \in 1 .. N : Entry(k).start <= g /\ g < Entry(k).end
  BY DEF CInv, OrderInv
<1>2. /\ k \in SessionIds /\ rowFile[k] \in Seq(Row) /\ Len(rowFile[k]) \in Nat
      /\ Entry(k).start \in Nat /\ Entry(k).end = Entry(k).start + Len(rowFile[k])
      /\ Len(rowFile[k]) = Len(report[k].rows) /\ report[k] \in Report
  BY JournaledRows
<1>. DEFINE i == g - Entry(k).start + 1
<1>3. g \in Nat
  BY ConstantsAssumption DEF Query
<1>4. i \in 1 .. Len(rowFile[k])
  BY <1>1, <1>2, <1>3
<1>5. rowFile[k][i] = report[k].rows[i] /\ rowFile[k][i].index = Entry(k).start + i - 1
  BY <1>4, JournaledRows
<1>6. Entry(k).start + i - 1 = g
  BY <1>2, <1>3
<1>7. i \in DOMAIN rowFile[k] /\ i \in DOMAIN report[k].rows /\ rowFile[k][i] \in Row
  BY <1>2, <1>4 DEF Report
<1>. HIDE DEF i
<1>. QED
  BY <1>2, <1>4, <1>5, <1>6, <1>7

\* The rows of the open session stand from `next` on.
LEMMA OpenOnDisk ==
    ASSUME CInv, Open # NoReport, NEW g \in Query,
           journal.next <= g, g < journal.next + Len(OpenFile)
    PROVE  \E i \in 1 .. Len(OpenFile) : i \in DOMAIN OpenFile /\ OpenFile[i].index = g
<1>. DEFINE i == g - journal.next + 1
<1>1. Len(OpenFile) \in Nat /\ g \in Nat /\ journal.next \in Nat
  BY OpenFileLength, Naturals, ConstantsAssumption DEF CInv, Query
<1>2. i \in 1 .. Len(OpenFile)
  BY <1>1
<1>3. i \in DOMAIN OpenFile
  BY <1>2, OpenFileLength
<1>4. OpenFile[i].index = Open.start + i - 1 /\ Open.start = journal.next
  BY <1>3, OpenReport DEF CInv, OpenInv
<1>5. journal.next + i - 1 = g
  BY <1>1
<1>. HIDE DEF i
<1>. QED
  BY <1>2, <1>3, <1>4, <1>5

\* What preflight computes, in the terms of these proofs.
ChainRows ==
    RowsUpTo(report, N) \cup (IF Open = NoReport THEN {} ELSE {Open.rows[i] : i \in DOMAIN Open.rows})
OpenStatus == OrphanStatus(journal, Open)
VirtualNext == IF OpenStatus = "finalized_orphan" THEN End(Open) ELSE journal.next
Unresolved == OpenStatus \in {"reserved", "pending", "interrupted"}

LEMMA InspectMeans ==
    /\ Inspect.status = OpenStatus /\ Inspect.next = VirtualNext
    /\ Inspect.runnable = /\ ~(VirtualNext = ExpectedQueries /\ ~Unresolved)
                          /\ ~Unresolved
                          /\ ~(VirtualNext > 1 /\ ~SmokeOk(ChainRows))
    /\ Inspect.failures = \E row \in ChainRows : row.result \in {"transport_failure", "ambiguous_query"}
<1>1. SessionRows(journal, Len(journal.sessions)) = RowsUpTo(report, N)
  BY DEF SessionRows, RowsUpTo, N
<1>. QED
  BY <1>1 DEF Inspect, ChainRows, OpenStatus, VirtualNext, Unresolved, Open

\* Evidence that passes holds one reply, received once, for every query.
THEOREM EvidenceComplete == Spec => []EvidenceSound
<1>1. CInv => EvidenceSound
  <2>. SUFFICES ASSUME CInv, PrimaryEvidence, NEW g \in Query
                PROVE  asked[g] = 1 /\ heard[g] \in {"legal", "illegal"}
    BY DEF EvidenceSound
  <2>1. journal.next = ExpectedQueries /\ g < journal.next
    BY ConstantsAssumption DEF PrimaryEvidence, Query
  <2>2. PICK k \in 1 .. N : \E i \in 1 .. Len(rowFile[k]) :
              /\ k \in SessionIds /\ i \in DOMAIN rowFile[k] /\ i \in DOMAIN report[k].rows
              /\ rowFile[k][i].index = g /\ rowFile[k][i] = report[k].rows[i]
              /\ rowFile[k][i] \in Row
    BY <2>1, CoveredOnDisk
  <2>3. PICK i \in 1 .. Len(rowFile[k]) :
              /\ k \in SessionIds /\ i \in DOMAIN rowFile[k] /\ i \in DOMAIN report[k].rows
              /\ rowFile[k][i].index = g /\ rowFile[k][i] = report[k].rows[i]
              /\ rowFile[k][i] \in Row
    BY <2>2
  <2>. DEFINE row == rowFile[k][i]
  <2>4. row \in ChainRows
    BY <2>3 DEF ChainRows, RowsUpTo
  <2>5. row.result \notin {"transport_failure", "ambiguous_query"}
    BY <2>4, InspectMeans DEF PrimaryEvidence
  <2>6. row.result \in {"legal", "illegal"}
    BY <2>3, <2>5 DEF Row, Results, Replies
  <2>7. asked[g] > 0 /\ heard[g] = row.result
    BY <2>3, <2>6 DEF CInv, HeardInv, Truthful
  <2>8. asked[g] \in Nat /\ asked[g] <= 1
    BY DEF CInv, IInv, TypeOK, AskInv
  <2>. QED
    BY <2>6, <2>7, <2>8
<1>. QED
  BY <1>1, ChainInvariant, PTL

\* A chain with nothing to resolve lists every row it has on disk.
LEMMA ResolvedRows ==
    ASSUME CInv, ~Unresolved
    PROVE  /\ Open # NoReport => /\ OpenStatus = "finalized_orphan" /\ Open.pending = 0
                                 /\ Len(OpenFile) = Len(Open.rows)
           /\ SmokeOk(ChainRows) <=> SmokeRowLegal
<1>1. Open # NoReport => /\ OpenStatus = "finalized_orphan" /\ Open.pending = 0
                         /\ Len(OpenFile) = Len(Open.rows)
  <2>. SUFFICES ASSUME Open # NoReport
                PROVE  /\ OpenStatus = "finalized_orphan" /\ Open.pending = 0
                       /\ Len(OpenFile) = Len(Open.rows)
    OBVIOUS
  <2>1. OpenStatus = "finalized_orphan" /\ Open.finalized
    BY DEF Unresolved, OpenStatus, OrphanStatus
  <2>2. Open.pending = 0
    BY <2>1 DEF CInv, OpenInv, ValidSession, RowsLoad
  <2>. QED
    BY <2>1, <2>2, OpenFileLength
<1>2. ASSUME SmokeOk(ChainRows) PROVE SmokeRowLegal
  <2>1. CASE SmokeOk(RowsUpTo(report, N))
    BY <2>1, SmokeOnDisk
  <2>2. CASE ~SmokeOk(RowsUpTo(report, N))
    <3>1. Open # NoReport /\ \E i \in DOMAIN Open.rows : Open.rows[i].index = 1 /\ Open.rows[i].result = "legal"
      BY <1>2, <2>2 DEF SmokeOk, ChainRows
    <3>2. PICK i \in DOMAIN Open.rows : Open.rows[i].index = 1 /\ Open.rows[i].result = "legal"
      BY <3>1
    <3>3. i \in DOMAIN OpenFile /\ OpenFile[i] = Open.rows[i] /\ OpenFile[i] \in Row
      BY <1>1, <3>1, OpenFileLength
    <3>4. OpenFile[i] = [index |-> 1, result |-> "legal"]
      BY <3>2, <3>3 DEF Row
    <3>5. Cur \in SessionIds /\ OpenFile = rowFile[Cur]
      BY <3>1, OpenFileLength
    <3>. QED
      BY <3>3, <3>4, <3>5 DEF SmokeRowLegal
  <2>. QED
    BY <2>1, <2>2
<1>3. ASSUME SmokeRowLegal PROVE SmokeOk(ChainRows)
  <2>1. PICK k \in SessionIds : \E i \in DOMAIN rowFile[k] :
                rowFile[k][i] = [index |-> 1, result |-> "legal"]
    BY <1>3 DEF SmokeRowLegal
  <2>2. PICK i \in DOMAIN rowFile[k] : rowFile[k][i] = [index |-> 1, result |-> "legal"]
    BY <2>1
  <2>3. rowFile[k][i] \in ChainRows
    <3>1. CASE k < Cur
      <4>1. k \in 1 .. N /\ i \in 1 .. Len(rowFile[k])
        BY <3>1, RowPlaces
      <4>2. rowFile[k][i] = report[k].rows[i] /\ Len(rowFile[k]) = Len(report[k].rows)
            /\ report[k] \in Report
        BY <4>1, JournaledRows
      <4>3. DOMAIN report[k].rows = 1 .. Len(report[k].rows)
        BY <4>2 DEF Report
      <4>. QED
        BY <4>1, <4>2, <4>3 DEF ChainRows, RowsUpTo
    <3>2. CASE k >= Cur
      <4>1. Open # NoReport /\ i \in 1 .. Len(OpenFile) /\ rowFile[k] = OpenFile
        BY <3>2, RowPlaces
      <4>2. i \in 1 .. Len(Open.rows)
        BY <1>1, <4>1
      <4>3. OpenFile[i] = Open.rows[i] /\ i \in DOMAIN Open.rows
        BY <4>1, <4>2, OpenFileLength
      <4>. QED
        BY <4>1, <4>3 DEF ChainRows
    <3>3. k \in Nat /\ Cur \in Nat
      BY Naturals DEF CInv, SessionIds
    <3>. QED
      BY <3>1, <3>2, <3>3
  <2>. QED
    BY <2>2, <2>3 DEF SmokeOk
<1>. QED
  BY <1>1, <1>2, <1>3

\* With nobody writing, preflight says runnable exactly when a run may ask, and
\* counts the rows on disk that no unresolved session holds.
THEOREM PreflightAgrees == Spec => []PreflightAgreesWithRun
<1>1. CInv => PreflightAgreesWithRun
  <2>. SUFFICES ASSUME CInv PROVE PreflightAgreesWithRun
    OBVIOUS
  <2>0. /\ journal.next \in 1 .. ExpectedQueries /\ VirtualNext \in 1 .. ExpectedQueries
        /\ journal.next <= VirtualNext /\ ExpectedQueries \in Nat
    <3>1. journal.next \in 1 .. ExpectedQueries /\ ExpectedQueries \in Nat
      BY Naturals, ConstantsAssumption DEF CInv
    <3>2. CASE OpenStatus = "finalized_orphan"
      <4>1. Open # NoReport
        BY <3>2 DEF OpenStatus, OrphanStatus
      <4>2. End(Open) \in 1 .. ExpectedQueries /\ Open.start = journal.next /\ Len(Open.rows) \in Nat
        BY <4>1, OpenReport DEF CInv
      <4>. QED
        BY <3>1, <3>2, <4>2 DEF VirtualNext, End
    <3>. QED
      BY <3>1, <3>2 DEF VirtualNext
  <2>1. OpenStatus \in {"none", "finalized_orphan"} <=> ~Unresolved
    BY DEF OpenStatus, OrphanStatus, Unresolved
  <2>2. Inspect.runnable <=>
              /\ Inspect.status \in {"none", "finalized_orphan"}
              /\ Inspect.next < ExpectedQueries
              /\ Inspect.next = 1 \/ SmokeRowLegal
    <3>1. CASE Unresolved
      BY <2>1, <3>1, InspectMeans
    <3>2. CASE ~Unresolved
      <4>1. SmokeOk(ChainRows) <=> SmokeRowLegal
        BY <3>2, ResolvedRows
      <4>2. /\ VirtualNext < ExpectedQueries <=> VirtualNext # ExpectedQueries
            /\ VirtualNext > 1 <=> VirtualNext # 1
        BY <2>0
      <4>. QED
        BY <2>1, <3>2, <4>1, <4>2, InspectMeans
    <3>. QED
      BY <3>1, <3>2
  <2>3. ASSUME NEW g \in Query, g < VirtualNext
        PROVE  DiskRows(g) # {} /\ ~(OpenStatus \in {"pending", "interrupted"} /\ Cur \in DiskRows(g))
    <3>1. CASE g < journal.next
      <4>1. DiskRows(g) # {}
        BY <3>1, CoveredOnDisk DEF DiskRows
      <4>2. ASSUME Cur \in DiskRows(g) PROVE FALSE
        <5>1. Cur \in SessionIds
          BY <4>2 DEF DiskRows
        <5>2. PICK i \in DOMAIN rowFile[Cur] : rowFile[Cur][i].index = g
          BY <4>2 DEF DiskRows
        <5>3. Cur >= Cur
          BY Naturals DEF CInv
        <5>4. g = journal.next + i - 1 /\ i \in 1 .. Len(OpenFile)
          BY <5>1, <5>2, <5>3, RowPlaces
        <5>5. g \in Nat
          BY ConstantsAssumption DEF Query
        <5>. QED
          BY <2>0, <3>1, <5>4, <5>5
      <4>. QED
        BY <4>1, <4>2
    <3>2. CASE ~(g < journal.next)
      <4>1. g \in Nat
        BY ConstantsAssumption DEF Query
      <4>2. OpenStatus = "finalized_orphan" /\ VirtualNext = End(Open)
        BY <2>0, <2>3, <3>2, <4>1 DEF VirtualNext
      <4>3. Open # NoReport /\ Open.start = journal.next
        BY <4>2, OpenReport DEF OpenStatus, OrphanStatus, CInv
      <4>4. Len(Open.rows) \in Nat /\ Len(OpenFile) \in Nat /\ Len(Open.rows) <= Len(OpenFile)
        BY <4>3, OpenFileLength
      <4>5. journal.next <= g /\ g < journal.next + Len(OpenFile)
        BY <2>0, <2>3, <3>2, <4>1, <4>2, <4>3, <4>4 DEF End
      <4>6. Cur \in SessionIds /\ OpenFile = rowFile[Cur]
        BY <4>3, OpenFileLength
      <4>7. Cur \in DiskRows(g)
        BY <4>3, <4>5, <4>6, OpenOnDisk DEF DiskRows
      <4>. QED
        BY <4>2, <4>7
    <3>. QED
      BY <3>1, <3>2
  <2>4. ASSUME NEW g \in Query, DiskRows(g) # {},
               ~(OpenStatus \in {"pending", "interrupted"} /\ Cur \in DiskRows(g))
        PROVE  g < VirtualNext
    <3>1. PICK k \in SessionIds : \E i \in DOMAIN rowFile[k] : rowFile[k][i].index = g
      BY <2>4 DEF DiskRows
    <3>2. PICK i \in DOMAIN rowFile[k] : rowFile[k][i].index = g
      BY <3>1
    <3>3. CASE k < Cur
      <4>1. g < journal.next /\ g \in Nat
        BY <3>2, <3>3, RowPlaces
      <4>. QED
        BY <2>0, <4>1
    <3>4. CASE k >= Cur
      <4>1. k = Cur /\ Open # NoReport /\ i \in 1 .. Len(OpenFile) /\ g = journal.next + i - 1
        BY <3>2, <3>4, RowPlaces
      <4>2. OpenStatus \notin {"pending", "interrupted"}
        BY <2>4, <3>2, <4>1 DEF DiskRows
      <4>3. ~Unresolved /\ OpenStatus = "finalized_orphan"
        BY <4>1, <4>2 DEF Unresolved, OpenStatus, OrphanStatus
      <4>4. Len(OpenFile) = Len(Open.rows) /\ Open.start = journal.next
            /\ Len(Open.rows) \in Nat
        BY <4>1, <4>3, ResolvedRows, OpenReport DEF CInv
      <4>. QED
        BY <2>0, <4>1, <4>3, <4>4 DEF VirtualNext, End
    <3>5. k \in Nat /\ Cur \in Nat
      BY Naturals DEF CInv, SessionIds
    <3>. QED
      BY <3>3, <3>4, <3>5
  <2>. QED
    BY <2>2, <2>3, <2>4, InspectMeans DEF PreflightAgreesWithRun, Cur
<1>. QED
  BY <1>1, ChainInvariant, PTL

-----------------------------------------------------------------------------
(* BatchJournal implements EvidenceLog.  By CInv the rows on disk stand    *)
(* one after the other, so the log has no gap and its length is what the   *)
(* open session continues from (LogShape).  Sending a query asks the one   *)
(* after the log, writing a row file appends its answer, and no other step *)
(* touches the row files or sends anything.                                *)

\* The first query without a row on disk.
Covered == journal.next + Len(OpenFile)

\* A row on disk is the result recorded for its query.
LEMMA RowCounts ==
    ASSUME CInv, NEW k \in SessionIds, NEW i \in DOMAIN rowFile[k]
    PROVE  /\ rowFile[k][i].result \in ResultsOnDisk(rowFile[k][i].index)
           /\ rowFile[k][i] \in Row
<1>1. rowFile[k][i] \in Row
  BY RowPlaces
<1>2. rowFile[k][i].result \in Results
      /\ rowFile[k][i] = [index |-> rowFile[k][i].index, result |-> rowFile[k][i].result]
  BY <1>1 DEF Row
<1>. QED
  BY <1>1, <1>2 DEF ResultsOnDisk

\* Two rows of one query are the same row.
LEMMA OneResult ==
    ASSUME CInv, NEW g \in Query, NEW a \in ResultsOnDisk(g), NEW b \in ResultsOnDisk(g)
    PROVE  a = b
<1>1. PICK k \in SessionIds : \E i \in DOMAIN rowFile[k] : rowFile[k][i] = [index |-> g, result |-> a]
  BY DEF ResultsOnDisk
<1>2. PICK i \in DOMAIN rowFile[k] : rowFile[k][i] = [index |-> g, result |-> a]
  BY <1>1
<1>3. PICK m \in SessionIds : \E j \in DOMAIN rowFile[m] : rowFile[m][j] = [index |-> g, result |-> b]
  BY DEF ResultsOnDisk
<1>4. PICK j \in DOMAIN rowFile[m] : rowFile[m][j] = [index |-> g, result |-> b]
  BY <1>3
<1>5. rowFile[k][i].index = g /\ rowFile[m][j].index = g
  BY <1>2, <1>4
<1>6. k = m
  <2>1. ~(k < m) /\ ~(m < k)
    BY <1>5, RowsApart
  <2>. QED
    BY <2>1 DEF SessionIds
<1>7. i = j
  <2>0. i \in Nat /\ j \in Nat
    <3>1. rowFile[k] \in Seq(Row)
      BY DEF CInv, IInv, TypeOK
    <3>2. i \in 1 .. Len(rowFile[k]) /\ j \in 1 .. Len(rowFile[k])
      BY <1>6, <3>1
    <3>. QED
      BY <3>2
  <2>1. i \in Nat /\ j \in Nat /\ g \in Nat /\ k \in Nat /\ Cur \in Nat /\ journal.next \in Nat
    BY <2>0, Naturals, ConstantsAssumption DEF CInv, SessionIds, Query
  <2>2. CASE k < Cur
    <3>1. k \in 1 .. N /\ g = Entry(k).start + i - 1 /\ g = Entry(k).start + j - 1
      BY <1>5, <1>6, <2>2, RowPlaces
    <3>2. Entry(k).start \in Nat
      BY <3>1, Naturals DEF CInv
    <3>. QED
      BY <2>1, <3>1, <3>2
  <2>3. CASE k >= Cur
    <3>1. g = journal.next + i - 1 /\ g = journal.next + j - 1
      BY <1>5, <1>6, <2>3, RowPlaces
    <3>. QED
      BY <2>1, <3>1
  <2>. QED
    BY <2>1, <2>2, <2>3
<1>8. [index |-> g, result |-> a] = [index |-> g, result |-> b]
  BY <1>2, <1>4, <1>6, <1>7
<1>. QED
  BY <1>8

LEMMA CoveredBounds ==
    ASSUME CInv
    PROVE  /\ Covered \in 1 .. ExpectedQueries /\ OpenFile \in Seq(Row) /\ Len(OpenFile) \in Nat
           /\ journal.next \in Nat /\ ExpectedQueries \in Nat
           /\ OpenFile # << >> => Open # NoReport /\ Cur \in SessionIds /\ OpenFile = rowFile[Cur]
<1>1. journal.next \in 1 .. ExpectedQueries /\ ExpectedQueries \in Nat
  BY Naturals, ConstantsAssumption DEF CInv
<1>2. OpenFile \in Seq(Row)
  BY DEF CInv, IInv, TypeOK, OpenFile
<1>3. Len(OpenFile) \in Nat /\ (OpenFile = << >> <=> Len(OpenFile) = 0)
  BY <1>2
<1>4. CASE OpenFile = << >>
  BY <1>1, <1>2, <1>3, <1>4 DEF Covered
<1>5. CASE OpenFile # << >>
  <2>1. Open # NoReport
    BY <1>5 DEF CInv, OpenInv
  <2>2. Cur \in SessionIds /\ OpenFile = rowFile[Cur] /\ DOMAIN OpenFile = 1 .. Len(OpenFile)
    BY <2>1, OpenFileLength
  <2>3. Len(OpenFile) \in 1 .. Len(OpenFile)
    BY <1>3, <1>5
  <2>4. Cur >= Cur
    BY Naturals DEF CInv
  <2>5. /\ rowFile[Cur][Len(OpenFile)].index \in Query
        /\ rowFile[Cur][Len(OpenFile)].index = journal.next + Len(OpenFile) - 1
    BY <2>2, <2>3, <2>4, RowPlaces
  <2>6. Covered \in 1 .. ExpectedQueries
    BY <1>1, <1>3, <2>5 DEF Covered, Query
  <2>. QED
    BY <1>1, <1>2, <1>3, <2>1, <2>2, <2>6
<1>. QED
  BY <1>4, <1>5

\* The queries with a row on disk are those before the first without one.
LEMMA LogDomain ==
    ASSUME CInv
    PROVE  {h \in Query : ResultsOnDisk(h) # {}} = 1 .. Covered - 1
<1>1. ASSUME NEW h \in Query, ResultsOnDisk(h) # {} PROVE h \in 1 .. Covered - 1
  <2>0. PICK result \in Results :
           \E k \in SessionIds : \E i \in DOMAIN rowFile[k] :
              rowFile[k][i] = [index |-> h, result |-> result]
    BY <1>1 DEF ResultsOnDisk
  <2>1. PICK k \in SessionIds : \E i \in DOMAIN rowFile[k] : rowFile[k][i].index = h
    BY <2>0
  <2>2. PICK i \in DOMAIN rowFile[k] : rowFile[k][i].index = h
    BY <2>1
  <2>3. h \in Nat /\ h >= 1 /\ k \in Nat /\ Cur \in Nat
    BY Naturals, ConstantsAssumption DEF CInv, SessionIds, Query
  <2>4. CASE k < Cur
    <3>1. h < journal.next
      BY <2>2, <2>4, RowPlaces
    <3>. QED
      BY <2>3, <3>1, CoveredBounds DEF Covered
  <2>5. CASE k >= Cur
    <3>1. h = journal.next + i - 1 /\ i \in 1 .. Len(OpenFile)
      BY <2>2, <2>5, RowPlaces
    <3>. QED
      BY <2>3, <3>1, CoveredBounds DEF Covered
  <2>. QED
    BY <2>3, <2>4, <2>5
<1>2. ASSUME NEW h \in 1 .. Covered - 1 PROVE h \in Query /\ ResultsOnDisk(h) # {}
  <2>1. h \in Query /\ h \in Nat
    BY <1>2, CoveredBounds DEF Query
  <2>2. CASE h < journal.next
    <3>1. PICK k \in 1 .. N : \E i \in 1 .. Len(rowFile[k]) :
              k \in SessionIds /\ i \in DOMAIN rowFile[k] /\ rowFile[k][i].index = h
      BY <2>1, <2>2, CoveredOnDisk
    <3>2. PICK i \in 1 .. Len(rowFile[k]) :
              k \in SessionIds /\ i \in DOMAIN rowFile[k] /\ rowFile[k][i].index = h
      BY <3>1
    <3>. QED
      BY <2>1, <3>2, RowCounts
  <2>3. CASE ~(h < journal.next)
    <3>1. journal.next <= h /\ h < journal.next + Len(OpenFile) /\ Len(OpenFile) # 0
      BY <1>2, <2>1, <2>3, CoveredBounds DEF Covered
    <3>2. Open # NoReport /\ Cur \in SessionIds /\ OpenFile = rowFile[Cur]
      BY <3>1, CoveredBounds
    <3>3. PICK i \in 1 .. Len(OpenFile) : i \in DOMAIN OpenFile /\ OpenFile[i].index = h
      BY <2>1, <3>1, <3>2, OpenOnDisk
    <3>. QED
      BY <2>1, <3>2, <3>3, RowCounts
  <2>. QED
    BY <2>2, <2>3
<1>. QED
  BY <1>1, <1>2

\* The log is a sequence of results that ends where the open session stands.
LogInv ==
    /\ DiskLog \in Seq(Results) /\ Len(DiskLog) = Covered - 1
    /\ Len(DiskLog) \in Nat /\ Covered \in Nat
    /\ \A g \in 1 .. Covered - 1 : g \in Query /\ DiskLog[g] \in ResultsOnDisk(g)

LEMMA LogShape == CInv => LogInv
<1>. SUFFICES ASSUME CInv PROVE LogInv
  OBVIOUS
<1>. DEFINE n == Covered - 1
<1>1. n \in Nat /\ Covered \in Nat
  BY CoveredBounds
<1>2. DiskLog = [g \in 1 .. n |-> CHOOSE result \in ResultsOnDisk(g) : TRUE]
  BY LogDomain DEF DiskLog
<1>3. \A g \in 1 .. n : g \in Query /\ ResultsOnDisk(g) # {}
  BY LogDomain
<1>4. \A g \in 1 .. n : g \in Query /\ DiskLog[g] \in ResultsOnDisk(g)
  BY <1>2, <1>3
<1>5. \A g : ResultsOnDisk(g) \subseteq Results
  BY DEF ResultsOnDisk
<1>6. DiskLog \in [1 .. n -> Results]
  BY <1>2, <1>4, <1>5
<1>. HIDE DEF n
<1>7. DiskLog \in Seq(Results)
  BY <1>1, <1>6, SeqDef
<1>8. Len(DiskLog) \in Nat /\ DOMAIN DiskLog = 1 .. Len(DiskLog)
  BY <1>7, LenProperties
<1>9. 1 .. Len(DiskLog) = 1 .. n
  BY <1>6, <1>8
<1>10. Len(DiskLog) = n
  <2>0. Len(DiskLog) \in Nat
    BY <1>8
  <2>1. \A a, b \in Nat : 1 .. a = 1 .. b => a = b
    <3>. SUFFICES ASSUME NEW a \in Nat, NEW b \in Nat, 1 .. a = 1 .. b, a < b PROVE FALSE
      OBVIOUS
    <3>1. b \in 1 .. b /\ b \notin 1 .. a
      OBVIOUS
    <3>. QED
      BY <3>1
  <2>. QED
    BY <1>1, <1>9, <2>0, <2>1
<1>. QED
  BY <1>1, <1>4, <1>7, <1>8, <1>10 DEF n, LogInv

\* Before anything is written the log is empty.
LEMMA InitImplements == Init => Abstract!Init
<1>. SUFFICES ASSUME Init PROVE DiskLog = << >> /\ asked = [g \in Abstract!Query |-> 0]
  BY DEF Abstract!Init
<1>1. CInv /\ Covered = 1
  BY InitCInv DEF Init, Covered, OpenFile, NewJournal
<1>2. DiskLog \in Seq(Results) /\ Len(DiskLog) = 0
  BY <1>1, LogShape DEF LogInv
<1>3. DiskLog = << >>
  BY <1>2, EmptySeq
<1>. QED
  BY <1>3 DEF Init, Abstract!Query, Query

\* A step that leaves the row files and the sent queries alone is a stutter.
LEMMA Stutters ==
    ASSUME rowFile' = rowFile, asked' = asked
    PROVE  UNCHANGED Abstract!vars
BY DEF Abstract!vars, DiskLog, ResultsOnDisk

\* Sending a query is asking the one after the log.
LEMMA AskImplements ==
    ASSUME CInv, NEW p \in Operators, Ask(p)
    PROVE  Abstract!Ask
<1>1. pc[p] = "marked" /\ rowFile' = rowFile
  BY DEF Ask, At, disk
<1>2. /\ Open # NoReport /\ rmem[p] = Open /\ Open.pending # 0 /\ Open.pending = End(Open)
      /\ End(Open) < Open.planned /\ asked[Open.pending] = 0
  BY <1>1, HolderKnows DEF CInv, IInv, PlaceInv, SessionInv
<1>3. Open.pending = Covered
  <2>1. Len(OpenFile) = Len(Open.rows) /\ Open.start = journal.next
    BY <1>1, <1>2, OpenReport DEF CInv, ReplyInv, ReplyOk
  <2>. QED
    BY <1>2, <2>1 DEF Covered, End
<1>4. Open.pending \in Query
  BY <1>2, OpenFileLength DEF Report
<1>5. Abstract!NextQuery = Open.pending
  BY <1>3, LogShape DEF LogInv, Abstract!NextQuery
<1>6. asked' = [asked EXCEPT ![Open.pending] = 1]
  BY <1>2, <1>4 DEF Ask, CInv, IInv, TypeOK
<1>7. DiskLog' = DiskLog
  BY <1>1 DEF DiskLog, ResultsOnDisk
<1>8. ASSUME Open.pending > 1 PROVE Abstract!SmokePassed
  <2>1. SmokeRowLegal
    BY <1>2, <1>8, GateOpens, SmokeOnDisk
  <2>2. PICK k \in SessionIds : \E i \in DOMAIN rowFile[k] :
                rowFile[k][i] = [index |-> 1, result |-> "legal"]
    BY <2>1 DEF SmokeRowLegal
  <2>3. "legal" \in ResultsOnDisk(1)
    BY <2>2 DEF ResultsOnDisk, Results, Replies
  <2>4. 1 \in 1 .. Covered - 1 /\ Len(DiskLog) > 0
    BY <1>3, <1>8, LogShape DEF LogInv
  <2>5. DiskLog[1] \in ResultsOnDisk(1) /\ 1 \in Query
    BY <2>4, LogShape DEF LogInv
  <2>6. DiskLog[1] = "legal"
    BY <2>3, <2>5, OneResult
  <2>. QED
    BY <2>4, <2>6 DEF Abstract!SmokePassed
<1>. QED
  BY <1>2, <1>4, <1>5, <1>6, <1>7, <1>8 DEF Abstract!Ask, Abstract!Query, Query

\* What a new row file adds to the results on disk.
LEMMA WrittenResults ==
    ASSUME CInv, NEW p \in Operators, WriteRow(p), NEW g \in Query
    PROVE  ResultsOnDisk(g)' =
               ResultsOnDisk(g) \cup (IF reply[p].index = g THEN {reply[p].result} ELSE {})
<1>. DEFINE row == reply[p]
<1>1. pc[p] = "answered"
  BY DEF WriteRow, At
<1>2. Open # NoReport /\ jmem[p] = journal
  BY <1>1, HolderKnows DEF CInv
<1>3. /\ OpenFile = rowFile[Cur] /\ Cur \in SessionIds /\ OpenFile \in Seq(Row)
      /\ row \in Row /\ rowFile \in [SessionIds -> Seq(Row)] /\ Len(OpenFile) \in Nat
      /\ DOMAIN OpenFile = 1 .. Len(OpenFile)
  BY <1>2, OpenFileLength DEF CInv, IInv, TypeOK
<1>. DEFINE new == Append(OpenFile, row)
<1>4. rowFile' = [rowFile EXCEPT ![Cur] = new]
  BY <1>2, <1>3 DEF WriteRow, Cur
<1>5. rowFile'[Cur] = new /\ \A k \in SessionIds : k # Cur => rowFile'[k] = rowFile[k]
  BY <1>3, <1>4
<1>6. /\ new \in Seq(Row) /\ Len(new) = Len(OpenFile) + 1
      /\ \A i \in 1 .. Len(OpenFile) : new[i] = OpenFile[i]
      /\ new[Len(OpenFile) + 1] = row
  BY <1>3, AppendedRow
<1>. HIDE DEF new
<1>7. DOMAIN new = 1 .. Len(OpenFile) + 1
  BY <1>6
<1>8. ASSUME NEW r \in ResultsOnDisk(g)' PROVE r \in ResultsOnDisk(g) \/ (row.index = g /\ r = row.result)
  <2>0. r \in Results
    BY <1>8 DEF ResultsOnDisk
  <2>1. PICK k \in SessionIds : \E i \in DOMAIN rowFile'[k] : rowFile'[k][i] = [index |-> g, result |-> r]
    BY <1>8 DEF ResultsOnDisk
  <2>2. PICK i \in DOMAIN rowFile'[k] : rowFile'[k][i] = [index |-> g, result |-> r]
    BY <2>1
  <2>3. CASE k # Cur
    BY <1>5, <2>0, <2>2, <2>3 DEF ResultsOnDisk
  <2>4. CASE k = Cur
    <3>1. i \in 1 .. Len(OpenFile) + 1 /\ new[i] = [index |-> g, result |-> r]
      BY <1>5, <1>7, <2>2, <2>4
    <3>2. CASE i \in 1 .. Len(OpenFile)
      BY <1>3, <1>6, <2>0, <3>1, <3>2 DEF ResultsOnDisk
    <3>3. CASE i = Len(OpenFile) + 1
      BY <1>6, <3>1, <3>3
    <3>. QED
      BY <1>3, <3>1, <3>2, <3>3
  <2>. QED
    BY <2>3, <2>4
<1>9. ASSUME NEW r \in ResultsOnDisk(g) PROVE r \in ResultsOnDisk(g)'
  <2>0. r \in Results
    BY DEF ResultsOnDisk
  <2>1. PICK k \in SessionIds : \E i \in DOMAIN rowFile[k] : rowFile[k][i] = [index |-> g, result |-> r]
    BY DEF ResultsOnDisk
  <2>2. PICK i \in DOMAIN rowFile[k] : rowFile[k][i] = [index |-> g, result |-> r]
    BY <2>1
  <2>3. i \in DOMAIN rowFile'[k] /\ rowFile'[k][i] = rowFile[k][i]
    <3>1. CASE k # Cur
      BY <1>5, <3>1
    <3>2. CASE k = Cur
      <4>1. i \in 1 .. Len(OpenFile)
        BY <1>3, <3>2
      <4>2. i \in 1 .. Len(OpenFile) + 1
        BY <1>3, <4>1
      <4>. QED
        BY <1>3, <1>5, <1>6, <1>7, <3>2, <4>1, <4>2
    <3>. QED
      BY <3>1, <3>2
  <2>. QED
    BY <2>0, <2>2, <2>3 DEF ResultsOnDisk
<1>10. ASSUME row.index = g PROVE row.result \in ResultsOnDisk(g)'
  <2>1. row.result \in Results /\ row = [index |-> g, result |-> row.result]
    BY <1>3, <1>10 DEF Row
  <2>2. Len(OpenFile) + 1 \in 1 .. Len(OpenFile) + 1
    BY <1>3
  <2>3. Len(OpenFile) + 1 \in DOMAIN rowFile'[Cur] /\ rowFile'[Cur][Len(OpenFile) + 1] = row
    BY <1>5, <1>6, <1>7, <2>2
  <2>. QED
    BY <1>3, <2>1, <2>3 DEF ResultsOnDisk
<1>. QED
  BY <1>8, <1>9, <1>10

\* Writing a row's own file records its result.
LEMMA WriteRowImplements ==
    ASSUME CInv, CInv', NEW p \in Operators, WriteRow(p)
    PROVE  \E result \in Abstract!Results : Abstract!Record(result)
<1>. DEFINE row == reply[p]
<1>1. pc[p] = "answered" /\ UNCHANGED <<journal, report, asked, heard>>
  BY DEF WriteRow, At
<1>2. /\ Open # NoReport /\ rmem[p] = Open /\ jmem[p] = journal /\ Open.pending # 0
      /\ Open.pending = End(Open)
  BY <1>1, HolderKnows DEF CInv, IInv, PlaceInv, SessionInv
<1>3. /\ row.index = Open.pending /\ Truthful(row, asked, heard) /\ row \in Row
  BY <1>1 DEF CInv, IInv, TypeOK, ReplyInv, ReplyOk
<1>4. row.index = Covered /\ Covered \in Query
  <2>1. OpenFile = rowFile[Cur] /\ Open.start = journal.next
    BY <1>2, OpenFileLength, OpenReport DEF CInv
  <2>2. Len(OpenFile) = Len(Open.rows)
    BY <1>2, <2>1 DEF WriteRow, Cur
  <2>3. row.index = Covered
    BY <1>2, <1>3, <2>1, <2>2 DEF Covered, End
  <2>. QED
    BY <1>3, <2>3 DEF Row
<1>5. /\ DiskLog \in Seq(Results) /\ Len(DiskLog) = Covered - 1 /\ Covered \in Nat
      /\ \A g \in 1 .. Covered - 1 : g \in Query /\ DiskLog[g] \in ResultsOnDisk(g)
  BY LogShape DEF LogInv
<1>6. /\ DiskLog' \in Seq(Results) /\ Len(DiskLog') = Covered' - 1 /\ Covered' \in Nat
      /\ \A g \in 1 .. Covered' - 1 : g \in Query /\ DiskLog'[g] \in ResultsOnDisk(g)'
  <2>1. CInv' => LogInv'
    BY LogShape, PTL
  <2>. QED
    BY <2>1 DEF LogInv
<1>7. \A g \in Query : ResultsOnDisk(g)' =
               ResultsOnDisk(g) \cup (IF row.index = g THEN {row.result} ELSE {})
  BY WrittenResults
<1>8. Covered' = Covered + 1
  <2>1. Cur' = Cur /\ OpenFile' = Append(OpenFile, row)
    BY <1>1, <1>2, OpenFileLength DEF WriteRow, OpenFile, Cur, CInv, IInv, TypeOK
  <2>2. Len(OpenFile') = Len(OpenFile) + 1 /\ Len(OpenFile) \in Nat
    BY <1>3, <2>1, CoveredBounds, AppendedRow
  <2>. QED
    BY <1>1, <2>2, CoveredBounds DEF Covered
<1>9. row.result \in Results
  BY <1>3 DEF Row
<1>10. DiskLog' = Append(DiskLog, row.result)
  <2>. DEFINE log == Append(DiskLog, row.result)
  <2>1. /\ log \in Seq(Results) /\ Len(log) = Covered
        /\ \A g \in 1 .. Covered - 1 : log[g] = DiskLog[g]
        /\ log[Covered] = row.result
    <3>1. /\ log \in Seq(Results) /\ Len(log) = Len(DiskLog) + 1
          /\ \A g \in 1 .. Len(DiskLog) : log[g] = DiskLog[g]
          /\ log[Len(DiskLog) + 1] = row.result
      BY <1>5, <1>9, AppendProperties
    <3>2. Len(DiskLog) + 1 = Covered
      BY <1>5
    <3>. HIDE DEF log
    <3>. QED
      BY <1>5, <3>1, <3>2
  <2>. HIDE DEF log
  <2>2. ASSUME NEW g \in 1 .. Covered PROVE DiskLog'[g] = log[g]
    <3>1. g \in Query /\ DiskLog'[g] \in ResultsOnDisk(g)'
      BY <1>6, <1>8, <1>5
    <3>2. CASE g # Covered
      <4>1. g \in 1 .. Covered - 1
        BY <1>5, <3>2
      <4>2. DiskLog'[g] \in ResultsOnDisk(g)
        BY <1>4, <1>7, <3>1, <3>2
      <4>3. DiskLog[g] \in ResultsOnDisk(g)
        BY <1>5, <4>1
      <4>. QED
        BY <2>1, <3>1, <4>1, <4>2, <4>3, OneResult
    <3>3. CASE g = Covered
      <4>1. ResultsOnDisk(g) = {}
        <5>1. g \notin 1 .. Covered - 1
          BY <1>5, <3>3
        <5>. QED
          BY <3>1, <5>1, LogDomain
      <4>2. DiskLog'[g] = row.result
        BY <1>4, <1>7, <3>1, <3>3, <4>1
      <4>. QED
        BY <2>1, <3>3, <4>2
    <3>. QED
      BY <3>2, <3>3
  <2>3. Len(DiskLog') = Covered
    BY <1>5, <1>6, <1>8
  <2>4. DiskLog' = log
    BY <1>6, <2>1, <2>2, <2>3, SeqEqual
  <2>. QED
    BY <2>4 DEF log
<1>11. Abstract!NextQuery = Covered
  BY <1>5 DEF Abstract!NextQuery
<1>12. ASSUME row.result # "ambiguous_query" PROVE asked[Covered] = 1
  <2>1. asked[Covered] > 0
    BY <1>3, <1>4, <1>12 DEF Truthful
  <2>2. asked[Covered] \in Nat /\ asked[Covered] <= 1
    BY <1>4 DEF CInv, IInv, TypeOK, AskInv
  <2>. QED
    BY <2>1, <2>2
<1>13. Abstract!Record(row.result)
  BY <1>1, <1>4, <1>10, <1>11, <1>12 DEF Abstract!Record, Abstract!Query, Query
<1>. QED
  BY <1>9, <1>13 DEF Results, Replies, Abstract!Results, Abstract!Replies

\* Every step is a step of the evidence log or leaves it alone.
LEMMA StepImplements ==
    ASSUME CInv, CInv', [Next]_vars
    PROVE  [Abstract!Next]_(Abstract!vars)
<1>1. CASE UNCHANGED vars
  BY <1>1, Stutters DEF vars, disk
<1>2. ASSUME NEW p \in Operators, NEW c \in {"run", "resolve"}, Enter(p, c)
      PROVE  UNCHANGED Abstract!vars
  BY <1>2, Stutters DEF Enter, disk
<1>3. ASSUME NEW p \in Operators, NEW m \in 1 .. MaxBatch, RunReserve(p, m)
      PROVE  UNCHANGED Abstract!vars
  BY <1>3, Stutters DEF RunReserve
<1>4. ASSUME NEW p \in Operators, Refuse(p) \/ Crash(p) \/ ResolveStep(p) \/ RunAdoptOrphan(p)
      PROVE  UNCHANGED Abstract!vars
  BY <1>4, Stutters DEF Refuse, Crash, ResolveStep, ResolveReserved, ResolveFinalized,
     ResolvePending, ResolveInterrupted, RunAdoptOrphan, disk
<1>5. ASSUME NEW p \in Operators, SessionStep(p) PROVE [Abstract!Next]_(Abstract!vars)
  <2>1. CASE Ask(p)
    BY <2>1, AskImplements DEF Abstract!Next
  <2>2. CASE WriteRow(p)
    BY <2>2, WriteRowImplements DEF Abstract!Next
  <2>3. CASE \/ OpenSession(p) \/ MarkPending(p) \/ StopLoop(p) \/ \E r \in Replies : Receive(p, r)
             \/ RecordRow(p) \/ Finalize(p) \/ AppendFinalized(p)
    BY <2>3, Stutters DEF OpenSession, MarkPending, StopLoop, Receive, RecordRow, Finalize,
       AppendFinalized, disk
  <2>. QED
    BY <1>5, <2>1, <2>2, <2>3 DEF SessionStep
<1>. QED
  BY <1>1, <1>2, <1>3, <1>4, <1>5 DEF Next, Step

\* The files, sessions, locks and crashes implement the evidence log: a query is
\* asked at most once and in order, its answer recorded once, and nothing is
\* asked after a failed smoke.
THEOREM EvidenceLogImplemented == Spec => ImplementsEvidenceLog
<1>1. CInv /\ CInv' /\ [Next]_vars => [Abstract!Next]_(Abstract!vars)
  BY StepImplements
<1>. QED
  BY <1>1, InitImplements, ChainInvariant, PTL DEF Spec, ImplementsEvidenceLog, Abstract!Spec

=============================================================================
