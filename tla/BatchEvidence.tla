--------------------------- MODULE BatchEvidence ---------------------------
(***************************************************************************)
(* BatchJournal implements EvidenceLog.  The log is what the row files     *)
(* say, query by query, whether or not a report lists the row yet: the     *)
(* write of a row's own file is the moment its answer is recorded, and     *)
(* every other write is bookkeeping.                                       *)
(***************************************************************************)
EXTENDS BatchJournal

\* What the row files say of query g.
ResultsOnDisk(g) ==
    {result \in Results :
        \E k \in SessionIds : \E i \in DOMAIN rowFile[k] :
            rowFile[k][i] = [index |-> g, result |-> result]}

DiskLog ==
    [g \in {h \in Query : ResultsOnDisk(h) # {}} |->
        CHOOSE result \in ResultsOnDisk(g) : TRUE]

Abstract == INSTANCE EvidenceLog
    WITH log <- DiskLog

\* Every step of the file-level program is one step of the evidence log, or
\* none: it asks the next query, records the next result, or does bookkeeping.
ImplementsEvidenceLog == Abstract!Spec

=============================================================================
