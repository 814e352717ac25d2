---------------------------- MODULE EvidenceLog ----------------------------
(***************************************************************************)
(* What the batch continuation of a confirmation run promises, with no     *)
(* files, sessions, locks or restarts: the answers of a fixed schedule of  *)
(* queries form one log that only grows, a query goes to the model at most *)
(* once and only when every earlier one has been accounted for, and after  *)
(* the first continuation query (the smoke) has failed nothing else is     *)
(* asked.  BatchJournal implements it.                                     *)
(***************************************************************************)
EXTENDS Integers, Sequences

CONSTANT ExpectedQueries    \* len(schedule), positive; query 0 is the parent's

VARIABLES
    log,      \* log[g] is what is recorded for query g
    asked     \* asked[g] is how often query g was sent to the model

vars == <<log, asked>>

Query == 1 .. ExpectedQueries - 1

\* What a reply can be worth: a legal untruncated action, any other text, or a
\* call that failed on the way.
Replies == {"legal", "illegal", "transport_failure"}

\* A query whose reply was lost is accounted for without asking again.
Results == Replies \cup {"ambiguous_query"}

NextQuery == Len(log) + 1

SmokePassed == Len(log) > 0 /\ log[1] = "legal"

Init ==
    /\ log = << >>
    /\ asked = [g \in Query |-> 0]

Ask ==
    /\ NextQuery \in Query
    /\ asked[NextQuery] = 0
    /\ NextQuery > 1 => SmokePassed
    /\ asked' = [asked EXCEPT ![NextQuery] = 1]
    /\ UNCHANGED log

Record(result) ==
    /\ NextQuery \in Query
    /\ result # "ambiguous_query" => asked[NextQuery] = 1
    /\ log' = Append(log, result)
    /\ UNCHANGED asked

Next == Ask \/ \E result \in Results : Record(result)

Spec == Init /\ [][Next]_vars

=============================================================================
