--------------------------------- MODULE Outbox --------------------------------
(***************************************************************************)
(* Form submissions on their way to the event log: the rows of the forms   *)
(* and submissions tables (store/sqlite), the minute's job that attributes *)
(* pending submissions, leaves their events in an outbox and flushes it to *)
(* the log (jobs/attribution.go), and the purge, of this process or        *)
(* another.                                                                *)
(*                                                                         *)
(* One form.  The fields of a submission and what attribution finds are    *)
(* left out; the log is the set of submissions whose event it holds, for   *)
(* it drops an event written again (Archive).  Archived items may be       *)
(* purged at once.                                                         *)
(***************************************************************************)
EXTENDS SequencesExt, Selections

CONSTANTS
    Submissions,
    Unreadable,     \* those whose stored event does not read
    Batch,          \* attributionBatch
    Page,           \* outboxPage
    GiveUpAge,      \* attributionGiveUp, in minutes
    MaxJobFaults,   \* bound: failed writes and crashes
    MaxInserts      \* bound: rows inserted

ASSUME OutboxAssumption ==
    /\ Unreadable \subseteq Submissions
    /\ Batch \in Nat \ {0} /\ Page \in Nat \ {0} /\ GiveUpAge \in Nat \ {0}
    /\ MaxJobFaults \in Nat /\ MaxInserts \in Nat

VARIABLES
    form,       \* its row: status, archived, over (past its date)
    table,      \* the submissions with a row, in the order received
    row,        \* row[s]: event, write, age in minutes, archived
    logged,     \* the events in the log
    job,        \* the job's step: "idle", "attribute", "flush", "mark"
    work,       \* the batch or page it has read, or what is left of it: rows as then
    looked,     \* whether the lookup of the batch succeeded
    more,       \* whether another batch or page may follow
    approved,   \* history: submissions accepted on an approved form
    erased,     \* history: those deleted with their form since
    jobFaults, inserts

tableVars  == <<form, table, row>>
jobVars    == <<job, work, looked, more>>
outboxVars == <<tableVars, logged, jobVars, approved, erased, jobFaults, inserts>>

NoForm == [status |-> "none", archived |-> FALSE, over |-> FALSE]
NoRow  == [event |-> "none", write |-> FALSE, age |-> 0, archived |-> FALSE]

JobFault == jobFaults < MaxJobFaults /\ jobFaults' = jobFaults + 1

Stored == ToSet(table)

Open == ~form.archived /\ ~form.over

\* Mutant of IsNew: a retry of a stored one is stored again.
MutIsNew(s) == s \notin erased

\* A retry of a stored submission changes nothing; one whose form was purged,
\* long after, is not sent again.
IsNew(s) == s \notin Stored \cup erased

\* A first submission makes the form, a draft; it is refused if the form is
\* not open.
Submits(s) ==
    /\ IsNew(s) /\ inserts < MaxInserts /\ inserts' = inserts + 1
    /\ form.status = "none" \/ Open
    /\ form' = IF form.status = "none" THEN [form EXCEPT !.status = "draft"] ELSE form
    /\ table' = Append(table, s)
    /\ row' = [row EXCEPT ![s] = [NoRow EXCEPT !.event = "pending",
                                               !.write = form.status = "approved"]]
    /\ approved' = IF row'[s].write THEN approved \cup {s} ELSE approved
    /\ UNCHANGED <<logged, jobVars, erased, jobFaults>>

ChangesForm(f) ==
    /\ form.status # "none" /\ form' = f /\ form' # form
    /\ UNCHANGED <<table, row, logged, jobVars, approved, erased, jobFaults, inserts>>

\* ApproveForm (its check that the form is not archived is another read), the
\* closing time and its removal, SetFormArchived, ExpireDrafts.
Approves    == form.status = "draft" /\ ChangesForm([form EXCEPT !.status = "approved", !.over = FALSE])
DatePasses  == ChangesForm([form EXCEPT !.over = TRUE])
Reopens     == form.status = "approved" /\ ChangesForm([form EXCEPT !.over = FALSE])
Archives    == ChangesForm([form EXCEPT !.archived = TRUE])
Restores    == form.archived /\ ChangesForm([form EXCEPT !.archived = FALSE,
                                                !.over = @ /\ form.status = "approved"])

ArchivesOrRestores(s) ==
    /\ s \in Stored
    /\ row' = [row EXCEPT ![s].archived = ~@]
    /\ UNCHANGED <<form, table, logged, jobVars, approved, erased, jobFaults, inserts>>

Deleted(S) ==
    /\ table' = Only(table, Stored \ S)
    /\ row' = [s \in Submissions |-> IF s \in S THEN NoRow ELSE row[s]]

\* The purge of the form takes its submissions with it.
PurgesForm ==
    /\ form.archived
    /\ Deleted(Stored) /\ form' = NoForm
    /\ erased' = erased \cup Stored
    /\ UNCHANGED <<logged, jobVars, approved, jobFaults, inserts>>

Purgeable(s) == s \in Stored /\ row[s].archived /\ row[s].event = "none"

PurgesSubmissions ==
    LET S == { s \in Submissions : Purgeable(s) } IN
    /\ S # {} /\ Deleted(S)
    /\ UNCHANGED <<form, logged, jobVars, approved, erased, jobFaults, inserts>>

MinutePasses ==
    /\ \E s \in Stored : row[s].event = "pending" /\ row[s].age < GiveUpAge
    /\ row' = [s \in Submissions |->
                  IF row[s].event = "pending" /\ row[s].age < GiveUpAge
                  THEN [row[s] EXCEPT !.age = @ + 1] ELSE row[s]]
    /\ UNCHANGED <<form, table, logged, jobVars, approved, erased, jobFaults, inserts>>

-----------------------------------------------------------------------------
(* The job of a minute.                                                    *)

FirstOf(n, S) ==
    LET all == Only(table, S) IN SubSeq(all, 1, IF Len(all) < n THEN Len(all) ELSE n)

Pending  == FirstOf(Batch, { s \in Stored : row[s].event = "pending" /\ row[s].age >= 1 })
UnloggedOf(S) == FirstOf(Page, { s \in S : row[s].event = "unlogged" })
Unlogged == UnloggedOf(Stored)

\* Mutant of Read: nothing is ever given up.
MutRead(s) == [id |-> s, write |-> row[s].write /\ s \notin Unreadable, over |-> FALSE]

\* A row as it is read: its event, whether to write it, and past the hour.
Read(s) == [id |-> s, write |-> row[s].write /\ s \notin Unreadable,
            over |-> row[s].age >= GiveUpAge]

ReadAll(seq) == [i \in DOMAIN seq |-> Read(seq[i])]

InWork == { work[i].id : i \in DOMAIN work }

Readable(S) == S \ Unreadable

UnchangedByJob == UNCHANGED <<form, table, approved, erased, inserts>>

JobGoes(to, todo, next) == job' = to /\ work' = ReadAll(todo) /\ more' = next

\* A batch is read and looked up, with the outcome of its lookup; without a
\* batch the outbox is next.
ReadsBatch ==
    \/ /\ Pending # <<>>
       /\ looked' \in BOOLEAN
       /\ JobGoes("attribute", Pending, looked' /\ Len(Pending) = Batch)
    \/ /\ Pending = <<>>
       /\ JobGoes("flush", Unlogged, FALSE) /\ looked' = FALSE

StartsMinute ==
    /\ job = "idle" /\ (Pending # <<>> \/ Unlogged # <<>>)
    /\ ReadsBatch
    /\ UnchangedByJob /\ UNCHANGED <<row, logged, jobFaults>>

\* AttributeSubmission, of a row still pending.
Attributed(s, write) ==
    row' = IF row[s].event # "pending" THEN row
           ELSE [row EXCEPT ![s].event = IF write THEN "unlogged" ELSE "none",
                            ![s].write = FALSE, ![s].age = 0]

\* Mutant of Attributes: whether to write it is asked of the form now.
MutAttributes ==
    /\ job = "attribute" /\ work # <<>>
    /\ LET p == Head(work) IN
       IF p.id \in Unreadable \/ looked \/ p.over
       THEN Attributed(p.id, form.status = "approved" /\ p.id \notin Unreadable) /\ more' = more
       ELSE UNCHANGED row /\ more' = FALSE
    /\ work' = Tail(work)
    /\ UnchangedByJob /\ UNCHANGED <<logged, job, looked, jobFaults>>

\* The next of the batch: cleared if its event does not read, attributed if
\* the lookup succeeded or it is past the hour, else left for the next minute.
Attributes ==
    /\ job = "attribute" /\ work # <<>>
    /\ LET p == Head(work) IN
       IF p.id \in Unreadable \/ looked \/ p.over
       THEN Attributed(p.id, p.write) /\ more' = more
       ELSE UNCHANGED row /\ more' = FALSE
    /\ work' = Tail(work)
    /\ UnchangedByJob /\ UNCHANGED <<logged, job, looked, jobFaults>>

AttributeFails ==
    /\ JobFault
    /\ job = "attribute" /\ work # <<>>
    /\ work' = Tail(work) /\ more' = FALSE
    /\ UnchangedByJob /\ UNCHANGED <<row, logged, job, looked>>

\* Another batch while full ones keep coming (and the minute's budget lasts),
\* then the first page of the outbox.
BatchDone ==
    /\ job = "attribute" /\ work = <<>>
    /\ \/ more /\ ReadsBatch
       \/ JobGoes("flush", Unlogged, FALSE) /\ looked' = FALSE
    /\ UnchangedByJob /\ UNCHANGED <<row, logged, jobFaults>>

\* A page is written whole ...
WritesPage ==
    /\ job = "flush" /\ work # <<>>
    /\ logged' = logged \cup Readable(InWork)
    /\ job' = "mark" /\ more' = (Len(work) = Page)
    /\ UnchangedByJob /\ UNCHANGED <<row, work, looked, jobFaults>>

\* ... or the write fails, after some of it or all, until the next minute.
WriteFailsAt ==
    /\ JobFault
    /\ job = "flush" /\ Readable(InWork) # {}
    /\ \E S \in SUBSET Readable(InWork) : logged' = logged \cup S
    /\ JobGoes("idle", <<>>, FALSE)
    /\ UnchangedByJob /\ UNCHANGED <<row, looked>>

\* The page's rows are marked, and another full page may follow.
Marks ==
    /\ job = "mark"
    /\ row' = [s \in Submissions |-> IF s \in InWork /\ row[s].event = "unlogged"
                                     THEN [row[s] EXCEPT !.event = "none"] ELSE row[s]]
    /\ \/ /\ more
          /\ JobGoes("flush", UnloggedOf(Stored \ InWork), FALSE)
       \/ JobGoes("idle", <<>>, FALSE)
    /\ UnchangedByJob /\ UNCHANGED <<logged, looked, jobFaults>>

EmptyOutbox ==
    /\ job = "flush" /\ work = <<>>
    /\ JobGoes("idle", <<>>, FALSE)
    /\ UnchangedByJob /\ UNCHANGED <<row, logged, looked, jobFaults>>

\* The database fails the job's next read or write of a page, or the process
\* stops: the rows are as they were, what was written is in the log.
JobStops ==
    /\ JobFault
    /\ job # "idle"
    /\ JobGoes("idle", <<>>, FALSE)
    /\ UnchangedByJob /\ UNCHANGED <<row, logged, looked>>

-----------------------------------------------------------------------------

OutboxInit ==
    /\ form = NoForm /\ table = <<>> /\ row = [s \in Submissions |-> NoRow]
    /\ logged = {}
    /\ job = "idle" /\ work = <<>> /\ looked = FALSE /\ more = FALSE
    /\ approved = {} /\ erased = {} /\ jobFaults = 0 /\ inserts = 0

JobGoesOn ==
    StartsMinute \/ Attributes \/ BatchDone \/ WritesPage \/ Marks \/ EmptyOutbox

OutboxNext ==
    \/ \E s \in Submissions : Submits(s) \/ ArchivesOrRestores(s)
    \/ Approves \/ DatePasses \/ Reopens \/ Archives \/ Restores
    \/ PurgesForm \/ PurgesSubmissions
    \/ MinutePasses
    \/ JobGoesOn \/ AttributeFails \/ WriteFailsAt \/ JobStops

\* The job runs every minute.
OutboxFairness == WF_outboxVars(JobGoesOn) /\ WF_outboxVars(MinutePasses)

OutboxSpec == OutboxInit /\ [][OutboxNext]_outboxVars /\ OutboxFairness

-----------------------------------------------------------------------------

OutboxTypeOK ==
    /\ form \in [status : {"none", "draft", "approved"}, archived : BOOLEAN, over : BOOLEAN]
    /\ table \in Seq(Submissions) /\ Len(table) = Cardinality(Stored)
    /\ row \in [Submissions -> [event : {"none", "pending", "unlogged"}, write : BOOLEAN,
                                age : 0..GiveUpAge, archived : BOOLEAN]]
    /\ logged \subseteq Submissions \ Unreadable
    /\ job \in {"idle", "attribute", "flush", "mark"}
    /\ \A i \in DOMAIN work : work[i] \in [id : Submissions, write : BOOLEAN, over : BOOLEAN]
    /\ looked \in BOOLEAN /\ more \in BOOLEAN
    /\ approved \subseteq Submissions /\ erased \subseteq Submissions

\* A draft's submission never becomes an event, though its form is approved
\* before the job comes to it.
PreviewsStayOut == logged \subseteq approved

\* A submission accepted on an approved form is a conversion, and reaches the
\* log in the end, whatever failed lookups and writes, crashes, purges of its
\* row and neighbours in the queue there are, unless its form is purged.
ConversionsLogged ==
    <>[](\A s \in Readable(approved) : s \in logged \/ s \in erased)

=============================================================================
