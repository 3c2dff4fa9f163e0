----------------------------- MODULE ArchiveReader -----------------------------
(***************************************************************************)
(* A query of the native engine (internal/native/engine.go) beside the     *)
(* writer and the daily pass: it lists a project's files once              *)
(* (archive.ListFiles) and then opens them by name, one after the other,   *)
(* with no lock against either of them.  A name that is gone fails the     *)
(* attempt, and the query runs again over a new listing.                   *)
(***************************************************************************)
EXTENDS Archive

VARIABLES
    listing,    \* the listed names not read yet
    got,        \* the lines read, as <<file, line>>
    promised,   \* the ids acknowledged when the attempt listed the files
    reborn,     \* the listed names that went and came back since
    overlapped, \* whether a pass ran beside the attempt
    query       \* "idle", "reading" or "answered"

readerVars == <<listing, got, promised, reborn, overlapped, query>>

\* Names created by this step that were listed and not read yet.
Reborn == IF query = "reading" THEN reborn \union ((dir' \ dir) \intersect listing)
                               ELSE reborn

\* A query, or one more attempt of it, lists the directory.
QueryLists ==
    /\ query \in {"idle", "answered"}
    /\ query' = "reading"
    /\ listing' = Listed(dir)
    /\ got' = {} /\ reborn' = {}
    /\ promised' = acked
    /\ overlapped' = (pc # "idle")
    /\ UNCHANGED vars

QueryReads(f) ==
    /\ query = "reading" /\ f \in listing /\ f \in dir
    /\ got' = got \union { <<f, l>> : l \in content[f] }
    /\ listing' = listing \ {f}
    /\ UNCHANGED <<vars, promised, reborn, overlapped, query>>

AttemptEnds ==
    /\ query' = "idle" /\ overlapped' = FALSE
    /\ listing' = {} /\ got' = {} /\ promised' = {} /\ reborn' = {}

\* Mutant of QueryMisses: a file that is gone is skipped.
MutQueryMisses(f) ==
    /\ query = "reading" /\ f \in listing /\ f \notin dir
    /\ listing' = listing \ {f}
    /\ UNCHANGED <<vars, got, promised, reborn, overlapped, query>>

\* The file is gone: what was read is dropped, and the attempt with it.
QueryMisses(f) ==
    /\ query = "reading" /\ f \in listing /\ f \notin dir
    /\ AttemptEnds
    /\ UNCHANGED vars

QueryAnswers ==
    /\ query = "reading" /\ listing = {}
    /\ query' = "answered"
    /\ UNCHANGED <<vars, listing, got, promised, reborn, overlapped>>

ReaderInit ==
    /\ listing = {} /\ got = {} /\ promised = {} /\ reborn = {}
    /\ query = "idle" /\ overlapped = FALSE

Query ==
    \/ QueryLists
    \/ \E f \in listing : QueryReads(f) \/ QueryMisses(f)
    \/ QueryAnswers

\* A query is over in CONSOLE_QUERY_TIMEOUT, long before a second pass starts.
OnePass == query = "reading" /\ overlapped => (pc = "idle" => pc' = "idle")

\* The writer, the pass and the clock go on between two steps of the query.
Beside ==
    /\ Write \/ Pass \/ NewDay
    /\ OnePass
    /\ reborn' = Reborn
    /\ overlapped' = (overlapped \/ (query = "reading" /\ pc' # "idle"))
    /\ UNCHANGED <<listing, got, promised, query>>

\* A crash ends the query with its process.
ReaderNext == Query \/ Beside \/ (Crashes /\ AttemptEnds)

ReaderSpec == Init /\ ReaderInit /\ [][ReaderNext]_<<vars, readerVars>>

-----------------------------------------------------------------------------

ReaderTypeOK ==
    /\ query \in {"idle", "reading", "answered"} /\ overlapped \in BOOLEAN
    /\ listing \subseteq Name /\ reborn \subseteq Name
    /\ got \subseteq Name \X Line
    /\ promised \subseteq acked
    /\ query = "idle" => listing = {} /\ got = {}

\* No line is counted twice by one query, though every file of its listing
\* may have been rotated, claimed, dumped or merged since it was listed.
AnswerCountsOnce ==
    \A x, y \in got : x # y => x[2] # y[2]

Missed == { e \in promised : Kept(e) /\ \A x \in got : x[2].id # e }

\* A query that answers holds every event acknowledged before it listed the
\* files: a file the pass removed while it read fails the attempt.
AnswerComplete == query = "answered" => Missed = {}

\* What an answer does miss was in a log the pass renamed after the listing,
\* while a later event of its day brought a log of that name back: never in a
\* Parquet file, and never for want of a name that is gone.
AnswerMissesOnlyReborn ==
    query = "answered" =>
        \A e \in Missed : \E f \in reborn : f.kind \in LogKinds /\ f.day = EventDay[e]

=============================================================================
