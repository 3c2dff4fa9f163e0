------------------------------- MODULE SharedScan ------------------------------
(***************************************************************************)
(* One call of AnswerMany (internal/native/many.go): its requests are      *)
(* grouped into shared scans, each of which waits for its turns, feeds the *)
(* aggregations of all its requests from one reading of the files, and     *)
(* answers each request on its own terms: it leaves when its context is    *)
(* done, fails alone, or is put out for the scan's memory and answered     *)
(* alone afterwards.  AnswerQueue takes the answers on from here.          *)
(*                                                                         *)
(* A request is its scan's key ("alone" and "invalid" have none), the      *)
(* number of its aggregations, and of those that are heavy.  Every request *)
(* of a scan reads every work item; an item fed to an aggregation takes    *)
(* one byte.                                                               *)
(***************************************************************************)
EXTENDS SequencesExt, FiniteSetsExt

CONSTANTS
    ManyCalls,      \* the sequences of requests a call may have
    MaxScans,       \* Options.MaxScans
    MaxConsumers,   \* maxConsumers
    ScanItems,      \* work items of an attempt: logs, row groups, gap days
    TurnBytes,      \* Options.MaxBytes
    ScanWorkers,    \* Options.Workers
    ScanAttempts,   \* maxAttempts
    MaxTroubles     \* bound: contexts done, failures and panics

ASSUME SharedScanAssumption ==
    /\ MaxScans \in Nat \ {0} /\ MaxConsumers \in Nat \ {0} /\ ScanAttempts \in Nat \ {0}
    /\ ManyCalls \subseteq Seq([key : STRING, aggs : Nat, heavy : Nat])
    /\ TurnBytes \in Nat /\ ScanWorkers \in Nat \ {0} /\ MaxTroubles \in Nat

VARIABLES
    asked,      \* the requests
    lead,       \* lead[i]: the first request of i's scan, by which it is named
    at,         \* at[t]: how far a scan, or a request answered alone, is
    free, line, \* of Engine.slots: free units, and the tasks waiting in order
    state,      \* state[i]: manyReq.state
    live,       \* live[s]: sharedScan.live; at 0 the scan's context is done
    tries,      \* tries[s]: attempts begun
    todo,       \* todo[s]: what of the attempt has yet to be fed: <<request, item>>
    checks,     \* checks[s]: workers that have fed and not yet checked the budget
    fed,        \* fed[i][n]: times item n was fed to i's present aggregations
    outcome,    \* outcome[s]: turnFor's error, "none" without
    answers,    \* the answers handed on, in order: [req, what]
    ctxDone,    \* requests whose context is done
    troubles    \* bound: the troubles so far

turnVars   == <<at, free, line>>
reqVars    == <<state, live, answers>>
feedVars   == <<todo, checks, fed>>
manyVars   == <<asked, lead, turnVars, reqVars, feedVars, tries, outcome, ctxDone, troubles>>

Reqs     == DOMAIN asked
Scan(s)  == <<"scan", s>>
Solo(i)  == <<"solo", i>>

-----------------------------------------------------------------------------
(* How AnswerMany groups its requests.                                     *)

IsShared(i) == asked[i].key \notin {"alone", "invalid"}

Aggs(S)  == MapThenSumSet(LAMBDA i : asked[i].aggs, S)
Heavy(S) == MapThenSumSet(LAMBDA i : asked[i].heavy, S)

\* The request would be too many for the scan.
Overfull(chunk, i) ==
    Aggs(chunk) + asked[i].aggs > MaxConsumers \/ Heavy(chunk) + asked[i].heavy > MaxScans

\* A request joins the scan of the one before it of its key, unless it would be
\* too many there.
LeadOf(i) ==
    LET before == { j \in 1..(i - 1) : asked[j].key = asked[i].key }
        last   == lead[Max(before)]
        chunk  == { j \in before : lead[j] = last } IN
    IF ~IsShared(i) \/ before = {} \/ Overfull(chunk, i) THEN i ELSE last

Of(s)  == { i \in Reqs : lead[i] = s /\ IsShared(i) }
Scans  == { s \in Reqs : Of(s) # {} }
Tasks  == { Scan(s) : s \in Scans } \cup { Solo(i) : i \in Reqs }

-----------------------------------------------------------------------------
(* The weighted semaphore.                                                 *)

Weight(t) == IF t[1] = "solo" THEN 1 ELSE Min({Max({1, Heavy(Of(t[2]))}), MaxScans})

Needs(queue) == MapThenSumSet(LAMBDA k : Weight(queue[k]), DOMAIN queue)

\* serve: the waiters get what is free, in order, while the first fits.
Serve(queue, units) ==
    LET first(k) == SubSeq(queue, 1, k)
        served   == Max({ k \in 0..Len(queue) : Needs(first(k)) <= units }) IN
    /\ line' = SubSeq(queue, served + 1, Len(queue))
    /\ free' = units - Needs(first(served))

Goes(t, from, to) == at[t] = from /\ at' = [at EXCEPT ![t] = to]

\* acquire: at once if nobody waits, else in line.
Acquires(t, begin) ==
    IF free >= Weight(t) /\ line = <<>>
    THEN /\ free' = free - Weight(t) /\ UNCHANGED line
         /\ Goes(t, "asks", begin)
    ELSE /\ line' = Append(line, t) /\ UNCHANGED free
         /\ Goes(t, "asks", "queued")

\* Its units have been handed to it.
Granted(t) == at[t] = "queued" /\ t \notin ToSet(line)

\* Mutant of GivesBack: a waiter that gives up leaves the line, no more.
MutGivesBack(t) == line' = SelectSeq(line, LAMBDA u : u # t) /\ UNCHANGED free

\* A waiter gives up: units it was handed meanwhile go to the next, and if it
\* was not, those behind it may go on.
GivesBack(t) ==
    IF Granted(t) THEN Serve(line, free + Weight(t))
    ELSE Serve(SelectSeq(line, LAMBDA u : u # t), free)

FreesUnits(t) == Serve(line, free + Weight(t))

-----------------------------------------------------------------------------
(* Answers, and leaving a scan.                                            *)

Trouble == troubles < MaxTroubles /\ troubles' = troubles + 1

AnsweredAlready(i) == \E k \in DOMAIN answers : answers[k].req = i

\* Mutant of Puts: a later answer of a request is handed on too.
MutPuts(S, what) == answers' = answers \o SetToSeq({ [req |-> i, what |-> what] : i \in S })

\* The answers of the requests of S; a later one of a request is dropped.
Puts(S, what) ==
    answers' = answers \o SetToSeq({ [req |-> i, what |-> what] :
                                     i \in { j \in S : ~AnsweredAlready(j) } })

\* leave, of a request still in its scan.
MayLeave(i) == state[i] = "live"

Leaves(s, S, to) ==
    /\ state' = [i \in Reqs |-> IF i \in S THEN to ELSE state[i]]
    /\ live' = [live EXCEPT ![s] = @ - Cardinality(S)]

Live(s)    == { i \in Of(s) : state[i] = "live" }
Stopped(s) == live[s] = 0

\* The context of a request is done ...
ContextDone(i) ==
    /\ Trouble
    /\ i \notin ctxDone /\ ctxDone' = ctxDone \cup {i}
    /\ UNCHANGED <<asked, lead, turnVars, reqVars, feedVars, tries, outcome>>

\* ... and the request leaves, by its AfterFunc or where the scan looks (gone).
LeavesGone(s, i) ==
    /\ i \in Of(s) /\ i \in ctxDone /\ MayLeave(i)
    /\ at[Scan(s)] \in {"asks", "queued", "begins", "scans", "waits", "finishes", "ends",
                        "panicked", "freed"}
    /\ Leaves(s, {i}, "done") /\ Puts({i}, "gone")
    /\ UNCHANGED <<asked, lead, turnVars, feedVars, tries, outcome, ctxDone, troubles>>

-----------------------------------------------------------------------------
(* shared and attempt.                                                     *)

UnchangedByScan == UNCHANGED <<asked, lead, ctxDone>>

TurnEnds(s, from, why) ==
    /\ Goes(Scan(s), from, "ends")
    /\ outcome' = [outcome EXCEPT ![s] = why]

\* turnFor: nobody is left, or the turns are taken or waited for.
Asks(s) ==
    /\ at[Scan(s)] = "asks"
    /\ IF Stopped(s)
       THEN /\ Goes(Scan(s), "asks", "freed") /\ outcome' = [outcome EXCEPT ![s] = "stopped"]
            /\ UNCHANGED <<free, line>>
       ELSE Acquires(Scan(s), "begins") /\ UNCHANGED outcome
    /\ UnchangedByScan /\ UNCHANGED <<reqVars, feedVars, tries, troubles>>

GetsTurns(s) ==
    /\ Granted(Scan(s)) /\ Goes(Scan(s), "queued", "begins")
    /\ UnchangedByScan /\ UNCHANGED <<free, line, reqVars, feedVars, tries, outcome, troubles>>

GivesUpTurns(s) ==
    /\ Stopped(s)
    /\ GivesBack(Scan(s)) /\ Goes(Scan(s), "queued", "freed")
    /\ outcome' = [outcome EXCEPT ![s] = "stopped"]
    /\ UnchangedByScan /\ UNCHANGED <<reqVars, feedVars, tries, troubles>>

\* An attempt begins with a fresh aggregation for each request still there.
Unfed(s) ==
    [i \in Reqs |-> IF i \in Live(s) THEN [n \in ScanItems |-> 0] ELSE fed[i]]

Begins(s) ==
    /\ Live(s) \cap ctxDone = {}
    /\ Goes(Scan(s), "begins", IF Live(s) = {} THEN "finishes" ELSE "scans")
    /\ tries' = [tries EXCEPT ![s] = @ + 1]
    /\ fed' = Unfed(s)
    /\ todo' = [todo EXCEPT ![s] = Live(s) \X ScanItems]
    /\ checks' = [checks EXCEPT ![s] = 0]
    /\ UnchangedByScan /\ UNCHANGED <<free, line, reqVars, outcome, troubles>>

\* A worker feeds an item to a request, whose context it has looked at.
Feeds(s, i, n) ==
    /\ at[Scan(s)] = "scans"
    /\ <<i, n>> \in todo[s] /\ state[i] = "live" /\ i \notin ctxDone
    /\ checks[s] < ScanWorkers
    /\ todo' = [todo EXCEPT ![s] = @ \ {<<i, n>>}]
    /\ fed' = [fed EXCEPT ![i][n] = @ + 1]
    /\ checks' = [checks EXCEPT ![s] = @ + 1]
    /\ UnchangedByScan /\ UNCHANGED <<turnVars, reqVars, tries, outcome, troubles>>

\* A request is refused or panics with what it is fed: it fails alone.
FailsAlone(s, i) ==
    /\ Trouble
    /\ at[Scan(s)] = "scans"
    /\ i \in Live(s) /\ \E n \in ScanItems : <<i, n>> \in todo[s]
    /\ Leaves(s, {i}, "done") /\ Puts({i}, "failed")
    /\ UnchangedByScan /\ UNCHANGED <<turnVars, feedVars, tries, outcome>>

Holding(i) == IF state[i] # "live" THEN 0
              ELSE asked[i].aggs * MapThenSumSet(LAMBDA n : fed[i][n], ScanItems)
Holdings(s) == MapThenSumSet(LAMBDA i : Holding(i), Of(s))

\* What the aggregations of a scan may hold.
Budget(s) == Weight(Scan(s)) * TurnBytes

\* The request that holds the most, the first of these: it is put out if that is
\* anything, and the scan's hold too much.
Heaviest(s) == Min({ i \in Of(s) : \A j \in Of(s) : Holding(j) <= Holding(i) })

PutOut(s) == { i \in Of(s) : i = Heaviest(s) /\ Holding(i) > 0 /\ Holdings(s) > Budget(s) }

\* checkBudget: one is put out, and the budget looked at again.
ChecksBudget(s) ==
    /\ at[Scan(s)] = "scans" /\ checks[s] > 0
    /\ IF PutOut(s) # {} THEN Leaves(s, PutOut(s), "evicted") /\ UNCHANGED checks
       ELSE checks' = [checks EXCEPT ![s] = @ - 1] /\ UNCHANGED <<state, live>>
    /\ UnchangedByScan /\ UNCHANGED <<turnVars, answers, todo, fed, tries, outcome, troubles>>

\* A file is gone: the whole scan runs again after a while, if it may.
FileGone(s) ==
    /\ Trouble
    /\ IF tries[s] < ScanAttempts
       THEN Goes(Scan(s), "scans", "waits") /\ UNCHANGED outcome
       ELSE TurnEnds(s, "scans", "absent")
    /\ UnchangedByScan /\ UNCHANGED <<free, line, reqVars, feedVars, tries>>

ScansAgain(s) ==
    /\ Goes(Scan(s), "waits", "begins")
    /\ UnchangedByScan /\ UNCHANGED <<free, line, reqVars, feedVars, tries, outcome, troubles>>

ReadFails(s) ==
    /\ Trouble
    /\ TurnEnds(s, "scans", "broken")
    /\ UnchangedByScan /\ UNCHANGED <<free, line, reqVars, feedVars, tries>>

\* Nobody is left: the workers, or the wait for the next attempt, end.
ScanStops(s) ==
    /\ Stopped(s)
    /\ \E from \in {"scans", "waits"} : TurnEnds(s, from, "stopped")
    /\ UnchangedByScan /\ UNCHANGED <<free, line, reqVars, feedVars, tries, troubles>>

ScanDone(s) ==
    /\ \A u \in todo[s] : state[u[1]] # "live"
    /\ checks[s] = 0
    /\ Goes(Scan(s), "scans", "finishes")
    /\ UnchangedByScan /\ UNCHANGED <<free, line, reqVars, feedVars, tries, outcome, troubles>>

\* The results, in order, of those whose context is not done; one that panics
\* fails alone, and is not counted out of the scan.
Finishes(s) ==
    /\ at[Scan(s)] = "finishes" /\ Live(s) # {}
    /\ LET i == Min(Live(s)) IN
       /\ i \notin ctxDone
       /\ \/ state' = [state EXCEPT ![i] = "finishing"] /\ UNCHANGED <<answers, troubles>>
          \/ Trouble /\ state' = [state EXCEPT ![i] = "done"] /\ Puts({i}, "failed")
    /\ UnchangedByScan /\ UNCHANGED <<turnVars, live, feedVars, tries, outcome>>

AttemptDone(s) ==
    /\ Live(s) = {} /\ Goes(Scan(s), "finishes", "ends")
    /\ UnchangedByScan /\ UNCHANGED <<free, line, reqVars, feedVars, tries, outcome, troubles>>

FreesTurns(s) ==
    /\ FreesUnits(Scan(s)) /\ Goes(Scan(s), "ends", "freed")
    /\ UnchangedByScan /\ UNCHANGED <<reqVars, feedVars, tries, outcome, troubles>>

\* The AfterFuncs are over: those the attempt readied get their results, those
\* still live its error, and those put out are answered alone.
Collects(s) ==
    LET out(x) == { i \in Of(s) : state[i] = x } IN
    /\ at[Scan(s)] = "freed"
    /\ at' = [t \in Tasks |-> IF t = Scan(s) THEN "joins"
                              ELSE IF t[1] = "solo" /\ t[2] \in out("evicted") THEN "asks"
                              ELSE at[t]]
    /\ Puts(out("finishing") \cup out("live"),
            IF outcome[s] # "none" THEN outcome[s]
            ELSE IF out("live") = {} THEN "result" ELSE "unanswered")
    /\ state' = [i \in Reqs |-> IF i \in Of(s) \ out("evicted") THEN "done" ELSE state[i]]
    /\ UnchangedByScan /\ UNCHANGED <<free, line, live, feedVars, tries, outcome, troubles>>

Returns(s) ==
    /\ \A i \in Of(s) : at[Solo(i)] \in {"none", "ended"}
    /\ Goes(Scan(s), "joins", "ended")
    /\ UnchangedByScan /\ UNCHANGED <<free, line, reqVars, feedVars, tries, outcome, troubles>>

\* A panic of the scan's own: its turns are given back, and whoever has no
\* answer yet, put out or not, is answered with an internal error.
Panics(s) ==
    /\ Trouble
    /\ \E from \in {"begins", "finishes"} : Goes(Scan(s), from, "panicked")
    /\ FreesUnits(Scan(s))
    /\ UnchangedByScan /\ UNCHANGED <<reqVars, feedVars, tries, outcome>>

SweepsPanic(s) ==
    /\ Goes(Scan(s), "panicked", "ended")
    /\ Puts(Of(s), "internal")
    /\ UnchangedByScan /\ UNCHANGED <<free, line, state, live, feedVars, tries, outcome, troubles>>

-----------------------------------------------------------------------------
(* answerAlone.                                                            *)

UnchangedAlone == UNCHANGED <<asked, lead, state, live, feedVars, tries, outcome, ctxDone>>

AloneAsks(i) ==
    /\ at[Solo(i)] = "asks"
    /\ IF i \in ctxDone
       THEN Goes(Solo(i), "asks", "ended") /\ Puts({i}, "gone") /\ UNCHANGED <<free, line>>
       ELSE Acquires(Solo(i), "runs") /\ UNCHANGED answers
    /\ UnchangedAlone /\ UNCHANGED troubles

AloneGets(i) ==
    /\ Granted(Solo(i)) /\ Goes(Solo(i), "queued", "runs")
    /\ UnchangedAlone /\ UNCHANGED <<free, line, answers, troubles>>

AloneGivesUp(i) ==
    /\ i \in ctxDone
    /\ GivesBack(Solo(i)) /\ Goes(Solo(i), "queued", "ended")
    /\ Puts({i}, "gone")
    /\ UnchangedAlone /\ UNCHANGED troubles

\* Answer, with its attempts; what fails there fails the one request.
AloneAnswers(i) ==
    /\ Goes(Solo(i), "runs", "ended")
    /\ FreesUnits(Solo(i))
    /\ \/ i \in ctxDone /\ Puts({i}, "gone") /\ UNCHANGED troubles
       \/ i \notin ctxDone /\ Puts({i}, "own") /\ UNCHANGED troubles
       \/ Trouble /\ Puts({i}, "failed")
    /\ UnchangedAlone

-----------------------------------------------------------------------------

ManyInit ==
    /\ asked \in ManyCalls
    /\ lead \in [Reqs -> Reqs] /\ \A i \in Reqs : lead[i] = LeadOf(i)
    /\ at = [t \in Tasks |-> IF t[1] = "scan" \/ asked[t[2]].key = "alone" THEN "asks" ELSE "none"]
    /\ free = MaxScans /\ line = <<>>
    /\ state = [i \in Reqs |-> "live"]
    /\ live = [s \in Scans |-> Cardinality(Of(s))]
    /\ tries = [s \in Scans |-> 0]
    /\ todo = [s \in Scans |-> {}] /\ checks = [s \in Scans |-> 0]
    /\ fed = [i \in Reqs |-> [n \in ScanItems |-> 0]]
    /\ outcome = [s \in Scans |-> "none"]
    /\ answers = SetToSeq({ [req |-> i, what |-> "refused"] :
                            i \in { j \in Reqs : asked[j].key = "invalid" } })
    /\ ctxDone = {} /\ troubles = 0

\* What a call does of itself.
ScanGoesOn(s) ==
    \/ Asks(s) \/ GetsTurns(s) \/ GivesUpTurns(s) \/ Begins(s)
    \/ \E i \in Of(s) : LeavesGone(s, i) \/ \E n \in ScanItems : Feeds(s, i, n)
    \/ ChecksBudget(s) \/ ScanDone(s) \/ ScanStops(s) \/ ScansAgain(s)
    \/ Finishes(s) \/ AttemptDone(s) \/ FreesTurns(s) \/ Collects(s) \/ Returns(s)
    \/ SweepsPanic(s)

AloneGoesOn(i) == AloneAsks(i) \/ AloneGets(i) \/ AloneGivesUp(i) \/ AloneAnswers(i)

ManyGoesOn == (\E s \in Scans : ScanGoesOn(s)) \/ (\E i \in Reqs : AloneGoesOn(i))

ManyNext ==
    \/ ManyGoesOn
    \/ \E i \in Reqs : ContextDone(i)
    \/ \E s \in Scans :
         \/ \E i \in Of(s) : FailsAlone(s, i)
         \/ FileGone(s) \/ ReadFails(s) \/ Panics(s)

ManySpec == ManyInit /\ [][ManyNext]_manyVars

-----------------------------------------------------------------------------

ManyTypeOK ==
    /\ lead \in [Reqs -> Reqs]
    /\ at \in [Tasks -> {"none", "asks", "queued", "begins", "scans", "waits", "finishes", "ends",
                         "freed", "panicked", "joins", "runs", "ended"}]
    /\ free \in 0..MaxScans /\ ToSet(line) \subseteq Tasks /\ IsInjective(line)
    /\ state \in [Reqs -> {"live", "done", "evicted", "finishing"}]
    /\ live \in [Scans -> Nat] /\ tries \in [Scans -> 0..ScanAttempts]
    /\ todo \in [Scans -> SUBSET (Reqs \X ScanItems)]
    /\ checks \in [Scans -> 0..ScanWorkers]
    /\ fed \in [Reqs -> [ScanItems -> 0..ScanAttempts]]
    /\ outcome \in [Scans -> {"none", "stopped", "absent", "broken"}]
    /\ \A k \in DOMAIN answers : answers[k].req \in Reqs
    /\ ctxDone \subseteq Reqs /\ troubles \in 0..MaxTroubles

AllEnded == \A t \in Tasks : at[t] \in {"none", "ended"}

\* Every request is answered at most once, and by the time the call returns
\* each is, whether it was answered, put out, cancelled or swept by a panic, in
\* whatever order these come upon it.
\* A request's answer is its own: none is answered with a cancellation but its
\* own, least of all with that of the scan, which is stopped when nobody is
\* left in it, and none is forgotten in a scan that ends well; and a shared
\* result is of one attempt, every item once, though earlier attempts had read
\* some of them when a file went.
AnswersAreRight ==
    /\ \A j, k \in DOMAIN answers : answers[j].req = answers[k].req => j = k
    /\ AllEnded => { answers[k].req : k \in DOMAIN answers } = Reqs
    /\ \A k \in DOMAIN answers : LET a == answers[k] IN
        /\ a.what = "gone" => a.req \in ctxDone
        /\ a.what \notin {"stopped", "unanswered"}
        /\ a.what = "result" => \A n \in ScanItems : fed[a.req][n] = 1

HoldsTurns(t) ==
    Granted(t) \/ at[t] \in {"begins", "scans", "waits", "finishes", "ends", "runs"}

IsAlone(t) == t[1] = "solo" \/ Cardinality(Of(t[2])) = 1

\* No turn is lost or made up, whoever gives up waiting as it is handed one, and
\* the call does return: for as long as it has not, something in it goes on.
\* Those put out wait for turns only once their scan has given its own back, and
\* a line is not left waiting behind one who has gone.
\* The heavy aggregations of all scans at work are no more than the turns
\* they hold, but for a request that by itself is; and the aggregations of a
\* scan hold no more bytes than its turns allow, but for what its workers have
\* fed and are about to check.
TurnsBound ==
    LET held   == { t \in Tasks : HoldsTurns(t) }
        shared == { t \in held : ~IsAlone(t) } IN
    /\ free + MapThenSumSet(Weight, held) = MaxScans
    /\ AllEnded \/ ENABLED ManyGoesOn
    /\ MapThenSumSet(LAMBDA t : Heavy(Of(t[2])), shared) <= MaxScans - free
    /\ \A s \in Scans :
          Holdings(s) <= Weight(Scan(s)) * TurnBytes + checks[s] * Max({ asked[i].aggs : i \in Of(s) })

=============================================================================
