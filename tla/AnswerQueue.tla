------------------------------ MODULE AnswerQueue ------------------------------
(***************************************************************************)
(* How the answers of a call of AnswerMany get to its caller               *)
(* (internal/native/many.go): whoever has one puts it in a queue and goes  *)
(* on, under a turn as it may be; one goroutine hands them to done, which  *)
(* may be slow; and the call returns after the last.                       *)
(***************************************************************************)
EXTENDS SequencesExt

CONSTANTS Producers     \* scans' workers and queries answered alone: one answer each

VARIABLES
    producer,   \* producer[p]: "works", "put" (its answer queued), "done"
    queued,     \* q.pending
    waking,     \* whether q.wake, a channel of one, is full
    closed,     \* q.closed
    hand,       \* q's goroutine: "looks", "hands", "sleeps", "ended"
    inHands,    \* the answers it has taken and not handed yet
    lastLook,   \* whether the queue was closed when it took them
    call,       \* the call: "waits" for the producers, "closes", "sleeps", "returned"
    putOrder,   \* history: the answers in the order put
    handed      \* history: the answers in the order handed to done

queueVars == <<producer, queued, waking, closed, hand, inHands, lastLook, call, putOrder, handed>>

\* put: the answer is queued under the mutex, ...
PutsAnswer(p) ==
    /\ producer[p] = "works" /\ producer' = [producer EXCEPT ![p] = "put"]
    /\ queued' = Append(queued, p) /\ putOrder' = Append(putOrder, p)
    /\ UNCHANGED <<waking, closed, hand, inHands, lastLook, call, handed>>

\* ... and the goroutine woken after it, unless it is about to be.
Wakes(p) ==
    /\ producer[p] = "put" /\ producer' = [producer EXCEPT ![p] = "done"]
    /\ waking' = TRUE
    /\ UNCHANGED <<queued, closed, hand, inHands, lastLook, call, putOrder, handed>>

\* Where the goroutine goes once it has taken what is queued: nothing queued,
\* it ends if the queue was closed by then, else sleeps.
LooksAgain == IF inHands' # <<>> THEN "hands" ELSE IF lastLook' THEN "ended" ELSE "sleeps"

Looks ==
    /\ hand = "looks"
    /\ inHands' = queued /\ queued' = <<>> /\ lastLook' = closed
    /\ hand' = LooksAgain
    /\ UNCHANGED <<producer, waking, closed, call, putOrder, handed>>

\* done is called, and may panic.
Hands ==
    /\ hand = "hands"
    /\ handed' = Append(handed, Head(inHands)) /\ inHands' = Tail(inHands)
    /\ hand' = IF inHands' = <<>> THEN "looks" ELSE "hands"
    /\ UNCHANGED <<producer, queued, waking, closed, lastLook, call, putOrder>>

IsWoken ==
    /\ hand = "sleeps" /\ waking
    /\ waking' = FALSE /\ hand' = "looks"
    /\ UNCHANGED <<producer, queued, closed, inHands, lastLook, call, putOrder, handed>>

\* wait, once every producer has ended.
Closes ==
    /\ call = "waits" /\ \A p \in Producers : producer[p] = "done"
    /\ closed' = TRUE /\ call' = "closes"
    /\ UNCHANGED <<producer, queued, waking, hand, inHands, lastLook, putOrder, handed>>

\* Mutant of WakesLast: only a put wakes the goroutine.
MutWakesLast ==
    /\ call = "closes" /\ call' = "sleeps"
    /\ UNCHANGED <<producer, queued, waking, closed, hand, inHands, lastLook, putOrder, handed>>

WakesLast ==
    /\ call = "closes" /\ call' = "sleeps"
    /\ waking' = TRUE
    /\ UNCHANGED <<producer, queued, closed, hand, inHands, lastLook, putOrder, handed>>

CallReturns ==
    /\ call = "sleeps" /\ hand = "ended" /\ call' = "returned"
    /\ UNCHANGED <<producer, queued, waking, closed, hand, inHands, lastLook, putOrder, handed>>

QueueInit ==
    /\ producer = [p \in Producers |-> "works"]
    /\ queued = <<>> /\ waking = FALSE /\ closed = FALSE
    /\ hand = "looks" /\ inHands = <<>> /\ lastLook = FALSE
    /\ call = "waits" /\ putOrder = <<>> /\ handed = <<>>

QueueNext ==
    \/ \E p \in Producers : PutsAnswer(p) \/ Wakes(p)
    \/ Looks \/ Hands \/ IsWoken
    \/ Closes \/ WakesLast \/ CallReturns

QueueSpec == QueueInit /\ [][QueueNext]_queueVars

-----------------------------------------------------------------------------

QueueTypeOK ==
    /\ producer \in [Producers -> {"works", "put", "done"}]
    /\ waking \in BOOLEAN /\ closed \in BOOLEAN /\ lastLook \in BOOLEAN
    /\ hand \in {"looks", "hands", "sleeps", "ended"}
    /\ call \in {"waits", "closes", "sleeps", "returned"}
    /\ ToSet(queued) \cup ToSet(inHands) \cup ToSet(handed) \subseteq ToSet(putOrder)

\* Answers are handed on one by one in the order put, and all of them before
\* the call returns.  The goroutine never sleeps through the last put, or the
\* close, whatever it was doing as they came: as long as there is something for
\* it, it has been woken or somebody is about to wake it.
HandedInOrder ==
    /\ IsPrefix(handed, putOrder)
    /\ call = "returned" => handed = putOrder
    /\ hand = "sleeps" /\ (queued # <<>> \/ closed) =>
          waking \/ call = "closes" \/ \E p \in Producers : producer[p] = "put"

=============================================================================
