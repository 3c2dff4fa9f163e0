--------------------------------- MODULE LogCache ------------------------------
(***************************************************************************)
(* What the cache of decoded open logs answers (native/logcache.go): rows  *)
(* kept from one query to the next, and a decode of what the log has grown *)
(* by, beside a writer whose appends fail after some bytes and are cut     *)
(* back (archive/log.go), and rotations that give the name another file.   *)
(*                                                                         *)
(* One name.  A file is a sequence of bytes, each <<l, k>>: the k-th byte  *)
(* of line l, whose last is its newline.  A row is the bytes it is decoded *)
(* from, so that the rows of a log are a set of stretches of bytes: the    *)
(* first of each id counts.  LogBudget has the cache's bound.              *)
(***************************************************************************)
EXTENDS SequencesExt

CONSTANTS
    LogLines,       \* lines, one for each id
    Length,         \* Length[l]: the bytes of a line, its newline included
    Askers,         \* concurrent queries
    MaxFiles,       \* bound: files that take the name
    MaxShort,       \* bound: appends that fail
    MaxBytesOfLog   \* bound: bytes of a log

ASSUME LogCacheAssumption ==
    /\ Length \in [LogLines -> Nat \ {0}]
    /\ MaxFiles \in Nat \ {0} /\ MaxShort \in Nat /\ MaxBytesOfLog \in Nat

VARIABLES
    text,       \* text[i]: the bytes of the i-th file that took the name
    named,      \* the file under the name
    whole,      \* its size before the append under way, or that failed
    entryOf,    \* the entry: file, bytes decoded, their lines; cut: history, whether
                \* bytes of it were cut off the file
    flying,     \* the query that holds the log's flight
    ask,        \* ask[q]: its step, its open file, the size it took, the entry it
                \* decodes into, the bytes it got past it, its answer; history:
                \* kept, how many bytes were not cut off since it took them, truth,
                \* the log as far as it had read, at its last read, and misled
    shorts      \* bound: the failed appends so far

logFileVars  == <<text, named, whole>>
logCacheVars == <<logFileVars, entryOf, flying, ask, shorts>>

NoRows  == [file |-> 0, size |-> 0, lines |-> {}, cut |-> FALSE]
NoQuery == "none"
Unasked == [step |-> "idle", file |-> 0, size |-> 0, mine |-> NoRows, got |-> <<>>, kept |-> 0,
            answer |-> [lines |-> {}, tail |-> <<>>], truth |-> <<>>, misled |-> FALSE]

BytesOf(l) == [k \in 1..Length[l] |-> <<l, k>>]

IsNewline(b) == b[2] = Length[b[1]]

EndsLine(bytes, n) == n = 0 \/ (n <= Len(bytes) /\ IsNewline(bytes[n]))

LineEnds(bytes) == { n \in 0..Len(bytes) : EndsLine(bytes, n) }

LastEnd(bytes) == Max(LineEnds(bytes))

\* Each line begins where the one before it ends, whatever it holds.
LinesOf(bytes) ==
    { SubSeq(bytes, Max({ i \in LineEnds(bytes) : i < n }) + 1, n) : n \in LineEnds(bytes) \ {0} }

\* What bytes say, a function of it: their lines, and the tail past the last
\* of them, a row like these if it reads as one.
Content(bytes) ==
    [lines |-> LinesOf(bytes), tail |-> SubSeq(bytes, LastEnd(bytes) + 1, Len(bytes))]

-----------------------------------------------------------------------------
(* The writer, under the log's mutex.                                      *)

Complete == whole = Len(text[named])

NewLinesOf(bytes) == { l \in LogLines : ~Contains(bytes, <<l, 1>>) }

Lengthens(bytes) ==
    /\ Len(bytes) + Len(text[named]) <= MaxBytesOfLog
    /\ text' = [text EXCEPT ![named] = @ \o bytes]

AppendsLine ==
    /\ Complete
    /\ \E l \in NewLinesOf(text[named]) : Lengthens(BytesOf(l))
    /\ whole' = Len(text'[named])
    /\ UNCHANGED <<named, entryOf, flying, ask, shorts>>

\* A write of two lines falls short: before the cut-back a reader may see a
\* line of it complete.
FallsShort ==
    /\ Complete /\ shorts < MaxShort /\ shorts' = shorts + 1
    /\ \E l, k \in NewLinesOf(text[named]), n \in 1..MaxBytesOfLog :
         /\ l # k /\ n < Length[l] + Length[k]
         /\ Lengthens(SubSeq(BytesOf(l) \o BytesOf(k), 1, n))
    /\ UNCHANGED <<named, whole, entryOf, flying, ask>>

\* No reader is asked: an entry and a query under way lose what they hold of it.
CutTo(n) ==
    /\ text' = [text EXCEPT ![named] = SubSeq(@, 1, n)]
    /\ whole' = n
    /\ entryOf' = [entryOf EXCEPT !.cut = @ \/ (entryOf.file = named /\ n < entryOf.size)]
    /\ ask' = [q \in Askers |-> IF ask[q].file = named THEN [ask[q] EXCEPT !.kept = Min({@, n})]
                                ELSE ask[q]]

CutsBack ==
    /\ ~Complete
    /\ CutTo(whole)
    /\ UNCHANGED <<named, flying, shorts>>

\* The cut-back fails too: the log is opened anew, its torn line cut off.
CutsTornLine ==
    /\ ~Complete
    /\ LET ends == { n \in whole..Len(text[named]) : EndsLine(text[named], n) } IN
       CutTo(Max(ends \cup {0}))
    /\ UNCHANGED <<named, flying, shorts>>

\* The log is rotated, and the next event of its day makes another.
Renames ==
    /\ Complete /\ named < MaxFiles /\ named' = named + 1
    /\ whole' = 0
    /\ UNCHANGED <<text, entryOf, flying, ask, shorts>>

-----------------------------------------------------------------------------
(* The queries.                                                            *)

Opens(q) ==
    /\ ask[q].step = "idle"
    /\ ask' = [ask EXCEPT ![q] = [Unasked EXCEPT !.step = "waits", !.file = named]]
    /\ UNCHANGED <<logFileVars, entryOf, flying, shorts>>

\* flight, and then the size: never older than what the entry has decoded.
SizesLog(q) ==
    /\ ask[q].step = "waits" /\ flying = NoQuery
    /\ flying' = q
    /\ ask' = [ask EXCEPT ![q].step = "sized", ![q].size = Len(text[ask[q].file])]
    /\ UNCHANGED <<logFileVars, entryOf, shorts>>

\* Mutant of Usable: the byte before the entry's end is not looked at.
MutUsable(q) == entryOf.file = ask[q].file /\ entryOf.size <= Len(text[ask[q].file])

\* The entry is the file's, no longer than it, and ends where a line does.
Usable(q) ==
    /\ entryOf.file = ask[q].file /\ entryOf.size <= ask[q].size
    /\ EndsLine(text[ask[q].file], entryOf.size)

\* update keeps an entry it can use, and drops any other.
ChecksEntry(q) ==
    LET now  == text[ask[q].file]
        mine == IF Usable(q) THEN entryOf ELSE [NoRows EXCEPT !.file = ask[q].file] IN
    /\ ask[q].step = "sized"
    /\ entryOf' = IF Usable(q) THEN entryOf ELSE NoRows
    /\ ask' = [ask EXCEPT ![q] = [@ EXCEPT !.step = "decodes", !.mine = mine, !.kept = mine.size,
                  !.truth = SubSeq(now, 1, mine.size),
                  !.misled = mine.cut /\ EndsLine(now, mine.size)]]
    /\ UNCHANGED <<logFileVars, flying, shorts>>

TakenBy(q) == ask[q].mine.size + Len(ask[q].got)

InReach(q) == Min({ask[q].size, Len(text[ask[q].file])})

\* decode reads on, a buffer at a time, while the writer appends and cuts back.
ReadsOn(q) ==
    LET a   == ask[q]
        now == text[a.file]
        at  == TakenBy(q) IN
    /\ a.step = "decodes"
    /\ \E n \in (at + 1)..InReach(q) :
         ask' = [ask EXCEPT ![q] =
            [a EXCEPT !.got = @ \o SubSeq(now, at + 1, n), !.kept = IF @ < at THEN @ ELSE n,
                      !.truth = SubSeq(now, 1, n), !.misled = @ \/ a.kept < at]]
    /\ UNCHANGED <<logFileVars, entryOf, flying, shorts>>

\* At the size it took, or the end of a file shorter by now: the lines it got
\* are kept, the tail is not, the query is answered with both; its flight ends.
Answers(q) ==
    LET a   == ask[q]
        end == a.mine.size + LastEnd(a.got)
        new == [a.mine EXCEPT !.size = end, !.lines = @ \cup LinesOf(a.got),
                              !.cut = @ \/ a.kept < end] IN
    /\ a.step = "decodes" /\ TakenBy(q) >= InReach(q)
    /\ flying' = NoQuery
    /\ entryOf' = IF end > a.mine.size \/ a.mine.size = 0 THEN new ELSE entryOf
    /\ ask' = [ask EXCEPT ![q] =
          [Unasked EXCEPT !.step = "answered", !.truth = a.truth, !.misled = a.misled,
             !.answer = [lines |-> new.lines, tail |-> Content(a.got).tail]]]
    /\ UNCHANGED <<logFileVars, shorts>>

\* A read fails, or the rows do not fit: half decoded, the entry is dropped.
DecodeFails(q) ==
    /\ ask[q].step = "decodes"
    /\ entryOf' = NoRows /\ flying' = NoQuery
    /\ ask' = [ask EXCEPT ![q] = Unasked]
    /\ UNCHANGED <<logFileVars, shorts>>

\* The entry is idle, gives way to another, or its file has lost the name.
EntryGoes ==
    /\ entryOf # NoRows /\ (flying = NoQuery \/ entryOf.file # named)
    /\ entryOf' = NoRows
    /\ UNCHANGED <<logFileVars, flying, ask, shorts>>

AskerGoes(q) ==
    /\ ask[q].step \in {"waits", "answered"}
    /\ ask' = [ask EXCEPT ![q] = Unasked]
    /\ UNCHANGED <<logFileVars, entryOf, flying, shorts>>

LogCacheInit ==
    /\ text = [i \in 1..MaxFiles |-> <<>>] /\ named = 1 /\ whole = 0
    /\ entryOf = NoRows /\ flying = NoQuery
    /\ ask = [q \in Askers |-> Unasked] /\ shorts = 0

LogCacheNext ==
    \/ AppendsLine \/ FallsShort \/ CutsBack \/ CutsTornLine \/ Renames
    \/ \E q \in Askers :
         \/ Opens(q) \/ SizesLog(q) \/ ChecksEntry(q) \/ ReadsOn(q) \/ Answers(q)
         \/ DecodeFails(q) \/ AskerGoes(q)
    \/ EntryGoes

LogCacheSpec == LogCacheInit /\ [][LogCacheNext]_logCacheVars

-----------------------------------------------------------------------------

LogCacheTypeOK ==
    /\ named \in 1..MaxFiles /\ whole \in 0..Len(text[named])
    /\ \A i \in 1..MaxFiles : \A n \in DOMAIN text[i] : text[i][n] \in LogLines \X Nat
    /\ entryOf.file \in 0..MaxFiles /\ entryOf.size \in 0..MaxBytesOfLog /\ entryOf.cut \in BOOLEAN
    /\ \A l \in entryOf.lines : l # <<>> /\ Len(l) <= entryOf.size
    /\ flying \in Askers \cup {NoQuery}
    /\ \A q \in Askers :
         /\ ask[q].step \in {"idle", "waits", "sized", "decodes", "answered"}
         /\ ask[q].step \in {"sized", "decodes"} <=> flying = q
    /\ shorts \in 0..MaxShort

\* A query is answered with what the log held as far as it was read, at the
\* last of its reads, no line more and no line less and the same tail, whatever
\* the entry was made from: another file of that name, half of an append, a log
\* cut and grown again.  There are two exceptions, both of lines of a failed
\* append that are cut back after they were read.  The entry had them, and the
\* log, grown again with others, has a line that ends on the very byte the
\* entry did.  Or the query had taken them itself, from the entry it had looked
\* at or from the file, and reads on in the log grown again.
AnswerIsLog ==
    \A q \in Askers : ask[q].step = "answered" /\ ~ask[q].misled =>
        ask[q].answer = Content(ask[q].truth)

\* The same without the exceptions, "logs are only appended to while open".
AnswerIsLogAlways ==
    \A q \in Askers : ask[q].step = "answered" => ask[q].answer = Content(ask[q].truth)

=============================================================================
