------------------------------- MODULE Reader -------------------------------
(***************************************************************************)
(* One .rrd opened for reading: the merge of reader.rs over the chunk      *)
(* index of index.rs, or over a scan of the file when it has no footer.    *)
(*                                                                         *)
(* Chunks are in the file in flush order, which is not time order, and     *)
(* overlap.  A call (read_next, seek, set_filter's resume) loops: it pulls *)
(* chunks into the window until no unread chunk can hold an earlier row    *)
(* (fill), and takes or passes the first row of the window.  Each turn of  *)
(* those loops is one step here, between the call and its return; pc says  *)
(* which call is in progress.                                              *)
(*                                                                         *)
(* A message's payload and send time play no part.  Time is a small range  *)
(* of integers; MinTime and MaxTime stand for i64::MIN and i64::MAX.       *)
(*                                                                         *)
(* Over an index, reading a chunk off the disk can fail, and over either   *)
(* path turning its columns into a window (load_window) can.  That ends    *)
(* the call in progress.  A scan that starts over has to open the file     *)
(* again, which can fail.  flaky says which chunks this can happen to,     *)
(* each time or not, and whether to the file.  What a scan cannot decode   *)
(* at all is no chunk of file: every pass drops it in silence, the one     *)
(* that open makes included (reader.rs:362, 381, 889), so neither the      *)
(* topics nor the totals of the recording know of it.  A row that cannot   *)
(* be turned back into bytes, which fails every read that comes to it, is  *)
(* left out.                                                               *)
(***************************************************************************)
EXTENDS Integers, Sequences, FiniteSets

CONSTANTS
    Topics,     \* Topics the recording describes.
    NoTopic,    \* The entity of a chunk that belongs to none of them.
    Cases,      \* The files considered: [file, footer, flaky].
    Times,      \* Receive times, and what a seek can ask for.
    Filters,    \* What set_filter can be called with.
    ScanMidway, \* Whether set_filter is called once a scan has started.
    MinTime, MaxTime

\* A chunk: its entity, whether it carries a message column (otherwise it is
\* lens output), and its rows in write order.
NoChunk    == 0
MessageRow == [recv : Times, sequence : Nat]
FileChunk  == [topic : Topics \union {NoTopic}, messages : BOOLEAN, rows : Seq(MessageRow)]

ASSUME TimesAssumption ==
    /\ Times \subseteq Int
    /\ MinTime \in Int /\ MaxTime \in Int /\ MinTime < MaxTime
    /\ \A t \in Times : MinTime < t /\ t < MaxTime
ASSUME TopicsAssumption     == NoTopic \notin Topics
ASSUME CasesAssumption ==
    \A c \in Cases :
        /\ c.file \in Seq(FileChunk) /\ \A i \in DOMAIN c.file : c.file[i].rows # <<>>
        /\ c.footer \in BOOLEAN
        /\ c.flaky \subseteq DOMAIN c.file \union {NoChunk}
        /\ c = [file |-> c.file, footer |-> c.footer, flaky |-> c.flaky]
\* The Writer numbers messages across topics (writer.rs:229-230).
ASSUME NumbersAssumption ==
    \A c \in Cases : \A i, j \in DOMAIN c.file :
        c.file[i].messages /\ c.file[j].messages /\ c.file[i].topic \in Topics
        /\ c.file[j].topic \in Topics =>
            \A k \in DOMAIN c.file[i].rows, l \in DOMAIN c.file[j].rows :
                c.file[i].rows[k].sequence = c.file[j].rows[l].sequence => i = j /\ k = l
ASSUME FiltersAssumption    == Filters \subseteq SUBSET Topics
ASSUME SwitchesAssumption   == ScanMidway \in BOOLEAN

VARIABLES
    file,       \* The recording's temporal chunks, fixed; over a scan, those
                \* that can be decoded.
    footer,     \* Whether Reader.index is Some, fixed.
    flaky,      \* The chunks that can fail to load, and NoChunk if opening
                \* the file again can, fixed.
    index,      \* ChunkIndex.chunks: positions in file, sorted; <<>> without.
    at,         \* Chunks handed out: Reader.at, or how far the scan has got.
    next_chunk, \* Message chunks the scan has consumed.
    window,     \* Pulled chunks with their cursors: a set of [chunk, next].
    position,   \* Receive time of the last row passed, or the last seek.
    cursor,     \* SortKey of the last row handed out, or NoKey.
    filter,     \* Topics to replay; the empty set means all.
    reverse,    \* Replay newest-first.
    pc,         \* The call in progress: idle, read, seek, resume.
    resuming,   \* Locals of seek and resume: the position and cursor to reach.
    mark,       \* History: where playback stands (see Playback).
    missed,     \* History: messages of chunks that reads failed to load.
    out         \* History: what the last call returned (see Playback).

recording == <<file, footer, flaky, index>>

vars == <<recording, at, next_chunk, window, position, cursor, filter, reverse,
          pc, resuming, mark, missed, out>>

MessagesOf(c) ==
    {[topic    |-> file[c].topic,
      recv     |-> file[c].rows[i].recv,
      sequence |-> file[c].rows[i].sequence] : i \in DOMAIN file[c].rows}

\* The promise this module implements.
Messages ==
    UNION {MessagesOf(c) : c \in {d \in DOMAIN file : file[d].messages /\ file[d].topic \in Topics}}

Promise == INSTANCE Playback WITH messages <- Messages, Faults <- TRUE

NoKey   == [kind |-> "none"]

-----------------------------------------------------------------------------
\* The recording.

Recvs(c) == {file[c].rows[i].recv : i \in DOMAIN file[c].rows}

Least(S)    == CHOOSE x \in S : \A y \in S : x <= y
Greatest(S) == CHOOSE x \in S : \A y \in S : y <= x

\* ChunkRef.start and ChunkRef.end.
StartOf(c) == Least(Recvs(c))
EndOf(c)   == Greatest(Recvs(c))

\* What Reader::open retains in the index: chunks with messages on a topic.
HoldsMessages(c) == file[c].messages /\ file[c].topic \in Topics

\* chunks.sort_by_key(|chunk| (chunk.start, chunk.end)).
SortedIndexes ==
    LET kept == {c \in DOMAIN file : HoldsMessages(c)}
    IN  {s \in [1 .. Cardinality(kept) -> kept] :
            /\ \A i, j \in DOMAIN s : s[i] = s[j] => i = j
            /\ \A i, j \in DOMAIN s : i < j =>
                  \/ StartOf(s[i]) < StartOf(s[j])
                  \/ /\ StartOf(s[i]) = StartOf(s[j])
                     /\ EndOf(s[i]) <= EndOf(s[j])}

\* Mutant: the end of the last unread chunk alone.
LastEndThrough(i) == EndOf(index[i])

\* ChunkIndex.max_end_through, a prefix maximum over ends.
MaxEndThrough(i) == Greatest({EndOf(index[j]) : j \in 1 .. i})

\* Reader.earliest_remaining[n]: over every temporal chunk, in file order.
EarliestRemaining(n) ==
    Least({StartOf(c) : c \in {d \in DOMAIN file : d > n}} \union {MaxTime})

Wanted(topic) == filter = {} \/ topic \in filter

-----------------------------------------------------------------------------
\* The window.

\* Reverse playback walks a chunk's rows from the end.
Row(w) ==
    LET rows == file[w.chunk].rows
    IN  IF reverse THEN rows[Len(rows) + 1 - w.next] ELSE rows[w.next]

Before(a, b) ==
    \/ a.recv < b.recv
    \/ a.recv = b.recv /\ a.sequence < b.sequence

Precedes(a, b) == IF reverse THEN Before(b, a) ELSE Before(a, b)

\* The window whose row is first in playback order.
IsChosen(w) == \A v \in window : v = w \/ Precedes(Row(w), Row(v))
Chosen      == CHOOSE w \in window : IsChosen(w)

\* How many chunks there are to hand out, and whether all have been.
Limit   == IF footer THEN Len(index) ELSE Len(file)
Drained == at >= Limit

\* Reader::earliest_unread: a bound on the rows of chunks not handed out.
EarliestUnread ==
    IF ~footer THEN EarliestRemaining(next_chunk)
    ELSE IF Drained THEN (IF reverse THEN MinTime ELSE MaxTime)
    ELSE IF reverse THEN MaxEndThrough(Len(index) - at)
    ELSE StartOf(index[at + 1])

\* The receive time fill compares with: the first head of the window.
Candidate ==
    LET heads == {Row(w).recv : w \in window}
    IN  IF reverse THEN Greatest(heads) ELSE Least(heads)

Settled ==
    /\ window # {}
    /\ IF reverse
       THEN EarliestUnread < Candidate \/ EarliestUnread = MinTime
       ELSE EarliestUnread > Candidate \/ EarliestUnread = MaxTime

\* Mutant: fill reads all there is.
FilledGreedily == Drained

\* fill returns: a reverse scan holds every chunk, and otherwise no unread
\* chunk can hold the next row.
Filled ==
    \/ Drained
    \/ ~(reverse /\ ~footer) /\ Settled

\* Reader::restart.
Restart ==
    /\ window' = {}
    /\ next_chunk' = 0
    /\ position' = MinTime
    /\ cursor' = NoKey
    /\ at' = 0

\* skip_index_to: how many chunks cannot contain time, in playback order.
SkippedTo(time, backwards) ==
    LET n == Len(index)
        reached == IF backwards
                   THEN {i \in 0 .. n - 1 : StartOf(index[n - i]) <= time}
                   ELSE {i \in 0 .. n - 1 : EndOf(index[i + 1]) >= time}
    IN  IF ~footer THEN 0 ELSE Least(reached \union {n})

\* resuming between those calls.
Nowhere == [position |-> MinTime, cursor |-> NoKey]

Init ==
    /\ \E c \in Cases : file = c.file /\ footer = c.footer /\ flaky = c.flaky
    /\ index \in (IF footer THEN SortedIndexes ELSE {<<>>})
    /\ at = 0
    /\ next_chunk = 0
    /\ window = {}
    /\ position = MinTime
    /\ cursor = NoKey
    /\ filter = {}
    /\ reverse = FALSE
    /\ pc = "idle"
    /\ resuming = Nowhere
    /\ mark = Promise!AtStart
    /\ missed = {}
    /\ out = Promise!NoAnswer

-----------------------------------------------------------------------------
\* Calls.

\* Reader::read_next: runs until a row is taken or nothing is left.
CallRead ==
    /\ pc = "idle"
    /\ pc' = "read"
    /\ UNCHANGED <<recording, at, next_chunk, window, position, cursor, filter,
                   reverse, resuming, mark, missed, out>>

\* Reader::seek.
CallSeek(time) ==
    /\ pc = "idle"
    /\ window' = {}
    /\ next_chunk' = 0
    /\ position' = MinTime
    /\ cursor' = NoKey
    /\ at' = SkippedTo(time, reverse)
    /\ pc' = "seek"
    /\ resuming' = [position |-> time, cursor |-> NoKey]
    /\ mark' = Promise!From(time)
    /\ missed' = {}
    /\ out' = Promise!NoAnswer
    /\ UNCHANGED <<recording, filter, reverse>>

\* Nothing has been read or sought: the pass is where it started.
Fresh == cursor = NoKey /\ position = MinTime

\* Reader::set_filter: with an index the pass is rebuilt and wound back to
\* where it was; a scan filters per row, and goes on.
CallSetFilter(topics) ==
    /\ pc = "idle"
    /\ topics # filter
    /\ footer \/ ScanMidway \/ Fresh
    /\ filter' = topics
    /\ IF ~footer
       THEN UNCHANGED <<at, next_chunk, window, position, cursor, pc, resuming>>
       ELSE IF Fresh
       THEN Restart /\ UNCHANGED <<pc, resuming>>
       ELSE /\ window' = {}
            /\ next_chunk' = 0
            /\ cursor' = NoKey
            /\ at' = SkippedTo(position, reverse)
            /\ pc' = "resume"
            /\ resuming' = [position |-> position, cursor |-> cursor]
            /\ UNCHANGED position
    /\ missed' = IF footer THEN {} ELSE missed
    /\ out' = Promise!NoAnswer
    /\ UNCHANGED <<recording, reverse, mark>>

\* Reader::set_reverse, when the direction changes; otherwise it does nothing.
CallSetReverse ==
    /\ pc = "idle"
    /\ reverse' = ~reverse
    /\ Restart
    /\ mark' = Promise!AtStart
    /\ missed' = {}
    /\ out' = Promise!NoAnswer
    /\ UNCHANGED <<recording, filter, pc, resuming>>

\* Without an index, Reader::seek or set_reverse fails to open the file again:
\* restart has emptied the window, and the pass goes on where the old one is.
RestartFails ==
    /\ pc = "idle"
    /\ ~footer
    /\ NoChunk \in flaky
    /\ window' = {}
    /\ next_chunk' = 0
    /\ position' = MinTime
    /\ cursor' = NoKey
    /\ reverse' \in BOOLEAN
    /\ mark' = Promise!Lost
    /\ missed' = {}
    /\ out' = Promise!NoAnswer
    /\ UNCHANGED <<recording, at, filter, pc, resuming>>

-----------------------------------------------------------------------------
\* The turns of their loops.

\* The chunks of the index in playback order, from 0.
Ordered ==
    LET n == Len(index)
    IN  [i \in 0 .. n - 1 |-> IF reverse THEN index[n - i] ELSE index[i + 1]]

\* Mutant: finding nothing more leaves the position in the index alone.
NextIndexedStays ==
    LET unread == {i \in at .. Len(index) - 1 : Wanted(file[Ordered[i]].topic)}
    IN  IF unread = {} THEN [at |-> at, chunk |-> NoChunk]
        ELSE [at |-> Least(unread) + 1, chunk |-> Ordered[Least(unread)]]

\* Mutant: the position in the index is left on the chunk handed out.
NextIndexedOnIt ==
    LET unread == {i \in at .. Len(index) - 1 : Wanted(file[Ordered[i]].topic)}
    IN  IF unread = {} THEN [at |-> Len(index), chunk |-> NoChunk]
        ELSE [at |-> Least(unread), chunk |-> Ordered[Least(unread)]]

\* Reader::pull_indexed: the next wanted chunk of the index, unwanted ones
\* being skipped unread; or none, and the index is used up.
NextIndexed ==
    LET unread == {i \in at .. Len(index) - 1 : Wanted(file[Ordered[i]].topic)}
    IN  IF unread = {} THEN [at |-> Len(index), chunk |-> NoChunk]
        ELSE [at |-> Least(unread) + 1, chunk |-> Ordered[Least(unread)]]

\* Reader::pull: the next message chunk of the file.
NextScanned ==
    LET unread == {c \in at + 1 .. Len(file) : HoldsMessages(c)}
    IN  IF unread = {} THEN [at |-> Len(file), chunk |-> NoChunk]
        ELSE [at |-> Least(unread), chunk |-> Least(unread)]

Pulled == IF footer THEN NextIndexed ELSE NextScanned

\* Either way the chunk is behind the Reader before it is loaded.  A scan
\* passes chunks on no topic uncounted, and counts lens output.
PassPulled ==
    /\ at' = Pulled.at
    /\ next_chunk' = IF footer THEN next_chunk
                     ELSE next_chunk
                          + Cardinality({c \in at + 1 .. Pulled.at : file[c].topic \in Topics})

\* One turn of fill.
Pull ==
    /\ pc # "idle"
    /\ ~Filled
    /\ PassPulled
    /\ window' = IF Pulled.chunk = NoChunk THEN window
                 ELSE window \union {[chunk |-> Pulled.chunk, next |-> 1]}
    /\ UNCHANGED <<recording, position, cursor, filter, reverse, pc, resuming, mark,
                   missed, out>>

\* Mutant: a chunk that fails to load is passed in silence.
PullFailsQuietly ==
    /\ pc # "idle"
    /\ ~Filled
    /\ Pulled.chunk \in flaky \ {NoChunk}
    /\ PassPulled
    /\ UNCHANGED <<recording, window, position, cursor, filter, reverse, pc, resuming,
                   mark, missed, out>>

\* A turn of fill whose chunk fails to load, with the error of index.load or of
\* load_window, on a scan that of load_window only: the call in progress fails,
\* and what it has changed so far stays.
PullFails ==
    /\ pc # "idle"
    /\ ~Filled
    /\ Pulled.chunk \in flaky \ {NoChunk}
    /\ PassPulled
    /\ pc' = "idle"
    /\ resuming' = Nowhere
    /\ out' = Promise!NoAnswer
    /\ IF pc = "read"
       THEN missed' = missed \union MessagesOf(Pulled.chunk) /\ UNCHANGED mark
       ELSE missed' = {} /\ mark' = Promise!Lost
    /\ UNCHANGED <<recording, window, position, cursor, filter, reverse>>

\* Mutant: a drained chunk stays.
AdvanceKeepsDrained ==
    LET w == Chosen
    IN  /\ window' = (window \ {w}) \union {[w EXCEPT !.next = @ + 1]}
        /\ position' = Row(w).recv

\* Reader::advance past the chosen row: a drained chunk is dropped.
Advance ==
    LET w == Chosen
    IN  /\ window' = (window \ {w}) \union
                     (IF w.next < Len(file[w.chunk].rows)
                      THEN {[w EXCEPT !.next = @ + 1]} ELSE {})
        /\ position' = Row(w).recv

\* read_next passes a row the filter excludes.
ReadSkip ==
    /\ pc = "read" /\ Filled /\ window # {}
    /\ ~Wanted(file[Chosen.chunk].topic)
    /\ Advance
    /\ UNCHANGED <<recording, at, next_chunk, cursor, filter, reverse, pc, resuming,
                   mark, missed, out>>

\* read_next takes a row and returns it.
ReadTake ==
    LET row == Row(Chosen)
        message == [topic |-> file[Chosen.chunk].topic, recv |-> row.recv,
                    sequence |-> row.sequence]
    IN  /\ pc = "read" /\ Filled /\ window # {}
        /\ Wanted(file[Chosen.chunk].topic)
        /\ Advance
        /\ cursor' = [kind |-> "key", recv |-> row.recv, sequence |-> row.sequence]
        /\ pc' = "idle"
        /\ mark' = Promise!Past(row)
        /\ out' = Promise!Answer({message})
        /\ UNCHANGED <<recording, at, next_chunk, filter, reverse, resuming, missed>>

\* read_next finds nothing left.
ReadEnd ==
    /\ pc = "read" /\ Filled /\ window = {}
    /\ pc' = "idle"
    /\ out' = Promise!Answer({})
    /\ UNCHANGED <<recording, at, next_chunk, window, position, cursor, filter,
                   reverse, resuming, mark, missed>>

\* Whether a row is past what seek or resume is winding to.
Reached(row) ==
    LET to == resuming.cursor
    IN  IF to # NoKey THEN Precedes(to, row)
        ELSE IF reverse THEN row.recv <= resuming.position
        ELSE row.recv >= resuming.position

Wind ==
    /\ pc \in {"seek", "resume"} /\ Filled /\ window # {}
    /\ ~Reached(Row(Chosen))
    /\ Advance
    /\ UNCHANGED <<recording, at, next_chunk, cursor, filter, reverse, pc, resuming,
                   mark, missed, out>>

WindDone ==
    /\ pc \in {"seek", "resume"} /\ Filled
    /\ window # {} => Reached(Row(Chosen))
    /\ position' = resuming.position
    /\ cursor' = resuming.cursor
    /\ resuming' = Nowhere
    /\ pc' = "idle"
    /\ UNCHANGED <<recording, at, next_chunk, window, filter, reverse, mark, missed,
                   out>>

-----------------------------------------------------------------------------
Call ==
    \/ CallRead
    \/ \E time \in Times : CallSeek(time)
    \/ \E topics \in Filters : CallSetFilter(topics)
    \/ CallSetReverse
    \/ RestartFails

Step == Pull \/ PullFails \/ ReadSkip \/ ReadTake \/ ReadEnd \/ Wind \/ WindDone

Next == Call \/ Step

Spec == Init /\ [][Next]_vars /\ WF_vars(Step)


-----------------------------------------------------------------------------
\* Properties.

WindowEntry == [chunk : DOMAIN file, next : Nat \ {0}]
Keys        == {NoKey} \union [kind : {"key"}, recv : Times, sequence : Nat]
Positions   == Times \union {MinTime}

\* Every variable holds a value of its kind, and every cursor of the window
\* is on a row of its chunk: a drained chunk has been dropped.
TypeOK ==
    /\ [file |-> file, footer |-> footer, flaky |-> flaky] \in Cases
    /\ index \in Seq(DOMAIN file)
    /\ at \in 0 .. Limit
    /\ next_chunk \in 0 .. Len(file)
    /\ window \subseteq WindowEntry
    /\ \A w \in window : w.next <= Len(file[w.chunk].rows)
    /\ position \in Positions /\ cursor \in Keys
    /\ filter \subseteq Topics /\ reverse \in BOOLEAN
    /\ pc \in {"idle", "read", "seek", "resume"}
    /\ resuming \in [position : Positions, cursor : Keys]
    /\ missed \subseteq Messages

\* reader.rs:640-642: a row is emitted only once no unread chunk can still
\* hold an earlier one.  Whenever fill has returned with a row, no replayed
\* row of a chunk still to be handed out comes before the chosen one.
Unread ==
    IF ~footer THEN at + 1 .. Len(file)
    ELSE IF reverse THEN {index[i] : i \in 1 .. Len(index) - at}
    ELSE {index[i] : i \in at + 1 .. Len(index)}

NoEarlierUnread ==
    Filled /\ window # {} =>
        \A c \in Unread :
            HoldsMessages(c) /\ Wanted(file[c].topic) =>
                \A i \in DOMAIN file[c].rows : Precedes(Row(Chosen), file[c].rows[i])

\* reader.rs:640-642: read-ahead is the minimum.  Forwards over an index, the
\* resident chunks all overlap the row about to be emitted, but for at most
\* one that a filter made fill load in place of the chunk it waited for.
ReadAheadBound ==
    footer /\ ~reverse /\ pc # "idle" /\ Filled /\ window # {} =>
        LET early == {w \in window : StartOf(w.chunk) > Candidate}
        IN  Cardinality(early) <= (IF filter = {} THEN 0 ELSE 1)

\* Reading returns what Playback promises: each message once, in the order of
\* receive time and then write order or in its mirror, from where a seek or a
\* filter change left it (reader.rs:93-97, 408-434, 481).
Implements == Promise!Spec

\* The rows of a chunk in the window that have not been passed.
RowsOf(c) == DOMAIN file[c].rows
Left(w) ==
    IF reverse THEN {i \in RowsOf(w.chunk) : i <= Len(file[w.chunk].rows) + 1 - w.next}
    ELSE {i \in RowsOf(w.chunk) : w.next <= i}

\* The rows a pass has still to come to: row i of message chunk c.
Held         == {c \in DOMAIN file : HoldsMessages(c)}
ToCome(c, i) == c \in Unread \/ \E w \in window : w.chunk = c /\ i \in Left(w)
RowsToCome   == UNION {{<<c, i>> : i \in {j \in RowsOf(c) : ToCome(c, j)}} : c \in Held}

\* Each turn of those loops takes a chunk out of the index or the file, or passes
\* a row that was still to come, and brings none back: so no call, over however
\* many chunks a filter excludes, takes more turns than there are chunks and rows
\* left.  reader.rs:440-500, 643-684, 769-792.
TurnsLeft    == (Limit - at) + Cardinality(RowsToCome)
TurnsConsume == [][Step /\ pc' # "idle" => TurnsLeft' < TurnsLeft]_vars

\* Every call ends: the loops of fill, read_next, seek and resume all
\* advance (reader.rs:643-684, 769-792).
CallReturns == (pc # "idle") ~> (pc = "idle")

=============================================================================
