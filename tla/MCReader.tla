------------------------------ MODULE MCReader ------------------------------
(***************************************************************************)
(* Small recordings for Reader: every way a few messages on two topics can *)
(* have been cut into chunks and the chunks flushed to the file.           *)
(***************************************************************************)
EXTENDS Reader, SequencesExt

CONSTANTS
    A, B       \* The topics.

Chunks == 3    \* How many chunks of messages at most.

\* Message s of a recording of that many rows was written s-th, received at
\* recv[s] and stored in chunk chunkOf[s] of the file, which is on
\* topicOf[chunkOf[s]].
Layouts(rows) ==
    {l \in [chunkOf : [1 .. rows -> 1 .. Chunks], topicOf : [1 .. Chunks -> {A, B}],
            recv : [1 .. rows -> Times]] :
        LET used == {l.chunkOf[s] : s \in 1 .. rows}
            topic(s) == l.topicOf[l.chunkOf[s]]
        IN  /\ \A c \in used : 1 .. c \subseteq used
            /\ \A c \in 1 .. Chunks \ used : l.topicOf[c] = A
            /\ l.topicOf[1] = A
            /\ \A s, t \in 1 .. rows : s < t /\ topic(s) = topic(t) =>
                  l.chunkOf[s] <= l.chunkOf[t]}

FileOf(l) ==
    LET chunk(c) ==
            LET order == SetToSortSeq({s \in DOMAIN l.chunkOf : l.chunkOf[s] = c}, <)
            IN  [topic |-> l.topicOf[c], messages |-> TRUE,
                 rows |-> [i \in DOMAIN order |->
                              [recv |-> l.recv[order[i]], sequence |-> order[i]]]]
    IN  [c \in {l.chunkOf[s] : s \in DOMAIN l.chunkOf} |-> chunk(c)]

\* A topic's receive times never go back.
Monotone(l) ==
    \A s, t \in DOMAIN l.recv :
        s < t /\ l.topicOf[l.chunkOf[s]] = l.topicOf[l.chunkOf[t]] => l.recv[s] <= l.recv[t]

Files(rows) == {FileOf(l) : l \in {k \in Layouts(rows) : Monotone(k)}}

\* Lens output of a topic, and an entity without a channel: after the first
\* chunk of messages.
Noise ==
    LET early == [recv |-> Least(Times), sequence |-> 1]
        late  == [recv |-> Greatest(Times), sequence |-> 1]
    IN  <<[topic |-> NoTopic, messages |-> TRUE, rows |-> <<early>>],
          [topic |-> A, messages |-> FALSE, rows |-> <<late>>]>>

Outlasts(rows, others) ==
    /\ Head(rows).recv < Head(others).recv
    /\ Last(rows).recv >= Head(others).recv

\* Some chunk outlasts one that starts after it.
Tangled(f) == \E c, d \in DOMAIN f : Outlasts(f[c].rows, f[d].rows)

Case(f, indexed, weak) == [file |-> f, footer |-> indexed, flaky |-> weak]

\* Over an index: four messages in tangled chunks that load, and three in
\* chunks of which one need not.
IndexedCases ==
    {Case(f, TRUE, {}) : f \in {g \in Files(4) : Tangled(g)}}
    \union UNION {{Case(f, TRUE, {c}) : c \in DOMAIN f} : f \in {g \in Files(3) : Tangled(g)}}

\* Without one: three messages among chunks that are not, in a file that reads,
\* and in chunks of which the second need not load, nor the file open again.
ScannedCases ==
    {Case(<<Head(f)>> \o Noise \o Tail(f), FALSE, {}) : f \in Files(3)}
    \union {Case(f, FALSE, {NoChunk, 2}) : f \in {g \in Files(3) : Len(g) = 3}}

\* Over an index, three messages of which one was received before an earlier one
\* of its topic.
UnsteadyCases ==
    {Case(f, TRUE, {}) : f \in {FileOf(l) : l \in {k \in Layouts(3) : ~Monotone(k)}}}

EveryCase  == IndexedCases \union ScannedCases
PlainScans == {Case(f, FALSE, {}) : f \in Files(3)}

TwoTopics   == {A, B}
ThreeTimes  == 1 .. 3
SomeFilters == {{}, {A}, {B}}

=============================================================================
