------------------------------ MODULE Recorder ------------------------------
(***************************************************************************)
(* One open bag being written: the Writer of writer.rs and its Topics of   *)
(* record.rs, each with a Pipeline.                                        *)
(*                                                                         *)
(* Calls come from rosbag2 one at a time (the plugin's mutex).  A call     *)
(* whose body loops over the topics - the stale sweep at the end of write, *)
(* and close - is a sequence of steps, one per topic, with pc and at for   *)
(* the loop.  The clock moves between calls: a call is instantaneous on    *)
(* the scale of max_latency.                                               *)
(*                                                                         *)
(* A flush can fail (building the chunk), a lens can fail within one, and  *)
(* a decode can fail with or without taking the decoder with it; the       *)
(* constants say which of these a run considers.  file is what was handed  *)
(* to the recording stream, one entry for each flush.                      *)
(***************************************************************************)
EXTENDS Pipeline

CONSTANTS
    Configs,      \* The recording configurations considered.
    Kinds,        \* The kinds of topic considered.
    Names,        \* Topic names.
    Sizes,        \* Payload sizes.
    Outcomes,     \* Decode outcomes that happen.
    Fates,        \* What becomes of the rows of a flush.
    MaxTopics,    \* Bound on slots: a name created again takes a new one.
    MaxMessages,  \* Bound on writes.
    MaxTime       \* Bound on the clock.

ASSUME ConfigsAssumption ==
    Configs \subseteq {c \in RecordingConfig : Accepted(c)}
ASSUME KindsAssumption    == Kinds \subseteq TopicKind
ASSUME SizesAssumption    == Sizes \subseteq Nat
ASSUME OutcomesAssumption == Outcomes \subseteq DecodeOutcome /\ "ok" \in Outcomes
ASSUME FatesAssumption    == Fates \subseteq Fate /\ "sent" \in Fates
ASSUME BoundsAssumption   ==
    MaxTopics \in Nat /\ MaxMessages \in Nat /\ MaxTime \in Nat

VARIABLES
    config,         \* Writer.config, fixed at open.
    now,            \* The clock behind Instant::now().
    topics,         \* Writer.topics: slots in creation order.
    topic_ids,      \* Writer.topic_ids: name -> slot, 0 for a name not in it.
    next_sequence,  \* Writer.next_sequence.
    last_sweep,     \* Writer.last_sweep.
    pc,             \* The call in progress: idle, sweep, close; or closed.
    at,             \* The topic the loop of that call is at.
    result,         \* What the last call returned.
    file,           \* What each flush handed to the recording stream, in order.
    accepted,       \* History: rows buffered, as [sequence, topic].
    lost,           \* History: rows dropped after that, as [sequence, topic, why].
    cut_short       \* History: the last sweep ended at a flush that failed.

vars == <<config, now, topics, topic_ids, next_sequence, last_sweep, pc, at,
          result, file, accepted, lost, cut_short>>

NoTopic == 0
Slots   == DOMAIN topics

TopicState ==
    [pipeline : PipelineState, last_flush : Nat, retired : BOOLEAN]

\* Topic::new and the empty buffers it starts with.
NewTopic(kind) ==
    [pipeline   |-> NewPipeline(config, kind),
     last_flush |-> now,
     retired    |-> FALSE]

Init ==
    /\ config \in Configs
    /\ now = 0
    /\ topics = <<>>
    /\ topic_ids = [n \in Names |-> NoTopic]
    /\ next_sequence = 0
    /\ last_sweep = now
    /\ pc = "idle"
    /\ at = 0
    /\ result = "ok"
    /\ file = <<>>
    /\ accepted = {}
    /\ lost = {}
    /\ cut_short = FALSE

-----------------------------------------------------------------------------
\* Mutant: the limit is reached only once it is passed.
ElapsedLate(since) ==
    /\ config.max_latency > 0
    /\ now - since > config.max_latency

\* Time since an instant has reached the latency limit, if there is one.
Elapsed(since) ==
    /\ config.max_latency > 0
    /\ now - since >= config.max_latency

\* Mutant: a limit is reached only once it is passed.
ShouldFlushLate(topic) ==
    /\ topic.pipeline.rows # <<>>
    /\ \/ config.max_rows > 0 /\ Len(topic.pipeline.rows) > config.max_rows
       \/ config.max_bytes > 0 /\ topic.pipeline.bytes > config.max_bytes
       \/ Elapsed(topic.last_flush)

\* Topic::should_flush.
ShouldFlush(topic) ==
    /\ topic.pipeline.rows # <<>>
    /\ \/ config.max_rows > 0 /\ Len(topic.pipeline.rows) >= config.max_rows
       \/ config.max_bytes > 0 /\ topic.pipeline.bytes >= config.max_bytes
       \/ Elapsed(topic.last_flush)

\* Mutant: the rows stay.
FlushedKeepsRows(topic) == [topic EXCEPT !.last_flush = now]

\* The topic once Topic::flush has taken its rows, whether or not it failed.
Flushed(topic) ==
    [topic EXCEPT !.last_flush = now, !.pipeline = Emptied(@)]

\* Mutants: a chunk of one row is taken for an empty one; chunks arrive in
\* reverse.
SentIfSeveral(t, topic, fate) ==
    IF \/ fate = "unbuilt"
       \/ Len(topic.pipeline.rows) < 2
       \/ SentColumns(config, topic.pipeline, fate) = {}
    THEN file
    ELSE Append(file, TakeChunk(config, topic.pipeline, t, fate))

SentFirst(t, topic, fate) ==
    IF \/ fate = "unbuilt"
       \/ topic.pipeline.rows = <<>>
       \/ SentColumns(config, topic.pipeline, fate) = {}
    THEN file
    ELSE <<TakeChunk(config, topic.pipeline, t, fate)>> \o file

\* What flushing topic, the new value of slot t, hands to the stream: a chunk,
\* unless there are no rows, building it failed, or the lenses left nothing.
Sent(t, topic, fate) ==
    IF \/ fate = "unbuilt"
       \/ topic.pipeline.rows = <<>>
       \/ SentColumns(config, topic.pipeline, fate) = {}
    THEN file
    ELSE Append(file, TakeChunk(config, topic.pipeline, t, fate))

\* The rows the pipeline of slot t holds, as rows lost for a reason.
LostRows(t, p, why) ==
    {[sequence |-> p.rows[i].sequence, topic |-> t, why |-> why] : i \in DOMAIN p.rows}

\* The rows that flushing slot t takes out of it of which nothing is handed over.
\* Only the first of the three reasons makes the flush an error.
Unsent(t, topic, fate) ==
    IF fate = "unbuilt" THEN LostRows(t, topic.pipeline, "flush")
    ELSE IF SentColumns(config, topic.pipeline, fate) = {}
    THEN LostRows(t, topic.pipeline,
                  IF LensFails(config, topic.pipeline, fate) THEN "lens" ELSE "unmatched")
    ELSE {}

\* Mutant: only a flush that is due happens.
FlushIfDue(t, topic, fate) ==
    IF ShouldFlush(topic)
    THEN /\ topics' = [topics EXCEPT ![t] = Flushed(topic)]
         /\ file' = Sent(t, topic, fate)
    ELSE UNCHANGED <<topics, file>>

\* Topic::flush of slot t, holding topic.
Flush(t, topic, fate) ==
    /\ topics' = [topics EXCEPT ![t] = Flushed(topic)]
    /\ file' = Sent(t, topic, fate)

\* Rows are what building a chunk, or a lens, can fail on.
FatesOf(topic) == IF topic.pipeline.rows = <<>> THEN {"sent"} ELSE Fates

Return(r) == pc' = "idle" /\ at' = 0 /\ result' = r

\* Mutants: the sweep starts before the first topic, or after it.
SweepFrom(first) ==
    IF Elapsed(last_sweep)
    THEN /\ last_sweep' = now
         /\ cut_short' = FALSE
         /\ pc' = "sweep" /\ at' = first
         /\ UNCHANGED result
    ELSE Return("ok") /\ UNCHANGED <<last_sweep, cut_short>>

SweepFromZero   == SweepFrom(0)
SweepFromSecond == SweepFrom(2)

\* The end of Writer::write: return, or start the sweep of every topic.
SweepStaleTopics ==
    IF Elapsed(last_sweep)
    THEN /\ last_sweep' = now
         /\ cut_short' = FALSE
         /\ pc' = "sweep" /\ at' = 1
         /\ UNCHANGED result
    ELSE Return("ok") /\ UNCHANGED <<last_sweep, cut_short>>

-----------------------------------------------------------------------------
\* Writer::create_topic for a name not in use; otherwise it only returns the
\* slot the name has.
CreateTopic(name, kind) ==
    /\ pc = "idle"
    /\ topic_ids[name] = NoTopic
    /\ Len(topics) < MaxTopics
    /\ topics' = Append(topics, NewTopic(kind))
    /\ topic_ids' = [topic_ids EXCEPT ![name] = Len(topics) + 1]
    /\ result' = "ok"
    /\ UNCHANGED <<config, now, next_sequence, last_sweep, pc, at, file,
                   accepted, lost, cut_short>>

\* Writer::write to a slot that was never handed out: the sequence number is
\* spent all the same.
WriteNoTopic ==
    /\ pc = "idle"
    /\ next_sequence < MaxMessages
    /\ next_sequence' = next_sequence + 1
    /\ result' = "err"
    /\ UNCHANGED <<config, now, topics, topic_ids, last_sweep, pc, at, file,
                   accepted, lost, cut_short>>

\* Writer::write to a retired slot: the message is dropped and the call
\* carries on to the sweep.
WriteRetired(t) ==
    /\ pc = "idle"
    /\ next_sequence < MaxMessages
    /\ topics[t].retired
    /\ next_sequence' = next_sequence + 1
    /\ SweepStaleTopics
    /\ UNCHANGED <<config, now, topics, topic_ids, file, accepted, lost>>

\* Slot t after Pipeline::push of the next message.
Pushed(t, size, outcome) ==
    [topics[t] EXCEPT !.pipeline =
        Push(config, @, next_sequence, now, size, outcome)]

LostInPush(t, outcome) ==
    IF RowsLost(config, topics[t].pipeline, outcome)
    THEN LostRows(t, topics[t].pipeline, "decoder")
    ELSE {}

\* Writer::write of one message to a live slot.
Write(t, size, outcome, fate) ==
    LET topic == Pushed(t, size, outcome)
    IN  /\ pc = "idle"
        /\ next_sequence < MaxMessages
        /\ ~topics[t].retired
        /\ next_sequence' = next_sequence + 1
        /\ accepted' = accepted \union {[sequence |-> next_sequence, topic |-> t]}
        /\ IF ShouldFlush(topic)
           THEN /\ Flush(t, topic, fate)
                /\ lost' = lost \union LostInPush(t, outcome)
                                \union Unsent(t, topic, fate)
           ELSE /\ topics' = [topics EXCEPT ![t] = topic]
                /\ lost' = lost \union LostInPush(t, outcome)
                /\ UNCHANGED file
        /\ IF ShouldFlush(topic) /\ fate = "unbuilt"
           THEN Return("err") /\ UNCHANGED <<last_sweep, cut_short>>
           ELSE SweepStaleTopics
        /\ UNCHANGED <<config, now, topic_ids>>

\* One iteration of the sweep: flush_if_stale, whose failure ends the call.
SweepTopic(fate) ==
    LET stale == Elapsed(topics[at].last_flush) /\ topics[at].pipeline.rows # <<>>
    IN  /\ pc = "sweep"
        /\ at <= Len(topics)
        /\ IF stale
           THEN /\ Flush(at, topics[at], fate)
                /\ lost' = lost \union Unsent(at, topics[at], fate)
           ELSE UNCHANGED <<topics, file, lost>>
        /\ IF stale /\ fate = "unbuilt"
           THEN Return("err") /\ cut_short' = TRUE
           ELSE at' = at + 1 /\ UNCHANGED <<pc, result, cut_short>>
        /\ UNCHANGED <<config, now, topic_ids, next_sequence, last_sweep, accepted>>

SweepDone ==
    /\ pc = "sweep"
    /\ at > Len(topics)
    /\ Return("ok")
    /\ UNCHANGED <<config, now, topics, topic_ids, next_sequence, last_sweep,
                   file, accepted, lost, cut_short>>

\* Writer::remove_topic: the name is gone even if the flush fails, and then
\* the slot goes on recording.
RemoveTopic(name, fate) ==
    LET t == topic_ids[name]
    IN  /\ pc = "idle"
        /\ t # NoTopic
        /\ fate \in FatesOf(topics[t])
        /\ topic_ids' = [topic_ids EXCEPT ![name] = NoTopic]
        /\ topics' = [topics EXCEPT ![t] =
                        [Flushed(topics[t]) EXCEPT !.retired = (fate # "unbuilt")]]
        /\ file' = Sent(t, topics[t], fate)
        /\ lost' = lost \union Unsent(t, topics[t], fate)
        /\ result' = IF fate = "unbuilt" THEN "err" ELSE "ok"
        /\ UNCHANGED <<config, now, next_sequence, last_sweep, pc, at, accepted, cut_short>>

\* Writer::close: flush every topic, a failure being logged only.
Close ==
    /\ pc = "idle"
    /\ pc' = "close"
    /\ at' = 1
    /\ UNCHANGED <<config, now, topics, topic_ids, next_sequence, last_sweep,
                   result, file, accepted, lost, cut_short>>

CloseTopic(fate) ==
    /\ pc = "close"
    /\ at <= Len(topics)
    /\ Flush(at, topics[at], fate)
    /\ lost' = lost \union Unsent(at, topics[at], fate)
    /\ at' = at + 1
    /\ UNCHANGED <<config, now, topic_ids, next_sequence, last_sweep, pc, result,
                   accepted, cut_short>>

CloseDone ==
    /\ pc = "close"
    /\ at > Len(topics)
    /\ pc' = "closed"
    /\ at' = 0
    /\ result' = "ok"
    /\ UNCHANGED <<config, now, topics, topic_ids, next_sequence, last_sweep,
                   file, accepted, lost, cut_short>>

Tick ==
    /\ pc = "idle"
    /\ now < MaxTime
    /\ now' = now + 1
    /\ UNCHANGED <<config, topics, topic_ids, next_sequence, last_sweep, pc, at,
                   result, file, accepted, lost, cut_short>>

-----------------------------------------------------------------------------
\* Only a live decoder has an outcome.
OutcomesOf(t) == IF topics[t].pipeline.reflection THEN Outcomes ELSE {"ok"}

Call ==
    \/ \E name \in Names, kind \in Kinds : CreateTopic(name, kind)
    \/ \E name \in Names, fate \in Fates : RemoveTopic(name, fate)
    \/ WriteNoTopic
    \/ \E t \in Slots : WriteRetired(t)
    \/ \E t \in Slots, size \in Sizes, fate \in Fates :
          \E outcome \in OutcomesOf(t) : Write(t, size, outcome, fate)
    \/ Close

\* The rest of a call in progress.
Step ==
    \/ \E fate \in Fates : SweepTopic(fate) \/ CloseTopic(fate)
    \/ SweepDone
    \/ CloseDone

Next == Call \/ Step \/ Tick

Spec == Init /\ [][Next]_vars /\ WF_vars(Step)

-----------------------------------------------------------------------------
Rows(t) == topics[t].pipeline.rows

\* Sequence numbers of a row or chunk list.
Sequences(rows) == {rows[i].sequence : i \in DOMAIN rows}

Filed(t) == UNION {Sequences(file[c].rows) : c \in {d \in DOMAIN file : file[d].topic = t}}

LostSequences == {l.sequence : l \in lost}

TypeOK ==
    /\ config \in Configs
    /\ now \in Nat
    /\ topics \in Seq(TopicState)
    /\ topic_ids \in [Names -> 0 .. Len(topics)]
    /\ next_sequence \in Nat
    /\ last_sweep \in Nat
    /\ pc \in {"idle", "sweep", "close", "closed"}
    /\ at \in Nat
    /\ pc \in {"sweep", "close"} => at > 0
    /\ result \in {"ok", "err"}
    /\ file \in Seq(Chunk)
    /\ accepted \subseteq [sequence : Nat, topic : Nat]
    /\ lost \subseteq [sequence : Nat, topic : Nat,
                      why : {"flush", "decoder", "unmatched", "lens"}]
    /\ cut_short \in BOOLEAN

\* Every message that was buffered is in exactly one place: its topic's
\* buffer, a chunk of its topic in the file, or accounted for as lost.
\* record.rs:160-169 (flush), pipeline.rs:301-396 (push, take).
AcceptedOnce ==
    /\ \A m \in accepted :
          LET buffered == m.topic \in Slots /\ m.sequence \in Sequences(Rows(m.topic))
              filed    == m.sequence \in Filed(m.topic)
              gone     == m.sequence \in LostSequences
          IN  /\ buffered \/ filed \/ gone
              /\ ~(buffered /\ filed) /\ ~(buffered /\ gone) /\ ~(filed /\ gone)
    /\ \A t \in Slots : \A s \in Sequences(Rows(t)) \union Filed(t) :
          [sequence |-> s, topic |-> t] \in accepted

Increasing(rows) ==
    \A i, j \in DOMAIN rows : i < j => rows[i].sequence < rows[j].sequence

\* A topic's messages reach the file in the order they were written, each
\* once, and its buffer holds only later ones: flushes of any cause never
\* reorder or repeat a topic's rows.  writer.rs:222-260, record.rs:107-169.
RecordedInOrder ==
    /\ \A t \in Slots : Increasing(Rows(t))
    /\ \A c \in DOMAIN file : Increasing(file[c].rows)
    /\ \A c, d \in DOMAIN file :
          c < d /\ file[c].topic = file[d].topic =>
            \A r \in Sequences(file[c].rows), s \in Sequences(file[d].rows) : r < s
    /\ \A c \in DOMAIN file :
          \A r \in Sequences(file[c].rows), s \in Sequences(Rows(file[c].topic)) : r < s

\* The numbers given so far are below the next, and chunks are of known slots:
\* what RecordedInOrder needs to be inductive.
SequencesGiven ==
    /\ \A c \in DOMAIN file :
          /\ file[c].topic \in Slots
          /\ \A s \in Sequences(file[c].rows) : s < next_sequence
    /\ \A t \in Slots : \A s \in Sequences(Rows(t)) : s < next_sequence

\* A topic never holds as many rows or bytes as its limits between calls: each
\* write that reaches a limit flushes, whatever the limit it reaches first.
\* config.rs:86-95, record.rs:127-142.
BufferBounds ==
    \A t \in Slots :
        /\ config.max_rows > 0 => Len(Rows(t)) < config.max_rows
        /\ config.max_bytes > 0 => topics[t].pipeline.bytes < config.max_bytes

\* The names in use lead to distinct slots that are still recording, and a
\* retired slot holds no rows (none would ever leave it before close).
\* writer.rs:189-219, 262-273.
NamesToSlots ==
    /\ \A n \in Names : topic_ids[n] # NoTopic => ~topics[topic_ids[n]].retired
    /\ \A m, n \in Names :
          topic_ids[m] = topic_ids[n] /\ topic_ids[m] # NoTopic => m = n
    /\ \A t \in Slots : topics[t].retired => Rows(t) = <<>>

\* A topic announced as replayable loses no message to the lenses, not even when
\* one of them fails; and what its flushes store has the forms announced: its
\* bytes when raw was, else for each message they hold its struct or what all
\* the lenses derive from it (unless one failed on that flush), or the bytes in
\* place of a message that could not be decoded.
\* pipeline.rs:264-278, 398-422, record.rs:71-88.
StoredAsAnnounced ==
    /\ \A l \in lost :
          l.why \in {"unmatched", "lens"} => ~IsReplayable(topics[l.topic].pipeline)
    /\ \A c \in DOMAIN file :
          LET stored == topics[file[c].topic].pipeline.stored
          IN  \A i \in DOMAIN file[c].rows :
                /\ "raw" \in stored => file[c].rows[i].blob
                /\ "reflected" \in stored =>
                      file[c].rows[i].blob \/ file[c].rows[i].struct
                /\ "lenses" \in stored /\ ~file[c].lens_failed =>
                      file[c].rows[i].blob \/ file[c].rows[i].lenses

\* No row outlives the window it was buffered in and the next: it was buffered
\* after its topic's last flush, and a sweep that has passed a topic leaves it
\* only rows younger than max_latency.  A sweep that a failing flush ends says
\* nothing until the next one.  The inductive form of RowAgeBound.
\* writer.rs:247-260, record.rs:144-157.
RowAgeInv ==
    /\ last_sweep <= now
    /\ pc = "sweep" => last_sweep = now /\ ~cut_short
    /\ \A t \in Slots :
          /\ topics[t].last_flush <= now
          /\ \A i \in DOMAIN Rows(t) :
                /\ topics[t].last_flush <= Rows(t)[i].at
                /\ Rows(t)[i].at <= now
                /\ config.max_latency > 0 /\ ~cut_short /\ (pc = "sweep" => t < at) =>
                      last_sweep - Rows(t)[i].at < config.max_latency

\* A call of Writer::write comes back.
WriteReturns ==
    \/ pc = "idle" /\ next_sequence' # next_sequence /\ pc' = "idle"
    \/ pc = "sweep" /\ pc' = "idle"

RowsYoung ==
    \A t \in Slots : \A i \in DOMAIN Rows(t) :
        now - Rows(t)[i].at < 2 * config.max_latency

ReturnsYoung ==
    WriteReturns /\ result' = "ok" /\ config.max_latency > 0 /\ ~cut_short' => RowsYoung'

\* When a write returns Ok no topic holds a row for twice max_latency: not the
\* topic written to, nor any that went quiet, unless the last sweep was cut short
\* by a flush that failed; the next one that is not makes up for it, whatever
\* failed before.  writer.rs:240-260, config.rs:107-112, record.rs:144-157.
RowAgeBound == [][ReturnsYoung]_vars

\* Every row of a chunk that holds messages can be replayed: it has its bytes
\* or its struct.  pipeline.rs:9-11, reader.rs:83-84.
RowHasAForm ==
    \A c \in DOMAIN file : HoldsMessages(file[c]) =>
        \A i \in DOMAIN file[c].rows : file[c].rows[i].blob \/ file[c].rows[i].struct

=============================================================================
