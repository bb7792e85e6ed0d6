--------------------------- MODULE RecorderProofs ---------------------------
(***************************************************************************)
(* What Recorder.tla satisfies for every value of its constants.           *)
(***************************************************************************)
EXTENDS Recorder, PipelineProofs

-----------------------------------------------------------------------------
(* Slots and what is in them. *)

\* Slots are the indices of topics.
LEMMA SlotsAre ==
  ASSUME TypeOK
  PROVE  Slots = 1 .. Len(topics) /\ Len(topics) \in Nat
BY DEF TypeOK, Slots

\* The configuration is one that can be written.
LEMMA ConfigType ==
  ASSUME TypeOK
  PROVE  config \in RecordingConfig
BY ConfigsAssumption DEF TypeOK

\* A slot holds a topic, with a pipeline.
LEMMA SlotTypes ==
  ASSUME TypeOK, NEW t \in Slots
  PROVE  topics[t] \in TopicState /\ topics[t].pipeline \in PipelineState
<1>1. topics[t] \in TopicState
  BY SlotsAre, ElementOfSeq DEF TypeOK
<1> QED
  BY <1>1 DEF TopicState

\* A push leaves rows where they were or drops them all, and adds one.
LEMMA PushedRows ==
  ASSUME TypeOK, NEW t \in Slots, NEW size \in Nat, NEW outcome \in DecodeOutcome
  PROVE  LET topic == Pushed(t, size, outcome)
         IN  /\ topic.last_flush = topics[t].last_flush
             /\ topic.retired = topics[t].retired
             /\ \A i \in DOMAIN topic.pipeline.rows :
                  \/ /\ i \in DOMAIN Rows(t) /\ i < Len(topic.pipeline.rows)
                     /\ topic.pipeline.rows[i] = Rows(t)[i]
                  \/ /\ i = Len(topic.pipeline.rows)
                     /\ topic.pipeline.rows[i].at = now
                     /\ topic.pipeline.rows[i].sequence = next_sequence
<1>1. topics[t] \in TopicState /\ topics[t].pipeline \in PipelineState
  BY SlotTypes
<1>2. PICK p \in PipelineState : p = topics[t].pipeline
  BY <1>1
<1>3. config \in RecordingConfig /\ next_sequence \in Nat /\ now \in Nat
  BY ConfigType DEF TypeOK
<1> DEFINE rows == Push(config, p, next_sequence, now, size, outcome).rows
<1>5. \A i \in DOMAIN rows :
         \/ i \in DOMAIN p.rows /\ i < Len(rows) /\ rows[i] = p.rows[i]
         \/ i = Len(rows) /\ rows[i].sequence = next_sequence /\ rows[i].at = now
  BY <1>3, PushRows
<1>6. /\ Pushed(t, size, outcome).pipeline.rows = rows
      /\ Pushed(t, size, outcome).last_flush = topics[t].last_flush
      /\ Pushed(t, size, outcome).retired = topics[t].retired
  BY <1>1, <1>2 DEF Pushed, TopicState
<1> HIDE DEF rows
<1>7. PICK topic : topic = Pushed(t, size, outcome)
  OBVIOUS
<1>8. topic.pipeline.rows = rows /\ Rows(t) = p.rows
  BY <1>2, <1>6, <1>7 DEF Rows
<1>9. \A i \in DOMAIN topic.pipeline.rows :
         \/ /\ i \in DOMAIN Rows(t) /\ i < Len(topic.pipeline.rows)
            /\ topic.pipeline.rows[i] = Rows(t)[i]
         \/ /\ i = Len(topic.pipeline.rows)
            /\ topic.pipeline.rows[i].at = now
            /\ topic.pipeline.rows[i].sequence = next_sequence
  BY <1>5, <1>8, Zenon
<1> QED
  BY <1>6, <1>7, <1>9, Zenon

USE ConfigsAssumption, KindsAssumption, SizesAssumption, OutcomesAssumption,
    FatesAssumption, BoundsAssumption

LostSet ==
    [sequence : Nat, topic : Nat, why : {"flush", "decoder", "unmatched", "lens"}]

-----------------------------------------------------------------------------
(* Helpers keep their types. *)

\* Topic::flush leaves a topic without rows whose clock starts again.
LEMMA FlushedType ==
  ASSUME TypeOK, NEW topic \in TopicState
  PROVE  /\ Flushed(topic) \in TopicState
         /\ Flushed(topic).pipeline.rows = <<>>
         /\ Flushed(topic).last_flush = now
         /\ Flushed(topic).retired = topic.retired
<1>1. topic.pipeline \in PipelineState /\ now \in Nat
  BY DEF TypeOK, TopicState
<1>2. Emptied(topic.pipeline) \in PipelineState /\ Emptied(topic.pipeline).rows = <<>>
  BY <1>1, EmptiedType
<1>3. /\ Flushed(topic).pipeline = Emptied(topic.pipeline)
      /\ Flushed(topic).last_flush = now
      /\ Flushed(topic).retired = topic.retired
  BY DEF Flushed, TopicState
<1>4. topic.retired \in BOOLEAN
  BY DEF TopicState
<1>5. Flushed(topic) \in TopicState
  BY <1>1, <1>2, <1>4 DEF Flushed, TopicState
<1> QED
  BY <1>2, <1>3, <1>5

\* A topic a message was pushed to is a topic.
LEMMA PushedType ==
  ASSUME TypeOK, NEW t \in Slots, NEW size \in Nat, NEW outcome \in DecodeOutcome
  PROVE  Pushed(t, size, outcome) \in TopicState
<1>1. topics[t] \in TopicState
  BY SlotTypes
<1>2. topics[t].pipeline \in PipelineState
  BY SlotTypes
<1>3. Push(config, topics[t].pipeline, next_sequence, now, size, outcome) \in PipelineState
  BY <1>2, ConfigType, PushType DEF TypeOK
<1> QED
  BY <1>1, <1>3 DEF Pushed, TopicState

\* What the stream was handed stays a list of chunks after a flush.
LEMMA SentType ==
  ASSUME TypeOK, NEW t \in Nat, NEW topic \in TopicState, NEW fate
  PROVE  Sent(t, topic, fate) \in Seq(Chunk)
<1>1. SentColumns(config, topic.pipeline, fate) # {} =>
         TakeChunk(config, topic.pipeline, t, fate) \in Chunk
  BY ConfigType, TakeChunkType DEF TopicState
<1> QED
  BY <1>1, AppendProperties DEF Sent, TypeOK

\* The rows of a slot's pipeline, once lost, are numbers with a reason.
LEMMA LostRowsType ==
  ASSUME NEW t \in Nat, NEW p \in PipelineState,
         NEW why \in {"flush", "decoder", "unmatched", "lens"}
  PROVE  LostRows(t, p, why) \subseteq LostSet
<1>1. \A i \in DOMAIN p.rows : p.rows[i] \in Row
  BY DEF PipelineState
<1> QED
  BY <1>1 DEF LostRows, LostSet, Row

\* So are those a flush does not hand over.
LEMMA UnsentType ==
  ASSUME NEW t \in Nat, NEW topic \in TopicState, NEW fate
  PROVE  Unsent(t, topic, fate) \subseteq LostSet
BY LostRowsType DEF Unsent, TopicState

\* Topic::flush keeps the types of what it changes.
LEMMA FlushType ==
  ASSUME TypeOK, NEW t \in Slots, NEW topic \in TopicState, NEW fate,
         Flush(t, topic, fate)
  PROVE  /\ topics' \in Seq(TopicState) /\ Len(topics') = Len(topics)
         /\ file' \in Seq(Chunk)
<1>1. t \in 1 .. Len(topics) /\ t \in Nat
  BY SlotsAre
<1>2. Flushed(topic) \in TopicState
  BY FlushedType
<1> QED
  BY <1>1, <1>2, ExceptSeq, SentType DEF Flush, TypeOK

\* The end of Writer::write keeps the types of what it changes.
LEMMA SweepStaleTopicsType ==
  ASSUME TypeOK, SweepStaleTopics
  PROVE  /\ last_sweep' \in Nat /\ at' \in Nat /\ result' \in {"ok", "err"}
         /\ pc' \in {"idle", "sweep"}
         /\ pc' = "sweep" => at' > 0
         /\ cut_short' \in BOOLEAN
<1>1. cut_short' \in BOOLEAN
  BY Zenon DEF TypeOK, SweepStaleTopics
<1> QED
  BY <1>1 DEF TypeOK, SweepStaleTopics, Return

-----------------------------------------------------------------------------
(* The state of a recording always has its type: in particular a topic id   *)
(* handed out stays the index of a slot, so no later call can miss it.      *)

\* Writer::new starts with the types that TypeOK states.
LEMMA TypeInit == Init => TypeOK
<1> SUFFICES ASSUME Init PROVE TypeOK
  OBVIOUS
<1>1. topics \in Seq(TopicState) /\ file \in Seq(Chunk) /\ Len(topics) = 0
  BY EmptySeq DEF Init
<1>2. topic_ids \in [Names -> 0 .. Len(topics)]
  BY <1>1 DEF Init, NoTopic
<1> QED
  BY <1>1, <1>2 DEF Init, TypeOK

\* Every step keeps the types.
LEMMA TypeStep ==
  ASSUME TypeOK, [Next]_vars
  PROVE  TypeOK'
<1> USE DEF TypeOK
<1>1. CASE UNCHANGED vars
  BY <1>1 DEF vars
<1>2. ASSUME NEW name \in Names, NEW kind \in Kinds, CreateTopic(name, kind)
      PROVE  TypeOK'
  <2>1. NewTopic(kind) \in TopicState
    BY ConfigType, NewPipelineType DEF NewTopic, TopicState
  <2>2. topics' \in Seq(TopicState) /\ Len(topics') = Len(topics) + 1
    BY <1>2, <2>1, AppendProperties DEF CreateTopic
  <2>3. topic_ids' \in [Names -> 0 .. Len(topics')]
    BY <1>2, <2>2, SlotsAre DEF CreateTopic
  <2> QED
    BY <1>2, <2>2, <2>3 DEF CreateTopic
<1>3. ASSUME NEW name \in Names, NEW fate \in Fates, RemoveTopic(name, fate)
      PROVE  TypeOK'
  <2> DEFINE t == topic_ids[name]
             topic == [Flushed(topics[t]) EXCEPT !.retired = (fate # "unbuilt")]
  <2>1. t \in 1 .. Len(topics) /\ t \in Nat
    BY <1>3, SlotsAre DEF RemoveTopic, NoTopic
  <2>2. topics[t] \in TopicState
    BY <2>1, ElementOfSeq
  <2>3. topic \in TopicState
    BY <2>2, FlushedType DEF TopicState
  <2>4. topics' \in Seq(TopicState) /\ Len(topics') = Len(topics)
    BY <1>3, <2>1, <2>3, ExceptSeq DEF RemoveTopic
  <2>5. file' \in Seq(Chunk)
    BY <1>3, <2>1, <2>2, SentType DEF RemoveTopic
  <2>6. topic_ids' \in [Names -> 0 .. Len(topics')]
    BY <1>3, <2>4, SlotsAre DEF RemoveTopic, NoTopic
  <2>7. lost' \subseteq LostSet
    BY <1>3, <2>2, UnsentType DEF RemoveTopic, LostSet
  <2> QED
    BY <1>3, <2>4, <2>5, <2>6, <2>7 DEF RemoveTopic, LostSet
<1>4. CASE WriteNoTopic
  <2>1. next_sequence' \in Nat /\ result' \in {"ok", "err"}
    BY <1>4 DEF WriteNoTopic
  <2>2. UNCHANGED <<config, now, topics, topic_ids, last_sweep, pc, at, file, accepted,
                    lost, cut_short>>
    BY <1>4 DEF WriteNoTopic
  <2> QED
    BY <2>1, <2>2
<1>5. ASSUME NEW t \in Slots, WriteRetired(t)
      PROVE  TypeOK'
  BY <1>5, SweepStaleTopicsType DEF WriteRetired
<1>6. ASSUME NEW t \in Slots, NEW size \in Sizes, NEW fate \in Fates,
             NEW outcome \in OutcomesOf(t), Write(t, size, outcome, fate)
      PROVE  TypeOK'
  <2> DEFINE topic == Pushed(t, size, outcome)
  <2>1. size \in Nat /\ outcome \in DecodeOutcome
    BY DEF OutcomesOf
  <2>2. topic \in TopicState /\ t \in 1 .. Len(topics) /\ topics[t] \in TopicState
    BY <2>1, PushedType, SlotsAre, ElementOfSeq
  <2>3. /\ topics' \in Seq(TopicState) /\ Len(topics') = Len(topics)
        /\ file' \in Seq(Chunk)
    <3>1. CASE ShouldFlush(topic)
      BY <1>6, <2>2, <3>1, FlushType DEF Write
    <3>2. CASE ~ShouldFlush(topic)
      BY <1>6, <2>2, <3>2, ExceptSeq DEF Write
    <3> QED
      BY <3>1, <3>2
  <2>4. lost' \subseteq LostSet
    <3>1. LostInPush(t, outcome) \subseteq LostSet
      BY <2>2, LostRowsType DEF LostInPush, TopicState
    <3>2. Unsent(t, topic, fate) \subseteq LostSet
      BY <2>2, UnsentType
    <3> QED
      BY <1>6, <3>1, <3>2 DEF Write, LostSet
  <2>5. /\ last_sweep' \in Nat /\ at' \in Nat /\ result' \in {"ok", "err"}
        /\ pc' \in {"idle", "sweep"}
        /\ pc' = "sweep" => at' > 0
    BY <1>6, SweepStaleTopicsType DEF Write, Return
  <2>8. cut_short' \in BOOLEAN
    <3>1. SweepStaleTopics \/ UNCHANGED cut_short
      BY <1>6, Zenon DEF Write
    <3> QED
      BY <3>1, SweepStaleTopicsType
  <2>6. t \in Nat /\ accepted' \subseteq [sequence : Nat, topic : Nat]
    BY <1>6, <2>2 DEF Write
  <2>7. /\ next_sequence' \in Nat
        /\ UNCHANGED <<config, now, topic_ids>>
    BY <1>6 DEF Write
  <2> QED
    BY <2>3, <2>4, <2>5, <2>6, <2>7, <2>8 DEF LostSet
<1>7. CASE Close
  BY <1>7 DEF Close
<1>8. ASSUME NEW fate \in Fates, SweepTopic(fate)
      PROVE  TypeOK'
  <2> DEFINE stale == /\ Elapsed(topics[at].last_flush)
                      /\ topics[at].pipeline.rows # <<>>
  <2>1. at \in 1 .. Len(topics) /\ at \in Slots /\ topics[at] \in TopicState
    BY <1>8, SlotsAre, ElementOfSeq DEF SweepTopic
  <2>2. /\ topics' \in Seq(TopicState) /\ Len(topics') = Len(topics)
        /\ file' \in Seq(Chunk)
        /\ lost' \subseteq LostSet
    <3>1. CASE stale
      BY <1>8, <2>1, <3>1, FlushType, UnsentType DEF SweepTopic, LostSet
    <3>2. CASE ~stale
      BY <1>8, <3>2 DEF SweepTopic, LostSet
    <3> QED
      BY <3>1, <3>2
  <2>3. cut_short' \in BOOLEAN
    BY <1>8, Zenon DEF SweepTopic
  <2>4. /\ at' \in Nat /\ pc' \in {"idle", "sweep"} /\ result' \in {"ok", "err"}
        /\ pc' = "sweep" => at' > 0
    BY <1>8, <2>1 DEF SweepTopic, Return
  <2>5. UNCHANGED <<config, now, topic_ids, next_sequence, last_sweep, accepted>>
    BY <1>8 DEF SweepTopic
  <2> QED
    BY <2>2, <2>3, <2>4, <2>5 DEF LostSet
<1>9. ASSUME NEW fate \in Fates, CloseTopic(fate)
      PROVE  TypeOK'
  <2>1. at \in 1 .. Len(topics) /\ at \in Slots /\ topics[at] \in TopicState
    BY <1>9, SlotsAre, ElementOfSeq DEF CloseTopic
  <2>2. /\ topics' \in Seq(TopicState) /\ Len(topics') = Len(topics)
        /\ file' \in Seq(Chunk)
        /\ lost' \subseteq LostSet
    BY <1>9, <2>1, FlushType, UnsentType DEF CloseTopic, LostSet
  <2> QED
    BY <1>9, <2>1, <2>2 DEF CloseTopic, LostSet
<1>10. CASE SweepDone
  BY <1>10 DEF SweepDone, Return
<1>11. CASE CloseDone
  BY <1>11 DEF CloseDone
<1>12. CASE Tick
  BY <1>12 DEF Tick
<1> QED
  BY <1>1, <1>2, <1>3, <1>4, <1>5, <1>6, <1>7, <1>8, <1>9, <1>10, <1>11, <1>12
     DEF Next, Call, Step

\* Every reachable state of the writer is well formed.
THEOREM TypeCorrect == Spec => []TypeOK
BY TypeInit, TypeStep, PTL DEF Spec

-----------------------------------------------------------------------------
(* The latency bound.  last_sweep is the instant every topic was last looked  *)
(* at, so between two sweeps it is enough that no row was already stale       *)
(* then (RowAgeInv): the next window adds at most max_latency.  A flush that  *)
(* fails ends a sweep early and leaves the topics after it unswept, so        *)
(* nothing is said from there to the next sweep, which starts afresh.         *)

\* Writing one slot leaves the others as they were.
LEMMA SlotUpdate ==
  ASSUME TypeOK, NEW t \in Slots, NEW topic,
         topics' = [topics EXCEPT ![t] = topic]
  PROVE  /\ Slots' = Slots
         /\ \A u \in Slots : topics'[u] = IF u = t THEN topic ELSE topics[u]
BY DEF Slots, TypeOK

\* The times of buffered rows are numbers.
LEMMA RowTimes ==
  ASSUME TypeOK
  PROVE  /\ now \in Nat /\ last_sweep \in Nat /\ config.max_latency \in Nat
         /\ \A t \in Slots :
               /\ topics[t].last_flush \in Nat
               /\ \A i \in DOMAIN Rows(t) : Rows(t)[i].at \in Nat
<1>1. \A t \in Slots : topics[t] \in TopicState
  BY SlotTypes
<1>2. \A t \in Slots : Rows(t) \in Seq(Row) /\ topics[t].last_flush \in Nat
  BY <1>1 DEF TopicState, PipelineState, Rows
<1>3. \A t \in Slots : \A i \in DOMAIN Rows(t) : Rows(t)[i] \in Row
  BY <1>2
<1> QED
  BY <1>2, <1>3, ConfigType DEF TypeOK, Row, RecordingConfig

\* Flushing a topic leaves it nothing the invariant is about.
LEMMA RowAgeFlush ==
  ASSUME TypeOK, RowAgeInv, NEW t \in Slots, NEW topic \in TopicState,
         NEW flushed,
         topics' = [topics EXCEPT ![t] = flushed],
         flushed.pipeline.rows = <<>>, flushed.last_flush = now,
         UNCHANGED <<now, config>>,
         last_sweep' <= now, pc' = "sweep" => last_sweep' = now /\ ~cut_short',
         \A u \in Slots \ {t} : \A i \in DOMAIN Rows(u) :
            config.max_latency > 0 /\ ~cut_short' /\ (pc' = "sweep" => u < at') =>
               last_sweep' - Rows(u)[i].at < config.max_latency
  PROVE  RowAgeInv'
<1>1. /\ Slots' = Slots
      /\ \A u \in Slots : topics'[u] = IF u = t THEN flushed ELSE topics[u]
  <2>1. topics \in Seq(TopicState)
    BY DEF TypeOK
  <2> QED
    BY <2>1 DEF Slots
<1>2. ASSUME NEW u \in Slots \ {t} PROVE Rows(u)' = Rows(u)
  <2>1. topics'[u] = topics[u]
    BY <1>1
  <2> QED
    BY <2>1 DEF Rows
<1>3. Rows(t)' = <<>> /\ topics'[t].last_flush = now
  BY <1>1 DEF Rows
<1>4. now \in Nat
  BY RowTimes
<1> QED
  BY <1>1, <1>2, <1>3, <1>4 DEF RowAgeInv

\* Every step keeps RowAgeInv, whatever fails.
LEMMA RowAgeStep ==
  ASSUME TypeOK, RowAgeInv, [Next]_vars
  PROVE  RowAgeInv'
<1>0. /\ now \in Nat /\ last_sweep \in Nat /\ config.max_latency \in Nat
      /\ \A t \in Slots :
            /\ topics[t].last_flush \in Nat
            /\ \A i \in DOMAIN Rows(t) : Rows(t)[i].at \in Nat
  BY RowTimes
<1>1. CASE UNCHANGED vars
  BY <1>1 DEF vars, RowAgeInv, Rows, Slots
<1>2. ASSUME NEW name \in Names, NEW kind \in Kinds, CreateTopic(name, kind)
      PROVE  RowAgeInv'
  <2>1. Slots' = Slots \union {Len(topics) + 1}
    BY <1>2, SlotsAre, AppendProperties DEF CreateTopic, Slots, TypeOK
  <2>2. \A u \in Slots : topics'[u] = topics[u]
    BY <1>2, SlotsAre DEF CreateTopic, TypeOK
  <2>3. topics'[Len(topics) + 1] = NewTopic(kind)
    BY <1>2, SlotsAre DEF CreateTopic, TypeOK
  <2>4. NewTopic(kind).last_flush = now /\ NewTopic(kind).pipeline.rows = <<>>
    BY DEF NewTopic, NewPipeline
  <2>5. \A u \in Slots : Rows(u)' = Rows(u)
    BY <2>2 DEF Rows
  <2>6. PICK n \in Nat : n = Len(topics) + 1
    BY SlotsAre
  <2>9. topics'[n].last_flush = now /\ Rows(n)' = <<>>
    BY <2>3, <2>4, <2>6 DEF Rows
  <2>7. UNCHANGED <<now, config, last_sweep, cut_short, pc, at>> /\ pc = "idle"
    BY <1>2 DEF CreateTopic
  <2>10. ASSUME NEW u \in Slots'
        PROVE  /\ topics'[u].last_flush <= now'
               /\ \A i \in DOMAIN Rows(u)' :
                     /\ topics'[u].last_flush <= Rows(u)'[i].at
                     /\ Rows(u)'[i].at <= now'
                     /\ config'.max_latency > 0 /\ ~cut_short' /\ (pc' = "sweep" => u < at') =>
                          last_sweep' - Rows(u)'[i].at < config'.max_latency
    <3>1. CASE u \in Slots
      BY <1>0, <2>2, <2>5, <2>7, <3>1 DEF RowAgeInv
    <3>2. CASE u = n
      BY <1>0, <2>7, <2>9, <3>2
    <3> QED
      BY <2>1, <2>6, <3>1, <3>2
  <2> QED
    BY <2>7, <2>10 DEF RowAgeInv
<1>3. ASSUME NEW name \in Names, NEW fate \in Fates, RemoveTopic(name, fate)
      PROVE  RowAgeInv'
  <2> DEFINE t == topic_ids[name]
             flushed == [Flushed(topics[t]) EXCEPT !.retired = (fate # "unbuilt")]
  <2>1. t \in Slots
    BY <1>3, SlotsAre DEF RemoveTopic, NoTopic, TypeOK
  <2>2. topics[t] \in TopicState
    BY <2>1, SlotTypes
  <2>3. flushed.pipeline.rows = <<>> /\ flushed.last_flush = now
    BY <2>2, FlushedType DEF TopicState
  <2>4. /\ topics' = [topics EXCEPT ![t] = flushed]
        /\ UNCHANGED <<now, config, last_sweep, cut_short, pc, at>> /\ pc = "idle"
    BY <1>3 DEF RemoveTopic
  <2> HIDE DEF t, flushed
  <2> QED
    BY <2>1, <2>2, <2>3, <2>4, RowAgeFlush DEF RowAgeInv
<1>4. CASE WriteNoTopic
  BY <1>4 DEF WriteNoTopic, RowAgeInv, Rows, Slots
<1>5. ASSUME NEW t \in Slots, WriteRetired(t)
      PROVE  RowAgeInv'
  BY <1>0, <1>5 DEF WriteRetired, SweepStaleTopics, Return, RowAgeInv, Rows, Slots, TypeOK
<1>6. ASSUME NEW t \in Slots, NEW size \in Sizes, NEW fate \in Fates,
             NEW outcome \in OutcomesOf(t), Write(t, size, outcome, fate)
      PROVE  RowAgeInv'
  <2> DEFINE topic == Pushed(t, size, outcome)
  <2>1. size \in Nat /\ outcome \in DecodeOutcome
    BY DEF OutcomesOf
  <2>2. topic \in TopicState
    BY <2>1, PushedType
  <2>4. UNCHANGED <<now, config>> /\ pc = "idle"
    BY <1>6 DEF Write
  <2>5. /\ last_sweep' <= now /\ last_sweep' \in Nat
        /\ pc' = "sweep" => last_sweep' = now /\ at' = 1 /\ ~cut_short'
        /\ pc' # "sweep" => last_sweep' = last_sweep /\ cut_short' = cut_short
    <3>1. \/ SweepStaleTopics
          \/ Return("err") /\ UNCHANGED <<last_sweep, cut_short>>
      BY <1>6 DEF Write
    <3> QED
      BY <1>0, <3>1 DEF SweepStaleTopics, Return, RowAgeInv
  <2>6. \A u \in Slots : u \in Nat /\ ~(u < 1)
    BY SlotsAre
  <2>7. ASSUME NEW u \in Slots, NEW i \in DOMAIN Rows(u),
               config.max_latency > 0, ~cut_short', pc' = "sweep" => u < at'
        PROVE  last_sweep' - Rows(u)[i].at < config.max_latency
    BY <1>0, <2>4, <2>5, <2>6, <2>7 DEF RowAgeInv
  <2>8. CASE ShouldFlush(topic)
    <3>1. topics' = [topics EXCEPT ![t] = Flushed(topic)]
      BY <1>6, <2>8 DEF Write, Flush
    <3>2. Flushed(topic).pipeline.rows = <<>> /\ Flushed(topic).last_flush = now
      BY <2>2, FlushedType
    <3>3. PICK flushed : flushed = Flushed(topic)
      OBVIOUS
    <3>4. topics' = [topics EXCEPT ![t] = flushed]
          /\ flushed.pipeline.rows = <<>> /\ flushed.last_flush = now
      BY <3>1, <3>2, <3>3
    <3>5. \A u \in Slots \ {t} : \A i \in DOMAIN Rows(u) :
             config.max_latency > 0 /\ ~cut_short' /\ (pc' = "sweep" => u < at') =>
                last_sweep' - Rows(u)[i].at < config.max_latency
      BY <2>7
    <3>6. last_sweep' <= now /\ (pc' = "sweep" => last_sweep' = now /\ ~cut_short')
      BY <2>5
    <3> HIDE DEF topic
    <3> QED
      BY <2>2, <2>4, <3>4, <3>5, <3>6, RowAgeFlush, Zenon
  <2>9. CASE ~ShouldFlush(topic)
    <3>1. topics' = [topics EXCEPT ![t] = topic]
      BY <1>6, <2>9 DEF Write
    <3>2. /\ Slots' = Slots
          /\ \A u \in Slots : topics'[u] = IF u = t THEN topic ELSE topics[u]
      BY <3>1, SlotUpdate
    <3>3. /\ topic.last_flush = topics[t].last_flush
          /\ \A i \in DOMAIN topic.pipeline.rows :
               \/ /\ i \in DOMAIN Rows(t)
                  /\ topic.pipeline.rows[i] = Rows(t)[i]
               \/ topic.pipeline.rows[i].at = now
      BY <2>1, PushedRows
    <3>4. Rows(t)' = topic.pipeline.rows
      BY <3>2 DEF Rows
    <3>5. \A u \in Slots \ {t} : Rows(u)' = Rows(u)
      BY <3>2 DEF Rows
    <3> HIDE DEF topic
    <3>6. ASSUME NEW u \in Slots
          PROVE  /\ topics'[u].last_flush <= now
                 /\ \A i \in DOMAIN Rows(u)' :
                       /\ topics'[u].last_flush <= Rows(u)'[i].at
                       /\ Rows(u)'[i].at <= now
                       /\ config.max_latency > 0 /\ ~cut_short' /\ (pc' = "sweep" => u < at') =>
                            last_sweep' - Rows(u)'[i].at < config.max_latency
      <4>1. CASE u # t
        BY <1>0, <2>7, <3>2, <3>5, <4>1 DEF RowAgeInv
      <4>2. CASE u = t
        <5>1. ASSUME NEW i \in DOMAIN Rows(t)'
              PROVE  \/ i \in DOMAIN Rows(t) /\ Rows(t)'[i] = Rows(t)[i]
                     \/ Rows(t)'[i].at = now
          BY <3>3, <3>4
        <5>2. topics'[t].last_flush = topics[t].last_flush
          BY <3>2, <3>3
        <5>3. \A i \in DOMAIN Rows(t)' :
                 /\ topics[t].last_flush <= Rows(t)'[i].at
                 /\ Rows(t)'[i].at <= now
          BY <1>0, <5>1 DEF RowAgeInv
        <5>5. \A i \in DOMAIN Rows(t)' :
                 config.max_latency > 0 /\ ~cut_short' /\ (pc' = "sweep" => t < at') =>
                   last_sweep' - Rows(t)'[i].at < config.max_latency
          BY <1>0, <2>5, <2>7, <5>1
        <5> QED
          BY <4>2, <5>2, <5>3, <5>5 DEF RowAgeInv
      <4> QED
        BY <4>1, <4>2
    <3> QED
      BY <2>4, <2>5, <3>2, <3>6 DEF RowAgeInv
  <2> QED
    BY <2>8, <2>9
<1>7. CASE Close
  BY <1>7 DEF Close, RowAgeInv, Rows, Slots
<1>8. ASSUME NEW fate \in Fates, SweepTopic(fate)
      PROVE  RowAgeInv'
  <2> DEFINE stale == Elapsed(topics[at].last_flush) /\ topics[at].pipeline.rows # <<>>
  <2>1. at \in Slots /\ topics[at] \in TopicState /\ at \in Nat
    BY <1>8, SlotsAre, SlotTypes DEF SweepTopic, TypeOK
  <2>3. /\ UNCHANGED <<now, config, last_sweep>> /\ pc = "sweep"
        /\ ~(stale /\ fate = "unbuilt") => UNCHANGED <<cut_short, pc>> /\ at' = at + 1
        /\ stale /\ fate = "unbuilt" => pc' = "idle" /\ cut_short'
    BY <1>8 DEF SweepTopic, Return
  <2>4. \A u \in Slots \ {at} : u \in Nat /\ (u < at + 1 => u < at)
    BY <2>1, SlotsAre
  <2>5. CASE stale
    <3>1. topics' = [topics EXCEPT ![at] = Flushed(topics[at])]
      BY <1>8, <2>5 DEF SweepTopic, Flush
    <3>2. /\ Flushed(topics[at]).pipeline.rows = <<>>
          /\ Flushed(topics[at]).last_flush = now
      BY <2>1, FlushedType
    <3>3. last_sweep' <= now /\ (pc' = "sweep" => last_sweep' = now /\ ~cut_short')
      BY <2>3 DEF RowAgeInv
    <3>4. ASSUME NEW u \in Slots \ {at}, NEW i \in DOMAIN Rows(u),
                 config.max_latency > 0, ~cut_short', pc' = "sweep" => u < at'
          PROVE  last_sweep' - Rows(u)[i].at < config.max_latency
      <4>1. u < at /\ ~cut_short
        BY <2>3, <2>4, <3>4 DEF RowAgeInv
      <4> QED
        BY <2>3, <3>4, <4>1 DEF RowAgeInv
    <3> QED
      BY <2>1, <2>3, <3>1, <3>2, <3>3, <3>4, RowAgeFlush
  <2>6. CASE ~stale
    <3>1. UNCHANGED topics
      BY <1>8, <2>6 DEF SweepTopic
    <3>2. ASSUME NEW i \in DOMAIN Rows(at), config.max_latency > 0
          PROVE  last_sweep - Rows(at)[i].at < config.max_latency
      <4>1. Rows(at) # <<>>
        BY <3>2
      <4>2. now - topics[at].last_flush < config.max_latency
        BY <1>0, <2>1, <2>6, <3>2, <4>1 DEF Elapsed, Rows
      <4> QED
        BY <1>0, <2>1, <2>3, <4>2 DEF RowAgeInv
    <3> QED
      BY <1>0, <2>1, <2>3, <2>4, <3>1, <3>2 DEF RowAgeInv, Rows, Slots
  <2> QED
    BY <2>5, <2>6
<1>9. ASSUME NEW fate \in Fates, CloseTopic(fate)
      PROVE  RowAgeInv'
  <2>1. at \in Slots /\ topics[at] \in TopicState
    BY <1>9, SlotsAre, SlotTypes DEF CloseTopic, TypeOK
  <2>2. /\ UNCHANGED <<now, config, last_sweep, cut_short, pc>> /\ pc = "close"
        /\ topics' = [topics EXCEPT ![at] = Flushed(topics[at])]
    BY <1>9 DEF CloseTopic, Flush
  <2>3. /\ Flushed(topics[at]).pipeline.rows = <<>>
        /\ Flushed(topics[at]).last_flush = now
    BY <2>1, FlushedType
  <2> QED
    BY <2>1, <2>2, <2>3, RowAgeFlush DEF RowAgeInv
<1>10. CASE SweepDone
  BY <1>0, <1>10, SlotsAre DEF SweepDone, Return, RowAgeInv, Rows, Slots, TypeOK
<1>11. CASE CloseDone
  BY <1>11 DEF CloseDone, RowAgeInv, Rows, Slots
<1>12. CASE Tick
  BY <1>0, <1>12 DEF Tick, RowAgeInv, Rows, Slots
<1> QED
  BY <1>1, <1>2, <1>3, <1>4, <1>5, <1>6, <1>7, <1>8, <1>9, <1>10, <1>11, <1>12
     DEF Next, Call, Step

\* What a step leaves alone: the configuration always; the clock but in a Tick,
\* when no call is in progress and no number is given; and between two calls of
\* write a number is given by write only, one at a time.
LEMMA StepLeaves ==
  ASSUME Next
  PROVE  /\ config' = config
         /\ now' # now => pc = "idle" /\ pc' = "idle" /\ next_sequence' = next_sequence
         /\ pc = "sweep" => now' = now /\ last_sweep' = last_sweep
         /\ next_sequence' # next_sequence =>
              /\ pc = "idle" /\ next_sequence' = next_sequence + 1
              /\ \/ WriteNoTopic
                 \/ \E t \in Slots : WriteRetired(t)
                 \/ \E t \in Slots, size \in Sizes, fate \in Fates :
                       \E outcome \in OutcomesOf(t) : Write(t, size, outcome, fate)
<1>1. ASSUME NEW name \in Names, NEW kind \in Kinds, CreateTopic(name, kind)
      PROVE  UNCHANGED <<config, now, last_sweep, next_sequence>>
  BY <1>1 DEF CreateTopic
<1>2. ASSUME NEW name \in Names, NEW fate \in Fates, RemoveTopic(name, fate)
      PROVE  UNCHANGED <<config, now, last_sweep, next_sequence>>
  BY <1>2 DEF RemoveTopic
<1>3. CASE WriteNoTopic
  <2>1. /\ UNCHANGED <<config, now, last_sweep>>
        /\ pc = "idle" /\ next_sequence' = next_sequence + 1
    BY <1>3 DEF WriteNoTopic
  <2> QED
    BY <1>3, <2>1
<1>4. ASSUME NEW t \in Slots, WriteRetired(t)
      PROVE  /\ UNCHANGED <<config, now>>
             /\ pc = "idle" /\ next_sequence' = next_sequence + 1
  BY <1>4 DEF WriteRetired
<1>5. ASSUME NEW t \in Slots, NEW size \in Sizes, NEW fate \in Fates,
             NEW outcome \in OutcomesOf(t), Write(t, size, outcome, fate)
      PROVE  /\ UNCHANGED <<config, now>>
             /\ pc = "idle" /\ next_sequence' = next_sequence + 1
  BY <1>5 DEF Write
<1>6. CASE Close
  BY <1>6 DEF Close
<1>7. ASSUME NEW fate \in Fates, SweepTopic(fate)
      PROVE  UNCHANGED <<config, now, last_sweep, next_sequence>>
  BY <1>7 DEF SweepTopic
<1>8. ASSUME NEW fate \in Fates, CloseTopic(fate)
      PROVE  UNCHANGED <<config, now, last_sweep, next_sequence>>
  BY <1>8 DEF CloseTopic
<1>9. CASE SweepDone
  BY <1>9 DEF SweepDone
<1>10. CASE CloseDone
  BY <1>10 DEF CloseDone
<1>11. CASE Tick
  BY <1>11 DEF Tick
<1>12. CASE \E name \in Names, kind \in Kinds : CreateTopic(name, kind)
  BY <1>1, <1>12
<1>13. CASE \E name \in Names, fate \in Fates : RemoveTopic(name, fate)
  BY <1>2, <1>13
<1>14. CASE \E t \in Slots : WriteRetired(t)
  BY <1>4, <1>14
<1>15. CASE \E t \in Slots, size \in Sizes, fate \in Fates :
               \E outcome \in OutcomesOf(t) : Write(t, size, outcome, fate)
  BY <1>5, <1>15
<1>16. CASE Step
  BY <1>7, <1>8, <1>9, <1>10, <1>16 DEF Step
<1> QED
  BY <1>3, <1>6, <1>11, <1>12, <1>13, <1>14, <1>15, <1>16 DEF Next, Call

\* A write that returns leaves rows within twice the limit.
LEMMA RowAgeAction ==
  ASSUME TypeOK, RowAgeInv, [Next]_vars
  PROVE  [ReturnsYoung]_vars
<1> SUFFICES ASSUME Next, WriteReturns, result' = "ok", config.max_latency > 0,
                    ~cut_short'
             PROVE  RowsYoung'
  BY DEF ReturnsYoung
<1>1. RowAgeInv' /\ TypeOK'
  BY RowAgeStep, TypeStep
<1>2. /\ now' \in Nat /\ last_sweep' \in Nat /\ config'.max_latency \in Nat
      /\ \A t \in Slots' : \A i \in DOMAIN Rows(t)' : Rows(t)'[i].at \in Nat
  <2>1. \A t \in Slots' : topics'[t] \in TopicState
    BY <1>1, ElementOfSeq DEF TypeOK, Slots
  <2>2. \A t \in Slots' : Rows(t)' \in Seq(Row)
    BY <2>1 DEF TopicState, PipelineState, Rows
  <2>3. \A t \in Slots' : \A i \in DOMAIN Rows(t)' : Rows(t)'[i] \in Row
    BY <2>2
  <2> QED
    BY <1>1, <2>3 DEF TypeOK, Row, RecordingConfig
<1>3. config' = config /\ pc' = "idle"
  BY StepLeaves DEF WriteReturns
\* A return that did not sweep was within the window of the last sweep; one
\* that did has just swept.
<1>4. now' - last_sweep' < config.max_latency
  <2>1. CASE pc = "sweep"
    <3>1. now' = now /\ last_sweep' = last_sweep /\ last_sweep = now
      BY <2>1, StepLeaves DEF RowAgeInv
    <3> QED
      BY <1>2, <1>3, <3>1
  <2>2. CASE pc # "sweep"
    <3>1. next_sequence' # next_sequence /\ pc = "idle"
      BY <2>2 DEF WriteReturns
    <3>2. now' = now
      BY <3>1, StepLeaves
    <3>3. SweepStaleTopics
      <4>1. ASSUME NEW t \in Slots, WriteRetired(t) PROVE SweepStaleTopics
        BY <4>1 DEF WriteRetired
      <4>2. ASSUME NEW t \in Slots, NEW size \in Sizes, NEW fate \in Fates,
                   NEW outcome \in OutcomesOf(t), Write(t, size, outcome, fate)
            PROVE  SweepStaleTopics
        BY <4>2 DEF Write, Return
      <4>3. ~WriteNoTopic
        BY DEF WriteNoTopic
      <4> QED
        BY <3>1, <4>1, <4>2, <4>3, StepLeaves
    <3>4. ~Elapsed(last_sweep) /\ last_sweep' = last_sweep
      BY <1>3, <3>3 DEF SweepStaleTopics
    <3>5. now \in Nat /\ last_sweep \in Nat /\ config.max_latency \in Nat
      BY RowTimes
    <3> QED
      BY <3>2, <3>4, <3>5 DEF Elapsed
  <2> QED
    BY <2>1, <2>2
<1>5. \A t \in Slots' : \A i \in DOMAIN Rows(t)' :
         last_sweep' - Rows(t)'[i].at < config.max_latency
  BY <1>1, <1>3 DEF RowAgeInv
<1>6. \A t \in Slots' : \A i \in DOMAIN Rows(t)' :
         now' - Rows(t)'[i].at < 2 * config.max_latency
  BY <1>2, <1>3, <1>4, <1>5
<1> QED
  BY <1>3, <1>6 DEF RowsYoung

\* Whatever fails, every row was buffered after its topic's last flush, and a
\* sweep leaves the topics it has passed only rows younger than max_latency.
THEOREM RowAgeInvAlways == Spec => []RowAgeInv
<1>1. Init => RowAgeInv
  BY DEF Init, RowAgeInv, Slots
<1>2. TypeOK /\ RowAgeInv /\ [Next]_vars => RowAgeInv'
  BY RowAgeStep
<1> QED
  BY <1>1, <1>2, TypeCorrect, PTL DEF Spec

\* Unless the last sweep was cut short, a write that returns Ok leaves no row that
\* has waited twice max_latency, on any topic: the bound config.rs and writer.rs
\* state, whatever failed before that sweep and whatever fails in this write.
THEOREM RowAgeBounded == Spec => RowAgeBound
<1>1. Init => RowAgeInv
  BY DEF Init, RowAgeInv, Slots
<1>2. TypeOK /\ RowAgeInv /\ [Next]_vars => RowAgeInv'
  BY RowAgeStep
<1>3. TypeOK /\ RowAgeInv /\ [Next]_vars => [ReturnsYoung]_vars
  BY RowAgeAction
<1> QED
  BY <1>1, <1>2, <1>3, TypeCorrect, PTL DEF Spec, RowAgeBound

-----------------------------------------------------------------------------
(* Order.  A flush of any cause moves the whole buffer of one topic behind    *)
(* what the file has of it, and a push puts the largest number so far behind  *)
(* the buffer.                                                                *)

OrderInv == RecordedInOrder /\ SequencesGiven

\* The numbers in the file and in the buffers are numbers.
LEMMA SequencesNat ==
  ASSUME TypeOK
  PROVE  /\ \A c \in DOMAIN file : \A s \in Sequences(file[c].rows) : s \in Nat
         /\ \A t \in Slots : \A s \in Sequences(Rows(t)) : s \in Nat
<1>1. \A c \in DOMAIN file : file[c] \in Chunk
  BY DEF TypeOK
<1>2. \A c \in DOMAIN file : file[c].rows \in Seq(StoredRow)
  BY <1>1 DEF Chunk
<1>3. \A c \in DOMAIN file : \A i \in DOMAIN file[c].rows : file[c].rows[i] \in StoredRow
  BY <1>2
<1>4. \A c \in DOMAIN file : \A s \in Sequences(file[c].rows) : s \in Nat
  BY <1>3 DEF StoredRow, Sequences
<1>5. \A t \in Slots : Rows(t) \in Seq(Row)
  BY SlotTypes DEF Rows, PipelineState
<1>6. \A t \in Slots : \A i \in DOMAIN Rows(t) : Rows(t)[i] \in Row
  BY <1>5
<1>7. \A t \in Slots : \A s \in Sequences(Rows(t)) : s \in Nat
  BY <1>6 DEF Row, Sequences
<1> QED
  BY <1>4, <1>7

\* When the file does not change, it is enough that what the buffers then hold is
\* in order and later than what the file has.
LEMMA OrderSameFile ==
  ASSUME TypeOK, RecordedInOrder, UNCHANGED file,
         \A u \in Slots' : Increasing(topics'[u].pipeline.rows),
         \A c \in DOMAIN file :
            \A r \in Sequences(file[c].rows),
               s \in Sequences(topics'[file[c].topic].pipeline.rows) : r < s
  PROVE  RecordedInOrder'
<1>1. \A c \in DOMAIN file : Increasing(file'[c].rows)
  BY DEF RecordedInOrder
<1>2. \A c, d \in DOMAIN file :
         c < d /\ file'[c].topic = file'[d].topic =>
           \A r \in Sequences(file'[c].rows), s \in Sequences(file'[d].rows) : r < s
  BY DEF RecordedInOrder
<1>3. DOMAIN file' = DOMAIN file
  OBVIOUS
<1> QED
  BY <1>1, <1>2, <1>3 DEF RecordedInOrder, Rows

\* A flush of rows that were in order, later than the file's rows of that
\* topic and numbered below n.
LEMMA OrderFlush ==
  ASSUME TypeOK, OrderInv, NEW t \in Slots, NEW topic \in TopicState, NEW fate,
         NEW n \in Nat, NEW flushed,
         Increasing(topic.pipeline.rows),
         \A s \in Sequences(topic.pipeline.rows) : s < n,
         \A c \in DOMAIN file : file[c].topic = t =>
            \A r \in Sequences(file[c].rows), s \in Sequences(topic.pipeline.rows) : r < s,
         next_sequence <= n, next_sequence' = n,
         flushed.pipeline.rows = <<>>,
         topics' = [topics EXCEPT ![t] = flushed],
         file' = Sent(t, topic, fate), UNCHANGED config
  PROVE  OrderInv'
<1> DEFINE p     == topic.pipeline
           chunk == TakeChunk(config, p, t, fate)
<1>1. /\ Slots' = Slots
      /\ \A u \in Slots : topics'[u] = IF u = t THEN flushed ELSE topics[u]
  BY SlotUpdate
<1>2. /\ \A u \in Slots \ {t} : Rows(u)' = Rows(u)
      /\ Rows(t)' = <<>>
  BY <1>1 DEF Rows
<1>3. p \in PipelineState
  BY DEF TopicState
<1>4. /\ chunk.topic = t /\ DOMAIN chunk.rows = DOMAIN p.rows
      /\ \A i \in DOMAIN p.rows : chunk.rows[i].sequence = p.rows[i].sequence
  BY DEF TakeChunk
<1>5. /\ SentColumns(config, p, fate) # {} => chunk \in Chunk
      /\ file \in Seq(Chunk)
  BY <1>3, SlotsAre, ConfigType, TakeChunkType DEF TypeOK
<1> HIDE DEF chunk
<1>6. Sequences(chunk.rows) = Sequences(p.rows) /\ Increasing(chunk.rows)
  BY <1>4 DEF Sequences, Increasing
<1>7. /\ next_sequence \in Nat
      /\ \A c \in DOMAIN file : \A s \in Sequences(file[c].rows) : s \in Nat
      /\ \A u \in Slots : \A s \in Sequences(Rows(u)) : s \in Nat
  BY SequencesNat DEF TypeOK
<1>8. CASE file' = file
  <2>1. \A u \in Slots : Increasing(topics'[u].pipeline.rows)
    BY <1>1 DEF OrderInv, RecordedInOrder, Increasing, Rows
  <2>2. \A u \in Slots : \A s \in Sequences(topics'[u].pipeline.rows) :
           s \in Sequences(Rows(u))
    BY <1>1 DEF Rows, Sequences
  <2>3. \A c \in DOMAIN file :
           \A r \in Sequences(file[c].rows),
              s \in Sequences(topics'[file[c].topic].pipeline.rows) : r < s
    BY <2>2 DEF OrderInv, RecordedInOrder, SequencesGiven
  <2>4. RecordedInOrder'
    BY <1>1, <1>8, <2>1, <2>3, OrderSameFile DEF OrderInv
  <2>5. SequencesGiven'
    <3>1. \A c \in DOMAIN file :
             file[c].topic \in Slots /\ \A s \in Sequences(file[c].rows) : s < n
      BY <1>7 DEF OrderInv, SequencesGiven
    <3>2. \A u \in Slots : \A s \in Sequences(topics'[u].pipeline.rows) : s < n
      BY <1>7, <2>2 DEF OrderInv, SequencesGiven
    <3> QED
      BY <1>1, <1>8, <3>1, <3>2 DEF SequencesGiven, Sequences, Rows
  <2> QED
    BY <2>4, <2>5 DEF OrderInv
<1>9. CASE file' = Append(file, chunk) /\ chunk \in Chunk
  <2> DEFINE m == Len(file) + 1
  <2>1. /\ Len(file) \in Nat /\ DOMAIN file = 1 .. Len(file) /\ DOMAIN file' = 1 .. m
        /\ \A c \in DOMAIN file : file'[c] = file[c]
        /\ file'[m] = chunk
    BY <1>5, <1>9, AppendProperties
  <2>2. \A c \in DOMAIN file' : c \in DOMAIN file \/ c = m
    BY <2>1
  <2>3. \A c \in DOMAIN file' : c \in DOMAIN file => c < m
    BY <2>1
  <2> HIDE DEF m
  <2>4. \A u \in Slots : Increasing(topics'[u].pipeline.rows)
    BY <1>1 DEF OrderInv, RecordedInOrder, Increasing, Rows
  <2>5. \A c \in DOMAIN file' : Increasing(file'[c].rows)
    BY <1>6, <2>1, <2>2 DEF OrderInv, RecordedInOrder
  <2>6. \A c, d \in DOMAIN file' :
           c < d /\ file'[c].topic = file'[d].topic =>
             \A r \in Sequences(file'[c].rows), s \in Sequences(file'[d].rows) : r < s
    <3> TAKE c, d \in DOMAIN file'
    <3> HAVE c < d /\ file'[c].topic = file'[d].topic
    <3> TAKE r \in Sequences(file'[c].rows), s \in Sequences(file'[d].rows)
    <3>1. CASE d \in DOMAIN file
      <4>1. c \in DOMAIN file
        BY <2>1, <2>2, <2>3, <3>1
      <4> QED
        BY <2>1, <3>1, <4>1 DEF OrderInv, RecordedInOrder
    <3>2. CASE d = m
      <4>1. c \in DOMAIN file
        BY <2>1, <2>2, <3>2
      <4>2. file[c].topic = t /\ r \in Sequences(file[c].rows) /\ s \in Sequences(p.rows)
        BY <1>4, <1>6, <2>1, <3>2, <4>1
      <4> QED
        BY <4>1, <4>2
    <3> QED
      BY <2>2, <3>1, <3>2
  <2>7. \A c \in DOMAIN file' :
           /\ file'[c].topic \in Slots
           /\ \A s \in Sequences(file'[c].rows) : s < n
           /\ \A r \in Sequences(file'[c].rows),
                 s \in Sequences(topics'[file'[c].topic].pipeline.rows) : r < s
    <3> TAKE c \in DOMAIN file'
    <3>1. CASE c \in DOMAIN file
      <4>1. file'[c] = file[c] /\ file[c].topic \in Slots
        BY <2>1, <3>1 DEF OrderInv, SequencesGiven
      <4>2. \A s \in Sequences(topics'[file'[c].topic].pipeline.rows) :
               s \in Sequences(Rows(file[c].topic))
        <5>1. CASE file[c].topic = t
          BY <1>1, <4>1, <5>1 DEF Sequences
        <5>2. CASE file[c].topic # t
          <6>1. Rows(file[c].topic)' = Rows(file[c].topic)
            BY <1>2, <4>1, <5>2
          <6> QED
            BY <4>1, <6>1 DEF Rows
        <5> QED
          BY <5>1, <5>2
      <4>3. \A s \in Sequences(file[c].rows) : s < n
        <5>1. \A s \in Sequences(file[c].rows) : s \in Nat /\ s < next_sequence
          BY <1>7, <3>1 DEF OrderInv, SequencesGiven
        <5> QED
          BY <1>7, <5>1
      <4> QED
        BY <3>1, <4>1, <4>2, <4>3 DEF OrderInv, RecordedInOrder
    <3>2. CASE c = m
      <4>1. file'[c] = chunk /\ topics'[t].pipeline.rows = <<>>
        BY <1>1, <2>1, <3>2
      <4>2. Sequences(topics'[t].pipeline.rows) = {}
        BY <4>1 DEF Sequences
      <4> QED
        BY <1>4, <1>6, <4>1, <4>2
    <3> QED
      BY <2>2, <3>1, <3>2
  <2>8. \A u \in Slots : \A s \in Sequences(topics'[u].pipeline.rows) : s < n
    <3>1. \A u \in Slots : \A s \in Sequences(topics'[u].pipeline.rows) :
             s \in Sequences(Rows(u))
      BY <1>1 DEF Rows, Sequences
    <3> QED
      BY <1>7, <3>1 DEF OrderInv, SequencesGiven
  <2>9. RecordedInOrder'
    <3>1. \A u \in Slots' : Increasing(Rows(u)')
      BY <1>1, <2>4 DEF Rows
    <3> QED
      BY <2>5, <2>6, <2>7, <3>1 DEF RecordedInOrder, Rows
  <2>10. SequencesGiven'
    BY <1>1, <2>7, <2>8 DEF SequencesGiven, Sequences, Rows
  <2> QED
    BY <2>9, <2>10 DEF OrderInv
<1>10. file' = file \/ (file' = Append(file, chunk) /\ chunk \in Chunk)
  BY <1>5 DEF Sent, chunk
<1> QED
  BY <1>8, <1>9, <1>10

\* What a topic holds now can be flushed in order.
LEMMA OrderHeld ==
  ASSUME TypeOK, OrderInv, NEW t \in Slots
  PROVE  /\ Increasing(Rows(t))
         /\ \A s \in Sequences(Rows(t)) : s < next_sequence
         /\ \A c \in DOMAIN file : file[c].topic = t =>
               \A r \in Sequences(file[c].rows), s \in Sequences(Rows(t)) : r < s
BY DEF OrderInv, RecordedInOrder, SequencesGiven

\* A flush of what a slot holds, with nothing pushed, keeps the order.
LEMMA OrderFlushHeld ==
  ASSUME TypeOK, OrderInv, NEW t \in Slots, NEW fate, NEW flushed,
         flushed.pipeline.rows = <<>>,
         topics' = [topics EXCEPT ![t] = flushed],
         file' = Sent(t, topics[t], fate), UNCHANGED <<config, next_sequence>>
  PROVE  OrderInv'
<1>1. PICK topic \in TopicState : topic = topics[t]
  BY SlotTypes
<1>2. Rows(t) = topic.pipeline.rows
  BY <1>1 DEF Rows
<1>3. PICK n \in Nat : n = next_sequence
  BY DEF TypeOK
<1>4. /\ Increasing(topic.pipeline.rows)
      /\ \A s \in Sequences(topic.pipeline.rows) : s < n
      /\ \A c \in DOMAIN file : file[c].topic = t =>
            \A r \in Sequences(file[c].rows), s \in Sequences(topic.pipeline.rows) : r < s
  BY <1>2, <1>3, OrderHeld
<1>5. next_sequence <= n /\ next_sequence' = n
  BY <1>3
<1> QED
  BY <1>1, <1>4, <1>5, OrderFlush

\* A topic that was pushed to is in order, behind what the file has of it.
LEMMA OrderPushed ==
  ASSUME TypeOK, OrderInv, NEW t \in Slots, NEW size \in Nat,
         NEW outcome \in DecodeOutcome,
         NEW rows, rows = Pushed(t, size, outcome).pipeline.rows
  PROVE  /\ Increasing(rows)
         /\ \A s \in Sequences(rows) : s < next_sequence + 1
         /\ \A c \in DOMAIN file : file[c].topic = t =>
               \A r \in Sequences(file[c].rows), s \in Sequences(rows) : r < s
<1>1. \A i \in DOMAIN rows :
         \/ i \in DOMAIN Rows(t) /\ i < Len(rows) /\ rows[i] = Rows(t)[i]
         \/ i = Len(rows) /\ rows[i].sequence = next_sequence
  BY PushedRows
<1>2. rows \in Seq(Row)
  BY PushedType DEF TopicState, PipelineState
<1>3. DOMAIN rows = 1 .. Len(rows) /\ Len(rows) \in Nat /\ next_sequence \in Nat
  BY <1>2 DEF TypeOK
<1>4. \A i \in DOMAIN rows : rows[i] \in Row
  BY <1>2
<1>5. \A i \in DOMAIN rows : rows[i].sequence \in Nat
  BY <1>4 DEF Row
<1>6. \A i \in DOMAIN Rows(t) : Rows(t)[i].sequence < next_sequence
  BY OrderHeld DEF Sequences
<1>7. \A i \in DOMAIN rows : i < Len(rows) => rows[i].sequence < next_sequence
  BY <1>1, <1>3, <1>6
<1>8. ASSUME NEW i \in DOMAIN rows, NEW j \in DOMAIN rows, i < j
      PROVE  rows[i].sequence < rows[j].sequence
  <2>1. i < Len(rows)
    BY <1>3, <1>8
  <2>2. CASE j = Len(rows) /\ rows[j].sequence = next_sequence
    BY <1>7, <2>1, <2>2
  <2>3. CASE j \in DOMAIN Rows(t) /\ rows[j] = Rows(t)[j]
    <3>1. i \in DOMAIN Rows(t) /\ rows[i] = Rows(t)[i]
      BY <1>1, <1>3, <2>1
    <3> QED
      BY <1>8, <2>3, <3>1, OrderHeld DEF Increasing
  <2> QED
    BY <1>1, <2>2, <2>3
<1>9. \A i \in DOMAIN rows : rows[i].sequence < next_sequence + 1
  BY <1>1, <1>3, <1>5, <1>7
<1>10. ASSUME NEW c \in DOMAIN file, file[c].topic = t,
              NEW r \in Sequences(file[c].rows), NEW i \in DOMAIN rows
       PROVE  r < rows[i].sequence
  <2>1. CASE i \in DOMAIN Rows(t) /\ rows[i] = Rows(t)[i]
    BY <1>10, <2>1, OrderHeld DEF Sequences
  <2>2. CASE rows[i].sequence = next_sequence
    BY <1>10, <2>2 DEF OrderInv, SequencesGiven
  <2> QED
    BY <1>1, <2>1, <2>2
<1> QED
  BY <1>8, <1>9, <1>10 DEF Increasing, Sequences

\* A step that leaves buffers and the file alone and only moves the counter on.
LEMMA OrderKept ==
  ASSUME TypeOK, OrderInv, UNCHANGED <<topics, file, config>>,
         next_sequence' = next_sequence \/ next_sequence' = next_sequence + 1
  PROVE  OrderInv'
<1>1. RecordedInOrder'
  BY DEF OrderInv, RecordedInOrder, Increasing, Sequences, Rows, Slots
<1>2. \A s : s \in Nat /\ s < next_sequence => s < next_sequence'
  BY DEF TypeOK
<1>3. SequencesGiven'
  <2>1. \A c \in DOMAIN file : \A s \in Sequences(file[c].rows) : s < next_sequence'
    BY <1>2, SequencesNat DEF OrderInv, SequencesGiven
  <2>2. \A t \in Slots : \A s \in Sequences(Rows(t)) : s < next_sequence'
    BY <1>2, SequencesNat DEF OrderInv, SequencesGiven
  <2> QED
    BY <2>1, <2>2 DEF OrderInv, SequencesGiven, Sequences, Rows, Slots
<1> QED
  BY <1>1, <1>3 DEF OrderInv

\* Every step keeps the order.
LEMMA OrderStep ==
  ASSUME TypeOK, OrderInv, [Next]_vars
  PROVE  OrderInv'
<1>0. next_sequence \in Nat
  BY DEF TypeOK
<1>1. CASE UNCHANGED vars
  BY <1>1, OrderKept DEF vars
<1>2. ASSUME NEW name \in Names, NEW kind \in Kinds, CreateTopic(name, kind)
      PROVE  OrderInv'
  <2>1. PICK n \in Nat : n = Len(topics) + 1
    BY SlotsAre
  <2>2. /\ topics' = Append(topics, NewTopic(kind))
        /\ UNCHANGED <<file, config, next_sequence>>
    BY <1>2 DEF CreateTopic
  <2>3. Slots' = Slots \union {n} /\ n \notin Slots
    BY <2>1, <2>2, SlotsAre, AppendProperties DEF Slots, TypeOK
  <2>4. \A u \in Slots : topics'[u] = topics[u]
    BY <2>2, SlotsAre DEF TypeOK
  <2>5. topics'[n].pipeline.rows = <<>>
    BY <2>1, <2>2, SlotsAre DEF TypeOK, NewTopic, NewPipeline
  <2>6. RecordedInOrder'
    <3>1. \A u \in Slots' : Increasing(topics'[u].pipeline.rows)
      BY <2>3, <2>4, <2>5 DEF OrderInv, RecordedInOrder, Increasing, Rows
    <3>2. \A c \in DOMAIN file :
             \A r \in Sequences(file[c].rows),
                s \in Sequences(topics'[file[c].topic].pipeline.rows) : r < s
      BY <2>4 DEF OrderInv, RecordedInOrder, SequencesGiven, Rows, Sequences
    <3>3. file' = file
      BY <2>2
    <3> QED
      BY <3>1, <3>2, <3>3, OrderSameFile DEF OrderInv
  <2>7. SequencesGiven'
    <3>1. \A u \in Slots' : \A s \in Sequences(topics'[u].pipeline.rows) : s < next_sequence
      <4>1. Sequences(topics'[n].pipeline.rows) = {}
        BY <2>5 DEF Sequences
      <4> QED
        BY <2>3, <2>4, <4>1 DEF OrderInv, SequencesGiven, Rows
    <3>2. \A c \in DOMAIN file :
             /\ file[c].topic \in Slots
             /\ \A s \in Sequences(file[c].rows) : s < next_sequence
      BY DEF OrderInv, SequencesGiven
    <3>3. file' = file /\ next_sequence' = next_sequence
      BY <2>2
    <3>4. \A u : Sequences(Rows(u))' = Sequences(topics'[u].pipeline.rows)
      BY DEF Rows, Sequences
    <3>5. \A c : Sequences(file[c].rows)' = Sequences(file[c].rows)
      BY <3>3 DEF Sequences
    <3> HIDE DEF OrderInv
    <3> QED
      BY <2>3, <3>1, <3>2, <3>3, <3>4, <3>5 DEF SequencesGiven
  <2> QED
    BY <2>6, <2>7 DEF OrderInv
<1>3. ASSUME NEW name \in Names, NEW fate \in Fates, RemoveTopic(name, fate)
      PROVE  OrderInv'
  <2> DEFINE t == topic_ids[name]
             flushed == [Flushed(topics[t]) EXCEPT !.retired = (fate # "unbuilt")]
  <2>1. t \in Slots
    BY <1>3, SlotsAre DEF RemoveTopic, NoTopic, TypeOK
  <2>2. topics[t] \in TopicState
    BY <2>1, SlotTypes
  <2>3. flushed.pipeline.rows = <<>>
    BY <2>2, FlushedType DEF TopicState
  <2>4. /\ topics' = [topics EXCEPT ![t] = flushed]
        /\ file' = Sent(t, topics[t], fate)
        /\ UNCHANGED <<config, next_sequence>>
    BY <1>3 DEF RemoveTopic
  <2> HIDE DEF t, flushed
  <2> QED
    BY <1>0, <2>1, <2>2, <2>3, <2>4, OrderFlushHeld
<1>4. CASE WriteNoTopic
  BY <1>4, OrderKept DEF WriteNoTopic
<1>5. ASSUME NEW t \in Slots, WriteRetired(t)
      PROVE  OrderInv'
  BY <1>5, OrderKept DEF WriteRetired
<1>6. ASSUME NEW t \in Slots, NEW size \in Sizes, NEW fate \in Fates,
             NEW outcome \in OutcomesOf(t), Write(t, size, outcome, fate)
      PROVE  OrderInv'
  <2>1. size \in Nat /\ outcome \in DecodeOutcome
    BY DEF OutcomesOf
  <2>2. PICK topic : topic = Pushed(t, size, outcome)
    OBVIOUS
  <2>3. topic \in TopicState /\ topic.pipeline.rows \in Seq(Row)
    BY <2>1, <2>2, PushedType DEF TopicState, PipelineState
  <2>4. PICK rows : rows = topic.pipeline.rows
    OBVIOUS
  <2>5. /\ Increasing(rows)
        /\ \A s \in Sequences(rows) : s < next_sequence + 1
        /\ \A c \in DOMAIN file : file[c].topic = t =>
              \A r \in Sequences(file[c].rows), s \in Sequences(rows) : r < s
    BY <2>1, <2>2, <2>4, OrderPushed
  <2>6. next_sequence' = next_sequence + 1 /\ UNCHANGED config
    BY <1>6 DEF Write
  <2>7. CASE ShouldFlush(topic)
    <3>1. /\ topics' = [topics EXCEPT ![t] = Flushed(topic)]
          /\ file' = Sent(t, topic, fate)
      BY <1>6, <2>2, <2>7 DEF Write, Flush
    <3>2. Flushed(topic).pipeline.rows = <<>>
      BY <2>3, FlushedType
    <3>3. next_sequence + 1 \in Nat /\ next_sequence <= next_sequence + 1
      BY <1>0
    <3> QED
      BY <2>3, <2>4, <2>5, <2>6, <3>1, <3>2, <3>3, OrderFlush
  <2>8. CASE ~ShouldFlush(topic)
    <3>1. topics' = [topics EXCEPT ![t] = topic] /\ UNCHANGED file
      BY <1>6, <2>2, <2>8 DEF Write
    <3>2. /\ Slots' = Slots
          /\ \A u \in Slots : topics'[u] = IF u = t THEN topic ELSE topics[u]
      BY <3>1, SlotUpdate
    <3>3. \A u \in Slots : Increasing(topics'[u].pipeline.rows)
      BY <2>4, <2>5, <3>2, OrderHeld DEF Rows
    <3>4. ASSUME NEW c \in DOMAIN file, NEW r \in Sequences(file[c].rows),
                 NEW s \in Sequences(topics'[file[c].topic].pipeline.rows)
          PROVE  r < s
      <4>1. CASE file[c].topic = t
        BY <2>4, <2>5, <3>2, <4>1
      <4>2. CASE file[c].topic # t
        BY <3>2, <4>2 DEF OrderInv, RecordedInOrder, SequencesGiven, Rows
      <4> QED
        BY <4>1, <4>2
    <3>5. RecordedInOrder'
      BY <3>1, <3>2, <3>3, <3>4, OrderSameFile DEF OrderInv
    <3>6. ASSUME NEW u \in Slots, NEW s \in Sequences(topics'[u].pipeline.rows)
          PROVE  s < next_sequence + 1
      <4>1. CASE u = t
        BY <2>4, <2>5, <3>2, <4>1
      <4>2. CASE u # t
        <5>1. s \in Sequences(Rows(u))
          BY <3>2, <4>2 DEF Rows
        <5> QED
          BY <1>0, <5>1, OrderHeld, SequencesNat
      <4> QED
        BY <4>1, <4>2
    <3>7. \A c \in DOMAIN file :
             file[c].topic \in Slots /\ \A s \in Sequences(file[c].rows) : s < next_sequence + 1
      BY <1>0, SequencesNat DEF OrderInv, SequencesGiven
    <3>8. SequencesGiven'
      BY <2>6, <3>1, <3>2, <3>6, <3>7 DEF SequencesGiven, Rows, Sequences
    <3> QED
      BY <3>5, <3>8 DEF OrderInv
  <2> QED
    BY <2>7, <2>8
<1>7. CASE Close
  BY <1>7, OrderKept DEF Close
<1>8. ASSUME NEW fate \in Fates, SweepTopic(fate)
      PROVE  OrderInv'
  <2> DEFINE stale == Elapsed(topics[at].last_flush) /\ topics[at].pipeline.rows # <<>>
  <2>1. at \in Slots /\ topics[at] \in TopicState
    BY <1>8, SlotsAre, SlotTypes DEF SweepTopic, TypeOK
  <2>2. UNCHANGED <<config, next_sequence>>
    BY <1>8 DEF SweepTopic
  <2>3. CASE stale
    <3>1. /\ topics' = [topics EXCEPT ![at] = Flushed(topics[at])]
          /\ file' = Sent(at, topics[at], fate)
      BY <1>8, <2>3 DEF SweepTopic, Flush
    <3>2. Flushed(topics[at]).pipeline.rows = <<>>
      BY <2>1, FlushedType
    <3> QED
      BY <1>0, <2>1, <2>2, <3>1, <3>2, OrderFlushHeld
  <2>4. CASE ~stale
    BY <1>8, <2>2, <2>4, OrderKept DEF SweepTopic
  <2> QED
    BY <2>3, <2>4
<1>9. ASSUME NEW fate \in Fates, CloseTopic(fate)
      PROVE  OrderInv'
  <2>1. at \in Slots /\ topics[at] \in TopicState
    BY <1>9, SlotsAre, SlotTypes DEF CloseTopic, TypeOK
  <2>2. /\ topics' = [topics EXCEPT ![at] = Flushed(topics[at])]
        /\ file' = Sent(at, topics[at], fate)
        /\ UNCHANGED <<config, next_sequence>>
    BY <1>9 DEF CloseTopic, Flush
  <2>3. Flushed(topics[at]).pipeline.rows = <<>>
    BY <2>1, FlushedType
  <2> QED
    BY <1>0, <2>1, <2>2, <2>3, OrderFlushHeld
<1>10. CASE SweepDone
  BY <1>10, OrderKept DEF SweepDone
<1>11. CASE CloseDone
  BY <1>11, OrderKept DEF CloseDone
<1>12. CASE Tick
  BY <1>12, OrderKept DEF Tick
<1> QED
  BY <1>1, <1>2, <1>3, <1>4, <1>5, <1>6, <1>7, <1>8, <1>9, <1>10, <1>11, <1>12
     DEF Next, Call, Step

\* The order, with what makes it inductive, holds at all times.
LEMMA OrderAlways == Spec => []OrderInv
<1>1. Init => OrderInv
  BY DEF Init, OrderInv, RecordedInOrder, SequencesGiven, Slots
<1>2. TypeOK /\ OrderInv /\ [Next]_vars => OrderInv'
  BY OrderStep
<1> QED
  BY <1>1, <1>2, TypeCorrect, PTL DEF Spec

\* Whatever fails and whichever limit, sweep, removal or close flushes a topic,
\* its messages reach the file in the order they were written and at most once.
THEOREM RecordedInOrderAlways == Spec => []RecordedInOrder
<1>1. OrderInv => RecordedInOrder
  BY DEF OrderInv
<1> QED
  BY <1>1, OrderAlways, PTL

-----------------------------------------------------------------------------
(* Closing.  The loop of Writer::close has left every topic before the one it *)
(* is at without rows, so once it is through no topic has any.                *)

ClosedEmpty ==
    /\ pc = "close" => \A t \in Slots : t < at => Rows(t) = <<>>
    /\ pc = "closed" => \A t \in Slots : Rows(t) = <<>>

\* No call but close gets anywhere near it.
LEMMA NotClosing ==
  ASSUME [Next]_vars, pc' \in {"close", "closed"}
  PROVE  \/ Close \/ CloseDone \/ UNCHANGED vars
         \/ \E fate \in Fates : CloseTopic(fate)
<1>1. SweepStaleTopics => pc' \notin {"close", "closed"}
  BY DEF SweepStaleTopics, Return
<1>2. \A r : Return(r) => pc' \notin {"close", "closed"}
  BY DEF Return
<1>3. ASSUME NEW name \in Names, NEW kind \in Kinds PROVE ~CreateTopic(name, kind)
  BY DEF CreateTopic
<1>4. ASSUME NEW name \in Names, NEW fate \in Fates PROVE ~RemoveTopic(name, fate)
  BY DEF RemoveTopic
<1>5. ~WriteNoTopic /\ ~Tick
  BY DEF WriteNoTopic, Tick
<1>6. ASSUME NEW t \in Slots PROVE ~WriteRetired(t)
  BY <1>1 DEF WriteRetired
<1>7. ASSUME NEW t \in Slots, NEW size \in Sizes, NEW fate \in Fates,
             NEW outcome \in OutcomesOf(t)
      PROVE  ~Write(t, size, outcome, fate)
  BY <1>1, <1>2 DEF Write
<1>8. ASSUME NEW fate \in Fates PROVE ~SweepTopic(fate)
  BY <1>2 DEF SweepTopic
<1>9. ~SweepDone
  BY <1>2 DEF SweepDone
<1> QED
  BY <1>3, <1>4, <1>5, <1>6, <1>7, <1>8, <1>9 DEF Next, Call, Step

\* Every step keeps the topics a close is through with empty.
LEMMA ClosedEmptyStep ==
  ASSUME TypeOK, ClosedEmpty, [Next]_vars
  PROVE  ClosedEmpty'
<1> SUFFICES ASSUME pc' \in {"close", "closed"} PROVE ClosedEmpty'
  BY DEF ClosedEmpty
<1>1. CASE Close
  <2>1. pc' = "close" /\ at' = 1 /\ Slots' = Slots
    BY <1>1 DEF Close, Slots
  <2>2. \A t \in Slots : ~(t < 1)
    BY SlotsAre
  <2> QED
    BY <2>1, <2>2 DEF ClosedEmpty
<1>2. CASE CloseDone
  <2>1. pc = "close" /\ pc' = "closed" /\ at > Len(topics) /\ UNCHANGED topics
    BY <1>2 DEF CloseDone
  <2>2. \A t \in Slots : t < at
    BY <2>1, SlotsAre DEF TypeOK
  <2>3. \A t \in Slots : Rows(t) = <<>>
    BY <2>1, <2>2 DEF ClosedEmpty
  <2> QED
    BY <2>1, <2>3 DEF ClosedEmpty, Rows, Slots
<1>3. ASSUME NEW fate \in Fates, CloseTopic(fate)
      PROVE  ClosedEmpty'
  <2>1. /\ pc = "close" /\ pc' = "close" /\ at' = at + 1
        /\ topics' = [topics EXCEPT ![at] = Flushed(topics[at])]
    BY <1>3 DEF CloseTopic, Flush
  <2>2. at \in Slots
    BY <1>3, SlotsAre DEF CloseTopic, TypeOK
  <2>3. Flushed(topics[at]).pipeline.rows = <<>>
    BY <2>2, SlotTypes, FlushedType
  <2>4. /\ Slots' = Slots
        /\ \A u \in Slots : topics'[u] = IF u = at THEN Flushed(topics[at]) ELSE topics[u]
    BY <2>1, <2>2, SlotUpdate
  <2>5. ASSUME NEW t \in Slots, t < at + 1 PROVE Rows(t)' = <<>>
    <3>1. CASE t = at
      BY <2>3, <2>4, <3>1 DEF Rows
    <3>2. CASE t # at
      <4>1. t < at
        BY <2>2, <2>5, <3>2, SlotsAre
      <4> QED
        BY <2>1, <2>4, <3>2, <4>1 DEF ClosedEmpty, Rows
    <3> QED
      BY <3>1, <3>2
  <2> QED
    BY <2>1, <2>4, <2>5 DEF ClosedEmpty
<1>4. CASE UNCHANGED vars
  BY <1>4 DEF vars, ClosedEmpty, Rows, Slots
<1> QED
  BY <1>1, <1>2, <1>3, <1>4, NotClosing

-----------------------------------------------------------------------------
(* Slots between calls.  Every step leaves the slots alone, appends an empty  *)
(* one, or replaces one: by a flushed topic, or by one a message was pushed   *)
(* to that is not due.  Either is within the limits, so the bound needs no    *)
(* more than the type.                                                        *)

WithinLimits(topic) ==
    /\ config.max_rows > 0 => Len(topic.pipeline.rows) < config.max_rows
    /\ config.max_bytes > 0 => topic.pipeline.bytes < config.max_bytes

\* A topic no call leaves in a state it should not: within its limits, and
\* empty once it is retired.
Settled(topic) ==
    /\ WithinLimits(topic)
    /\ topic.retired => topic.pipeline.rows = <<>>

SlotsSettled == \A t \in Slots : Settled(topics[t])

\* A topic without rows is within its limits.
LEMMA EmptySettled ==
  ASSUME TypeOK, NEW topic, topic.pipeline.rows = <<>>, topic.pipeline.bytes = 0
  PROVE  Settled(topic)
<1>1. Len(topic.pipeline.rows) = 0
  OBVIOUS
<1> QED
  BY <1>1, ConfigType DEF Settled, WithinLimits, RecordingConfig

\* So is a topic that was just flushed.
LEMMA FlushedSettled ==
  ASSUME TypeOK, NEW topic \in TopicState
  PROVE  Settled(Flushed(topic))
<1>1. Flushed(topic).pipeline = Emptied(topic.pipeline)
  BY DEF Flushed, TopicState
<1>2. Emptied(topic.pipeline).rows = <<>> /\ Emptied(topic.pipeline).bytes = 0
  BY DEF Emptied, TopicState, PipelineState
<1> QED
  BY <1>1, <1>2, EmptySettled

\* A message that leaves its topic not due leaves it within the limits.
LEMMA PushedSettled ==
  ASSUME TypeOK, NEW t \in Slots, NEW size \in Nat, NEW outcome \in DecodeOutcome,
         ~topics[t].retired, ~ShouldFlush(Pushed(t, size, outcome))
  PROVE  Settled(Pushed(t, size, outcome))
<1>1. PICK topic : topic = Pushed(t, size, outcome)
  OBVIOUS
<1>2. topic \in TopicState /\ topic.retired = topics[t].retired
  BY <1>1, PushedType, PushedRows
<1>3. topic.pipeline.rows # <<>>
  <2>1. topics[t] \in TopicState /\ topics[t].pipeline \in PipelineState
    BY SlotTypes
  <2>2. config \in RecordingConfig /\ next_sequence \in Nat /\ now \in Nat
    BY ConfigType DEF TypeOK
  <2>3. Push(config, topics[t].pipeline, next_sequence, now, size, outcome).rows # <<>>
    BY <2>1, <2>2, PushHolds
  <2>4. topic.pipeline = Push(config, topics[t].pipeline, next_sequence, now, size, outcome)
    BY <1>1, <2>1 DEF Pushed, TopicState
  <2> QED
    BY <2>3, <2>4
<1>4. topic.pipeline.rows \in Seq(Row) /\ topic.pipeline.bytes \in Nat
  BY <1>2 DEF TopicState, PipelineState
<1>5. WithinLimits(topic)
  BY <1>1, <1>3, <1>4, ConfigType DEF WithinLimits, ShouldFlush, RecordingConfig
<1> QED
  BY <1>1, <1>2, <1>5 DEF Settled

\* Writing one slot keeps the slots within limits if that one is.
LEMMA SettledUpdate ==
  ASSUME TypeOK, SlotsSettled, NEW t \in Slots, NEW topic, Settled(topic),
         topics' = [topics EXCEPT ![t] = topic], UNCHANGED config
  PROVE  SlotsSettled'
<1>1. /\ Slots' = Slots
      /\ \A u \in Slots : topics'[u] = IF u = t THEN topic ELSE topics[u]
  BY SlotUpdate
<1> QED
  BY <1>1 DEF SlotsSettled, Settled, WithinLimits

\* A step that leaves the slots and the configuration keeps them so.
LEMMA SettledKept ==
  ASSUME SlotsSettled, UNCHANGED <<topics, config>>
  PROVE  SlotsSettled'
BY DEF SlotsSettled, Settled, WithinLimits, Slots

\* Every step keeps the slots within limits.
LEMMA SettledStep ==
  ASSUME TypeOK, SlotsSettled, [Next]_vars
  PROVE  SlotsSettled'
<1>1. CASE UNCHANGED vars
  BY <1>1, SettledKept DEF vars
<1>2. ASSUME NEW name \in Names, NEW kind \in Kinds, CreateTopic(name, kind)
      PROVE  SlotsSettled'
  <2>1. PICK n \in Nat : n = Len(topics) + 1
    BY SlotsAre
  <2>2. topics' = Append(topics, NewTopic(kind)) /\ UNCHANGED config
    BY <1>2 DEF CreateTopic
  <2>3. Slots' = Slots \union {n} /\ topics'[n] = NewTopic(kind)
    BY <2>1, <2>2, SlotsAre, AppendProperties DEF Slots, TypeOK
  <2>4. \A u \in Slots : topics'[u] = topics[u]
    BY <2>2, SlotsAre DEF TypeOK
  <2>5. Settled(NewTopic(kind))
    BY EmptySettled DEF NewTopic, NewPipeline
  <2> QED
    BY <2>2, <2>3, <2>4, <2>5 DEF SlotsSettled, Settled, WithinLimits
<1>3. ASSUME NEW name \in Names, NEW fate \in Fates, RemoveTopic(name, fate)
      PROVE  SlotsSettled'
  <2>1. PICK t : t = topic_ids[name]
    OBVIOUS
  <2>2. t \in Slots /\ topics[t] \in TopicState
    BY <1>3, <2>1, SlotsAre, SlotTypes DEF RemoveTopic, NoTopic, TypeOK
  <2>3. PICK topic : topic = [Flushed(topics[t]) EXCEPT !.retired = (fate # "unbuilt")]
    OBVIOUS
  <2>4. topic.pipeline.rows = <<>> /\ topic.pipeline.bytes = 0
    BY <2>2, <2>3 DEF Flushed, Emptied, TopicState, PipelineState
  <2>5. topics' = [topics EXCEPT ![t] = topic] /\ UNCHANGED config
    BY <1>3, <2>1, <2>3 DEF RemoveTopic
  <2> QED
    BY <2>2, <2>4, <2>5, EmptySettled, SettledUpdate
<1>4. CASE WriteNoTopic
  BY <1>4, SettledKept DEF WriteNoTopic
<1>5. ASSUME NEW t \in Slots, WriteRetired(t)
      PROVE  SlotsSettled'
  BY <1>5, SettledKept DEF WriteRetired
<1>6. ASSUME NEW t \in Slots, NEW size \in Sizes, NEW fate \in Fates,
             NEW outcome \in OutcomesOf(t), Write(t, size, outcome, fate)
      PROVE  SlotsSettled'
  <2>1. size \in Nat /\ outcome \in DecodeOutcome
    BY DEF OutcomesOf
  <2>2. PICK topic : topic = Pushed(t, size, outcome)
    OBVIOUS
  <2>3. topic \in TopicState
    BY <2>1, <2>2, PushedType
  <2>4. ~topics[t].retired /\ UNCHANGED config
    BY <1>6 DEF Write
  <2>5. CASE ShouldFlush(topic)
    <3>1. topics' = [topics EXCEPT ![t] = Flushed(topic)]
      BY <1>6, <2>2, <2>5 DEF Write, Flush
    <3> QED
      BY <2>3, <2>4, <3>1, FlushedSettled, SettledUpdate
  <2>6. CASE ~ShouldFlush(topic)
    <3>1. topics' = [topics EXCEPT ![t] = topic]
      BY <1>6, <2>2, <2>6 DEF Write
    <3>2. Settled(topic)
      BY <2>1, <2>2, <2>4, <2>6, PushedSettled
    <3> QED
      BY <2>4, <3>1, <3>2, SettledUpdate
  <2> QED
    BY <2>5, <2>6
<1>7. CASE Close
  BY <1>7, SettledKept DEF Close
<1>8. ASSUME NEW fate \in Fates, SweepTopic(fate)
      PROVE  SlotsSettled'
  <2>1. at \in Slots /\ topics[at] \in TopicState
    BY <1>8, SlotsAre, SlotTypes DEF SweepTopic, TypeOK
  <2>2. /\ UNCHANGED config
        /\ \/ topics' = [topics EXCEPT ![at] = Flushed(topics[at])]
           \/ UNCHANGED topics
    BY <1>8 DEF SweepTopic, Flush
  <2> QED
    BY <2>1, <2>2, FlushedSettled, SettledUpdate, SettledKept
<1>9. ASSUME NEW fate \in Fates, CloseTopic(fate)
      PROVE  SlotsSettled'
  <2>1. at \in Slots /\ topics[at] \in TopicState
    BY <1>9, SlotsAre, SlotTypes DEF CloseTopic, TypeOK
  <2>2. topics' = [topics EXCEPT ![at] = Flushed(topics[at])] /\ UNCHANGED config
    BY <1>9 DEF CloseTopic, Flush
  <2> QED
    BY <2>1, <2>2, FlushedSettled, SettledUpdate
<1>10. CASE SweepDone
  BY <1>10, SettledKept DEF SweepDone
<1>11. CASE CloseDone
  BY <1>11, SettledKept DEF CloseDone
<1>12. CASE Tick
  BY <1>12, SettledKept DEF Tick
<1> QED
  BY <1>1, <1>2, <1>3, <1>4, <1>5, <1>6, <1>7, <1>8, <1>9, <1>10, <1>11, <1>12
     DEF Next, Call, Step

\* Slots are within their limits at all times.
LEMMA SlotsAlwaysSettled == Spec => []SlotsSettled
<1>1. Init => SlotsSettled
  BY DEF Init, SlotsSettled, Slots
<1>2. TypeOK /\ SlotsSettled /\ [Next]_vars => SlotsSettled'
  BY SettledStep
<1> QED
  BY <1>1, <1>2, TypeCorrect, PTL DEF Spec

\* No call of the writer, whatever fails in it, leaves a topic holding as many
\* rows or bytes as the recording's limits.
THEOREM BufferBoundsAlways == Spec => []BufferBounds
<1>1. SlotsSettled => BufferBounds
  BY DEF SlotsSettled, Settled, WithinLimits, BufferBounds, Rows
<1> QED
  BY <1>1, SlotsAlwaysSettled, PTL

-----------------------------------------------------------------------------
(* Names.  Only remove_topic retires a slot, and it takes back the one name   *)
(* that led there; only create_topic hands one out, and it is a new slot.     *)

NamesLive ==
    /\ \A n \in Names : topic_ids[n] # NoTopic => ~topics[topic_ids[n]].retired
    /\ \A m, n \in Names :
          topic_ids[m] = topic_ids[n] /\ topic_ids[m] # NoTopic => m = n

\* A name in use leads to a slot.
LEMMA NameSlot ==
  ASSUME TypeOK, NEW n \in Names
  PROVE  topic_ids[n] \in Slots \union {NoTopic} /\ topic_ids[n] \in Nat
BY SlotsAre DEF TypeOK, NoTopic

\* A step that changes no name and retires no slot keeps what names lead to.
LEMMA NamesKept ==
  ASSUME TypeOK, NamesLive, UNCHANGED topic_ids,
         Slots' = Slots, \A u \in Slots : topics'[u].retired = topics[u].retired
  PROVE  NamesLive'
BY NameSlot DEF NamesLive

\* Replacing a slot by one retired like it keeps what names lead to.
LEMMA NamesReplaced ==
  ASSUME TypeOK, NamesLive, UNCHANGED topic_ids, NEW t \in Slots, NEW topic,
         topics' = [topics EXCEPT ![t] = topic], topic.retired = topics[t].retired
  PROVE  NamesLive'
<1>1. /\ Slots' = Slots
      /\ \A u \in Slots : topics'[u] = IF u = t THEN topic ELSE topics[u]
  BY SlotUpdate
<1>2. \A u \in Slots : topics'[u].retired = topics[u].retired
  BY <1>1
<1> QED
  BY <1>1, <1>2, NamesKept

\* Every step keeps what names lead to.
LEMMA NamesStep ==
  ASSUME TypeOK, NamesLive, [Next]_vars
  PROVE  NamesLive'
<1>1. ASSUME UNCHANGED <<topics, topic_ids>> PROVE NamesLive'
  BY <1>1 DEF NamesLive
<1>2. ASSUME NEW name \in Names, NEW kind \in Kinds, CreateTopic(name, kind)
      PROVE  NamesLive'
  <2>1. PICK new \in Nat : new = Len(topics) + 1
    BY SlotsAre
  <2>2. /\ topics' = Append(topics, NewTopic(kind))
        /\ topic_ids' = [topic_ids EXCEPT ![name] = new]
    BY <1>2, <2>1 DEF CreateTopic
  <2>3. new \notin Slots /\ new # NoTopic
    BY <2>1, SlotsAre DEF NoTopic
  <2>4. ~topics'[new].retired /\ \A u \in Slots : topics'[u] = topics[u]
    BY <2>1, <2>2, SlotsAre DEF NewTopic, TypeOK
  <2>5. \A n \in Names : topic_ids'[n] = IF n = name THEN new ELSE topic_ids[n]
    BY <2>2 DEF TypeOK
  <2> QED
    BY <2>3, <2>4, <2>5, NameSlot DEF NamesLive
<1>3. ASSUME NEW name \in Names, NEW fate \in Fates, RemoveTopic(name, fate)
      PROVE  NamesLive'
  <2>1. topic_ids[name] \in Slots
    BY <1>3, NameSlot DEF RemoveTopic
  <2>2. \A u \in Slots : u # topic_ids[name] => topics'[u] = topics[u]
    BY <1>3, <2>1, SlotUpdate DEF RemoveTopic
  <2>3. \A n \in Names : topic_ids'[n] = IF n = name THEN NoTopic ELSE topic_ids[n]
    BY <1>3 DEF RemoveTopic, TypeOK
  <2>4. topic_ids[name] # NoTopic
    BY <1>3 DEF RemoveTopic
  <2> QED
    BY <2>2, <2>3, <2>4, NameSlot DEF NamesLive
<1>4. ASSUME NEW t \in Slots, NEW size \in Sizes, NEW fate \in Fates,
             NEW outcome \in OutcomesOf(t), Write(t, size, outcome, fate)
      PROVE  NamesLive'
  <2>1. size \in Nat /\ outcome \in DecodeOutcome
    BY DEF OutcomesOf
  <2>2. PICK topic : topic = Pushed(t, size, outcome)
    OBVIOUS
  <2>3. topic \in TopicState /\ topic.retired = topics[t].retired
    BY <2>1, <2>2, PushedType, PushedRows
  <2>4. Flushed(topic).retired = topic.retired
    BY <2>3, FlushedType
  <2>5. /\ UNCHANGED topic_ids
        /\ \/ topics' = [topics EXCEPT ![t] = Flushed(topic)]
           \/ topics' = [topics EXCEPT ![t] = topic]
    BY <1>4, <2>2 DEF Write, Flush
  <2> QED
    BY <2>3, <2>4, <2>5, NamesReplaced
<1>5. ASSUME NEW fate \in Fates, SweepTopic(fate) \/ CloseTopic(fate)
      PROVE  NamesLive'
  <2>1. at \in Slots /\ topics[at] \in TopicState
    BY <1>5, SlotsAre, SlotTypes DEF SweepTopic, CloseTopic, TypeOK
  <2>2. /\ UNCHANGED topic_ids
        /\ \/ topics' = [topics EXCEPT ![at] = Flushed(topics[at])]
           \/ UNCHANGED topics
    BY <1>5 DEF SweepTopic, CloseTopic, Flush
  <2> QED
    BY <1>1, <2>1, <2>2, FlushedType, NamesReplaced
<1>6. ASSUME \/ UNCHANGED vars
             \/ WriteNoTopic
             \/ \E t \in Slots : WriteRetired(t)
             \/ Close \/ SweepDone \/ CloseDone \/ Tick
      PROVE  NamesLive'
  BY <1>1, <1>6 DEF vars, WriteNoTopic, WriteRetired, Close, SweepDone, CloseDone, Tick
<1> QED
  BY <1>2, <1>3, <1>4, <1>5, <1>6 DEF Next, Call, Step

\* A name in use always leads to a slot of its own that records, and a retired
\* slot never holds a row: remove and create again cannot cross two topics.
THEOREM NamesToSlotsAlways == Spec => []NamesToSlots
<1>1. Init => NamesLive
  BY DEF Init, NamesLive
<1>2. TypeOK /\ NamesLive /\ [Next]_vars => NamesLive'
  BY NamesStep
<1>3. NamesLive /\ SlotsSettled => NamesToSlots
  BY DEF NamesLive, SlotsSettled, Settled, NamesToSlots, Rows
<1> QED
  BY <1>1, <1>2, <1>3, TypeCorrect, SlotsAlwaysSettled, PTL DEF Spec

=============================================================================
