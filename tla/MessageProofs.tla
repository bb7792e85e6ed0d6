--------------------------- MODULE MessageProofs ----------------------------
(***************************************************************************)
(* What becomes of every message Recorder.tla accepts, for every value of  *)
(* its constants: AcceptedOnce, and, when no configuration drops what the  *)
(* lenses do not take, StoredAsAnnounced.                                  *)
(*                                                                         *)
(* A message's number is new when it is accepted, and a step moves numbers *)
(* of one topic only: from its buffer to the file, or to what is lost.     *)
(* That makes AcceptedOnce inductive together with the numbers being       *)
(* distinct and below the next.                                            *)
(*                                                                         *)
(* A row has its bytes or is in a live decoder, and has its bytes wherever *)
(* the topic was announced to hold them.  A chunk then has a column for    *)
(* each of its rows that no lens takes away, and what the lenses derive    *)
(* for those they take unless one of them fails.                           *)
(***************************************************************************)
EXTENDS RecorderProofs

NumbersGiven ==
    /\ \A m \in accepted : m.topic \in Slots /\ m.sequence < next_sequence
    /\ \A m, n \in accepted : m.sequence = n.sequence => m = n
    /\ \A s \in LostSequences : s < next_sequence

OnceInv == AcceptedOnce /\ NumbersGiven

Numbers(lostRows) == {l.sequence : l \in lostRows}

-----------------------------------------------------------------------------
(* What the operators do to numbers. *)

\* Losing a pipeline's rows loses their numbers.
LEMMA LostNumbers ==
  ASSUME NEW t, NEW p, NEW why
  PROVE  Numbers(LostRows(t, p, why)) = Sequences(p.rows)
<1>1. ASSUME NEW i \in DOMAIN p.rows
      PROVE  p.rows[i].sequence \in Numbers(LostRows(t, p, why))
  <2>1. PICK l : l = [sequence |-> p.rows[i].sequence, topic |-> t, why |-> why]
    OBVIOUS
  <2>2. l \in LostRows(t, p, why) /\ l.sequence = p.rows[i].sequence
    BY <2>1 DEF LostRows
  <2> QED
    BY <2>2 DEF Numbers
<1>2. ASSUME NEW l \in LostRows(t, p, why)
      PROVE  l.sequence \in Sequences(p.rows)
  BY DEF LostRows, Sequences
<1> QED
  BY <1>1, <1>2 DEF Numbers, Sequences

\* A flush that hands nothing over loses what the topic held.
LEMMA UnsentNumbers ==
  ASSUME NEW t, NEW topic, NEW fate
  PROVE  Numbers(Unsent(t, topic, fate)) =
            IF fate = "unbuilt" \/ SentColumns(config, topic.pipeline, fate) = {}
            THEN Sequences(topic.pipeline.rows) ELSE {}
<1>1. Numbers({}) = {}
  BY DEF Numbers
<1> QED
  BY <1>1, LostNumbers DEF Unsent

\* One that does puts its numbers in the file, under its topic.
LEMMA SentNumbers ==
  ASSUME TypeOK, NEW t \in Slots, NEW topic \in TopicState, NEW fate,
         file' = Sent(t, topic, fate)
  PROVE  \A u \in Slots : Filed(u)' =
            IF u = t /\ ~(fate = "unbuilt" \/ SentColumns(config, topic.pipeline, fate) = {})
            THEN Filed(u) \union Sequences(topic.pipeline.rows) ELSE Filed(u)
<1> DEFINE chunk == TakeChunk(config, topic.pipeline, t, fate)
<1>1. file \in Seq(Chunk) /\ topic.pipeline \in PipelineState
  BY DEF TypeOK, TopicState
<1>2. SentColumns(config, topic.pipeline, fate) # {} => chunk \in Chunk
  BY <1>1, ConfigType, TakeChunkType, SlotsAre
<1>3. chunk.topic = t /\ Sequences(chunk.rows) = Sequences(topic.pipeline.rows)
  <2>1. /\ chunk.topic = t
        /\ DOMAIN chunk.rows = DOMAIN topic.pipeline.rows
        /\ \A i \in DOMAIN topic.pipeline.rows :
              chunk.rows[i].sequence = topic.pipeline.rows[i].sequence
    BY <1>1, TakeChunkRows
  <2> HIDE DEF chunk
  <2> QED
    BY <2>1 DEF Sequences
<1> HIDE DEF chunk
<1>4. CASE fate = "unbuilt" \/ SentColumns(config, topic.pipeline, fate) = {}
  BY <1>4 DEF Sent, Filed
<1>5. CASE /\ ~(fate = "unbuilt" \/ SentColumns(config, topic.pipeline, fate) = {})
           /\ topic.pipeline.rows = <<>>
  <2>1. Sequences(topic.pipeline.rows) = {}
    BY <1>5 DEF Sequences
  <2>2. file' = file
    BY <1>5 DEF Sent
  <2>3. \A u \in Slots : Filed(u)' = Filed(u)
    BY <2>2 DEF Filed
  <2> QED
    BY <2>1, <2>3
<1>6. CASE /\ ~(fate = "unbuilt" \/ SentColumns(config, topic.pipeline, fate) = {})
           /\ topic.pipeline.rows # <<>>
  <2>1. file' = Append(file, chunk)
    BY <1>6 DEF Sent, chunk
  <2>2. /\ Len(file) \in Nat /\ DOMAIN file = 1 .. Len(file)
        /\ DOMAIN file' = 1 .. Len(file) + 1
        /\ \A c \in DOMAIN file : file'[c] = file[c]
        /\ file'[Len(file) + 1] = chunk
    BY <1>1, <1>2, <2>1, AppendProperties
  <2>3. DOMAIN file' = DOMAIN file \union {Len(file) + 1}
    BY <2>2
  <2>4. ASSUME NEW u \in Slots, NEW s
        PROVE  s \in Filed(u)' <=>
                  s \in Filed(u) \/ (u = t /\ s \in Sequences(topic.pipeline.rows))
    <3>1. s \in Filed(u)' <=>
             \E c \in DOMAIN file' : file'[c].topic = u /\ s \in Sequences(file'[c].rows)
      BY DEF Filed, Sequences
    <3>2. s \in Filed(u) <=>
             \E c \in DOMAIN file : file[c].topic = u /\ s \in Sequences(file[c].rows)
      BY DEF Filed
    <3> QED
      BY <1>3, <2>2, <2>3, <3>1, <3>2
  <2>5. \A u \in Slots : Filed(u)' =
           IF u = t THEN Filed(u) \union Sequences(topic.pipeline.rows) ELSE Filed(u)
    BY <2>4
  <2> QED
    BY <1>6, <2>5
<1> QED
  BY <1>4, <1>5, <1>6

\* A push leaves the new number and, unless the decoder took them down, those
\* that were held; what is lost is what was held and is no longer.
LEMMA PushedNumbers ==
  ASSUME TypeOK, NEW t \in Slots, NEW size \in Nat, NEW outcome \in DecodeOutcome
  PROVE  /\ Sequences(Pushed(t, size, outcome).pipeline.rows) =
               {next_sequence} \union
                  (IF RowsLost(config, topics[t].pipeline, outcome)
                   THEN {} ELSE Sequences(Rows(t)))
         /\ Numbers(LostInPush(t, outcome)) =
               IF RowsLost(config, topics[t].pipeline, outcome)
               THEN Sequences(Rows(t)) ELSE {}
<1>1. topics[t] \in TopicState /\ topics[t].pipeline \in PipelineState
  BY SlotTypes
<1>2. Pushed(t, size, outcome).pipeline =
         Push(config, topics[t].pipeline, next_sequence, now, size, outcome)
  BY <1>1 DEF Pushed, TopicState
<1>3. now \in Nat /\ next_sequence \in Nat /\ config \in RecordingConfig
  BY ConfigType DEF TypeOK
<1>4. Sequences(Pushed(t, size, outcome).pipeline.rows) =
         {next_sequence} \union
            (IF RowsLost(config, topics[t].pipeline, outcome)
             THEN {} ELSE Sequences(Rows(t)))
  <2>1. PICK p \in PipelineState : p = topics[t].pipeline
    BY <1>1
  <2>2. PICK q : q = Push(config, p, next_sequence, now, size, outcome)
    OBVIOUS
  <2>3. Sequences(q.rows) = {next_sequence} \union
           (IF RowsLost(config, p, outcome) THEN {} ELSE Sequences(p.rows))
    <3>1. Numbered(q) =
             {next_sequence} \union (IF RowsLost(config, p, outcome) THEN {} ELSE Numbered(p))
      BY <1>3, <2>2, PushNumbers
    <3>2. Numbered(q) = Sequences(q.rows) /\ Numbered(p) = Sequences(p.rows)
      BY DEF Numbered, Sequences
    <3> QED
      BY <3>1, <3>2
  <2> QED
    BY <1>2, <2>1, <2>2, <2>3 DEF Rows
<1>5. Numbers({}) = {}
  BY DEF Numbers
<1> QED
  BY <1>4, <1>5, LostNumbers DEF LostInPush, Rows

-----------------------------------------------------------------------------
(* Steps. *)

\* A step gives the next number to a message of slot t, or gives none.
Gives(t, new) ==
    /\ new = {} \/ (new = {next_sequence} /\ next_sequence' = next_sequence + 1)
    /\ next_sequence' = next_sequence \/ next_sequence' = next_sequence + 1
    /\ accepted' = accepted \union {[sequence |-> s, topic |-> t] : s \in new}

\* A step leaves each number that slot t held or is given in one place: kept in
\* its buffer, sent to the file or gone; and touches no other slot's.
Moves(t, new, kept, sent, gone) ==
    /\ \A u \in Slots : u # t => Sequences(Rows(u))' = Sequences(Rows(u))
    /\ \A u \in Slots : u # t => Filed(u)' = Filed(u)
    /\ Sequences(Rows(t)) \union new = kept \union sent \union gone
    /\ kept \intersect sent = {} /\ kept \intersect gone = {} /\ sent \intersect gone = {}
    /\ Sequences(Rows(t))' = kept
    /\ Filed(t)' = Filed(t) \union sent
    /\ LostSequences' = LostSequences \union gone

\* A step that moves numbers of one topic, and perhaps gives one message to it,
\* keeps every message in one place.
LEMMA OnceMoved ==
  ASSUME TypeOK, OrderInv, OnceInv, NEW t \in Slots, Slots' = Slots,
         NEW new, Gives(t, new),
         NEW kept, NEW sent, NEW gone, Moves(t, new, kept, sent, gone)
  PROVE  OnceInv'
<1> USE DEF Gives, Moves
<1>1. next_sequence \in Nat
  BY DEF TypeOK
<1>2. PICK held : held = Sequences(Rows(t))
  OBVIOUS
<1>3. /\ \A s \in held : s \in Nat /\ s < next_sequence
      /\ \A u \in Slots : \A s \in Filed(u) : s \in Nat /\ s < next_sequence
      /\ \A s \in LostSequences : s < next_sequence
      /\ \A m \in accepted : m.sequence < next_sequence /\ m.topic \in Slots
  BY <1>2, SequencesNat
     DEF OrderInv, SequencesGiven, OnceInv, NumbersGiven, Filed
<1>4. \A s \in new : s = next_sequence
  OBVIOUS
<1>5. \A m \in accepted' :
         \/ m \in accepted
         \/ /\ m = [sequence |-> next_sequence, topic |-> t]
            /\ next_sequence \in new
  BY <1>4
<1>6. /\ accepted \subseteq accepted'
      /\ \A s \in new : [sequence |-> s, topic |-> t] \in accepted'
  OBVIOUS
\* A number of this topic is not one of another's.
<1>7. ASSUME NEW m \in accepted, m.sequence \in held
      PROVE  m.topic = t
  <2>1. PICK n : n = [sequence |-> m.sequence, topic |-> t]
    OBVIOUS
  <2>2. n \in accepted
    BY <1>2, <1>7, <2>1 DEF OnceInv, AcceptedOnce
  <2>3. n.sequence = m.sequence /\ n.topic = t
    BY <2>1
  <2> QED
    BY <2>2, <2>3 DEF OnceInv, NumbersGiven
<1>8. /\ Sequences(Rows(t))' = kept
      /\ \A u \in Slots : u # t => Sequences(Rows(u))' = Sequences(Rows(u))
      /\ Filed(t)' = Filed(t) \union sent
      /\ \A u \in Slots : u # t => Filed(u)' = Filed(u)
      /\ LostSequences' = LostSequences \union gone
      /\ held \union new = kept \union sent \union gone
      /\ kept \intersect sent = {} /\ kept \intersect gone = {}
      /\ sent \intersect gone = {}
  BY <1>2
\* What it had of a message, and of the message it was given.
<1>9. ASSUME NEW m \in accepted
      PROVE  /\ m.topic \in Slots
             /\ \/ m.sequence \in Sequences(Rows(m.topic))
                \/ m.sequence \in Filed(m.topic)
                \/ m.sequence \in LostSequences
             /\ ~(m.sequence \in Sequences(Rows(m.topic)) /\ m.sequence \in Filed(m.topic))
             /\ ~(m.sequence \in Sequences(Rows(m.topic)) /\ m.sequence \in LostSequences)
             /\ ~(m.sequence \in Filed(m.topic) /\ m.sequence \in LostSequences)
  BY <1>3 DEF OnceInv, AcceptedOnce
<1>10. ASSUME NEW m \in accepted'
       PROVE  /\ m.topic \in Slots
              /\ \/ m.sequence \in Sequences(Rows(m.topic))'
                 \/ m.sequence \in Filed(m.topic)'
                 \/ m.sequence \in LostSequences'
              /\ ~(m.sequence \in Sequences(Rows(m.topic))' /\ m.sequence \in Filed(m.topic)')
              /\ ~(m.sequence \in Sequences(Rows(m.topic))' /\ m.sequence \in LostSequences')
              /\ ~(m.sequence \in Filed(m.topic)' /\ m.sequence \in LostSequences')
  <2>1. CASE m \in accepted /\ m.topic = t
    <3>1. m.sequence \notin new
      BY <1>1, <1>3, <1>4, <2>1
    <3> QED
      BY <1>2, <1>8, <1>9, <2>1, <3>1
  <2>2. CASE m \in accepted /\ m.topic # t
    <3>1. m.sequence \notin new /\ m.sequence \notin held
      BY <1>1, <1>3, <1>4, <1>7, <2>2
    <3> QED
      BY <1>8, <1>9, <2>2, <3>1
  <2>3. CASE m = [sequence |-> next_sequence, topic |-> t] /\ next_sequence \in new
    <3>1. m.sequence = next_sequence /\ m.topic = t
      BY <2>3
    <3>2. m.sequence \notin Filed(t) /\ m.sequence \notin LostSequences
      BY <1>1, <1>3, <3>1
    <3> QED
      BY <1>8, <2>3, <3>1, <3>2
  <2> QED
    BY <1>5, <2>1, <2>2, <2>3
<1>11. ASSUME NEW u \in Slots, NEW s, s \in Sequences(Rows(u))' \union Filed(u)'
       PROVE  [sequence |-> s, topic |-> u] \in accepted'
  <2>1. CASE s \in Sequences(Rows(u)) \union Filed(u)
    BY <1>6, <2>1 DEF OnceInv, AcceptedOnce
  <2>2. CASE u = t /\ s \in new
    BY <1>6, <2>2
  <2>3. \/ s \in Sequences(Rows(u)) \union Filed(u)
        \/ (u = t /\ s \in new)
    BY <1>2, <1>8, <1>11
  <2> QED
    BY <2>1, <2>2, <2>3
<1>12. NumbersGiven'
  <2>1. \A m \in accepted' : m.sequence < next_sequence'
    <3>1. ASSUME NEW m \in accepted PROVE m.sequence < next_sequence'
      BY <1>1, <1>3 DEF TypeOK
    <3>2. next_sequence \in new => next_sequence < next_sequence'
      BY <1>1
    <3> QED
      BY <1>5, <3>1, <3>2
  <2>2. ASSUME NEW m \in accepted', NEW n \in accepted', m.sequence = n.sequence
        PROVE  m = n
    <3>1. CASE m \in accepted /\ n \in accepted
      BY <2>2, <3>1 DEF OnceInv, NumbersGiven
    <3>2. \A a \in accepted : a.sequence # next_sequence
      BY <1>1, <1>3
    <3>3. \A a : a = [sequence |-> next_sequence, topic |-> t] => a.sequence = next_sequence
      OBVIOUS
    <3> QED
      BY <1>5, <2>2, <3>1, <3>2, <3>3
  <2>3. ASSUME NEW s \in LostSequences' PROVE s < next_sequence'
    <3>1. CASE s \in new
      BY <1>1, <3>1
    <3>2. CASE s \in held
      BY <1>1, <1>3, <3>2
    <3>3. CASE s \in LostSequences
      <4>1. s \in Nat
        BY <3>3 DEF LostSequences, TypeOK
      <4> QED
        BY <1>1, <1>3, <3>3, <4>1
    <3> QED
      BY <1>8, <2>3, <3>1, <3>2, <3>3
  <2>4. \A m \in accepted' : m.topic \in Slots'
    BY <1>10
  <2> QED
    BY <2>1, <2>2, <2>3, <2>4 DEF NumbersGiven
<1> QED
  BY <1>10, <1>11, <1>12 DEF OnceInv, AcceptedOnce

\* Losing more rows adds their numbers to what is lost.
LEMMA NumbersUnion ==
  ASSUME NEW a, NEW b
  PROVE  Numbers(a \union b) = Numbers(a) \union Numbers(b)
BY DEF Numbers

\* A step that moves no number.
LEMMA OnceKept ==
  ASSUME TypeOK, OnceInv, UNCHANGED <<topics, file, accepted, lost>>,
         next_sequence' = next_sequence \/ next_sequence' = next_sequence + 1
  PROVE  OnceInv'
<1>1. AcceptedOnce'
  <2>1. Slots' = Slots /\ LostSequences' = LostSequences /\ accepted' = accepted
    BY DEF Slots, LostSequences
  <2>2. \A u : Sequences(Rows(u))' = Sequences(Rows(u)) /\ Filed(u)' = Filed(u)
    BY DEF Sequences, Rows, Filed
  <2> QED
    BY <2>1, <2>2 DEF OnceInv, AcceptedOnce
<1>2. /\ \A m \in accepted : m.sequence \in Nat
      /\ \A s \in LostSequences : s \in Nat
  BY DEF TypeOK, LostSequences
<1>3. next_sequence \in Nat
  BY DEF TypeOK
<1>4. /\ \A m \in accepted : m.topic \in Slots /\ m.sequence < next_sequence'
      /\ \A s \in LostSequences : s < next_sequence'
  BY <1>2, <1>3 DEF OnceInv, NumbersGiven
<1>5. LostSequences' = LostSequences /\ Slots' = Slots
  BY DEF LostSequences, Slots
<1> QED
  BY <1>1, <1>4, <1>5 DEF OnceInv, NumbersGiven

\* A flush of what slot t comes to hold: what it held and was given goes to the
\* file, or is lost, now or by the decoder before.
LEMMA OnceFlushed ==
  ASSUME TypeOK, OrderInv, OnceInv, NEW t \in Slots, NEW topic \in TopicState,
         NEW fate, NEW flushed, flushed.pipeline.rows = <<>>,
         topics' = [topics EXCEPT ![t] = flushed],
         file' = Sent(t, topic, fate),
         NEW new, Gives(t, new),
         NEW before,
         Sequences(Rows(t)) \union new = Sequences(topic.pipeline.rows) \union before,
         Sequences(topic.pipeline.rows) \intersect before = {},
         LostSequences' = LostSequences \union before \union Numbers(Unsent(t, topic, fate))
  PROVE  OnceInv'
<1> DEFINE numbers == Sequences(topic.pipeline.rows)
           kept    == ~(fate = "unbuilt" \/ SentColumns(config, topic.pipeline, fate) = {})
           sent    == IF kept THEN numbers ELSE {}
           gone    == before \union (IF kept THEN {} ELSE numbers)
<1>1. /\ Slots' = Slots
      /\ \A u \in Slots : topics'[u] = IF u = t THEN flushed ELSE topics[u]
  BY SlotUpdate
<1>2. /\ Sequences(Rows(t))' = {}
      /\ \A u \in Slots : u # t => Sequences(Rows(u))' = Sequences(Rows(u))
  BY <1>1 DEF Sequences, Rows
<1>3. \A u \in Slots : Filed(u)' = IF u = t /\ kept THEN Filed(u) \union numbers ELSE Filed(u)
  BY SentNumbers
<1>4. Filed(t)' = Filed(t) \union sent /\ \A u \in Slots : u # t => Filed(u)' = Filed(u)
  BY <1>3
<1>5. LostSequences' = LostSequences \union gone
  BY UnsentNumbers
<1>6. PICK none : none = {}
  OBVIOUS
<1>7. /\ Sequences(Rows(t)) \union new = none \union sent \union gone
      /\ none \intersect sent = {} /\ none \intersect gone = {} /\ sent \intersect gone = {}
  BY <1>6
<1> HIDE DEF sent, gone, kept, numbers
<1>8. Moves(t, new, none, sent, gone)
  BY <1>2, <1>4, <1>5, <1>6, <1>7 DEF Moves
<1> QED
  BY <1>1, <1>8, OnceMoved

\* A flush of what a slot holds, with nothing pushed.
LEMMA OnceFlushHeld ==
  ASSUME TypeOK, OrderInv, OnceInv, NEW t \in Slots, NEW fate, NEW flushed,
         flushed.pipeline.rows = <<>>,
         topics' = [topics EXCEPT ![t] = flushed],
         file' = Sent(t, topics[t], fate),
         lost' = lost \union Unsent(t, topics[t], fate),
         UNCHANGED <<accepted, next_sequence>>
  PROVE  OnceInv'
<1>1. PICK topic \in TopicState : topic = topics[t]
  BY SlotTypes
<1>2. PICK none : none = {}
  OBVIOUS
<1>3. Sequences(Rows(t)) = Sequences(topic.pipeline.rows)
  BY <1>1 DEF Rows
<1>4. /\ Sequences(Rows(t)) \union none = Sequences(topic.pipeline.rows) \union none
      /\ Sequences(topic.pipeline.rows) \intersect none = {}
  BY <1>2, <1>3
<1>5. LostSequences' = LostSequences \union none \union Numbers(Unsent(t, topic, fate))
  BY <1>1, <1>2, NumbersUnion DEF LostSequences, Numbers
<1>6. Gives(t, none)
  BY <1>2 DEF Gives
<1>7. file' = Sent(t, topic, fate)
  BY <1>1
<1> QED
  BY <1>4, <1>5, <1>6, <1>7, OnceFlushed

\* A push adds one number to what a topic held; what it loses it no longer has.
LEMMA OncePushed ==
  ASSUME TypeOK, OrderInv, NEW t \in Slots, NEW size \in Nat, NEW outcome \in DecodeOutcome,
         NEW topic, topic = Pushed(t, size, outcome),
         NEW before, before = Numbers(LostInPush(t, outcome))
  PROVE  /\ Sequences(Rows(t)) \union {next_sequence} =
               Sequences(topic.pipeline.rows) \union before
         /\ Sequences(topic.pipeline.rows) \intersect before = {}
<1>1. /\ Sequences(topic.pipeline.rows) =
            {next_sequence} \union (IF RowsLost(config, topics[t].pipeline, outcome)
                                    THEN {} ELSE Sequences(Rows(t)))
      /\ before = IF RowsLost(config, topics[t].pipeline, outcome)
                  THEN Sequences(Rows(t)) ELSE {}
  BY PushedNumbers
<1>2. next_sequence \notin Sequences(Rows(t))
  BY SequencesNat DEF OrderInv, SequencesGiven, TypeOK
<1> QED
  BY <1>1, <1>2

\* Every step keeps every message in one place.
LEMMA OnceStep ==
  ASSUME TypeOK, OrderInv, OnceInv, [Next]_vars
  PROVE  OnceInv'
<1>1. CASE UNCHANGED vars
  BY <1>1, OnceKept DEF vars
<1>2. ASSUME NEW name \in Names, NEW kind \in Kinds, CreateTopic(name, kind)
      PROVE  OnceInv'
  <2>1. PICK n \in Nat : n = Len(topics) + 1
    BY SlotsAre
  <2>2. topics' = Append(topics, NewTopic(kind)) /\ UNCHANGED <<file, next_sequence, accepted, lost>>
    BY <1>2 DEF CreateTopic
  <2>3. Slots' = Slots \union {n} /\ n \notin Slots
    BY <2>1, <2>2, SlotsAre, AppendProperties DEF Slots, TypeOK
  <2>4. \A u \in Slots : topics'[u] = topics[u]
    BY <2>2, SlotsAre DEF TypeOK
  <2>5. topics'[n].pipeline.rows = <<>>
    BY <2>1, <2>2, SlotsAre DEF TypeOK, NewTopic, NewPipeline
  <2>6. /\ Sequences(Rows(n))' = {}
        /\ \A u \in Slots : Sequences(Rows(u))' = Sequences(Rows(u))
    BY <2>4, <2>5 DEF Rows, Sequences
  <2>7. Filed(n) = {} /\ \A u \in Slots' : Filed(u)' = Filed(u)
    BY <2>2, <2>3 DEF Filed, Sequences, OrderInv, SequencesGiven
  <2>8. LostSequences' = LostSequences
    BY <2>2 DEF LostSequences
  <2>9. AcceptedOnce'
    <3>1. ASSUME NEW m \in accepted
          PROVE  /\ m.topic \in Slots /\ m.topic \in Slots'
                 /\ Sequences(Rows(m.topic))' = Sequences(Rows(m.topic))
                 /\ Filed(m.topic)' = Filed(m.topic)
      BY <2>3, <2>6, <2>7 DEF OnceInv, NumbersGiven
    <3>2. ASSUME NEW u \in Slots', NEW s, s \in Sequences(Rows(u))' \union Filed(u)'
          PROVE  [sequence |-> s, topic |-> u] \in accepted
      <4>1. u \in Slots
        BY <2>3, <2>6, <2>7, <3>2
      <4>2. s \in Sequences(Rows(u)) \union Filed(u)
        BY <2>3, <2>6, <2>7, <3>2, <4>1
      <4> QED
        BY <4>1, <4>2 DEF OnceInv, AcceptedOnce
    <3>3. accepted' = accepted
      BY <2>2
    <3> QED
      BY <2>8, <3>1, <3>2, <3>3 DEF OnceInv, AcceptedOnce
  <2> QED
    BY <2>2, <2>3, <2>8, <2>9 DEF OnceInv, NumbersGiven
<1>3. ASSUME NEW name \in Names, NEW fate \in Fates, RemoveTopic(name, fate)
      PROVE  OnceInv'
  <2> DEFINE t == topic_ids[name]
             flushed == [Flushed(topics[t]) EXCEPT !.retired = (fate # "unbuilt")]
  <2>1. t \in Slots
    BY <1>3, SlotsAre DEF RemoveTopic, NoTopic, TypeOK
  <2>2. topics[t] \in TopicState
    BY <2>1, SlotTypes
  <2>3. flushed.pipeline.rows = <<>>
    BY <2>2, FlushedType DEF TopicState
  <2>4. /\ topics' = [topics EXCEPT ![t] = flushed]
        /\ file' = Sent(t, topics[t], fate)
        /\ lost' = lost \union Unsent(t, topics[t], fate)
        /\ UNCHANGED <<accepted, next_sequence>>
    BY <1>3 DEF RemoveTopic
  <2> HIDE DEF t, flushed
  <2> QED
    BY <2>1, <2>3, <2>4, OnceFlushHeld
<1>4. CASE WriteNoTopic
  BY <1>4, OnceKept DEF WriteNoTopic
<1>5. ASSUME NEW t \in Slots, WriteRetired(t)
      PROVE  OnceInv'
  BY <1>5, OnceKept DEF WriteRetired
<1>6. ASSUME NEW t \in Slots, NEW size \in Sizes, NEW fate \in Fates,
             NEW outcome \in OutcomesOf(t), Write(t, size, outcome, fate)
      PROVE  OnceInv'
  <2>1. size \in Nat /\ outcome \in DecodeOutcome
    BY SizesAssumption, OutcomesAssumption DEF OutcomesOf, DecodeOutcome
  <2>2. PICK topic : topic = Pushed(t, size, outcome)
    OBVIOUS
  <2>3. topic \in TopicState
    BY <2>1, <2>2, PushedType
  <2>4. PICK new : new = {next_sequence}
    OBVIOUS
  <2>5. PICK before : before = Numbers(LostInPush(t, outcome))
    OBVIOUS
  <2>6. /\ Sequences(Rows(t)) \union new = Sequences(topic.pipeline.rows) \union before
        /\ Sequences(topic.pipeline.rows) \intersect before = {}
    BY <2>1, <2>2, <2>4, <2>5, OncePushed
  <2>7. next_sequence' = next_sequence + 1
    BY <1>6 DEF Write
  <2>8. Gives(t, new)
    BY <1>6, <2>4, <2>7 DEF Gives, Write
  <2>9. CASE ShouldFlush(topic)
    <3>1. /\ topics' = [topics EXCEPT ![t] = Flushed(topic)]
          /\ file' = Sent(t, topic, fate)
          /\ lost' = lost \union LostInPush(t, outcome) \union Unsent(t, topic, fate)
      BY <1>6, <2>2, <2>9 DEF Write, Flush
    <3>2. Flushed(topic).pipeline.rows = <<>>
      BY <2>3, FlushedType
    <3>3. LostSequences' = LostSequences \union before \union Numbers(Unsent(t, topic, fate))
      BY <2>5, <3>1, NumbersUnion DEF LostSequences, Numbers
    <3> QED
      BY <2>3, <2>6, <2>8, <3>1, <3>2, <3>3, OnceFlushed
  <2>10. CASE ~ShouldFlush(topic)
    <3>1. /\ topics' = [topics EXCEPT ![t] = topic]
          /\ UNCHANGED file
          /\ lost' = lost \union LostInPush(t, outcome)
      BY <1>6, <2>2, <2>10 DEF Write
    <3>2. /\ Slots' = Slots
          /\ \A u \in Slots : topics'[u] = IF u = t THEN topic ELSE topics[u]
      BY <3>1, SlotUpdate
    <3>3. /\ Sequences(Rows(t))' = Sequences(topic.pipeline.rows)
          /\ \A u \in Slots : u # t => Sequences(Rows(u))' = Sequences(Rows(u))
      BY <3>2 DEF Rows, Sequences
    <3>4. \A u \in Slots : Filed(u)' = Filed(u)
      BY <3>1 DEF Filed
    <3>5. LostSequences' = LostSequences \union before
      BY <2>5, <3>1, NumbersUnion DEF LostSequences, Numbers
    <3>6. PICK kept : kept = Sequences(topic.pipeline.rows)
      OBVIOUS
    <3>7. PICK none : none = {}
      OBVIOUS
    <3>8. /\ Sequences(Rows(t)) \union new = kept \union none \union before
          /\ kept \intersect none = {} /\ kept \intersect before = {}
          /\ none \intersect before = {}
      <4>1. Sequences(Rows(t)) \union new = kept \union before /\ kept \intersect before = {}
        BY <2>6, <3>6
      <4> QED
        BY <3>7, <4>1
    <3>9. /\ Filed(t)' = Filed(t) \union none
          /\ Sequences(Rows(t))' = kept
      BY <3>3, <3>4, <3>6, <3>7
    <3>10. /\ \A u \in Slots : u # t => Sequences(Rows(u))' = Sequences(Rows(u))
           /\ \A u \in Slots : u # t => Filed(u)' = Filed(u)
      BY <3>3, <3>4
    <3>11. Moves(t, new, kept, none, before)
      BY <3>5, <3>8, <3>9, <3>10 DEF Moves
    <3>12. Slots' = Slots
      BY <3>2
    <3> QED
      BY <2>8, <3>11, <3>12, OnceMoved
  <2> QED
    BY <2>9, <2>10
<1>7. CASE Close
  BY <1>7, OnceKept DEF Close
<1>8. ASSUME NEW fate \in Fates, SweepTopic(fate)
      PROVE  OnceInv'
  <2> DEFINE stale == Elapsed(topics[at].last_flush) /\ topics[at].pipeline.rows # <<>>
  <2>1. at \in Slots /\ topics[at] \in TopicState
    BY <1>8, SlotsAre, SlotTypes DEF SweepTopic, TypeOK
  <2>2. UNCHANGED <<accepted, next_sequence>>
    BY <1>8 DEF SweepTopic
  <2>3. CASE stale
    <3>1. /\ topics' = [topics EXCEPT ![at] = Flushed(topics[at])]
          /\ file' = Sent(at, topics[at], fate)
          /\ lost' = lost \union Unsent(at, topics[at], fate)
      BY <1>8, <2>3 DEF SweepTopic, Flush
    <3>2. Flushed(topics[at]).pipeline.rows = <<>>
      BY <2>1, FlushedType
    <3> QED
      BY <2>1, <2>2, <3>1, <3>2, OnceFlushHeld
  <2>4. CASE ~stale
    BY <1>8, <2>2, <2>4, OnceKept DEF SweepTopic
  <2> QED
    BY <2>3, <2>4
<1>9. ASSUME NEW fate \in Fates, CloseTopic(fate)
      PROVE  OnceInv'
  <2>1. at \in Slots /\ topics[at] \in TopicState
    BY <1>9, SlotsAre, SlotTypes DEF CloseTopic, TypeOK
  <2>2. /\ topics' = [topics EXCEPT ![at] = Flushed(topics[at])]
        /\ file' = Sent(at, topics[at], fate)
        /\ lost' = lost \union Unsent(at, topics[at], fate)
        /\ UNCHANGED <<accepted, next_sequence>>
    BY <1>9 DEF CloseTopic, Flush
  <2>3. Flushed(topics[at]).pipeline.rows = <<>>
    BY <2>1, FlushedType
  <2> QED
    BY <2>1, <2>2, <2>3, OnceFlushHeld
<1>10. CASE SweepDone
  BY <1>10, OnceKept DEF SweepDone
<1>11. CASE CloseDone
  BY <1>11, OnceKept DEF CloseDone
<1>12. CASE Tick
  BY <1>12, OnceKept DEF Tick
<1> QED
  BY <1>1, <1>2, <1>3, <1>4, <1>5, <1>6, <1>7, <1>8, <1>9, <1>10, <1>11, <1>12
     DEF Next, Call, Step

\* The recorder starts with nothing anywhere.
LEMMA OnceInit == Init => OnceInv
BY DEF Init, OnceInv, AcceptedOnce, NumbersGiven, LostSequences, Slots

\* Whatever fails and however topics come, go and flush, every message the core
\* accepts is at all times in exactly one place: the buffer of its topic, a chunk
\* of its topic in the file, or among what a failure is known to have lost.
THEOREM AcceptedOnceAlways == Spec => []AcceptedOnce
<1>1. TypeOK /\ OrderInv /\ OnceInv /\ [Next]_vars => OnceInv'
  BY OnceStep
<1>2. OnceInv => AcceptedOnce
  BY DEF OnceInv
<1> QED
  BY <1>1, <1>2, OnceInit, TypeCorrect, OrderAlways, PTL DEF Spec

-----------------------------------------------------------------------------
(* What is lost is known for what it was: a message accepted on its topic. *)

LostKnown == \A l \in lost : [sequence |-> l.sequence, topic |-> l.topic] \in accepted

\* What losing a pipeline's rows loses are rows it had.
LEMMA LostFrom ==
  ASSUME NEW t, NEW p, NEW why, NEW l \in LostRows(t, p, why)
  PROVE  l.topic = t /\ l.sequence \in Sequences(p.rows)
BY DEF LostRows, Sequences

\* So are those of a flush.
LEMMA UnsentFrom ==
  ASSUME NEW t, NEW topic, NEW fate, NEW l \in Unsent(t, topic, fate)
  PROVE  l.topic = t /\ l.sequence \in Sequences(topic.pipeline.rows)
BY LostFrom DEF Unsent

\* A flush of what a slot holds loses what was accepted there.
LEMMA LostHeld ==
  ASSUME OnceInv, LostKnown, NEW t \in Slots, NEW fate,
         lost' = lost \union Unsent(t, topics[t], fate), UNCHANGED accepted
  PROVE  LostKnown'
<1>1. ASSUME NEW l \in Unsent(t, topics[t], fate)
      PROVE  [sequence |-> l.sequence, topic |-> l.topic] \in accepted
  <2>1. l.topic = t /\ l.sequence \in Sequences(Rows(t))
    BY UnsentFrom DEF Rows
  <2> QED
    BY <2>1 DEF OnceInv, AcceptedOnce
<1> QED
  BY <1>1 DEF LostKnown

\* Every step loses only what was accepted, on its topic.
LEMMA LostStep ==
  ASSUME TypeOK, OnceInv, LostKnown, [Next]_vars
  PROVE  LostKnown'
<1>1. ASSUME UNCHANGED <<lost, accepted>> PROVE LostKnown'
  BY <1>1 DEF LostKnown
<1>2. ASSUME NEW name \in Names, NEW fate \in Fates, RemoveTopic(name, fate)
      PROVE  LostKnown'
  <2>1. topic_ids[name] \in Slots
    BY <1>2, SlotsAre DEF RemoveTopic, NoTopic, TypeOK
  <2> QED
    BY <1>2, <2>1, LostHeld DEF RemoveTopic
<1>3. ASSUME NEW t \in Slots, NEW size \in Sizes, NEW fate \in Fates,
             NEW outcome \in OutcomesOf(t), Write(t, size, outcome, fate)
      PROVE  LostKnown'
  <2>1. size \in Nat /\ outcome \in DecodeOutcome
    BY SizesAssumption, OutcomesAssumption DEF OutcomesOf, DecodeOutcome
  <2>2. PICK topic : topic = Pushed(t, size, outcome)
    OBVIOUS
  <2>3. /\ accepted' = accepted \union {[sequence |-> next_sequence, topic |-> t]}
        /\ lost' \subseteq lost \union LostInPush(t, outcome) \union Unsent(t, topic, fate)
    BY <1>3, <2>2 DEF Write
  <2>4. \A s \in Sequences(Rows(t)) : [sequence |-> s, topic |-> t] \in accepted'
    BY <2>3 DEF OnceInv, AcceptedOnce
  <2>5. ASSUME NEW l \in LostInPush(t, outcome)
        PROVE  [sequence |-> l.sequence, topic |-> l.topic] \in accepted'
    <3>1. l.topic = t /\ l.sequence \in Sequences(Rows(t))
      BY LostFrom DEF LostInPush, Rows
    <3> QED
      BY <2>4, <3>1
  <2>6. ASSUME NEW l \in Unsent(t, topic, fate)
        PROVE  [sequence |-> l.sequence, topic |-> l.topic] \in accepted'
    <3>1. l.topic = t /\ l.sequence \in Sequences(topic.pipeline.rows)
      BY UnsentFrom
    <3>2. Sequences(topic.pipeline.rows) \subseteq {next_sequence} \union Sequences(Rows(t))
      BY <2>1, <2>2, PushedNumbers
    <3>3. CASE l.sequence = next_sequence
      BY <2>3, <3>1, <3>3
    <3>4. CASE l.sequence \in Sequences(Rows(t))
      BY <2>4, <3>1, <3>4
    <3> QED
      BY <3>1, <3>2, <3>3, <3>4
  <2> QED
    BY <2>3, <2>5, <2>6 DEF LostKnown
<1>4. ASSUME NEW fate \in Fates, SweepTopic(fate) \/ CloseTopic(fate)
      PROVE  LostKnown'
  <2>1. at \in Slots
    BY <1>4, SlotsAre DEF SweepTopic, CloseTopic, TypeOK
  <2> QED
    BY <1>1, <1>4, <2>1, LostHeld DEF SweepTopic, CloseTopic
<1> QED
  BY <1>1, <1>2, <1>3, <1>4
  DEF Next, Call, Step, vars, CreateTopic, WriteNoTopic, WriteRetired, Close, SweepDone,
      CloseDone, Tick

-----------------------------------------------------------------------------
(* In which form a message is kept. *)

\* What a pipeline's rows have, and what it was announced to store, given what
\* its recording asked for.
Formed(c, p) ==
    /\ \A i \in DOMAIN p.rows : p.rows[i].blob \/ p.rows[i].decoded
    /\ KeepRaw(c) \/ ~p.reflection => \A i \in DOMAIN p.rows : p.rows[i].blob
    /\ "raw" \in p.stored => KeepRaw(c) \/ ~p.reflection
    /\ "reflected" \in p.stored => "reflected" \in c.representations \/ ~p.matched
    /\ "lenses" \in p.stored => LensMode(c) # "none" /\ p.matched

\* Rows of a chunk have the forms announced.
AsAnnounced(stored, chunk) ==
    \A i \in DOMAIN chunk.rows :
        /\ "raw" \in stored => chunk.rows[i].blob
        /\ "reflected" \in stored => chunk.rows[i].blob \/ chunk.rows[i].struct
        /\ "lenses" \in stored /\ ~chunk.lens_failed =>
              chunk.rows[i].blob \/ chunk.rows[i].lenses

\* A message the lenses lost is one of a topic that was not to be replayed.
LostByLenses(l) ==
    l.why = "lens" => l.topic \in Slots /\ ~IsReplayable(topics[l.topic].pipeline)

FormsInv ==
    /\ \A t \in Slots : Formed(config, topics[t].pipeline)
    /\ \A l \in lost : l.why # "unmatched" /\ LostByLenses(l)
    /\ \A c \in DOMAIN file : AsAnnounced(topics[file[c].topic].pipeline.stored, file[c])

KeepsUnmatched == \A c \in Configs : c.unmatched = "keep"

-----------------------------------------------------------------------------
(* What the operators do to forms. *)

\* Pipeline::new announces what it can keep.
LEMMA NewFormed ==
  ASSUME NEW c \in RecordingConfig, NEW kind \in TopicKind
  PROVE  Formed(c, NewPipeline(c, kind))
<1>1. PICK p : p = NewPipeline(c, kind)
  OBVIOUS
<1>2. PICK reflection \in BOOLEAN :
         /\ p.reflection = reflection /\ p.matched = kind.matched /\ p.rows = <<>>
         /\ p.stored = Stored(c, reflection, kind.matched)
  BY <1>1 DEF NewPipeline, TopicKind
<1>3. DOMAIN p.rows = {}
  BY <1>2
<1>4. CASE ~reflection
  BY <1>1, <1>2, <1>3, <1>4 DEF Formed, Stored
<1>5. CASE reflection
  <2>1. p.stored \subseteq
           (c.representations \intersect {"raw", "reflected"})
           \union (IF LensMode(c) # "none" /\ kind.matched THEN {"lenses"} ELSE {})
           \union (IF ~kind.matched THEN {"reflected"} ELSE {})
    BY <1>2, <1>5 DEF Stored
  <2> QED
    BY <1>1, <1>2, <1>3, <2>1 DEF Formed, KeepRaw
<1> QED
  BY <1>1, <1>4, <1>5

\* Pipeline::push keeps the bytes of a message its decoder does not hold.
LEMMA PushFormed ==
  ASSUME NEW c \in RecordingConfig, NEW p \in PipelineState, Formed(c, p),
         NEW sequence \in Nat, NEW time \in Nat, NEW size \in Nat,
         NEW outcome \in DecodeOutcome,
         NEW q, q = Push(c, p, sequence, time, size, outcome)
  PROVE  Formed(c, q) /\ q.stored = p.stored /\ q.matched = p.matched
<1> DEFINE decoded == p.reflection /\ outcome = "ok"
           row  == [sequence |-> sequence, at |-> time,
                    blob |-> KeepRaw(c) \/ ~decoded, decoded |-> decoded]
           kept == IF RowsLost(c, p, outcome) THEN <<>> ELSE p.rows
<1>1. /\ row \in Row
      /\ row.blob = (KeepRaw(c) \/ ~decoded) /\ row.decoded = decoded
  BY DEF Row, KeepRaw, PipelineState
<1>2. kept \in Seq(Row)
  BY EmptySeq DEF PipelineState
<1>3. /\ q.rows = Append(kept, row)
      /\ q.reflection = (p.reflection /\ outcome # "unrecoverable")
      /\ q.stored = p.stored /\ q.matched = p.matched
  BY DEF Push, PipelineState
<1>4. /\ RowsLost(c, p, outcome) => DOMAIN kept = {}
      /\ ~RowsLost(c, p, outcome) => kept = p.rows
  OBVIOUS
<1> HIDE DEF row, kept
<1>5. /\ Len(kept) \in Nat /\ DOMAIN kept = 1 .. Len(kept)
      /\ DOMAIN q.rows = 1 .. Len(kept) + 1
      /\ \A i \in DOMAIN kept : q.rows[i] = kept[i]
      /\ q.rows[Len(kept) + 1] = row
  BY <1>1, <1>2, <1>3, AppendProperties
<1>6. \A i \in DOMAIN q.rows :
         \/ q.rows[i] = row
         \/ ~RowsLost(c, p, outcome) /\ i \in DOMAIN p.rows /\ q.rows[i] = p.rows[i]
  BY <1>4, <1>5
<1>7. \A i \in DOMAIN q.rows : q.rows[i].blob \/ q.rows[i].decoded
  BY <1>1, <1>6 DEF Formed
<1>8. KeepRaw(c) \/ ~q.reflection => \A i \in DOMAIN q.rows : q.rows[i].blob
  BY <1>1, <1>3, <1>6 DEF Formed, RowsLost
<1> QED
  BY <1>3, <1>7, <1>8 DEF Formed

\* A flush that was not to drop anything loses rows to a lens only where they were
\* not to be replayed, and hands over every row in the forms announced.
LEMMA TakenFormed ==
  ASSUME NEW c \in RecordingConfig, NEW p \in PipelineState, NEW t, NEW fate,
         Formed(c, p), c.unmatched = "keep"
  PROVE  /\ p.rows # <<>> /\ SentColumns(c, p, fate) = {} =>
               LensFails(c, p, fate) /\ ~IsReplayable(p)
         /\ AsAnnounced(p.stored, TakeChunk(c, p, t, fate))
<1> DEFINE taken  == TakenColumns(p)
           sent   == SentColumns(c, p, fate)
           failed == LensFails(c, p, fate)
           chunk  == TakeChunk(c, p, t, fate)
<1>1. LensMode(c) \in {"none", "ForwardAll", "ForwardUnmatched"}
  BY DEF LensMode
<1>2. "reflected" \in c.representations => LensMode(c) \in {"none", "ForwardAll"}
  BY DEF LensMode
<1>3. "raw" \in taken => "raw" \in sent
  BY <1>1 DEF SentColumns, LensColumns
<1>4. "reflected" \in taken /\ "reflected" \in p.stored => "reflected" \in sent
  BY <1>1, <1>2 DEF SentColumns, LensColumns, Consumed, Formed
<1>5. "reflected" \in taken /\ "lenses" \in p.stored /\ ~failed => "lenses" \in sent
  BY <1>1 DEF SentColumns, LensColumns, LensFails, Consumed, Formed
<1>6. \A i \in DOMAIN p.rows : p.rows[i].blob => "raw" \in taken
  BY DEF TakenColumns
<1>7. \A i \in DOMAIN p.rows : ~p.rows[i].blob => p.rows[i].decoded /\ "reflected" \in taken
  BY DEF TakenColumns, Formed
<1>8. p.rows # <<>> => 1 \in DOMAIN p.rows
  BY DEF PipelineState
<1>9. ASSUME p.rows # <<>>, sent = {}
      PROVE  failed /\ ~IsReplayable(p)
  <2>1. /\ 1 \in DOMAIN p.rows /\ ~p.rows[1].blob
        /\ "raw" \notin taken /\ "reflected" \in taken
    BY <1>3, <1>6, <1>7, <1>8, <1>9
  <2>2. Consumed(c, p.matched, taken) /\ fate = "nothing"
    BY <1>1, <1>9, <2>1 DEF SentColumns, LensColumns
  <2>3. "raw" \notin p.stored
    BY <2>1 DEF Formed
  <2>4. "reflected" \notin p.stored
    BY <1>4, <1>9, <2>1
  <2> QED
    BY <2>2, <2>3, <2>4 DEF LensFails, IsReplayable
<1>10. /\ DOMAIN chunk.rows = DOMAIN p.rows /\ chunk.lens_failed = failed
       /\ \A i \in DOMAIN p.rows :
             /\ chunk.rows[i].blob = ("raw" \in sent /\ p.rows[i].blob)
             /\ chunk.rows[i].struct = ("reflected" \in sent /\ p.rows[i].decoded)
             /\ chunk.rows[i].lenses = ("lenses" \in sent /\ ~failed /\ p.rows[i].decoded)
  BY DEF TakeChunk
<1> HIDE DEF taken, sent, failed, chunk
<1>11. ASSUME NEW i \in DOMAIN p.rows, "raw" \in p.stored
       PROVE  chunk.rows[i].blob
  BY <1>3, <1>6, <1>10, <1>11 DEF Formed
<1>12. ASSUME NEW i \in DOMAIN p.rows, "reflected" \in p.stored
       PROVE  chunk.rows[i].blob \/ chunk.rows[i].struct
  BY <1>3, <1>4, <1>6, <1>7, <1>10, <1>12
<1>13. ASSUME NEW i \in DOMAIN p.rows, "lenses" \in p.stored, ~chunk.lens_failed
       PROVE  chunk.rows[i].blob \/ chunk.rows[i].lenses
  BY <1>3, <1>5, <1>6, <1>7, <1>10, <1>13
<1> QED
  BY <1>9, <1>10, <1>11, <1>12, <1>13 DEF AsAnnounced, sent, failed, chunk

-----------------------------------------------------------------------------
(* Steps. *)

\* A configuration the recorder runs with keeps what no lens takes.
LEMMA ConfigKeeps ==
  ASSUME KeepsUnmatched, TypeOK
  PROVE  config.unmatched = "keep"
BY DEF KeepsUnmatched, TypeOK

\* A step that leaves the slots, the file and what is lost.
LEMMA FormsKept ==
  ASSUME FormsInv, UNCHANGED <<config, topics, file, lost>>
  PROVE  FormsInv'
BY DEF FormsInv, LostByLenses, Slots

\* A flush hands over a chunk in the forms announced, or loses it to a failure.
LEMMA FormsFlushed ==
  ASSUME KeepsUnmatched, TypeOK, OrderInv, FormsInv,
         NEW t \in Slots, NEW topic \in TopicState, NEW fate, NEW flushed,
         Formed(config, topic.pipeline),
         topic.pipeline.stored = topics[t].pipeline.stored,
         flushed.pipeline = Emptied(topic.pipeline),
         NEW before, \A l \in before : l.why = "decoder",
         topics' = [topics EXCEPT ![t] = flushed],
         file' = Sent(t, topic, fate),
         lost' = lost \union before \union Unsent(t, topic, fate),
         UNCHANGED config
  PROVE  FormsInv'
<1> DEFINE p     == topic.pipeline
           chunk == TakeChunk(config, p, t, fate)
<1>1. p \in PipelineState /\ config \in RecordingConfig /\ config.unmatched = "keep"
  BY ConfigType, ConfigKeeps DEF TopicState
<1>2. /\ Slots' = Slots
      /\ \A u \in Slots : topics'[u] = IF u = t THEN flushed ELSE topics[u]
  BY SlotUpdate
<1>3. /\ Emptied(p).rows = <<>> /\ Emptied(p).reflection = p.reflection
      /\ Emptied(p).stored = p.stored /\ Emptied(p).matched = p.matched
  BY <1>1 DEF Emptied, PipelineState
<1>4. Formed(config, flushed.pipeline) /\ flushed.pipeline.stored = topics[t].pipeline.stored
  BY <1>3 DEF Formed
<1>5. \A u \in Slots : Formed(config, topics'[u].pipeline)
  BY <1>2, <1>4 DEF FormsInv
<1>6. \A u \in Slots : topics'[u].pipeline.stored = topics[u].pipeline.stored
  BY <1>2, <1>4
<1>7. p.rows # <<>> /\ SentColumns(config, p, fate) = {} =>
         LensFails(config, p, fate) /\ ~IsReplayable(p)
  BY <1>1, TakenFormed
<1>8. AsAnnounced(topics[t].pipeline.stored, chunk) /\ chunk.topic = t
  <2>1. chunk.topic = t
    BY <1>1, TakeChunkRows
  <2>2. AsAnnounced(p.stored, chunk)
    BY <1>1, TakenFormed
  <2> QED
    BY <2>1, <2>2
<1>9. ASSUME NEW l \in lost' PROVE l.why # "unmatched" /\ LostByLenses(l)'
  <2>1. CASE l \in lost
    BY <1>2, <1>6, <2>1 DEF FormsInv, LostByLenses, IsReplayable
  <2>2. CASE l \in before
    BY <2>2 DEF LostByLenses
  <2>3. CASE l \in Unsent(t, topic, fate)
    <3>1. PICK i \in DOMAIN p.rows : l.topic = t /\ l.sequence = p.rows[i].sequence
      BY <2>3 DEF Unsent, LostRows
    <3>2. p.rows # <<>>
      BY <3>1
    <3>3. \/ l.why = "flush"
          \/ l.why = "lens" /\ l.topic = t /\ ~IsReplayable(p)
      BY <1>7, <2>3, <3>2 DEF Unsent, LostRows
    <3>4. ~IsReplayable(p) => ~IsReplayable(topics'[t].pipeline)
      BY <1>6 DEF IsReplayable
    <3> QED
      BY <1>2, <3>3, <3>4 DEF LostByLenses
  <2> QED
    BY <2>1, <2>2, <2>3
<1>10. file \in Seq(Chunk) /\ \A c \in DOMAIN file : file[c].topic \in Slots
  BY DEF TypeOK, OrderInv, SequencesGiven
<1>11. \A c \in DOMAIN file : AsAnnounced(topics'[file[c].topic].pipeline.stored, file[c])
  BY <1>6, <1>10 DEF FormsInv
<1> HIDE DEF chunk, p
<1>12. \A c \in DOMAIN file' : AsAnnounced(topics'[file'[c].topic].pipeline.stored, file'[c])
  <2>1. CASE file' = file
    BY <1>11, <2>1
  <2>2. CASE file' = Append(file, chunk)
    <3>1. \A c \in DOMAIN file' : (c \in DOMAIN file /\ file'[c] = file[c]) \/ file'[c] = chunk
      BY <1>10, <2>2
    <3> QED
      BY <1>6, <1>8, <1>11, <3>1
  <2> QED
    BY <2>1, <2>2 DEF Sent, chunk, p
<1> QED
  BY <1>2, <1>5, <1>9, <1>12 DEF FormsInv

\* A flush of what a slot holds, with nothing pushed.
LEMMA FormsFlushHeld ==
  ASSUME KeepsUnmatched, TypeOK, OrderInv, FormsInv,
         NEW t \in Slots, NEW fate, NEW flushed,
         flushed.pipeline = Emptied(topics[t].pipeline),
         topics' = [topics EXCEPT ![t] = flushed],
         file' = Sent(t, topics[t], fate),
         lost' = lost \union Unsent(t, topics[t], fate),
         UNCHANGED config
  PROVE  FormsInv'
<1>1. PICK topic \in TopicState : topic = topics[t]
  BY SlotTypes
<1>2. Formed(config, topic.pipeline) /\ topic.pipeline.stored = topics[t].pipeline.stored
  BY <1>1 DEF FormsInv
<1>3. PICK before : before = {}
  OBVIOUS
<1>4. /\ lost' = lost \union before \union Unsent(t, topic, fate)
      /\ \A l \in before : l.why = "decoder"
  BY <1>1, <1>3
<1>5. file' = Sent(t, topic, fate) /\ flushed.pipeline = Emptied(topic.pipeline)
  BY <1>1
<1> QED
  BY <1>2, <1>4, <1>5, FormsFlushed

\* Every step keeps the forms.
LEMMA FormsStep ==
  ASSUME KeepsUnmatched, TypeOK, OrderInv, FormsInv, [Next]_vars
  PROVE  FormsInv'
<1>1. CASE UNCHANGED vars
  BY <1>1, FormsKept DEF vars
<1>2. ASSUME NEW name \in Names, NEW kind \in Kinds, CreateTopic(name, kind)
      PROVE  FormsInv'
  <2>1. PICK n \in Nat : n = Len(topics) + 1
    BY SlotsAre
  <2>2. topics' = Append(topics, NewTopic(kind)) /\ UNCHANGED <<config, file, lost>>
    BY <1>2 DEF CreateTopic
  <2>3. Slots' = Slots \union {n}
    BY <2>1, <2>2, SlotsAre, AppendProperties DEF Slots, TypeOK
  <2>4. \A u \in Slots : topics'[u] = topics[u]
    BY <2>2, SlotsAre DEF TypeOK
  <2>5. topics'[n].pipeline = NewPipeline(config, kind)
    BY <2>1, <2>2, SlotsAre DEF TypeOK, NewTopic
  <2>6. \A u \in Slots' : Formed(config, topics'[u].pipeline)
    BY <2>3, <2>4, <2>5, KindsAssumption, ConfigType, NewFormed DEF FormsInv
  <2>7. \A c \in DOMAIN file :
           AsAnnounced(topics'[file[c].topic].pipeline.stored, file[c])
    BY <2>4 DEF FormsInv, OrderInv, SequencesGiven
  <2>8. \A l \in lost' : l.why # "unmatched" /\ LostByLenses(l)'
    BY <2>2, <2>3, <2>4 DEF FormsInv, LostByLenses
  <2>9. FormsInv'
    <3>1. (\A u \in Slots : Formed(config, topics[u].pipeline))'
      BY <2>2, <2>6
    <3>2. (\A c \in DOMAIN file :
             AsAnnounced(topics[file[c].topic].pipeline.stored, file[c]))'
      BY <2>2, <2>7
    <3> QED
      BY <2>8, <3>1, <3>2 DEF FormsInv
  <2> QED
    BY <2>9
<1>3. ASSUME NEW name \in Names, NEW fate \in Fates, RemoveTopic(name, fate)
      PROVE  FormsInv'
  <2> DEFINE t == topic_ids[name]
             flushed == [Flushed(topics[t]) EXCEPT !.retired = (fate # "unbuilt")]
  <2>1. t \in Slots
    BY <1>3, SlotsAre DEF RemoveTopic, NoTopic, TypeOK
  <2>2. topics[t] \in TopicState
    BY <2>1, SlotTypes
  <2>3. flushed.pipeline = Emptied(topics[t].pipeline)
    BY <2>2 DEF Flushed, TopicState
  <2>4. /\ topics' = [topics EXCEPT ![t] = flushed]
        /\ file' = Sent(t, topics[t], fate)
        /\ lost' = lost \union Unsent(t, topics[t], fate)
        /\ UNCHANGED config
    BY <1>3 DEF RemoveTopic
  <2> HIDE DEF t, flushed
  <2> QED
    BY <2>1, <2>3, <2>4, FormsFlushHeld
<1>4. CASE WriteNoTopic
  BY <1>4, FormsKept DEF WriteNoTopic
<1>5. ASSUME NEW t \in Slots, WriteRetired(t)
      PROVE  FormsInv'
  BY <1>5, FormsKept DEF WriteRetired
<1>6. ASSUME NEW t \in Slots, NEW size \in Sizes, NEW fate \in Fates,
             NEW outcome \in OutcomesOf(t), Write(t, size, outcome, fate)
      PROVE  FormsInv'
  <2>1. size \in Nat /\ outcome \in DecodeOutcome
    BY SizesAssumption, OutcomesAssumption DEF OutcomesOf, DecodeOutcome
  <2>2. PICK topic : topic = Pushed(t, size, outcome)
    OBVIOUS
  <2>3. topic \in TopicState
    BY <2>1, <2>2, PushedType
  <2>4. /\ Formed(config, topic.pipeline)
        /\ topic.pipeline.stored = topics[t].pipeline.stored
    <3>1. PICK p \in PipelineState : p = topics[t].pipeline
      BY SlotTypes
    <3>2. topic.pipeline = Push(config, p, next_sequence, now, size, outcome)
      BY <2>2, <3>1, SlotTypes DEF Pushed, TopicState
    <3>3. Formed(config, p)
      BY <3>1 DEF FormsInv
    <3>4. next_sequence \in Nat /\ now \in Nat
      BY DEF TypeOK
    <3>5. config \in RecordingConfig /\ size \in Nat /\ outcome \in DecodeOutcome
      BY <2>1, ConfigType
    <3>6. /\ Formed(config, topic.pipeline)
          /\ topic.pipeline.stored = p.stored
      BY <3>2, <3>3, <3>4, <3>5, PushFormed
    <3> QED
      BY <3>1, <3>6
  <2>5. \A l \in LostInPush(t, outcome) : l.why = "decoder"
    BY DEF LostInPush, LostRows
  <2>6. UNCHANGED config
    BY <1>6 DEF Write
  <2>7. CASE ShouldFlush(topic)
    <3>1. /\ topics' = [topics EXCEPT ![t] = Flushed(topic)]
          /\ file' = Sent(t, topic, fate)
          /\ lost' = lost \union LostInPush(t, outcome) \union Unsent(t, topic, fate)
      BY <1>6, <2>2, <2>7 DEF Write, Flush
    <3>2. Flushed(topic).pipeline = Emptied(topic.pipeline)
      BY <2>3 DEF Flushed, TopicState
    <3> QED
      BY <2>3, <2>4, <2>5, <2>6, <3>1, <3>2, FormsFlushed
  <2>8. CASE ~ShouldFlush(topic)
    <3>1. /\ topics' = [topics EXCEPT ![t] = topic]
          /\ UNCHANGED file
          /\ lost' = lost \union LostInPush(t, outcome)
      BY <1>6, <2>2, <2>8 DEF Write
    <3>2. /\ Slots' = Slots
          /\ \A u \in Slots : topics'[u] = IF u = t THEN topic ELSE topics[u]
      BY <3>1, SlotUpdate
    <3>3. /\ \A u \in Slots : Formed(config, topics'[u].pipeline)
          /\ \A u \in Slots : topics'[u].pipeline.stored = topics[u].pipeline.stored
      BY <2>4, <3>2 DEF FormsInv
    <3>4. \A c \in DOMAIN file :
             AsAnnounced(topics'[file[c].topic].pipeline.stored, file[c])
      BY <3>3 DEF FormsInv, OrderInv, SequencesGiven
    <3>5. \A l \in lost' : l.why # "unmatched" /\ LostByLenses(l)'
      BY <2>5, <3>1, <3>2, <3>3 DEF FormsInv, LostByLenses, IsReplayable
    <3> QED
      BY <2>6, <3>1, <3>2, <3>3, <3>4, <3>5 DEF FormsInv
  <2> QED
    BY <2>7, <2>8
<1>7. CASE Close
  BY <1>7, FormsKept DEF Close
<1>8. ASSUME NEW fate \in Fates, SweepTopic(fate)
      PROVE  FormsInv'
  <2> DEFINE stale == Elapsed(topics[at].last_flush) /\ topics[at].pipeline.rows # <<>>
  <2>1. at \in Slots /\ topics[at] \in TopicState
    BY <1>8, SlotsAre, SlotTypes DEF SweepTopic, TypeOK
  <2>2. UNCHANGED config
    BY <1>8 DEF SweepTopic
  <2>3. CASE stale
    <3>1. /\ topics' = [topics EXCEPT ![at] = Flushed(topics[at])]
          /\ file' = Sent(at, topics[at], fate)
          /\ lost' = lost \union Unsent(at, topics[at], fate)
      BY <1>8, <2>3 DEF SweepTopic, Flush
    <3>2. Flushed(topics[at]).pipeline = Emptied(topics[at].pipeline)
      BY <2>1 DEF Flushed, TopicState
    <3> QED
      BY <2>1, <2>2, <3>1, <3>2, FormsFlushHeld
  <2>4. CASE ~stale
    BY <1>8, <2>2, <2>4, FormsKept DEF SweepTopic
  <2> QED
    BY <2>3, <2>4
<1>9. ASSUME NEW fate \in Fates, CloseTopic(fate)
      PROVE  FormsInv'
  <2>1. at \in Slots /\ topics[at] \in TopicState
    BY <1>9, SlotsAre, SlotTypes DEF CloseTopic, TypeOK
  <2>2. /\ topics' = [topics EXCEPT ![at] = Flushed(topics[at])]
        /\ file' = Sent(at, topics[at], fate)
        /\ lost' = lost \union Unsent(at, topics[at], fate)
        /\ UNCHANGED config
    BY <1>9 DEF CloseTopic, Flush
  <2>3. Flushed(topics[at]).pipeline = Emptied(topics[at].pipeline)
    BY <2>1 DEF Flushed, TopicState
  <2> QED
    BY <2>1, <2>2, <2>3, FormsFlushHeld
<1>10. CASE SweepDone
  BY <1>10, FormsKept DEF SweepDone
<1>11. CASE CloseDone
  BY <1>11, FormsKept DEF CloseDone
<1>12. CASE Tick
  BY <1>12, FormsKept DEF Tick
<1> QED
  BY <1>1, <1>2, <1>3, <1>4, <1>5, <1>6, <1>7, <1>8, <1>9, <1>10, <1>11, <1>12
     DEF Next, Call, Step

\* The recorder starts with no rows in any form.
LEMMA FormsInit == Init => FormsInv
BY DEF Init, FormsInv, Slots

\* What no lens takes being kept, and no row lost for lack of a column but where a
\* lens failed, what is stored has the forms announced.
LEMMA FormsAnnounced == FormsInv => StoredAsAnnounced
BY DEF FormsInv, LostByLenses, StoredAsAnnounced, AsAnnounced

\* Unless the configuration says to drop what no lens takes, a topic announced as
\* replayable loses nothing to the lenses, and each stored message has the forms
\* announced or its bytes: raw where raw was, its struct, and what the lenses
\* derive wherever none failed; through decoders that die, lenses that take structs
\* or fail with part of their output or none, and any mix of flushes.
THEOREM StoredAsAnnouncedAlways ==
  ASSUME KeepsUnmatched
  PROVE  Spec => []StoredAsAnnounced
<1>1. TypeOK /\ OrderInv /\ FormsInv /\ [Next]_vars => FormsInv'
  BY FormsStep
<1> QED
  BY <1>1, FormsInit, FormsAnnounced, TypeCorrect, OrderAlways, PTL DEF Spec

-----------------------------------------------------------------------------
(* Which rows can be replayed, whatever was announced.  A lens takes a struct *)
(* for good only where structs were not asked for; a row without its bytes    *)
(* needs lenses alone then, and a configuration that keeps what they leave.   *)

KeepsStructs == \A c \in Configs : c.representations = {"lenses"} => c.unmatched = "drop"

HeldFormed == \A t \in Slots : Formed(config, topics[t].pipeline)

\* The file as it is, or with one chunk more of rows that were held in order.
SendsFormed ==
    \/ file' = file
    \/ \E t \in Nat, p \in PipelineState, fate \in Fate :
          Formed(config, p) /\ file' = Append(file, TakeChunk(config, p, t, fate))

\* The rows of a chunk that holds messages each have a form, in a configuration
\* that leaves them one.
LEMMA TakenReplays ==
  ASSUME NEW c \in RecordingConfig, NEW p \in PipelineState, NEW t, NEW fate, Formed(c, p),
         c.representations = {"lenses"} => c.unmatched = "drop",
         HoldsMessages(TakeChunk(c, p, t, fate)),
         NEW i \in DOMAIN TakeChunk(c, p, t, fate).rows
  PROVE  TakeChunk(c, p, t, fate).rows[i].blob \/ TakeChunk(c, p, t, fate).rows[i].struct
<1> DEFINE taken == TakenColumns(p)
           sent  == SentColumns(c, p, fate)
<1>1. /\ i \in DOMAIN p.rows
      /\ TakeChunk(c, p, t, fate).columns = sent
      /\ TakeChunk(c, p, t, fate).rows[i].blob = ("raw" \in sent /\ p.rows[i].blob)
      /\ TakeChunk(c, p, t, fate).rows[i].struct = ("reflected" \in sent /\ p.rows[i].decoded)
  BY DEF TakeChunk
<1>2. LensMode(c) # "DropUnmatched"
  <2>1. LensMode(c) = "DropUnmatched" => sent \subseteq {"lenses"}
    BY DEF SentColumns, LensColumns, Consumed
  <2>2. sent \intersect {"raw", "reflected"} # {}
    BY <1>1 DEF HoldsMessages
  <2> QED
    BY <2>1, <2>2
<1>3. "raw" \in taken => "raw" \in sent
  BY <1>2 DEF SentColumns, LensColumns, Consumed, LensMode
<1>4. p.rows[i].blob => "raw" \in taken
  BY <1>1 DEF TakenColumns
<1>5. CASE p.rows[i].blob
  BY <1>1, <1>3, <1>4, <1>5
<1>6. CASE ~p.rows[i].blob
  <2>1. p.rows[i].decoded /\ p.reflection /\ ~KeepRaw(c)
    BY <1>1, <1>6 DEF Formed
  <2>2. "reflected" \in taken
    BY <1>1, <2>1 DEF TakenColumns
  <2>3. LensMode(c) \in {"none", "ForwardAll"}
    <3>1. c.representations \in SUBSET Representation
      BY DEF RecordingConfig
    <3>2. CASE LensMode(c) = "ForwardUnmatched"
      <4>1. "lenses" \in c.representations /\ "reflected" \notin c.representations
            /\ c.unmatched = "keep"
        BY <3>2 DEF LensMode
      <4>2. c.representations = {"lenses"}
        BY <2>1, <3>1, <4>1 DEF KeepRaw, Representation
      <4> QED
        BY <4>1, <4>2
    <3> QED
      BY <1>2, <3>2 DEF LensMode
  <2>4. "reflected" \in sent
    BY <2>2, <2>3 DEF SentColumns, LensColumns, Consumed
  <2> QED
    BY <1>1, <2>1, <2>4
<1> QED
  BY <1>5, <1>6

\* A slot that is flushed, after a push or without.
LEMMA FormedFlushed ==
  ASSUME TypeOK, HeldFormed, UNCHANGED config,
         NEW t \in Slots, NEW topic \in TopicState, NEW fate \in Fates, NEW flushed,
         Formed(config, topic.pipeline),
         flushed.pipeline = Emptied(topic.pipeline),
         topics' = [topics EXCEPT ![t] = flushed],
         file' = Sent(t, topic, fate)
  PROVE  HeldFormed' /\ SendsFormed
<1>1. PICK p \in PipelineState : p = topic.pipeline
  BY DEF TopicState
<1>2. /\ Slots' = Slots
      /\ \A u \in Slots : topics'[u] = IF u = t THEN flushed ELSE topics[u]
  BY SlotUpdate
<1>3. /\ Emptied(p).rows = <<>> /\ Emptied(p).reflection = p.reflection
      /\ Emptied(p).stored = p.stored /\ Emptied(p).matched = p.matched
  BY DEF Emptied, PipelineState
<1>4. Formed(config, flushed.pipeline)
  BY <1>1, <1>3 DEF Formed
<1>5. HeldFormed'
  <2>1. \A u \in Slots : Formed(config, topics'[u].pipeline)
    BY <1>2, <1>4 DEF HeldFormed
  <2> QED
    BY <1>2, <2>1 DEF HeldFormed, Formed, KeepRaw
<1>6. t \in Nat
  BY SlotsAre
<1> QED
  BY <1>1, <1>5, <1>6, FatesAssumption DEF SendsFormed, Sent

\* A step that leaves slots and file.
LEMMA FormedKept ==
  ASSUME HeldFormed, UNCHANGED <<config, topics, file>>
  PROVE  HeldFormed' /\ SendsFormed
BY DEF HeldFormed, SendsFormed, Formed, KeepRaw, Slots

\* Whatever is configured, each step keeps every buffered row its bytes or a
\* place in a live decoder, and sends only such rows.
LEMMA FormedStep ==
  ASSUME TypeOK, HeldFormed, [Next]_vars
  PROVE  HeldFormed' /\ SendsFormed
<1>1. CASE UNCHANGED vars
  BY <1>1, FormedKept DEF vars
<1>2. ASSUME NEW name \in Names, NEW kind \in Kinds, CreateTopic(name, kind)
      PROVE  HeldFormed' /\ SendsFormed
  <2>1. PICK n \in Nat : n = Len(topics) + 1
    BY SlotsAre
  <2>2. topics' = Append(topics, NewTopic(kind)) /\ UNCHANGED <<config, file>>
    BY <1>2 DEF CreateTopic
  <2>3. Slots' = Slots \union {n}
    BY <2>1, <2>2, SlotsAre, AppendProperties DEF Slots, TypeOK
  <2>4. \A u \in Slots : topics'[u] = topics[u]
    BY <2>2, SlotsAre DEF TypeOK
  <2>5. topics'[n].pipeline = NewPipeline(config, kind)
    BY <2>1, <2>2, SlotsAre DEF TypeOK, NewTopic
  <2>6. \A u \in Slots' : Formed(config, topics'[u].pipeline)
    BY <2>3, <2>4, <2>5, KindsAssumption, ConfigType, NewFormed DEF HeldFormed
  <2> QED
    BY <2>2, <2>6 DEF HeldFormed, SendsFormed, Formed, KeepRaw
<1>3. ASSUME NEW name \in Names, NEW fate \in Fates, RemoveTopic(name, fate)
      PROVE  HeldFormed' /\ SendsFormed
  <2> DEFINE t == topic_ids[name]
             flushed == [Flushed(topics[t]) EXCEPT !.retired = (fate # "unbuilt")]
  <2>1. t \in Slots
    BY <1>3, SlotsAre DEF RemoveTopic, NoTopic, TypeOK
  <2>2. topics[t] \in TopicState /\ Formed(config, topics[t].pipeline)
    BY <2>1, SlotTypes DEF HeldFormed
  <2>3. flushed.pipeline = Emptied(topics[t].pipeline)
    BY <2>2 DEF Flushed, TopicState
  <2>4. /\ topics' = [topics EXCEPT ![t] = flushed]
        /\ file' = Sent(t, topics[t], fate)
        /\ UNCHANGED config
    BY <1>3 DEF RemoveTopic
  <2> HIDE DEF t, flushed
  <2> QED
    BY <2>1, <2>2, <2>3, <2>4, FormedFlushed
<1>4. ASSUME NEW t \in Slots, NEW size \in Sizes, NEW fate \in Fates,
             NEW outcome \in OutcomesOf(t), Write(t, size, outcome, fate)
      PROVE  HeldFormed' /\ SendsFormed
  <2>1. size \in Nat /\ outcome \in DecodeOutcome
    BY SizesAssumption, OutcomesAssumption DEF OutcomesOf, DecodeOutcome
  <2>2. PICK topic : topic = Pushed(t, size, outcome)
    OBVIOUS
  <2>3. topic \in TopicState
    BY <2>1, <2>2, PushedType
  <2>4. Formed(config, topic.pipeline)
    <3>1. PICK p \in PipelineState : p = topics[t].pipeline
      BY SlotTypes
    <3>2. topic.pipeline = Push(config, p, next_sequence, now, size, outcome)
      BY <2>2, <3>1, SlotTypes DEF Pushed, TopicState
    <3>3. Formed(config, p) /\ next_sequence \in Nat /\ now \in Nat
      BY <3>1 DEF HeldFormed, TypeOK
    <3> QED
      BY <2>1, <3>2, <3>3, ConfigType, PushFormed
  <2>5. UNCHANGED config
    BY <1>4 DEF Write
  <2>6. CASE ShouldFlush(topic)
    <3>1. /\ topics' = [topics EXCEPT ![t] = Flushed(topic)]
          /\ file' = Sent(t, topic, fate)
      BY <1>4, <2>2, <2>6 DEF Write, Flush
    <3>2. Flushed(topic).pipeline = Emptied(topic.pipeline)
      BY <2>3 DEF Flushed, TopicState
    <3> QED
      BY <2>3, <2>4, <2>5, <3>1, <3>2, FormedFlushed
  <2>7. CASE ~ShouldFlush(topic)
    <3>1. topics' = [topics EXCEPT ![t] = topic] /\ UNCHANGED file
      BY <1>4, <2>2, <2>7 DEF Write
    <3>2. /\ Slots' = Slots
          /\ \A u \in Slots : topics'[u] = IF u = t THEN topic ELSE topics[u]
      BY <3>1, SlotUpdate
    <3>3. \A u \in Slots : Formed(config, topics'[u].pipeline)
      BY <2>4, <3>2 DEF HeldFormed
    <3> QED
      BY <2>5, <3>1, <3>2, <3>3 DEF HeldFormed, SendsFormed, Formed, KeepRaw
  <2> QED
    BY <2>6, <2>7
<1>5. ASSUME NEW fate \in Fates, SweepTopic(fate)
      PROVE  HeldFormed' /\ SendsFormed
  <2> DEFINE stale == Elapsed(topics[at].last_flush) /\ topics[at].pipeline.rows # <<>>
  <2>1. at \in Slots /\ topics[at] \in TopicState /\ Formed(config, topics[at].pipeline)
    BY <1>5, SlotsAre, SlotTypes DEF SweepTopic, TypeOK, HeldFormed
  <2>2. UNCHANGED config
    BY <1>5 DEF SweepTopic
  <2>3. CASE stale
    <3>1. /\ topics' = [topics EXCEPT ![at] = Flushed(topics[at])]
          /\ file' = Sent(at, topics[at], fate)
      BY <1>5, <2>3 DEF SweepTopic, Flush
    <3>2. Flushed(topics[at]).pipeline = Emptied(topics[at].pipeline)
      BY <2>1 DEF Flushed, TopicState
    <3> QED
      BY <2>1, <2>2, <3>1, <3>2, FormedFlushed
  <2>4. CASE ~stale
    BY <1>5, <2>2, <2>4, FormedKept DEF SweepTopic
  <2> QED
    BY <2>3, <2>4
<1>6. ASSUME NEW fate \in Fates, CloseTopic(fate)
      PROVE  HeldFormed' /\ SendsFormed
  <2>1. at \in Slots /\ topics[at] \in TopicState /\ Formed(config, topics[at].pipeline)
    BY <1>6, SlotsAre, SlotTypes DEF CloseTopic, TypeOK, HeldFormed
  <2>2. /\ topics' = [topics EXCEPT ![at] = Flushed(topics[at])]
        /\ file' = Sent(at, topics[at], fate)
        /\ UNCHANGED config
    BY <1>6 DEF CloseTopic, Flush
  <2>3. Flushed(topics[at]).pipeline = Emptied(topics[at].pipeline)
    BY <2>1 DEF Flushed, TopicState
  <2> QED
    BY <2>1, <2>2, <2>3, FormedFlushed
<1>7. ASSUME \/ WriteNoTopic \/ \E t \in Slots : WriteRetired(t)
             \/ Close \/ SweepDone \/ CloseDone \/ Tick
      PROVE  HeldFormed' /\ SendsFormed
  BY <1>7, FormedKept DEF WriteNoTopic, WriteRetired, Close, SweepDone, CloseDone, Tick
<1> QED
  BY <1>1, <1>2, <1>3, <1>4, <1>5, <1>6, <1>7 DEF Next, Call, Step

\* A chunk more in which every row has a form.
LEMMA ReplayStep ==
  ASSUME KeepsStructs, TypeOK, HeldFormed, RowHasAForm, [Next]_vars
  PROVE  RowHasAForm'
<1>1. config \in RecordingConfig /\ file \in Seq(Chunk)
      /\ (config.representations = {"lenses"} => config.unmatched = "drop")
  BY ConfigType DEF TypeOK, KeepsStructs
<1>2. SendsFormed
  BY FormedStep
<1>3. CASE file' = file
  BY <1>3 DEF RowHasAForm, HoldsMessages
<1>4. ASSUME NEW t \in Nat, NEW p \in PipelineState, NEW fate \in Fate, Formed(config, p),
             file' = Append(file, TakeChunk(config, p, t, fate))
      PROVE  RowHasAForm'
  <2>1. PICK chunk : chunk = TakeChunk(config, p, t, fate)
    OBVIOUS
  <2>2. HoldsMessages(chunk) =>
           \A i \in DOMAIN chunk.rows : chunk.rows[i].blob \/ chunk.rows[i].struct
    BY <1>1, <1>4, <2>1, TakenReplays
  <2>3. \A c \in DOMAIN file' : (c \in DOMAIN file /\ file'[c] = file[c]) \/ file'[c] = chunk
    BY <1>1, <1>4, <2>1
  <2> QED
    BY <2>2, <2>3 DEF RowHasAForm
<1> QED
  BY <1>2, <1>3, <1>4 DEF SendsFormed

\* Only a recording with lenses alone that keeps what they leave can hold a row
\* with neither bytes nor struct: in every other configuration each row of a
\* message chunk can be replayed, through decoders that die and flushes that fail.
\* rec_form_lost shows the one that cannot.
THEOREM RowHasAFormOtherwise ==
  ASSUME KeepsStructs
  PROVE  Spec => []RowHasAForm
<1>1. Init => HeldFormed /\ RowHasAForm
  BY DEF Init, HeldFormed, RowHasAForm, Slots
<1>2. TypeOK /\ HeldFormed /\ RowHasAForm /\ [Next]_vars => HeldFormed' /\ RowHasAForm'
  BY FormedStep, ReplayStep
<1> QED
  BY <1>1, <1>2, TypeCorrect, PTL DEF Spec

-----------------------------------------------------------------------------
(* When nothing is lost: every chunk can be built, no lens fails, nothing the *)
(* lenses do not take is to be dropped, and no decoder dies on a recording    *)
(* that has not got the bytes as well.                                        *)

NothingFails ==
    /\ Fates = {"sent"}
    /\ KeepsUnmatched
    /\ "unrecoverable" \notin Outcomes \/ \A c \in Configs : KeepRaw(c)

\* A flush then hands over all that its topic held.
LEMMA AllSent ==
  ASSUME NothingFails, TypeOK, NEW t, NEW topic \in TopicState, NEW fate \in Fates,
         Formed(config, topic.pipeline)
  PROVE  Unsent(t, topic, fate) = {}
<1>1. PICK p \in PipelineState : p = topic.pipeline
  BY DEF TopicState
<1>2. fate = "sent" /\ config \in RecordingConfig /\ config.unmatched = "keep"
  BY ConfigType, ConfigKeeps DEF NothingFails
<1>3. ~LensFails(config, p, fate)
  BY <1>2 DEF LensFails
<1>4. p.rows # <<>> => SentColumns(config, p, fate) # {}
  BY <1>1, <1>2, <1>3, TakenFormed
<1>5. p.rows = <<>> => \A why : LostRows(t, p, why) = {}
  BY DEF LostRows
<1> QED
  BY <1>1, <1>2, <1>4, <1>5 DEF Unsent

\* And a push keeps all that its topic held.
LEMMA NonePushedOut ==
  ASSUME NothingFails, TypeOK, NEW t \in Slots, NEW outcome \in OutcomesOf(t)
  PROVE  LostInPush(t, outcome) = {}
<1>1. config \in Configs
  BY DEF TypeOK
<1>2. ~RowsLost(config, topics[t].pipeline, outcome)
  BY <1>1 DEF NothingFails, RowsLost, OutcomesOf
<1> QED
  BY <1>2 DEF LostInPush

\* So no step loses a message.
LEMMA NoneLostStep ==
  ASSUME NothingFails, TypeOK, HeldFormed, lost = {}, [Next]_vars
  PROVE  lost' = {}
<1>1. ASSUME NEW name \in Names, NEW fate \in Fates, RemoveTopic(name, fate)
      PROVE  lost' = {}
  <2>1. PICK t \in Slots : t = topic_ids[name]
    BY <1>1, SlotsAre DEF RemoveTopic, NoTopic, TypeOK
  <2>2. Unsent(t, topics[t], fate) = {}
    BY SlotTypes, AllSent DEF HeldFormed
  <2> QED
    BY <1>1, <2>1, <2>2 DEF RemoveTopic
<1>2. ASSUME NEW t \in Slots, NEW size \in Sizes, NEW fate \in Fates,
             NEW outcome \in OutcomesOf(t), Write(t, size, outcome, fate)
      PROVE  lost' = {}
  <2>1. size \in Nat /\ outcome \in DecodeOutcome
    BY SizesAssumption, OutcomesAssumption DEF OutcomesOf, DecodeOutcome
  <2>2. PICK topic : topic = Pushed(t, size, outcome)
    OBVIOUS
  <2>3. topic \in TopicState
    BY <2>1, <2>2, PushedType
  <2>4. Formed(config, topic.pipeline)
    <3>1. PICK p \in PipelineState : p = topics[t].pipeline
      BY SlotTypes
    <3>2. topic.pipeline = Push(config, p, next_sequence, now, size, outcome)
      BY <2>2, <3>1, SlotTypes DEF Pushed, TopicState
    <3>3. /\ Formed(config, p) /\ next_sequence \in Nat /\ now \in Nat
          /\ config \in RecordingConfig /\ size \in Nat /\ outcome \in DecodeOutcome
      BY <2>1, <3>1, ConfigType DEF HeldFormed, TypeOK
    <3> QED
      BY <3>2, <3>3, PushFormed
  <2>5. Unsent(t, topic, fate) = {} /\ LostInPush(t, outcome) = {}
    BY <2>3, <2>4, AllSent, NonePushedOut
  <2> QED
    BY <1>2, <2>2, <2>5 DEF Write
<1>3. ASSUME NEW fate \in Fates, SweepTopic(fate) \/ CloseTopic(fate)
      PROVE  lost' = {}
  <2>1. at \in Slots
    BY <1>3, SlotsAre DEF SweepTopic, CloseTopic, TypeOK
  <2>2. Unsent(at, topics[at], fate) = {}
    BY <2>1, SlotTypes, AllSent DEF HeldFormed
  <2> QED
    BY <1>3, <2>2 DEF SweepTopic, CloseTopic
<1> QED
  BY <1>1, <1>2, <1>3
  DEF Next, Call, Step, vars, CreateTopic, WriteNoTopic, WriteRetired, Close, SweepDone,
      CloseDone, Tick

=============================================================================
