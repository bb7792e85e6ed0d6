--------------------------- MODULE PipelineProofs ---------------------------
(***************************************************************************)
(* What the operators of Pipeline.tla return: the types they keep, and     *)
(* what they do to the sequence numbers and times of the rows they hold.   *)
(***************************************************************************)
EXTENDS Pipeline, SequenceTheorems, TLAPS

-----------------------------------------------------------------------------
(* The pipeline operators return what their types say. *)

\* What a topic is announced to hold are representations.
LEMMA StoredType ==
  ASSUME NEW c \in RecordingConfig, NEW reflection, NEW matched
  PROVE  Stored(c, reflection, matched) \subseteq Representation
BY DEF Stored, RecordingConfig, Representation

\* Pipeline::new makes a pipeline.
LEMMA NewPipelineType ==
  ASSUME NEW c \in RecordingConfig, NEW kind \in TopicKind
  PROVE  NewPipeline(c, kind) \in PipelineState
<1> DEFINE reflection == /\ c.representations \intersect {"reflected", "lenses"} # {}
                         /\ kind.reflectable
<1>1. reflection \in BOOLEAN /\ kind.matched \in BOOLEAN
  BY DEF TopicKind
<1>2. Stored(c, reflection, kind.matched) \in SUBSET Representation
  BY StoredType
<1>3. <<>> \in Seq(Row)
  BY EmptySeq
<1> QED
  BY <1>1, <1>2, <1>3 DEF NewPipeline, PipelineState

\* Pipeline::push leaves a pipeline, whatever the decoder answers.
LEMMA PushType ==
  ASSUME NEW c \in RecordingConfig, NEW p \in PipelineState,
         NEW sequence \in Nat, NEW time \in Nat, NEW size \in Nat,
         NEW outcome \in DecodeOutcome
  PROVE  Push(c, p, sequence, time, size, outcome) \in PipelineState
<1> DEFINE decoded == p.reflection /\ outcome = "ok"
           lose    == RowsLost(c, p, outcome)
           row     == [sequence |-> sequence, at |-> time,
                       blob |-> KeepRaw(c) \/ ~decoded, decoded |-> decoded]
           kept    == IF lose THEN <<>> ELSE p.rows
<1>1. row \in Row
  BY DEF Row, KeepRaw, PipelineState
<1>2. kept \in Seq(Row)
  BY EmptySeq DEF PipelineState
<1>3. Append(kept, row) \in Seq(Row)
  BY <1>1, <1>2
<1>4. ((IF lose THEN 0 ELSE p.bytes) + size) \in Nat
  BY DEF PipelineState
<1>5. (p.reflection /\ outcome # "unrecoverable") \in BOOLEAN
  BY DEF PipelineState
<1> QED
  BY <1>3, <1>4, <1>5 DEF Push, PipelineState

\* Pipeline::take leaves a pipeline without rows.
LEMMA EmptiedType ==
  ASSUME NEW p \in PipelineState
  PROVE  Emptied(p) \in PipelineState /\ Emptied(p).rows = <<>>
BY EmptySeq DEF Emptied, PipelineState

\* The lenses leave columns of the kinds there are.
LEMMA SentColumnsType ==
  ASSUME NEW c, NEW p, NEW fate
  PROVE  SentColumns(c, p, fate) \subseteq Representation
BY DEF SentColumns, LensColumns, TakenColumns, LensMode, Representation

\* A flush that the lenses leave some column of hands over a chunk.
LEMMA TakeChunkType ==
  ASSUME NEW c \in RecordingConfig, NEW p \in PipelineState, NEW t \in Nat, NEW fate,
         SentColumns(c, p, fate) # {}
  PROVE  TakeChunk(c, p, t, fate) \in Chunk
<1> DEFINE columns == SentColumns(c, p, fate)
           failed  == LensFails(c, p, fate)
           out     == [i \in DOMAIN p.rows |->
                        [sequence |-> p.rows[i].sequence,
                         blob     |-> "raw" \in columns /\ p.rows[i].blob,
                         struct   |-> "reflected" \in columns /\ p.rows[i].decoded,
                         lenses   |-> "lenses" \in columns /\ ~failed /\ p.rows[i].decoded]]
<1>1. p.rows \in Seq(Row)
  BY DEF PipelineState
<1>2. \A i \in DOMAIN p.rows : p.rows[i] \in Row
  BY <1>1
<1>3. \A i \in DOMAIN p.rows : out[i] \in StoredRow
  BY <1>2 DEF Row, StoredRow
<1>4. out \in Seq(StoredRow)
  <2>1. DOMAIN p.rows = 1 .. Len(p.rows) /\ Len(p.rows) \in Nat
    BY <1>1
  <2>2. out \in [1 .. Len(p.rows) -> StoredRow]
    BY <1>3, <2>1
  <2> QED
    BY <2>1, <2>2, SeqDef
<1>5. columns \in (SUBSET Representation) \ {{}}
  BY SentColumnsType
<1>6. failed \in BOOLEAN
  BY DEF LensFails
<1> HIDE DEF columns, failed, out
<1>7. TakeChunk(c, p, t, fate) =
         [topic |-> t, columns |-> columns, bytes |-> p.bytes, lens_failed |-> failed,
          rows |-> out]
  BY DEF TakeChunk, columns, failed, out
<1> QED
  BY <1>4, <1>5, <1>6, <1>7 DEF Chunk, PipelineState

-----------------------------------------------------------------------------
(* What they do to rows. *)

\* A push leaves rows it held where they were, or drops them all, and adds the
\* message last.
LEMMA PushRows ==
  ASSUME NEW c \in RecordingConfig, NEW p \in PipelineState,
         NEW sequence \in Nat, NEW time \in Nat, NEW size \in Nat,
         NEW outcome \in DecodeOutcome
  PROVE  LET rows == Push(c, p, sequence, time, size, outcome).rows
         IN  /\ Len(rows) \in Nat /\ DOMAIN rows = 1 .. Len(rows)
             /\ \A i \in DOMAIN rows :
                  \/ i \in DOMAIN p.rows /\ i < Len(rows) /\ rows[i] = p.rows[i]
                  \/ i = Len(rows) /\ rows[i].sequence = sequence /\ rows[i].at = time
<1>0. PICK q : q = Push(c, p, sequence, time, size, outcome)
  OBVIOUS
<1> DEFINE decoded == p.reflection /\ outcome = "ok"
           row  == [sequence |-> sequence, at |-> time,
                    blob |-> KeepRaw(c) \/ ~decoded, decoded |-> decoded]
           kept == IF RowsLost(c, p, outcome) THEN <<>> ELSE p.rows
<1>1. row \in Row /\ row.sequence = sequence /\ row.at = time
  BY DEF Row, KeepRaw, PipelineState
<1>2. kept \in Seq(Row) /\ DOMAIN kept \subseteq DOMAIN p.rows
  BY EmptySeq DEF PipelineState
<1>3. \A i \in DOMAIN kept : kept[i] = p.rows[i]
  OBVIOUS
<1>4. q.rows = Append(kept, row)
  BY <1>0 DEF Push, PipelineState
<1> HIDE DEF row, kept
<1>5. /\ Append(kept, row) \in Seq(Row)
      /\ Len(Append(kept, row)) = Len(kept) + 1
      /\ \A i \in 1 .. Len(kept) : Append(kept, row)[i] = kept[i]
      /\ Append(kept, row)[Len(kept) + 1] = row
  BY <1>1, <1>2, AppendProperties
<1>6. Len(kept) \in Nat /\ DOMAIN kept = 1 .. Len(kept)
  BY <1>2
<1>7. Len(q.rows) = Len(kept) + 1 /\ DOMAIN q.rows = 1 .. Len(kept) + 1
  BY <1>4, <1>5, <1>6
<1>8. ASSUME NEW i \in DOMAIN q.rows, i # Len(q.rows)
      PROVE  i \in DOMAIN p.rows /\ i < Len(q.rows) /\ q.rows[i] = p.rows[i]
  BY <1>2, <1>3, <1>4, <1>5, <1>6, <1>7, <1>8
<1>9. q.rows[Len(q.rows)] = row
  BY <1>4, <1>5, <1>7
<1>10. /\ q.rows[Len(q.rows)].sequence = sequence
       /\ q.rows[Len(q.rows)].at = time
  BY <1>1, <1>9
<1>11. Len(q.rows) \in Nat /\ DOMAIN q.rows = 1 .. Len(q.rows)
  BY <1>6, <1>7
<1> QED
  BY <1>0, <1>8, <1>10, <1>11

\* So it never leaves a pipeline empty.
LEMMA PushHolds ==
  ASSUME NEW c \in RecordingConfig, NEW p \in PipelineState,
         NEW sequence \in Nat, NEW time \in Nat, NEW size \in Nat,
         NEW outcome \in DecodeOutcome
  PROVE  Push(c, p, sequence, time, size, outcome).rows # <<>>
<1>1. PICK kept \in Seq(Row), row \in Row :
         Push(c, p, sequence, time, size, outcome).rows = Append(kept, row)
  <2> DEFINE decoded == p.reflection /\ outcome = "ok"
             new  == [sequence |-> sequence, at |-> time,
                      blob |-> KeepRaw(c) \/ ~decoded, decoded |-> decoded]
             held == IF RowsLost(c, p, outcome) THEN <<>> ELSE p.rows
  <2>1. new \in Row /\ held \in Seq(Row)
    BY EmptySeq DEF Row, KeepRaw, PipelineState
  <2>2. Push(c, p, sequence, time, size, outcome).rows = Append(held, new)
    BY DEF Push, PipelineState
  <2> QED
    BY <2>1, <2>2
<1>2. Append(kept, row) # <<>>
  BY AppendProperties
<1> QED
  BY <1>1, <1>2

\* A chunk has the rows that were buffered, in their order.
LEMMA TakeChunkRows ==
  ASSUME NEW c, NEW p \in PipelineState, NEW t, NEW fate
  PROVE  /\ TakeChunk(c, p, t, fate).topic = t
         /\ DOMAIN TakeChunk(c, p, t, fate).rows = DOMAIN p.rows
         /\ \A i \in DOMAIN p.rows :
               TakeChunk(c, p, t, fate).rows[i].sequence = p.rows[i].sequence
BY DEF TakeChunk

\* The numbers of the rows a pipeline holds.
Numbered(p) == {p.rows[i].sequence : i \in DOMAIN p.rows}

\* A push leaves the new number and those that were held, unless the decoder
\* took them down.
LEMMA PushNumbers ==
  ASSUME NEW c \in RecordingConfig, NEW p \in PipelineState,
         NEW sequence \in Nat, NEW time \in Nat, NEW size \in Nat,
         NEW outcome \in DecodeOutcome,
         NEW q, q = Push(c, p, sequence, time, size, outcome)
  PROVE  Numbered(q) = {sequence} \union (IF RowsLost(c, p, outcome) THEN {} ELSE Numbered(p))
<1> DEFINE decoded == p.reflection /\ outcome = "ok"
           row  == [sequence |-> sequence, at |-> time,
                    blob |-> KeepRaw(c) \/ ~decoded, decoded |-> decoded]
           kept == IF RowsLost(c, p, outcome) THEN <<>> ELSE p.rows
<1>1. row \in Row /\ row.sequence = sequence
  BY DEF Row, KeepRaw, PipelineState
<1>2. kept \in Seq(Row)
  BY EmptySeq DEF PipelineState
<1>3. q.rows = Append(kept, row)
  BY DEF Push, PipelineState
<1>4. /\ RowsLost(c, p, outcome) => DOMAIN kept = {}
      /\ ~RowsLost(c, p, outcome) => kept = p.rows
  OBVIOUS
<1> HIDE DEF row, kept
<1>5. /\ Len(kept) \in Nat /\ DOMAIN kept = 1 .. Len(kept)
      /\ DOMAIN q.rows = 1 .. Len(kept) + 1
      /\ \A i \in DOMAIN kept : q.rows[i] = kept[i]
      /\ q.rows[Len(kept) + 1] = row
  BY <1>1, <1>2, <1>3, AppendProperties
<1>6. DOMAIN q.rows = DOMAIN kept \union {Len(kept) + 1}
  BY <1>5
<1>7. /\ sequence \in Numbered(q)
      /\ ~RowsLost(c, p, outcome) => Numbered(p) \subseteq Numbered(q)
      /\ Numbered(q) \subseteq
            {sequence} \union (IF RowsLost(c, p, outcome) THEN {} ELSE Numbered(p))
  BY <1>1, <1>4, <1>5, <1>6 DEF Numbered
<1> QED
  BY <1>7

=============================================================================
