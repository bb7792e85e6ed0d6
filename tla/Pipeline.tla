------------------------------ MODULE Pipeline ------------------------------
(***************************************************************************)
(* What one topic keeps of its messages, and in which columns: the         *)
(* Pipeline of crates/rosbag2_storage_rrd_ffi/src/pipeline.rs.             *)
(*                                                                         *)
(* A message is one row.  Its bytes are abstracted to the sequence number  *)
(* the writer gave it and to its size; its forms are abstracted to whether *)
(* the row holds the raw bytes (blob) and whether the decoder holds it     *)
(* (decoded).  A Chunk is the rows of one flush with the columns that      *)
(* survived the lenses; what a flush hands over in several pieces is still *)
(* one Chunk here, and Bag.tla takes it apart.  Everything here is a pure  *)
(* operator on a pipeline record; Recorder.tla gives it its actions.       *)
(*                                                                         *)
(* The lenses themselves (re_lenses) and the CDR decoder (re_ros_msg) are  *)
(* external: a decode has one of three outcomes, and lenses are known by   *)
(* what their output mode forwards and by whether one of them fails, which *)
(* costs some or all of what they derive and nothing of what is forwarded. *)
(***************************************************************************)
EXTENDS Naturals, Sequences

Representation == {"raw", "reflected", "lenses"}

\* CdrArrowDecoder::decode_message: Ok, Err(Message) or Err(Unrecoverable).
DecodeOutcome == {"ok", "message", "unrecoverable"}

\* What becomes of the rows a flush takes: they are sent; no chunk can be built
\* of them; or a lens fails on the chunk, and leaves part of its output or none.
Fate == {"sent", "unbuilt", "partial", "nothing"}

\* A recording's configuration, as far as it decides what is kept and when.
\* 0 stands for "no limit" in the three limits, as in the config file.
RecordingConfig ==
    [representations : SUBSET Representation,
     unmatched       : {"keep", "drop"},
     max_rows        : Nat,
     max_bytes       : Nat,
     max_latency     : Nat]

\* What ConfigFile::apply lets through.
Accepted(config) ==
    /\ config.representations # {}
    /\ \/ config.unmatched = "keep"
       \/ /\ "lenses" \in config.representations
          /\ "reflected" \notin config.representations

\* The two facts about a topic's type that decide what becomes of it: whether
\* its .msg definition can be reflected, and whether some lens takes it.
TopicKind == [reflectable : BOOLEAN, matched : BOOLEAN]

\* A buffered row: its times, and which forms it has.  at is when it was buffered,
\* which the code does not keep and the latency bound is about.
Row == [sequence : Nat, at : Nat, blob : BOOLEAN, decoded : BOOLEAN]

\* reflection is whether the decoder is alive.
PipelineState ==
    [reflection : BOOLEAN,
     matched    : BOOLEAN,
     stored     : SUBSET Representation,
     rows       : Seq(Row),
     bytes      : Nat]

\* A row of a chunk: which forms of the message the chunk's columns hold.  lenses
\* is all that the lenses derive from it.
StoredRow == [sequence : Nat, blob : BOOLEAN, struct : BOOLEAN, lenses : BOOLEAN]

\* One flush of one topic as it reaches the recording stream.
Chunk ==
    [topic       : Nat,
     columns     : (SUBSET Representation) \ {{}},
     bytes       : Nat,
     lens_failed : BOOLEAN,
     rows        : Seq(StoredRow)]

KeepRaw(config) == "raw" \in config.representations

\* Which output mode the lenses run in, "none" when they were not asked for.
LensMode(config) ==
    IF "lenses" \notin config.representations THEN "none"
    ELSE IF "reflected" \in config.representations THEN "ForwardAll"
    ELSE IF config.unmatched = "keep" THEN "ForwardUnmatched"
    ELSE "DropUnmatched"

\* What a topic will actually hold, given what was asked for.
Stored(config, reflection, matched) ==
    IF ~reflection THEN {"raw"}
    ELSE (config.representations \intersect {"raw", "reflected"})
         \union (IF LensMode(config) # "none" /\ matched THEN {"lenses"} ELSE {})
         \union (IF /\ LensMode(config) \in {"ForwardAll", "ForwardUnmatched"}
                    /\ ~matched
                 THEN {"reflected"} ELSE {})

NewPipeline(config, kind) ==
    LET needed     == config.representations \intersect {"reflected", "lenses"} # {}
        reflection == needed /\ kind.reflectable
    IN  [reflection |-> reflection,
         matched    |-> kind.matched,
         stored     |-> Stored(config, reflection, kind.matched),
         rows       |-> <<>>,
         bytes      |-> 0]

\* Whether the log line at creation says the topic can be replayed.
IsReplayable(p) == p.stored \intersect {"raw", "reflected"} # {}

-----------------------------------------------------------------------------
\* Rows that a decode outcome costs the pipeline: an unrecoverable decoder
\* takes the rows it held with it, unless each has its raw copy.
RowsLost(config, p, outcome) ==
    p.reflection /\ outcome = "unrecoverable" /\ ~KeepRaw(config)

\* Buffers one message as one row, in every form the recording keeps of it.
Push(config, p, sequence, at, size, outcome) ==
    LET decoded == p.reflection /\ outcome = "ok"
        lost    == RowsLost(config, p, outcome)
        row     == [sequence |-> sequence,
                    at       |-> at,
                    blob     |-> KeepRaw(config) \/ ~decoded,
                    decoded  |-> decoded]
    IN  [p EXCEPT !.reflection = @ /\ outcome # "unrecoverable",
                  !.rows       = Append(IF lost THEN <<>> ELSE @, row),
                  !.bytes      = (IF lost THEN 0 ELSE @) + size]

\* The columns the taken chunk is built with: the blob column if any row kept
\* its bytes, the struct column if the decoder is alive and holds any row.
TakenColumns(p) ==
    (IF \E i \in DOMAIN p.rows : p.rows[i].blob THEN {"raw"} ELSE {})
    \union
    (IF p.reflection /\ \E i \in DOMAIN p.rows : p.rows[i].decoded
     THEN {"reflected"} ELSE {})

\* Whether some lens takes a chunk with these columns: one takes the struct
\* column of a matched type, none takes the blob column.
Consumed(config, matched, columns) ==
    LensMode(config) # "none" /\ matched /\ "reflected" \in columns

\* Mutant: a lens that leaves nothing ends the flush.
LensColumnsOrNothing(config, matched, columns, fate) ==
    LET consumed == Consumed(config, matched, columns)
        derived  == IF consumed THEN {"lenses"} ELSE {}
    IN  CASE consumed /\ fate = "nothing"            -> {}
          [] LensMode(config) = "none"             -> columns
          [] LensMode(config) = "ForwardAll"       -> columns \union derived
          [] LensMode(config) = "ForwardUnmatched" ->
                (IF consumed THEN columns \ {"reflected"} ELSE columns)
                \union derived
          [] LensMode(config) = "DropUnmatched"    -> derived

\* What of a chunk's columns survives the lenses ("lenses" is their output).  A
\* lens that fails is only logged: what it leaves is sent, if it leaves anything.
LensColumns(config, matched, columns, fate) ==
    LET consumed == Consumed(config, matched, columns)
        derived  == IF consumed /\ fate # "nothing" THEN {"lenses"} ELSE {}
    IN  CASE LensMode(config) = "none"             -> columns
          [] LensMode(config) = "ForwardAll"       -> columns \union derived
          [] LensMode(config) = "ForwardUnmatched" ->
                (IF consumed THEN columns \ {"reflected"} ELSE columns)
                \union derived
          [] LensMode(config) = "DropUnmatched"    -> derived

SentColumns(config, p, fate) == LensColumns(config, p.matched, TakenColumns(p), fate)

\* Whether a lens fails on what is taken.
LensFails(config, p, fate) ==
    fate \in {"partial", "nothing"} /\ Consumed(config, p.matched, TakenColumns(p))

\* The buffered rows as the chunk that is sent: per row, the forms it has in
\* the columns that survived.
TakeChunk(config, p, topic, fate) ==
    LET columns == SentColumns(config, p, fate)
        failed  == LensFails(config, p, fate)
    IN  [topic       |-> topic,
         columns     |-> columns,
         bytes       |-> p.bytes,
         lens_failed |-> failed,
         rows        |-> [i \in DOMAIN p.rows |->
            [sequence |-> p.rows[i].sequence,
             blob     |-> "raw" \in columns /\ p.rows[i].blob,
             struct   |-> "reflected" \in columns /\ p.rows[i].decoded,
             lenses   |-> "lenses" \in columns /\ ~failed /\ p.rows[i].decoded]]]

Emptied(p) == [p EXCEPT !.rows = <<>>, !.bytes = 0]

\* Columns::holds_messages: a chunk with neither column is lens output only.
HoldsMessages(chunk) == chunk.columns \intersect {"raw", "reflected"} # {}

=============================================================================
