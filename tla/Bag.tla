-------------------------------- MODULE Bag --------------------------------
(***************************************************************************)
(* A bag being recorded, from open to close: a Recorder and the Streams it *)
(* records into.                                                           *)
(*                                                                         *)
(* A topic's description is sent when the topic is created, and the chunks *)
(* of a flush one by one when its topic is flushed: the one with what is   *)
(* left of the messages, and those that the lenses derived, which go by    *)
(* one item here.  The call goes on once both streams have all of them.    *)
(* Close flushes the topics, sends the metadata document and closes the    *)
(* streams.  Building a description or the document can fail, which is     *)
(* logged only.                                                            *)
(***************************************************************************)
EXTENDS Recorder

CONSTANTS
    ConnectTimeout, LiveQueue,  \* Of Streams.
    BuildFaults                 \* Whether building what is not a message fails: Booleans.

ASSUME StreamLimitsAssumption == ConnectTimeout \in Nat /\ LiveQueue \in Nat
ASSUME BuildFaultsAssumption == BuildFaults \subseteq BOOLEAN /\ FALSE \in BuildFaults

VARIABLES
    stage, waited, server, hand, aired, given, missed, disk, on_disk, footer, outcome,
    metadata_yaml,  \* Whether there is a document to send at close.
    parts,          \* Of the flush in progress: what is still to be sent.
    nameless        \* History: slots whose description could not be built.

Item == [what : {"topic", "chunk", "lenses", "metadata"}, of : Nat]

Streams == INSTANCE Streams WITH Items <- Item

streams == <<stage, waited, server, hand, aired, given, missed, disk, on_disk,
             footer, outcome>>
bag     == <<metadata_yaml, parts, nameless>>
bagVars == <<vars, streams, bag>>

BagInit ==
    /\ Init
    /\ Streams!Init
    /\ metadata_yaml = FALSE
    /\ parts = {}
    /\ nameless = {}

Description(t) == [what |-> "topic", of |-> t]
ChunkAt(d)     == [what |-> "chunk", of |-> d]
LensOutput(d)  == [what |-> "lenses", of |-> d]
Metadata       == [what |-> "metadata", of |-> 0]

\* What the flush that is entry d of file sends.
PartsOf(d, chunk) ==
    (IF HoldsMessages(chunk) THEN {ChunkAt(d)} ELSE {})
    \union (IF "lenses" \in chunk.columns THEN {LensOutput(d)} ELSE {})

-----------------------------------------------------------------------------
\* The thread of the caller is at the core: open, and nothing left to send.
AtCore == stage = "open" /\ hand = <<>> /\ parts = {}

\* Mutant: a topic is described once it has recorded something.
CreateUndescribed(name, kind, fails) ==
    /\ AtCore
    /\ CreateTopic(name, kind)
    /\ nameless' = IF fails THEN nameless \union {Len(topics) + 1} ELSE nameless
    /\ UNCHANGED <<streams, metadata_yaml, parts>>

\* Writer::create_topic, with the description that Topic::new sends.
Create(name, kind, fails) ==
    /\ AtCore
    /\ CreateTopic(name, kind)
    /\ IF fails
       THEN nameless' = nameless \union {Len(topics) + 1} /\ UNCHANGED streams
       ELSE Streams!Give(Description(Len(topics) + 1)) /\ UNCHANGED nameless
    /\ UNCHANGED <<metadata_yaml, parts>>

\* A step of the Recorder leaves the parts of what it cuts to be sent.
Sending ==
    /\ parts' = IF file' = file THEN {} ELSE PartsOf(Len(file'), file'[Len(file')])
    /\ UNCHANGED <<streams, metadata_yaml, nameless>>

\* A turn of the loop of Topic::flush, in the order the lenses hand them out.
SendChunk ==
    /\ \E item \in parts : Streams!Give(item) /\ parts' = parts \ {item}
    /\ UNCHANGED <<vars, metadata_yaml, nameless>>

Record ==
    /\ AtCore
    /\ \/ WriteNoTopic
       \/ \E t \in Slots : WriteRetired(t)
       \/ \E t \in Slots, size \in Sizes, fate \in Fates :
             \E how \in OutcomesOf(t) : Write(t, size, how, fate)
       \/ \E name \in Names, fate \in Fates : RemoveTopic(name, fate)
    /\ Sending

\* Writer::close.  What rosbag2 handed over with Writer::set_metadata by then,
\* if anything, only matters from here on.
BeginClose(metadata) ==
    /\ AtCore
    /\ Close
    /\ metadata_yaml' = metadata
    /\ UNCHANGED <<streams, parts, nameless>>

Time == AtCore /\ Tick /\ Sending

\* The rest of a write, and of a close up to the metadata.
Loop ==
    /\ AtCore
    /\ \/ \E fate \in Fates : SweepTopic(fate) \/ CloseTopic(fate)
       \/ SweepDone
    /\ Sending

\* The end of Writer::close: the document, then the streams.
SendMetadata(fails) ==
    /\ AtCore
    /\ pc = "close" /\ at > Len(topics)
    /\ metadata_yaml
    /\ metadata_yaml' = FALSE
    /\ IF fails THEN UNCHANGED streams ELSE Streams!Give(Metadata)
    /\ UNCHANGED <<vars, parts, nameless>>

CloseStreams ==
    /\ AtCore
    /\ ~metadata_yaml
    /\ CloseDone
    /\ Streams!BeginClose
    /\ UNCHANGED bag

\* The steps of the streams themselves, in the middle of a call.
Stream == Streams!Caller /\ UNCHANGED <<vars, bag>>
World  == Streams!World /\ UNCHANGED <<vars, bag>>

Caller ==
    \/ Loop
    \/ SendChunk
    \/ \E fails \in BuildFaults : SendMetadata(fails)
    \/ CloseStreams
    \/ Stream

BagNext ==
    \/ \E name \in Names, kind \in Kinds, fails \in BuildFaults : Create(name, kind, fails)
    \/ Record
    \/ \E metadata \in BOOLEAN : BeginClose(metadata)
    \/ Time
    \/ Caller
    \/ World

\* The thread that calls keeps going and the file's sink keeps writing; nothing
\* is asked of the server.
BagSpec ==
    /\ BagInit /\ [][BagNext]_bagVars
    /\ WF_bagVars(Caller)
    /\ WF_bagVars(Streams!Drain /\ UNCHANGED <<vars, bag>>)

-----------------------------------------------------------------------------
OnDisk == {given[i] : i \in 1 .. on_disk}

\* Whether the file holds all that a flush sent.
Whole(d) == PartsOf(d, file[d]) \subseteq OnDisk

\* The messages of a topic that the file holds with all that was sent of them.
StoredOf(t) ==
    UNION {Sequences(file[d].rows) : d \in {e \in DOMAIN file : file[e].topic = t /\ Whole(e)}}

\* Whenever the process dies, and also when the disk fails, the file holds the
\* first messages of each topic: all that were written before one that it
\* holds, but for those a failure lost.  Only the last flush that the file has
\* anything of may lack some of what it sent.  writer.rs:105-110,
\* record.rs:159-169.
FirstMessagesKept ==
    /\ \A m, n \in accepted :
          m.topic = n.topic /\ m.sequence < n.sequence /\ n.sequence \in StoredOf(n.topic) =>
              m.sequence \in StoredOf(m.topic) \union LostSequences
    /\ \A d, e \in DOMAIN file :
          d < e /\ PartsOf(e, file[e]) \intersect OnDisk # {} => Whole(d)

\* A reader that finds messages or lens output in the file, whole or cut short,
\* finds what their topic is before it.  record.rs:58-69, writer.rs:203-216.
DescribedFirst ==
    \A i \in 1 .. on_disk :
        given[i].what \in {"chunk", "lenses"} =>
            LET t == file[given[i].of].topic
            IN  t \in nameless \/ \E j \in 1 .. i - 1 : given[j] = Description(t)

\* A close that returns Ok has left every message in the file, with all that was
\* sent of it, that no earlier failure lost: nothing stays behind in a buffer,
\* half sent in the caller's hands or in the sink.  writer.rs:126-140, 280-297.
ClosedHoldsAll ==
    stage = "closed" /\ outcome = "ok" =>
        \A m \in accepted : m.sequence \in StoredOf(m.topic) \union LostSequences

\* The streams of this bag: their types, what a close returns, and that no call
\* waits for a server (Streams.tla).
StreamsTypeOK     == Streams!TypeOK
CloseTellsTheFile == Streams!CloseTellsTheFile
NeverHeldUp       == Streams!NeverHeldUp

\* Opening comes to an end though no server ever answers.  writer.rs:79-103.
OpenReturns == stage = "saving" ~> stage \in {"open", "failed", "crashed"}

\* A close that starts ends, whatever the server does and whatever fails.
\* writer.rs:126-140, 280-297.
BagCloses == pc = "close" ~> stage \in {"closed", "crashed"}

=============================================================================
