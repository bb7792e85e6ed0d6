----------------------------- MODULE BagProofs -----------------------------
(***************************************************************************)
(* A bag drives its recorder as Recorder.tla says one is driven, and its   *)
(* streams as Streams.tla says, so what either keeps holds for every bag:  *)
(* any configuration, any topics, any failures, and a crash at any step.   *)
(***************************************************************************)
EXTENDS Bag, MessageProofs

Kept == INSTANCE StreamsProofs WITH Items <- Item

-----------------------------------------------------------------------------
(* The recorder of a bag. *)

\* A step of the bag is one of its recorder, or leaves it alone.
LEMMA BagStepsRecorder == [BagNext]_bagVars => [Next]_vars
  <1> SUFFICES ASSUME [BagNext]_bagVars PROVE Next \/ UNCHANGED vars
    OBVIOUS
  <1> USE DEF Next, Call, Step
  <1>1. ASSUME NEW name \in Names, NEW kind \in Kinds, NEW fails \in BuildFaults,
               Create(name, kind, fails)
        PROVE  Next
    BY <1>1 DEF Create
  <1>2. CASE Record
    BY <1>2 DEF Record
  <1>3. ASSUME NEW metadata \in BOOLEAN, BeginClose(metadata) PROVE Next
    BY <1>3 DEF BeginClose
  <1>4. CASE Time
    BY <1>4 DEF Time
  <1>5. CASE Loop
    BY <1>5 DEF Loop
  <1>6. ASSUME NEW fails \in BuildFaults, SendMetadata(fails) PROVE UNCHANGED vars
    BY <1>6 DEF SendMetadata
  <1>7. CASE CloseStreams
    BY <1>7 DEF CloseStreams
  <1>8. CASE SendChunk \/ Stream \/ World
    BY <1>8 DEF SendChunk, Stream, World
  <1>9. CASE UNCHANGED bagVars
    BY <1>9 DEF bagVars
  <1> QED
    BY <1>1, <1>2, <1>3, <1>4, <1>5, <1>6, <1>7, <1>8, <1>9 DEF BagNext, Caller

\* The variables of the bag's recorder keep their types.
LEMMA BagTypes == BagSpec => []TypeOK
  <1>1. BagInit => TypeOK
    BY TypeInit DEF BagInit
  <1>2. TypeOK /\ [BagNext]_bagVars => TypeOK'
    BY BagStepsRecorder, TypeStep
  <1> QED
    BY <1>1, <1>2, PTL DEF BagSpec

-----------------------------------------------------------------------------
(* What a flush sends. *)

IsPart(item) == item.what \in {"chunk", "lenses"}

\* The parts of an entry of the recorder's file are items that name it.
LEMMA PartsAre ==
  ASSUME NEW d, NEW chunk, NEW item \in PartsOf(d, chunk)
  PROVE  IsPart(item) /\ item.of = d /\ (d \in Nat => item \in Item)
  BY DEF PartsOf, IsPart, ChunkAt, LensOutput, Item

\* A chunk has some column, so it is sent as something.
LEMMA PartsSome ==
  ASSUME NEW d, NEW chunk \in Chunk
  PROVE  PartsOf(d, chunk) # {}
  <1>1. chunk.columns \subseteq Representation /\ chunk.columns # {}
    BY DEF Chunk
  <1>2. \/ chunk.columns \intersect {"raw", "reflected"} # {}
        \/ "lenses" \in chunk.columns
    BY <1>1 DEF Representation
  <1> QED
    BY <1>2 DEF PartsOf, HoldsMessages

PartsTyped == parts \subseteq Item

\* What a step of the recorder leaves to be sent are items.
LEMMA SendingTyped ==
  ASSUME TypeOK', Sending
  PROVE  PartsTyped'
  <1>1. Len(file') \in Nat
    BY DEF TypeOK
  <1> QED
    BY <1>1, PartsAre DEF Sending, PartsTyped

\* What a flush has still to send are items.
LEMMA BagPartsTyped == BagSpec => []PartsTyped
  <1>1. BagInit => PartsTyped
    BY DEF BagInit, PartsTyped
  <1>2. TypeOK' /\ PartsTyped /\ [BagNext]_bagVars => PartsTyped'
    <2> SUFFICES ASSUME TypeOK', PartsTyped, [BagNext]_bagVars PROVE PartsTyped'
      OBVIOUS
    <2>1. CASE UNCHANGED parts
      BY <2>1 DEF PartsTyped
    <2>2. CASE Record \/ Time \/ Loop
      BY <2>2, SendingTyped DEF Record, Time, Loop
    <2>3. CASE SendChunk
      BY <2>3 DEF SendChunk, PartsTyped
    <2> QED
      BY <2>1, <2>2, <2>3
      DEF BagNext, Caller, Create, BeginClose, SendMetadata, CloseStreams, Stream, World,
          bag, bagVars
  <1> QED
    BY <1>1, <1>2, BagTypes, PTL DEF BagSpec

-----------------------------------------------------------------------------
(* Its streams. *)

\* A bag begins with streams as Streams has them begin.
LEMMA BagInitStreams == BagInit => Kept!Init
  BY DEF BagInit, Streams!Init, Kept!Init

\* Giving an item is a step of the streams.
LEMMA GiveStep ==
  ASSUME NEW item \in Item, Streams!Give(item)
  PROVE  Kept!Next
  BY DEF Streams!Give, Kept!Next, Kept!Give

\* A step of the bag is one of its streams, or leaves them alone.
LEMMA BagStepsStreams ==
  ASSUME TypeOK, PartsTyped, [BagNext]_bagVars
  PROVE  [Kept!Next]_(Kept!vars)
  <1> SUFFICES Kept!Next \/ UNCHANGED streams
    BY DEF streams, Kept!vars
  <1>1. ASSUME NEW name \in Names, NEW kind \in Kinds, NEW fails \in BuildFaults,
               Create(name, kind, fails)
        PROVE  Kept!Next \/ UNCHANGED streams
    <2>1. Description(Len(topics) + 1) \in Item
      BY DEF TypeOK, Description, Item
    <2> QED
      BY <1>1, <2>1, GiveStep DEF Create
  <1>2. CASE Record \/ Time \/ Loop
    BY <1>2 DEF Record, Time, Loop, Sending
  <1>3. ASSUME NEW metadata \in BOOLEAN, BeginClose(metadata) PROVE UNCHANGED streams
    BY <1>3 DEF BeginClose
  <1>4. ASSUME NEW fails \in BuildFaults, SendMetadata(fails)
        PROVE  Kept!Next \/ UNCHANGED streams
    <2>1. Metadata \in Item
      BY DEF Metadata, Item
    <2> QED
      BY <1>4, <2>1, GiveStep DEF SendMetadata
  <1>5. CASE CloseStreams
    BY <1>5 DEF CloseStreams, Streams!BeginClose, Kept!BeginClose, Kept!Next
  <1>6. CASE Stream
    BY <1>6 DEF Stream, Streams!Caller, Streams!Save, Streams!Poll, Streams!Air,
       Streams!Store, Streams!FlushLive, Streams!FlushFile, Streams!Drop, Streams!Fail,
       Streams!Opened, Streams!Alive, Streams!Stage, Kept!Caller, Kept!Save, Kept!Poll,
       Kept!Air, Kept!Store, Kept!FlushLive, Kept!FlushFile, Kept!Drop, Kept!Fail,
       Kept!Opened, Kept!Alive, Kept!Stage, Kept!Next
  <1>7. CASE World
    BY <1>7 DEF World, Streams!World, Streams!Drain, Streams!DiskBreaks,
       Streams!ServerAnswers, Streams!ServerLeaves, Streams!Crash, Streams!Alive,
       Streams!Stage, Kept!World, Kept!Drain, Kept!DiskBreaks, Kept!ServerAnswers,
       Kept!ServerLeaves, Kept!Crash, Kept!Alive, Kept!Stage, Kept!Next
  <1>8. CASE SendChunk
    BY <1>8, GiveStep DEF SendChunk, PartsTyped
  <1>9. CASE UNCHANGED bagVars
    BY <1>9 DEF bagVars
  <1> QED
    BY <1>1, <1>2, <1>3, <1>4, <1>5, <1>6, <1>7, <1>8, <1>9 DEF BagNext, Caller

\* What a bag does to its streams, Streams does: Bag implements Streams.
LEMMA BagKeepsStreams == BagSpec => Kept!Spec
  <1>1. TypeOK /\ PartsTyped /\ [BagNext]_bagVars => [Kept!Next]_(Kept!vars)
    BY BagStepsStreams
  <1> QED
    BY BagInitStreams, <1>1, BagTypes, BagPartsTyped, PTL DEF BagSpec, Kept!Spec

-----------------------------------------------------------------------------
\* The types Streams states hold in a bag.
LEMMA BagStreamTypes == BagSpec => []Kept!TypeOK
  BY BagKeepsStreams, Kept!TypeCorrect, PTL

\* A bag keeps its streams typed: the file's sink is never ahead of what a
\* bag gave it.
THEOREM BagStreamsTyped == BagSpec => []StreamsTypeOK
  <1>1. Kept!TypeOK => StreamsTypeOK
    BY DEF Kept!TypeOK, Kept!Stage, StreamsTypeOK, Streams!TypeOK, Streams!Stage
  <1> QED
    BY BagStreamTypes, <1>1, PTL

\* A bag implements both of its parts: seen without the streams it does what the
\* Recorder may do, and seen without the recorder what Streams may do, whose
\* items are its descriptions, chunks and document.
THEOREM BagImplements == BagSpec => Init /\ [][Next]_vars /\ Kept!Spec
  <1>1. BagInit => Init
    BY DEF BagInit
  <1> QED
    BY <1>1, BagStepsRecorder, BagKeepsStreams, PTL DEF BagSpec

\* Whatever a bag records and whatever fails, its close says Ok only when all
\* it was given is on disk, and a server never makes it fail.
THEOREM BagClosesTruly == BagSpec => []CloseTellsTheFile
  <1>1. Kept!CloseTellsTheFile => CloseTellsTheFile
    BY DEF CloseTellsTheFile, Streams!CloseTellsTheFile, Kept!CloseTellsTheFile
  <1> QED
    BY BagKeepsStreams, Kept!CloseTellsTheFileAlways, <1>1, PTL

\* And no step of it waits for a server that has not answered.
THEOREM BagNeverHeldUp == BagSpec => []NeverHeldUp
  <1>1. Kept!NeverHeldUp => NeverHeldUp
    BY DEF NeverHeldUp, Streams!NeverHeldUp, Kept!NeverHeldUp
  <1> QED
    BY BagKeepsStreams, Kept!NeverHeldUpAlways, <1>1, PTL

-----------------------------------------------------------------------------
(* What a topic is comes before all that is sent of it.  Its description is  *)
(* in the caller's hand when the topic gets its slot, and nothing is recorded *)
(* until the hand is empty again.                                            *)

Has(t) == t \in nameless \/ \E j \in DOMAIN given : given[j] = Description(t)

HasBefore(t, i) == t \in nameless \/ \E j \in 1 .. i - 1 : given[j] = Description(t)

DescribedInv ==
    /\ stage # "crashed" => \A t \in Slots : hand # <<Description(t)>> => Has(t)
    /\ \A i \in DOMAIN given : IsPart(given[i]) =>
          given[i].of \in DOMAIN file /\ HasBefore(file[given[i].of].topic, i)
    /\ hand # <<>> /\ IsPart(hand[1]) => hand[1].of \in DOMAIN file
    /\ \A item \in parts : IsPart(item) /\ item.of \in DOMAIN file

\* What is handed over to the recorder's file stays where it is, and a step hands
\* over at most one chunk.
FileGrows ==
    /\ \A c \in DOMAIN file : c \in DOMAIN file' /\ file'[c] = file[c]
    /\ \A c \in DOMAIN file' : c \in DOMAIN file \/ c = Len(file')

\* The list of what a recorder sent only grows, by at most one chunk a flush.
LEMMA SentGrows ==
  ASSUME TypeOK, NEW t, NEW topic, NEW fate, file' = Sent(t, topic, fate)
  PROVE  FileGrows
  <1>1. file \in Seq(Chunk)
    BY DEF TypeOK
  <1>2. CASE file' = file
    BY <1>2 DEF FileGrows
  <1>3. ASSUME NEW c, file' = Append(file, c) PROVE FileGrows
    BY <1>1, <1>3 DEF FileGrows
  <1> QED
    BY <1>2, <1>3 DEF Sent

\* No step of the recorder takes a chunk out of its file.
LEMMA RecorderGrows ==
  ASSUME TypeOK, [Next]_vars
  PROVE  FileGrows
  <1>1. CASE UNCHANGED file
    BY <1>1 DEF FileGrows
  <1>2. ASSUME NEW name \in Names, NEW fate \in Fates, RemoveTopic(name, fate)
        PROVE  FileGrows
    BY <1>2, SentGrows DEF RemoveTopic
  <1>3. ASSUME NEW t \in Slots, NEW size \in Sizes, NEW fate \in Fates,
               NEW how \in OutcomesOf(t), Write(t, size, how, fate)
        PROVE  FileGrows
    BY <1>1, <1>3, SentGrows DEF Write, Flush
  <1>4. ASSUME NEW fate \in Fates, SweepTopic(fate) \/ CloseTopic(fate)
        PROVE  FileGrows
    BY <1>1, <1>4, SentGrows DEF SweepTopic, CloseTopic, Flush
  <1> QED
    BY <1>1, <1>2, <1>3, <1>4
    DEF Next, Call, Step, vars, CreateTopic, WriteNoTopic, WriteRetired, Close,
        SweepDone, CloseDone, Tick

\* No step of the recorder but the creation of a topic makes a slot.
LEMMA RecorderSlots ==
  ASSUME TypeOK, Record \/ Time \/ Loop
  PROVE  Slots' = Slots
  <1>1. ASSUME NEW t, NEW topic, NEW fate, Flush(t, topic, fate)
        PROVE  Slots' = Slots
    BY <1>1 DEF Flush, Slots, TypeOK
  <1>2. CASE UNCHANGED topics
    BY <1>2 DEF Slots
  <1>3. ASSUME NEW name \in Names, NEW fate \in Fates, RemoveTopic(name, fate)
        PROVE  Slots' = Slots
    BY <1>3 DEF RemoveTopic, Slots, TypeOK
  <1>4. ASSUME NEW t \in Slots, NEW size \in Sizes, NEW fate \in Fates,
               NEW how \in OutcomesOf(t), Write(t, size, how, fate)
        PROVE  Slots' = Slots
    <2>1. CASE topics' = [topics EXCEPT ![t] = Pushed(t, size, how)]
      BY <2>1 DEF Slots, TypeOK
    <2> QED
      BY <1>1, <1>4, <2>1 DEF Write
  <1>5. ASSUME NEW fate \in Fates, SweepTopic(fate) \/ CloseTopic(fate)
        PROVE  Slots' = Slots
    BY <1>1, <1>2, <1>5 DEF SweepTopic, CloseTopic
  <1> QED
    BY <1>2, <1>3, <1>4, <1>5
    DEF Record, Time, Loop, WriteNoTopic, WriteRetired, SweepDone, Tick

\* While the hand is empty every topic is described.
LEMMA AllDescribed ==
  ASSUME DescribedInv, stage = "open", hand = <<>>, NEW t \in Slots
  PROVE  Has(t)
  BY DEF DescribedInv

\* The chunks given so far keep their topics, and those their descriptions.
LEMMA GivenKept ==
  ASSUME DescribedInv, UNCHANGED <<given, nameless>>, FileGrows
  PROVE  (\A i \in DOMAIN given : IsPart(given[i]) =>
            given[i].of \in DOMAIN file /\ HasBefore(file[given[i].of].topic, i))'
  <1> SUFFICES ASSUME NEW i \in DOMAIN given, IsPart(given[i])
               PROVE  (given[i].of \in DOMAIN file /\ HasBefore(file[given[i].of].topic, i))'
    BY DEF IsPart
  <1>1. given[i].of \in DOMAIN file /\ HasBefore(file[given[i].of].topic, i)
    BY DEF DescribedInv
  <1>2. given[i].of \in DOMAIN file' /\ file'[given[i].of] = file[given[i].of]
    BY <1>1 DEF FileGrows
  <1> QED
    BY <1>1, <1>2 DEF HasBefore, Description

\* A step that leaves the streams alone, or loses the hand.
LEMMA DescribedKept ==
  ASSUME DescribedInv, OrderInv, UNCHANGED <<given, nameless>>, FileGrows, Slots' = Slots,
         \A item \in parts' : item \in parts \/ (IsPart(item) /\ item.of \in DOMAIN file'),
         \/ hand' = hand /\ (stage' # "crashed" => stage # "crashed")
         \/ hand' = <<>> /\ stage' = "crashed"
  PROVE  DescribedInv'
  <1>1. \A t : Has(t) => Has(t)'
    BY DEF Has, Description
  <1>2. stage' # "crashed" => \A t \in Slots' : hand' # <<Description(t)>> => Has(t)'
    BY <1>1 DEF DescribedInv
  <1>3. hand' # <<>> /\ IsPart(hand'[1]) => hand'[1].of \in DOMAIN file'
    BY DEF DescribedInv, FileGrows, IsPart
  <1>4. \A item \in parts' : IsPart(item) /\ item.of \in DOMAIN file'
    BY DEF DescribedInv, FileGrows
  <1> QED
    BY <1>2, <1>3, <1>4, GivenKept DEF DescribedInv, IsPart

\* What is cut to be sent is of an entry of the file.
LEMMA DescribedSending ==
  ASSUME TypeOK, TypeOK', OrderInv, DescribedInv, Sending, FileGrows, Slots' = Slots
  PROVE  DescribedInv'
  <1>1. ASSUME NEW item \in parts' PROVE IsPart(item) /\ item.of \in DOMAIN file'
    <2>1. file' # file /\ item \in PartsOf(Len(file'), file'[Len(file')])
      BY <1>1 DEF Sending
    <2>2. Len(file') \in DOMAIN file'
      <3>1. file \in Seq(Chunk) /\ file' \in Seq(Chunk)
        BY DEF TypeOK
      <3>2. file' # <<>>
        BY <2>1, <3>1 DEF FileGrows
      <3> QED
        BY <3>1, <3>2
    <2> QED
      BY <2>1, <2>2, PartsAre
  <1> QED
    BY <1>1, DescribedKept DEF Sending, streams

\* A part that is sent is of a topic that is described.
LEMMA DescribedSent ==
  ASSUME OrderInv, DescribedInv, SendChunk
  PROVE  DescribedInv'
  <1>1. PICK item \in parts : Streams!Give(item) /\ parts' = parts \ {item}
    BY DEF SendChunk
  <1>2. /\ stage = "open" /\ hand = <<>> /\ hand' = <<item>>
        /\ UNCHANGED <<given, nameless, file, topics, stage>>
    BY <1>1 DEF SendChunk, Streams!Give, vars
  <1>3. IsPart(item) /\ item.of \in DOMAIN file
    BY DEF DescribedInv
  <1>4. \A t \in Slots' : Has(t)'
    BY <1>2, AllDescribed DEF Has, Description, Slots
  <1>5. FileGrows
    BY <1>2 DEF FileGrows
  <1>6. \A other \in parts' : IsPart(other) /\ other.of \in DOMAIN file'
    BY <1>1, <1>2 DEF DescribedInv
  <1> QED
    BY <1>2, <1>3, <1>4, <1>5, <1>6, GivenKept DEF DescribedInv, IsPart

\* The file's stream takes the one item in the hand behind those it was given.
LEMMA StoreTakes ==
  ASSUME Kept!TypeOK, Streams!Store, UNCHANGED <<vars, bag>>
  PROVE  /\ hand' = <<>> /\ stage # "crashed" /\ UNCHANGED <<file, topics, nameless>>
         /\ Len(given) \in Nat
         /\ DOMAIN given' = 1 .. Len(given) + 1 /\ DOMAIN given = 1 .. Len(given)
         /\ \A j \in DOMAIN given : given'[j] = given[j]
         /\ given'[Len(given) + 1] = hand[1]
         /\ hand = <<hand[1]>> /\ hand[1] \in Item
  <1>1. /\ given \in Seq(Item) /\ hand \in Seq(Item) /\ Len(hand) = 1
        /\ given' = given \o hand /\ hand' = <<>>
        /\ stage # "crashed"
        /\ UNCHANGED <<file, topics, nameless>>
    <2>1. given \in Seq(Item) /\ hand \in Seq(Item) /\ Len(hand) <= 1
      BY DEF Kept!TypeOK
    <2>2. hand # <<>> /\ given' = given \o hand /\ hand' = <<>> /\ stage # "crashed"
      BY DEF Streams!Store, Streams!Alive, Streams!Stage
    <2>3. Len(hand) = 1
      <3>1. PICK n \in Nat : n = Len(hand)
        BY <2>1, LenProperties
      <3>2. n # 0 /\ n <= 1
        BY <2>1, <2>2, <3>1, EmptySeq
      <3>3. n = 1
        BY <3>2
      <3> QED
        BY <3>1, <3>3
    <2> QED
      BY <2>1, <2>2, <2>3 DEF vars, bag
  <1>2. /\ Len(given') = Len(given) + 1 /\ Len(given) \in Nat
        /\ DOMAIN given' = 1 .. Len(given) + 1 /\ DOMAIN given = 1 .. Len(given)
        /\ \A j \in DOMAIN given : given'[j] = given[j]
        /\ given'[Len(given) + 1] = hand[1]
        /\ hand = <<hand[1]>>
    <2>1. given' \in Seq(Item) /\ Len(given') = Len(given) + 1 /\ Len(given) \in Nat
      <3>1. given \in Seq(Item) /\ hand \in Seq(Item) /\ Len(hand) = 1
        BY <1>1
      <3>2. /\ given \o hand \in Seq(Item)
            /\ Len(given \o hand) = Len(given) + Len(hand)
        BY <3>1, ConcatProperties, Zenon
      <3>3. Len(given) \in Nat
        BY <3>1, LenProperties
      <3> QED
        BY <1>1, <3>1, <3>2, <3>3
    <2>2. DOMAIN given' = 1 .. Len(given) + 1 /\ DOMAIN given = 1 .. Len(given)
      BY <1>1, <2>1
    <2>3. \A j \in DOMAIN given : given'[j] = given[j]
      BY <1>1, <2>2
    <2>4. given'[Len(given) + 1] = hand[1]
      BY <1>1, <2>1
    <2>5. hand = <<hand[1]>>
      BY <1>1
    <2> QED
      BY <2>1, <2>2, <2>3, <2>4, <2>5
  <1> QED
    BY <1>1, <1>2

\* The file's stream takes what is in the hand.
LEMMA DescribedStore ==
  ASSUME Kept!TypeOK, OrderInv, DescribedInv, Streams!Store, UNCHANGED <<vars, bag>>
  PROVE  DescribedInv'
  <1>1. /\ hand' = <<>> /\ stage # "crashed" /\ hand # <<>>
        /\ UNCHANGED <<file, topics, nameless>>
    BY StoreTakes
  <1>2. /\ Len(given) \in Nat
        /\ DOMAIN given' = 1 .. Len(given) + 1 /\ DOMAIN given = 1 .. Len(given)
        /\ \A j \in DOMAIN given : given'[j] = given[j]
        /\ given'[Len(given) + 1] = hand[1]
        /\ hand = <<hand[1]>>
    BY StoreTakes
  <1>3. \A t : Has(t) => Has(t)'
    BY <1>1, <1>2 DEF Has, Description
  <1>4. \A t \in Slots' : Has(t)'
    <2> SUFFICES ASSUME NEW t \in Slots PROVE Has(t)'
      BY <1>1 DEF Slots
    <2>1. CASE hand = <<Description(t)>>
      BY <1>1, <1>2, <2>1 DEF Has, Description
    <2>2. CASE hand # <<Description(t)>>
      BY <1>1, <1>3, <2>2 DEF DescribedInv
    <2> QED
      BY <2>1, <2>2
  <1>5. ASSUME NEW i \in DOMAIN given', IsPart(given[i])', i \in DOMAIN given
        PROVE  (given[i].of \in DOMAIN file /\ HasBefore(file[given[i].of].topic, i))'
    <2>1. given'[i] = given[i] /\ \A j \in 1 .. i - 1 : given'[j] = given[j]
      BY <1>2, <1>5
    <2>2. given[i].of \in DOMAIN file /\ HasBefore(file[given[i].of].topic, i)
      BY <1>5, <2>1 DEF DescribedInv, IsPart
    <2> QED
      BY <1>1, <2>1, <2>2 DEF HasBefore, Description
  <1>6. ASSUME NEW i \in DOMAIN given', IsPart(given[i])', i \notin DOMAIN given
        PROVE  (given[i].of \in DOMAIN file /\ HasBefore(file[given[i].of].topic, i))'
    <2>1. i = Len(given) + 1 /\ given'[i] = hand[1]
      BY <1>2, <1>6
    <2>2. IsPart(hand[1]) /\ hand[1].of \in DOMAIN file
      BY <1>1, <1>6, <2>1 DEF DescribedInv, IsPart
    <2>3. PICK u : u = file[hand[1].of].topic
      OBVIOUS
    <2>4. u \in Slots /\ hand # <<Description(u)>>
      BY <2>2, <2>3 DEF OrderInv, SequencesGiven, IsPart, Description
    <2>5. Has(u)
      BY <1>1, <2>4 DEF DescribedInv
    <2>6. u \in nameless \/ \E j \in 1 .. i - 1 : given'[j] = Description(u)
      BY <1>2, <2>1, <2>5 DEF Has
    <2> QED
      BY <1>1, <2>1, <2>2, <2>3, <2>6 DEF HasBefore, Description
  <1>7. \A item \in parts' : IsPart(item) /\ item.of \in DOMAIN file'
    BY DEF DescribedInv, bag, vars
  <1> QED
    BY <1>1, <1>4, <1>5, <1>6, <1>7 DEF DescribedInv, IsPart

\* A step of the bag keeps all that is sent of a topic behind the description of its topic.
LEMMA DescribedStep ==
  ASSUME TypeOK, TypeOK', Kept!TypeOK, OrderInv, DescribedInv, [BagNext]_bagVars
  PROVE  DescribedInv'
  <1>1. FileGrows
    BY BagStepsRecorder, RecorderGrows
  <1>2. ASSUME NEW name \in Names, NEW kind \in Kinds, NEW fails \in BuildFaults,
               Create(name, kind, fails)
        PROVE  DescribedInv'
    <2>1. /\ stage = "open" /\ hand = <<>> /\ UNCHANGED <<given, stage, file, parts>>
          /\ \A t \in Slots' : t \in Slots \/ t = Len(topics) + 1
      BY <1>2 DEF Create, AtCore, CreateTopic, Streams!Give, streams, Slots, TypeOK
    <2>2. \A t \in Slots : Has(t)
      BY <2>1, AllDescribed
    <2>3. CASE fails
      <3>1. nameless' = nameless \union {Len(topics) + 1} /\ UNCHANGED hand
        BY <1>2, <2>3 DEF Create, streams
      <3>2. \A t \in Slots' : Has(t)'
        BY <2>1, <2>2, <3>1 DEF Has, Description
      <3> QED
        BY <2>1, <3>1, <3>2 DEF DescribedInv, HasBefore, Description, IsPart
    <2>4. CASE ~fails
      <3>1. hand' = <<Description(Len(topics) + 1)>> /\ UNCHANGED nameless
        BY <1>2, <2>4 DEF Create, Streams!Give
      <3>2. \A t \in Slots' : hand' # <<Description(t)>> => Has(t)'
        BY <2>1, <2>2, <3>1 DEF Has, Description
      <3>3. ~IsPart(hand'[1])
        BY <3>1 DEF Description, IsPart
      <3> QED
        BY <2>1, <3>1, <3>2, <3>3 DEF DescribedInv, HasBefore, Description, IsPart
    <2> QED
      BY <2>3, <2>4
  <1>3. CASE Record \/ Time \/ Loop
    BY <1>1, <1>3, RecorderSlots, DescribedSending DEF Record, Time, Loop
  <1>4. ASSUME NEW metadata \in BOOLEAN, BeginClose(metadata) PROVE DescribedInv'
    BY <1>1, <1>4, DescribedKept DEF BeginClose, Close, streams, Slots
  <1>5. ASSUME NEW fails \in BuildFaults, SendMetadata(fails) PROVE DescribedInv'
    <2>1. /\ stage = "open" /\ hand = <<>>
          /\ UNCHANGED <<given, nameless, file, topics, stage, parts>>
      BY <1>5 DEF SendMetadata, AtCore, Streams!Give, streams, vars
    <2>2. CASE fails
      BY <1>1, <1>5, <2>1, <2>2, DescribedKept DEF SendMetadata, streams, Slots
    <2>3. CASE ~fails
      <3>1. hand' = <<Metadata>>
        BY <1>5, <2>3 DEF SendMetadata, Streams!Give
      <3>2. \A t \in Slots' : Has(t)'
        BY <2>1, AllDescribed DEF Has, Description, Slots
      <3>3. ~IsPart(hand'[1])
        BY <3>1 DEF Metadata, IsPart
      <3> QED
        BY <1>1, <2>1, <3>2, <3>3, GivenKept DEF DescribedInv, IsPart
    <2> QED
      BY <2>2, <2>3
  <1>6. CASE CloseStreams
    BY <1>1, <1>6, DescribedKept
    DEF CloseStreams, CloseDone, Streams!BeginClose, AtCore, bag, Slots
  <1>7. CASE Stream \/ World
    <2>1. UNCHANGED <<vars, bag>> /\ Slots' = Slots
      BY <1>7 DEF Stream, World, vars, Slots
    <2>2. CASE Streams!Store
      BY <2>1, <2>2, DescribedStore
    <2>3. CASE Streams!Crash
      BY <1>1, <2>1, <2>3, DescribedKept DEF Streams!Crash, bag
    <2>4. ASSUME ~Streams!Store, ~Streams!Crash
          PROVE  UNCHANGED <<given, hand>> /\ (stage' # "crashed" => stage # "crashed")
      <3>1. \/ Streams!Save \/ Streams!Poll \/ Streams!Air \/ Streams!FlushLive
            \/ Streams!FlushFile \/ Streams!Drop \/ Streams!Drain
            \/ Streams!DiskBreaks \/ Streams!ServerAnswers \/ Streams!ServerLeaves
        BY <1>7, <2>4 DEF Stream, World, Streams!Caller, Streams!World
      <3> QED
        BY <3>1 DEF Streams!Save, Streams!Poll, Streams!Air, Streams!FlushLive,
           Streams!FlushFile, Streams!Drop, Streams!Drain, Streams!DiskBreaks,
           Streams!ServerAnswers, Streams!ServerLeaves, Streams!Alive
    <2> QED
      BY <1>1, <2>1, <2>2, <2>3, <2>4, DescribedKept DEF bag
  <1>8. CASE SendChunk
    BY <1>8, DescribedSent
  <1>9. CASE UNCHANGED bagVars
    BY <1>1, <1>9, DescribedKept DEF bagVars, bag, streams, vars, Slots
  <1> QED
    BY <1>2, <1>3, <1>4, <1>5, <1>6, <1>7, <1>8, <1>9 DEF BagNext, Caller

\* The order inside a topic, as RecorderProofs has it, holds in a bag.
LEMMA BagOrder == BagSpec => []OrderInv
  <1>1. BagInit => OrderInv
    BY DEF BagInit, Init, OrderInv, RecordedInOrder, SequencesGiven, Slots
  <1>2. TypeOK /\ OrderInv /\ [BagNext]_bagVars => OrderInv'
    BY BagStepsRecorder, OrderStep
  <1> QED
    BY <1>1, <1>2, BagTypes, PTL DEF BagSpec

\* A bag keeps its promise on latency: a write that returns Ok leaves no row that
\* has waited twice max_latency, unless the last sweep was cut short.
THEOREM BagRowsYoung == BagSpec => RowAgeBound
  <1>1. BagInit => RowAgeInv
    BY DEF BagInit, Init, RowAgeInv, Slots
  <1>2. TypeOK /\ RowAgeInv /\ [BagNext]_bagVars => RowAgeInv'
    BY BagStepsRecorder, RowAgeStep
  <1>3. TypeOK /\ RowAgeInv /\ [BagNext]_bagVars => [ReturnsYoung]_vars
    BY BagStepsRecorder, RowAgeAction
  <1> QED
    BY <1>1, <1>2, <1>3, BagTypes, PTL DEF BagSpec, RowAgeBound

\* A bag that drops nothing the lenses do not take hands its streams what it
\* announced of a topic, also when a lens fails, and loses no message of a topic
\* announced as replayable to one.
THEOREM BagStoresAsAnnounced ==
  ASSUME KeepsUnmatched
  PROVE  BagSpec => []StoredAsAnnounced
  <1>1. BagInit => FormsInv
    BY FormsInit DEF BagInit
  <1>2. TypeOK /\ OrderInv /\ FormsInv /\ [BagNext]_bagVars => FormsInv'
    BY BagStepsRecorder, FormsStep
  <1> QED
    BY <1>1, <1>2, FormsAnnounced, BagTypes, BagOrder, PTL DEF BagSpec

\* Wherever the file ends, whole or cut short by a crash or a failing disk, no
\* messages and no lens output in it come before the description of their topic.
THEOREM DescribedFirstAlways == BagSpec => []DescribedFirst
  <1>1. BagInit => DescribedInv
    BY DEF BagInit, Init, Streams!Init, DescribedInv, Slots
  <1>2. TypeOK /\ TypeOK' /\ Kept!TypeOK /\ OrderInv /\ DescribedInv
          /\ [BagNext]_bagVars => DescribedInv'
    BY DescribedStep
  <1>3. Kept!TypeOK /\ DescribedInv => DescribedFirst
    <2> SUFFICES ASSUME Kept!TypeOK, DescribedInv, NEW i \in 1 .. on_disk,
                        given[i].what \in {"chunk", "lenses"}
                 PROVE  HasBefore(file[given[i].of].topic, i)
      BY DEF DescribedFirst, HasBefore
    <2>1. i \in DOMAIN given
      BY DEF Kept!TypeOK
    <2> QED
      BY <2>1 DEF DescribedInv, IsPart
  <1> QED
    BY <1>1, <1>2, <1>3, BagTypes, BagOrder, BagStreamTypes, PTL DEF BagSpec

-----------------------------------------------------------------------------
(* What flushes send reaches the streams flush by flush.  Nothing is cut      *)
(* before all of the last flush has been given, so whatever part of what was  *)
(* given is on disk, only the last flush it has some of can lack something.   *)

HasItem(item) == \E j \in DOMAIN given : given[j] = item

EarlierGiven(d, i) ==
    \A c \in 1 .. d - 1 : \A item \in PartsOf(c, file[c]) : \E j \in 1 .. i : given[j] = item

Last == Len(file)

CutOrder ==
    /\ stage # "crashed" =>
          \A d \in DOMAIN file : \A item \in PartsOf(d, file[d]) :
              item \in parts \/ hand = <<item>> \/ HasItem(item)
    /\ \A i \in DOMAIN given : IsPart(given[i]) => EarlierGiven(given[i].of, i)
    /\ hand # <<>> /\ IsPart(hand[1]) => hand[1].of = Last
    /\ \A item \in parts : item \in PartsOf(Last, file[Last])

\* What was given before what was given is still there once the file has grown.
LEMMA EarlierKept ==
  ASSUME TypeOK, DescribedInv, CutOrder, UNCHANGED given, FileGrows
  PROVE  (\A i \in DOMAIN given : IsPart(given[i]) => EarlierGiven(given[i].of, i))'
  <1> SUFFICES ASSUME NEW i \in DOMAIN given, IsPart(given[i]),
                      NEW c \in 1 .. given[i].of - 1, NEW item \in PartsOf(c, file'[c])
               PROVE  \E j \in 1 .. i : given[j] = item
    BY DEF EarlierGiven, IsPart, PartsOf, ChunkAt, LensOutput
  <1>1. given[i].of \in DOMAIN file /\ EarlierGiven(given[i].of, i)
    BY DEF DescribedInv, CutOrder
  <1>2. c \in DOMAIN file
    BY <1>1 DEF TypeOK
  <1>3. file'[c] = file[c]
    BY <1>2 DEF FileGrows
  <1> QED
    BY <1>1, <1>3 DEF EarlierGiven

\* The caller, with nothing left to send, may cut, or take something else.
LEMMA CutTaken ==
  ASSUME TypeOK, DescribedInv, CutOrder, stage = "open", hand = <<>>, parts = {},
         given' = given, FileGrows,
         hand' = <<>> \/ (hand' # <<>> /\ ~IsPart(hand'[1])),
         parts' = IF file' = file THEN {} ELSE PartsOf(Len(file'), file'[Len(file')])
  PROVE  CutOrder'
  <1>1. ASSUME NEW d \in DOMAIN file', NEW item \in PartsOf(d, file'[d])
        PROVE  item \in parts' \/ HasItem(item)'
    <2>1. CASE d \in DOMAIN file
      <3>1. item \in PartsOf(d, file[d])
        BY <2>1, <1>1 DEF FileGrows
      <3>2. HasItem(item)
        BY <2>1, <3>1 DEF CutOrder
      <3> QED
        BY <3>2 DEF HasItem
    <2>2. CASE d \notin DOMAIN file
      <3>1. d = Len(file') /\ file' # file
        BY <1>1, <2>2 DEF FileGrows
      <3> QED
        BY <1>1, <3>1
    <2> QED
      BY <2>1, <2>2
  <1>2. \A item \in parts' : item \in PartsOf(Len(file'), file'[Len(file')])
    OBVIOUS
  <1>3. hand' # <<>> => ~IsPart(hand'[1])
    OBVIOUS
  <1>4. (\A i \in DOMAIN given : IsPart(given[i]) => EarlierGiven(given[i].of, i))'
    BY EarlierKept
  <1> HIDE DEF PartsOf, FileGrows
  <1>5. (\A d \in DOMAIN file : \A item \in PartsOf(d, file[d]) :
              item \in parts \/ hand = <<item>> \/ HasItem(item))'
    BY <1>1 DEF PartsOf, HoldsMessages, ChunkAt, LensOutput
  <1>6. (\A item \in parts : item \in PartsOf(Last, file[Last]))'
    BY <1>2 DEF PartsOf, HoldsMessages, ChunkAt, LensOutput, Last
  <1>7. (hand # <<>> /\ IsPart(hand[1]) => hand[1].of = Last)'
    BY <1>3 DEF IsPart
  <1> QED
    BY <1>4, <1>5, <1>6, <1>7 DEF CutOrder

\* A step that leaves the hand and the file, or crashes.
LEMMA CutKept ==
  ASSUME CutOrder, UNCHANGED <<given, file, parts>>,
         \/ hand' = hand /\ (stage' # "crashed" => stage # "crashed")
         \/ hand' = <<>> /\ stage' = "crashed"
  PROVE  CutOrder'
  BY DEF CutOrder, EarlierGiven, HasItem, IsPart, Last, PartsOf, HoldsMessages, ChunkAt,
         LensOutput

\* A part is sent: it moves to the hand, which was empty.
LEMMA CutSent ==
  ASSUME CutOrder, SendChunk
  PROVE  CutOrder'
  <1>1. PICK item \in parts : Streams!Give(item) /\ parts' = parts \ {item}
    BY DEF SendChunk
  <1>2. stage = "open" /\ hand = <<>> /\ hand' = <<item>> /\ UNCHANGED <<given, file, stage>>
    BY <1>1 DEF SendChunk, Streams!Give, vars
  <1>3. item \in PartsOf(Last, file[Last])
    BY DEF CutOrder
  <1>4. IsPart(item) /\ item.of = Last
    BY <1>3, PartsAre
  <1>5. ASSUME NEW d \in DOMAIN file, NEW other \in PartsOf(d, file[d])
        PROVE  other \in parts' \/ hand' = <<other>> \/ HasItem(other)'
    <2>1. other \in parts \/ HasItem(other)
      BY <1>2, <1>5 DEF CutOrder
    <2> QED
      BY <1>1, <1>2, <2>1 DEF HasItem
  <1>6. \A other \in parts' : other \in PartsOf(Last, file[Last])
    BY <1>1 DEF CutOrder
  <1>7. \A i \in DOMAIN given : IsPart(given[i]) => EarlierGiven(given[i].of, i)
    BY DEF CutOrder
  <1>8. (\A d \in DOMAIN file : \A other \in PartsOf(d, file[d]) :
              other \in parts \/ hand = <<other>> \/ HasItem(other))'
    BY <1>2, <1>5 DEF PartsOf, HoldsMessages, ChunkAt, LensOutput
  <1>9. (\A i \in DOMAIN given : IsPart(given[i]) => EarlierGiven(given[i].of, i))'
    BY <1>2, <1>7 DEF EarlierGiven, IsPart, PartsOf, HoldsMessages, ChunkAt, LensOutput
  <1>10. (\A other \in parts : other \in PartsOf(Last, file[Last]))'
    BY <1>2, <1>6 DEF Last, PartsOf, HoldsMessages, ChunkAt, LensOutput
  <1>11. (hand # <<>> /\ IsPart(hand[1]) => hand[1].of = Last)'
    BY <1>2, <1>4 DEF IsPart, Last
  <1> QED
    BY <1>8, <1>9, <1>10, <1>11 DEF CutOrder

\* The file's stream takes what is in the hand behind all that was cut before.
LEMMA CutStored ==
  ASSUME TypeOK, Kept!TypeOK, DescribedInv, CutOrder, Streams!Store, UNCHANGED <<vars, bag>>
  PROVE  CutOrder'
  <1>1. /\ hand' = <<>> /\ stage # "crashed" /\ UNCHANGED <<file, parts>>
        /\ Len(given) \in Nat
        /\ DOMAIN given' = 1 .. Len(given) + 1 /\ DOMAIN given = 1 .. Len(given)
        /\ \A j \in DOMAIN given : given'[j] = given[j]
        /\ given'[Len(given) + 1] = hand[1]
        /\ hand = <<hand[1]>> /\ hand[1] \in Item
    BY StoreTakes DEF bag
  <1>2. \A item : HasItem(item) => HasItem(item)'
    BY <1>1 DEF HasItem
  <1>3. ASSUME NEW d \in DOMAIN file, NEW item \in PartsOf(d, file[d])
        PROVE  item \in parts \/ HasItem(item)'
    <2>1. CASE hand = <<item>>
      <3>1. hand[1] = item
        BY <2>1
      <3> QED
        BY <1>1, <3>1 DEF HasItem
    <2>2. CASE hand # <<item>>
      BY <1>1, <1>2, <1>3, <2>2 DEF CutOrder
    <2> QED
      BY <2>1, <2>2
  <1>4. ASSUME NEW i \in DOMAIN given', IsPart(given'[i]),
               NEW c \in 1 .. given'[i].of - 1, NEW item, item \in PartsOf(c, file[c])
        PROVE  \E j \in 1 .. i : given'[j] = item
    <2>1. CASE i \in DOMAIN given
      <3>1. given'[i] = given[i] /\ \A j \in 1 .. i : given'[j] = given[j]
        BY <1>1, <2>1
      <3>2. EarlierGiven(given[i].of, i)
        BY <1>4, <2>1, <3>1 DEF CutOrder
      <3>3. c \in 1 .. given[i].of - 1
        BY <3>1
      <3>4. PICK j \in 1 .. i : given[j] = item
        BY <1>4, <3>2, <3>3 DEF EarlierGiven
      <3> QED
        BY <3>1, <3>4
    <2>2. CASE i \notin DOMAIN given
      <3>1. i = Len(given) + 1 /\ given'[i] = hand[1]
        BY <1>1, <2>2
      <3>2. hand[1].of \in DOMAIN file /\ hand[1].of = Last
        <4>1. hand # <<>>
          BY DEF Streams!Store
        <4>2. IsPart(hand[1])
          BY <1>4, <3>1
        <4> QED
          BY <4>1, <4>2 DEF DescribedInv, CutOrder
      <3>3. c \in DOMAIN file /\ c # Last
        <4>1. c \in 1 .. Last - 1
          BY <3>1, <3>2
        <4>2. DOMAIN file = 1 .. Last /\ Last \in Nat
          BY DEF TypeOK, Last
        <4> QED
          BY <4>1, <4>2
      <3>4. item.of = c
        BY <1>4, PartsAre
      \* It is of an earlier flush, so it is neither in hand nor still to be sent.
      <3>5. item \notin parts
        BY <3>3, <3>4, PartsAre DEF CutOrder
      <3>6. HasItem(item)'
        BY <1>3, <1>4, <3>3, <3>5
      <3> QED
        BY <1>1, <3>1, <3>6 DEF HasItem
    <2> QED
      BY <2>1, <2>2
  <1>5. (\A d \in DOMAIN file : \A item \in PartsOf(d, file[d]) :
              item \in parts \/ hand = <<item>> \/ HasItem(item))'
    BY <1>1, <1>3 DEF PartsOf, HoldsMessages, ChunkAt, LensOutput
  <1>6. (\A i \in DOMAIN given : IsPart(given[i]) => EarlierGiven(given[i].of, i))'
    BY <1>1, <1>4 DEF EarlierGiven, IsPart, PartsOf, HoldsMessages, ChunkAt, LensOutput
  <1>7. (\A item \in parts : item \in PartsOf(Last, file[Last]))'
    BY <1>1 DEF CutOrder, Last, PartsOf, HoldsMessages, ChunkAt, LensOutput
  <1> QED
    BY <1>1, <1>5, <1>6, <1>7 DEF CutOrder

\* Every step of the bag keeps the order parts are given in.
LEMMA CutStep ==
  ASSUME TypeOK, TypeOK', Kept!TypeOK, DescribedInv, CutOrder, [BagNext]_bagVars
  PROVE  CutOrder'
  <1>1. FileGrows
    BY BagStepsRecorder, RecorderGrows
  <1>2. ASSUME NEW name \in Names, NEW kind \in Kinds, NEW fails \in BuildFaults,
               Create(name, kind, fails)
        PROVE  CutOrder'
    <2>1. /\ stage = "open" /\ hand = <<>> /\ parts = {}
          /\ UNCHANGED <<given, file, parts>>
      BY <1>2 DEF Create, AtCore, CreateTopic, Streams!Give, streams
    <2>2. hand' = <<>> \/ (hand' # <<>> /\ ~IsPart(hand'[1]))
      BY <1>2, <2>1 DEF Create, Streams!Give, streams, Description, IsPart
    <2> QED
      BY <1>1, <2>1, <2>2, CutTaken
  <1>3. CASE Record \/ Time \/ Loop
    <2>1. /\ stage = "open" /\ hand = <<>> /\ parts = {} /\ UNCHANGED <<given, hand>>
          /\ parts' = IF file' = file THEN {} ELSE PartsOf(Len(file'), file'[Len(file')])
      BY <1>3 DEF Record, Time, Loop, AtCore, Sending, streams
    <2> QED
      BY <1>1, <2>1, CutTaken
  <1>4. ASSUME NEW metadata \in BOOLEAN, BeginClose(metadata) PROVE CutOrder'
    BY <1>4, CutKept DEF BeginClose, Close, streams
  <1>5. ASSUME NEW fails \in BuildFaults, SendMetadata(fails) PROVE CutOrder'
    <2>1. /\ stage = "open" /\ hand = <<>> /\ parts = {}
          /\ UNCHANGED <<given, file, parts>>
      BY <1>5 DEF SendMetadata, AtCore, Streams!Give, streams, vars
    <2>2. hand' = <<>> \/ (hand' # <<>> /\ ~IsPart(hand'[1]))
      BY <1>5, <2>1 DEF SendMetadata, Streams!Give, streams, Metadata, IsPart
    <2> QED
      BY <1>1, <2>1, <2>2, CutTaken
  <1>6. CASE CloseStreams
    BY <1>6, CutKept DEF CloseStreams, CloseDone, Streams!BeginClose, AtCore, bag
  <1>7. CASE Stream \/ World
    <2>1. UNCHANGED <<vars, bag>> /\ UNCHANGED <<file, parts>>
      BY <1>7 DEF Stream, World, vars, bag
    <2>2. CASE Streams!Store
      BY <2>1, <2>2, CutStored
    <2>3. CASE Streams!Crash
      BY <2>1, <2>3, CutKept DEF Streams!Crash
    <2>4. ASSUME ~Streams!Store, ~Streams!Crash
          PROVE  UNCHANGED <<given, hand>> /\ (stage' # "crashed" => stage # "crashed")
      <3>1. \/ Streams!Save \/ Streams!Poll \/ Streams!Air \/ Streams!FlushLive
            \/ Streams!FlushFile \/ Streams!Drop \/ Streams!Drain
            \/ Streams!DiskBreaks \/ Streams!ServerAnswers \/ Streams!ServerLeaves
        BY <1>7, <2>4 DEF Stream, World, Streams!Caller, Streams!World
      <3> QED
        BY <3>1 DEF Streams!Save, Streams!Poll, Streams!Air, Streams!FlushLive,
           Streams!FlushFile, Streams!Drop, Streams!Drain, Streams!DiskBreaks,
           Streams!ServerAnswers, Streams!ServerLeaves, Streams!Alive
    <2> QED
      BY <2>1, <2>2, <2>3, <2>4, CutKept
  <1>8. CASE SendChunk
    BY <1>8, CutSent
  <1>9. CASE UNCHANGED bagVars
    BY <1>9, CutKept DEF bagVars, streams, vars, bag
  <1> QED
    BY <1>2, <1>3, <1>4, <1>5, <1>6, <1>7, <1>8, <1>9 DEF BagNext, Caller

\* A flush that something of a later one is on disk for is there as a whole.
LEMMA EarlierWhole ==
  ASSUME TypeOK, Kept!TypeOK, CutOrder, NEW d \in DOMAIN file, NEW e \in DOMAIN file, d < e,
         PartsOf(e, file[e]) \intersect OnDisk # {}
  PROVE  Whole(d)
  <1>1. PICK i \in 1 .. on_disk : given[i] \in PartsOf(e, file[e])
    BY DEF OnDisk
  <1>2. IsPart(given[i]) /\ given[i].of = e
    BY <1>1, PartsAre
  <1>3. on_disk \in 0 .. Len(given) /\ DOMAIN given = 1 .. Len(given) /\ Len(given) \in Nat
    BY DEF Kept!TypeOK
  <1>4. EarlierGiven(e, i)
    BY <1>2, <1>3 DEF CutOrder
  <1>5. d \in 1 .. e - 1
    BY DEF TypeOK
  <1>6. \A item \in PartsOf(d, file[d]) : \E j \in 1 .. i : given[j] = item
    BY <1>4, <1>5 DEF EarlierGiven
  <1>7. \A j \in 1 .. i : j \in 1 .. on_disk
    BY <1>3
  <1>8. \A item \in PartsOf(d, file[d]) : item \in OnDisk
    BY <1>6, <1>7 DEF OnDisk
  <1> QED
    BY <1>8 DEF Whole

\* What is in order when it is cut and when it is given is in order on disk.
LEMMA FirstKept ==
  ASSUME TypeOK, Kept!TypeOK, OrderInv, OnceInv, CutOrder
  PROVE  FirstMessagesKept
  <1> SUFFICES ASSUME NEW m \in accepted, NEW n \in accepted,
                      m.topic = n.topic, m.sequence < n.sequence,
                      n.sequence \in StoredOf(n.topic)
               PROVE  m.sequence \in StoredOf(m.topic) \union LostSequences
    BY EarlierWhole DEF FirstMessagesKept
  <1>1. PICK d \in DOMAIN file :
           file[d].topic = n.topic /\ Whole(d) /\ n.sequence \in Sequences(file[d].rows)
    BY DEF StoredOf
  <1>2. PartsOf(d, file[d]) \intersect OnDisk # {}
    <2>1. file[d] \in Chunk
      BY DEF TypeOK
    <2> QED
      BY <1>1, <2>1, PartsSome DEF Whole
  <1>3. m.sequence \in Nat /\ n.sequence \in Nat /\ m.topic \in Slots
    BY DEF TypeOK, OnceInv, NumbersGiven
  <1>4. \/ m.sequence \in Sequences(Rows(m.topic))
        \/ m.sequence \in Filed(m.topic)
        \/ m.sequence \in LostSequences
    BY <1>3 DEF OnceInv, AcceptedOnce
  \* What is still buffered is later than what the file has of the topic.
  <1>5. m.sequence \notin Sequences(Rows(m.topic))
    BY <1>1, <1>3 DEF OrderInv, RecordedInOrder
  <1>6. CASE m.sequence \in Filed(m.topic)
    <2>1. PICK c \in DOMAIN file :
             file[c].topic = m.topic /\ m.sequence \in Sequences(file[c].rows)
      BY <1>6 DEF Filed
    <2>2. c \in Nat /\ d \in Nat
      BY <1>1, <2>1 DEF TypeOK
    <2>3. ~(d < c)
      BY <1>1, <1>3, <2>1 DEF OrderInv, RecordedInOrder
    <2>4. Whole(c)
      <3>1. CASE c < d
        BY <1>1, <1>2, <2>1, <3>1, EarlierWhole
      <3>2. CASE c = d
        BY <1>1, <3>2
      <3> QED
        BY <2>2, <2>3, <3>1, <3>2
    <2> QED
      BY <2>1, <2>4 DEF StoredOf
  <1> QED
    BY <1>4, <1>5, <1>6

\* What a bag has given its streams is described, in the order it was cut, and
\* each message is in one place.
LEMMA BagGives == BagSpec => [](OnceInv /\ DescribedInv /\ CutOrder)
  <1>1. BagInit => DescribedInv /\ CutOrder /\ OnceInv
    BY OnceInit DEF BagInit, Init, Streams!Init, DescribedInv, CutOrder, Slots
  <1>2. TypeOK /\ TypeOK' /\ Kept!TypeOK /\ OrderInv /\ DescribedInv
          /\ [BagNext]_bagVars => DescribedInv'
    BY DescribedStep
  <1>3. TypeOK /\ TypeOK' /\ Kept!TypeOK /\ DescribedInv /\ CutOrder
          /\ [BagNext]_bagVars => CutOrder'
    BY CutStep
  <1>4. TypeOK /\ OrderInv /\ OnceInv /\ [BagNext]_bagVars => OnceInv'
    BY BagStepsRecorder, OnceStep
  <1> QED
    BY <1>1, <1>2, <1>3, <1>4, BagTypes, BagOrder, BagStreamTypes, PTL DEF BagSpec

\* Wherever the file ends, after a crash or on a disk that fails, it holds the
\* first messages of each topic, but for those that some other failure lost, and
\* all that was sent of any flush before the last it holds something of.
THEOREM FirstMessagesKeptAlways == BagSpec => []FirstMessagesKept
  BY BagGives, FirstKept, BagTypes, BagOrder, BagStreamTypes, PTL

-----------------------------------------------------------------------------
(* Closing.  The streams are closed only once the recorder is, and from then  *)
(* on nothing is written, so what the file's stream was given then is         *)
(* everything: no row is left in a buffer, and nothing to be sent.            *)

ClosingInv ==
    /\ ClosedEmpty
    /\ stage \in {"live", "file", "drop", "closed"} => pc = "closed" /\ parts = {}

\* What the streams do on their own opens them or closes them step by step; only
\* BeginClose starts that.
LEMMA StreamStages ==
  ASSUME Streams!Caller \/ Streams!World,
         stage' \in {"live", "file", "drop", "closed"}
  PROVE  stage \in {"live", "file", "drop", "closed"}
  <1>1. ~Streams!Save
    BY DEF Streams!Save, Streams!Fail
  <1>2. Streams!Poll => FALSE
    BY DEF Streams!Poll, Streams!Fail, Streams!Opened
  <1>3. ~Streams!Crash
    BY DEF Streams!Crash
  <1>4. CASE Streams!Air \/ Streams!Store
    BY <1>4 DEF Streams!Air, Streams!Store
  <1>5. CASE Streams!FlushLive \/ Streams!FlushFile \/ Streams!Drop
    BY <1>5 DEF Streams!FlushLive, Streams!FlushFile, Streams!Drop
  <1>6. CASE \/ Streams!Drain \/ Streams!DiskBreaks \/ Streams!ServerAnswers
             \/ Streams!ServerLeaves
    BY <1>6 DEF Streams!Drain, Streams!DiskBreaks, Streams!ServerAnswers, Streams!ServerLeaves
  <1> QED
    BY <1>1, <1>2, <1>3, <1>4, <1>5, <1>6 DEF Streams!Caller, Streams!World

\* Every step of the bag keeps the streams open until the recorder is closed.
LEMMA ClosingStep ==
  ASSUME TypeOK, ClosingInv, [BagNext]_bagVars
  PROVE  ClosingInv'
  <1>1. ClosedEmpty'
    BY BagStepsRecorder, ClosedEmptyStep DEF ClosingInv
  <1> SUFFICES ASSUME stage' \in {"live", "file", "drop", "closed"}
               PROVE  pc' = "closed" /\ parts' = {}
    BY <1>1 DEF ClosingInv
  <1>2. ASSUME NEW name \in Names, NEW kind \in Kinds, NEW fails \in BuildFaults
        PROVE  ~Create(name, kind, fails)
    BY DEF Create, AtCore, Streams!Give, streams
  <1>3. ~Record /\ ~Time /\ ~Loop
    <2>1. AtCore /\ Sending => stage' = "open"
      BY DEF AtCore, Sending, streams
    <2> QED
      BY <2>1 DEF Record, Time, Loop
  <1>4. ASSUME NEW metadata \in BOOLEAN PROVE ~BeginClose(metadata)
    BY DEF BeginClose, AtCore, streams
  <1>5. ASSUME NEW fails \in BuildFaults PROVE ~SendMetadata(fails)
    BY DEF SendMetadata, AtCore, Streams!Give, streams
  <1>6. CASE CloseStreams
    BY <1>6 DEF CloseStreams, CloseDone, AtCore, bag
  <1>7. CASE Stream \/ World
    <2>1. stage \in {"live", "file", "drop", "closed"}
      BY <1>7, StreamStages DEF Stream, World
    <2> QED
      BY <1>7, <2>1 DEF ClosingInv, Stream, World, vars, bag
  <1>8. ~SendChunk
    BY DEF SendChunk, Streams!Give
  <1>9. CASE UNCHANGED bagVars
    BY <1>9 DEF ClosingInv, bagVars, streams, vars, bag
  <1> QED
    BY <1>2, <1>3, <1>4, <1>5, <1>6, <1>7, <1>8, <1>9 DEF BagNext, Caller

\* Once all that was given is on disk, a message that was accepted is there
\* unless it was lost.
LEMMA AllStored ==
  ASSUME TypeOK, Kept!IInv, OnceInv, CutOrder, ClosingInv
  PROVE  ClosedHoldsAll
  <1> SUFFICES ASSUME stage = "closed", outcome = "ok", NEW m \in accepted
               PROVE  m.sequence \in StoredOf(m.topic) \union LostSequences
    BY DEF ClosedHoldsAll
  <1>1. \/ m.topic \in Slots /\ m.sequence \in Sequences(Rows(m.topic))
        \/ m.sequence \in Filed(m.topic)
        \/ m.sequence \in LostSequences
    BY DEF OnceInv, AcceptedOnce
  <1>2. ASSUME m.topic \in Slots PROVE m.sequence \notin Sequences(Rows(m.topic))
    <2>1. Rows(m.topic) = <<>>
      BY <1>2 DEF ClosingInv, ClosedEmpty
    <2> QED
      BY <2>1 DEF Sequences
  <1>3. hand = <<>> /\ parts = {} /\ on_disk = Len(given) /\ given \in Seq(Item)
    BY DEF Kept!IInv, Kept!Waited, Kept!TypeOK, ClosingInv
  <1>4. CASE m.sequence \in Filed(m.topic)
    <2>1. PICK c \in DOMAIN file :
             file[c].topic = m.topic /\ m.sequence \in Sequences(file[c].rows)
      BY <1>4 DEF Filed
    <2>2. \A item \in PartsOf(c, file[c]) : HasItem(item)
      BY <1>3, <2>1 DEF CutOrder
    <2>3. Whole(c)
      BY <1>3, <2>2 DEF HasItem, OnDisk, Whole
    <2> QED
      BY <2>1, <2>3 DEF StoredOf
  <1> QED
    BY <1>1, <1>2, <1>4

\* A close that returns Ok leaves every accepted message in the file, but for
\* those a failure lost before: whatever the configuration, the topics, the
\* faults, the server and the pace of the disk.
THEOREM ClosedHoldsAllAlways == BagSpec => []ClosedHoldsAll
  <1>1. BagInit => ClosingInv
    BY DEF BagInit, Init, Streams!Init, ClosingInv, ClosedEmpty
  <1>2. TypeOK /\ ClosingInv /\ [BagNext]_bagVars => ClosingInv'
    BY ClosingStep
  <1>3. TypeOK /\ Kept!IInv /\ OnceInv /\ CutOrder /\ ClosingInv => ClosedHoldsAll
    BY AllStored
  <1> QED
    BY <1>1, <1>2, <1>3, BagTypes, BagKeepsStreams, Kept!IInvAlways, BagGives, PTL DEF BagSpec

=============================================================================
