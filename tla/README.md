# A TLA+ model of rosbag2_storage_rrd

`rosbag2_storage_rrd` is a rosbag2 storage plugin that records ROS 2 bags as
Rerun `.rrd` files and plays them back. A C++ shim (`cpp/rrd_storage.cpp`)
implements rosbag2's storage interface and calls a Rust core
(`crates/rosbag2_storage_rrd_ffi/src`, below just named by file) over a C
interface. This directory models the parts in which messages can be lost,
repeated, reordered or held too long.

    Pipeline --> Recorder --+--> Bag             a bag from open to close
                  Streams --+                    (Streams: file and live stream)
                 Recorder -----> PluginWriter    writing, as rosbag2 sees it
    Playback <~~~~~~ Reader                      one .rrd being read; ~ is refinement
       ^~~~~~~~~~~~~ PluginReader                reading, as rosbag2 sees it
    PipelineProofs, RecorderProofs, MessageProofs, StreamsProofs, BagProofs,
    PluginWriterProofs, ReaderProofs, PluginReaderProofs: theorems
    MCRecorder, MCBag, MCPluginWriter, MCReader, MCPluginReader: instances for TLC

## The system

| Part | Source | State | Operations | What is hard |
|---|---|---|---|---|
| Topic pipeline | `pipeline.rs` | buffered rows, their forms, the decoder, the byte count | push, flush | a decoder that dies, lenses that consume a column or fail, one chunk for all forms |
| Topic buffer | `record.rs` | last flush, retired | write, flush_if_stale, flush, retire | which limit is reached first; a flush that fails after it took the rows, or ends half sent |
| Writer | `writer.rs` | topics and their slots, sequence number, last sweep | create_topic, write, remove_topic, close | the sweep of quiet topics in the middle of other traffic; names that come back |
| Streams | `writer.rs` 22-140 | file and live stream, each with its own sink | open, connect, send_chunk, send_property, close | connect timeout, a server that leaves, a disk that fails, a crash before the footer |
| Configuration | `config.rs` | representations, limits | resolve | combinations that contradict each other |
| Chunk index | `index.rs` | chunks by time, prefix maximum of ends | open, retain, load | chunks overlap and are in flush order |
| Reader | `reader.rs` | index or scan, window of chunks, cursor, position, filter, direction | read_next, seek, set_filter, set_reverse | reading no more than needed and never too early; resuming after a filter change |
| Statics, replay | `statics.rs`, `replay.rs` | none | conversions | byte-level encoding |
| Plugin | `rrd_storage.cpp` | held message, topic map, counts, metadata | rosbag2's read and write interface | a message read ahead of rosbag2; a failed create_topic |
| C interface, errors, logging | `lib.rs`, `error.rs`, `logging.rs` | last error, borrowed message | one call each | lifetimes |

rosbag2 calls the plugin; the plugin serialises writes with its mutex and
calls the core, whose Writer owns the topics and whose Reader owns the chunks.
There are no callbacks and no threads in the core: what interleaves is the
sequence of calls, the clock, the loops inside a call, and what goes on behind
the SDK's streams: the file's sink, the server, a crash. Accordingly, a call
that is a loop over topics or chunks is modelled as a start, one step per
turn, and a return. A call is instantaneous for the clock: `Tick` needs
`pc = "idle"`.

What makes each part correct:

- writing: a message accepted is in one place, reaches the file once and in
  order, in the form announced and after its topic's description, no later than
  the policy says; wherever recording stops, the file holds the first messages
  of each topic; a close that returns Ok leaves nothing behind, and neither open
  nor close depends on a server that may never answer;
- the plugin, writing: a message whose write returned is kept on the topic of its
  name, and what is lost of those is lost for a reason that is known (not all of
  them are raised, see below); the totals are of the messages whose write returned;
- reading: messages come in the total order of receive time and write order or
  in its mirror, each once, from where a seek or a filter change left off, with
  no more chunks in memory than needed, and every call returns;
- the plugin: reading ahead by one message changes none of this.

## Modules

**Pipeline** has no variables. It says, as operators on a record, what
`Pipeline::push` and `flush` do to a topic's rows. A payload is its sequence
number and size; its forms are two Booleans, whether the row has bytes and
whether the decoder holds it. `Push` is `pipeline.rs:301-343` with its three
decode outcomes, `TakenColumns` and `TakeChunk` are `take` (355-396), and
`LensColumns` is what `apply_lenses` leaves in each output mode. The decoder and
the lenses are other crates. What a decode gives is a choice (`DecodeOutcome`),
and so is what becomes of the rows of a flush (`Fate`): they are sent, no chunk
can be built of them (`take` fails), or a lens fails and leaves part of its
output or none (`Err(partial)`, pipeline.rs:411-418, which is logged only: the
flush goes on). Which columns the lenses consume and forward is fixed by the
output mode (pipeline.rs:511-547) and the type of the topic. A lens that fails is
assumed to change nothing about the columns that are forwarded, since what
is forwarded is decided by which components a lens takes and not by its result.
What the lenses derive is one column here, `lenses`; a chunk remembers whether
one of them failed (`lens_failed`). No form is ever computed from bytes:
conversions and the `header.stamp` timeline are left out.

**Recorder** is the Writer and its Topics. Slots keep their place for ever, as
in `Writer.topics`; `topic_ids` is the map of names. `Write` is the whole of
`Writer::write`: it spends a sequence number, buffers, flushes if a limit is
reached, and then either returns or starts the sweep, which `SweepTopic`
carries on one topic at a time. `Outcomes` and `Fates` say which failures a run
considers; a flush that fails (`unbuilt`) has taken the rows and has reset the
clock, and ends a sweep but not a close. `file` has one entry for each flush that
handed anything to the stream. `accepted`, `lost` and `cut_short` (whether the last
sweep ended at a failing flush) are history. `lost` says of each message of which
nothing is left where it went: to a chunk that could not be built (`flush`), to a
decoder that died (`decoder`), to lenses that drop what they do not take
(`unmatched`) or to a lens that failed and left nothing (`lens`). Only the first
makes a call return an error. Recorder is what the next two modules extend:
their actions conjoin its own with what they add.

**Streams** is `Recording`. `stage` is the life of it: `saving` and `connecting`
are `open`, one `Poll` per turn of the loop of `connect` (its five seconds are
`ConnectTimeout` polls); `live`, `file` and `drop` are `close`. An item in
`hand` goes to the live stream (`Air`) and then to the file's (`Store`), as in
`send_chunk` and `send_property`. What is behind a stream is not in the
repository and is modelled from how the code uses it: `given` is what the file's
stream has taken and `on_disk` how much of it its sink has written (`Drain`),
which stops for good when the disk fails; a server answers or goes away when it
likes, and its client blocks only while it has no answer and its queue
(`LiveQueue`) is full. `Crash` can come between any two steps.

**Bag** puts the two together. `Create` sends the topic's description
(`Topic::new`). A step of the Recorder that flushes leaves in `parts` what is to
be sent of it (`Sending`): the chunk of what is left of the messages, and what the
lenses derived. `SendChunk` is a turn of the loop of `Topic::flush`
(record.rs:165-167), in whatever order the lenses hand chunks out, so a crash or a
disk that fails can come between the two. What several lenses derive goes by one
item. `BeginClose`, `SendMetadata` and `CloseStreams` are `Writer::close`. The next
step of the core waits until nothing is left to send and both streams have all of it
(`AtCore`). An item is which description, chunk or document it is; building a
description or the document can fail, which is logged only.

**PluginWriter** is the write interface of `RrdStorage` over Recorder: `ids` is
`topic_ids_`, `totals` the part of `metadata_` that `update_write_metadata`
keeps. A write counts once the core's call has returned Ok (`Settle`), which is
after the sweep it may start (`WriteGoesOn`). `CreateFails` is a
`rrd_writer_create_topic` that fails before it reaches the core (a string that
is not UTF-8), which the plugin logs. `confirmed` and `mishaps` are history.

**Playback** is the promise made of reading: the messages, a mark between two
of them, a filter and a direction. It has no chunks. It also says what a call
that fails may cost: a read, the messages of what it could not load (`missed`),
which nothing returns until playback is rebuilt; a seek, a filter change or a
turn, the place itself (`Lost`), until the next seek or turn that works.

**Reader** is `reader.rs` over `index.rs`. A recording is a sequence of chunks
in file order. `footer` chooses between the indexed path and the scan.
`Restart`, `SkippedTo`, `EarliestUnread`, `Settled` and `Filled` are the
functions of those names (`fill` returns when `Filled`). A call is `Call...`,
then `Pull` (a turn of `fill`) and `ReadSkip` or `Wind` (a turn of `read_next`,
`seek` or `resume`), then `ReadTake`, `ReadEnd` or `WindDone`. `mark` and `out`
are history and make `Implements` (`Promise!Spec`) a refinement without a
computed mapping: the step that takes a row is the promise's `Read`, the start
of a seek its `Seek`, and the turns between are stutters. `out` says whether the
last call was a read that answered, so that a failed read that kept quiet, or one
that answered with nothing while something was due, is no step of the promise.
`flaky` names the chunks that can fail to load, and whether a scan may fail to
open its file again: `PullFails` ends the call in progress where it is,
`RestartFails` leaves the old pass behind an empty window. Over an index a load
fails in `index.load` or in `load_window`; over a scan only in `load_window`
(reader.rs:561-564). What a scan cannot decode at all is dropped in silence
(reader.rs:362, 381, 889) by every pass, also by the one `open` makes, so it is
no part of `file` there, as it is no part of the totals the Reader reports.

**PluginReader** is the read interface of `RrdStorage`. It uses `Playback`
twice: as the Reader it calls (`Core`, what Reader is shown to implement over
an index) and as what it owes rosbag2 (`Promise`). They differ in the mark:
`has_next` has to read to answer.

Definitions marked `Mutant` are small bugs; each property is checked to fail
when one of them takes the place of the definition it follows.

## Runs

| Run | Instance | Shows |
|---|---|---|
| `rec_latency` | 2 names, 2 slots, 4 messages, clock to 5, max_latency 2, failing flushes | `RowAgeBound`, its inductive form, `NamesToSlots`, types |
| `plugin_writes` | 2 names, 2 slots, 3 messages of size 1 or 2 of which one was received earlier, row limit 3, byte limit 3, latency 1, failing flushes, decodes and creations | `AcceptedOnce`, `RecordedInOrder`, `BufferBounds`, `ConfirmedKept`, `TotalsTrue` |
| `bag_closes` | 1 topic of any kind, 2 messages, 3 configurations, with and without a server, one poll of patience, a queue of one, every failure (chunks, lenses, decodes, descriptions, disk) and a crash at any step | `StoredAsAnnounced`, `FirstMessagesKept`, `DescribedFirst`, `CloseTellsTheFile`, `ClosedHoldsAll`, `NeverHeldUp`, `OpenReturns`, `BagCloses`, types of Streams |
| `reader_calls` | over an index, 4 messages in up to 3 tangled chunks, and 3 with one chunk that may not load; over a scan, 3 messages among lens output and a foreign entity, and with a chunk and a file that may not; 2 topics, times 1 to 3 | `Implements`, `NoEarlierUnread`, `ReadAheadBound`, `TurnsConsume`, `CallReturns`, types |
| `plugin_reads` | every bag of 3 messages, 2 topics, 2 times, calls that fail | `Implements`, `HeldIsDue`, `PlaysOut` |

Bounds, and why they are enough to be interesting:

- *Recorder and PluginWriter.* `MaxMessages`, `MaxTopics` and `MaxTime` guard
  the actions. A latency of 2 and a clock to 5 hold a full window, a sweep
  inside the next one and the write that must not be too late (4 ticks after a
  row of time 1); the off-by-one mutant of `Elapsed` needs just that. Two slots
  let a topic be swept by another's traffic, and a name be removed and created
  again. Byte limit 3 with sizes 1 and 2 is reached exactly and passed, row limit
  3 by three small messages. Two receive times, the later one first, are the
  least that move each end of the totals. The configurations scale down the
  profiles of `config.rs:148-185`. Names are symmetric in runs without liveness.
- *Bag.* What matters is where a crash, a disk or a server interrupts the bag,
  and two messages in one chunk or in two, a description and a document are
  enough to be interrupted before, between and after. The configurations are the
  ones whose forms depend on each other, and in which a flush sends two chunks:
  structs forwarded besides the lens output, lenses that consume the struct beside a
  raw copy, and lenses alone, where one that fails can leave nothing. A chunk is
  cut at two messages, by a latency of 1, in a removal or at close. One poll and a
  queue of one make both limits bite. This is the largest of the instances by time,
  1.5 million states.
- *Reader.* The instance enumerates all ways to give the messages topics, times
  and chunks in which a topic's times do not go back. Three chunks and four rows
  are the least in which the prefix maximum of ends differs from the end of the
  last unread chunk; that mutant fails. Equal times across topics and within a
  chunk occur, as do filter changes and turns at any point. Recordings with an
  index are only those in which some chunk outlasts one that starts after it.
  Any one of the chunks of an index may fail to load, each time it is asked for.
- *Plugin.* Three messages: one read, one held, one ahead.

The system may stop in the Recorder, the Bag and PluginWriter (the bag is closed
or a bound is reached), so those runs do not check deadlock; that a close gets to
its end is `BagCloses`. The reading runs do check it.

### What the code does not keep

Five runs check a property that a comment or doc of the repository states and
find it violated by the code.

- `reader_scan_filter`: without a footer, a read that finds nothing for the
  filter has passed over the rest of the bag, and a wider filter does not bring
  it back, though `reader.rs:419-422` says the scan path satisfies that for
  free. `reader_calls` therefore sets filters on a scan only before playback
  starts (`ScanMidway = FALSE`).
- `plugin_filter`: the plugin's held message is ahead of rosbag2, and the
  Reader's resume point with it, so a filter that is set and widened while a
  message is held loses messages. `plugin_reads` lets a filter only narrow while
  the Reader is ahead (`HastyFilters = FALSE`).
- `plugin_order`: `set_read_order` drops the held message even when the Reader
  will not start over. `plugin_reads` excludes that (`HastyOrders = FALSE`).
- `rec_form_lost`: with `[lenses]`, a chunk with one message that failed to
  decode holds rows with neither bytes nor struct for the messages a lens took;
  `reader.rs:83-84` relies on there being none, and a read that meets one fails
  before it advances.

- `plugin_write_lost`: a topic whose creation failed is written under index 0.
  Once the first topic has been removed, those writes return Ok and record
  nothing, though `rrd_storage.cpp:364-365` says that this never happens.
  `ConfirmedKept` therefore leaves out the names whose own creation failed;
  it shows that all others are unaffected.

  A failed creation is not the only way past that claim. A message whose write
  returned waits in a buffer, and nothing raises it if it is lost from there
  later: a decoder that dies takes the rows before it along while that write and
  the earlier ones return Ok (pipeline.rs:323-337; `plugin_writes` reaches this,
  with reflection alone), a lens can fail, lenses can be configured to drop
  what they do not take, and a flush that fails at close or in a removal is only
  logged by the plugin. `ConfirmedKept` therefore says "kept, or lost for
  one of these reasons", and `NothingLostOtherwise` (below) says under which
  conditions the claim holds in full.

Two more find a comment and the code at odds: `rec_drop` (raw is not exempt
from `unmatched: drop`, against `config.rs:240-241`, which is why
`bag_closes` keeps unmatched topics) and `reader_unordered` (within a chunk rows are
replayed in write order even where the receive time goes back, against
`reader.rs:93-96`; other runs keep a topic's receive times from going back).

### Fairness

`WF_vars(Step)` in Reader is the thread that runs a call until it returns:
nothing blocks it, and nothing says that another call is made. `CallReturns`
needs only that. `WF_vars(ReadNext)` in PluginReader is a player that goes on
reading; `PlaysOut` is conditional on its doing nothing else.

`BagSpec` has weak fairness for the thread in a call (`Caller`) and for the
thread of the file's sink (`Drain`), which runs as long as the process does.
Nothing is assumed of the server: `OpenReturns` and `BagCloses` hold although it
may never answer, leave, or stay silent for ever. `Poll` and `FlushLive` take the
bound the code gives their waits (`CONNECT_TIMEOUT`, 5 s); that the SDK keeps to
the timeout it is given is assumed.

## Proofs

`PipelineProofs` states what each pipeline operator returns (types, and which
rows it keeps); `RecorderProofs` uses these by name. All hold for every
configuration, set of names and bound; the assumptions used are the ASSUMEs of
Recorder.

- **TypeCorrect**: `Spec => []TypeOK`.
- **RecordedInOrderAlways**: `Spec => []RecordedInOrder`, whatever fails. Not
  inductive alone: a flush appends rows that must be later than the topic's
  earlier chunks, which `RecordedInOrder` says, but a write appends a row that
  must be later than all of them, which needs the numbers given so far to be
  below `next_sequence` (`SequencesGiven`). The invariant is their conjunction.
- **RowAgeBounded**: `Spec => RowAgeBound`, whatever fails. The inductive form is
  `RowAgeInv` (**RowAgeInvAlways**): a row was buffered after its topic's last
  flush, and relative to `last_sweep` every row of a topic the sweep has passed is
  younger than `max_latency`. Since a write that does not start a sweep came less
  than `max_latency` after the last one, the two add up to twice the limit. The
  proof has one step per action; a sweep step covers the topic it passes, flushed
  or found young. A flush that fails ends the sweep with `last_sweep` already
  reset, so the topics after it wait one window more: from there to the end of the
  next sweep that is not cut short (`cut_short`) nothing is claimed, and after that
  the bound holds again, since a completed sweep looks at every topic whatever came
  before. A topic that fails at every sweep keeps the ones after it waiting; no
  bound is left to state for them.
- **BufferBoundsAlways**: `Spec => []BufferBounds`, whatever fails. Every step
  leaves the slots alone, appends an empty one, or replaces one by a flushed
  topic or by one that a message was pushed to and that is not due; with a row
  in it, "not due" is what the bound says (`SlotsSettled`).
- **NamesToSlotsAlways**: `Spec => []NamesToSlots`, also when the flush of a
  removal fails. That names lead to live,
  distinct slots is inductive by itself (`NamesLive`): a removal retires only
  the slot whose one name it takes back. That retired slots are empty comes
  from `SlotsSettled`.

`MessageProofs` goes on from there:

- **AcceptedOnceAlways**: `Spec => []AcceptedOnce`. Inductive with the numbers of
  accepted messages being distinct and below `next_sequence` (`OnceInv`): a step
  then moves numbers of one topic only, from its buffer to the file or to what is
  lost, and an accepted message has a number nothing else has.
  The reason of a loss is one of the four, and the rows that go with it are those
  of one topic, under its name (`LostKnown`); that is what ties a lost message to the
  topic that had accepted it.
- **StoredAsAnnouncedAlways**: `Spec => []StoredAsAnnounced`, if no configuration
  drops what its lenses do not take (`KeepsUnmatched`); `rec_drop` shows what
  happens otherwise. The inductive form (`FormsInv`) says of each buffered row what
  the chunk will need: it has its bytes or is in a live decoder, and has its bytes
  wherever the topic was announced to hold them. It has to survive the death of the
  decoder, which takes the other rows down, and a lens that fails: then a topic that was
  announced as replayable has a column that is forwarded (`TakenFormed`), and what is
  lost was of one that was not (`LostByLenses`).
- **RowHasAFormOtherwise**: `Spec => []RowHasAForm`, unless a configuration has lenses
  alone and keeps what they leave (`KeepsStructs`): `rec_form_lost` is the only way to
  a row with neither form. What has to be inductive is the part of `FormsInv` about the
  buffered rows (`HeldFormed`), which needs no hypothesis; each step then sends a chunk
  of such rows or none (`SendsFormed`), and in every other configuration a chunk in
  which some row has no bytes keeps its structs.

`StreamsProofs` proves of the streams alone, for any items, time limit and queue:

- **CloseTellsTheFileAlways** and **NeverHeldUpAlways**. The inductive form,
  `Waited`, says what each stage of a close has already learnt: from `live` on no
  item is in hand, from `drop` on the outcome is the file's. Nothing in it
  mentions what the server does after an open.

`BagProofs` and `PluginWriterProofs` prove of the compositions what their parts
keep, without proving it again. A step of a bag is a step of its Recorder or
leaves it alone (`BagStepsRecorder`), and the same holds of its Streams, so
invariants carry over; likewise for PluginWriter. **BagImplements** says so in one
theorem: without its streams a bag is a behaviour of the Recorder, without its
recorder one of Streams.

- **BagClosesTruly**, **BagNeverHeldUp**: the above, of a whole bag. One thing
  has to be added: that what the Recorder makes the streams carry is an `Item`.
- **DescribedFirstAlways**: `BagSpec => []DescribedFirst`. Its inductive form
  (`DescribedInv`) speaks of all that was given, not only of what is on disk, and
  of the hand: every slot has been described, or could not be, or its description
  is in the hand; every chunk given comes after one. That a chunk's topic is a slot
  comes from the Recorder's invariant.
- **FirstMessagesKeptAlways**: `BagSpec => []FirstMessagesKept`. The chunks given are
  those of the recorder's flushes, one flush after another though in either order
  within one, and what is in the hand or still in `parts` is of the last flush
  (`CutOrder`); what is on disk is a beginning of that, so every flush before one it
  has anything of is there whole (`EarlierWhole`). With `OrderInv` a topic's
  messages missing from it are later than those in it, and with `OnceInv` a message
  is missing for no other reason than those the property names.
- **ClosedHoldsAllAlways**: `BagSpec => []ClosedHoldsAll`. Two things have to be known
  of a recorder that is closed, or closing: the slots its loop has passed are empty,
  and nothing is written or left to send (`ClosedEmpty`, `ClosingInv`). Then the streams are
  closed with all the chunks there are given to them, an Ok says that what was given
  is on disk (`CloseTellsTheFile`), and by `OnceInv` an accepted message that is in no
  buffer is in a chunk or lost.
- **BagStreamsTyped**: the types of Streams, in a bag.
- **BagStoresAsAnnounced**, **BagRowsYoung**: the Recorder's theorems, of a whole bag.
- **PluginRecordsInOrder**, **PluginKeepsOnce**, **PluginBoundsBuffers**,
  **PluginRowsYoung**: the Recorder's theorems under the plugin's calls.
- **ConfirmedKeptAlways**: `PluginSpec => []ConfirmedKept`. The strengthening
  relates the two maps: a name the plugin has an index for, unless its creation
  failed, has the same one in the core (`MapInv`), and a write in progress has
  already been accepted there. Accepted on that topic, a message stays in its buffer
  or its chunks or is lost from that topic (`OnceInv`, `LostKnown`).
- **NothingLostOtherwise**: `PluginSpec => []AllKept`, every message whose write
  returned is in its topic's buffer or in the file, where nothing fails that the
  plugin does not raise: creations succeed, chunks can be built, no lens fails or
  drops what it does not take, and no decoder dies unless bytes are kept beside it
  (`NothingFails`). Messages that fail to decode are allowed. From
  `ConfirmedKeptAlways`, and because with those conditions nothing is ever lost
  (`NoneLostStep`): each row has its bytes or is in a decoder that lives
  (`HeldFormed`), so each chunk has a column to send.
- **TotalsTrueAlways**: `PluginSpec => []TotalsTrue`. Each confirmed write has a
  number of its own, so counting them is counting members of a finite set, and the
  range is updated with the receive time of the one added.

`ReaderProofs` proves of Reader, for every set of files, topics and times that
meets its ASSUMEs (`NumbersAssumption` is what the Writer's numbering gives: no two
messages of a recording have the same sequence number):

- **TypeCorrect**: `Spec => []TypeOK`. Needs that the index lists each message chunk
  once and by start (`Indexed`), that the window holds handed-out chunks, once each
  (`Windowed`), and that a scan has counted no more chunks than it has passed
  (`Counted`); with the types these are `IInv`.
- **NoEarlierUnreadAlways**: `Spec => []NoEarlierUnread`. In every case of
  `EarliestUnread` (over an index forwards, the start of the next chunk; backwards,
  the prefix maximum of ends; over a scan, the least start of all that follows) the
  rows of unread chunks are no earlier than it (`UnreadIsLater`), and fill returns
  only when it is past the candidate.
- **ReadAheadBoundAlways**: `Spec => []ReadAheadBound`, if receive times within a
  chunk do not go back (`Steady`). Inductive as `AheadInv`: chunks in the window
  start no later than unread ones, and at most one was loaded before it was needed.
- **ReaderImplements**: `Spec => Implements`, if each chunk holds its rows in order
  (`InOrder`) and no filter is set on a scan that has started; `reader_unordered` and
  `reader_scan_filter` show what happens otherwise. The strengthening, `PlaybackInv`,
  says which rows are still to come (of unread chunks, or left of one in the window)
  and relates them to the mark: what is ahead, wanted and not missed is to come;
  between calls only what is ahead is; nothing to come has been missed; and over an
  index position and cursor say where the mark is, which is what `set_filter` winds
  back to. Then every turn maps to a step of Playback or to a stutter: the chosen row
  precedes all others to come (`ChosenFirst`, from `NoEarlierUnread`'s lemma and
  `InOrder`), what a pull or a seek skips is unwanted or not ahead, and a chunk that
  fails to load costs messages not missed before.

- **TurnsConsumeAlways**: `Spec => TurnsConsume`. The rows still to come are finitely
  many (`RowsAreFinite`), and a turn that does not end its call either hands out a
  chunk (`PullConsumes`), which brings no row back, or takes one row off them
  (`AdvanceConsumes`). So what `CallReturns` says of the small instance rests on the
  thread going on and on nothing else: no file, filter or failure makes a call loop.

`PluginReaderProofs` proves of PluginReader, for every bag whose messages have numbers
of their own (`BagsAssumption`), with `HastyFilters` and `HastyOrders` off
(`plugin_filter` and `plugin_order` show why):

- **HeldIsDueAlways**: `Spec => []HeldIsDue`, and **PluginImplements**:
  `Spec => Implements`. `HeldInv` relates the two marks: the Reader is where rosbag2
  is or further on, just past the message held, and nothing due lies between the two
  but that message (`Apart`); or both are nowhere. A filter that only narrows keeps
  this, and so does a failed read, which happens with nothing held.

With `ReaderImplements`, whose conclusion is what PluginReader assumes of its `Core`,
this covers a read from the chunks to rosbag2, over an index. One thing
in between is assumed: Playback leaves open which missed messages a change of filter
brings back, and PluginReader takes it to be those ahead of the Reader, or none.

Every invariant and action property of the passing runs is stated by a theorem. Each
run that finds a violation has a theorem beside it that says when the property does
hold: `StoredAsAnnouncedAlways`, `RowHasAFormOtherwise`, `NothingLostOtherwise` (of a
stronger property), `ReaderImplements` and `PluginImplements`.

Only model-checked: all liveness (`OpenReturns`, `BagCloses`, `CallReturns`,
`PlaysOut`), which the prover does not treat (it has no rules for fairness and ENABLED
here). `TurnsConsume` is the part of `CallReturns` that can be proved.

## Not modelled

- *What the SDK does*: its batcher, the encoding of the file and the wire. Streams
  assumes that a stream's sink writes items in the order given and that a flush
  returns when it has written them, fails, or has waited as long as it was told.
- *What single lenses do*: how many there are, which rows each fails on, and the
  order of their output. A lens that fails costs part or all of what is derived of a
  flush; `StoredAsAnnounced` then claims nothing of that flush's lens output.
- *A chunk's size*: a message is buffered before the limits are asked, so a chunk by
  rows or bytes holds the message that reached the limit (record.rs:118-121).
- *What a scan cannot decode*, which no pass sees (above).
- *The metadata document's content*, counts per topic and the size estimate of
  the plugin: the document is an item without content, made when rosbag2 hands it
  over (`rrd_storage.cpp:439-441`). What rosbag2 does when is not in the repository.
- *A message that cannot be turned back into bytes* (`reader.rs:750-757`): the read
  fails before it advances, every time. `rec_form_lost` shows how one comes about.
- *Panics*: `guard` turns them into failures; what they leave half done in the
  core is not modelled.
- *Receive times equal to i64::MIN or MAX*: assumed away by `TimesAssumption`.
- *The totals and topic descriptions a Reader finds*: `statics.rs`, `Reader::open`
  and `open_for_reading` are conversions made once.
- *`replay.rs`*, profiles and YAML, logging, the error slot, scripts: no protocol;
  the encoder is recursive over Arrow values and tested by round trips in the
  repository.

## Plan

Done: Pipeline, Recorder, Streams, Bag, PluginWriter, Playback, Reader,
PluginReader, and the proofs above. Next, in this order:

1. Measures for the other loops, as `TurnsConsume` is for the Reader: the turns left of
   an open that waits for its server, and of a close.
2. Reader and PluginReader in one specification, so that what is assumed between them
   (which missed messages a change of filter brings back) is derived.
3. The metadata document, with the calls rosbag2 makes as an explicit assumption.
