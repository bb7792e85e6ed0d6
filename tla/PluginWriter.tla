---------------------------- MODULE PluginWriter ----------------------------
(***************************************************************************)
(* A bag open for writing as rosbag2 sees it: the write interface of       *)
(* RrdStorage (cpp/rrd_storage.cpp) over a Recorder.                       *)
(*                                                                         *)
(* The plugin keeps its own map from topic names to the indices the core   *)
(* gave it, and totals of what it has recorded.  A write counts only once  *)
(* the core's call, sweep included, has returned Ok.  Creating a topic can *)
(* fail before the core does anything; the plugin logs that and carries    *)
(* on.  A message is its size and receive time; the counts per topic, the  *)
(* size estimate and the metadata document are left out.                   *)
(***************************************************************************)
EXTENDS Recorder, Integers, FiniteSets

CONSTANTS
    Messages,     \* What rosbag2 writes: [size, recv].
    CreateFaults  \* Whether creating a topic fails: a set of Booleans.

ASSUME MessagesAssumption ==
    \A m \in Messages : m.size \in Sizes /\ m.recv \in Int
ASSUME CreateFaultsAssumption == CreateFaults \subseteq BOOLEAN /\ FALSE \in CreateFaults

VARIABLES
    ids,       \* topic_ids_: name -> slot, NoTopic for a name not in it.
    totals,    \* What metadata_ says of the whole bag: count, start, duration.
    pending,   \* The message of the write in progress: {} or one.
    confirmed, \* History: messages whose write returned, as [sequence, recv,
               \* slot the core has for the name, whether its creation failed].
    mishaps    \* History: names that entered ids by a creation that failed.

plugin  == <<ids, totals, confirmed, mishaps>>
allVars == <<vars, plugin, pending>>

NoTotals == [count |-> 0, start |-> 0, duration |-> 0]

PluginInit ==
    /\ Init
    /\ ids = [n \in Names |-> NoTopic]
    /\ totals = NoTotals
    /\ pending = {}
    /\ confirmed = {}
    /\ mishaps = {}

-----------------------------------------------------------------------------
\* RrdStorage::create_topic puts a name in its maps once, whatever came of it.
Enter(name, slot) ==
    /\ ids' = IF ids[name] = NoTopic THEN [ids EXCEPT ![name] = slot] ELSE ids
    /\ UNCHANGED <<totals, pending, confirmed>>

\* rrd_writer_create_topic returns the slot of the name, new or known.
Create(name, kind) ==
    /\ pc = "idle"
    /\ IF topic_ids[name] = NoTopic THEN CreateTopic(name, kind) ELSE UNCHANGED vars
    /\ Enter(name, topic_ids'[name])
    /\ UNCHANGED mishaps

\* It fails, and the plugin's topic_index is still 0: the first slot.
CreateFails(name) ==
    /\ pc = "idle"
    /\ TRUE \in CreateFaults
    /\ Enter(name, 1)
    /\ mishaps' = IF ids[name] = NoTopic THEN mishaps \union {name} ELSE mishaps
    /\ UNCHANGED vars

\* Writer::remove_topic of any name: one that is not in use is not there to
\* remove.
RemoveAny(name, fate) ==
    IF topic_ids[name] = NoTopic THEN fate = "sent" /\ UNCHANGED vars ELSE RemoveTopic(name, fate)

\* Mutant: the plugin keeps the index.
RemoveKeepsId(name, fate) ==
    /\ pc = "idle"
    /\ RemoveAny(name, fate)
    /\ UNCHANGED <<plugin, pending>>

\* RrdStorage::remove_topic; a failure is logged.
Remove(name, fate) ==
    /\ pc = "idle"
    /\ RemoveAny(name, fate)
    /\ ids' = [ids EXCEPT ![name] = NoTopic]
    /\ mishaps' = mishaps \ {name}
    /\ UNCHANGED <<totals, pending, confirmed>>

\* Mutant: an earlier start leaves the duration alone.
RangeForgetsEnd(stamp) ==
    LET end == totals.start + totals.duration
    IN  IF totals.count = 0 THEN [start |-> stamp, duration |-> 0]
        ELSE IF stamp > end
        THEN [start |-> totals.start, duration |-> stamp - totals.start]
        ELSE IF stamp < totals.start
        THEN [start |-> stamp, duration |-> totals.duration]
        ELSE [start |-> totals.start, duration |-> totals.duration]

\* starting_time and duration once a message of that receive time counts.
RangeWith(stamp) ==
    LET end == totals.start + totals.duration
    IN  IF totals.count = 0 THEN [start |-> stamp, duration |-> 0]
        ELSE IF stamp > end
        THEN [start |-> totals.start, duration |-> stamp - totals.start]
        ELSE IF stamp < totals.start
        THEN [start |-> stamp, duration |-> totals.duration + (totals.start - stamp)]
        ELSE [start |-> totals.start, duration |-> totals.duration]

\* RrdStorage::update_write_metadata.
UpdateWriteMetadata(m) ==
    totals' = [count    |-> totals.count + 1,
               start    |-> RangeWith(m.recv).start,
               duration |-> RangeWith(m.recv).duration]

\* The core's write of m may have returned: then it counts, or it is thrown.
Settle(m) ==
    /\ IF pc' # "idle"
       THEN pending' = {m} /\ UNCHANGED <<totals, confirmed>>
       ELSE /\ pending' = {}
            /\ IF result' = "ok"
               THEN /\ UpdateWriteMetadata(m)
                    /\ confirmed' = confirmed \union
                          {[sequence |-> m.sequence, recv |-> m.recv,
                            slot |-> topic_ids[m.name], failed |-> m.name \in mishaps]}
               ELSE UNCHANGED <<totals, confirmed>>
    /\ UNCHANGED <<ids, mishaps>>

\* RrdStorage::write_locked for a name in the map, up to the sweep.
WriteMessage(name, message) ==
    LET t == ids[name]
    IN  /\ pc = "idle"
        /\ t # NoTopic
        /\ \/ t \notin Slots /\ WriteNoTopic
           \/ t \in Slots /\ WriteRetired(t)
           \/ /\ t \in Slots
              /\ \E outcome \in OutcomesOf(t), fate \in Fates :
                    Write(t, message.size, outcome, fate)
        /\ Settle([name |-> name, recv |-> message.recv, sequence |-> next_sequence])

\* A turn of the sweep within that call.
WriteGoesOn ==
    /\ \/ \E fate \in Fates : SweepTopic(fate)
       \/ SweepDone
    /\ \E m \in pending : Settle(m)

\* The plugin is destroyed: rrd_writer_close, whose result is only logged.
Destroy ==
    /\ Close \/ CloseDone \/ \E fate \in Fates : CloseTopic(fate)
    /\ UNCHANGED <<plugin, pending>>

Time == Tick /\ UNCHANGED <<plugin, pending>>

PluginNext ==
    \/ \E name \in Names, kind \in Kinds : Create(name, kind)
    \/ \E name \in Names : CreateFails(name)
    \/ \E name \in Names, fate \in Fates : Remove(name, fate)
    \/ \E name \in Names, message \in Messages : WriteMessage(name, message)
    \/ WriteGoesOn
    \/ Destroy
    \/ Time

PluginSpec == PluginInit /\ [][PluginNext]_allVars

-----------------------------------------------------------------------------
\* A message whose write returned is kept by the topic the core knows under that
\* name: it waits in its buffer, is in the file, or was lost later to one of the
\* four reasons in lost.  So a write that counts never goes to another topic's
\* slot or to a retired one: through removals, names that come back, sweeps that
\* fail and other topics whose creation failed, as long as the name's own did not.
\* Being lost later is no breach of this, though some of it is raised nowhere: a
\* decoder that dies takes messages along whose writes returned long before.
\* rrd_storage.cpp:384-427, 541-558, pipeline.rs:323-337.
ConfirmedKept ==
    \A m \in confirmed :
        ~m.failed =>
            \/ m.slot \in Slots /\ m.sequence \in Sequences(Rows(m.slot))
            \/ m.sequence \in Filed(m.slot)
            \/ \E l \in lost : l.sequence = m.sequence /\ l.topic = m.slot

\* The totals rosbag2 is told are those of the messages whose write returned:
\* their number, and the least and the greatest of their receive times in
\* whatever order they came.  rrd_storage.cpp:560-586.
TotalsTrue ==
    /\ totals.count = Cardinality(confirmed)
    /\ confirmed # {} =>
          /\ \A m \in confirmed :
                totals.start <= m.recv /\ m.recv <= totals.start + totals.duration
          /\ \E m \in confirmed : m.recv = totals.start
          /\ \E m \in confirmed : m.recv = totals.start + totals.duration

\* rrd_storage.cpp:364-365: "This plugin never silently drops: a message is
\* either recorded or the failure is raised".
NeverSilentlyDrops ==
    \A m \in confirmed : \E a \in accepted : a.sequence = m.sequence

=============================================================================
