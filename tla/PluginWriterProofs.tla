------------------------ MODULE PluginWriterProofs ------------------------
(***************************************************************************)
(* What rosbag2 can rely on of the plugin's writing, for any topics,       *)
(* messages and failures.  Every call of the plugin is a step of the       *)
(* recorder, so what the recorder keeps holds of it; and the plugin's map  *)
(* and the core's agree on every name whose creation did not fail.         *)
(***************************************************************************)
EXTENDS PluginWriter, MessageProofs, FiniteSetTheorems

\* A call of the plugin is a call of its recorder, or none.
LEMMA PluginStepsRecorder == [PluginNext]_allVars => [Next]_vars
  <1> SUFFICES ASSUME [PluginNext]_allVars PROVE Next \/ UNCHANGED vars
    OBVIOUS
  <1> USE DEF Next, Call, Step
  <1>1. ASSUME NEW name \in Names, NEW kind \in Kinds, Create(name, kind)
        PROVE  Next \/ UNCHANGED vars
    BY <1>1 DEF Create
  <1>2. ASSUME NEW name \in Names, CreateFails(name) PROVE UNCHANGED vars
    BY <1>2 DEF CreateFails
  <1>3. ASSUME NEW name \in Names, NEW fate \in Fates, Remove(name, fate)
        PROVE  Next \/ UNCHANGED vars
    BY <1>3 DEF Remove, RemoveAny
  <1>4. ASSUME NEW name \in Names, NEW message \in Messages, WriteMessage(name, message)
        PROVE  Next
    <2>1. message.size \in Sizes
      BY MessagesAssumption
    <2> QED
      BY <1>4, <2>1 DEF WriteMessage
  <1>5. CASE WriteGoesOn
    BY <1>5 DEF WriteGoesOn
  <1>6. CASE Destroy \/ Time
    BY <1>6 DEF Destroy, Time
  <1>7. CASE UNCHANGED allVars
    BY <1>7 DEF allVars
  <1> QED
    BY <1>1, <1>2, <1>3, <1>4, <1>5, <1>6, <1>7 DEF PluginNext

\* The variables of the core keep their types under any use of the plugin.
LEMMA PluginTypes == PluginSpec => []TypeOK
  <1>1. PluginInit => TypeOK
    BY TypeInit DEF PluginInit
  <1>2. TypeOK /\ [PluginNext]_allVars => TypeOK'
    BY PluginStepsRecorder, TypeStep
  <1> QED
    BY <1>1, <1>2, PTL DEF PluginSpec

\* What NamesLive says holds under any use of the plugin.
LEMMA PluginNames == PluginSpec => []NamesLive
  <1>1. PluginInit => NamesLive
    BY DEF PluginInit, Init, NamesLive
  <1>2. TypeOK /\ NamesLive /\ [PluginNext]_allVars => NamesLive'
    BY PluginStepsRecorder, NamesStep
  <1> QED
    BY <1>1, <1>2, PluginTypes, PTL DEF PluginSpec

\* However rosbag2 calls the plugin, a topic's messages reach the file once and
\* in the order they were written.
THEOREM PluginRecordsInOrder == PluginSpec => []RecordedInOrder
  <1>1. PluginInit => OrderInv
    BY DEF PluginInit, Init, OrderInv, RecordedInOrder, SequencesGiven, Slots
  <1>2. TypeOK /\ OrderInv /\ [PluginNext]_allVars => OrderInv'
    BY PluginStepsRecorder, OrderStep
  <1>3. OrderInv => RecordedInOrder
    BY DEF OrderInv
  <1> QED
    BY <1>1, <1>2, <1>3, PluginTypes, PTL DEF PluginSpec

\* Every message is numbered once and in one place, and a lost one is known.
LEMMA PluginOnce == PluginSpec => [](OnceInv /\ LostKnown)
  <1>1. PluginInit => OrderInv /\ OnceInv /\ LostKnown
    BY OnceInit
    DEF PluginInit, Init, OrderInv, RecordedInOrder, SequencesGiven, Slots, LostKnown
  <1>2. TypeOK /\ OrderInv /\ OnceInv /\ LostKnown /\ [PluginNext]_allVars
          => OrderInv' /\ OnceInv' /\ LostKnown'
    BY PluginStepsRecorder, OrderStep, OnceStep, LostStep
  <1> QED
    BY <1>1, <1>2, PluginTypes, PTL DEF PluginSpec

\* However rosbag2 calls the plugin, a message the core accepted is at all times in
\* exactly one place: its topic's buffer, the file, or lost to a flush that could
\* not be built, to a decoder that died or to the lenses.  No call moves one to
\* another topic, doubles it or drops it in any other way.
THEOREM PluginKeepsOnce == PluginSpec => []AcceptedOnce
  <1>1. OnceInv => AcceptedOnce
    BY DEF OnceInv
  <1> QED
    BY <1>1, PluginOnce, PTL

\* And no topic's buffer ever reaches a limit between two calls.
THEOREM PluginBoundsBuffers == PluginSpec => []BufferBounds
  <1>1. PluginInit => SlotsSettled
    BY DEF PluginInit, Init, SlotsSettled, Slots
  <1>2. TypeOK /\ SlotsSettled /\ [PluginNext]_allVars => SlotsSettled'
    BY PluginStepsRecorder, SettledStep
  <1>3. SlotsSettled => BufferBounds
    BY DEF SlotsSettled, Settled, WithinLimits, BufferBounds, Rows
  <1> QED
    BY <1>1, <1>2, <1>3, PluginTypes, PTL DEF PluginSpec

\* And no write through the plugin that the core answers with Ok leaves a row
\* that has waited twice max_latency on any topic, unless the last sweep was cut
\* short by a flush that failed.
THEOREM PluginRowsYoung == PluginSpec => RowAgeBound
  <1>1. PluginInit => RowAgeInv
    BY DEF PluginInit, Init, RowAgeInv, Slots
  <1>2. TypeOK /\ RowAgeInv /\ [PluginNext]_allVars => RowAgeInv'
    BY PluginStepsRecorder, RowAgeStep
  <1>3. TypeOK /\ RowAgeInv /\ [PluginNext]_allVars => [ReturnsYoung]_vars
    BY PluginStepsRecorder, RowAgeAction
  <1> QED
    BY <1>1, <1>2, <1>3, PluginTypes, PTL DEF PluginSpec, RowAgeBound

-----------------------------------------------------------------------------
(* The plugin's map.  A write in progress has buffered its message already;  *)
(* nothing it does until it returns changes either map.                      *)

ConfirmedAccepted ==
    \A m \in confirmed : ~m.failed => [sequence |-> m.sequence, topic |-> m.slot] \in accepted

InAccepted(m) == [sequence |-> m.sequence, topic |-> topic_ids[m.name]] \in accepted

MapInv ==
    /\ ids \in [Names -> Nat]
    /\ \A n \in Names \ mishaps : ids[n] # NoTopic => ids[n] = topic_ids[n]
    /\ \A m \in pending : m.name \in Names /\ (m.name \notin mishaps => InAccepted(m))
    /\ pc = "idle" => pending = {}
    /\ ConfirmedAccepted

\* A write that has buffered its message settles it.
LEMMA SettleKeeps ==
  ASSUME MapInv, NEW m, m.name \in Names, Settle(m), UNCHANGED topic_ids,
         accepted \subseteq accepted',
         m.name \notin mishaps => InAccepted(m)'
  PROVE  MapInv'
  <1> USE DEF MapInv, Settle, InAccepted, ConfirmedAccepted
  <1>1. /\ ids' \in [Names -> Nat]
        /\ \A n \in Names \ mishaps' : ids'[n] # NoTopic => ids'[n] = topic_ids'[n]
    OBVIOUS
  <1>2. /\ \A n \in pending' : n.name \in Names /\ (n.name \notin mishaps' => InAccepted(n)')
        /\ pc' = "idle" => pending' = {}
    OBVIOUS
  <1>3. ConfirmedAccepted'
    <2>1. \A c \in confirmed : ~c.failed =>
             [sequence |-> c.sequence, topic |-> c.slot] \in accepted'
      OBVIOUS
    <2>2. CASE UNCHANGED confirmed
      BY <2>1, <2>2
    <2>3. CASE ~UNCHANGED confirmed
      <3> DEFINE c == [sequence |-> m.sequence, recv |-> m.recv,
                       slot |-> topic_ids[m.name], failed |-> m.name \in mishaps]
      <3>1. confirmed' = confirmed \union {c}
        BY <2>3
      <3>2. ~(m.name \in mishaps) => [sequence |-> m.sequence, topic |-> topic_ids[m.name]] \in accepted'
        OBVIOUS
      <3>3. c.failed = (m.name \in mishaps) /\ c.sequence = m.sequence
            /\ c.slot = topic_ids[m.name]
        BY Zenon
      <3> QED
        BY <2>1, <3>1, <3>2, <3>3, Zenon
    <2> QED
      BY <2>2, <2>3
  <1> QED
    BY <1>1, <1>2, <1>3

\* Every call of the plugin keeps its map true.
LEMMA MapStep ==
  ASSUME TypeOK, NamesLive, MapInv, [PluginNext]_allVars
  PROVE  MapInv'
  <1>1. ASSUME NEW name \in Names, NEW kind \in Kinds, Create(name, kind)
        PROVE  MapInv'
    <2>1. /\ UNCHANGED <<pc, accepted, pending, confirmed, mishaps>>
          /\ pending = {}
          /\ \A n \in Names \ {name} : topic_ids'[n] = topic_ids[n] /\ ids'[n] = ids[n]
          /\ topic_ids'[name] \in Nat
          /\ topic_ids[name] # NoTopic => topic_ids'[name] = topic_ids[name]
          /\ ids' = IF ids[name] = NoTopic
                    THEN [ids EXCEPT ![name] = topic_ids'[name]] ELSE ids
      BY <1>1 DEF Create, CreateTopic, Enter, MapInv, TypeOK, vars
    <2>2. ids' \in [Names -> Nat]
      BY <2>1 DEF MapInv
    <2>3. \A n \in Names \ mishaps' : ids'[n] # NoTopic => ids'[n] = topic_ids'[n]
      BY <2>1 DEF MapInv, NoTopic
    <2> QED
      BY <2>1, <2>2, <2>3 DEF MapInv, ConfirmedAccepted
  <1>2. ASSUME NEW name \in Names, CreateFails(name) PROVE MapInv'
    BY <1>2 DEF CreateFails, Enter, MapInv, NoTopic, ConfirmedAccepted, InAccepted, vars
  <1>3. ASSUME NEW name \in Names, NEW fate \in Fates, Remove(name, fate)
        PROVE  MapInv'
    <2>1. /\ UNCHANGED <<pc, accepted, pending, confirmed>>
          /\ pending = {}
          /\ mishaps' = mishaps \ {name}
          /\ \A n \in Names \ {name} : topic_ids'[n] = topic_ids[n]
          /\ ids' = [ids EXCEPT ![name] = NoTopic]
      BY <1>3 DEF Remove, RemoveAny, RemoveTopic, MapInv, TypeOK, vars
    <2> QED
      BY <2>1 DEF MapInv, NoTopic, ConfirmedAccepted
  <1>4. ASSUME NEW name \in Names, NEW message \in Messages, WriteMessage(name, message)
        PROVE  MapInv'
    <2>1. PICK m :
             m = [name |-> name, recv |-> message.recv, sequence |-> next_sequence]
      OBVIOUS
    <2>2. Settle(m) /\ ids[name] # NoTopic
      BY <1>4, <2>1 DEF WriteMessage
    <2>3. UNCHANGED topic_ids /\ accepted \subseteq accepted'
      BY <1>4 DEF WriteMessage, WriteNoTopic, WriteRetired, Write
    <2>4. ASSUME name \notin mishaps PROVE InAccepted(m)'
      <3>1. ids[name] = topic_ids[name]
        BY <2>2, <2>4 DEF MapInv
      <3>2. ids[name] \in Slots /\ ~topics[ids[name]].retired
        BY <2>2, <3>1, NameSlot DEF NamesLive
      <3>3. PICK outcome \in OutcomesOf(ids[name]), fate \in Fates :
               Write(ids[name], message.size, outcome, fate)
        BY <1>4, <3>2 DEF WriteMessage, WriteRetired
      <3>4. [sequence |-> next_sequence, topic |-> ids[name]] \in accepted'
        BY <3>3 DEF Write
      <3> QED
        BY <2>3, <2>1, <3>1, <3>4 DEF InAccepted
    <2>5. m.name = name /\ m.name \in Names
      BY <2>1
    <2> QED
      BY <2>2, <2>3, <2>4, <2>5, SettleKeeps
  <1>5. CASE WriteGoesOn
    <2>1. PICK m \in pending : Settle(m)
      BY <1>5 DEF WriteGoesOn
    <2>2. UNCHANGED <<topic_ids, accepted>>
      BY <1>5 DEF WriteGoesOn, SweepTopic, SweepDone
    <2>3. m.name \in Names /\ (m.name \notin mishaps => InAccepted(m)')
      BY <2>2 DEF MapInv, InAccepted
    <2> QED
      BY <2>1, <2>2, <2>3, SettleKeeps
  <1>6. CASE Destroy \/ Time
    <2>1. UNCHANGED <<topic_ids, accepted, plugin, pending>> /\ (pc' = "idle" => pc = "idle")
      BY <1>6 DEF Destroy, Time, Close, CloseDone, CloseTopic, Tick
    <2> QED
      BY <2>1 DEF MapInv, plugin, ConfirmedAccepted, InAccepted
  <1>7. CASE UNCHANGED allVars
    BY <1>7 DEF allVars, vars, plugin, MapInv, ConfirmedAccepted, InAccepted
  <1> QED
    BY <1>1, <1>2, <1>3, <1>4, <1>5, <1>6, <1>7 DEF PluginNext

\* A write that returned had the core take its message in, on the topic the core
\* has under that name, unless the creation of that very name failed.
LEMMA ConfirmedAcceptedAlways == PluginSpec => []ConfirmedAccepted
  <1>1. PluginInit => MapInv
    BY DEF PluginInit, MapInv, ConfirmedAccepted, NoTopic
  <1>2. TypeOK /\ NamesLive /\ MapInv /\ [PluginNext]_allVars => MapInv'
    BY MapStep
  <1>3. MapInv => ConfirmedAccepted
    BY DEF MapInv
  <1> QED
    BY <1>1, <1>2, <1>3, PluginTypes, PluginNames, PTL DEF PluginSpec

\* A message whose write returned is in the buffer of the topic the core has under
\* that name, in the file as one of that topic's, or lost since to a flush, a
\* decoder or the lenses; unless the creation of that very name failed.
THEOREM ConfirmedKeptAlways == PluginSpec => []ConfirmedKept
  <1>1. OnceInv /\ LostKnown /\ ConfirmedAccepted => ConfirmedKept
    <2> SUFFICES ASSUME OnceInv, LostKnown, ConfirmedAccepted,
                        NEW m \in confirmed, ~m.failed
                 PROVE  \/ m.slot \in Slots /\ m.sequence \in Sequences(Rows(m.slot))
                        \/ m.sequence \in Filed(m.slot)
                        \/ \E l \in lost : l.sequence = m.sequence /\ l.topic = m.slot
      BY DEF ConfirmedKept
    <2>1. PICK a : a = [sequence |-> m.sequence, topic |-> m.slot]
      OBVIOUS
    <2>2. a \in accepted /\ a.sequence = m.sequence /\ a.topic = m.slot
      BY <2>1 DEF ConfirmedAccepted
    <2>3. \/ a.topic \in Slots /\ a.sequence \in Sequences(Rows(a.topic))
          \/ a.sequence \in Filed(a.topic)
          \/ a.sequence \in LostSequences
      BY <2>2 DEF OnceInv, AcceptedOnce
    <2>4. ASSUME NEW l \in lost, l.sequence = a.sequence PROVE l.topic = a.topic
      <3>1. PICK b : b = [sequence |-> l.sequence, topic |-> l.topic]
        OBVIOUS
      <3>2. b \in accepted /\ b.sequence = a.sequence /\ b.topic = l.topic
        BY <2>4, <3>1 DEF LostKnown
      <3> QED
        BY <2>2, <3>2 DEF OnceInv, NumbersGiven
    <2> QED
      BY <2>2, <2>3, <2>4 DEF LostSequences
  <1> QED
    BY <1>1, PluginOnce, ConfirmedAcceptedAlways, PTL

-----------------------------------------------------------------------------
(* Without a creation that fails, no confirmed message is out of account. *)

NoMishaps == mishaps = {} /\ \A m \in confirmed : ~m.failed

\* A write settled under a name that is not a mishap is confirmed as such.
LEMMA SettleWell ==
  ASSUME NoMishaps, NEW m, Settle(m)
  PROVE  NoMishaps'
  <1>1. mishaps' = {}
    BY DEF NoMishaps, Settle
  <1>2. CASE confirmed' = confirmed
    BY <1>1, <1>2 DEF NoMishaps
  <1>3. CASE confirmed' # confirmed
    <2> DEFINE c == [sequence |-> m.sequence, recv |-> m.recv,
                     slot |-> topic_ids[m.name], failed |-> m.name \in mishaps]
    <2>1. confirmed' = confirmed \union {c}
      BY <1>3 DEF Settle
    <2>2. ~c.failed
      BY DEF NoMishaps
    <2> QED
      BY <1>1, <2>1, <2>2 DEF NoMishaps
  <1> QED
    BY <1>2, <1>3

\* No call makes a mishap when the core takes every topic.
LEMMA MishapStep ==
  ASSUME TRUE \notin CreateFaults, NoMishaps, [PluginNext]_allVars
  PROVE  NoMishaps'
  <1>1. ASSUME NEW name \in Names, NEW kind \in Kinds, Create(name, kind)
        PROVE  NoMishaps'
    BY <1>1 DEF Create, Enter, NoMishaps
  <1>2. ASSUME NEW name \in Names, CreateFails(name) PROVE FALSE
    BY <1>2 DEF CreateFails
  <1>3. ASSUME NEW name \in Names, NEW fate \in Fates, Remove(name, fate)
        PROVE  NoMishaps'
    BY <1>3 DEF Remove, NoMishaps
  <1>4. ASSUME NEW name \in Names, NEW message \in Messages, WriteMessage(name, message)
        PROVE  NoMishaps'
    BY <1>4, SettleWell DEF WriteMessage
  <1>5. CASE WriteGoesOn
    BY <1>5, SettleWell DEF WriteGoesOn
  <1>6. CASE Destroy \/ Time \/ UNCHANGED allVars
    BY <1>6 DEF Destroy, Time, allVars, plugin, NoMishaps
  <1> QED
    BY <1>1, <1>2, <1>3, <1>4, <1>5, <1>6 DEF PluginNext

\* Every message whose write returned is still there, buffered or in the file.
AllKept ==
    /\ lost = {}
    /\ \A m \in confirmed :
          \/ m.slot \in Slots /\ m.sequence \in Sequences(Rows(m.slot))
          \/ m.sequence \in Filed(m.slot)

\* The plugin's claim never to drop a message in silence holds where nothing fails
\* that it does not raise: when every topic is created, every chunk can be built, no
\* lens fails, nothing is configured to be dropped, and no decoder dies without the
\* bytes kept beside it.  Then every message whose write returned is in its topic's
\* buffer or in the file, through any removals, sweeps and writes that fail to
\* decode.  plugin_write_lost shows a topic whose creation failed.
THEOREM NothingLostOtherwise ==
  ASSUME TRUE \notin CreateFaults, NothingFails
  PROVE  PluginSpec => []AllKept
  <1> DEFINE NoneLost == lost = {}
  <1>1. PluginInit => NoMishaps /\ HeldFormed /\ NoneLost
    BY DEF PluginInit, Init, NoMishaps, HeldFormed, Slots
  <1>2. NoMishaps /\ [PluginNext]_allVars => NoMishaps'
    BY MishapStep
  <1>3. TypeOK /\ HeldFormed /\ NoneLost /\ [PluginNext]_allVars => HeldFormed' /\ NoneLost'
    BY PluginStepsRecorder, FormedStep, NoneLostStep
  <1>4. NoMishaps /\ NoneLost /\ ConfirmedKept => AllKept
    BY DEF NoMishaps, ConfirmedKept, AllKept
  <1> HIDE DEF NoneLost
  <1> QED
    BY <1>1, <1>2, <1>3, <1>4, ConfirmedKeptAlways, PluginTypes, PTL DEF PluginSpec

-----------------------------------------------------------------------------
(* The totals.  A message has a number no confirmed one has, so each return  *)
(* counts one more, and the range grows just enough to take its time in.     *)

Fresh(m) == \A c \in confirmed : c.sequence # m.sequence

TotalsInv ==
    /\ totals.count \in Nat /\ totals.start \in Int /\ totals.duration \in Nat
    /\ IsFiniteSet(confirmed)
    /\ \A c \in confirmed : c.sequence \in Nat /\ c.sequence < next_sequence /\ c.recv \in Int
    /\ \A m \in pending :
          m.sequence \in Nat /\ m.sequence < next_sequence /\ m.recv \in Int /\ Fresh(m)
    /\ TotalsTrue

\* A return counts its message, and takes its time into the range.
LEMMA TotalsCount ==
  ASSUME TotalsInv, NEW m, m.recv \in Int, Fresh(m), UpdateWriteMetadata(m),
         NEW slot, NEW failed,
         confirmed' = confirmed \union
            {[sequence |-> m.sequence, recv |-> m.recv, slot |-> slot, failed |-> failed]}
  PROVE  /\ IsFiniteSet(confirmed') /\ TotalsTrue'
         /\ totals'.count \in Nat /\ totals'.start \in Int /\ totals'.duration \in Nat
  <1>1. PICK new : new = [sequence |-> m.sequence, recv |-> m.recv, slot |-> slot,
                          failed |-> failed]
    OBVIOUS
  <1>2. /\ new.recv = m.recv /\ new \notin confirmed
        /\ confirmed' = confirmed \union {new}
    BY <1>1 DEF Fresh
  <1>3. /\ IsFiniteSet(confirmed')
        /\ Cardinality(confirmed') = Cardinality(confirmed) + 1
    <2>1. PICK before : before = confirmed
      OBVIOUS
    <2>2. IsFiniteSet(before)
      BY <2>1 DEF TotalsInv
    <2>3. /\ IsFiniteSet(before \union {new})
          /\ Cardinality(before \union {new}) =
                IF new \in before THEN Cardinality(before) ELSE Cardinality(before) + 1
      BY <2>2, FS_AddElement
    <2> QED
      BY <1>2, <2>1, <2>3
  <1>4. PICK count \in Nat, start \in Int, duration \in Nat :
           count = totals.count /\ start = totals.start /\ duration = totals.duration
    BY DEF TotalsInv
  <1>5. count = 0 <=> confirmed = {}
    BY <1>4, FS_EmptySet DEF TotalsInv, TotalsTrue
  <1>6. PICK at_recv \in Int : at_recv = m.recv
    OBVIOUS
  <1>7. /\ totals'.count = count + 1
        /\ totals'.start = RangeWith(at_recv).start
        /\ totals'.duration = RangeWith(at_recv).duration
    BY <1>4, <1>6 DEF UpdateWriteMetadata
  <1>8. CASE count = 0
    <2>1. totals'.start = at_recv /\ totals'.duration = 0
      BY <1>4, <1>7, <1>8 DEF RangeWith
    <2>2. confirmed' = {new}
      BY <1>2, <1>5, <1>8
    <2> QED
      BY <1>2, <1>3, <1>4, <1>6, <1>7, <2>1, <2>2 DEF TotalsTrue, TotalsInv
  <1>9. CASE count # 0
    <2>1. /\ \A c \in confirmed : c.recv \in Int /\ start <= c.recv /\ c.recv <= start + duration
          /\ \E c \in confirmed : c.recv = start
          /\ \E c \in confirmed : c.recv = start + duration
      BY <1>4, <1>5, <1>9 DEF TotalsInv, TotalsTrue
    <2>2. PICK s \in Int, d \in Nat : totals'.start = s /\ totals'.duration = d /\
             \/ at_recv > start + duration /\ s = start /\ s + d = at_recv
             \/ at_recv < start /\ s = at_recv /\ s + d = start + duration
             \/ start <= at_recv /\ at_recv <= start + duration /\ s = start /\ d = duration
      <3>1. CASE at_recv > start + duration
        <4>1. totals'.start = start /\ totals'.duration = at_recv - start
          BY <1>4, <1>7, <1>9, <3>1 DEF RangeWith
        <4>2. at_recv - start \in Nat /\ start + (at_recv - start) = at_recv
          BY <3>1
        <4> QED
          BY <3>1, <4>1, <4>2
      <3>2. CASE at_recv < start
        <4>1. ~(at_recv > start + duration)
          BY <3>2
        <4>2. totals'.start = at_recv /\ totals'.duration = duration + (start - at_recv)
          BY <1>4, <1>7, <1>9, <3>2, <4>1 DEF RangeWith
        <4>3. /\ duration + (start - at_recv) \in Nat
              /\ at_recv + (duration + (start - at_recv)) = start + duration
          BY <3>2
        <4> QED
          BY <3>2, <4>2, <4>3
      <3>3. CASE start <= at_recv /\ at_recv <= start + duration
        <4>1. ~(at_recv > start + duration) /\ ~(at_recv < start)
          BY <3>3
        <4>2. totals'.start = start /\ totals'.duration = duration
          BY <1>4, <1>7, <1>9, <4>1 DEF RangeWith
        <4> QED
          BY <3>3, <4>2
      <3> QED
        BY <3>1, <3>2, <3>3
    <2>3. \A c \in confirmed' : s <= c.recv /\ c.recv <= s + d
      BY <1>2, <1>6, <2>1, <2>2
    <2>4. /\ \E c \in confirmed' : c.recv = s
          /\ \E c \in confirmed' : c.recv = s + d
      BY <1>2, <1>6, <2>1, <2>2
    <2>5. totals'.count = Cardinality(confirmed')
      BY <1>3, <1>4, <1>7 DEF TotalsInv, TotalsTrue
    <2> QED
      BY <1>3, <1>4, <1>7, <2>2, <2>3, <2>4, <2>5 DEF TotalsTrue
  <1> QED
    BY <1>8, <1>9

\* A write settles: it goes on, returns, or fails.
LEMMA TotalsSettle ==
  ASSUME TypeOK, TotalsInv, NEW m, m.recv \in Int, m.sequence \in Nat,
         m.sequence < next_sequence', Fresh(m), Settle(m),
         next_sequence' = next_sequence \/ next_sequence' = next_sequence + 1
  PROVE  TotalsInv'
  <1>1. next_sequence \in Nat
    BY DEF TypeOK
  <1>2. \A c \in confirmed : c.sequence \in Nat /\ c.sequence < next_sequence' /\ c.recv \in Int
    BY <1>1 DEF TotalsInv
  <1>3. CASE UNCHANGED <<totals, confirmed>>
    <2>1. \A n \in pending' : n = m
      BY DEF Settle
    <2> QED
      BY <1>2, <1>3, <2>1 DEF TotalsInv, TotalsTrue, Fresh
  <1>4. CASE ~UNCHANGED <<totals, confirmed>>
    <2>1. /\ pending' = {} /\ UpdateWriteMetadata(m)
          /\ confirmed' = confirmed \union
                {[sequence |-> m.sequence, recv |-> m.recv,
                  slot |-> topic_ids[m.name], failed |-> m.name \in mishaps]}
      BY <1>4 DEF Settle
    <2>2. /\ IsFiniteSet(confirmed') /\ TotalsTrue'
          /\ totals'.count \in Nat /\ totals'.start \in Int /\ totals'.duration \in Nat
      BY <2>1, TotalsCount
    <2>3. \A c \in confirmed' :
             c.sequence \in Nat /\ c.sequence < next_sequence' /\ c.recv \in Int
      BY <1>2, <2>1
    <2> QED
      BY <2>1, <2>2, <2>3 DEF TotalsInv
  <1> QED
    BY <1>3, <1>4

\* Every call of the plugin keeps the totals true.
LEMMA TotalsStep ==
  ASSUME TypeOK, TotalsInv, [PluginNext]_allVars
  PROVE  TotalsInv'
  <1>0. next_sequence \in Nat
    BY DEF TypeOK
  <1>1. ASSUME UNCHANGED <<totals, confirmed, pending, next_sequence>> PROVE TotalsInv'
    BY <1>1 DEF TotalsInv, TotalsTrue, Fresh
  <1>2. ASSUME NEW name \in Names, NEW kind \in Kinds, Create(name, kind)
        PROVE  TotalsInv'
    BY <1>1, <1>2 DEF Create, CreateTopic, Enter, vars
  <1>3. ASSUME NEW name \in Names, CreateFails(name) PROVE TotalsInv'
    BY <1>1, <1>3 DEF CreateFails, Enter, vars
  <1>4. ASSUME NEW name \in Names, NEW fate \in Fates, Remove(name, fate)
        PROVE  TotalsInv'
    BY <1>1, <1>4 DEF Remove, RemoveAny, RemoveTopic, vars
  <1>5. ASSUME NEW name \in Names, NEW message \in Messages, WriteMessage(name, message)
        PROVE  TotalsInv'
    <2>1. PICK m :
             m = [name |-> name, recv |-> message.recv, sequence |-> next_sequence]
      OBVIOUS
    <2>2. Settle(m) /\ m.sequence = next_sequence /\ m.recv \in Int
      BY <1>5, <2>1, MessagesAssumption DEF WriteMessage
    <2>3. next_sequence' = next_sequence + 1
      BY <1>5 DEF WriteMessage, WriteNoTopic, WriteRetired, Write
    <2>4. Fresh(m)
      BY <1>0, <2>2 DEF TotalsInv, Fresh
    <2> QED
      BY <1>0, <2>2, <2>3, <2>4, TotalsSettle
  <1>6. CASE WriteGoesOn
    <2>1. PICK m \in pending : Settle(m)
      BY <1>6 DEF WriteGoesOn
    <2>2. next_sequence' = next_sequence
      BY <1>6 DEF WriteGoesOn, SweepTopic, SweepDone
    <2>3. m.recv \in Int /\ m.sequence \in Nat /\ m.sequence < next_sequence' /\ Fresh(m)
      BY <2>2 DEF TotalsInv
    <2> QED
      BY <2>1, <2>2, <2>3, TotalsSettle
  <1>7. CASE Destroy \/ Time
    BY <1>1, <1>7 DEF Destroy, Time, Close, CloseDone, CloseTopic, Tick, plugin
  <1>8. CASE UNCHANGED allVars
    BY <1>1, <1>8 DEF allVars, vars, plugin
  <1> QED
    BY <1>2, <1>3, <1>4, <1>5, <1>6, <1>7, <1>8 DEF PluginNext

\* The count is that of the writes that returned, and the range that of their
\* receive times, whatever order they come in and whatever fails in between.
THEOREM TotalsTrueAlways == PluginSpec => []TotalsTrue
  <1>1. PluginInit => TotalsInv
    <2> SUFFICES ASSUME PluginInit PROVE TotalsInv
      OBVIOUS
    <2>1. totals.count = 0 /\ totals.start = 0 /\ totals.duration = 0
      BY DEF PluginInit, NoTotals
    <2> QED
      BY <2>1, FS_EmptySet DEF PluginInit, TotalsInv, TotalsTrue
  <1>2. TypeOK /\ TotalsInv /\ [PluginNext]_allVars => TotalsInv'
    BY TotalsStep
  <1>3. TotalsInv => TotalsTrue
    BY DEF TotalsInv
  <1> QED
    BY <1>1, <1>2, <1>3, PluginTypes, PTL DEF PluginSpec

=============================================================================
