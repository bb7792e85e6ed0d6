---------------------------- MODULE PluginReader ----------------------------
(***************************************************************************)
(* A bag open for reading as rosbag2 sees it: the read interface of        *)
(* RrdStorage (cpp/rrd_storage.cpp) over a Reader.                         *)
(*                                                                         *)
(* The Reader is taken at its word: Core is Playback, which Reader.tla     *)
(* implements over an index.  has_next has to read to answer, so the       *)
(* plugin holds a message the Reader is already past (next); what rosbag2  *)
(* sees is to be Playback again, with a mark that moves only when a        *)
(* message is returned.  A call of the Reader that fails is thrown.  The   *)
(* payload, the C interface's copy of it and calls on a bag not open for   *)
(* reading are left out.                                                   *)
(***************************************************************************)
EXTENDS Integers

CONSTANTS
    Topics,       \* Topics of the bag.
    Times,        \* The times a seek can name.
    Bags,         \* The bags considered: sets of messages.
    Filters,      \* What set_filter can be called with.
    HastyFilters, \* Whether a filter widens while the Reader is ahead.
    Faults,       \* Whether calls of the Reader fail.
    HastyOrders   \* Whether set_read_order repeats the order in use while a
                  \* message is held.

ASSUME TimesAssumption   == Times \subseteq Int
ASSUME BagsAssumption ==
    \A b \in Bags :
        /\ \A m \in b : m.recv \in Int /\ m.sequence \in Int
        /\ \A m, n \in b : m.sequence = n.sequence => m = n
ASSUME FiltersAssumption == Filters \subseteq SUBSET Topics
ASSUME SwitchesAssumption ==
    HastyFilters \in BOOLEAN /\ Faults \in BOOLEAN /\ HastyOrders \in BOOLEAN

VARIABLES
    messages, \* The bag, fixed.
    filter,   \* The Reader's filter.
    reverse,  \* The Reader's direction.
    missed,   \* Messages that failed reads have cost.
    position, \* Where the Reader stands.
    fetched,  \* What the Reader's last call returned.
    next,     \* next_: the message held, {} for none.
    mark,     \* History: where rosbag2 stands.
    out       \* History: what the last call but has_next returned to it.

reader == <<messages, filter, reverse, missed, position, fetched>>
vars   == <<reader, next, mark, out>>

Core    == INSTANCE Playback WITH mark <- position, out <- fetched
Promise == INSTANCE Playback

Init ==
    /\ messages \in Bags
    /\ next = {}
    /\ Core!Init
    /\ Promise!Init

-----------------------------------------------------------------------------
\* RrdStorage::has_next: nothing to do if a message is held.
HasNext ==
    /\ next = {}
    /\ Core!Read
    /\ next' = fetched'.found
    /\ UNCHANGED <<mark, out>>

\* Mutant: the message stays held.
HandAndKeep(found) ==
    /\ next' = found
    /\ out' = Promise!Answer(found)
    /\ IF found = {} THEN UNCHANGED mark
       ELSE \E m \in found : mark' = Promise!Past(m)

\* Returning found, at most one message, to rosbag2.
Hand(found) ==
    /\ next' = {}
    /\ out' = Promise!Answer(found)
    /\ IF found = {} THEN UNCHANGED mark
       ELSE \E m \in found : mark' = Promise!Past(m)

\* RrdStorage::read_next: the message held, or has_next's; nothing is thrown
\* as an error.
ReadNext ==
    \/ /\ next # {}
       /\ Hand(next)
       /\ UNCHANGED reader
    \/ /\ next = {}
       /\ Core!Read
       /\ Hand(fetched'.found)

\* has_next, by itself or for read_next, throws.
ReadFails ==
    /\ next = {}
    /\ Core!ReadFails
    /\ out' = Promise!NoAnswer
    /\ UNCHANGED <<next, mark>>

\* The Reader stands where rosbag2 does: no message is held or was dropped.
InStep == position = mark

Narrows(topics) == topics # {} /\ (filter = {} \/ topics \subseteq filter)

\* Mutant: whatever is held survives.
KeptAlways(topics) == next

\* The message held, if the new filter admits it.
Kept(topics) == {m \in next : topics = {} \/ m.topic \in topics}

\* RrdStorage::set_filter and reset_filter.  What the Reader had missed ahead
\* of where it stands comes back if it rebuilds its pass.
SetFilter(topics) ==
    /\ HastyFilters \/ InStep \/ Narrows(topics)
    /\ next' = Kept(topics)
    /\ missed' \in {missed, {m \in missed : ~Core!Ahead(m)}}
    /\ Core!SetFilter
    /\ filter' = topics
    /\ out' = Promise!NoAnswer
    /\ UNCHANGED mark

\* The Reader's set_filter fails, and the call throws.
SetFilterFails(topics) ==
    /\ next' = Kept(topics)
    /\ Core!CallFails
    /\ filter' = topics
    /\ mark' = Promise!Lost
    /\ out' = Promise!NoAnswer
    /\ UNCHANGED reverse

\* Mutant: the message held from before the seek survives it.
SeekKeepsNext(time) ==
    /\ Core!Seek
    /\ position' = Core!From(time)
    /\ mark' = Promise!From(time)
    /\ out' = Promise!NoAnswer
    /\ UNCHANGED next

\* RrdStorage::seek.
Seek(time) ==
    /\ next' = {}
    /\ Core!Seek
    /\ position' = Core!From(time)
    /\ mark' = Promise!From(time)
    /\ out' = Promise!NoAnswer

\* The Reader's seek fails, and the call throws.
SeekFails ==
    /\ next' = {}
    /\ Core!CallFails
    /\ mark' = Promise!Lost
    /\ out' = Promise!NoAnswer
    /\ UNCHANGED <<filter, reverse>>

\* RrdStorage::set_read_order: the message held is dropped, and the Reader
\* starts over if the direction changes; otherwise it does nothing.
SetReadOrder(backwards) ==
    /\ HastyOrders \/ backwards # reverse \/ next = {}
    /\ next' = {}
    /\ IF backwards # reverse
       THEN /\ Core!SetReverse
            /\ mark' = Promise!AtStart
            /\ out' = Promise!NoAnswer
       ELSE UNCHANGED <<reader, mark, out>>

\* The Reader cannot turn, and the call returns false.
SetReadOrderFails ==
    /\ next' = {}
    /\ Core!CallFails
    /\ reverse' = ~reverse
    /\ mark' = Promise!Lost
    /\ out' = Promise!NoAnswer
    /\ UNCHANGED filter

Read == HasNext \/ ReadNext \/ ReadFails

Next ==
    \/ Read
    \/ \E topics \in Filters : SetFilter(topics) \/ SetFilterFails(topics)
    \/ \E time \in Times : Seek(time)
    \/ SeekFails
    \/ SetReadOrderFails
    \/ \E backwards \in BOOLEAN : SetReadOrder(backwards)

\* A player goes on reading.
Spec == Init /\ [][Next]_vars /\ WF_vars(ReadNext)

-----------------------------------------------------------------------------
\* What rosbag2 is returned is what Playback promises: holding a message never
\* changes which one comes next.  rrd_storage.cpp:246-339, reader.rs:417-423.
Implements == Promise!Spec

\* The message held is the one rosbag2 is due: has_next and the read_next
\* after it agree, through filters, seeks and turns in between.
\* rrd_storage.cpp:314-321.
HeldIsDue == \A m \in next : Promise!IsNext(m)

\* Once rosbag2 does nothing but read, it gets to the end of what it is due,
\* through reads that fail, unless playback was nowhere to begin with.
\* rrd_storage.cpp:246-281.
PlaysOut == <>[][Read]_vars => <>(Promise!Due = {} \/ mark = Promise!Lost)

=============================================================================
