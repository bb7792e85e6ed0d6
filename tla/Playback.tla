------------------------------ MODULE Playback ------------------------------
(***************************************************************************)
(* What reading a bag promises, whatever the file looks like: the contract *)
(* that reader.rs:93-97, 408-434 and 481 state.                            *)
(*                                                                         *)
(* Messages come in the total order of receive time, then write order, or  *)
(* in its exact mirror.  mark says where playback stands in that order:    *)
(* before everything, at the first message not before a time, or right     *)
(* after the last message handed out.  A filter only chooses among the     *)
(* messages ahead of mark: changing it takes effect in place.              *)
(*                                                                         *)
(* A call fails when a part of the file cannot be loaded.  A read that     *)
(* fails costs the messages of that part, until playback starts over or is *)
(* rebuilt for a filter.  A seek, a filter change or a turn that fails     *)
(* leaves playback nowhere: nothing is promised about what comes next, but *)
(* that the filter is kept to, until a seek or a change of direction.      *)
(***************************************************************************)
EXTENDS Integers

CONSTANTS
    Topics,   \* The topics a filter can name.
    Times,    \* The times a seek can name.
    Faults    \* Whether calls fail.

VARIABLES
    messages, \* The bag's messages: [topic, recv, sequence], fixed.
    mark,     \* Where playback stands.
    filter,   \* Topics to replay; the empty set means all.
    reverse,  \* Replay newest-first.
    missed,   \* Messages that failed reads have cost.
    out       \* What the last call returned, if it was a read that did not
              \* fail: its message, or nothing.

vars == <<messages, mark, filter, reverse, missed, out>>

\* reader.rs:93-97: SortKey, the total order over rows.
Before(a, b) ==
    \/ a.recv < b.recv
    \/ a.recv = b.recv /\ a.sequence < b.sequence

Precedes(a, b) == IF reverse THEN Before(b, a) ELSE Before(a, b)

\* The values of mark.
AtStart    == [kind |-> "start"]
From(time) == [kind |-> "from", recv |-> time]
After(m)   == [kind |-> "after", recv |-> m.recv, sequence |-> m.sequence]
Lost       == [kind |-> "lost"]

\* The values of out.
Answer(found) == [read |-> TRUE, found |-> found]
NoAnswer      == [read |-> FALSE, found |-> {}]

Ahead(m) ==
    CASE mark.kind = "start" -> TRUE
      [] mark.kind = "from"  -> IF reverse THEN m.recv <= mark.recv
                                           ELSE m.recv >= mark.recv
      [] mark.kind = "after" -> Precedes(mark, m)
      [] mark.kind = "lost"  -> TRUE

Wanted(m) == filter = {} \/ m.topic \in filter

Due == {m \in messages : Ahead(m) /\ Wanted(m) /\ m \notin missed}

\* m is what a read is to return.
IsNext(m) ==
    /\ m \in Due
    /\ mark = Lost \/ \A n \in Due \ {m} : Precedes(m, n)

\* The mark once m has been returned.
Past(m) == IF mark = Lost THEN Lost ELSE After(m)

Init ==
    /\ mark = AtStart
    /\ filter = {}
    /\ reverse = FALSE
    /\ missed = {}
    /\ out = NoAnswer

\* The first message due, or nothing; a read that finds nothing moves nothing.
Read ==
    /\ \/ \E m \in Due : IsNext(m) /\ out' = Answer({m}) /\ mark' = Past(m)
       \/ /\ Due = {} \/ mark = Lost
          /\ out' = Answer({})
          /\ UNCHANGED mark
    /\ UNCHANGED <<messages, filter, reverse, missed>>

\* A failed read costs messages not missed before, and moves nothing.
ReadFails ==
    /\ Faults
    /\ missed' \in {missed \union more : more \in SUBSET messages} \ {missed}
    /\ out' = NoAnswer
    /\ UNCHANGED <<messages, mark, filter, reverse>>

Seek ==
    /\ \E time \in Times : mark' = From(time)
    /\ missed' = {}
    /\ out' = NoAnswer
    /\ UNCHANGED <<messages, filter, reverse>>

\* What rebuilding the pass brings back of what was missed is left open.
SetFilter ==
    /\ filter' \in SUBSET Topics
    /\ missed' \in SUBSET missed
    /\ out' = NoAnswer
    /\ UNCHANGED <<messages, mark, reverse>>

\* A seek, a filter change or a turn that fails; the new filter or direction
\* stays.
CallFails ==
    /\ Faults
    /\ mark' = Lost
    /\ filter' \in SUBSET Topics
    /\ reverse' \in BOOLEAN
    /\ missed' = {}
    /\ out' = NoAnswer
    /\ UNCHANGED messages

\* A change of direction starts over.
SetReverse ==
    /\ reverse' = ~reverse
    /\ mark' = AtStart
    /\ missed' = {}
    /\ out' = NoAnswer
    /\ UNCHANGED <<messages, filter>>

Next ==
    \/ Read \/ ReadFails
    \/ Seek \/ SetFilter \/ CallFails
    \/ SetReverse

Spec == Init /\ [][Next]_vars

=============================================================================
