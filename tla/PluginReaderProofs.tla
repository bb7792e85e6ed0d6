------------------------- MODULE PluginReaderProofs -------------------------
(***************************************************************************)
(* That the plugin keeps, for any bag and any failures, what Playback      *)
(* promises, although it may hold a message the Reader is already past: as *)
(* long as no filter widens while it does, and no order is set again.      *)
(*                                                                         *)
(* The Reader's mark and rosbag2's differ by the message held, if any, and *)
(* by messages that a narrower filter has made irrelevant.                 *)
(***************************************************************************)
EXTENDS PluginReader, TLAPS

\* A mark is a place in the order of messages.
Places ==
    {Promise!AtStart, Promise!Lost} \union {Promise!From(t) : t \in Times}
    \union [kind : {"after"}, recv : Int, sequence : Int]

\* The bag is as assumed, and filters are sets of its topics.
ReaderType ==
    /\ messages \in Bags
    /\ filter \subseteq Topics
    /\ reverse \in BOOLEAN
    /\ position \in Places /\ mark \in Places

\* One message at most is held; it is wanted, and was not missed.
HeldWanted ==
    /\ \A m, n \in next : m = n
    /\ \A m \in next : m \in messages /\ Promise!Wanted(m) /\ m \notin missed

\* The Reader is where rosbag2 is or further on, just past what is held, and
\* nothing that is between the two is due but that.
Apart ==
    /\ \A m \in next : Promise!Ahead(m) /\ position = Promise!After(m)
    /\ \A n \in messages : Core!Ahead(n) => Promise!Ahead(n)
    /\ \A n \in messages :
          Promise!Ahead(n) /\ ~Core!Ahead(n) /\ Promise!Wanted(n) /\ n \notin missed
          => n \in next

HeldInv ==
    /\ ReaderType
    /\ HeldWanted
    /\ position = Promise!Lost <=> mark = Promise!Lost
    /\ mark # Promise!Lost => Apart

-----------------------------------------------------------------------------
(* The order of messages. *)

\* Messages are places in the order, and no two are the same.
LEMMA BagIs ==
  ASSUME ReaderType
  PROVE  /\ \A m \in messages : m.recv \in Int /\ m.sequence \in Int
         /\ \A m, n \in messages : m.sequence = n.sequence => m = n
BY BagsAssumption DEF ReaderType

\* The names Core and Promise give to the same thing.
LEMMA NamesAgree ==
  /\ Core!AtStart = Promise!AtStart /\ Core!Lost = Promise!Lost
  /\ Core!NoAnswer = Promise!NoAnswer
  /\ \A t : Core!From(t) = Promise!From(t)
  /\ \A m : Core!After(m) = Promise!After(m) /\ Core!Wanted(m) = Promise!Wanted(m)
  /\ \A found : Core!Answer(found) = Promise!Answer(found)
  /\ \A a, b : Core!Precedes(a, b) = Promise!Precedes(a, b)
BY DEF Core!AtStart, Promise!AtStart, Core!Lost, Promise!Lost, Core!NoAnswer,
       Promise!NoAnswer, Core!From, Promise!From, Core!After, Promise!After,
       Core!Wanted, Promise!Wanted, Core!Answer, Promise!Answer,
       Core!Precedes, Promise!Precedes, Core!Before, Promise!Before

\* What a mark's kind says of it.
LEMMA PlaceIs ==
  ASSUME NEW p \in Places
  PROVE  \/ p = Promise!AtStart /\ p.kind = "start"
         \/ p = Promise!Lost /\ p.kind = "lost"
         \/ p.kind = "from" /\ p.recv \in Int /\ p # Promise!Lost
         \/ /\ p.kind = "after" /\ p.recv \in Int /\ p.sequence \in Int
            /\ p # Promise!Lost
<1>1. Promise!Lost.kind = "lost" /\ Promise!AtStart.kind = "start"
  BY DEF Promise!Lost, Promise!AtStart
<1>2. ASSUME NEW t \in Times, p = Promise!From(t) PROVE p.kind = "from" /\ p.recv \in Int
  BY <1>2, TimesAssumption DEF Promise!From
<1> QED
  BY <1>1, <1>2 DEF Places

\* After a message is what it precedes.
LEMMA AfterIs ==
  ASSUME NEW m, m.recv \in Int, m.sequence \in Int
  PROVE  /\ Promise!After(m) \in Places /\ Promise!After(m) # Promise!Lost
         /\ Promise!After(m).kind = "after" /\ Promise!After(m).recv = m.recv
         /\ Promise!After(m).sequence = m.sequence
BY DEF Promise!After, Promise!Lost, Places

\* What comes after a message ahead of the Reader is ahead of it.
LEMMA AheadGoesOn ==
  ASSUME ReaderType, NEW m \in messages, NEW n \in messages,
         Core!Ahead(m), Promise!Precedes(m, n)
  PROVE  Core!Ahead(n)
<1>1. m.recv \in Int /\ m.sequence \in Int /\ n.recv \in Int /\ n.sequence \in Int
  BY BagIs
<1>2. CASE position.kind \in {"start", "lost"}
  BY <1>2 DEF Core!Ahead
<1>3. CASE position.kind = "from" /\ position.recv \in Int
  BY <1>1, <1>3 DEF Core!Ahead, Promise!Precedes, Promise!Before
<1>4. CASE position.kind = "after" /\ position.recv \in Int /\ position.sequence \in Int
  BY <1>1, <1>4 DEF Core!Ahead, Core!Precedes, Core!Before, Promise!Precedes, Promise!Before
<1> QED
  BY <1>2, <1>3, <1>4, PlaceIs DEF ReaderType

\* Just past a message, what is ahead is what it precedes.
LEMMA PastIs ==
  ASSUME ReaderType, NEW m \in messages, NEW n \in messages, position = Promise!After(m)
  PROVE  (Core!Ahead(n) <=> Promise!Precedes(m, n)) /\ ~Core!Ahead(m)
<1>1. m.recv \in Int /\ m.sequence \in Int /\ n.recv \in Int /\ n.sequence \in Int
  BY BagIs
<1>2. position.kind = "after" /\ position.recv = m.recv /\ position.sequence = m.sequence
  BY <1>1, AfterIs
<1> QED
  BY <1>1, <1>2 DEF Core!Ahead, Core!Precedes, Core!Before, Promise!Precedes, Promise!Before

\* The message held is next.
LEMMA HeldIsNext ==
  ASSUME HeldInv, NEW m \in next
  PROVE  Promise!IsNext(m)
<1>1. m \in messages /\ Promise!Wanted(m) /\ m \notin missed
  BY DEF HeldInv, HeldWanted
<1>2. CASE mark = Promise!Lost
  <2>1. mark.kind = "lost"
    BY <1>2 DEF Promise!Lost
  <2> QED
    BY <1>1, <1>2, <2>1 DEF Promise!IsNext, Promise!Due, Promise!Ahead
<1>3. CASE mark # Promise!Lost
  <2>1. Promise!Ahead(m) /\ position = Promise!After(m)
    BY <1>3 DEF HeldInv, Apart
  <2>2. ASSUME NEW n \in Promise!Due \ {m} PROVE Promise!Precedes(m, n)
    <3>1. n \in messages /\ Promise!Ahead(n) /\ Promise!Wanted(n) /\ n \notin missed
      BY DEF Promise!Due
    <3>2. n \notin next
      BY DEF HeldInv, HeldWanted
    <3>3. Core!Ahead(n)
      BY <1>3, <3>1, <3>2 DEF HeldInv, Apart
    <3> QED
      BY <1>1, <2>1, <3>1, <3>3, PastIs DEF HeldInv
  <2> QED
    BY <1>1, <2>1, <2>2 DEF Promise!IsNext, Promise!Due
<1> QED
  BY <1>2, <1>3

\* With nothing held, the same is due to rosbag2 as to the plugin.
LEMMA SameDue ==
  ASSUME HeldInv, next = {}
  PROVE  /\ Promise!Due = Core!Due
         /\ \A m : Promise!IsNext(m) <=> Core!IsNext(m)
<1>1. \A n \in messages : Promise!Wanted(n) /\ n \notin missed =>
                             (Promise!Ahead(n) <=> Core!Ahead(n))
  <2>1. CASE mark = Promise!Lost
    <3>1. mark.kind = "lost" /\ position.kind = "lost"
      BY <2>1 DEF HeldInv, Promise!Lost
    <3> QED
      BY <3>1 DEF Promise!Ahead, Core!Ahead
  <2>2. CASE mark # Promise!Lost
    BY <2>2 DEF HeldInv, Apart
  <2> QED
    BY <2>1, <2>2
<1>2. Promise!Due = Core!Due
  BY <1>1, NamesAgree DEF Promise!Due, Core!Due
<1> QED
  BY <1>2, NamesAgree DEF Promise!IsNext, Core!IsNext, HeldInv

-----------------------------------------------------------------------------
(* What a step leaves. *)

\* The marks there are.
LEMMA PlacesAre ==
  /\ Promise!AtStart \in Places /\ Promise!Lost \in Places
  /\ \A t \in Times : Promise!From(t) \in Places
BY DEF Places

\* What is ahead of a mark that stays is ahead still.
LEMMA AheadStays ==
  ASSUME reverse' = reverse
  PROVE  /\ mark' = mark => \A n : Promise!Ahead(n)' = Promise!Ahead(n)
         /\ position' = position => \A n : Core!Ahead(n)' = Core!Ahead(n)
<1>1. ASSUME mark' = mark, NEW n PROVE Promise!Ahead(n)' = Promise!Ahead(n)
  BY <1>1 DEF Promise!Ahead, Promise!Precedes, Promise!Before
<1>2. ASSUME position' = position, NEW n PROVE Core!Ahead(n)' = Core!Ahead(n)
  BY <1>2 DEF Core!Ahead, Core!Precedes, Core!Before
<1> QED
  BY <1>1, <1>2

\* Once the Reader has handed out a message, it is just past it.
LEMMA HandedIs ==
  ASSUME ReaderType, NEW m \in messages, NEW n \in messages,
         position' = Promise!After(m), reverse' = reverse
  PROVE  Core!Ahead(n)' <=> Promise!Precedes(m, n)
<1>1. m.recv \in Int /\ m.sequence \in Int /\ n.recv \in Int /\ n.sequence \in Int
  BY BagIs
<1>2. position'.kind = "after" /\ position'.recv = m.recv /\ position'.sequence = m.sequence
  BY <1>1, AfterIs
<1> QED
  BY <1>1, <1>2 DEF Core!Ahead, Core!Precedes, Core!Before, Promise!Precedes, Promise!Before

\* Where the two stand at the same place, with nothing held, nothing is between.
LEMMA InStepKeeps ==
  ASSUME ReaderType', position' = mark', next' = {}
  PROVE  HeldInv'
<1>1. \A n : Core!Ahead(n)' = Promise!Ahead(n)'
  BY DEF Core!Ahead, Promise!Ahead, Core!Precedes, Core!Before, Promise!Precedes,
         Promise!Before
<1> QED
  BY <1>1 DEF HeldInv, HeldWanted, Apart

\* What moves neither mark keeps what is between them.
LEMMA QuietKeeps ==
  ASSUME HeldInv, UNCHANGED <<messages, filter, reverse, position, mark, next>>,
         missed \subseteq missed', next = {} \/ missed' = missed
  PROVE  HeldInv'
<1>1. /\ \A n : Promise!Ahead(n)' = Promise!Ahead(n) /\ Core!Ahead(n)' = Core!Ahead(n)
      /\ \A n : Promise!Wanted(n)' = Promise!Wanted(n)
  BY AheadStays DEF Promise!Wanted
<1>2. ReaderType' /\ HeldWanted'
  BY <1>1 DEF HeldInv, ReaderType, HeldWanted
<1>3. Apart => Apart'
  BY <1>1 DEF Apart
<1> QED
  BY <1>2, <1>3 DEF HeldInv

\* A read of the Reader hands out the first message due, if there is one.
LEMMA CoreReads ==
  ASSUME HeldInv, Core!Read
  PROVE  /\ UNCHANGED <<messages, filter, reverse, missed>>
         /\ \/ \E m \in Core!Due :
                  /\ Core!IsNext(m) /\ fetched'.found = {m}
                  /\ position' = (IF position = Promise!Lost THEN position
                                                             ELSE Promise!After(m))
            \/ /\ Core!Due = {} \/ position = Promise!Lost
               /\ fetched'.found = {} /\ position' = position
BY NamesAgree DEF Core!Read, Core!Answer, Core!Past

\* HasNext holds what rosbag2 is due.
LEMMA HasNextKeeps ==
  ASSUME HeldInv, HasNext
  PROVE  HeldInv'
<1>1. /\ next = {} /\ Core!Read /\ next' = fetched'.found /\ UNCHANGED mark
      /\ UNCHANGED <<messages, filter, reverse, missed>>
  BY CoreReads DEF HasNext
<1>2. CASE fetched'.found = {} /\ position' = position
  BY <1>1, <1>2, QuietKeeps
<1>3. ASSUME NEW m \in Core!Due, Core!IsNext(m), fetched'.found = {m},
             position' = (IF position = Promise!Lost THEN position ELSE Promise!After(m))
      PROVE  HeldInv'
  <2>1. /\ m \in messages /\ Core!Ahead(m) /\ Promise!Wanted(m) /\ m \notin missed
        /\ m \in Promise!Due
    BY <1>1, SameDue, NamesAgree DEF Core!Due
  <2>2. \A n : Promise!Ahead(n)' = Promise!Ahead(n) /\ Promise!Wanted(n)' = Promise!Wanted(n)
    BY <1>1, AheadStays DEF Promise!Wanted
  <2>3. HeldWanted'
    BY <1>1, <1>3, <2>1, <2>2 DEF HeldWanted
  <2>4. Promise!After(m) \in Places /\ Promise!After(m) # Promise!Lost
    BY <2>1, BagIs, AfterIs DEF HeldInv
  <2>5. ReaderType'
    BY <1>1, <1>3, <2>4 DEF HeldInv, ReaderType
  <2>6. ASSUME mark # Promise!Lost PROVE Apart'
    <3>1. position' = Promise!After(m) /\ next' = {m} /\ Promise!Ahead(m)
      BY <1>1, <1>3, <2>1, <2>6 DEF HeldInv, Promise!Due
    <3>2. ASSUME NEW n \in messages PROVE Core!Ahead(n)' <=> Promise!Precedes(m, n)
      BY <1>1, <2>1, <3>1, HandedIs DEF HeldInv
    <3>3. ASSUME NEW n \in messages, Core!Ahead(n)' PROVE Promise!Ahead(n)
      BY <2>1, <2>6, <3>2, <3>3, AheadGoesOn DEF HeldInv, Apart
    <3>4. ASSUME NEW n \in messages, Promise!Ahead(n), Promise!Wanted(n), n \notin missed,
                 n # m
          PROVE  Core!Ahead(n)'
      <4>1. Core!Ahead(n)
        BY <1>1, <2>6, <3>4 DEF HeldInv, Apart
      <4>2. n \in Core!Due \ {m}
        BY <3>4, <4>1, NamesAgree DEF Core!Due
      <4>3. Core!Precedes(m, n)
        BY <1>3, <2>6, <4>2, NamesAgree DEF Core!IsNext, HeldInv
      <4> QED
        BY <3>2, <3>4, <4>3, NamesAgree
    <3> QED
      BY <1>1, <2>2, <3>1, <3>3, <3>4 DEF Apart
  <2> QED
    BY <1>1, <1>3, <2>3, <2>4, <2>5, <2>6 DEF HeldInv
<1> QED
  BY <1>1, <1>2, <1>3, CoreReads

\* ReadNext returns the message held, or the next of the Reader: what rosbag2 is
\* due.
LEMMA ReadNextKeeps ==
  ASSUME HeldInv, ReadNext
  PROVE  HeldInv' /\ Promise!Read
<1>1. CASE next # {} /\ Hand(next) /\ UNCHANGED reader
  <2>1. PICK m \in next : mark' = Promise!Past(m)
    BY <1>1 DEF Hand
  <2>2. /\ UNCHANGED <<messages, filter, reverse, missed, position>>
        /\ next' = {} /\ out' = Promise!Answer({m})
    <3>1. next = {m}
      BY DEF HeldInv, HeldWanted
    <3> QED
      BY <1>1, <3>1 DEF Hand, reader
  <2>3. Promise!IsNext(m) /\ m \in Promise!Due
    BY HeldIsNext DEF Promise!IsNext
  <2>4. mark' = position
    BY <2>1 DEF Promise!Past, HeldInv, Apart
  <2>5. HeldInv'
    BY <2>2, <2>4, InStepKeeps DEF HeldInv, ReaderType
  <2> QED
    BY <2>1, <2>2, <2>3, <2>5 DEF Promise!Read
<1>2. CASE next = {} /\ Core!Read /\ Hand(fetched'.found)
  <2>1. UNCHANGED <<messages, filter, reverse, missed>> /\ next' = {}
    BY <1>2, CoreReads DEF Hand
  <2>2. CASE /\ Core!Due = {} \/ position = Promise!Lost
             /\ fetched'.found = {} /\ position' = position
    <3>1. mark' = mark /\ out' = Promise!Answer({})
      BY <1>2, <2>2 DEF Hand
    <3>2. HeldInv'
      BY <1>2, <2>1, <2>2, <3>1, QuietKeeps
    <3>3. Promise!Due = {} \/ mark = Promise!Lost
      BY <1>2, <2>2, SameDue DEF HeldInv
    <3> QED
      BY <2>1, <3>1, <3>2, <3>3 DEF Promise!Read
  <2>3. ASSUME NEW m \in Core!Due, Core!IsNext(m), fetched'.found = {m},
               position' = (IF position = Promise!Lost THEN position ELSE Promise!After(m))
        PROVE  HeldInv' /\ Promise!Read
    <3>1. mark' = Promise!Past(m) /\ out' = Promise!Answer({m})
      BY <1>2, <2>3 DEF Hand
    <3>2. mark' = position'
      BY <2>3, <3>1 DEF Promise!Past, HeldInv
    <3>3. position' \in Places
      <4>1. m \in messages
        BY DEF Core!Due
      <4> QED
        BY <2>3, <4>1, BagIs, AfterIs DEF HeldInv, ReaderType
    <3>4. HeldInv'
      BY <2>1, <3>2, <3>3, InStepKeeps DEF HeldInv, ReaderType
    <3>5. Promise!IsNext(m) /\ m \in Promise!Due
      BY <1>2, <2>3, SameDue
    <3> QED
      BY <2>1, <3>1, <3>4, <3>5 DEF Promise!Read
  <2> QED
    BY <1>2, <2>2, <2>3, CoreReads
<1> QED
  BY <1>1, <1>2 DEF ReadNext

\* ReadFails costs rosbag2 what it costs the plugin.
LEMMA ReadFailsKeeps ==
  ASSUME HeldInv, ReadFails
  PROVE  HeldInv' /\ Promise!ReadFails
<1>1. /\ next = {} /\ UNCHANGED <<messages, filter, reverse, position, next, mark>>
      /\ missed \subseteq missed'
  BY DEF ReadFails, Core!ReadFails
<1>2. HeldInv'
  BY <1>1, QuietKeeps
<1> QED
  BY <1>1, <1>2 DEF ReadFails, Core!ReadFails, Promise!ReadFails

\* A filter that is not hasty leaves nothing due between the two marks but what
\* stays held.
LEMMA SetFilterKeeps ==
  ASSUME ~HastyFilters, HeldInv, NEW topics \in Filters, SetFilter(topics)
  PROVE  HeldInv' /\ Promise!SetFilter
<1>1. /\ InStep \/ Narrows(topics)
      /\ UNCHANGED <<messages, position, reverse, mark>>
      /\ filter' = topics /\ topics \subseteq Topics
      /\ next' = {m \in next : topics = {} \/ m.topic \in topics}
      /\ missed' \in {missed, {m \in missed : ~Core!Ahead(m)}}
      /\ out' = Promise!NoAnswer
  BY FiltersAssumption DEF SetFilter, Core!SetFilter, Kept
<1>2. /\ \A n : Promise!Ahead(n)' = Promise!Ahead(n) /\ Core!Ahead(n)' = Core!Ahead(n)
      /\ \A n : Promise!Wanted(n)' <=> topics = {} \/ n.topic \in topics
  BY <1>1, AheadStays DEF Promise!Wanted
<1>3. missed' \subseteq missed /\ \A n \in missed : n \notin missed' => Core!Ahead(n)
  BY <1>1
<1>4. ReaderType' /\ HeldWanted'
  BY <1>1, <1>2, <1>3 DEF HeldInv, ReaderType, HeldWanted
<1>5. ASSUME Apart PROVE Apart'
  <2>1. ASSUME NEW n \in messages, Promise!Ahead(n), ~Core!Ahead(n),
               topics = {} \/ n.topic \in topics, n \notin missed'
        PROVE  n \in next'
    <3>1. n \notin missed
      BY <1>3, <2>1
    <3>2. CASE InStep
      <4>1. Core!Ahead(n) <=> Promise!Ahead(n)
        BY <3>2 DEF InStep, Core!Ahead, Promise!Ahead, Core!Precedes, Core!Before,
                    Promise!Precedes, Promise!Before
      <4> QED
        BY <2>1, <4>1
    <3>3. CASE Narrows(topics)
      <4>1. Promise!Wanted(n)
        BY <2>1, <3>3 DEF Narrows, Promise!Wanted
      <4>2. n \in next
        BY <1>5, <2>1, <3>1, <4>1 DEF Apart
      <4> QED
        BY <1>1, <2>1, <4>2
    <3> QED
      BY <1>1, <3>2, <3>3
  <2> QED
    BY <1>1, <1>2, <1>5, <2>1 DEF Apart
<1>6. HeldInv'
  BY <1>1, <1>4, <1>5 DEF HeldInv
<1> QED
  BY <1>1, <1>3, <1>6 DEF Promise!SetFilter

\* A call that fails leaves both nowhere.
LEMMA LostKeeps ==
  ASSUME HeldInv, Core!CallFails, mark' = Promise!Lost, out' = Promise!NoAnswer,
         HeldWanted'
  PROVE  HeldInv' /\ Promise!CallFails
<1>1. /\ messages' = messages /\ filter' \in SUBSET Topics /\ reverse' \in BOOLEAN
      /\ missed' = {} /\ position' = Promise!Lost /\ Faults
  BY NamesAgree DEF Core!CallFails
<1>2. HeldInv'
  BY <1>1, PlacesAre DEF HeldInv, ReaderType
<1> QED
  BY <1>1, <1>2 DEF Promise!CallFails

\* So does SetFilterFails; what it leaves held is wanted.
LEMMA SetFilterFailsKeeps ==
  ASSUME HeldInv, NEW topics \in Filters, SetFilterFails(topics)
  PROVE  HeldInv' /\ Promise!CallFails
<1>1. /\ next' = {m \in next : topics = {} \/ m.topic \in topics} /\ filter' = topics
      /\ missed' = {} /\ messages' = messages /\ mark' = Promise!Lost
      /\ out' = Promise!NoAnswer /\ Core!CallFails
  BY DEF SetFilterFails, Kept, Core!CallFails
<1>2. HeldWanted'
  BY <1>1 DEF HeldInv, HeldWanted, Promise!Wanted
<1> QED
  BY <1>1, <1>2, LostKeeps

\* Seek puts both at the same place.
LEMMA SeekKeeps ==
  ASSUME HeldInv, NEW time \in Times, Seek(time)
  PROVE  HeldInv' /\ Promise!Seek
<1>1. /\ UNCHANGED <<messages, filter, reverse>> /\ missed' = {} /\ next' = {}
      /\ position' = Promise!From(time) /\ mark' = Promise!From(time)
      /\ out' = Promise!NoAnswer
  BY NamesAgree DEF Seek, Core!Seek
<1>2. HeldInv'
  BY <1>1, PlacesAre, InStepKeeps DEF HeldInv, ReaderType
<1> QED
  BY <1>1, <1>2 DEF Promise!Seek

\* So does SetReadOrder, unless it does nothing.
LEMMA SetReadOrderKeeps ==
  ASSUME ~HastyOrders, HeldInv, NEW backwards \in BOOLEAN, SetReadOrder(backwards)
  PROVE  HeldInv' /\ (Promise!SetReverse \/ UNCHANGED Promise!vars)
<1>1. CASE backwards # reverse
  <2>1. /\ UNCHANGED <<messages, filter>> /\ missed' = {} /\ next' = {}
        /\ position' = Promise!AtStart /\ mark' = Promise!AtStart
        /\ out' = Promise!NoAnswer /\ reverse' = ~reverse
    BY <1>1, NamesAgree DEF SetReadOrder, Core!SetReverse
  <2>2. HeldInv'
    BY <2>1, PlacesAre, InStepKeeps DEF HeldInv, ReaderType
  <2> QED
    BY <2>1, <2>2 DEF Promise!SetReverse
<1>2. CASE backwards = reverse
  <2>1. UNCHANGED vars
    BY <1>2 DEF SetReadOrder, vars
  <2>2. HeldInv'
    BY <2>1, QuietKeeps DEF vars, reader
  <2> QED
    BY <2>1, <2>2 DEF vars, reader, Promise!vars
<1> QED
  BY <1>1, <1>2

\* Every step keeps what is between the marks, and is one of Playback's or none.
LEMMA StepKeeps ==
  ASSUME ~HastyFilters, ~HastyOrders, HeldInv, [Next]_vars
  PROVE  HeldInv' /\ [Promise!Next]_(Promise!vars)
<1> USE DEF Promise!Next
<1>1. CASE HasNext
  <2>1. UNCHANGED Promise!vars
    BY <1>1, CoreReads DEF HasNext, Promise!vars
  <2> QED
    BY <1>1, <2>1, HasNextKeeps
<1>2. CASE ReadNext
  BY <1>2, ReadNextKeeps
<1>3. CASE ReadFails
  BY <1>3, ReadFailsKeeps
<1>4. ASSUME NEW topics \in Filters, SetFilter(topics) PROVE HeldInv' /\ Promise!SetFilter
  BY <1>4, SetFilterKeeps
<1>5. ASSUME NEW topics \in Filters, SetFilterFails(topics)
      PROVE  HeldInv' /\ Promise!CallFails
  BY <1>5, SetFilterFailsKeeps
<1>6. ASSUME NEW time \in Times, Seek(time) PROVE HeldInv' /\ Promise!Seek
  BY <1>6, SeekKeeps
<1>7. CASE SeekFails \/ SetReadOrderFails
  <2>1. HeldWanted' /\ Core!CallFails /\ mark' = Promise!Lost /\ out' = Promise!NoAnswer
    BY <1>7 DEF SeekFails, SetReadOrderFails, HeldWanted
  <2> QED
    BY <2>1, LostKeeps
<1>8. ASSUME NEW backwards \in BOOLEAN, SetReadOrder(backwards)
      PROVE  HeldInv' /\ (Promise!SetReverse \/ UNCHANGED Promise!vars)
  BY <1>8, SetReadOrderKeeps
<1>9. CASE UNCHANGED vars
  <2>1. UNCHANGED Promise!vars
    BY <1>9 DEF vars, reader, Promise!vars
  <2> QED
    BY <1>9, <2>1, QuietKeeps DEF vars, reader
<1> QED
  BY <1>1, <1>2, <1>3, <1>4, <1>5, <1>6, <1>7, <1>8, <1>9 DEF Next, Read

\* Nothing is held when the bag is opened.
LEMMA InitHolds == Init => HeldInv
<1> SUFFICES ASSUME Init PROVE HeldInv
  OBVIOUS
<1>1. /\ messages \in Bags /\ next = {} /\ filter = {} /\ reverse = FALSE /\ missed = {}
      /\ position = Promise!AtStart /\ mark = Promise!AtStart
  BY NamesAgree DEF Init, Core!Init, Promise!Init
<1>2. ReaderType /\ HeldWanted
  BY <1>1, PlacesAre DEF ReaderType, HeldWanted
<1>3. position.kind = "start" /\ mark.kind = "start"
  BY <1>1 DEF Promise!AtStart
<1>4. Apart
  BY <1>1, <1>3 DEF Apart, Core!Ahead, Promise!Ahead
<1> QED
  BY <1>1, <1>2, <1>4 DEF HeldInv

-----------------------------------------------------------------------------
(* Theorems. *)

\* The message held is always the one rosbag2 is due (rrd_storage.cpp:314-321),
\* if no filter widens while the Reader is ahead and no order is set again.
THEOREM HeldIsDueAlways ==
  ASSUME ~HastyFilters, ~HastyOrders
  PROVE  Spec => []HeldIsDue
<1>1. HeldInv => HeldIsDue
  BY HeldIsNext DEF HeldIsDue
<1>2. HeldInv /\ [Next]_vars => HeldInv'
  BY StepKeeps
<1> QED
  BY <1>1, <1>2, InitHolds, PTL DEF Spec

\* Under the same conditions what rosbag2 is returned is what Playback promises
\* (rrd_storage.cpp:246-339): has_next and what it holds go unseen.
THEOREM PluginImplements ==
  ASSUME ~HastyFilters, ~HastyOrders
  PROVE  Spec => Implements
<1>1. Init => Promise!Init
  BY DEF Init
<1>2. HeldInv /\ [Next]_vars => HeldInv' /\ [Promise!Next]_(Promise!vars)
  BY StepKeeps
<1> QED
  BY <1>1, <1>2, InitHolds, PTL DEF Spec, Implements, Promise!Spec

=============================================================================
