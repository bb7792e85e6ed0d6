--------------------------- MODULE StreamsProofs ---------------------------
(***************************************************************************)
(* What the recording streams keep, for every kind of item and any limits. *)
(***************************************************************************)
EXTENDS Streams, TLAPS

\* Once the wait for the file is over it has been told: what CloseTellsTheFile
\* and NeverHeldUp need to be inductive.  Recording::close, writer.rs:126-140.
Waited ==
    /\ stage \in {"live", "file", "drop", "closed"} => hand = <<>>
    /\ stage \in {"drop", "closed"} =>
          /\ outcome = "ok"  => on_disk = Len(given)
          /\ outcome = "err" => disk = "broken"
    /\ missed => server \in {"none", "disconnected"}
    /\ stage \in {"open", "live", "file", "drop", "closed"} => server # "connecting"
    /\ hand # <<>> => stage \in {"open", "crashed"}

IInv == TypeOK /\ Waited

\* The streams start in order.
LEMMA InitHolds == Init => IInv
  <1> SUFFICES ASSUME Init PROVE TypeOK /\ Waited
    BY DEF IInv
  <1>1. given \in Seq(Items) /\ on_disk \in 0 .. Len(given)
    BY DEF Init
  <1>2. aired \in BOOLEAN /\ missed \in BOOLEAN /\ footer \in BOOLEAN
    BY Zenon DEF Init
  <1>3. TypeOK
    BY <1>1, <1>2 DEF Init, TypeOK, Stage
  <1> QED
    BY <1>3 DEF Init, Waited

\* Every step of a caller or of the world around keeps the types.
LEMMA TypeStep == TypeOK /\ [Next]_vars => TypeOK'
  <1> SUFFICES ASSUME TypeOK, [Next]_vars PROVE TypeOK'
    OBVIOUS
  <1> USE DEF TypeOK, Stage
  <1>1. ASSUME NEW item \in Items, Give(item) PROVE TypeOK'
    <2>1. hand' \in Seq(Items) /\ Len(hand') = 1
      BY <1>1 DEF Give
    <2>2. aired' \in BOOLEAN
      BY <1>1, Zenon DEF Give
    <2> QED
      BY <1>1, <2>1, <2>2 DEF Give
  <1>2. CASE BeginClose
    BY <1>2 DEF BeginClose
  <1>3. CASE Save
    BY <1>3 DEF Save, Fail
  <1>4. CASE Poll
    BY <1>4 DEF Poll, Fail, Opened
  <1>5. CASE Air
    BY <1>5 DEF Air
  <1>6. CASE Store
    <2>1. /\ given' \in Seq(Items)
          /\ Len(given') = Len(given) + Len(hand)
      BY <1>6 DEF Store
    <2>2. on_disk' \in 0 .. Len(given')
      BY <1>6, <2>1 DEF Store
    <2>3. aired' \in BOOLEAN /\ hand' = <<>>
      BY <1>6, Zenon DEF Store
    <2>4. hand' \in Seq(Items) /\ Len(hand') = 0
      BY <2>3
    <2> QED
      BY <1>6, <2>1, <2>2, <2>3, <2>4 DEF Store
  <1>7. CASE FlushLive \/ FlushFile \/ Drop
    BY <1>7 DEF FlushLive, FlushFile, Drop
  <1>8. CASE Drain
    BY <1>8 DEF Drain
  <1>9. CASE DiskBreaks \/ ServerAnswers \/ ServerLeaves
    BY <1>9 DEF DiskBreaks, ServerAnswers, ServerLeaves
  <1>10. CASE Crash
    <2>1. aired' \in BOOLEAN
      BY <1>10, Zenon DEF Crash
    <2> QED
      BY <1>10, <2>1 DEF Crash
  <1>11. CASE UNCHANGED vars
    BY <1>11 DEF vars
  <1> QED
    BY <1>1, <1>2, <1>3, <1>4, <1>5, <1>6, <1>7, <1>8, <1>9, <1>10,
       <1>11
    DEF Next, Caller, World

\* And what a close that has waited knows.
LEMMA WaitedStep == IInv /\ [Next]_vars => Waited'
  <1> SUFFICES ASSUME TypeOK, Waited, [Next]_vars PROVE Waited'
    BY DEF IInv
  <1> USE DEF TypeOK, Stage, Waited, Alive
  <1>1. ASSUME NEW item \in Items, Give(item) PROVE Waited'
    BY <1>1 DEF Give
  <1>2. CASE BeginClose
    BY <1>2 DEF BeginClose
  <1>3. CASE Save
    BY <1>3 DEF Save, Fail
  <1>4. CASE Poll
    BY <1>4 DEF Poll, Fail, Opened
  <1>5. CASE Air
    BY <1>5 DEF Air
  <1>6. CASE Store
    BY <1>6 DEF Store
  <1>7. CASE FlushLive \/ FlushFile \/ Drop
    BY <1>7 DEF FlushLive, FlushFile, Drop
  <1>8. CASE Drain
    BY <1>8 DEF Drain
  <1>9. CASE DiskBreaks \/ ServerAnswers \/ ServerLeaves \/ Crash
    BY <1>9 DEF DiskBreaks, ServerAnswers, ServerLeaves, Crash
  <1>10. CASE UNCHANGED vars
    BY <1>10 DEF vars
  <1> QED
    BY <1>1, <1>2, <1>3, <1>4, <1>5, <1>6, <1>7, <1>8, <1>9, <1>10
    DEF Next, Caller, World

\* The inductive invariant of the streams holds at all times.
LEMMA IInvAlways == Spec => []IInv
  <1>1. IInv /\ [Next]_vars => IInv'
    BY TypeStep, WaitedStep DEF IInv
  <1> QED
    BY InitHolds, <1>1, PTL DEF Spec

\* The streams keep their types; in particular nothing is on disk that the
\* file's stream was not given, and the caller holds at most one item.
THEOREM TypeCorrect == Spec => []TypeOK
  <1>1. IInv => TypeOK
    BY DEF IInv
  <1> QED
    BY IInvAlways, <1>1, PTL

\* A close says Ok only when everything is on disk, and fails only for the
\* file's sake, whatever the server does.
THEOREM CloseTellsTheFileAlways == Spec => []CloseTellsTheFile
  <1>1. IInv => CloseTellsTheFile
    BY DEF IInv, Waited, CloseTellsTheFile
  <1> QED
    BY IInvAlways, <1>1, PTL

\* Nothing is ever recorded while a server has still to answer.
THEOREM NeverHeldUpAlways == Spec => []NeverHeldUp
  <1>1. IInv => NeverHeldUp
    BY DEF IInv, Waited, NeverHeldUp
  <1> QED
    BY IInvAlways, <1>1, PTL

=============================================================================
