------------------------------ MODULE Streams ------------------------------
(***************************************************************************)
(* The recording streams of an open bag: Recording of writer.rs, a stream  *)
(* into the file and, when the configuration names a server, one to it.    *)
(*                                                                         *)
(* Opening creates the file, then polls the server's client until it has   *)
(* an answer or the time limit has passed.  Every item is given to the     *)
(* live stream and then to the file's; closing waits a bounded time for    *)
(* the live stream, then for the file, and dropping the file's stream      *)
(* writes the footer.  What the SDK does behind a stream is external: the  *)
(* file's sink writes items in the order given, at its own pace, until the *)
(* disk fails; the server answers or goes away as it likes, and its client *)
(* blocks only while it has no answer yet and its queue is full.  The      *)
(* process can die between any two steps.                                  *)
(***************************************************************************)
EXTENDS Naturals, Sequences

CONSTANTS
    Items,           \* What is sent: chunks, and the metadata document.
    ConnectTimeout,  \* Polls a server gets to answer.
    LiveQueue        \* Items its client queues until it has an answer.

VARIABLES
    stage,    \* Where the recording is in its life, see Stage.
    waited,   \* Polls of a server that had not answered.
    server,   \* What its client reports; "none" without one.
    hand,     \* The item a send is at: <<>> or <<item>>.
    aired,    \* Whether the live stream has had that item.
    given,    \* The items given to the file's stream, in order.
    missed,   \* Whether an item went to no server.
    disk,     \* Whether the file can still be written: "good", "broken".
    on_disk,  \* How many items, from the first, are in the file.
    footer,   \* Whether the file has its footer.
    outcome   \* What opening or closing returned.

vars == <<stage, waited, server, hand, aired, given, missed, disk, on_disk, footer,
          outcome>>

Stage == {"saving", "connecting", "open", "live", "file", "drop", "closed", "failed",
          "crashed"}
Alive == Stage \ {"closed", "failed", "crashed"}

Init ==
    /\ stage = "saving"
    /\ waited = 0
    /\ server \in {"none", "connecting"}
    /\ hand = <<>>
    /\ aired = FALSE
    /\ given = <<>>
    /\ missed = FALSE
    /\ disk = "good"
    /\ on_disk = 0
    /\ footer = FALSE
    /\ outcome = "ok"

-----------------------------------------------------------------------------
Fail == stage' = "failed" /\ outcome' = "err" /\ waited' = 0

Opened == stage' = "open" /\ waited' = 0 /\ UNCHANGED outcome

\* Recording::open up to the server: the file is created, or opening fails.
Save ==
    /\ stage = "saving"
    /\ IF disk = "broken" THEN Fail
       ELSE /\ stage' = IF server = "none" THEN "open" ELSE "connecting"
            /\ UNCHANGED <<waited, outcome>>
    /\ UNCHANGED <<server, hand, aired, given, missed, disk, on_disk, footer>>

\* Mutants: no time limit; the server is taken to be there once it is named.
PollForever ==
    /\ stage = "connecting"
    /\ \/ server = "connected" /\ Opened
       \/ server = "disconnected" /\ Fail
       \/ server = "connecting" /\ UNCHANGED <<stage, waited, outcome>>
    /\ UNCHANGED <<server, hand, aired, given, missed, disk, on_disk, footer>>

PollOnce ==
    /\ stage = "connecting"
    /\ \/ server # "disconnected" /\ Opened
       \/ server = "disconnected" /\ Fail
    /\ UNCHANGED <<server, hand, aired, given, missed, disk, on_disk, footer>>

\* One turn of the loop of Recording::connect, and the stream made of a sink
\* that is connected, if it can be.
Poll ==
    /\ stage = "connecting"
    /\ \/ server = "connected" /\ (Opened \/ Fail)
       \/ server = "disconnected" /\ Fail
       \/ server = "connecting" /\ waited >= ConnectTimeout /\ Fail
       \/ /\ server = "connecting" /\ waited < ConnectTimeout
          /\ waited' = waited + 1
          /\ UNCHANGED <<stage, outcome>>
    /\ UNCHANGED <<server, hand, aired, given, missed, disk, on_disk, footer>>

\* A caller has an item to send.
Give(item) ==
    /\ stage = "open"
    /\ hand = <<>>
    /\ hand' = <<item>>
    /\ aired' = FALSE
    /\ UNCHANGED <<stage, waited, server, given, missed, disk, on_disk, footer, outcome>>

\* Recording::send_chunk and send_property, the live half: a server that is
\* gone only costs a warning.
Air ==
    /\ hand # <<>>
    /\ ~aired
    /\ stage \in Alive
    /\ server = "connecting" => Len(given) < LiveQueue
    /\ aired' = TRUE
    /\ missed' = (missed \/ server = "disconnected")
    /\ UNCHANGED <<stage, waited, server, hand, given, disk, on_disk, footer, outcome>>

\* Mutant: what comes last goes in front.
StoreFirst ==
    /\ hand # <<>>
    /\ aired
    /\ stage \in Alive
    /\ given' = hand \o given
    /\ hand' = <<>>
    /\ aired' = FALSE
    /\ UNCHANGED <<stage, waited, server, missed, disk, on_disk, footer, outcome>>

\* The file's half.
Store ==
    /\ hand # <<>>
    /\ aired
    /\ stage \in Alive
    /\ given' = given \o hand
    /\ hand' = <<>>
    /\ aired' = FALSE
    /\ UNCHANGED <<stage, waited, server, missed, disk, on_disk, footer, outcome>>

\* Recording::close is called once the caller has nothing more to send.
BeginClose ==
    /\ stage = "open"
    /\ hand = <<>>
    /\ stage' = "live"
    /\ UNCHANGED <<waited, server, hand, aired, given, missed, disk, on_disk, footer,
                   outcome>>

\* Mutant: a live stream that cannot be flushed fails the bag.
FlushLiveFails ==
    /\ stage = "live"
    /\ IF server = "disconnected"
       THEN stage' = "drop" /\ outcome' = "err"
       ELSE stage' = "file" /\ UNCHANGED outcome
    /\ UNCHANGED <<waited, server, hand, aired, given, missed, disk, on_disk, footer>>

\* Mutant: the live stream is waited for until a server has had everything.
FlushLiveInFull ==
    /\ stage = "live"
    /\ server # "none" => ~missed
    /\ stage' = "file"
    /\ UNCHANGED <<waited, server, hand, aired, given, missed, disk, on_disk, footer,
                   outcome>>

\* Its wait for the live stream, over in time or not: no more than a warning.
FlushLive ==
    /\ stage = "live"
    /\ stage' = "file"
    /\ UNCHANGED <<waited, server, hand, aired, given, missed, disk, on_disk, footer,
                   outcome>>

\* Its wait for the file, whose result is the bag's.
FlushFile ==
    /\ stage = "file"
    /\ disk = "good" => on_disk = Len(given)
    /\ stage' = "drop"
    /\ outcome' = IF disk = "good" THEN "ok" ELSE "err"
    /\ UNCHANGED <<waited, server, hand, aired, given, missed, disk, on_disk, footer>>

\* The streams are dropped, which nobody hears about.
Drop ==
    /\ stage = "drop"
    /\ stage' = "closed"
    /\ footer' = (disk = "good")
    /\ UNCHANGED <<waited, server, hand, aired, given, missed, disk, on_disk, outcome>>

-----------------------------------------------------------------------------
\* Mutant: the sink takes the item in hand before the stream has it.
DrainAhead ==
    /\ stage \in Alive
    /\ disk = "good"
    /\ on_disk < Len(given) + Len(hand)
    /\ on_disk' = on_disk + 1
    /\ UNCHANGED <<stage, waited, server, hand, aired, given, missed, disk, footer, outcome>>

\* The file's sink writes its next item.
Drain ==
    /\ stage \in Alive
    /\ disk = "good"
    /\ on_disk < Len(given)
    /\ on_disk' = on_disk + 1
    /\ UNCHANGED <<stage, waited, server, hand, aired, given, missed, disk, footer, outcome>>

DiskBreaks ==
    /\ stage \in Alive
    /\ disk = "good"
    /\ disk' = "broken"
    /\ UNCHANGED <<stage, waited, server, hand, aired, given, missed, on_disk, footer,
                   outcome>>

\* The server answers, and its client hands it what it has queued.
ServerAnswers ==
    /\ stage \in Alive \ {"saving"}
    /\ server = "connecting"
    /\ server' = "connected"
    /\ UNCHANGED <<stage, waited, hand, aired, given, missed, disk, on_disk, footer, outcome>>

\* It refuses, or goes away.
ServerLeaves ==
    /\ stage \in Alive \ {"saving"}
    /\ server \in {"connecting", "connected"}
    /\ server' = "disconnected"
    /\ UNCHANGED <<stage, waited, hand, aired, given, missed, disk, on_disk, footer, outcome>>

\* The process dies: what the sink has written is what is left.
Crash ==
    /\ stage \in Alive
    /\ stage' = "crashed"
    /\ server' = "none"
    /\ waited' = 0
    /\ hand' = <<>>
    /\ aired' = FALSE
    /\ UNCHANGED <<given, missed, disk, on_disk, footer, outcome>>

\* The steps of the thread that calls.
Caller == Save \/ Poll \/ Air \/ Store \/ FlushLive \/ FlushFile \/ Drop

World == Drain \/ DiskBreaks \/ ServerAnswers \/ ServerLeaves \/ Crash

Next ==
    \/ \E item \in Items : Give(item)
    \/ BeginClose
    \/ Caller
    \/ World

\* What a user of the streams may do with them, whatever comes of it.
Spec == Init /\ [][Next]_vars

-----------------------------------------------------------------------------
TypeOK ==
    /\ stage \in Stage
    /\ waited \in Nat
    /\ server \in {"none", "connecting", "connected", "disconnected"}
    /\ hand \in Seq(Items) /\ Len(hand) <= 1
    /\ aired \in BOOLEAN
    /\ given \in Seq(Items)
    /\ missed \in BOOLEAN
    /\ disk \in {"good", "broken"}
    /\ on_disk \in 0 .. Len(given)
    /\ footer \in BOOLEAN
    /\ outcome \in {"ok", "err"}

\* The file decides what a close returns, and the server never does: Ok means
\* that every item given is on disk, an error that the disk failed, and what a
\* server that stayed to the end got is what is on disk.  writer.rs:22-28,
\* 105-140.
CloseTellsTheFile ==
    stage = "closed" =>
        /\ outcome = "ok"  => on_disk = Len(given)
        /\ outcome = "err" => disk = "broken"
        /\ outcome = "ok" /\ server = "connected" => ~missed

\* No item waits for a server that has not answered: a recording is open only
\* once its server has, and one that goes away later reports.  writer.rs:72-77.
NeverHeldUp ==
    stage \in {"open", "live", "file", "drop", "closed"} => server # "connecting"

=============================================================================
