---------------------------- MODULE ReaderProofs ----------------------------
(***************************************************************************)
(* What Reader.tla keeps, for every file, with or without an index: its    *)
(* types, that no message is handed out before one a chunk still unread    *)
(* could hold, that over an index it reads no further than it has to, and  *)
(* that reading is Playback.                                               *)
(***************************************************************************)
EXTENDS Reader, TLAPS, FiniteSetTheorems, WellFoundedInduction

-----------------------------------------------------------------------------
(* Least and greatest, of sets of integers with a bound. *)

Below == {p \in Nat \X Nat : p[1] < p[2]}

\* A set of naturals has a least one.
LEMMA SmallestIs ==
  ASSUME NEW T, T \subseteq Nat, T # {}
  PROVE  \E n \in T : \A m \in T : n <= m
<1>1. IsWellFoundedOn(Below, Nat)
  BY NatLessThanWellFounded DEF OpToRel, Below
<1>2. PICK n \in T : \A m \in T : <<m, n>> \notin Below
  BY <1>1, WFMin
<1>3. ASSUME NEW m \in T PROVE n <= m
  <2>1. n \in Nat /\ m \in Nat
    OBVIOUS
  <2>2. m < n => <<m, n>> \in Below
    BY <2>1 DEF Below
  <2> QED
    BY <1>2, <2>1, <2>2
<1> QED
  BY <1>3

\* A set of integers with a lower bound has a least one.
LEMMA LeastIs ==
  ASSUME NEW S, S \subseteq Int, S # {}, NEW b \in Int, \A x \in S : b <= x
  PROVE  Least(S) \in S /\ \A x \in S : Least(S) <= x
<1> DEFINE T == {n \in Nat : n + b \in S}
<1>1. \A x \in S : x \in Int /\ x - b \in T /\ (x - b) + b = x
  OBVIOUS
<1>2. PICK n \in T : \A m \in T : n <= m
  <2>1. T \subseteq Nat /\ T # {}
    BY <1>1
  <2> HIDE DEF T
  <2> QED
    BY <2>1, SmallestIs
<1>3. n + b \in S /\ \A x \in S : n + b <= x
  BY <1>1, <1>2
<1> QED
  BY <1>3, Zenon DEF Least

\* One with an upper bound has a greatest one.
LEMMA GreatestIs ==
  ASSUME NEW S, S \subseteq Int, S # {}, NEW b \in Int, \A x \in S : x <= b
  PROVE  Greatest(S) \in S /\ \A x \in S : x <= Greatest(S)
<1> DEFINE T == {n \in Nat : b - n \in S}
<1>1. \A x \in S : x \in Int /\ b - x \in T /\ b - (b - x) = x
  OBVIOUS
<1>2. PICK n \in T : \A m \in T : n <= m
  <2>1. T \subseteq Nat /\ T # {}
    BY <1>1
  <2> HIDE DEF T
  <2> QED
    BY <2>1, SmallestIs
<1>3. b - n \in S /\ \A x \in S : x <= b - n
  BY <1>1, <1>2
<1> QED
  BY <1>3, Zenon DEF Greatest

\* A finite set of naturals has an upper bound.
LEMMA FiniteIsBounded ==
  ASSUME NEW S, S \subseteq Nat, IsFiniteSet(S)
  PROVE  \E b \in Nat : \A x \in S : x <= b
<1> DEFINE n == Cardinality(S)
<1>1. n \in Nat /\ ExistsBijection(1 .. n, S)
  BY FS_CardinalityType
<1>2. PICK f \in [1 .. n -> S] : \A x \in S : \E i \in 1 .. n : f[i] = x
  BY <1>1 DEF ExistsBijection, Bijection, Surjection, Injection
<1> HIDE DEF n
<1>3. \A i \in 1 .. n : f[i] \in Nat
  BY <1>2
<1> DEFINE Bounds(b, k) == \A i \in 1 .. n : i <= k => f[i] <= b
           T == {k \in Nat : \A b \in Nat : ~Bounds(b, k)}
<1>4. T = {}
  <2> SUFFICES ASSUME T # {} PROVE FALSE
    OBVIOUS
  <2>1. PICK k \in T : \A m \in T : k <= m
    <3>1. T \subseteq Nat
      OBVIOUS
    <3> HIDE DEF T
    <3> QED
      BY <3>1, SmallestIs
  <2>2. \A b \in Nat : ~Bounds(b, k)
    OBVIOUS
  <2>3. k \in Nat
    OBVIOUS
  <2>4. k # 0
    <3>1. Bounds(0, 0)
      BY <1>1
    <3> QED
      BY <2>2, <3>1
  <2>5. PICK b \in Nat : Bounds(b, k - 1)
    <3>1. k - 1 \in Nat /\ ~(k <= k - 1)
      BY <2>3, <2>4
    <3>2. k - 1 \notin T
      BY <2>1, <3>1
    <3> QED
      BY <3>1, <3>2
  <2> HIDE DEF T
  <2>6. ASSUME NEW c \in Nat, b <= c, k \in 1 .. n => f[k] <= c
        PROVE  Bounds(c, k)
    <3> SUFFICES ASSUME NEW i \in 1 .. n, i <= k PROVE f[i] <= c
      OBVIOUS
    <3>1. f[i] \in Nat /\ i \in Int /\ k \in Nat
      BY <1>1, <1>3, <2>3
    <3>2. CASE i = k
      BY <2>6, <3>2
    <3>3. CASE i <= k - 1
      <4>1. f[i] <= b
        BY <2>5, <3>3
      <4> QED
        BY <2>6, <3>1, <4>1
    <3> QED
      BY <3>1, <3>2, <3>3
  <2> HIDE DEF Bounds
  <2>7. CASE k \in 1 .. n
    <3>1. f[k] \in Nat
      BY <1>3, <2>7
    <3>2. f[k] <= b => Bounds(b, k)
      BY <2>6
    <3>3. b <= f[k] => Bounds(f[k], k)
      BY <2>6, <3>1
    <3> QED
      BY <2>2, <3>1, <3>2, <3>3
  <2>8. CASE k \notin 1 .. n
    BY <2>2, <2>6, <2>8
  <2> QED
    BY <2>7, <2>8
<1>5. PICK b \in Nat : Bounds(b, n)
  BY <1>1, <1>4
<1>6. \A i \in 1 .. n : f[i] <= b
  BY <1>1, <1>5
<1> QED
  BY <1>2, <1>6

-----------------------------------------------------------------------------
(* The recording. *)

\* What the chunks still to be handed out are, had n been handed out.
UnreadAfter(n) ==
    IF ~footer THEN n + 1 .. Len(file)
    ELSE IF reverse THEN {index[i] : i \in 1 .. Len(index) - n}
    ELSE {index[i] : i \in n + 1 .. Len(index)}

\* The index lists the chunks with messages by start, each once.
Indexed ==
    /\ \A i \in DOMAIN index : HoldsMessages(index[i])
    /\ \A i, j \in DOMAIN index :
          i < j => index[i] # index[j] /\ StartOf(index[i]) <= StartOf(index[j])
    /\ footer => \A c \in DOMAIN file :
          HoldsMessages(c) => \E i \in DOMAIN index : index[i] = c

\* The window holds chunks that have been handed out, each once.
Windowed ==
    /\ IsFiniteSet(window)
    /\ \A w \in window : HoldsMessages(w.chunk) /\ w.chunk \notin Unread
    /\ \A v, w \in window : v.chunk = w.chunk => v = w

\* A scan has counted no more message chunks than it has passed.
Counted == next_chunk <= at /\ (footer => next_chunk = 0)

IInv == TypeOK /\ Indexed /\ Windowed /\ Counted

\* Times lie strictly between the extremes.
LEMMA TimeIs ==
  ASSUME NEW t \in Times
  PROVE  /\ t \in Int /\ MinTime \in Int /\ MaxTime \in Int
         /\ MinTime < t /\ t < MaxTime /\ t # MinTime /\ t # MaxTime
<1>1. t \in Int /\ MinTime \in Int /\ MaxTime \in Int /\ MinTime < t /\ t < MaxTime
  BY TimesAssumption
<1> QED
  BY <1>1

\* The file is one of those considered.
LEMMA FileType ==
  ASSUME TypeOK
  PROVE  /\ file \in Seq(FileChunk) /\ footer \in BOOLEAN
         /\ \A c \in DOMAIN file :
               /\ c \in 1 .. Len(file)
               /\ file[c] \in FileChunk
               /\ file[c].rows \in Seq(MessageRow) /\ file[c].rows # <<>>
               /\ \A i \in DOMAIN file[c].rows : file[c].rows[i] \in MessageRow
         /\ flaky \subseteq DOMAIN file \union {NoChunk}
<1>1. /\ file \in Seq(FileChunk) /\ \A i \in DOMAIN file : file[i].rows # <<>>
      /\ footer \in BOOLEAN /\ flaky \subseteq DOMAIN file \union {NoChunk}
  BY CasesAssumption DEF TypeOK
<1>2. ASSUME NEW c \in DOMAIN file
      PROVE  /\ c \in 1 .. Len(file)
             /\ file[c] \in FileChunk
             /\ file[c].rows \in Seq(MessageRow) /\ file[c].rows # <<>>
             /\ \A i \in DOMAIN file[c].rows : file[c].rows[i] \in MessageRow
  <2>1. c \in 1 .. Len(file) /\ file[c] \in FileChunk
    BY <1>1
  <2>2. file[c].rows \in Seq(MessageRow)
    BY <2>1 DEF FileChunk
  <2>3. \A i \in DOMAIN file[c].rows : file[c].rows[i] \in MessageRow
    <3> HIDE DEF MessageRow
    <3> QED
      BY <2>2
  <2> QED
    BY <1>1, <2>1, <2>2, <2>3
<1> QED
  BY <1>1, <1>2

\* Every chunk has an earliest and a latest row, and both are times.
LEMMA ChunkTimes ==
  ASSUME TypeOK, NEW c \in DOMAIN file
  PROVE  /\ StartOf(c) \in Times /\ EndOf(c) \in Times
         /\ \A i \in DOMAIN file[c].rows :
               /\ file[c].rows[i].recv \in Times
               /\ StartOf(c) <= file[c].rows[i].recv
               /\ file[c].rows[i].recv <= EndOf(c)
<1>1. Recvs(c) # {} /\ \A i \in DOMAIN file[c].rows : file[c].rows[i].recv \in Times
  <2>1. file[c].rows \in Seq(MessageRow) /\ file[c].rows # <<>>
    BY FileType
  <2>2. 1 \in DOMAIN file[c].rows
    BY <2>1
  <2>3. \A i \in DOMAIN file[c].rows : file[c].rows[i] \in MessageRow
    BY FileType
  <2> QED
    BY <2>2, <2>3 DEF Recvs, MessageRow
<1>2. Recvs(c) \subseteq Times
  BY <1>1 DEF Recvs
<1>3. /\ Recvs(c) \subseteq Int /\ MinTime \in Int /\ MaxTime \in Int
      /\ \A x \in Recvs(c) : MinTime <= x /\ x <= MaxTime
  <2>1. \A x \in Recvs(c) : x \in Int /\ MinTime < x /\ x < MaxTime
    BY <1>2, TimesAssumption
  <2> QED
    BY <2>1, TimesAssumption
<1>4. StartOf(c) \in Recvs(c) /\ \A x \in Recvs(c) : StartOf(c) <= x
  BY <1>1, <1>3, LeastIs DEF StartOf
<1>5. EndOf(c) \in Recvs(c) /\ \A x \in Recvs(c) : x <= EndOf(c)
  BY <1>1, <1>3, GreatestIs DEF EndOf
<1>6. \A i \in DOMAIN file[c].rows : file[c].rows[i].recv \in Recvs(c)
  BY DEF Recvs
<1> QED
  BY <1>1, <1>2, <1>4, <1>5, <1>6

\* A message chunk's rows are among the messages.
LEMMA ChunkMessages ==
  ASSUME NEW c \in DOMAIN file, HoldsMessages(c)
  PROVE  MessagesOf(c) \subseteq Messages
  BY DEF HoldsMessages, Messages

\* Rows of message chunks differ in their numbers.
LEMMA RowNumbers ==
  ASSUME TypeOK, NEW c \in DOMAIN file, NEW d \in DOMAIN file,
         HoldsMessages(c), HoldsMessages(d),
         NEW i \in DOMAIN file[c].rows, NEW j \in DOMAIN file[d].rows,
         file[c].rows[i].sequence = file[d].rows[j].sequence
  PROVE  c = d /\ i = j
<1> DEFINE this == [file |-> file, footer |-> footer, flaky |-> flaky]
<1>1. this \in Cases /\ this.file = file
  BY DEF TypeOK
<1> QED
  BY <1>1, NumbersAssumption DEF HoldsMessages

\* Reader::open's index is in order.
LEMMA IndexIs ==
  ASSUME file \in Seq(FileChunk), index \in SortedIndexes
  PROVE  index \in Seq(DOMAIN file) /\ (TypeOK => Indexed)
<1> DEFINE kept == {c \in DOMAIN file : HoldsMessages(c)}
<1>1. IsFiniteSet(kept)
  <2>1. kept \in SUBSET (1 .. Len(file)) /\ Len(file) \in Int
    OBVIOUS
  <2>2. IsFiniteSet(1 .. Len(file))
    BY <2>1, FS_Interval
  <2> HIDE DEF kept
  <2> QED
    BY <2>1, <2>2, FS_Subset
<1>2. Cardinality(kept) \in Nat
  <2> HIDE DEF kept
  <2> QED
    BY <1>1, FS_CardinalityType
<1>3. /\ index \in [1 .. Cardinality(kept) -> kept]
      /\ \A i, j \in DOMAIN index : index[i] = index[j] => i = j
      /\ \A i, j \in DOMAIN index : i < j =>
            StartOf(index[i]) < StartOf(index[j]) \/ StartOf(index[i]) = StartOf(index[j])
  BY DEF SortedIndexes
<1>4. index \in Seq(kept) /\ DOMAIN index \subseteq Int
  <2> HIDE DEF kept
  <2> QED
    BY <1>2, <1>3
<1>5. \A i \in DOMAIN index : index[i] \in DOMAIN file /\ HoldsMessages(index[i])
  BY <1>3
<1>6. index \in Seq(DOMAIN file)
  BY <1>4, <1>5
<1>7. ASSUME TypeOK, NEW i \in DOMAIN index, NEW j \in DOMAIN index, i < j
      PROVE  index[i] # index[j] /\ StartOf(index[i]) <= StartOf(index[j])
  <2>1. StartOf(index[i]) \in Int /\ StartOf(index[j]) \in Int
    BY <1>5, <1>7, ChunkTimes, TimesAssumption
  <2>2. i # j
    BY <1>4, <1>7
  <2> QED
    BY <1>3, <1>7, <2>1, <2>2
<1>8. ASSUME NEW c \in DOMAIN file, HoldsMessages(c)
      PROVE  \E i \in DOMAIN index : index[i] = c
  <2> DEFINE n == Cardinality(kept)
  <2>1. c \in kept
    BY <1>8
  <2>2. IsFiniteSet(1 .. n) /\ Cardinality(1 .. n) = n
    <3> HIDE DEF kept
    <3>1. 1 \in Int /\ n \in Int /\ (IF 1 > n THEN 0 ELSE n - 1 + 1) = n
      BY <1>2
    <3> HIDE DEF n
    <3> QED
      BY <3>1, FS_Interval
  <2> HIDE DEF kept
  <2>3. index \in Injection(1 .. n, kept)
    BY <1>3 DEF Injection, IsInjective
  <2>4. index \in Surjection(1 .. n, kept)
    BY <1>1, <2>2, <2>3, FS_Injection
  <2> QED
    BY <1>3, <2>1, <2>4 DEF Surjection
<1> QED
  BY <1>5, <1>6, <1>7, <1>8 DEF Indexed

-----------------------------------------------------------------------------
(* The window. *)

\* What is next of a chunk in the window is one of its rows.
LEMMA RowIs ==
  ASSUME IInv, NEW w \in window
  PROVE  /\ w.chunk \in DOMAIN file
         /\ \E i \in DOMAIN file[w.chunk].rows : Row(w) = file[w.chunk].rows[i]
         /\ Row(w).recv \in Times /\ Row(w).recv \in Int /\ Row(w).sequence \in Nat
<1>1. w.chunk \in DOMAIN file /\ w.next \in Nat \ {0} /\ w.next <= Len(file[w.chunk].rows)
  BY DEF IInv, TypeOK, WindowEntry
<1> DEFINE rows == file[w.chunk].rows
<1>2. rows \in Seq(MessageRow) /\ \A i \in DOMAIN rows : rows[i] \in MessageRow
  BY <1>1, FileType DEF IInv
<1>3. PICK i \in DOMAIN rows : Row(w) = rows[i]
  <2> HIDE DEF MessageRow
  <2>1. w.next \in DOMAIN rows /\ Len(rows) + 1 - w.next \in DOMAIN rows
    BY <1>1, <1>2
  <2> QED
    BY <2>1 DEF Row
<1>4. rows[i] \in MessageRow
  BY <1>2
<1> QED
  BY <1>1, <1>3, <1>4, TimesAssumption DEF MessageRow

\* Of two chunks in the window, one has the earlier row.
LEMMA HeadsDiffer ==
  ASSUME IInv, NEW v \in window, NEW w \in window, v # w
  PROVE  Row(v).sequence # Row(w).sequence
<1>1. v.chunk # w.chunk /\ HoldsMessages(v.chunk) /\ HoldsMessages(w.chunk) /\ TypeOK
  BY DEF IInv, Windowed
<1> QED
  BY <1>1, RowIs, RowNumbers

\* The receive times of the rows next in the window.
Heads == {Row(w).recv : w \in window}

\* There is a first row, and its receive time is what fill compares with.
LEMMA ChosenIs ==
  ASSUME IInv, window # {}
  PROVE  /\ Chosen \in window /\ IsChosen(Chosen)
         /\ Row(Chosen).recv = Candidate
         /\ \A w \in window : IF reverse THEN Row(w).recv <= Candidate
                                         ELSE Candidate <= Row(w).recv
<1>1. /\ Heads \subseteq Int /\ Heads # {} /\ MinTime \in Int /\ MaxTime \in Int
      /\ \A x \in Heads : MinTime <= x /\ x <= MaxTime
  <2>1. Heads \subseteq Times /\ Heads # {}
    BY RowIs DEF Heads
  <2>2. \A x \in Heads : x \in Int /\ MinTime < x /\ x < MaxTime
    BY <2>1, TimesAssumption
  <2> QED
    BY <2>1, <2>2, TimesAssumption
<1>2. Candidate = (IF reverse THEN Greatest(Heads) ELSE Least(Heads))
  BY DEF Candidate, Heads
<1>3. /\ Candidate \in Heads
      /\ \A w \in window : IF reverse THEN Row(w).recv <= Candidate
                                      ELSE Candidate <= Row(w).recv
  <2>1. \A w \in window : Row(w).recv \in Heads
    BY DEF Heads
  <2>2. CASE reverse
    BY <1>1, <1>2, <2>1, <2>2, GreatestIs
  <2>3. CASE ~reverse
    BY <1>1, <1>2, <2>1, <2>3, LeastIs
  <2> QED
    BY <2>2, <2>3
<1> DEFINE tied == {w \in window : Row(w).recv = Candidate}
           numbers == {Row(w).sequence : w \in tied}
<1>4. numbers \subseteq Nat /\ numbers # {}
  BY <1>3, RowIs DEF Heads
<1>5. PICK w \in tied : \A v \in tied : IF reverse THEN Row(v).sequence <= Row(w).sequence
                                                   ELSE Row(w).sequence <= Row(v).sequence
  <2>1. CASE reverse
    <3>1. IsFiniteSet(tied)
      <4>1. IsFiniteSet(window) /\ tied \in SUBSET window
        BY DEF IInv, Windowed
      <4> HIDE DEF tied
      <4> QED
        BY <4>1, FS_Subset
    <3>2. [v \in tied |-> Row(v).sequence] \in Surjection(tied, numbers)
      BY DEF Surjection
    <3>3. IsFiniteSet(numbers)
      <4> HIDE DEF tied, numbers
      <4> QED
        BY <3>1, <3>2, FS_Surjection
    <3>4. PICK n \in numbers : \A m \in numbers : m <= n
      <4>1. PICK b \in Nat : \A x \in numbers : x <= b
        BY <1>4, <3>3, FiniteIsBounded
      <4>2. b \in Int /\ numbers \subseteq Int
        BY <1>4
      <4> HIDE DEF numbers
      <4> QED
        BY <1>4, <4>1, <4>2, GreatestIs
    <3> QED
      BY <2>1, <3>4
  <2>2. CASE ~reverse
    <3>1. PICK n \in numbers : \A m \in numbers : n <= m
      <4> HIDE DEF numbers
      <4> QED
        BY <1>4, SmallestIs
    <3> QED
      BY <2>2, <3>1
  <2> QED
    BY <2>1, <2>2
<1>6. IsChosen(w)
  <2> SUFFICES ASSUME NEW v \in window, v # w PROVE Precedes(Row(w), Row(v))
    BY DEF IsChosen
  <2>1. /\ Row(v).sequence # Row(w).sequence
        /\ Row(v).recv \in Int /\ Row(v).sequence \in Nat
        /\ Row(w).recv \in Int /\ Row(w).sequence \in Nat
    BY HeadsDiffer, RowIs
  <2>2. CASE Row(v).recv = Candidate
    BY <1>5, <2>1, <2>2 DEF Precedes, Before
  <2>3. CASE Row(v).recv # Candidate
    BY <1>3, <2>1, <2>3 DEF Precedes, Before
  <2> QED
    BY <2>2, <2>3
<1>7. Chosen \in window /\ IsChosen(Chosen)
  BY <1>6 DEF Chosen
<1>8. Row(Chosen).recv = Candidate
  <2>1. CASE Chosen = w
    BY <2>1
  <2>2. CASE Chosen # w
    <3>1. Precedes(Row(Chosen), Row(w))
      BY <1>7, <2>2 DEF IsChosen
    <3>2. /\ Row(Chosen).recv \in Int /\ Row(w).recv = Candidate /\ Candidate \in Int
      BY <1>1, <1>3, <1>7, RowIs
    <3>3. IF reverse THEN Row(Chosen).recv <= Candidate ELSE Candidate <= Row(Chosen).recv
      BY <1>3, <1>7
    <3> QED
      BY <3>1, <3>2, <3>3 DEF Precedes, Before
  <2> QED
    BY <2>1, <2>2
<1> QED
  BY <1>3, <1>7, <1>8

-----------------------------------------------------------------------------
(* What a turn of fill does. *)

\* The least of a set of naturals.
LEMMA LeastFrom ==
  ASSUME NEW S, S \subseteq Nat, S # {}
  PROVE  Least(S) \in S /\ \A x \in S : Least(S) <= x
<1>1. S \subseteq Int /\ 0 \in Int /\ \A x \in S : 0 <= x
  OBVIOUS
<1> QED
  BY <1>1, LeastIs, Zenon

\* It goes on in the file or the index, and takes a message chunk that was
\* unread and is not any more.
LEMMA PulledIs ==
  ASSUME IInv
  PROVE  /\ Pulled.at \in at .. Limit
         /\ UnreadAfter(Pulled.at) \subseteq Unread
         /\ Pulled.chunk = NoChunk => Pulled.at = Limit
         /\ Pulled.chunk # NoChunk =>
               /\ at < Pulled.at
               /\ Pulled.chunk \in DOMAIN file /\ HoldsMessages(Pulled.chunk)
               /\ Pulled.chunk \in Unread \ UnreadAfter(Pulled.at)
<1>1. /\ at \in Nat /\ at <= Limit /\ Limit \in Nat
      /\ index \in Seq(DOMAIN file) /\ file \in Seq(FileChunk)
      /\ footer \in BOOLEAN
  BY FileType DEF IInv, TypeOK, Limit
<1>2. CASE footer
  <2> DEFINE n == Len(index)
             unread == {i \in at .. n - 1 : Wanted(file[Ordered[i]].topic)}
             next == Least(unread)
  <2>1. /\ Limit = n /\ n \in Nat /\ unread \subseteq Nat
        /\ DOMAIN index = 1 .. n
    BY <1>1, <1>2 DEF Limit
  <2>2. CASE unread = {}
    <3>1. Pulled.at = n /\ Pulled.chunk = NoChunk
      BY <1>2, <2>2 DEF Pulled, NextIndexed
    <3> QED
      BY <1>1, <1>2, <2>1, <3>1 DEF UnreadAfter, Unread
  <2>3. CASE unread # {}
    <3>1. /\ Pulled.at = next + 1
          /\ Pulled.chunk = Ordered[next]
      BY <1>2, <2>3 DEF Pulled, NextIndexed
    <3>2. next \in unread
      <4> HIDE DEF unread
      <4> QED
        BY <2>1, <2>3, LeastFrom
    <3>3. next \in Nat /\ at <= next /\ next < n
      BY <1>1, <2>1, <3>2
    <3> HIDE DEF next
    <3> DEFINE place == IF reverse THEN n - next ELSE next + 1
    <3>4. place \in 1 .. n /\ Pulled.chunk = index[place]
      BY <2>1, <3>1, <3>3 DEF Ordered
    <3>5. Pulled.chunk \in DOMAIN file /\ HoldsMessages(Pulled.chunk)
      BY <1>1, <2>1, <3>4 DEF IInv, Indexed
    <3>6. Pulled.chunk \in Unread
      BY <1>1, <1>2, <3>3, <3>4 DEF Unread
    <3>7. \A i, j \in 1 .. n : i # j => index[i] # index[j]
      BY <2>1 DEF IInv, Indexed
    <3>8. Pulled.chunk \notin UnreadAfter(Pulled.at)
      <4>1. CASE reverse
        <5>1. UnreadAfter(Pulled.at) = {index[i] : i \in 1 .. n - (next + 1)}
          BY <1>2, <3>1, <4>1 DEF UnreadAfter
        <5>2. \A i \in 1 .. n - (next + 1) : i \in 1 .. n /\ i # place
          BY <2>1, <3>3, <4>1
        <5> QED
          BY <3>4, <3>7, <5>1, <5>2
      <4>2. CASE ~reverse
        <5>1. UnreadAfter(Pulled.at) = {index[i] : i \in next + 2 .. n}
          BY <1>2, <3>1, <3>3, <4>2 DEF UnreadAfter
        <5>2. \A i \in next + 2 .. n : i \in 1 .. n /\ i # place
          BY <2>1, <3>3, <4>2
        <5> QED
          BY <3>4, <3>7, <5>1, <5>2
      <4> QED
        BY <4>1, <4>2
    <3>9. UnreadAfter(Pulled.at) \subseteq Unread
      BY <1>1, <1>2, <2>1, <3>1, <3>3 DEF UnreadAfter, Unread
    <3>10. Pulled.chunk # NoChunk
      BY <1>1, <3>5 DEF NoChunk
    <3> QED
      BY <1>1, <2>1, <3>1, <3>3, <3>5, <3>6, <3>8, <3>9, <3>10
  <2> QED
    BY <2>2, <2>3
<1>3. CASE ~footer
  <2> DEFINE n == Len(file)
             unread == {c \in at + 1 .. n : HoldsMessages(c)}
             next == Least(unread)
  <2>1. /\ Limit = n /\ n \in Nat /\ unread \subseteq Nat
        /\ DOMAIN file = 1 .. n
    BY <1>1, <1>3 DEF Limit
  <2>2. CASE unread = {}
    <3>1. Pulled.at = n /\ Pulled.chunk = NoChunk
      BY <1>3, <2>2 DEF Pulled, NextScanned
    <3> QED
      BY <1>1, <1>3, <2>1, <3>1 DEF UnreadAfter, Unread
  <2>3. CASE unread # {}
    <3>1. Pulled.at = next /\ Pulled.chunk = next
      BY <1>3, <2>3 DEF Pulled, NextScanned
    <3>2. next \in unread
      <4> HIDE DEF unread
      <4> QED
        BY <2>1, <2>3, LeastFrom
    <3>3. next \in Nat /\ at < next /\ next <= n /\ HoldsMessages(next)
      BY <1>1, <2>1, <3>2
    <3> HIDE DEF next
    <3>4. Pulled.chunk # NoChunk
      BY <1>1, <3>1, <3>3 DEF NoChunk
    <3> QED
      BY <1>1, <1>3, <2>1, <3>1, <3>3, <3>4 DEF UnreadAfter, Unread
  <2> QED
    BY <2>2, <2>3
<1> QED
  BY <1>1, <1>2, <1>3

\* Passing what it pulled keeps the counts.
LEMMA PassKeeps ==
  ASSUME IInv, PassPulled, UNCHANGED <<recording, reverse>>
  PROVE  /\ at' \in 0 .. Limit /\ at' = Pulled.at
         /\ next_chunk' \in 0 .. Len(file)
         /\ Unread' = UnreadAfter(Pulled.at)
         /\ Counted'
<1>1. at' = Pulled.at /\ at' \in at .. Limit /\ at \in Nat /\ next_chunk \in Nat
  BY PulledIs DEF PassPulled, IInv, TypeOK
<1>2. file \in Seq(FileChunk) /\ Limit \in Nat /\ Len(file) \in Nat
  BY FileType DEF IInv, TypeOK, Limit
<1>3. Unread' = UnreadAfter(Pulled.at)
  BY <1>1, Zenon DEF Unread, UnreadAfter, recording
<1>4. CASE footer
  <2>1. next_chunk' = 0 /\ footer'
    BY <1>4 DEF PassPulled, IInv, Counted, recording
  <2> QED
    BY <1>1, <1>2, <1>3, <2>1 DEF Counted
<1>5. CASE ~footer
  <2> DEFINE passed == {c \in at + 1 .. Pulled.at : file[c].topic \in Topics}
  <2>1. next_chunk' = next_chunk + Cardinality(passed)
    BY <1>5 DEF PassPulled
  <2>2. Cardinality(passed) \in Nat /\ Cardinality(passed) <= Pulled.at - at
    <3>1. passed \in SUBSET (at + 1 .. Pulled.at)
      OBVIOUS
    <3>2. /\ IsFiniteSet(at + 1 .. Pulled.at)
          /\ Cardinality(at + 1 .. Pulled.at) = Pulled.at - at
      <4>1. at + 1 \in Int /\ Pulled.at \in Int /\ at <= Pulled.at
        BY <1>1, <1>2
      <4>2. /\ IsFiniteSet(at + 1 .. Pulled.at)
            /\ Cardinality(at + 1 .. Pulled.at) =
                  IF at + 1 > Pulled.at THEN 0 ELSE Pulled.at - (at + 1) + 1
        BY <4>1, FS_Interval
      <4> QED
        BY <1>1, <4>1, <4>2
    <3> HIDE DEF passed
    <3> QED
      BY <3>1, <3>2, FS_Subset, FS_CardinalityType
  <2>3. next_chunk <= at /\ Limit = Len(file) /\ ~footer'
    BY <1>5 DEF IInv, Counted, Limit, recording
  <2> HIDE DEF passed
  <2> QED
    BY <1>1, <1>2, <1>3, <2>1, <2>2, <2>3 DEF Counted
<1> QED
  BY <1>4, <1>5

-----------------------------------------------------------------------------
(* Steps. *)

\* What is said of the recording stays so as long as it does.
LEMMA RecordingKeeps ==
  ASSUME IInv, UNCHANGED recording
  PROVE  Indexed' /\ Messages' = Messages /\ Limit' = Limit
<1>1. file' = file /\ footer' = footer /\ index' = index
  BY DEF recording
<1>2. Messages' = Messages
  <2>1. \A c : MessagesOf(c)' = MessagesOf(c)
    BY <1>1 DEF MessagesOf
  <2> QED
    BY <1>1, <2>1 DEF Messages
<1>3. Limit' = Limit
  BY <1>1, Zenon DEF Limit
<1>4. Indexed
  BY DEF IInv
<1>5. \A c : Recvs(c)' = Recvs(c) /\ HoldsMessages(c)' = HoldsMessages(c)
  BY <1>1 DEF Recvs, HoldsMessages
<1>6. \A c : StartOf(c)' = StartOf(c)
  BY <1>5 DEF StartOf
<1>7. Indexed'
  BY <1>1, <1>4, <1>5, <1>6 DEF Indexed
<1> QED
  BY <1>2, <1>3, <1>7

\* Entries of the window that are in order.
WindowType ==
    window \subseteq WindowEntry /\ \A w \in window : w.next <= Len(file[w.chunk].rows)

\* Starting over leaves nothing in the window.
LEMMA EmptyKeeps ==
  ASSUME window' = {}
  PROVE  WindowType' /\ Windowed'
BY FS_EmptySet DEF WindowType, Windowed

\* Pull adds a chunk that was unread.
LEMMA PullWindow ==
  ASSUME IInv, Pull
  PROVE  WindowType' /\ Windowed'
<1> DEFINE new == [chunk |-> Pulled.chunk, next |-> 1]
<1>1. /\ file' = file /\ footer' = footer /\ Unread' = UnreadAfter(Pulled.at)
      /\ UnreadAfter(Pulled.at) \subseteq Unread
  BY PassKeeps, PulledIs DEF Pull, recording
<1>2. window \subseteq WindowEntry /\ WindowEntry' = WindowEntry
  BY <1>1 DEF IInv, TypeOK, WindowEntry
<1>3. \A c : HoldsMessages(c)' = HoldsMessages(c)
  BY <1>1 DEF HoldsMessages
<1>4. IsFiniteSet(window) /\ IsFiniteSet(window \union {new})
  BY FS_AddElement DEF IInv, Windowed
<1>5. CASE Pulled.chunk = NoChunk
  BY <1>1, <1>2, <1>3, <1>4, <1>5 DEF Pull, WindowType, Windowed, IInv, TypeOK
<1>6. CASE Pulled.chunk # NoChunk
  <2>1. /\ Pulled.chunk \in DOMAIN file /\ HoldsMessages(Pulled.chunk)
        /\ Pulled.chunk \in Unread \ UnreadAfter(Pulled.at)
    BY <1>6, PulledIs
  <2>2. Len(file[Pulled.chunk].rows) >= 1 /\ Len(file[Pulled.chunk].rows) \in Nat
    <3>1. file[Pulled.chunk].rows \in Seq(MessageRow) /\ file[Pulled.chunk].rows # <<>>
      BY <2>1, FileType DEF IInv
    <3> QED
      BY <3>1
  <2>3. window' = window \union {new}
    BY <1>6 DEF Pull
  <2>4. new \in WindowEntry /\ new.next <= Len(file[new.chunk].rows)
    BY <2>1, <2>2 DEF WindowEntry
  <2>5. WindowType'
    BY <1>1, <1>2, <2>3, <2>4 DEF WindowType, IInv, TypeOK
  <2>6. \A w \in window : w.chunk # new.chunk
    BY <2>1 DEF IInv, Windowed
  <2>7. Windowed'
    BY <1>1, <1>3, <1>4, <2>1, <2>3, <2>6 DEF IInv, Windowed
  <2> QED
    BY <2>5, <2>7
<1> QED
  BY <1>5, <1>6

\* A pull that fails leaves the window.
LEMMA PullFailsWindow ==
  ASSUME IInv, PullFails
  PROVE  WindowType' /\ Windowed'
<1>1. /\ file' = file /\ footer' = footer /\ Unread' \subseteq Unread /\ window' = window
  BY PassKeeps, PulledIs DEF PullFails, recording
<1>2. WindowEntry' = WindowEntry /\ \A c : HoldsMessages(c)' = HoldsMessages(c)
  BY <1>1 DEF WindowEntry, HoldsMessages
<1> QED
  BY <1>1, <1>2 DEF IInv, TypeOK, Windowed, WindowType

\* Advance goes on in the chosen chunk, or drops it.
LEMMA AdvanceWindow ==
  ASSUME IInv, window # {}, Advance, UNCHANGED <<recording, at, reverse>>
  PROVE  /\ WindowType' /\ Windowed' /\ position' \in Times
<1> DEFINE w == Chosen
           new == [w EXCEPT !.next = @ + 1]
<1>1. w \in window /\ w \in WindowEntry /\ w.next <= Len(file[w.chunk].rows)
  BY ChosenIs DEF IInv, TypeOK
<1>2. /\ file' = file /\ footer' = footer /\ Unread' = Unread
      /\ WindowEntry' = WindowEntry /\ \A c : HoldsMessages(c)' = HoldsMessages(c)
  BY DEF recording, Unread, WindowEntry, HoldsMessages
<1>3. position' \in Times
  BY <1>1, RowIs DEF Advance
<1>4. new \in WindowEntry /\ new.chunk = w.chunk /\ new.next = w.next + 1
  BY <1>1 DEF WindowEntry
<1>5. IsFiniteSet(window \ {w}) /\ IsFiniteSet((window \ {w}) \union {new})
  BY FS_RemoveElement, FS_AddElement DEF IInv, Windowed
<1>6. \A v \in window \ {w} : v.chunk # w.chunk
  BY <1>1 DEF IInv, Windowed
<1>7. window' = (window \ {w}) \union
                (IF w.next < Len(file[w.chunk].rows) THEN {new} ELSE {})
  BY DEF Advance
<1> HIDE DEF w, new
<1>8. CASE w.next < Len(file[w.chunk].rows)
  <2>1. window' = (window \ {w}) \union {new}
    BY <1>7, <1>8
  <2>2. new.next <= Len(file[new.chunk].rows)
    <3>1. w.next \in Nat /\ Len(file[w.chunk].rows) \in Nat
      BY <1>1, FileType DEF WindowEntry, IInv
    <3> QED
      BY <1>4, <1>8, <3>1
  <2>3. WindowType'
    BY <1>2, <1>4, <2>1, <2>2 DEF WindowType, IInv, TypeOK
  <2>4. Windowed'
    BY <1>1, <1>2, <1>4, <1>5, <1>6, <2>1 DEF Windowed, IInv
  <2> QED
    BY <1>3, <2>3, <2>4
<1>9. CASE ~(w.next < Len(file[w.chunk].rows))
  <2>1. window' = window \ {w}
    BY <1>7, <1>9
  <2>2. WindowType'
    BY <1>2, <2>1 DEF WindowType, IInv, TypeOK
  <2>3. Windowed'
    BY <1>2, <1>5, <2>1 DEF Windowed, IInv
  <2> QED
    BY <1>3, <2>2, <2>3
<1> QED
  BY <1>8, <1>9

\* A seek skips no more than there is.
LEMMA SkippedIs ==
  ASSUME IInv, NEW time, NEW backwards
  PROVE  SkippedTo(time, backwards) \in 0 .. Limit
<1> DEFINE n == Len(index)
           reached == IF backwards
                      THEN {i \in 0 .. n - 1 : StartOf(index[n - i]) <= time}
                      ELSE {i \in 0 .. n - 1 : EndOf(index[i + 1]) >= time}
<1>1. n \in Nat /\ Limit \in Nat /\ (footer => Limit = n)
  BY FileType DEF IInv, TypeOK, Limit
<1>2. \A i \in reached : i \in Nat /\ i <= n
  BY <1>1
<1>3. SkippedTo(time, backwards) = IF ~footer THEN 0 ELSE Least(reached \union {n})
  BY DEF SkippedTo
<1> HIDE DEF reached
<1>4. Least(reached \union {n}) \in reached \union {n}
  <2>1. reached \union {n} \subseteq Nat /\ reached \union {n} # {}
    BY <1>1, <1>2
  <2> QED
    BY <2>1, LeastFrom
<1> QED
  BY <1>1, <1>2, <1>3, <1>4

\* Everything TypeOK says of variables other than the window and what an index
\* or a scan has handed out.
OthersOK ==
    /\ position \in Positions /\ cursor \in Keys
    /\ filter \subseteq Topics /\ reverse \in BOOLEAN
    /\ pc \in {"idle", "read", "seek", "resume"}
    /\ resuming \in [position : Positions, cursor : Keys]
    /\ missed \subseteq Messages

\* With the recording as it was, the parts make the whole.
LEMMA PartsKeep ==
  ASSUME IInv, UNCHANGED recording, at' \in 0 .. Limit, next_chunk' \in 0 .. Len(file),
         Counted', WindowType', Windowed', OthersOK'
  PROVE  IInv'
<1>1. Indexed' /\ file' = file /\ footer' = footer /\ index' = index /\ flaky' = flaky
  BY RecordingKeeps DEF recording
<1>2. /\ [file |-> file', footer |-> footer', flaky |-> flaky'] \in Cases
      /\ index' \in Seq(DOMAIN file')
  BY <1>1 DEF IInv, TypeOK
<1>3. at' \in 0 .. (IF footer' THEN Len(index') ELSE Len(file'))
  BY <1>1 DEF Limit
<1>4. TypeOK'
  BY <1>1, <1>2, <1>3 DEF TypeOK, WindowType, OthersOK, Limit
<1> QED
  BY <1>1, <1>4 DEF IInv

\* Winding forgets where it was going to.
LEMMA NowhereIs == Nowhere \in [position : Positions, cursor : Keys]
BY DEF Nowhere, Positions, Keys

\* The recording opens in order.
LEMMA InitHolds == Init => IInv
<1> SUFFICES ASSUME Init PROVE IInv
  OBVIOUS
<1>1. PICK c \in Cases : file = c.file /\ footer = c.footer /\ flaky = c.flaky
  BY DEF Init
<1>2. [file |-> file, footer |-> footer, flaky |-> flaky] \in Cases
  BY <1>1, CasesAssumption
<1>3. file \in Seq(FileChunk)
  BY <1>1, CasesAssumption
<1>4. index \in Seq(DOMAIN file) /\ (TypeOK => Indexed)
  <2>1. CASE footer
    BY <1>3, <2>1, IndexIs DEF Init
  <2>2. CASE ~footer
    <3>1. index = <<>>
      BY <2>2 DEF Init
    <3> QED
      BY <2>2, <3>1 DEF Indexed
  <2> QED
    BY <2>1, <2>2
<1>5. WindowType /\ Windowed
  BY FS_EmptySet DEF Init, WindowType, Windowed
<1>6. OthersOK
  BY NowhereIs DEF Init, OthersOK, Positions, Keys
<1>7. /\ at = 0 /\ next_chunk = 0 /\ Len(index) \in Nat /\ Len(file) \in Nat
  BY <1>3, <1>4 DEF Init
<1>8. TypeOK
  BY <1>2, <1>4, <1>5, <1>6, <1>7 DEF TypeOK, WindowType, OthersOK, Limit
<1> QED
  BY <1>4, <1>5, <1>7, <1>8 DEF IInv, Counted

\* Every step of the Reader keeps its invariant.
LEMMA StepKeeps == IInv /\ [Next]_vars => IInv'
<1> SUFFICES ASSUME IInv, [Next]_vars PROVE IInv'
  OBVIOUS
<1>1. /\ OthersOK /\ WindowType /\ Windowed /\ Counted
      /\ at \in 0 .. Limit /\ next_chunk \in 0 .. Len(file)
      /\ Len(file) \in Nat /\ Limit \in Nat
  BY FileType DEF IInv, TypeOK, OthersOK, WindowType, Limit
<1>2. ASSUME UNCHANGED <<recording, at, window, next_chunk, reverse>>, OthersOK'
      PROVE  IInv'
  <2>1. /\ file' = file /\ footer' = footer /\ WindowEntry' = WindowEntry /\ Unread' = Unread
        /\ \A c : HoldsMessages(c)' = HoldsMessages(c)
    BY <1>2 DEF recording, WindowEntry, HoldsMessages, Unread
  <2>2. WindowType' /\ Windowed' /\ Counted'
    BY <1>1, <1>2, <2>1 DEF WindowType, Windowed, Counted
  <2> QED
    BY <1>1, <1>2, <2>2, PartsKeep
<1>3. ASSUME UNCHANGED recording, window' = {}, next_chunk' = 0, at' \in 0 .. Limit, OthersOK'
      PROVE  IInv'
  <2>1. Counted'
    BY <1>1, <1>3 DEF Counted
  <2> QED
    BY <1>1, <1>3, <2>1, EmptyKeeps, PartsKeep
<1>4. ASSUME UNCHANGED <<recording, at, next_chunk, reverse>>, window # {}, Advance,
             position' \in Times => OthersOK'
      PROVE  IInv'
  <2>1. /\ WindowType' /\ Windowed' /\ OthersOK'
    BY <1>4, AdvanceWindow
  <2>2. Counted'
    BY <1>1, <1>4 DEF Counted, recording
  <2> QED
    BY <1>1, <1>4, <2>1, <2>2, PartsKeep
<1>5. MinTime \in Positions /\ NoKey \in Keys /\ Times \subseteq Positions /\ {} \subseteq Messages'
  BY DEF Positions, Keys
<1>6. UNCHANGED recording => Messages' = Messages
  BY RecordingKeeps
<1>7. CASE CallRead
  BY <1>1, <1>2, <1>6, <1>7 DEF CallRead, OthersOK
<1>8. ASSUME NEW time \in Times, CallSeek(time) PROVE IInv'
  <2>1. resuming' \in [position : Positions, cursor : Keys]
    BY <1>5, <1>8 DEF CallSeek
  <2>2. OthersOK'
    BY <1>1, <1>5, <1>8, <2>1 DEF CallSeek, OthersOK
  <2> QED
    BY <1>3, <1>8, <2>2, SkippedIs DEF CallSeek
<1>9. ASSUME NEW topics \in Filters, CallSetFilter(topics) PROVE IInv'
  <2>1. filter' \subseteq Topics /\ UNCHANGED <<recording, reverse>>
    BY <1>9, FiltersAssumption DEF CallSetFilter
  <2>2. missed' \subseteq Messages'
    BY <1>1, <1>6, <1>9, <2>1 DEF CallSetFilter, OthersOK
  <2>3. CASE ~footer
    <3>1. UNCHANGED <<at, next_chunk, window, position, cursor, pc, resuming>>
      BY <1>9, <2>3 DEF CallSetFilter
    <3> QED
      BY <1>1, <1>2, <2>1, <2>2, <3>1 DEF OthersOK
  <2>4. CASE footer /\ Fresh
    <3>1. Restart /\ UNCHANGED <<pc, resuming>>
      BY <1>9, <2>4 DEF CallSetFilter
    <3>2. OthersOK'
      BY <1>1, <1>5, <2>1, <2>2, <3>1 DEF OthersOK, Restart
    <3> QED
      BY <1>1, <1>3, <2>1, <3>1, <3>2 DEF Restart
  <2>5. CASE footer /\ ~Fresh
    <3>1. /\ window' = {} /\ next_chunk' = 0 /\ cursor' = NoKey /\ pc' = "resume"
          /\ at' = SkippedTo(position, reverse)
          /\ resuming' = [position |-> position, cursor |-> cursor]
          /\ UNCHANGED position
      BY <1>9, <2>5 DEF CallSetFilter
    <3>2. resuming' \in [position : Positions, cursor : Keys]
      BY <1>1, <3>1 DEF OthersOK
    <3>3. OthersOK'
      BY <1>1, <1>5, <2>1, <2>2, <3>1, <3>2 DEF OthersOK
    <3> QED
      BY <1>3, <2>1, <3>1, <3>3, SkippedIs
  <2> QED
    BY <2>3, <2>4, <2>5
<1>10. CASE CallSetReverse
  <2>1. OthersOK'
    BY <1>1, <1>5, <1>10 DEF CallSetReverse, Restart, OthersOK
  <2> QED
    BY <1>1, <1>3, <1>10, <2>1 DEF CallSetReverse, Restart
<1>11. CASE RestartFails
  <2>1. OthersOK'
    BY <1>1, <1>5, <1>11 DEF RestartFails, OthersOK
  <2> QED
    BY <1>1, <1>3, <1>11, <2>1 DEF RestartFails
<1>12. CASE Pull
  <2>1. OthersOK'
    BY <1>1, <1>6, <1>12 DEF Pull, OthersOK
  <2>2. at' \in 0 .. Limit /\ next_chunk' \in 0 .. Len(file) /\ Counted'
    BY <1>12, PassKeeps DEF Pull
  <2> QED
    BY <1>12, <2>1, <2>2, PullWindow, PartsKeep DEF Pull
<1>13. CASE PullFails
  <2>1. MessagesOf(Pulled.chunk) \subseteq Messages
    <3>1. Pulled.chunk # NoChunk
      BY <1>13 DEF PullFails
    <3> QED
      BY <3>1, PulledIs, ChunkMessages
  <2>2. missed' \subseteq Messages'
    BY <1>1, <1>6, <1>13, <2>1 DEF PullFails, OthersOK
  <2>3. OthersOK'
    BY <1>1, <1>13, <2>2, NowhereIs DEF PullFails, OthersOK
  <2>4. at' \in 0 .. Limit /\ next_chunk' \in 0 .. Len(file) /\ Counted'
    BY <1>13, PassKeeps DEF PullFails
  <2> QED
    BY <1>13, <2>3, <2>4, PullFailsWindow, PartsKeep DEF PullFails
<1>14. CASE ReadSkip
  BY <1>1, <1>4, <1>5, <1>6, <1>14 DEF ReadSkip, OthersOK
<1>15. CASE ReadTake
  <2>1. cursor' \in Keys
    <3>1. Row(Chosen).recv \in Times /\ Row(Chosen).sequence \in Nat
      BY <1>15, ChosenIs, RowIs DEF ReadTake
    <3> QED
      BY <1>15, <3>1 DEF ReadTake, Keys
  <2>2. position' \in Times => OthersOK'
    BY <1>1, <1>5, <1>6, <1>15, <2>1 DEF ReadTake, OthersOK
  <2> QED
    BY <1>4, <1>15, <2>2 DEF ReadTake
<1>16. CASE ReadEnd
  BY <1>1, <1>2, <1>6, <1>16 DEF ReadEnd, OthersOK
<1>17. CASE Wind
  BY <1>1, <1>4, <1>5, <1>6, <1>17 DEF Wind, OthersOK
<1>18. CASE WindDone
  <2>1. OthersOK'
    BY <1>1, <1>6, <1>18, NowhereIs DEF WindDone, OthersOK
  <2> QED
    BY <1>2, <1>18, <2>1 DEF WindDone
<1>19. CASE UNCHANGED vars
  BY <1>1, <1>2, <1>6, <1>19 DEF vars, OthersOK
<1> QED
  BY <1>7, <1>8, <1>9, <1>10, <1>11, <1>12, <1>13, <1>14, <1>15, <1>16, <1>17, <1>18,
     <1>19 DEF Next, Call, Step

\* Whatever is called and whatever fails to load, the invariant holds.
LEMMA IInvAlways == Spec => []IInv
BY InitHolds, StepKeeps, PTL DEF Spec

\* Every reachable state of a Reader is well typed, and no cursor of the window
\* ever passes the end of its chunk.
THEOREM TypeCorrect == Spec => []TypeOK
<1>1. IInv => TypeOK
  BY DEF IInv
<1> QED
  BY <1>1, IInvAlways, PTL

-----------------------------------------------------------------------------
(* No earlier row is unread. *)

\* The prefix maximum of ends bounds every chunk of the prefix.
LEMMA MaxEndIs ==
  ASSUME IInv, NEW n \in DOMAIN index
  PROVE  /\ MaxEndThrough(n) \in Times
         /\ \A i \in 1 .. n : EndOf(index[i]) <= MaxEndThrough(n)
<1> DEFINE ends == {EndOf(index[i]) : i \in 1 .. n}
<1>1. index \in Seq(DOMAIN file) /\ TypeOK
  BY DEF IInv, TypeOK
<1>2. \A i \in 1 .. n : index[i] \in DOMAIN file
  BY <1>1
<1>3. ends \subseteq Times /\ ends # {}
  BY <1>1, <1>2, ChunkTimes
<1>4. /\ ends \subseteq Int /\ MaxTime \in Int /\ \A x \in ends : x <= MaxTime
  <2>1. \A x \in ends : x \in Int /\ x < MaxTime
    BY <1>3, TimesAssumption
  <2> QED
    BY <2>1, TimesAssumption
<1>5. Greatest(ends) \in ends /\ \A x \in ends : x <= Greatest(ends)
  <2> HIDE DEF ends
  <2> QED
    BY <1>3, <1>4, GreatestIs
<1> QED
  BY <1>3, <1>5 DEF MaxEndThrough

\* earliest_remaining bounds every chunk after the n-th, and is MaxTime only
\* when there is none.
LEMMA EarliestRemainingIs ==
  ASSUME IInv, NEW n \in Nat
  PROVE  /\ \A c \in DOMAIN file : c > n => EarliestRemaining(n) <= StartOf(c)
         /\ EarliestRemaining(n) = MaxTime => \A c \in DOMAIN file : ~(c > n)
         /\ EarliestRemaining(n) \in Int
<1> DEFINE starts == {StartOf(c) : c \in {d \in DOMAIN file : d > n}} \union {MaxTime}
<1>1. \A c \in DOMAIN file :
         StartOf(c) \in Int /\ MinTime <= StartOf(c) /\ StartOf(c) < MaxTime
  <2> TAKE c \in DOMAIN file
  <2>1. StartOf(c) \in Times
    BY ChunkTimes DEF IInv
  <2>2. StartOf(c) \in Int /\ MinTime \in Int /\ MinTime < StartOf(c) /\ StartOf(c) < MaxTime
    BY <2>1, TimeIs
  <2> QED
    BY <2>2
<1>2. MinTime \in Int /\ MaxTime \in Int /\ MinTime <= MaxTime
  BY TimesAssumption
<1>3. starts \subseteq Int /\ starts # {} /\ \A x \in starts : MinTime <= x
  BY <1>1, <1>2
<1>4. Least(starts) \in starts /\ \A x \in starts : Least(starts) <= x
  <2> HIDE DEF starts
  <2> QED
    BY <1>2, <1>3, LeastIs
<1>5. EarliestRemaining(n) = Least(starts)
  BY DEF EarliestRemaining
<1>6. \A c \in DOMAIN file : c > n => StartOf(c) \in starts
  OBVIOUS
<1>7. EarliestRemaining(n) \in Int
  BY <1>3, <1>4, <1>5
<1>8. \A c \in DOMAIN file : c > n => EarliestRemaining(n) <= StartOf(c)
  <2> HIDE DEF starts
  <2> QED
    BY <1>4, <1>5, <1>6
<1> QED
  BY <1>1, <1>2, <1>7, <1>8

\* Once fill returns, all rows of unread chunks come strictly later than the
\* first row of the window, in playback order.
LEMMA UnreadIsLater ==
  ASSUME IInv, Filled, window # {}, NEW c \in Unread, HoldsMessages(c),
         NEW i \in DOMAIN file[c].rows
  PROVE  IF reverse THEN file[c].rows[i].recv < Candidate
                    ELSE Candidate < file[c].rows[i].recv
<1>1. /\ at \in Nat /\ next_chunk \in Nat /\ next_chunk <= at
      /\ index \in Seq(DOMAIN file) /\ file \in Seq(FileChunk) /\ TypeOK
      /\ footer \in BOOLEAN /\ Candidate \in Int
  BY FileType, ChosenIs, RowIs DEF IInv, TypeOK, Counted
<1>2. c \in DOMAIN file
  <2>1. CASE footer
    BY <1>1, <2>1 DEF Unread
  <2>2. CASE ~footer
    BY <1>1, <2>2 DEF Unread
  <2> QED
    BY <2>1, <2>2
<1>3. /\ StartOf(c) <= file[c].rows[i].recv /\ file[c].rows[i].recv <= EndOf(c)
      /\ StartOf(c) \in Int /\ EndOf(c) \in Int /\ file[c].rows[i].recv \in Int
      /\ MinTime \in Int /\ MaxTime \in Int
  BY <1>1, <1>2, ChunkTimes, TimesAssumption
<1>4. ~Drained
  BY <1>1 DEF Drained, Unread, Limit
<1>5. Settled /\ ~(reverse /\ ~footer)
  BY <1>4 DEF Filled
<1>6. CASE footer /\ reverse
  <2> DEFINE n == Len(index) - at
  <2>1. n \in DOMAIN index
    BY <1>1, <1>4, <1>6 DEF Drained, Limit
  <2>2. EarliestUnread = MaxEndThrough(n)
    BY <1>4, <1>6 DEF EarliestUnread
  <2>3. MaxEndThrough(n) \in Times /\ EndOf(c) <= MaxEndThrough(n)
    <3>1. PICK j \in 1 .. n : c = index[j]
      BY <1>6 DEF Unread
    <3> HIDE DEF n
    <3> QED
      BY <2>1, <3>1, MaxEndIs
  <2>4. MaxEndThrough(n) \in Int /\ MinTime # MaxEndThrough(n)
    BY <2>3, TimeIs
  <2>5. MaxEndThrough(n) < Candidate
    BY <1>5, <1>6, <2>2, <2>4 DEF Settled
  <2> HIDE DEF n
  <2> QED
    BY <1>1, <1>3, <1>6, <2>3, <2>4, <2>5
<1>7. CASE footer /\ ~reverse
  <2>1. at + 1 \in DOMAIN index
    BY <1>1, <1>4, <1>7 DEF Drained, Limit
  <2>2. EarliestUnread = StartOf(index[at + 1])
    BY <1>4, <1>7 DEF EarliestUnread
  <2>3. index[at + 1] \in DOMAIN file
    BY <1>1, <2>1
  <2>4. StartOf(index[at + 1]) \in Int /\ StartOf(index[at + 1]) # MaxTime
    BY <1>1, <2>3, ChunkTimes, TimeIs
  <2>5. StartOf(index[at + 1]) <= StartOf(c)
    <3>1. PICK j \in at + 1 .. Len(index) : c = index[j]
      BY <1>7 DEF Unread
    <3>2. CASE j = at + 1
      BY <2>4, <3>1, <3>2
    <3>3. CASE at + 1 < j
      <4>1. j \in DOMAIN index
        BY <1>1, <3>1
      <4> QED
        BY <2>1, <3>1, <3>3, <4>1 DEF IInv, Indexed
    <3> QED
      BY <1>1, <3>2, <3>3
  <2>6. Candidate < StartOf(index[at + 1])
    BY <1>1, <1>5, <1>7, <2>2, <2>4 DEF Settled
  <2>7. PICK start \in Int : start = StartOf(index[at + 1])
    BY <2>4
  <2>8. Candidate < file[c].rows[i].recv
    BY <1>1, <1>3, <2>5, <2>6, <2>7
  <2> QED
    BY <1>7, <2>8
<1>8. CASE ~footer /\ ~reverse
  <2>1. c > next_chunk
    BY <1>1, <1>8 DEF Unread
  <2>2. /\ EarliestRemaining(next_chunk) <= StartOf(c)
        /\ EarliestRemaining(next_chunk) # MaxTime
        /\ EarliestRemaining(next_chunk) \in Int
    BY <1>1, <1>2, <2>1, EarliestRemainingIs
  <2>3. Candidate < EarliestRemaining(next_chunk)
    BY <1>1, <1>5, <1>8, <2>2 DEF Settled, EarliestUnread
  <2> QED
    BY <1>1, <1>3, <1>8, <2>2, <2>3
<1> QED
  BY <1>1, <1>5, <1>6, <1>7, <1>8

\* A row is handed out only when no chunk still unread holds one that comes
\* before it: in either direction, with or without an index, whatever the order
\* of the chunks and of the rows in them, and after any calls.
THEOREM NoEarlierUnreadAlways == Spec => []NoEarlierUnread
<1>1. IInv => NoEarlierUnread
  <2> SUFFICES ASSUME IInv, Filled, window # {},
                      NEW c \in Unread, HoldsMessages(c),
                      NEW i \in DOMAIN file[c].rows
               PROVE  Precedes(Row(Chosen), file[c].rows[i])
    BY DEF NoEarlierUnread
  <2> QED
    BY ChosenIs, UnreadIsLater DEF Precedes, Before
<1> QED
  BY <1>1, IInvAlways, PTL

-----------------------------------------------------------------------------
(* Read-ahead over an index, forwards. *)

\* A topic's messages are received in the order they are written.
Steady ==
    \A c \in Cases : \A i \in DOMAIN c.file :
        \A j, k \in DOMAIN c.file[i].rows :
            j <= k => c.file[i].rows[j].recv <= c.file[i].rows[k].recv

\* A chunk loaded although it starts after a row that is still to come.
Early(w) == \E v \in window : Row(v).recv < StartOf(w.chunk)

\* The chunks in the window start no later than those still unread, and at most
\* one was loaded early, by a filter.
AheadInv ==
    footer /\ ~reverse =>
        /\ \A w \in window, c \in Unread : StartOf(w.chunk) <= StartOf(c)
        /\ filter = {} => \A w \in window : ~Early(w)
        /\ \A v, w \in window : Early(v) /\ Early(w) => v = w

\* Over an index the chunk pulled starts no earlier than the first unread, and
\* without a filter is that one; what is unread after it starts no earlier.
LEMMA PulledStarts ==
  ASSUME IInv, footer, ~reverse, Pulled.chunk # NoChunk
  PROVE  /\ at + 1 \in DOMAIN index
         /\ StartOf(index[at + 1]) \in Int /\ StartOf(Pulled.chunk) \in Int
         /\ StartOf(index[at + 1]) <= StartOf(Pulled.chunk)
         /\ filter = {} => Pulled.chunk = index[at + 1]
         /\ \A c \in UnreadAfter(Pulled.at) : StartOf(Pulled.chunk) <= StartOf(c)
<1> DEFINE n == Len(index)
           unread == {i \in at .. n - 1 : Wanted(file[Ordered[i]].topic)}
           next == Least(unread)
<1>1. /\ at \in Nat /\ index \in Seq(DOMAIN file) /\ n \in Nat /\ DOMAIN index = 1 .. n
      /\ TypeOK /\ Indexed
  <2>1. TypeOK /\ Indexed
    BY DEF IInv
  <2>2. index \in Seq(DOMAIN file) /\ at \in Nat
    BY <2>1 DEF TypeOK
  <2> QED
    BY <2>1, <2>2
<1>2. /\ unread # {} /\ Pulled.at = next + 1 /\ Pulled.chunk = Ordered[next]
  BY DEF Pulled, NextIndexed
<1>3. next \in unread /\ \A i \in unread : next <= i
  <2>1. unread \subseteq Nat
    BY <1>1
  <2> HIDE DEF unread
  <2> QED
    BY <1>2, <2>1, LeastFrom
<1>4. next \in Nat /\ at <= next /\ next < n
  BY <1>1, <1>3
<1>5. filter = {} => next = at
  <2>1. filter = {} => at \in unread
    BY <1>1, <1>4 DEF Wanted
  <2> HIDE DEF unread
  <2> QED
    BY <1>1, <1>3, <1>4, <2>1
<1> HIDE DEF next
<1>6. Pulled.chunk = index[next + 1]
  BY <1>1, <1>2, <1>4 DEF Ordered
<1>7. \A i \in 1 .. n : StartOf(index[i]) \in Int
  <2> TAKE i \in 1 .. n
  <2>1. StartOf(index[i]) \in Times
    BY <1>1, ChunkTimes
  <2> QED
    BY <2>1, TimeIs
<1>8. \A i, j \in 1 .. n : i <= j => StartOf(index[i]) <= StartOf(index[j])
  <2> TAKE i, j \in 1 .. n
  <2>1. CASE i = j
    BY <1>7, <2>1
  <2>2. CASE i < j
    BY <1>1, <2>2 DEF Indexed
  <2> QED
    BY <1>1, <2>1, <2>2
<1>9. at + 1 \in 1 .. n /\ next + 1 \in 1 .. n /\ at + 1 <= next + 1
  BY <1>1, <1>4
<1>10. ASSUME NEW c \in UnreadAfter(Pulled.at)
       PROVE  StartOf(Pulled.chunk) <= StartOf(c)
  <2>1. PICK i \in next + 2 .. n : c = index[i]
    BY <1>2, <1>4 DEF UnreadAfter
  <2>2. i \in 1 .. n /\ next + 1 <= i
    BY <1>1, <1>4
  <2> QED
    BY <1>6, <1>8, <1>9, <2>1, <2>2
<1> QED
  BY <1>1, <1>5, <1>6, <1>7, <1>8, <1>9, <1>10

\* A row is no earlier than its chunk's start.
LEMMA RowAfterStart ==
  ASSUME IInv, NEW w \in window
  PROVE  StartOf(w.chunk) \in Int /\ StartOf(w.chunk) <= Row(w).recv
<1>1. /\ w.chunk \in DOMAIN file /\ TypeOK
      /\ \E i \in DOMAIN file[w.chunk].rows : Row(w) = file[w.chunk].rows[i]
  BY RowIs DEF IInv
<1>2. StartOf(w.chunk) \in Times
  BY <1>1, ChunkTimes
<1> QED
  BY <1>1, <1>2, ChunkTimes, TimeIs

\* Pull loads early only what a filter made it load, and only once.
LEMMA PullAhead ==
  ASSUME IInv, AheadInv, Pull
  PROVE  AheadInv'
<1> SUFFICES ASSUME footer, ~reverse PROVE AheadInv'
  BY DEF Pull, recording, AheadInv
<1>0. PICK new : new = [chunk |-> Pulled.chunk, next |-> 1]
  OBVIOUS
<1>1. /\ file' = file /\ footer' = footer /\ index' = index /\ reverse' = reverse
      /\ filter' = filter
  BY DEF Pull, recording
<1>2. /\ Unread' = UnreadAfter(Pulled.at) /\ Unread' \subseteq Unread
      /\ \A c : StartOf(c)' = StartOf(c) /\ \A w : Row(w)' = Row(w)
  <2>1. \A c : Recvs(c)' = Recvs(c)
    BY <1>1 DEF Recvs
  <2>2. \A c : StartOf(c)' = StartOf(c)
    BY <2>1 DEF StartOf
  <2>3. \A w : Row(w)' = Row(w)
    BY <1>1 DEF Row
  <2> QED
    BY <2>2, <2>3, PassKeeps, PulledIs DEF Pull
<1>3. CASE Pulled.chunk = NoChunk
  <2>1. window' = window
    BY <1>3 DEF Pull
  <2> QED
    BY <1>1, <1>2, <2>1 DEF AheadInv, Early
<1>4. CASE Pulled.chunk # NoChunk
  <2>1. window' = window \union {new}
    BY <1>0, <1>4 DEF Pull
  <2>9. new.chunk = Pulled.chunk
    BY <1>0
  <2>2. Pulled.chunk \in Unread /\ new \in window'
    BY <1>4, <2>1, PulledIs
  <2>3. StartOf(new.chunk) \in Int /\ StartOf(new.chunk) <= Row(new).recv /\ Row(new).recv \in Int
    <3>1. Row(new) = file[Pulled.chunk].rows[1]
      BY <1>0 DEF Row
    <3>2. Pulled.chunk \in DOMAIN file /\ TypeOK
      BY <1>4, PulledIs DEF IInv
    <3>3. 1 \in DOMAIN file[Pulled.chunk].rows
      <4>1. file[Pulled.chunk].rows \in Seq(MessageRow) /\ file[Pulled.chunk].rows # <<>>
        BY <3>2, FileType
      <4> QED
        BY <4>1
    <3>4. StartOf(Pulled.chunk) \in Times /\ Row(new).recv \in Times
      BY <3>1, <3>2, <3>3, ChunkTimes
    <3> QED
      BY <2>9, <3>1, <3>2, <3>3, <3>4, ChunkTimes, TimeIs
  <2>4. \A w \in window : /\ StartOf(w.chunk) \in Int /\ StartOf(w.chunk) <= Row(new).recv
                          /\ Row(w).recv \in Int
    <3> TAKE w \in window
    <3>1. StartOf(w.chunk) <= StartOf(Pulled.chunk)
      BY <2>2 DEF AheadInv
    <3> QED
      BY <2>3, <2>9, <3>1, RowAfterStart, RowIs
  <2>5. \A w \in window : StartOf(index[at + 1]) <= Row(w).recv
    <3> TAKE w \in window
    <3>1. Candidate <= Row(w).recv /\ Candidate \in Int /\ Row(w).recv \in Int
      BY ChosenIs, RowIs
    <3>2. ~Drained /\ ~Settled
      BY DEF Pull, Filled
    <3>3. EarliestUnread = StartOf(index[at + 1])
      BY <3>2 DEF EarliestUnread
    <3>4. ~(StartOf(index[at + 1]) > Candidate)
      BY <3>2, <3>3 DEF Settled
    <3>5. StartOf(index[at + 1]) \in Int
      BY <1>4, PulledStarts
    <3> QED
      BY <3>1, <3>4, <3>5
  <2>6. \A w \in window : ~Early(w)'
    <3> TAKE w \in window
    <3>1. StartOf(w.chunk) <= StartOf(index[at + 1]) /\ StartOf(index[at + 1]) \in Int
      <4>1. index[at + 1] \in Unread
        <5>1. at + 1 \in DOMAIN index
          BY <1>4, PulledStarts
        <5>2. index \in Seq(DOMAIN file) /\ at \in Nat
          BY DEF IInv, TypeOK
        <5> QED
          BY <5>1, <5>2 DEF Unread
      <4> QED
        BY <1>4, <4>1, PulledStarts DEF AheadInv
    <3>2. \A v \in window : ~(Row(v).recv < StartOf(w.chunk))
      BY <2>4, <2>5, <3>1
    <3>3. ~(Row(new).recv < StartOf(w.chunk))
      BY <2>3, <2>4
    <3>4. \A v \in window' : ~(Row(v).recv < StartOf(w.chunk))
      BY <2>1, <3>2, <3>3
    <3> QED
      BY <1>2, <3>4 DEF Early
  <2>7. filter = {} => ~Early(new)'
    <3> HAVE filter = {}
    <3>1. StartOf(new.chunk) = StartOf(index[at + 1])
      BY <1>4, <2>9, PulledStarts
    <3>2. \A v \in window : ~(Row(v).recv < StartOf(new.chunk))
      BY <2>3, <2>4, <2>5, <3>1
    <3>3. ~(Row(new).recv < StartOf(new.chunk))
      BY <2>3
    <3>4. \A v \in window' : ~(Row(v).recv < StartOf(new.chunk))
      BY <2>1, <3>2, <3>3
    <3> QED
      BY <1>2, <3>4 DEF Early
  <2>8. \A w \in window', c \in Unread' : StartOf(w.chunk) <= StartOf(c)
    BY <1>2, <1>4, <2>1, <2>9, PulledStarts DEF AheadInv
  <2> QED
    BY <1>1, <1>2, <2>1, <2>6, <2>7, <2>8 DEF AheadInv
<1> QED
  BY <1>3, <1>4

\* Advance only leaves rows that are to come.
LEMMA AdvanceAhead ==
  ASSUME Steady, IInv, AheadInv, window # {}, Advance,
         UNCHANGED <<recording, at, reverse, filter>>
  PROVE  AheadInv'
<1> SUFFICES ASSUME footer, ~reverse PROVE AheadInv'
  BY DEF recording, AheadInv
<1>1. PICK w : w = Chosen
  OBVIOUS
<1>2. PICK new : new = [w EXCEPT !.next = @ + 1]
  OBVIOUS
<1>3. /\ file' = file /\ footer' = footer /\ reverse' = reverse /\ filter' = filter
      /\ Unread' = Unread
  BY DEF recording, Unread
<1>4. \A c : StartOf(c)' = StartOf(c) /\ \A v : Row(v)' = Row(v)
  <2>1. \A c : Recvs(c)' = Recvs(c)
    BY <1>3 DEF Recvs
  <2>2. \A c : StartOf(c)' = StartOf(c)
    BY <2>1 DEF StartOf
  <2>3. \A v : Row(v)' = Row(v)
    BY <1>3 DEF Row
  <2> QED
    BY <2>2, <2>3
<1>5. w \in window /\ w \in WindowEntry /\ w.next <= Len(file[w.chunk].rows)
  BY <1>1, ChosenIs DEF IInv, TypeOK
<1>6. new.chunk = w.chunk /\ new.next = w.next + 1
  BY <1>2, <1>5 DEF WindowEntry
<1>7. window' = (window \ {w}) \union
                (IF w.next < Len(file[w.chunk].rows) THEN {new} ELSE {})
  BY <1>1, <1>2 DEF Advance
<1>8. w.next < Len(file[w.chunk].rows) => Row(w).recv <= Row(new).recv
  <2> HAVE w.next < Len(file[w.chunk].rows)
  <2>1. file[w.chunk].rows \in Seq(MessageRow) /\ w.next \in Nat /\ w.chunk \in DOMAIN file
    BY <1>5, FileType DEF WindowEntry, IInv
  <2>2. /\ w.next \in DOMAIN file[w.chunk].rows /\ w.next + 1 \in DOMAIN file[w.chunk].rows
        /\ w.next <= w.next + 1
    BY <1>5, <2>1 DEF WindowEntry
  <2>3. PICK c \in Cases : file = c.file
    <3>1. [file |-> file, footer |-> footer, flaky |-> flaky] \in Cases
      BY DEF IInv, TypeOK
    <3> QED
      BY <3>1
  <2>4. Row(w) = file[w.chunk].rows[w.next] /\ Row(new) = file[w.chunk].rows[w.next + 1]
    BY <1>6 DEF Row
  <2> QED
    BY <2>1, <2>2, <2>3, <2>4 DEF Steady
<1>9. \A v \in window' : \E u \in window : u.chunk = v.chunk /\ Row(u).recv <= Row(v).recv
  <2>1. \A v \in window : Row(v).recv <= Row(v).recv
    BY RowIs
  <2> QED
    BY <1>5, <1>6, <1>7, <1>8, <2>1
<1>10. \A v \in window' : Row(v).recv \in Int
  <2> TAKE v \in window'
  <2>1. CASE v \in window
    BY <2>1, RowIs
  <2>2. CASE v = new /\ w.next < Len(file[w.chunk].rows)
    <3>1. w.next + 1 \in DOMAIN file[w.chunk].rows /\ w.chunk \in DOMAIN file
      BY <1>5, <2>2, FileType DEF WindowEntry, IInv
    <3>2. Row(new) = file[w.chunk].rows[w.next + 1]
      BY <1>6 DEF Row
    <3> QED
      BY <2>2, <3>1, <3>2, ChunkTimes, TimeIs DEF IInv
  <2> QED
    BY <1>7, <2>1, <2>2
<1>11. \A v \in window' : Early(v)' => \A u \in window : u.chunk = v.chunk => Early(u)
  <2> TAKE v \in window'
  <2> HAVE Early(v)'
  <2> TAKE u \in window
  <2> HAVE u.chunk = v.chunk
  <2>1. PICK x \in window' : Row(x).recv < StartOf(v.chunk)
    BY <1>4 DEF Early
  <2>2. PICK y \in window : Row(y).recv <= Row(x).recv
    BY <1>9
  <2>3. Row(y).recv \in Int /\ Row(x).recv \in Int /\ StartOf(u.chunk) \in Int
    BY <1>10, RowIs, RowAfterStart
  <2>4. Row(y).recv < StartOf(u.chunk)
    BY <2>1, <2>2, <2>3
  <2> QED
    BY <2>4 DEF Early
<1>12. \A v, x \in window' : v.chunk = x.chunk => v = x
  <2>1. \A v \in window \ {w} : v.chunk # w.chunk
    BY <1>5 DEF IInv, Windowed
  <2>2. \A v, x \in window : v.chunk = x.chunk => v = x
    BY DEF IInv, Windowed
  <2> QED
    BY <1>6, <1>7, <2>1, <2>2
<1>13. \A v \in window', c \in Unread' : StartOf(v.chunk) <= StartOf(c)
  BY <1>3, <1>9 DEF AheadInv
<1>14. filter = {} => \A v \in window' : ~Early(v)'
  BY <1>9, <1>11 DEF AheadInv
<1>15. \A v, x \in window' : Early(v)' /\ Early(x)' => v = x
  <2> TAKE v, x \in window'
  <2>1. PICK u \in window : u.chunk = v.chunk
    BY <1>9
  <2>2. PICK y \in window : y.chunk = x.chunk
    BY <1>9
  <2> HAVE Early(v)' /\ Early(x)'
  <2>3. Early(u) /\ Early(y)
    BY <1>11, <2>1, <2>2
  <2>4. u = y
    BY <2>3 DEF AheadInv
  <2> QED
    BY <1>12, <2>1, <2>2, <2>4
<1> QED
  BY <1>3, <1>4, <1>13, <1>14, <1>15 DEF AheadInv

\* Every step keeps what is read ahead to that.
LEMMA AheadStep ==
  ASSUME Steady
  PROVE  IInv /\ AheadInv /\ [Next]_vars => AheadInv'
<1> SUFFICES ASSUME IInv, AheadInv, [Next]_vars PROVE AheadInv'
  OBVIOUS
<1>1. ASSUME window' = {} PROVE AheadInv'
  BY <1>1 DEF AheadInv
<1>2. ASSUME UNCHANGED <<recording, at, window, reverse, filter>> PROVE AheadInv'
  <2>1. /\ file' = file /\ footer' = footer /\ reverse' = reverse /\ filter' = filter
        /\ window' = window /\ Unread' = Unread
    BY <1>2 DEF recording, Unread
  <2>2. \A c : Recvs(c)' = Recvs(c)
    BY <2>1 DEF Recvs
  <2>3. (\A c : StartOf(c)' = StartOf(c)) /\ (\A v : Row(v)' = Row(v))
    BY <2>1, <2>2 DEF StartOf, Row
  <2> QED
    BY <2>1, <2>3 DEF AheadInv, Early
<1>3. ASSUME UNCHANGED footer, ~footer PROVE AheadInv'
  BY <1>3 DEF AheadInv
<1>4. CASE CallRead
  BY <1>2, <1>4 DEF CallRead
<1>5. ASSUME NEW time \in Times, CallSeek(time) PROVE AheadInv'
  BY <1>1, <1>5 DEF CallSeek
<1>6. ASSUME NEW topics \in Filters, CallSetFilter(topics) PROVE AheadInv'
  BY <1>1, <1>3, <1>6 DEF CallSetFilter, Restart, recording
<1>7. CASE CallSetReverse \/ RestartFails
  BY <1>1, <1>7 DEF CallSetReverse, Restart, RestartFails
<1>8. CASE Pull
  BY <1>8, PullAhead
<1>9. CASE PullFails
  <2>1. /\ Unread' \subseteq Unread /\ window' = window /\ file' = file /\ footer' = footer
        /\ reverse' = reverse /\ filter' = filter
    BY <1>9, PassKeeps, PulledIs DEF PullFails, recording
  <2>2. \A c : Recvs(c)' = Recvs(c)
    BY <2>1 DEF Recvs
  <2>3. (\A c : StartOf(c)' = StartOf(c)) /\ (\A v : Row(v)' = Row(v))
    BY <2>1, <2>2 DEF StartOf, Row
  <2> QED
    BY <2>1, <2>3 DEF AheadInv, Early
<1>10. CASE ReadSkip \/ ReadTake \/ Wind
  BY <1>10, AdvanceAhead DEF ReadSkip, ReadTake, Wind
<1>11. CASE ReadEnd \/ WindDone \/ UNCHANGED vars
  BY <1>2, <1>11 DEF ReadEnd, WindDone, vars
<1> QED
  BY <1>4, <1>5, <1>6, <1>7, <1>8, <1>9, <1>10, <1>11 DEF Next, Call, Step

\* Forwards over an index, no more is read than needed: when a row is due, every
\* chunk in the window starts no later than it, but for at most one, and none
\* without a filter.  It takes topics whose receive times do not go back.
THEOREM ReadAheadBoundAlways ==
  ASSUME Steady
  PROVE  Spec => []ReadAheadBound
<1>1. Init => AheadInv
  BY DEF Init, AheadInv
<1>2. IInv /\ AheadInv => ReadAheadBound
  <2> DEFINE early == {w \in window : StartOf(w.chunk) > Candidate}
  <2> SUFFICES ASSUME IInv, AheadInv, footer, ~reverse, window # {}
               PROVE  Cardinality(early) <= (IF filter = {} THEN 0 ELSE 1)
    BY DEF ReadAheadBound
  <2>1. \A w \in early : Early(w)
    <3> TAKE w \in early
    <3>1. StartOf(w.chunk) \in Int /\ Candidate \in Int
      BY ChosenIs, RowIs, RowAfterStart
    <3> QED
      BY <3>1, ChosenIs DEF Early
  <2>2. filter = {} => early = {}
    BY <2>1 DEF AheadInv
  <2>3. \A v, w \in early : v = w
    BY <2>1 DEF AheadInv
  <2> HIDE DEF early
  <2>4. CASE early = {}
    <3>1. Cardinality(early) = 0
      BY <2>4, FS_EmptySet
    <3> QED
      BY <3>1
  <2>5. CASE early # {}
    <3>1. PICK w : early = {w}
      BY <2>3, <2>5
    <3>2. Cardinality(early) = 1
      BY <3>1, FS_Singleton
    <3> QED
      BY <2>2, <2>5, <3>2
  <2> QED
    BY <2>4, <2>5
<1> QED
  BY <1>1, <1>2, AheadStep, IInvAlways, PTL DEF Spec

-----------------------------------------------------------------------------
(* Reading implements Playback. *)

\* A chunk's rows are in the order they are to be played in.
InOrder ==
    \A c \in Cases : \A i \in DOMAIN c.file :
        \A j, k \in DOMAIN c.file[i].rows :
            j < k => Before(c.file[i].rows[j], c.file[i].rows[k])

\* The message in row i of chunk c.
MessageAt(c, i) ==
    [topic |-> file[c].topic, recv |-> file[c].rows[i].recv,
     sequence |-> file[c].rows[i].sequence]

IsAhead(c, i) == Promise!Ahead(MessageAt(c, i))

\* mark is a place in the order of messages.
MarkType ==
    \/ mark = Promise!AtStart \/ mark = Promise!Lost
    \/ \E t \in Times : mark = Promise!From(t)
    \/ mark \in [kind : {"after"}, recv : Times, sequence : Nat]

\* place, with what was last handed out, is where mark stands.
StandsAt(place, key) ==
    \/ key = NoKey /\ place \in Times /\ mark = Promise!From(place)
    \/ /\ key # NoKey /\ place = key.recv
       /\ mark = [kind |-> "after", recv |-> key.recv, sequence |-> key.sequence]

\* No message still to come has been given up.
NoneMissed == \A c \in Held : \A i \in RowsOf(c) : ToCome(c, i) => MessageAt(c, i) \notin missed

\* Every message ahead is to come, if it is wanted or may yet be.
AllToCome ==
    \A c \in Held : \A i \in RowsOf(c) :
        /\ IsAhead(c, i) /\ MessageAt(c, i) \notin missed
        /\ Wanted(file[c].topic) \/ (~footer /\ Fresh)
        => ToCome(c, i)

\* What is to come is ahead.
OnlyAhead == \A c \in Held : \A i \in RowsOf(c) : ToCome(c, i) => IsAhead(c, i)

\* Between calls mark is what position and cursor say; a seek or a resume knows
\* where it is going.
Standing ==
    /\ pc \in {"idle", "read"} =>
          /\ OnlyAhead
          /\ footer => (Fresh /\ mark = Promise!AtStart) \/ StandsAt(position, cursor)
    /\ pc \in {"seek", "resume"} => StandsAt(resuming.position, resuming.cursor)

PlaybackInv ==
    /\ MarkType
    /\ footer => \A w \in window : Wanted(file[w.chunk].topic)
    /\ NoneMissed
    /\ mark # Promise!Lost => AllToCome /\ Standing

-----------------------------------------------------------------------------
(* Messages and their places. *)

\* A place holds a message of the recording.
LEMMA PlaceIs ==
  ASSUME TypeOK, NEW c \in Held, NEW i \in RowsOf(c)
  PROVE  /\ c \in DOMAIN file /\ HoldsMessages(c)
         /\ file[c].rows[i].recv \in Times /\ file[c].rows[i].recv \in Int
         /\ file[c].rows[i].sequence \in Nat
         /\ MessageAt(c, i).recv = file[c].rows[i].recv
         /\ MessageAt(c, i).sequence = file[c].rows[i].sequence
         /\ MessageAt(c, i).topic = file[c].topic
         /\ MessageAt(c, i) \in Messages
<1>1. c \in DOMAIN file /\ HoldsMessages(c) /\ i \in DOMAIN file[c].rows
  BY DEF Held, RowsOf
<1>2. file[c].rows[i] \in MessageRow
  BY <1>1, FileType
<1>3. MessageAt(c, i) \in MessagesOf(c)
  BY <1>1 DEF MessageAt, MessagesOf
<1> QED
  BY <1>1, <1>2, <1>3, ChunkMessages, TimeIs DEF MessageRow, MessageAt

\* Every message is at a place.
LEMMA PlaceOf ==
  ASSUME NEW m \in Messages
  PROVE  \E c \in Held : \E i \in RowsOf(c) : m = MessageAt(c, i)
<1>1. PICK c \in Held : m \in MessagesOf(c)
  BY DEF Messages, Held, HoldsMessages
<1> QED
  BY <1>1 DEF MessagesOf, MessageAt, RowsOf

\* No two places hold the same message.
LEMMA PlacesDiffer ==
  ASSUME TypeOK, NEW c \in Held, NEW i \in RowsOf(c), NEW d \in Held, NEW j \in RowsOf(d),
         MessageAt(c, i) = MessageAt(d, j)
  PROVE  c = d /\ i = j
<1>1. file[c].rows[i].sequence = file[d].rows[j].sequence
  BY PlaceIs
<1> QED
  BY <1>1, PlaceIs, RowNumbers DEF RowsOf

\* The order of playback is transitive.
LEMMA PrecedesOn ==
  ASSUME NEW a, NEW b, NEW c,
         a.recv \in Int, b.recv \in Int, c.recv \in Int,
         a.sequence \in Int, b.sequence \in Int, c.sequence \in Int,
         Precedes(a, b), Precedes(b, c)
  PROVE  Precedes(a, c) /\ ~Precedes(b, b)
<1> USE DEF Precedes, Before
<1>1. CASE reverse
  BY <1>1
<1>2. CASE ~reverse
  BY <1>2
<1> QED
  BY <1>1, <1>2

\* What comes after a message ahead is ahead.
LEMMA AheadGoesOn ==
  ASSUME TypeOK, MarkType, NEW c \in Held, NEW i \in RowsOf(c),
         NEW d \in Held, NEW j \in RowsOf(d),
         IsAhead(c, i), Precedes(file[c].rows[i], file[d].rows[j])
  PROVE  IsAhead(d, j)
<1> DEFINE m == MessageAt(c, i)
           n == MessageAt(d, j)
<1>1. /\ m.recv \in Int /\ m.sequence \in Int /\ n.recv \in Int /\ n.sequence \in Int
      /\ m.recv = file[c].rows[i].recv /\ m.sequence = file[c].rows[i].sequence
      /\ n.recv = file[d].rows[j].recv /\ n.sequence = file[d].rows[j].sequence
  BY PlaceIs
<1>2. Precedes(m, n)
  BY <1>1 DEF Precedes, Before
<1>3. Promise!Ahead(m)
  BY DEF IsAhead
<1> HIDE DEF m, n
<1>4. Promise!Ahead(n)
  <2>1. CASE mark = Promise!AtStart \/ mark = Promise!Lost
    <3>1. mark.kind = "start" \/ mark.kind = "lost"
      BY <2>1 DEF Promise!AtStart, Promise!Lost
    <3> QED
      BY <3>1 DEF Promise!Ahead
  <2>2. ASSUME NEW t \in Times, mark = Promise!From(t) PROVE Promise!Ahead(n)
    <3>1. t \in Int /\ mark.kind = "from" /\ mark.recv = t
      BY <2>2, TimeIs DEF Promise!From
    <3> QED
      BY <1>1, <1>2, <1>3, <3>1 DEF Promise!Ahead, Precedes, Before
  <2>3. CASE mark \in [kind : {"after"}, recv : Times, sequence : Nat]
    <3>1. mark.kind = "after" /\ mark.recv \in Int /\ mark.sequence \in Int
      BY <2>3, TimeIs
    <3>2. Precedes(mark, m)
      BY <1>3, <3>1 DEF Promise!Ahead, Promise!Precedes, Promise!Before, Precedes, Before
    <3>3. Precedes(mark, n)
      BY <1>1, <1>2, <3>1, <3>2, PrecedesOn
    <3> QED
      BY <3>1, <3>3 DEF Promise!Ahead, Promise!Precedes, Promise!Before, Precedes, Before
  <2> QED
    BY <2>1, <2>2, <2>3 DEF MarkType
<1> QED
  BY <1>4 DEF IsAhead, n

\* What seek and resume wind to is where mark stands.
LEMMA ReachedIs ==
  ASSUME TypeOK, StandsAt(resuming.position, resuming.cursor),
         NEW c \in Held, NEW i \in RowsOf(c)
  PROVE  IsAhead(c, i) <=> Reached(file[c].rows[i])
<1> DEFINE m == MessageAt(c, i)
<1>1. m.recv = file[c].rows[i].recv /\ m.sequence = file[c].rows[i].sequence
  BY PlaceIs
<1>2. CASE /\ resuming.cursor = NoKey
           /\ mark = Promise!From(resuming.position)
  <2>1. mark.kind = "from" /\ mark.recv = resuming.position
    BY <1>2 DEF Promise!From
  <2> QED
    BY <1>1, <1>2, <2>1 DEF IsAhead, Promise!Ahead, Reached
<1>3. CASE /\ resuming.cursor # NoKey
           /\ mark = [kind |-> "after", recv |-> resuming.cursor.recv,
                      sequence |-> resuming.cursor.sequence]
  <2>1. /\ mark.kind = "after" /\ mark.recv = resuming.cursor.recv
        /\ mark.sequence = resuming.cursor.sequence
    BY <1>3
  <2> HIDE DEF m
  <2>2. Promise!Ahead(m) <=> Precedes(resuming.cursor, file[c].rows[i])
    BY <1>1, <2>1 DEF Promise!Ahead, Promise!Precedes, Promise!Before, Precedes, Before
  <2> QED
    BY <1>3, <2>2 DEF IsAhead, Reached, m
<1> QED
  BY <1>2, <1>3 DEF StandsAt

-----------------------------------------------------------------------------
(* What is to come, step by step. *)

\* What a pull skips is of topics not asked for, or holds no messages.
LEMMA SkipsUnwanted ==
  ASSUME IInv, NEW c \in Held, c \in Unread \ UnreadAfter(Pulled.at),
         footer => Wanted(file[c].topic)
  PROVE  c = Pulled.chunk /\ Pulled.chunk # NoChunk
<1>1. /\ at \in Nat /\ index \in Seq(DOMAIN file) /\ file \in Seq(FileChunk)
      /\ footer \in BOOLEAN /\ at <= Limit
  BY FileType DEF IInv, TypeOK, Limit
<1>2. NoChunk \notin DOMAIN file
  BY <1>1 DEF NoChunk
<1>3. CASE footer
  <2> DEFINE n == Len(index)
             unread == {i \in at .. n - 1 : Wanted(file[Ordered[i]].topic)}
             next == Least(unread)
  <2>1. n \in Nat /\ DOMAIN index = 1 .. n /\ at <= n
    BY <1>1, <1>3 DEF Limit
  <2>2. PICK i \in at .. n - 1 : c = Ordered[i]
    <3>1. CASE reverse
      <4>1. PICK j \in 1 .. n - at : c = index[j]
        BY <1>3, <3>1 DEF Unread
      <4>2. n - j \in at .. n - 1 /\ n - (n - j) = j
        BY <1>1, <2>1
      <4>3. Ordered[n - j] = index[j]
        BY <1>1, <2>1, <3>1, <4>2 DEF Ordered
      <4> QED
        BY <4>1, <4>2, <4>3
    <3>2. CASE ~reverse
      <4>1. PICK j \in at + 1 .. n : c = index[j]
        BY <1>3, <3>2 DEF Unread
      <4>2. j - 1 \in at .. n - 1 /\ (j - 1) + 1 = j
        BY <1>1, <2>1
      <4>3. Ordered[j - 1] = index[j]
        BY <1>1, <2>1, <3>2, <4>2 DEF Ordered
      <4> QED
        BY <4>1, <4>2, <4>3
    <3> QED
      BY <3>1, <3>2
  <2>3. i \in unread
    BY <1>3, <2>2
  <2>4. Pulled.at = next + 1 /\ Pulled.chunk = Ordered[next]
    BY <1>3, <2>3 DEF Pulled, NextIndexed
  <2>5. next \in unread /\ next <= i
    <3>1. unread \subseteq Nat
      BY <1>1
    <3> HIDE DEF unread
    <3> QED
      BY <2>3, <3>1, LeastFrom
  <2>6. next \in Nat /\ at <= next /\ next < n
    BY <1>1, <2>5
  <2> HIDE DEF next
  <2>7. i = next
    <3> SUFFICES ASSUME next < i PROVE FALSE
      BY <1>1, <2>5, <2>6
    <3>1. CASE reverse
      <4>1. c = index[n - i] /\ n - i \in 1 .. n - (next + 1)
        BY <1>1, <2>1, <2>2, <2>6, <3>1 DEF Ordered
      <4> QED
        BY <1>3, <2>4, <3>1, <4>1 DEF UnreadAfter
    <3>2. CASE ~reverse
      <4>1. c = index[i + 1] /\ i + 1 \in next + 1 + 1 .. n
        BY <1>1, <2>1, <2>2, <2>6, <3>2 DEF Ordered
      <4> QED
        BY <1>3, <2>4, <3>2, <4>1 DEF UnreadAfter
    <3> QED
      BY <3>1, <3>2
  <2>8. c = Pulled.chunk
    BY <2>2, <2>4, <2>7
  <2> QED
    BY <1>2, <2>8 DEF Held
<1>4. CASE ~footer
  <2> DEFINE unread == {d \in at + 1 .. Len(file) : HoldsMessages(d)}
             next == Least(unread)
  <2>1. c \in unread
    BY <1>4 DEF Unread, Held
  <2>2. Pulled.at = next /\ Pulled.chunk = next
    BY <1>4, <2>1 DEF Pulled, NextScanned
  <2>3. next \in unread /\ next <= c
    <3>1. unread \subseteq Nat
      BY <1>1
    <3> HIDE DEF unread
    <3> QED
      BY <2>1, <3>1, LeastFrom
  <2>4. next \in Nat /\ c \in Nat /\ c <= Len(file) /\ Len(file) \in Nat
    BY <1>1, <2>1, <2>3
  <2> HIDE DEF next
  <2>5. ~(c \in next + 1 .. Len(file))
    BY <1>4, <2>2 DEF UnreadAfter
  <2>6. c = next
    BY <2>3, <2>4, <2>5
  <2> QED
    BY <1>2, <2>2, <2>6 DEF Held
<1> QED
  BY <1>1, <1>3, <1>4

\* The place of the row that is next.
ChosenAt ==
    IF reverse THEN Len(file[Chosen.chunk].rows) + 1 - Chosen.next ELSE Chosen.next

\* What is next of a chunk in the window is the first row left of it.
LEMMA HeadIs ==
  ASSUME IInv, NEW w \in window
  PROVE  /\ w.chunk \in Held /\ w.chunk \notin Unread
         /\ w.next \in Nat \ {0} /\ w.next <= Len(file[w.chunk].rows)
         /\ Len(file[w.chunk].rows) \in Nat
         /\ RowsOf(w.chunk) = 1 .. Len(file[w.chunk].rows)
         /\ LET k == IF reverse THEN Len(file[w.chunk].rows) + 1 - w.next ELSE w.next
            IN  k \in Left(w) /\ k \in RowsOf(w.chunk) /\ Row(w) = file[w.chunk].rows[k]
<1>1. /\ w.chunk \in DOMAIN file /\ HoldsMessages(w.chunk) /\ w.chunk \notin Unread
      /\ w.next \in Nat \ {0} /\ w.next <= Len(file[w.chunk].rows)
  BY DEF IInv, TypeOK, Windowed, WindowEntry
<1>2. file[w.chunk].rows \in Seq(MessageRow)
  BY <1>1, FileType DEF IInv
<1>3. RowsOf(w.chunk) = 1 .. Len(file[w.chunk].rows) /\ Len(file[w.chunk].rows) \in Nat
  BY <1>2 DEF RowsOf
<1> QED
  BY <1>1, <1>3 DEF Held, Left, Row

\* The rows left of a chunk follow the one that is next.
LEMMA LeftFollows ==
  ASSUME InOrder, IInv, NEW w \in window, NEW i \in Left(w),
         file[w.chunk].rows[i] # Row(w)
  PROVE  Precedes(Row(w), file[w.chunk].rows[i])
<1> DEFINE k == IF reverse THEN Len(file[w.chunk].rows) + 1 - w.next ELSE w.next
<1>1. /\ w.chunk \in Held /\ k \in RowsOf(w.chunk) /\ Row(w) = file[w.chunk].rows[k]
      /\ RowsOf(w.chunk) \subseteq Int
  BY HeadIs
<1>2. i \in RowsOf(w.chunk) /\ i # k /\ (IF reverse THEN i <= k ELSE k <= i)
  BY <1>1 DEF Left
<1>3. PICK c \in Cases : file = c.file
  <2>1. [file |-> file, footer |-> footer, flaky |-> flaky] \in Cases
    BY DEF IInv, TypeOK
  <2> QED
    BY <2>1
<1>4. w.chunk \in DOMAIN file /\ RowsOf(w.chunk) = DOMAIN file[w.chunk].rows
  BY <1>1 DEF Held, RowsOf
<1> HIDE DEF k
<1>5. CASE reverse
  <2>1. i < k
    BY <1>1, <1>2, <1>5
  <2>2. Before(file[w.chunk].rows[i], file[w.chunk].rows[k])
    BY <1>1, <1>2, <1>3, <1>4, <2>1 DEF InOrder
  <2> QED
    BY <1>1, <1>5, <2>2 DEF Precedes
<1>6. CASE ~reverse
  <2>1. k < i
    BY <1>1, <1>2, <1>6
  <2>2. Before(file[w.chunk].rows[k], file[w.chunk].rows[i])
    BY <1>1, <1>2, <1>3, <1>4, <2>1 DEF InOrder
  <2> QED
    BY <1>1, <1>6, <2>2 DEF Precedes
<1> QED
  BY <1>5, <1>6

\* Once fill returns, the chosen row precedes all others to come.
LEMMA ChosenFirst ==
  ASSUME InOrder, IInv, Filled, window # {},
         NEW c \in Held, NEW i \in RowsOf(c), ToCome(c, i),
         ~(c = Chosen.chunk /\ i = ChosenAt)
  PROVE  Precedes(Row(Chosen), file[c].rows[i])
<1>1. /\ Chosen \in window /\ IsChosen(Chosen) /\ Row(Chosen).recv = Candidate
      /\ Chosen.chunk \in Held /\ ChosenAt \in RowsOf(Chosen.chunk)
      /\ Row(Chosen) = file[Chosen.chunk].rows[ChosenAt]
  BY ChosenIs, HeadIs DEF ChosenAt
<1>2. /\ Row(Chosen).recv \in Int /\ Row(Chosen).sequence \in Nat
      /\ file[c].rows[i].recv \in Int /\ file[c].rows[i].sequence \in Nat
  BY <1>1, RowIs, PlaceIs DEF IInv
<1>3. CASE c \in Unread
  <2>1. IF reverse THEN file[c].rows[i].recv < Candidate ELSE Candidate < file[c].rows[i].recv
    BY <1>3, UnreadIsLater, PlaceIs DEF RowsOf, IInv
  <2> QED
    BY <1>1, <1>2, <2>1 DEF Precedes, Before
<1>4. ASSUME NEW w \in window, w.chunk = c, i \in Left(w)
      PROVE  Precedes(Row(Chosen), file[c].rows[i])
  <2>1. /\ Row(w).recv \in Int /\ Row(w).sequence \in Nat
    BY RowIs
  <2>2. CASE file[c].rows[i] = Row(w)
    <3>1. w # Chosen
      <4> SUFFICES ASSUME w = Chosen PROVE FALSE
        OBVIOUS
      <4>1. /\ c = Chosen.chunk /\ file[c].rows[i] = Row(Chosen)
            /\ Row(Chosen) = file[Chosen.chunk].rows[ChosenAt]
        BY <1>1, <1>4, <2>2
      <4>2. i = ChosenAt
        BY <1>1, <1>4, <4>1, PlaceIs, RowNumbers DEF RowsOf, IInv
      <4> QED
        BY <1>4, <4>2
    <3> QED
      BY <1>1, <2>2, <3>1 DEF IsChosen
  <2>3. CASE file[c].rows[i] # Row(w)
    <3>1. Precedes(Row(w), file[c].rows[i])
      BY <1>4, <2>3, LeftFollows
    <3>2. CASE w = Chosen
      BY <3>1, <3>2
    <3>3. CASE w # Chosen
      <4>1. Precedes(Row(Chosen), Row(w))
        BY <1>1, <3>3 DEF IsChosen
      <4> QED
        BY <1>2, <2>1, <3>1, <4>1, PrecedesOn
    <3> QED
      BY <3>2, <3>3
  <2> QED
    BY <2>2, <2>3
<1> QED
  BY <1>3, <1>4 DEF ToCome

\* What is said of places does not change with the recording.
LEMMA PlacesStay ==
  ASSUME UNCHANGED recording
  PROVE  /\ file' = file /\ footer' = footer /\ index' = index /\ flaky' = flaky
         /\ Held' = Held
         /\ \A c : RowsOf(c)' = RowsOf(c) /\ HoldsMessages(c)' = HoldsMessages(c)
         /\ \A c, i : MessageAt(c, i)' = MessageAt(c, i)
<1>1. file' = file /\ footer' = footer /\ index' = index /\ flaky' = flaky
  BY DEF recording
<1>2. \A c : HoldsMessages(c)' = HoldsMessages(c)
  BY <1>1 DEF HoldsMessages
<1> QED
  BY <1>1, <1>2 DEF Held, RowsOf, MessageAt

\* Advance passes the chosen row and no other.
LEMMA AdvanceToCome ==
  ASSUME IInv, window # {}, Advance, UNCHANGED <<recording, at, reverse>>
  PROVE  /\ Chosen.chunk \in Held /\ ChosenAt \in RowsOf(Chosen.chunk)
         /\ ToCome(Chosen.chunk, ChosenAt)
         /\ Row(Chosen) = file[Chosen.chunk].rows[ChosenAt]
         /\ \A c \in Held : \A i \in RowsOf(c) :
               ToCome(c, i)' <=> ToCome(c, i) /\ ~(c = Chosen.chunk /\ i = ChosenAt)
<1>1. PICK w : w = Chosen
  OBVIOUS
<1>2. PICK new : new = [w EXCEPT !.next = @ + 1]
  OBVIOUS
<1>3. PICK k : k = ChosenAt
  OBVIOUS
<1>4. /\ file' = file /\ footer' = footer /\ Unread' = Unread /\ reverse' = reverse
      /\ Held' = Held /\ \A c : RowsOf(c)' = RowsOf(c)
  <2>1. Unread' = Unread
    BY PlacesStay DEF Unread
  <2> QED
    BY <2>1, PlacesStay
<1>5. /\ w \in window /\ w.chunk \in Held /\ w.chunk \notin Unread
      /\ w.next \in Nat \ {0} /\ w.next <= Len(file[w.chunk].rows)
      /\ Len(file[w.chunk].rows) \in Nat
      /\ RowsOf(w.chunk) = 1 .. Len(file[w.chunk].rows)
      /\ k = (IF reverse THEN Len(file[w.chunk].rows) + 1 - w.next ELSE w.next)
      /\ k \in Left(w) /\ k \in RowsOf(w.chunk) /\ Row(w) = file[w.chunk].rows[k]
  <2>1. w \in window
    BY <1>1, ChosenIs
  <2>2. k = (IF reverse THEN Len(file[w.chunk].rows) + 1 - w.next ELSE w.next)
    BY <1>1, <1>3 DEF ChosenAt
  <2> QED
    BY <2>1, <2>2, HeadIs
<1>6. new.chunk = w.chunk /\ new.next = w.next + 1
  <2>1. w \in WindowEntry
    BY <1>5 DEF IInv, TypeOK
  <2> QED
    BY <1>2, <2>1 DEF WindowEntry
<1>7. window' = (window \ {w}) \union
                (IF w.next < Len(file[w.chunk].rows) THEN {new} ELSE {})
  BY <1>1, <1>2 DEF Advance
<1>8. \A v : Left(v)' = Left(v)
  BY <1>4 DEF Left, RowsOf
<1>9. \A v \in window \ {w} : v.chunk # w.chunk
  BY <1>5 DEF IInv, Windowed
<1>10. ASSUME w.next < Len(file[w.chunk].rows), NEW i \in RowsOf(w.chunk)
       PROVE  i \in Left(new) <=> i \in Left(w) /\ i # k
  <2>1. PICK n \in Nat : n = Len(file[w.chunk].rows)
    BY <1>5
  <2>2. PICK m \in Nat : m = w.next
    BY <1>5
  <2>3. i \in Int
    BY <1>5, <1>10
  <2>4. new.chunk = w.chunk /\ new.next = m + 1
    BY <1>6, <2>2
  <2>5. CASE reverse
    <3>1. i \in Left(new) <=> i <= n + 1 - (m + 1)
      BY <1>10, <2>1, <2>4, <2>5 DEF Left
    <3>2. i \in Left(w) <=> i <= n + 1 - m
      BY <1>10, <2>1, <2>2, <2>5 DEF Left
    <3>3. k = n + 1 - m
      BY <1>5, <2>1, <2>2, <2>5
    <3> QED
      BY <2>3, <3>1, <3>2, <3>3
  <2>6. CASE ~reverse
    <3>1. i \in Left(new) <=> m + 1 <= i
      BY <1>10, <2>4, <2>6 DEF Left
    <3>2. i \in Left(w) <=> m <= i
      BY <1>10, <2>2, <2>6 DEF Left
    <3>3. k = m
      BY <1>5, <2>2, <2>6
    <3> QED
      BY <2>3, <3>1, <3>2, <3>3
  <2> QED
    BY <2>5, <2>6
<1>11. ASSUME ~(w.next < Len(file[w.chunk].rows)), NEW i \in RowsOf(w.chunk)
       PROVE  i \in Left(w) <=> i = k
  <2>1. PICK n \in Nat : n = Len(file[w.chunk].rows)
    BY <1>5
  <2>2. w.next = n
    <3>1. w.next \in Nat /\ w.next <= n /\ ~(w.next < n)
      BY <1>5, <1>11, <2>1
    <3> QED
      BY <2>1, <3>1
  <2>3. i \in 1 .. n
    BY <1>5, <1>11, <2>1
  <2>4. CASE reverse
    <3>1. i \in Left(w) <=> i <= n + 1 - n
      BY <1>11, <2>1, <2>2, <2>4 DEF Left
    <3>2. k = n + 1 - n
      BY <1>5, <2>1, <2>2, <2>4
    <3> QED
      BY <2>1, <2>3, <3>1, <3>2
  <2>5. CASE ~reverse
    <3>1. i \in Left(w) <=> n <= i
      BY <1>11, <2>2, <2>5 DEF Left
    <3>2. k = n
      BY <1>5, <2>2, <2>5
    <3> QED
      BY <2>1, <2>3, <3>1, <3>2
  <2> QED
    BY <2>4, <2>5
<1>12. ASSUME NEW c \in Held, NEW i \in RowsOf(c), c = w.chunk
       PROVE  ToCome(c, i)' <=> ToCome(c, i) /\ i # k
  <2>1. c \notin Unread /\ c \notin Unread'
    BY <1>4, <1>5, <1>12
  <2>2. ToCome(c, i) <=> i \in Left(w)
    BY <1>5, <1>9, <1>12, <2>1 DEF ToCome
  <2>3. CASE w.next < Len(file[w.chunk].rows)
    <3>1. ToCome(c, i)' <=> i \in Left(new)
      BY <1>6, <1>7, <1>8, <1>9, <1>12, <2>1, <2>3 DEF ToCome
    <3> QED
      BY <1>10, <1>12, <2>2, <2>3, <3>1
  <2>4. CASE ~(w.next < Len(file[w.chunk].rows))
    <3>1. ~ToCome(c, i)'
      BY <1>7, <1>9, <1>12, <2>1, <2>4 DEF ToCome
    <3> QED
      BY <1>11, <1>12, <2>2, <2>4, <3>1
  <2> QED
    BY <2>3, <2>4
<1>13. ASSUME NEW c \in Held, NEW i \in RowsOf(c), c # w.chunk
       PROVE  ToCome(c, i)' <=> ToCome(c, i)
  BY <1>4, <1>5, <1>6, <1>7, <1>8, <1>13 DEF ToCome
<1> QED
  BY <1>1, <1>3, <1>5, <1>12, <1>13 DEF ToCome

\* A pull brings no row back, and passes chunks of other topics only.
LEMMA PullToCome ==
  ASSUME IInv, Pull
  PROVE  \A c \in Held : \A i \in RowsOf(c) :
            /\ ToCome(c, i)' => ToCome(c, i)
            /\ ToCome(c, i) /\ (footer => Wanted(file[c].topic)) => ToCome(c, i)'
<1>1. PICK new : new = [chunk |-> Pulled.chunk, next |-> 1]
  OBVIOUS
<1>2. /\ file' = file /\ footer' = footer /\ reverse' = reverse /\ index' = index
      /\ Unread' = UnreadAfter(Pulled.at) /\ UnreadAfter(Pulled.at) \subseteq Unread
      /\ \A v : Left(v)' = Left(v)
  <2>1. UNCHANGED <<recording, reverse>>
    BY DEF Pull
  <2> QED
    BY <2>1, PassKeeps, PulledIs, PlacesStay DEF Pull, Left, RowsOf
<1>3. window \subseteq window'
  BY DEF Pull
<1>4. ASSUME NEW v \in window', v \notin window
      PROVE  v = new /\ Pulled.chunk # NoChunk /\ v.chunk \in Unread
  <2>1. v = new /\ Pulled.chunk # NoChunk
    BY <1>1, <1>4 DEF Pull
  <2> QED
    BY <1>1, <2>1, PulledIs
<1>5. ASSUME NEW c \in Held, NEW i \in RowsOf(c), ToCome(c, i)'
      PROVE  ToCome(c, i)
  BY <1>2, <1>4, <1>5 DEF ToCome
<1>6. ASSUME NEW c \in Held, NEW i \in RowsOf(c), ToCome(c, i),
             footer => Wanted(file[c].topic)
      PROVE  ToCome(c, i)'
  <2>1. CASE c \notin Unread
    BY <1>2, <1>3, <1>6, <2>1 DEF ToCome
  <2>2. CASE c \in UnreadAfter(Pulled.at)
    BY <1>2, <2>2 DEF ToCome
  <2>3. CASE c \in Unread \ UnreadAfter(Pulled.at)
    <3>1. c = Pulled.chunk /\ Pulled.chunk # NoChunk
      BY <1>6, <2>3, SkipsUnwanted
    <3>2. new \in window' /\ new.chunk = c /\ new.next = 1
      BY <1>1, <3>1 DEF Pull
    <3>3. i \in Left(new)
      <4>1. i \in 1 .. Len(file[c].rows) /\ Len(file[c].rows) \in Nat
        <5>1. file[c].rows \in Seq(MessageRow)
          BY FileType DEF Held, IInv
        <5> QED
          BY <5>1 DEF RowsOf
      <4> QED
        BY <3>2, <4>1 DEF Left
    <3> QED
      BY <1>2, <3>2, <3>3 DEF ToCome
  <2> QED
    BY <2>1, <2>2, <2>3
<1> QED
  BY <1>5, <1>6

\* One that fails passes its chunk as well.
LEMMA PullFailsToCome ==
  ASSUME IInv, PullFails
  PROVE  \A c \in Held : \A i \in RowsOf(c) :
            /\ ToCome(c, i)' => ToCome(c, i) /\ c # Pulled.chunk
            /\ /\ ToCome(c, i) /\ c # Pulled.chunk
               /\ footer => Wanted(file[c].topic)
               => ToCome(c, i)'
<1>1. /\ file' = file /\ footer' = footer /\ reverse' = reverse /\ window' = window
      /\ Unread' = UnreadAfter(Pulled.at) /\ UnreadAfter(Pulled.at) \subseteq Unread
      /\ \A v : Left(v)' = Left(v)
  <2>1. UNCHANGED <<recording, reverse, window>>
    BY DEF PullFails
  <2> QED
    BY <2>1, PassKeeps, PulledIs, PlacesStay DEF PullFails, Left, RowsOf
<1>2. Pulled.chunk \in Unread \ UnreadAfter(Pulled.at)
  <2>1. Pulled.chunk # NoChunk
    BY DEF PullFails
  <2> QED
    BY <2>1, PulledIs
<1>3. \A w \in window : w.chunk \notin Unread
  BY HeadIs
<1> QED
  BY <1>1, <1>2, <1>3, SkipsUnwanted DEF ToCome

\* Whoever starts over has everything to come.
LEMMA StartOverToCome ==
  ASSUME IInv, UNCHANGED recording, at' = 0, NEW c \in Held, NEW i \in RowsOf(c)
  PROVE  ToCome(c, i)'
<1>1. /\ index \in Seq(DOMAIN file) /\ file \in Seq(FileChunk) /\ Indexed
      /\ file' = file /\ footer' = footer /\ index' = index
      /\ c \in DOMAIN file /\ HoldsMessages(c)
  BY FileType, PlacesStay DEF IInv, TypeOK, Held
<1>2. c \in Unread'
  <2>1. CASE footer
    <3>1. PICK j \in 1 .. Len(index) : index[j] = c
      BY <1>1, <2>1 DEF Indexed
    <3>2. Len(index) \in Nat /\ j \in 1 .. Len(index) - 0 /\ j \in 0 + 1 .. Len(index)
      BY <1>1
    <3> QED
      BY <1>1, <2>1, <3>1, <3>2 DEF Unread
  <2>2. CASE ~footer
    <3>1. c \in 0 + 1 .. Len(file)
      BY <1>1
    <3> QED
      BY <1>1, <2>2, <3>1 DEF Unread
  <2> QED
    BY <2>1, <2>2
<1> QED
  BY <1>2 DEF ToCome

\* Over an index, a seek skips only rows that cannot be reached.
LEMMA SkippedToCome ==
  ASSUME IInv, UNCHANGED <<recording, reverse>>, NEW time \in Times,
         at' = SkippedTo(time, reverse),
         NEW c \in Held, NEW i \in RowsOf(c), ~ToCome(c, i)'
  PROVE  IF reverse THEN file[c].rows[i].recv > time ELSE file[c].rows[i].recv < time
<1>1. CASE ~footer
  <2>1. at' = 0
    BY <1>1 DEF SkippedTo
  <2> QED
    BY <2>1, StartOverToCome
<1>2. CASE footer
  <2> DEFINE n == Len(index)
             reached == IF reverse
                        THEN {k \in 0 .. n - 1 : StartOf(index[n - k]) <= time}
                        ELSE {k \in 0 .. n - 1 : EndOf(index[k + 1]) >= time}
  <2>1. /\ index \in Seq(DOMAIN file) /\ Indexed /\ TypeOK /\ n \in Nat /\ DOMAIN index = 1 .. n
        /\ file' = file /\ footer' = footer /\ index' = index /\ reverse' = reverse
        /\ c \in DOMAIN file /\ HoldsMessages(c) /\ i \in DOMAIN file[c].rows
    BY FileType, PlacesStay DEF IInv, TypeOK, Held, RowsOf
  <2>2. at' = Least(reached \union {n})
    BY <1>2 DEF SkippedTo
  <2>3. \A k \in reached : k \in Nat /\ k <= n
    BY <2>1
  <2>4. at' \in Nat /\ at' <= n /\ \A k \in reached : at' <= k
    <3>1. reached \union {n} \subseteq Nat /\ reached \union {n} # {}
      BY <2>1, <2>3
    <3> HIDE DEF reached
    <3> QED
      BY <2>1, <2>2, <2>3, <3>1, LeastFrom
  <2>5. PICK j \in 1 .. n : index[j] = c
    BY <1>2, <2>1 DEF Indexed
  <2>6. /\ StartOf(c) \in Int /\ EndOf(c) \in Int /\ time \in Int
        /\ file[c].rows[i].recv \in Int
        /\ StartOf(c) <= file[c].rows[i].recv /\ file[c].rows[i].recv <= EndOf(c)
    BY <2>1, ChunkTimes, TimeIs
  <2>7. c \notin Unread'
    BY DEF ToCome
  <2>8. CASE reverse
    <3>1. Unread' = {index[k] : k \in 1 .. n - at'}
      BY <1>2, <2>1, <2>8 DEF Unread
    <3>2. n - j \in 0 .. n - 1 /\ n - j < at' /\ n - (n - j) = j
      BY <2>1, <2>4, <2>5, <2>7, <3>1
    <3>3. n - j \notin reached
      BY <2>4, <3>2
    <3>4. ~(StartOf(c) <= time)
      BY <2>5, <2>8, <3>2, <3>3
    <3> QED
      BY <2>6, <2>8, <3>4
  <2>9. CASE ~reverse
    <3>1. Unread' = {index[k] : k \in at' + 1 .. n}
      BY <1>2, <2>1, <2>9 DEF Unread
    <3>2. j - 1 \in 0 .. n - 1 /\ j - 1 < at' /\ (j - 1) + 1 = j
      BY <2>1, <2>4, <2>5, <2>7, <3>1
    <3>3. j - 1 \notin reached
      BY <2>4, <3>2
    <3>4. ~(EndOf(c) >= time)
      BY <2>5, <2>9, <3>2, <3>3
    <3> QED
      BY <2>6, <2>9, <3>4
  <2> QED
    BY <2>8, <2>9
<1> QED
  BY <1>1, <1>2

\* Rows short of where playback stands are not ahead.
LEMMA ShortOf ==
  ASSUME TypeOK, NEW place \in Times, NEW key, StandsAt(place, key),
         NEW c \in Held, NEW i \in RowsOf(c),
         IF reverse THEN file[c].rows[i].recv > place ELSE file[c].rows[i].recv < place
  PROVE  ~IsAhead(c, i)
<1> DEFINE m == MessageAt(c, i)
<1>1. m.recv = file[c].rows[i].recv /\ m.recv \in Int /\ place \in Int
  BY PlaceIs, TimeIs
<1> HIDE DEF m
<1>2. ~Promise!Ahead(m)
  <2>1. CASE mark = Promise!From(place)
    <3>1. mark.kind = "from" /\ mark.recv = place
      BY <2>1 DEF Promise!From
    <3> QED
      BY <1>1, <3>1 DEF Promise!Ahead
  <2>2. CASE /\ place = key.recv
             /\ mark = [kind |-> "after", recv |-> key.recv, sequence |-> key.sequence]
    <3>1. mark.kind = "after" /\ mark.recv = place
      BY <2>2
    <3> QED
      BY <1>1, <3>1 DEF Promise!Ahead, Promise!Precedes, Promise!Before
  <2> QED
    BY <2>1, <2>2 DEF StandsAt
<1> QED
  BY <1>2 DEF IsAhead, m

\* Over an index, what is pulled is of a topic asked for.
LEMMA PulledWanted ==
  ASSUME IInv, footer, Pulled.chunk # NoChunk
  PROVE  Wanted(file[Pulled.chunk].topic)
<1> DEFINE unread == {i \in at .. Len(index) - 1 : Wanted(file[Ordered[i]].topic)}
<1>1. unread # {} /\ Pulled.chunk = Ordered[Least(unread)]
  BY DEF Pulled, NextIndexed
<1>2. Least(unread) \in unread
  <2>1. unread \subseteq Nat
    BY DEF IInv, TypeOK
  <2> HIDE DEF unread
  <2> QED
    BY <1>1, <2>1, LeastFrom
<1> QED
  BY <1>1, <1>2

\* What is ahead depends on where playback stands only.
LEMMA AheadStays ==
  ASSUME UNCHANGED <<recording, mark, reverse>>
  PROVE  \A c, i : IsAhead(c, i)' = IsAhead(c, i)
BY PlacesStay DEF IsAhead, Promise!Ahead, Promise!Precedes, Promise!Before

\* What is to come depends on the chunks handed out and the window only.
LEMMA ToComeStays ==
  ASSUME UNCHANGED <<recording, at, window, reverse>>
  PROVE  \A c, i : ToCome(c, i)' = ToCome(c, i)
<1>1. Unread' = Unread /\ \A w : Left(w)' = Left(w)
  BY PlacesStay DEF Unread, Left, RowsOf
<1> QED
  BY <1>1 DEF ToCome

\* A row is at the start, wherever it is.
LEMMA AllAhead ==
  ASSUME mark' = Promise!AtStart
  PROVE  \A c, i : IsAhead(c, i)'
<1>1. mark'.kind = "start"
  BY DEF Promise!AtStart
<1> QED
  BY <1>1 DEF IsAhead, Promise!Ahead

\* What stays to come stays ahead, and has not been missed.
LEMMA FewerToCome ==
  ASSUME UNCHANGED <<recording, mark, reverse, missed>>,
         \A c \in Held : \A i \in RowsOf(c) : ToCome(c, i)' => ToCome(c, i)
  PROVE  (NoneMissed => NoneMissed') /\ (OnlyAhead => OnlyAhead')
<1>1. /\ Held' = Held /\ \A c : RowsOf(c)' = RowsOf(c)
      /\ \A c, i : MessageAt(c, i)' = MessageAt(c, i)
  BY PlacesStay
<1>2. \A c, i : IsAhead(c, i)' = IsAhead(c, i)
  BY AheadStays
<1>3. NoneMissed => NoneMissed'
  BY <1>1 DEF NoneMissed
<1>4. OnlyAhead => OnlyAhead'
  BY <1>1, <1>2 DEF OnlyAhead
<1> QED
  BY <1>3, <1>4

\* Where nothing is missed, nothing to come is.
LEMMA NoneIsMissed ==
  ASSUME missed' = {}
  PROVE  NoneMissed'
BY DEF NoneMissed

\* A drained Reader whose window is empty has nothing to come.
LEMMA NothingLeft ==
  ASSUME IInv, Filled, window = {}
  PROVE  \A c, i : ~ToCome(c, i)
<1>1. Drained
  BY DEF Filled, Settled
<1>2. /\ at \in Nat /\ index \in Seq(DOMAIN file) /\ file \in Seq(FileChunk)
      /\ footer \in BOOLEAN
  BY FileType DEF IInv, TypeOK
<1>3. Unread = {}
  <2>1. CASE footer
    <3>1. at >= Len(index) /\ Len(index) \in Nat
      BY <1>1, <1>2, <2>1 DEF Drained, Limit
    <3>2. 1 .. Len(index) - at = {} /\ at + 1 .. Len(index) = {}
      BY <1>2, <3>1
    <3> QED
      BY <2>1, <3>2 DEF Unread
  <2>2. CASE ~footer
    <3>1. at >= Len(file) /\ Len(file) \in Nat
      BY <1>1, <1>2, <2>2 DEF Drained, Limit
    <3>2. at + 1 .. Len(file) = {}
      BY <1>2, <3>1
    <3> QED
      BY <2>2, <3>2 DEF Unread
  <2> QED
    BY <2>1, <2>2
<1> QED
  BY <1>3 DEF ToCome

\* The start of a time is no place in it: a Reader that stands somewhere is not
\* where it started.
LEMMA StandsElsewhere ==
  ASSUME NEW place, NEW key \in Keys, StandsAt(place, key)
  PROVE  place \in Times /\ place # MinTime /\ mark # Promise!AtStart
<1>1. place \in Times
  <2>1. CASE key # NoKey /\ place = key.recv
    BY <2>1 DEF Keys
  <2> QED
    BY <2>1 DEF StandsAt
<1>2. mark.kind = "from" \/ mark.kind = "after"
  BY DEF StandsAt, Promise!From
<1>3. Promise!AtStart.kind = "start"
  BY DEF Promise!AtStart
<1> QED
  BY <1>1, <1>2, <1>3, TimeIs

-----------------------------------------------------------------------------
(* Where playback stands, call by call. *)

\* At the start everything is to come.
LEMMA InitStands == Init => PlaybackInv
<1> SUFFICES ASSUME Init PROVE PlaybackInv
  OBVIOUS
<1>1. /\ IInv /\ mark = Promise!AtStart /\ at = 0 /\ window = {} /\ missed = {}
      /\ cursor = NoKey /\ position = MinTime /\ pc = "idle"
  BY InitHolds DEF Init
<1>2. \A c \in Held : \A i \in RowsOf(c) : ToCome(c, i)
  <2> SUFFICES ASSUME NEW c \in Held PROVE c \in Unread
    BY DEF ToCome
  <2>1. /\ index \in Seq(DOMAIN file) /\ file \in Seq(FileChunk) /\ Indexed
        /\ c \in DOMAIN file /\ HoldsMessages(c)
    BY <1>1, FileType DEF IInv, TypeOK, Held
  <2>2. CASE footer
    <3>1. PICK j \in 1 .. Len(index) : index[j] = c
      BY <2>1, <2>2 DEF Indexed
    <3>2. Len(index) \in Nat /\ j \in 0 + 1 .. Len(index) /\ ~reverse
      BY <1>1, <2>1 DEF Init
    <3> QED
      BY <1>1, <2>2, <3>1, <3>2 DEF Unread
  <2>3. CASE ~footer
    <3>1. c \in 0 + 1 .. Len(file)
      BY <2>1
    <3> QED
      BY <1>1, <2>3, <3>1 DEF Unread
  <2> QED
    BY <2>2, <2>3
<1>3. \A c, i : IsAhead(c, i)
  <2>1. mark.kind = "start"
    BY <1>1 DEF Promise!AtStart
  <2> QED
    BY <2>1 DEF IsAhead, Promise!Ahead
<1>4. AllToCome /\ OnlyAhead
  BY <1>2, <1>3 DEF AllToCome, OnlyAhead
<1> QED
  BY <1>1, <1>4 DEF PlaybackInv, MarkType, NoneMissed, Standing, Fresh

\* What a call that turns back leaves: all is to come, from the start.
LEMMA RestartStands ==
  ASSUME IInv, UNCHANGED recording, Restart, mark' = Promise!AtStart, missed' = {},
         pc' = "idle"
  PROVE  PlaybackInv'
<1>1. /\ at' = 0 /\ window' = {} /\ cursor' = NoKey /\ position' = MinTime
      /\ Held' = Held /\ \A c : RowsOf(c)' = RowsOf(c)
  BY PlacesStay DEF Restart
<1>2. \A c \in Held : \A i \in RowsOf(c) : ToCome(c, i)'
  BY <1>1, StartOverToCome
<1>3. AllToCome'
  BY <1>1, <1>2 DEF AllToCome
<1>4. OnlyAhead'
  BY AllAhead DEF OnlyAhead
<1>5. Standing'
  BY <1>1, <1>4 DEF Standing, Fresh
<1> QED
  BY <1>1, <1>3, <1>5, NoneIsMissed DEF PlaybackInv, MarkType

\* A call that fails leaves playback nowhere.
LEMMA LostStands ==
  ASSUME IInv, PlaybackInv, mark' = Promise!Lost, missed' = {},
         footer' => \A w \in window' : Wanted(file[w.chunk].topic)'
  PROVE  PlaybackInv'
BY NoneIsMissed DEF PlaybackInv, MarkType

\* CallSeek knows where it goes, and skips nothing of it.
LEMMA CallSeekStands ==
  ASSUME IInv, PlaybackInv, NEW time \in Times, CallSeek(time)
  PROVE  PlaybackInv'
<1>1. /\ UNCHANGED <<recording, reverse>> /\ at' = SkippedTo(time, reverse)
      /\ window' = {} /\ missed' = {} /\ mark' = Promise!From(time) /\ pc' = "seek"
      /\ resuming' = [position |-> time, cursor |-> NoKey]
  BY DEF CallSeek
<1>2. mark'.kind = "from" /\ mark'.recv = time
  BY <1>1 DEF Promise!From
<1>3. /\ Held' = Held /\ \A c : RowsOf(c)' = RowsOf(c)
      /\ \A c, i : MessageAt(c, i)' = MessageAt(c, i)
  BY <1>1, PlacesStay
<1>4. AllToCome'
  <2> SUFFICES ASSUME NEW c \in Held, NEW i \in RowsOf(c), IsAhead(c, i)'
               PROVE  ToCome(c, i)'
    BY <1>3 DEF AllToCome
  <2> DEFINE m == MessageAt(c, i)
  <2>1. m' = m /\ m.recv = file[c].rows[i].recv /\ m.recv \in Int /\ time \in Int
    BY <1>3, PlaceIs, TimeIs DEF IInv
  <2>2. Promise!Ahead(m)'
    BY DEF IsAhead
  <2> HIDE DEF m
  <2>3. IF reverse THEN m.recv <= time ELSE m.recv >= time
    BY <1>1, <1>2, <2>1, <2>2 DEF Promise!Ahead
  <2> QED
    BY <1>1, <2>1, <2>3, SkippedToCome
<1>5. Standing'
  BY <1>1 DEF Standing, StandsAt
<1> QED
  BY <1>1, <1>4, <1>5, NoneIsMissed DEF PlaybackInv, MarkType

\* CallSetFilter goes on, starts over or winds back to where it was.
LEMMA CallSetFilterStands ==
  ASSUME ~ScanMidway, IInv, PlaybackInv, NEW topics \in Filters, CallSetFilter(topics)
  PROVE  PlaybackInv'
<1>1. /\ UNCHANGED <<recording, reverse, mark>> /\ pc = "idle"
      /\ footer' = footer /\ file' = file
  BY PlacesStay DEF CallSetFilter
<1>2. /\ Held' = Held /\ \A c : RowsOf(c)' = RowsOf(c)
      /\ \A c, i : MessageAt(c, i)' = MessageAt(c, i)
      /\ \A c, i : IsAhead(c, i)' = IsAhead(c, i)
  BY <1>1, PlacesStay, AheadStays
<1>3. CASE ~footer
  <2>1. /\ UNCHANGED <<at, window, position, cursor, pc, resuming, missed>>
        /\ Fresh
    BY <1>3 DEF CallSetFilter
  <2>2. \A c, i : ToCome(c, i)' = ToCome(c, i)
    BY <1>1, <2>1, ToComeStays
  <2>3. (NoneMissed => NoneMissed') /\ (OnlyAhead => OnlyAhead')
    BY <1>1, <2>1, <2>2, FewerToCome
  <2>4. AllToCome => AllToCome'
    BY <1>2, <1>3, <2>1, <2>2 DEF AllToCome
  <2>5. Standing => Standing'
    BY <1>1, <1>3, <2>1, <2>3 DEF Standing
  <2> QED
    BY <1>1, <1>3, <2>3, <2>4, <2>5 DEF PlaybackInv, MarkType
<1>4. CASE footer /\ mark = Promise!Lost
  <2>1. window' = {} /\ missed' = {}
    BY <1>4 DEF CallSetFilter, Restart
  <2> QED
    BY <1>1, <1>4, <2>1, LostStands
<1>5. CASE footer /\ mark # Promise!Lost /\ Fresh
  <2>1. mark = Promise!AtStart
    <3>1. ~StandsAt(position, cursor)
      BY <1>5, StandsElsewhere DEF Fresh, IInv, TypeOK
    <3> QED
      BY <1>1, <1>5, <3>1 DEF PlaybackInv, Standing
  <2>2. Restart /\ missed' = {} /\ pc' = "idle"
    BY <1>1, <1>5 DEF CallSetFilter
  <2> QED
    BY <1>1, <2>1, <2>2, RestartStands
<1>6. CASE footer /\ mark # Promise!Lost /\ ~Fresh
  <2>1. /\ window' = {} /\ missed' = {} /\ pc' = "resume"
        /\ at' = SkippedTo(position, reverse)
        /\ resuming' = [position |-> position, cursor |-> cursor]
    BY <1>6 DEF CallSetFilter
  <2>2. StandsAt(position, cursor)
    BY <1>1, <1>6 DEF PlaybackInv, Standing
  <2>3. position \in Times
    BY <2>2, StandsElsewhere DEF IInv, TypeOK
  <2>4. AllToCome'
    <3> SUFFICES ASSUME NEW c \in Held, NEW i \in RowsOf(c), IsAhead(c, i)
                 PROVE  ToCome(c, i)'
      BY <1>2 DEF AllToCome
    <3> QED
      BY <1>1, <2>1, <2>2, <2>3, SkippedToCome, ShortOf DEF IInv
  <2>5. Standing'
    BY <1>1, <2>1, <2>2 DEF Standing, StandsAt
  <2> QED
    BY <1>1, <2>1, <2>4, <2>5, NoneIsMissed DEF PlaybackInv, MarkType
<1> QED
  BY <1>3, <1>4, <1>5, <1>6

\* CallSetReverse starts over.
LEMMA CallSetReverseStands ==
  ASSUME IInv, CallSetReverse
  PROVE  PlaybackInv'
BY RestartStands DEF CallSetReverse

\* RestartFails leaves playback nowhere.
LEMMA RestartFailsStands ==
  ASSUME IInv, PlaybackInv, RestartFails
  PROVE  PlaybackInv'
BY LostStands DEF RestartFails

-----------------------------------------------------------------------------
(* And turn by turn. *)

\* Pull brings in what is asked for, and loses none of it.
LEMMA PullStands ==
  ASSUME IInv, PlaybackInv, Pull
  PROVE  PlaybackInv'
<1>1. /\ UNCHANGED <<recording, position, cursor, filter, reverse, pc, resuming, mark, missed>>
      /\ file' = file /\ footer' = footer /\ \A t : Wanted(t)' = Wanted(t)
  BY PlacesStay DEF Pull, Wanted
<1>2. \A c \in Held : \A i \in RowsOf(c) :
         /\ ToCome(c, i)' => ToCome(c, i)
         /\ ToCome(c, i) /\ (footer => Wanted(file[c].topic)) => ToCome(c, i)'
  BY PullToCome
<1>3. \A c, i : IsAhead(c, i)' = IsAhead(c, i)
  BY <1>1, AheadStays
<1>4. /\ Held' = Held /\ \A c : RowsOf(c)' = RowsOf(c)
      /\ \A c, i : MessageAt(c, i)' = MessageAt(c, i)
  BY <1>1, PlacesStay
<1>5. (NoneMissed => NoneMissed') /\ (OnlyAhead => OnlyAhead')
  BY <1>1, <1>2, FewerToCome
<1>6. AllToCome => AllToCome'
  BY <1>1, <1>2, <1>3, <1>4 DEF AllToCome, Fresh
<1>7. Standing => Standing'
  BY <1>1, <1>5 DEF Standing, Fresh, StandsAt
<1>8. ASSUME footer, NEW w \in window' PROVE Wanted(file[w.chunk].topic)
  <2>1. CASE w \in window
    BY <1>8, <2>1 DEF PlaybackInv
  <2>2. CASE w \notin window
    <3>1. w.chunk = Pulled.chunk /\ Pulled.chunk # NoChunk
      BY <2>2 DEF Pull
    <3> QED
      BY <1>8, <3>1, PulledWanted
  <2> QED
    BY <2>1, <2>2
<1> QED
  BY <1>1, <1>5, <1>6, <1>7, <1>8 DEF PlaybackInv, MarkType

\* The messages of a chunk are those at its places.
LEMMA MessagesAre ==
  ASSUME TypeOK, NEW c \in Held, NEW i \in RowsOf(c), NEW d \in Held
  PROVE  MessageAt(c, i) \in MessagesOf(d) <=> c = d
<1>1. MessagesOf(d) = {MessageAt(d, j) : j \in RowsOf(d)}
  BY DEF MessagesOf, MessageAt, RowsOf
<1>2. ASSUME NEW j \in RowsOf(d), MessageAt(c, i) = MessageAt(d, j) PROVE c = d
  BY <1>2, PlacesDiffer
<1> QED
  BY <1>1, <1>2

\* A chunk that fails to load was to come.
LEMMA PullFailsIs ==
  ASSUME IInv, PullFails
  PROVE  /\ Pulled.chunk \in Held
         /\ 1 \in RowsOf(Pulled.chunk) /\ ToCome(Pulled.chunk, 1)
<1>1. Pulled.chunk # NoChunk
  BY DEF PullFails
<1>2. Pulled.chunk \in DOMAIN file /\ HoldsMessages(Pulled.chunk) /\ Pulled.chunk \in Unread
  BY <1>1, PulledIs
<1>3. file[Pulled.chunk].rows \in Seq(MessageRow) /\ file[Pulled.chunk].rows # <<>>
  BY <1>2, FileType DEF IInv
<1>4. 1 \in RowsOf(Pulled.chunk)
  <2> DEFINE rows == file[Pulled.chunk].rows
  <2>1. rows \in Seq(MessageRow) /\ rows # <<>>
    BY <1>3
  <2> HIDE DEF rows
  <2>2. 1 \in DOMAIN rows
    BY <2>1
  <2> QED
    BY <2>2 DEF RowsOf, rows
<1> QED
  BY <1>2, <1>4 DEF Held, ToCome

\* PullFails gives up the messages of its chunk, or playback is nowhere.
LEMMA PullFailsStands ==
  ASSUME IInv, PlaybackInv, PullFails
  PROVE  PlaybackInv'
<1>1. /\ UNCHANGED <<recording, window, position, cursor, filter, reverse>> /\ pc' = "idle"
      /\ file' = file /\ footer' = footer /\ \A t : Wanted(t)' = Wanted(t)
  BY PlacesStay DEF PullFails, Wanted
<1>2. CASE pc # "read"
  <2>1. mark' = Promise!Lost /\ missed' = {}
    BY <1>2 DEF PullFails
  <2> QED
    BY <1>1, <2>1, LostStands DEF PlaybackInv
<1>3. CASE pc = "read"
  <2>1. mark' = mark /\ missed' = missed \union MessagesOf(Pulled.chunk)
    BY <1>3 DEF PullFails
  <2>2. \A c \in Held : \A i \in RowsOf(c) :
           /\ ToCome(c, i)' => ToCome(c, i) /\ c # Pulled.chunk
           /\ /\ ToCome(c, i) /\ c # Pulled.chunk
              /\ footer => Wanted(file[c].topic)
              => ToCome(c, i)'
    BY PullFailsToCome
  <2>3. \A c, i : IsAhead(c, i)' = IsAhead(c, i)
    BY <1>1, <2>1, AheadStays
  <2>4. /\ Held' = Held /\ \A c : RowsOf(c)' = RowsOf(c)
        /\ \A c, i : MessageAt(c, i)' = MessageAt(c, i)
    BY <1>1, PlacesStay
  <2>5. \A c \in Held : \A i \in RowsOf(c) :
           MessageAt(c, i) \in missed' <=> MessageAt(c, i) \in missed \/ c = Pulled.chunk
    BY <2>1, PullFailsIs, MessagesAre DEF IInv
  <2>6. NoneMissed => NoneMissed'
    BY <2>2, <2>4, <2>5 DEF NoneMissed
  <2>7. OnlyAhead => OnlyAhead'
    BY <2>2, <2>3, <2>4 DEF OnlyAhead
  <2>8. AllToCome => AllToCome'
    BY <1>1, <2>2, <2>3, <2>4, <2>5 DEF AllToCome, Fresh
  <2>9. Standing => Standing'
    BY <1>1, <1>3, <2>1, <2>7 DEF Standing, Fresh, StandsAt
  <2> QED
    BY <1>1, <2>1, <2>6, <2>8, <2>9 DEF PlaybackInv, MarkType
<1> QED
  BY <1>2, <1>3

\* What Advance leaves in the window is of chunks that were in it.
LEMMA AdvanceWanted ==
  ASSUME IInv, window # {}, Advance, UNCHANGED <<recording, filter>>,
         footer => \A w \in window : Wanted(file[w.chunk].topic)
  PROVE  /\ footer' => \A w \in window' : Wanted(file[w.chunk].topic)'
         /\ position' \in Times
<1>1. /\ file' = file /\ footer' = footer /\ \A t : Wanted(t)' = Wanted(t)
  BY PlacesStay DEF Wanted
<1>2. Chosen \in window /\ Chosen \in WindowEntry /\ position' \in Times
  BY ChosenIs, RowIs DEF IInv, TypeOK, Advance
<1>3. ASSUME NEW w \in window' PROVE \E v \in window : v.chunk = w.chunk
  <2>1. CASE w \in window
    BY <2>1
  <2>2. CASE w = [Chosen EXCEPT !.next = @ + 1]
    BY <1>2, <2>2 DEF WindowEntry
  <2> QED
    BY <1>3, <2>1, <2>2 DEF Advance
<1> QED
  BY <1>1, <1>2, <1>3

\* A row passed without being returned was unwanted, or not ahead.
LEMMA PassedStands ==
  ASSUME IInv, PlaybackInv, window # {}, Advance,
         UNCHANGED <<recording, at, cursor, filter, reverse, pc, resuming, mark, missed>>,
         mark = Promise!Lost \/ ~Wanted(file[Chosen.chunk].topic)
         \/ ~IsAhead(Chosen.chunk, ChosenAt),
         pc \in {"idle", "read"} => ~footer
  PROVE  PlaybackInv'
<1>1. /\ footer' => \A w \in window' : Wanted(file[w.chunk].topic)'
      /\ position' \in Times /\ position' # MinTime
  BY AdvanceWanted, TimeIs DEF PlaybackInv
<1>2. \A c \in Held : \A i \in RowsOf(c) :
         ToCome(c, i)' <=> ToCome(c, i) /\ ~(c = Chosen.chunk /\ i = ChosenAt)
  BY AdvanceToCome
<1>3. /\ Held' = Held /\ \A c : RowsOf(c)' = RowsOf(c)
      /\ \A c, i : MessageAt(c, i)' = MessageAt(c, i)
      /\ \A c, i : IsAhead(c, i)' = IsAhead(c, i)
      /\ file' = file /\ footer' = footer /\ \A t : Wanted(t)' = Wanted(t)
  BY PlacesStay, AheadStays DEF Wanted
<1>4. (NoneMissed => NoneMissed') /\ (OnlyAhead => OnlyAhead')
  BY <1>2, FewerToCome
<1>5. ~Fresh'
  BY <1>1 DEF Fresh
<1>6. mark # Promise!Lost /\ AllToCome => AllToCome'
  BY <1>2, <1>3, <1>5 DEF AllToCome
<1>7. Standing => Standing'
  BY <1>3, <1>4 DEF Standing, StandsAt
<1> QED
  BY <1>1, <1>4, <1>6, <1>7 DEF PlaybackInv, MarkType

\* ReadSkip passes what the filter excludes.
LEMMA ReadSkipStands ==
  ASSUME IInv, PlaybackInv, ReadSkip
  PROVE  PlaybackInv'
<1>1. ~footer
  BY ChosenIs DEF ReadSkip, PlaybackInv
<1> QED
  BY <1>1, PassedStands DEF ReadSkip

\* Wind passes what is not ahead.
LEMMA WindStands ==
  ASSUME IInv, PlaybackInv, Wind
  PROVE  PlaybackInv'
<1>1. /\ window # {} /\ Advance /\ pc \in {"seek", "resume"} /\ ~Reached(Row(Chosen))
      /\ UNCHANGED <<recording, at, cursor, filter, reverse, pc, resuming, mark, missed>>
  BY DEF Wind
<1>2. /\ Chosen.chunk \in Held /\ ChosenAt \in RowsOf(Chosen.chunk)
      /\ Row(Chosen) = file[Chosen.chunk].rows[ChosenAt]
  BY <1>1, AdvanceToCome
<1>3. mark # Promise!Lost => ~IsAhead(Chosen.chunk, ChosenAt)
  BY <1>1, <1>2, ReachedIs DEF PlaybackInv, Standing, IInv
<1> QED
  BY <1>1, <1>3, PassedStands

\* WindDone has only what is ahead left to come.
LEMMA WindDoneStands ==
  ASSUME InOrder, IInv, PlaybackInv, WindDone
  PROVE  PlaybackInv'
<1>1. /\ UNCHANGED <<recording, at, window, filter, reverse, mark, missed>>
      /\ pc \in {"seek", "resume"} /\ pc' = "idle" /\ Filled
      /\ position' = resuming.position /\ cursor' = resuming.cursor
      /\ window # {} => Reached(Row(Chosen))
  BY DEF WindDone
<1>2. /\ Held' = Held /\ \A c : RowsOf(c)' = RowsOf(c)
      /\ \A c, i : MessageAt(c, i)' = MessageAt(c, i)
      /\ \A c, i : IsAhead(c, i)' = IsAhead(c, i) /\ ToCome(c, i)' = ToCome(c, i)
      /\ file' = file /\ footer' = footer /\ \A t : Wanted(t)' = Wanted(t)
  BY <1>1, PlacesStay, AheadStays, ToComeStays DEF Wanted
<1>3. (NoneMissed => NoneMissed') /\ (OnlyAhead => OnlyAhead')
  BY <1>1, <1>2, FewerToCome
<1>4. ASSUME mark # Promise!Lost PROVE AllToCome' /\ Standing'
  <2>1. StandsAt(resuming.position, resuming.cursor) /\ MarkType /\ AllToCome
    BY <1>1, <1>4 DEF PlaybackInv, Standing
  <2>2. resuming.position # MinTime
    BY <2>1, StandsElsewhere DEF IInv, TypeOK
  <2>3. AllToCome'
    BY <1>1, <1>2, <2>1, <2>2 DEF AllToCome, Fresh
  <2>4. OnlyAhead
    <3> SUFFICES ASSUME NEW c \in Held, NEW i \in RowsOf(c), ToCome(c, i)
                 PROVE  IsAhead(c, i)
      BY DEF OnlyAhead
    <3>1. window # {}
      BY <1>1, NothingLeft
    <3>2. /\ Chosen.chunk \in Held /\ ChosenAt \in RowsOf(Chosen.chunk)
          /\ Row(Chosen) = file[Chosen.chunk].rows[ChosenAt]
      BY <3>1, ChosenIs, HeadIs DEF ChosenAt
    <3>3. IsAhead(Chosen.chunk, ChosenAt)
      BY <1>1, <2>1, <3>1, <3>2, ReachedIs DEF IInv
    <3>4. CASE ~(c = Chosen.chunk /\ i = ChosenAt)
      <4>1. Precedes(Row(Chosen), file[c].rows[i])
        BY <1>1, <3>1, <3>4, ChosenFirst
      <4> QED
        BY <2>1, <3>2, <3>3, <4>1, AheadGoesOn DEF IInv
    <3> QED
      BY <3>3, <3>4
  <2>5. StandsAt(position, cursor)'
    BY <1>1, <2>1 DEF StandsAt
  <2> QED
    BY <1>1, <1>3, <2>3, <2>4, <2>5 DEF Standing
<1> QED
  BY <1>1, <1>2, <1>3, <1>4 DEF PlaybackInv, MarkType

\* ReadTake leaves what comes after its row.
LEMMA ReadTakeStands ==
  ASSUME InOrder, IInv, PlaybackInv, ReadTake
  PROVE  PlaybackInv'
<1> DEFINE row == Row(Chosen)
<1>1. /\ UNCHANGED <<recording, at, filter, reverse, missed>> /\ pc' = "idle"
      /\ window # {} /\ Filled /\ Advance /\ pc = "read" /\ position' = row.recv
      /\ cursor' = [kind |-> "key", recv |-> row.recv, sequence |-> row.sequence]
      /\ mark' = Promise!Past(row)
  BY DEF ReadTake, Advance
<1>2. /\ Chosen.chunk \in Held /\ ChosenAt \in RowsOf(Chosen.chunk)
      /\ ToCome(Chosen.chunk, ChosenAt)
      /\ row = file[Chosen.chunk].rows[ChosenAt]
      /\ \A c \in Held : \A i \in RowsOf(c) :
            ToCome(c, i)' <=> ToCome(c, i) /\ ~(c = Chosen.chunk /\ i = ChosenAt)
  BY <1>1, AdvanceToCome
<1>3. row.recv \in Times /\ row.recv \in Int /\ row.sequence \in Nat
  BY <1>2, PlaceIs DEF IInv
<1>4. /\ Held' = Held /\ \A c : RowsOf(c)' = RowsOf(c)
      /\ \A c, i : MessageAt(c, i)' = MessageAt(c, i)
      /\ file' = file /\ footer' = footer /\ \A t : Wanted(t)' = Wanted(t)
  BY <1>1, PlacesStay DEF Wanted
<1>5. NoneMissed'
  BY <1>1, <1>2, <1>4 DEF PlaybackInv, NoneMissed
<1>6. footer' => \A w \in window' : Wanted(file[w.chunk].topic)'
  BY <1>1, AdvanceWanted DEF PlaybackInv
<1>7. CASE mark = Promise!Lost
  <2>1. mark' = Promise!Lost
    BY <1>1, <1>7 DEF Promise!Past
  <2> QED
    BY <1>5, <1>6, <2>1 DEF PlaybackInv, MarkType
<1>8. CASE mark # Promise!Lost
  <2>1. mark' = [kind |-> "after", recv |-> row.recv, sequence |-> row.sequence]
    BY <1>1, <1>8 DEF Promise!Past, Promise!After
  <2> HIDE DEF row
  <2>2. ASSUME NEW c \in Held, NEW i \in RowsOf(c)
        PROVE  IsAhead(c, i)' <=> Precedes(row, file[c].rows[i])
    <3> DEFINE m == MessageAt(c, i)
    <3>1. m' = m /\ m.recv = file[c].rows[i].recv /\ m.sequence = file[c].rows[i].sequence
      BY <1>4, PlaceIs DEF IInv
    <3>2. mark'.kind = "after" /\ mark'.recv = row.recv /\ mark'.sequence = row.sequence
      BY <2>1
    <3> HIDE DEF m
    <3>3. Promise!Ahead(m)' <=> Precedes(row, file[c].rows[i])
      BY <1>1, <3>1, <3>2 DEF Promise!Ahead, Promise!Precedes, Promise!Before, Precedes, Before
    <3> QED
      BY <3>3 DEF IsAhead, m
  <2>3. MarkType /\ AllToCome /\ OnlyAhead
    BY <1>1, <1>8 DEF PlaybackInv, Standing
  <2>4. MarkType'
    BY <1>3, <2>1 DEF MarkType
  <2>5. ~Fresh'
    BY <1>1 DEF Fresh, NoKey
  <2>6. AllToCome'
    <3> SUFFICES ASSUME NEW c \in Held, NEW i \in RowsOf(c), IsAhead(c, i)',
                        MessageAt(c, i) \notin missed, Wanted(file[c].topic)
                 PROVE  ToCome(c, i)'
      BY <1>1, <1>4, <2>5 DEF AllToCome
    <3>1. Precedes(row, file[c].rows[i])
      BY <2>2
    <3>2. IsAhead(Chosen.chunk, ChosenAt)
      BY <1>2, <2>3 DEF OnlyAhead
    <3>3. IsAhead(c, i)
      BY <1>2, <2>3, <3>1, <3>2, AheadGoesOn DEF IInv
    <3>4. ToCome(c, i)
      BY <2>3, <3>3 DEF AllToCome
    <3>5. ~(c = Chosen.chunk /\ i = ChosenAt)
      <4> SUFFICES ASSUME c = Chosen.chunk, i = ChosenAt PROVE FALSE
        OBVIOUS
      <4>1. Precedes(row, row)
        BY <1>2, <3>1
      <4> QED
        BY <1>3, <4>1, PrecedesOn
    <3> QED
      BY <1>2, <3>4, <3>5
  <2>7. OnlyAhead'
    <3> SUFFICES ASSUME NEW c \in Held, NEW i \in RowsOf(c), ToCome(c, i)'
                 PROVE  IsAhead(c, i)'
      BY <1>4 DEF OnlyAhead
    <3>1. Precedes(row, file[c].rows[i])
      BY <1>1, <1>2, ChosenFirst DEF row
    <3> QED
      BY <2>2, <3>1
  <2>8. StandsAt(position, cursor)'
    <3>1. /\ cursor' # NoKey /\ cursor'.recv = row.recv /\ cursor'.sequence = row.sequence
          /\ position' = row.recv
      BY <1>1 DEF NoKey, row
    <3> QED
      BY <2>1, <3>1 DEF StandsAt
  <2>9. Standing'
    BY <1>1, <2>7, <2>8 DEF Standing
  <2> QED
    BY <1>5, <1>6, <2>4, <2>6, <2>9 DEF PlaybackInv
<1> QED
  BY <1>7, <1>8

\* What does not move playback keeps where it stands.
LEMMA QuietStands ==
  ASSUME PlaybackInv,
         UNCHANGED <<recording, at, window, position, cursor, filter, reverse, mark, missed>>,
         UNCHANGED <<pc, resuming>> \/ {pc, pc'} \subseteq {"idle", "read"}
  PROVE  PlaybackInv'
<1>1. \A c, i : ToCome(c, i)' = ToCome(c, i) /\ IsAhead(c, i)' = IsAhead(c, i)
  BY ToComeStays, AheadStays
<1>2. /\ Held' = Held /\ \A c : RowsOf(c)' = RowsOf(c)
      /\ \A c, i : MessageAt(c, i)' = MessageAt(c, i)
      /\ file' = file /\ footer' = footer /\ \A t : Wanted(t)' = Wanted(t)
  BY PlacesStay DEF Wanted
<1>3. (NoneMissed => NoneMissed') /\ (OnlyAhead => OnlyAhead')
  BY <1>1, FewerToCome
<1>4. AllToCome => AllToCome'
  BY <1>1, <1>2 DEF AllToCome, Fresh
<1>5. Standing => Standing'
  BY <1>2, <1>3 DEF Standing, Fresh, StandsAt
<1> QED
  BY <1>2, <1>3, <1>4, <1>5 DEF PlaybackInv, MarkType

\* Every step keeps where playback stands.
LEMMA PlaybackKeeps ==
  ASSUME InOrder, ~ScanMidway, IInv, PlaybackInv, [Next]_vars
  PROVE  PlaybackInv'
<1>1. CASE CallRead
  BY <1>1, QuietStands DEF CallRead
<1>2. ASSUME NEW time \in Times, CallSeek(time) PROVE PlaybackInv'
  BY <1>2, CallSeekStands
<1>3. ASSUME NEW topics \in Filters, CallSetFilter(topics) PROVE PlaybackInv'
  BY <1>3, CallSetFilterStands
<1>4. CASE CallSetReverse
  BY <1>4, CallSetReverseStands
<1>5. CASE RestartFails
  BY <1>5, RestartFailsStands
<1>6. CASE Pull
  BY <1>6, PullStands
<1>7. CASE PullFails
  BY <1>7, PullFailsStands
<1>8. CASE ReadSkip
  BY <1>8, ReadSkipStands
<1>9. CASE ReadTake
  BY <1>9, ReadTakeStands
<1>10. CASE ReadEnd
  BY <1>10, QuietStands DEF ReadEnd
<1>11. CASE Wind
  BY <1>11, WindStands
<1>12. CASE WindDone
  BY <1>12, WindDoneStands
<1>13. CASE UNCHANGED vars
  BY <1>13, QuietStands DEF vars
<1> QED
  BY <1>1, <1>2, <1>3, <1>4, <1>5, <1>6, <1>7, <1>8, <1>9, <1>10, <1>11, <1>12, <1>13
     DEF Next, Call, Step

-----------------------------------------------------------------------------
(* Every step is one of Playback's, or none. *)

\* The messages, and what is due of them, are at places.
LEMMA DueIs ==
  ASSUME TypeOK, NEW c \in Held, NEW i \in RowsOf(c)
  PROVE  MessageAt(c, i) \in Promise!Due <=>
            /\ IsAhead(c, i) /\ Wanted(file[c].topic)
            /\ MessageAt(c, i) \notin missed
<1>1. MessageAt(c, i) \in Messages /\ MessageAt(c, i).topic = file[c].topic
  BY PlaceIs
<1>2. Promise!Wanted(MessageAt(c, i)) <=> Wanted(file[c].topic)
  BY <1>1 DEF Promise!Wanted, Wanted
<1> QED
  BY <1>1, <1>2 DEF Promise!Due, IsAhead

\* ReadTake returns the first message due.
LEMMA ReadTakeReads ==
  ASSUME InOrder, IInv, PlaybackInv, ReadTake
  PROVE  Promise!Read
<1>1. PICK m : m = MessageAt(Chosen.chunk, ChosenAt)
  OBVIOUS
<1>2. /\ UNCHANGED <<recording, at, filter, reverse, missed>>
      /\ window # {} /\ Filled /\ Advance /\ pc = "read"
      /\ Wanted(file[Chosen.chunk].topic)
      /\ mark' = Promise!Past(Row(Chosen))
      /\ out' = Promise!Answer({[topic |-> file[Chosen.chunk].topic,
                                 recv |-> Row(Chosen).recv,
                                 sequence |-> Row(Chosen).sequence]})
  BY DEF ReadTake
<1>3. /\ Chosen.chunk \in Held /\ ChosenAt \in RowsOf(Chosen.chunk)
      /\ ToCome(Chosen.chunk, ChosenAt)
      /\ Row(Chosen) = file[Chosen.chunk].rows[ChosenAt]
  BY <1>2, AdvanceToCome
<1>4. /\ m = [topic |-> file[Chosen.chunk].topic, recv |-> Row(Chosen).recv,
              sequence |-> Row(Chosen).sequence]
      /\ m.recv = Row(Chosen).recv /\ m.sequence = Row(Chosen).sequence
  BY <1>1, <1>3 DEF MessageAt
<1>5. out' = Promise!Answer({m})
  BY <1>2, <1>4
<1>6. mark' = Promise!Past(m)
  BY <1>2, <1>4 DEF Promise!Past, Promise!After
<1>7. IsAhead(Chosen.chunk, ChosenAt)
  <2>1. CASE mark = Promise!Lost
    <3>1. mark.kind = "lost"
      BY <2>1 DEF Promise!Lost
    <3> QED
      BY <3>1 DEF IsAhead, Promise!Ahead
  <2>2. CASE mark # Promise!Lost
    BY <1>2, <1>3, <2>2 DEF PlaybackInv, Standing, OnlyAhead
  <2> QED
    BY <2>1, <2>2
<1>8. m \in Promise!Due
  BY <1>1, <1>2, <1>3, <1>7, DueIs DEF PlaybackInv, NoneMissed, IInv
<1>9. ASSUME mark # Promise!Lost, NEW n \in Promise!Due, n # m
      PROVE  Promise!Precedes(m, n)
  <2>1. n \in Messages
    BY DEF Promise!Due
  <2>2. PICK c \in Held : \E i \in RowsOf(c) : n = MessageAt(c, i)
    BY <2>1, PlaceOf
  <2>3. PICK i \in RowsOf(c) : n = MessageAt(c, i)
    BY <2>2
  <2>4. IsAhead(c, i) /\ Wanted(file[c].topic) /\ MessageAt(c, i) \notin missed
    BY <2>3, DueIs DEF IInv
  <2>5. ToCome(c, i)
    BY <1>9, <2>4 DEF PlaybackInv, AllToCome
  <2>6. ~(c = Chosen.chunk /\ i = ChosenAt)
    BY <1>1, <1>9, <2>3
  <2>7. Precedes(Row(Chosen), file[c].rows[i])
    BY <1>2, <2>5, <2>6, ChosenFirst
  <2>8. n.recv = file[c].rows[i].recv /\ n.sequence = file[c].rows[i].sequence
    BY <2>3, PlaceIs DEF IInv
  <2> QED
    BY <1>4, <2>7, <2>8 DEF Promise!Precedes, Promise!Before, Precedes, Before
<1>10. Promise!IsNext(m)
  BY <1>8, <1>9 DEF Promise!IsNext
<1>11. Messages' = Messages
  BY <1>2, RecordingKeeps
<1> QED
  BY <1>2, <1>5, <1>6, <1>8, <1>10, <1>11 DEF Promise!Read

\* ReadEnd finds that nothing is due.
LEMMA ReadEndReads ==
  ASSUME IInv, PlaybackInv, ReadEnd
  PROVE  Promise!Read
<1>1. /\ UNCHANGED <<recording, mark, filter, reverse, missed>>
      /\ window = {} /\ Filled /\ out' = Promise!Answer({})
  BY DEF ReadEnd
<1>2. mark = Promise!Lost \/ Promise!Due = {}
  <2> SUFFICES ASSUME mark # Promise!Lost, NEW n \in Promise!Due PROVE FALSE
    OBVIOUS
  <2>1. n \in Messages
    BY DEF Promise!Due
  <2>2. PICK c \in Held : \E i \in RowsOf(c) : n = MessageAt(c, i)
    BY <2>1, PlaceOf
  <2>3. PICK i \in RowsOf(c) : n = MessageAt(c, i)
    BY <2>2
  <2>4. IsAhead(c, i) /\ Wanted(file[c].topic) /\ MessageAt(c, i) \notin missed
    BY <2>3, DueIs DEF IInv
  <2>5. ToCome(c, i)
    BY <2>4 DEF PlaybackInv, AllToCome
  <2> QED
    BY <1>1, <2>5, NothingLeft
<1> QED
  BY <1>1, <1>2, RecordingKeeps DEF Promise!Read

\* PullFails is a read that fails, or another call that does.
LEMMA PullFailsFails ==
  ASSUME IInv, PlaybackInv, PullFails
  PROVE  Promise!ReadFails \/ Promise!CallFails
<1>1. UNCHANGED <<recording, filter, reverse>> /\ out' = Promise!NoAnswer
  BY DEF PullFails
<1>2. Messages' = Messages
  BY <1>1, RecordingKeeps
<1>3. CASE pc = "read"
  <2>1. mark' = mark /\ missed' = missed \union MessagesOf(Pulled.chunk)
    BY <1>3 DEF PullFails
  <2>2. MessagesOf(Pulled.chunk) \subseteq Messages
    BY PullFailsIs, ChunkMessages DEF Held
  <2>3. missed' # missed
    <3>1. MessageAt(Pulled.chunk, 1) \in MessagesOf(Pulled.chunk)
      BY PullFailsIs, MessagesAre DEF IInv
    <3>2. MessageAt(Pulled.chunk, 1) \notin missed
      BY PullFailsIs DEF PlaybackInv, NoneMissed
    <3> QED
      BY <2>1, <3>1, <3>2
  <2> QED
    BY <1>1, <1>2, <2>1, <2>2, <2>3 DEF Promise!ReadFails
<1>4. CASE pc # "read"
  <2>1. mark' = Promise!Lost /\ missed' = {}
    BY <1>4 DEF PullFails
  <2>2. filter \in SUBSET Topics /\ reverse \in BOOLEAN
    BY DEF IInv, TypeOK
  <2> QED
    BY <1>1, <1>2, <2>1, <2>2 DEF Promise!CallFails
<1> QED
  BY <1>3, <1>4

\* A step that returns nothing and moves nothing goes unseen.
LEMMA UnseenIs ==
  ASSUME IInv, UNCHANGED <<recording, mark, filter, reverse, missed, out>>
  PROVE  UNCHANGED Promise!vars
BY RecordingKeeps DEF Promise!vars

\* Each step, seen from Playback.
LEMMA StepReads ==
  ASSUME InOrder, IInv, PlaybackInv, [Next]_vars
  PROVE  [Promise!Next]_(Promise!vars)
<1>1. CASE CallRead
  BY <1>1, UnseenIs DEF CallRead
<1>2. ASSUME NEW time \in Times, CallSeek(time) PROVE Promise!Seek
  BY <1>2, RecordingKeeps DEF CallSeek, Promise!Seek
<1>3. ASSUME NEW topics \in Filters, CallSetFilter(topics) PROVE Promise!SetFilter
  <2>1. UNCHANGED <<recording, reverse, mark>> /\ out' = Promise!NoAnswer
        /\ filter' = topics /\ missed' \subseteq missed
    BY <1>3 DEF CallSetFilter
  <2> QED
    BY <2>1, RecordingKeeps, FiltersAssumption DEF Promise!SetFilter
<1>4. CASE CallSetReverse
  BY <1>4, RecordingKeeps DEF CallSetReverse, Promise!SetReverse, Promise!Next
<1>5. CASE RestartFails
  <2>1. filter \in SUBSET Topics
    BY DEF IInv, TypeOK
  <2> QED
    BY <1>5, <2>1, RecordingKeeps DEF RestartFails, Promise!CallFails, Promise!Next
<1>6. CASE Pull
  BY <1>6, UnseenIs DEF Pull
<1>7. CASE PullFails
  BY <1>7, PullFailsFails DEF Promise!Next
<1>8. CASE ReadSkip
  BY <1>8, UnseenIs DEF ReadSkip
<1>9. CASE ReadTake
  BY <1>9, ReadTakeReads DEF Promise!Next
<1>10. CASE ReadEnd
  BY <1>10, ReadEndReads DEF Promise!Next
<1>11. CASE Wind
  BY <1>11, UnseenIs DEF Wind
<1>12. CASE WindDone
  BY <1>12, UnseenIs DEF WindDone
<1>13. CASE UNCHANGED vars
  BY <1>13, UnseenIs DEF vars
<1> QED
  BY <1>1, <1>2, <1>3, <1>4, <1>5, <1>6, <1>7, <1>8, <1>9, <1>10, <1>11, <1>12, <1>13
     DEF Next, Call, Step, Promise!Next

\* Reader implements Playback (reader.rs:93-97, 408-434, 481): over every file
\* whose chunks hold their rows in order, and unless set_filter is called once a
\* scan has started, reads return each message once, in the order of receive
\* time and write order or in its mirror, from where the last seek, filter
\* change or read left playback, and give up only what failed to load.
THEOREM ReaderImplements ==
  ASSUME InOrder, ~ScanMidway
  PROVE  Spec => Implements
<1>1. Init => Promise!Init
  BY DEF Init, Promise!Init
<1>2. Init => PlaybackInv
  BY InitStands
<1>3. IInv /\ PlaybackInv /\ [Next]_vars => PlaybackInv'
  BY PlaybackKeeps
<1>4. IInv /\ PlaybackInv /\ [Next]_vars => [Promise!Next]_(Promise!vars)
  BY StepReads
<1> QED
  BY <1>1, <1>2, <1>3, <1>4, IInvAlways, PTL DEF Spec, Implements, Promise!Spec

-----------------------------------------------------------------------------
(* Turns.  A turn that does not end its call hands out a chunk and brings no  *)
(* row back, or passes one row and leaves the chunks alone.                   *)

\* The values of a function on a finite set are finitely many.
LEMMA ImageIsFinite ==
  ASSUME NEW S, IsFiniteSet(S), NEW f
  PROVE  IsFiniteSet({f[x] : x \in S})
<1> DEFINE T == {f[x] : x \in S}
           g == [x \in S |-> f[x]]
<1>1. g \in Surjection(S, T)
  <2>1. g \in [S -> T]
    OBVIOUS
  <2>2. \A t \in T : \E x \in S : g[x] = t
    OBVIOUS
  <2> QED
    BY <2>1, <2>2 DEF Surjection
<1> HIDE DEF T, g
<1>2. IsFiniteSet(T)
  BY <1>1, FS_Surjection
<1> QED
  BY <1>2 DEF T

\* There are finitely many chunks and rows, so the turns left are a number.
LEMMA RowsAreFinite ==
  ASSUME IInv
  PROVE  IsFiniteSet(RowsToCome) /\ Limit - at \in Nat
<1>1. file \in Seq(FileChunk) /\ Len(file) \in Nat
  BY FileType DEF IInv
<1>2. IsFiniteSet(Held)
  <2>1. IsFiniteSet(1 .. Len(file))
    BY <1>1, FS_Interval
  <2>2. Held \subseteq 1 .. Len(file)
    BY <1>1 DEF Held
  <2> QED
    BY <2>1, <2>2, FS_Subset
<1> DEFINE left == [c \in Held |-> {<<c, i>> : i \in {j \in RowsOf(c) : ToCome(c, j)}}]
<1>3. ASSUME NEW c \in Held PROVE IsFiniteSet(left[c])
  <2> DEFINE n == Len(file[c].rows)
             row == [i \in 1 .. n |-> <<c, i>>]
             all == {row[i] : i \in 1 .. n}
  <2>1. RowsOf(c) = 1 .. n /\ n \in Nat
    <3>1. file[c].rows \in Seq(MessageRow)
      BY FileType DEF IInv, Held
    <3> QED
      BY <3>1 DEF RowsOf
  <2>2. left[c] \subseteq all
    BY <2>1
  <2>3. IsFiniteSet(1 .. n)
    BY <2>1, FS_Interval
  <2> HIDE DEF n, row, left
  <2>4. IsFiniteSet(all)
    BY <2>3, ImageIsFinite
  <2> QED
    BY <2>2, <2>4, FS_Subset
<1>4. RowsToCome = UNION {left[c] : c \in Held}
  BY DEF RowsToCome
<1> HIDE DEF left
<1>5. IsFiniteSet({left[c] : c \in Held})
  BY <1>2, ImageIsFinite
<1>6. IsFiniteSet(RowsToCome)
  BY <1>3, <1>4, <1>5, FS_UNION
<1>7. at \in Nat /\ Limit \in Nat /\ at <= Limit
  BY <1>1 DEF IInv, TypeOK, Limit
<1> QED
  BY <1>6, <1>7

\* What is in RowsToCome.
LEMMA RowsToComeAre ==
  /\ \A p \in RowsToCome : \E c \in Held : \E i \in RowsOf(c) : p = <<c, i>> /\ ToCome(c, i)
  /\ \A c \in Held : \A i \in RowsOf(c) : ToCome(c, i) <=> <<c, i>> \in RowsToCome
<1>1. ASSUME NEW p \in RowsToCome
      PROVE  \E c \in Held : \E i \in RowsOf(c) : p = <<c, i>> /\ ToCome(c, i)
  BY DEF RowsToCome
<1>2. ASSUME NEW c \in Held, NEW i \in RowsOf(c)
      PROVE  ToCome(c, i) <=> <<c, i>> \in RowsToCome
  BY DEF RowsToCome
<1> QED
  BY <1>1, <1>2

\* The same of the rows to come after a step, which is in the same file.
LEMMA RowsToComeNext ==
  ASSUME UNCHANGED recording
  PROVE  \A p \in RowsToCome' : \E c \in Held : \E i \in RowsOf(c) : p = <<c, i>> /\ ToCome(c, i)'
<1>1. Held' = Held /\ \A c : RowsOf(c)' = RowsOf(c)
  BY PlacesStay
<1>2. RowsToCome' = UNION {{<<c, i>> : i \in {j \in RowsOf(c) : ToCome(c, j)'}} : c \in Held}
  BY <1>1 DEF RowsToCome
<1> QED
  BY <1>2

\* A turn of fill hands out a chunk.
LEMMA PullConsumes ==
  ASSUME IInv, IInv', Pull
  PROVE  TurnsLeft' < TurnsLeft
<1>1. UNCHANGED recording
  BY DEF Pull
<1>2. RowsToCome' \subseteq RowsToCome
  <2> SUFFICES ASSUME NEW p \in RowsToCome' PROVE p \in RowsToCome
    OBVIOUS
  <2>1. PICK c \in Held : \E i \in RowsOf(c) : p = <<c, i>> /\ ToCome(c, i)'
    BY <1>1, RowsToComeNext
  <2>2. PICK i \in RowsOf(c) : p = <<c, i>> /\ ToCome(c, i)'
    BY <2>1
  <2>3. ToCome(c, i)
    BY <2>2, PullToCome
  <2> QED
    BY <2>2, <2>3, RowsToComeAre
<1>3. at < at' /\ at' <= Limit /\ Limit' = Limit
  <2>1. at \in Nat /\ Limit \in Nat /\ at <= Limit
    BY FileType DEF IInv, TypeOK, Limit
  <2>2. at' = Pulled.at /\ at' \in at .. Limit
    BY PulledIs DEF Pull, PassPulled
  <2>3. Limit' = Limit
    BY <1>1, PlacesStay DEF Limit
  <2>4. at < Limit
    BY <2>1 DEF Pull, Filled, Drained
  <2>5. CASE Pulled.chunk = NoChunk
    <3>1. Pulled.at = Limit
      BY <2>5, PulledIs
    <3> QED
      BY <2>2, <2>3, <2>4, <3>1
  <2>6. CASE Pulled.chunk # NoChunk
    <3>1. at < Pulled.at
      BY <2>6, PulledIs
    <3> QED
      BY <2>1, <2>2, <2>3, <3>1
  <2> QED
    BY <2>5, <2>6
<1>4. IsFiniteSet(RowsToCome) /\ Limit - at \in Nat
  BY RowsAreFinite
<1>5. IsFiniteSet(RowsToCome') /\ Cardinality(RowsToCome') <= Cardinality(RowsToCome)
  BY <1>2, <1>4, FS_Subset
<1>6. Cardinality(RowsToCome) \in Nat /\ Cardinality(RowsToCome') \in Nat
  BY <1>4, <1>5, FS_CardinalityType
<1>7. at \in Nat /\ at' \in Nat /\ Limit \in Nat
  BY FileType DEF IInv, TypeOK, Limit
<1> QED
  BY <1>3, <1>5, <1>6, <1>7 DEF TurnsLeft

\* Passing a row takes that row off those to come.
LEMMA AdvanceConsumes ==
  ASSUME IInv, window # {}, Advance, UNCHANGED <<recording, at, reverse>>
  PROVE  TurnsLeft' < TurnsLeft
<1>1. PICK gone : gone = <<Chosen.chunk, ChosenAt>>
  OBVIOUS
<1>2. gone \in RowsToCome
  BY <1>1, AdvanceToCome, RowsToComeAre
<1>3. RowsToCome' \subseteq RowsToCome \ {gone}
  <2> SUFFICES ASSUME NEW p \in RowsToCome' PROVE p \in RowsToCome /\ p # gone
    OBVIOUS
  <2>1. PICK c \in Held : \E i \in RowsOf(c) : p = <<c, i>> /\ ToCome(c, i)'
    BY RowsToComeNext
  <2>2. PICK i \in RowsOf(c) : p = <<c, i>> /\ ToCome(c, i)'
    BY <2>1
  <2>3. ToCome(c, i) /\ ~(c = Chosen.chunk /\ i = ChosenAt)
    BY <2>2, AdvanceToCome
  <2>4. p \in RowsToCome
    BY <2>2, <2>3, RowsToComeAre
  <2> QED
    BY <1>1, <2>2, <2>3, <2>4
<1>4. IsFiniteSet(RowsToCome) /\ Limit - at \in Nat
  BY RowsAreFinite
<1>5. Cardinality(RowsToCome \ {gone}) = Cardinality(RowsToCome) - 1
  BY <1>2, <1>4, FS_RemoveElement
<1>6. IsFiniteSet(RowsToCome \ {gone})
  BY <1>4, FS_RemoveElement
<1>7. IsFiniteSet(RowsToCome') /\ Cardinality(RowsToCome') <= Cardinality(RowsToCome \ {gone})
  BY <1>3, <1>6, FS_Subset
<1>8. Cardinality(RowsToCome) \in Nat /\ Cardinality(RowsToCome') \in Nat
  BY <1>4, <1>7, FS_CardinalityType
<1>9. at' = at /\ Limit' = Limit
  BY PlacesStay DEF Limit
<1> QED
  BY <1>4, <1>5, <1>7, <1>8, <1>9 DEF TurnsLeft

\* Whatever the file, the filter and the failures, a call is over after no more
\* turns than there are chunks and rows left: what CallReturns rests on, with the
\* fairness of a thread that goes on.
THEOREM TurnsConsumeAlways == Spec => TurnsConsume
<1>1. ASSUME IInv, IInv', Step, pc' # "idle" PROVE TurnsLeft' < TurnsLeft
  <2>1. CASE Pull
    BY <1>1, <2>1, PullConsumes
  <2>2. CASE ReadSkip \/ Wind
    <3>1. window # {} /\ Advance /\ UNCHANGED <<recording, at, reverse>>
      BY <2>2 DEF ReadSkip, Wind
    <3> QED
      BY <1>1, <3>1, AdvanceConsumes
  <2>3. ~PullFails /\ ~ReadTake /\ ~ReadEnd /\ ~WindDone
    BY <1>1 DEF PullFails, ReadTake, ReadEnd, WindDone
  <2> QED
    BY <1>1, <2>1, <2>2, <2>3 DEF Step
<1>2. IInv /\ IInv' /\ [Next]_vars => [Step /\ pc' # "idle" => TurnsLeft' < TurnsLeft]_vars
  BY <1>1
<1> QED
  BY <1>2, IInvAlways, PTL DEF Spec, TurnsConsume

=============================================================================
