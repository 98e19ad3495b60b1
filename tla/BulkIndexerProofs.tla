-------------------------- MODULE BulkIndexerProofs --------------------------
(***************************************************************************)
(* Theorems about BulkIndexer, for every set of documents, every size and  *)
(* every limit the constructor can set.                                    *)
(*                                                                         *)
(* TriggerFlush is called by five of the actions, with the fields as the   *)
(* caller has left them.  So each part of the invariant is first stated of *)
(* the arguments of such a call, a lemma shows that TriggerFlush turns it  *)
(* into the part for the next state, and the actions only have to show     *)
(* that their call starts from arguments that satisfy it.                  *)
(***************************************************************************)
EXTENDS BulkIndexer, FiniteSetTheorems, TLAPS

-----------------------------------------------------------------------------
(* The parts of the invariant, of any values of the fields.                 *)

\* The types of the queue's fields.
Typed(buf, bytes, timer, reqs, flights, pending) ==
    /\ buf \in Seq(Documents)
    /\ bytes \in Nat
    /\ timer \in BOOLEAN
    /\ reqs \in SUBSET Batches
    /\ flights \in 0..MaxParallelFlushes
    /\ pending \in BOOLEAN

\* The counter counts the requests.
Counted(reqs, flights) == IsFiniteSet(reqs) /\ Cardinality(reqs) = flights

Contents(reqs) == UNION {Range(batch) : batch \in reqs}

\* Every document of acc is in one place: the buffer, one request, or done.
Placed(buf, reqs, acc, done) ==
    /\ acc = Range(buf) \cup Contents(reqs) \cup done
    /\ Range(buf) \cap Contents(reqs) = {}
    /\ (Range(buf) \cup Contents(reqs)) \cap done = {}
    /\ \A b1, b2 \in reqs : Range(b1) \cap Range(b2) # {} => b1 = b2
    /\ NoRepeats(buf)
    /\ \A batch \in reqs : NoRepeats(batch)

\* What a caller of TriggerFlush owes: the bytes are those of the buffer, and the
\* pending flag is set only for a buffer with documents and while every slot is
\* taken.
Callable(buf, bytes, flights, pending) ==
    /\ bytes = BytesOf(buf)
    /\ buf = <<>> => ~pending
    /\ pending => flights = MaxParallelFlushes

\* What holds between callbacks.
Settled(buf, bytes, timer, flights, pending) ==
    /\ bytes = BytesOf(buf)
    /\ buf # <<>> => timer \/ flights > 0
    /\ ShouldFlushBySize(buf, bytes) => pending
    /\ pending => buf # <<>> /\ flights = MaxParallelFlushes

-----------------------------------------------------------------------------
(* Facts about sequences.                                                   *)

\* What Append adds to a buffer.
LEMMA AppendFacts ==
    ASSUME NEW s \in Seq(Documents), NEW d \in Documents
    PROVE  /\ Append(s, d) \in Seq(Documents)
           /\ Len(Append(s, d)) = Len(s) + 1
           /\ Append(s, d) # <<>>
           /\ Range(Append(s, d)) = Range(s) \cup {d}
<1>1. Append(s, d) \in Seq(Documents)
  OBVIOUS
<1>2. Len(Append(s, d)) = Len(s) + 1
  OBVIOUS
<1>3. Append(s, d) # <<>>
  BY <1>2, Len(<<>>) = 0, Len(s) \in Nat
<1>4. Range(Append(s, d)) = Range(s) \cup {d}
  <2>1. DOMAIN Append(s, d) = 1..(Len(s) + 1)
    BY <1>1, <1>2
  <2>2. DOMAIN s = 1..Len(s) /\ Len(s) \in Nat
    OBVIOUS
  <2>3. \A i \in 1..Len(s) : Append(s, d)[i] = s[i]
    OBVIOUS
  <2>4. Append(s, d)[Len(s) + 1] = d
    OBVIOUS
  <2>5. Range(Append(s, d)) \subseteq Range(s) \cup {d}
    BY <2>1, <2>2, <2>3, <2>4 DEF Range
  <2>6. Range(s) \subseteq Range(Append(s, d))
    BY <2>1, <2>2, <2>3 DEF Range
  <2>7. d \in Range(Append(s, d))
    BY <2>1, <2>2, <2>4 DEF Range
  <2> QED BY <2>5, <2>6, <2>7
<1> QED BY <1>1, <1>2, <1>3, <1>4

\* A document that is new to a buffer without repeats does not make one.
LEMMA AppendNoRepeats ==
    ASSUME NEW s \in Seq(Documents), NEW d \in Documents,
           NoRepeats(s), d \notin Range(s)
    PROVE  NoRepeats(Append(s, d))
<1>1. DOMAIN Append(s, d) = 1..(Len(s) + 1) /\ DOMAIN s = 1..Len(s) /\ Len(s) \in Nat
  BY AppendFacts
<1>2. \A i \in 1..Len(s) : Append(s, d)[i] = s[i] /\ s[i] # d
  BY <1>1 DEF Range
<1>3. Append(s, d)[Len(s) + 1] = d
  OBVIOUS
<1>4. SUFFICES ASSUME NEW i \in 1..(Len(s) + 1), NEW j \in 1..(Len(s) + 1),
                      Append(s, d)[i] = Append(s, d)[j]
               PROVE  i = j
  BY <1>1 DEF NoRepeats
<1>5. CASE i \in 1..Len(s) /\ j \in 1..Len(s)
  BY <1>1, <1>2, <1>4, <1>5 DEF NoRepeats
<1>6. CASE i = Len(s) + 1 \/ j = Len(s) + 1
  BY <1>1, <1>2, <1>3, <1>4, <1>6
<1> QED BY <1>1, <1>5, <1>6

\* A batch has something in it.
LEMMA RangeOfBatch ==
    ASSUME NEW s \in Seq(Documents)
    PROVE  /\ Range(s) \subseteq Documents
           /\ s # <<>> => Range(s) # {}
           /\ s = <<>> => Range(s) = {}
<1>1. DOMAIN s = 1..Len(s) /\ Len(s) \in Nat /\ \A i \in 1..Len(s) : s[i] \in Documents
  OBVIOUS
<1>2. s # <<>> => Len(s) > 0
  BY <1>1
<1>3. s = <<>> => DOMAIN s = {}
  BY <1>1
<1>4. s # <<>> => 1 \in DOMAIN s
  BY <1>1, <1>2
<1> QED BY <1>1, <1>3, <1>4 DEF Range

-----------------------------------------------------------------------------
(* Facts about numbers: induction where the hypothesis is a set.            *)

LEMMA LeastNumber ==
    ASSUME NEW T \in SUBSET Nat, T # {}
    PROVE  \E m \in T : \A k \in T : m <= k
<1> DEFINE R == StrictSubsetOrdering(Nat)  S == FiniteSubsetsOf(Nat)
           U == {1..n : n \in T}
<1>1. IsWellFoundedOn(R, S)
    BY FS_StrictSubsetOrderingWellFounded
<1>2. U \subseteq S
    <2>1. \A n \in T : IsFiniteSet(1..n) /\ 1..n \subseteq Nat
        BY FS_Interval
    <2> QED BY <2>1 DEF FiniteSubsetsOf
<1>3. U # {}
    OBVIOUS
<1>4. PICK V \in U : \A W \in U : ~ (<<W, V>> \in R)
    <2> HIDE DEF R, S, U
    <2> QED BY <1>1, <1>2, <1>3, WFMin
<1>5. PICK m \in T : V = 1..m
    OBVIOUS
<1>6. ASSUME NEW k \in T, k < m
      PROVE  FALSE
    <2>1. 1..k \subseteq 1..m /\ m \in 1..m /\ m \notin 1..k
        BY <1>6
    <2>2. 1..k # 1..m /\ 1..k \in SUBSET Nat /\ 1..m \in SUBSET Nat
        BY <2>1
    <2>3. <<1..k, 1..m>> \in R
        BY <2>1, <2>2 DEF StrictSubsetOrdering
    <2> QED BY <1>4, <1>5, <2>3
<1> QED BY <1>6

LEMMA SetInduction ==
    ASSUME NEW S, 0 \in S, \A n \in Nat : n \in S => n + 1 \in S
    PROVE  Nat \subseteq S
<1> DEFINE T == Nat \ S
<1> SUFFICES ASSUME T # {} PROVE FALSE
    OBVIOUS
<1>1. PICK m \in T : \A k \in T : m <= k
    BY LeastNumber
<1>2. m # 0 /\ m - 1 \in Nat /\ m - 1 + 1 = m
    OBVIOUS
<1>3. m - 1 \in S
    BY <1>1, <1>2
<1> QED BY <1>2, <1>3

-----------------------------------------------------------------------------
(* The bytes of a buffer.                                                   *)

\* The equation of BytesOf for the first k documents of a list.
Sums(F, s, k) == F = [n \in 0..k |-> IF n = 0 THEN 0 ELSE F[n - 1] + Size[s[n]]]

LEMMA SumsExist ==
    ASSUME NEW s, NEW k \in Nat
    PROVE  \E F : Sums(F, s, k)
<1> DEFINE S == {m \in Nat : \E F : Sums(F, s, m)}
<1>1. 0 \in S
  <2> DEFINE F == [n \in 0..0 |-> 0]
  <2>1. Sums(F, s, 0)
    BY DEF Sums
  <2> QED BY <2>1
<1>2. ASSUME NEW m \in Nat, m \in S
      PROVE  m + 1 \in S
  <2>1. PICK F : Sums(F, s, m)
    BY <1>2
  <2> DEFINE next == F[m] + Size[s[m + 1]]
             G == [n \in 0..(m + 1) |-> IF n = m + 1 THEN next ELSE F[n]]
  <2>2. ASSUME NEW n \in 0..(m + 1)
        PROVE  G[n] = IF n = 0 THEN 0 ELSE G[n - 1] + Size[s[n]]
    <3>1. CASE n = m + 1
      BY <3>1
    <3>2. CASE n \in 0..m
      <4> DEFINE Of(f) == IF n = 0 THEN 0 ELSE f[n - 1] + Size[s[n]]
      <4>1. G[n] = F[n] /\ (n # 0 => G[n - 1] = F[n - 1])
        BY <3>2
      <4>2. F[n] = Of(F)
        BY <2>1, <3>2 DEF Sums
      <4> HIDE DEF G
      <4> QED BY <4>1, <4>2
    <3> QED BY <3>1, <3>2
  <2>3. Sums(G, s, m + 1)
    BY <2>2 DEF Sums
  <2> HIDE DEF G
  <2> QED BY <2>3
<1>3. Nat \subseteq S
  <2> HIDE DEF S
  <2> QED BY <1>1, <1>2, SetInduction
<1> QED BY <1>3

\* Two lists that begin alike have the same sums as far as they do.
LEMMA SumsAgree ==
    ASSUME NEW s, NEW t, NEW k \in Nat, NEW m \in Nat, NEW F, NEW G,
           Sums(F, s, k), Sums(G, t, m), k <= m, \A n \in 1..k : s[n] = t[n]
    PROVE  F[k] = G[k]
<1> DEFINE S == {n \in Nat : n <= k => F[n] = G[n]}
<1>1. \A n \in 0..k : F[n] = IF n = 0 THEN 0 ELSE F[n - 1] + Size[s[n]]
  BY DEF Sums
<1>2. \A n \in 0..m : G[n] = IF n = 0 THEN 0 ELSE G[n - 1] + Size[t[n]]
  BY DEF Sums
<1>3. 0 \in S
  BY <1>1, <1>2
<1>4. ASSUME NEW n \in Nat, n \in S
      PROVE  n + 1 \in S
  <2> SUFFICES ASSUME n + 1 <= k PROVE F[n + 1] = G[n + 1]
    OBVIOUS
  <2>1. F[n] = G[n] /\ s[n + 1] = t[n + 1]
    BY <1>4
  <2> DEFINE i == n + 1
  <2>2. i \in 0..k /\ i \in 0..m /\ i # 0 /\ i - 1 = n
    OBVIOUS
  <2>3. F[i] = F[i - 1] + Size[s[i]] /\ G[i] = G[i - 1] + Size[t[i]]
    <3> HIDE DEF i
    <3> QED BY <1>1, <1>2, <2>2
  <2> QED BY <2>1, <2>2, <2>3
<1>5. Nat \subseteq S
  <2> HIDE DEF S
  <2> QED BY <1>3, <1>4, SetInduction
<1> QED BY <1>5

LEMMA BytesOfSums ==
    ASSUME NEW s \in Seq(Documents)
    PROVE  \E F : Sums(F, s, Len(s)) /\ BytesOf(s) = F[Len(s)]
<1> DEFINE F == CHOOSE G : Sums(G, s, Len(s))
<1>1. Sums(F, s, Len(s))
  <2>1. Len(s) \in Nat
    OBVIOUS
  <2> QED BY <2>1, SumsExist
<1>2. BytesOf(s) = F[Len(s)]
  BY DEF BytesOf, Sums
<1> QED BY <1>1, <1>2

LEMMA BytesOfEmpty == BytesOf(<<>>) = 0
<1>1. <<>> \in Seq(Documents) /\ Len(<<>>) = 0
  OBVIOUS
<1>2. PICK F : Sums(F, <<>>, 0) /\ BytesOf(<<>>) = F[0]
  BY <1>1, BytesOfSums
<1> QED BY <1>2 DEF Sums

LEMMA BytesOfAppend ==
    ASSUME NEW s \in Seq(Documents), NEW d \in Documents
    PROVE  BytesOf(Append(s, d)) = BytesOf(s) + Size[d]
<1> DEFINE k == Len(s)  t == Append(s, d)
<1>1. k \in Nat /\ t \in Seq(Documents) /\ Len(t) = k + 1 /\ t[k + 1] = d /\ \A n \in 1..k : s[n] = t[n]
  BY AppendFacts
<1>2. PICK F : Sums(F, s, k) /\ BytesOf(s) = F[k]
  BY BytesOfSums
<1> HIDE DEF k, t
<1>3. PICK G : Sums(G, t, k + 1) /\ BytesOf(t) = G[k + 1]
  BY <1>1, BytesOfSums
<1>4. k + 1 \in Nat /\ k <= k + 1
  BY <1>1
<1>5. F[k] = G[k]
  BY <1>1, <1>2, <1>3, <1>4, SumsAgree
<1> DEFINE i == k + 1
<1>6. i \in 0..i /\ i # 0 /\ i - 1 = k
  BY <1>1
<1>7. \A n \in 0..i : G[n] = IF n = 0 THEN 0 ELSE G[n - 1] + Size[t[n]]
  BY <1>3 DEF Sums
<1>8. G[i] = G[i - 1] + Size[t[i]]
  <2> HIDE DEF i
  <2> QED BY <1>6, <1>7
<1> QED BY <1>1, <1>2, <1>3, <1>5, <1>6, <1>8 DEF t

-----------------------------------------------------------------------------
(* What TriggerFlush does to each part.                                     *)

\* The fields stay well typed.
LEMMA TriggerFlushTyped ==
    ASSUME NEW buf, NEW bytes, NEW timer, NEW reqs, NEW flights, NEW pending,
           Typed(buf, bytes, timer, reqs, flights, pending),
           TriggerFlush(buf, bytes, timer, reqs, flights, pending)
    PROVE  Typed(buffer, bufferedBytes, flushTimer, requests, inFlightFlushes, pendingFlush)'
<1> USE LimitsAssumption
<1>1. CASE buf = <<>> \/ flights >= MaxParallelFlushes
  <2>1. KeepBuffer(buf, bytes, timer, reqs) /\ inFlightFlushes' = flights
    BY <1>1 DEF TriggerFlush, Typed
  <2>2. pendingFlush' \in BOOLEAN
    BY <1>1 DEF TriggerFlush, Typed
  <2> QED BY <2>1, <2>2 DEF KeepBuffer, Typed
<1>2. CASE buf # <<>> /\ flights < MaxParallelFlushes
  <2>1. /\ DrainBuffer(buf, reqs)
        /\ inFlightFlushes' = flights + 1
        /\ pendingFlush' = pending
    BY <1>2 DEF TriggerFlush, Typed
  <2>2. buf \in Batches
    BY <1>2 DEF Typed, Batches
  <2>3. buffer' \in Seq(Documents) /\ bufferedBytes' \in Nat /\ flushTimer' \in BOOLEAN
    <3>1. <<>> \in Seq(Documents)
      OBVIOUS
    <3> QED BY <2>1, <3>1 DEF DrainBuffer
  <2>4. requests' \in SUBSET Batches
    BY <2>1, <2>2 DEF DrainBuffer, Typed
  <2>5. inFlightFlushes' \in 0..MaxParallelFlushes
    BY <1>2, <2>1 DEF Typed
  <2>6. pendingFlush' \in BOOLEAN
    BY <2>1 DEF Typed
  <2> QED BY <2>3, <2>4, <2>5, <2>6 DEF Typed
<1> QED BY <1>1, <1>2 DEF Typed

\* A batch that leaves is counted.
LEMMA TriggerFlushCounted ==
    ASSUME NEW buf, NEW bytes, NEW timer, NEW reqs, NEW flights, NEW pending,
           Typed(buf, bytes, timer, reqs, flights, pending),
           Counted(reqs, flights),
           buf # <<>> => Range(buf) \cap Contents(reqs) = {},
           TriggerFlush(buf, bytes, timer, reqs, flights, pending)
    PROVE  Counted(requests, inFlightFlushes)'
<1>1. CASE requests' = reqs /\ inFlightFlushes' = flights
  BY <1>1 DEF Counted
<1>2. CASE buf # <<>> /\ DrainBuffer(buf, reqs) /\ inFlightFlushes' = flights + 1
  <2>1. Range(buf) # {}
    BY <1>2, RangeOfBatch DEF Typed
  <2>2. buf \notin reqs
    BY <1>2, <2>1 DEF Contents
  <2>3. requests' = reqs \cup {buf}
    BY <1>2 DEF DrainBuffer
  <2>4. IsFiniteSet(requests') /\ Cardinality(requests') = Cardinality(reqs) + 1
    BY <2>2, <2>3, FS_AddElement DEF Counted
  <2> QED BY <1>2, <2>4 DEF Counted
<1> QED BY <1>1, <1>2 DEF TriggerFlush, KeepBuffer

\* No document moves to a second place, and none disappears.
LEMMA TriggerFlushPlaced ==
    ASSUME NEW buf, NEW bytes, NEW timer, NEW reqs, NEW flights, NEW pending,
           NEW acc, NEW done,
           Placed(buf, reqs, acc, done),
           TriggerFlush(buf, bytes, timer, reqs, flights, pending)
    PROVE  /\ Placed(buffer', requests', acc, done)
           /\ Range(buffer') \cup Contents(requests') = Range(buf) \cup Contents(reqs)
<1>1. CASE requests' = reqs /\ buffer' = buf
  BY <1>1
<1>2. CASE DrainBuffer(buf, reqs)
  <2>1. requests' = reqs \cup {buf} /\ buffer' = <<>>
    BY <1>2 DEF DrainBuffer
  <2>2. Range(<<>>) = {}
    BY DEF Range
  <2>3. Contents(requests') = Range(buf) \cup Contents(reqs)
    BY <2>1 DEF Contents
  <2>4. \A b \in reqs : Range(b) \cap Range(buf) = {}
    BY DEF Placed, Contents
  <2>5. \A b1, b2 \in requests' : Range(b1) \cap Range(b2) # {} => b1 = b2
    BY <2>1, <2>4 DEF Placed
  <2>6. NoRepeats(buffer') /\ \A batch \in requests' : NoRepeats(batch)
    BY <2>1 DEF Placed, NoRepeats
  <2>7. Range(buffer') = {}
    BY <2>1, <2>2
  <2>8. Range(buf) \cap Contents(reqs) = {} /\ (Range(buf) \cup Contents(reqs)) \cap done = {}
        /\ acc = Range(buf) \cup Contents(reqs) \cup done
    BY DEF Placed
  <2>9. Placed(buffer', requests', acc, done)
    BY <2>3, <2>5, <2>6, <2>7, <2>8 DEF Placed
  <2> QED BY <2>3, <2>7, <2>9
<1> QED BY <1>1, <1>2 DEF TriggerFlush, KeepBuffer

\* After TriggerFlush nothing is stranded.
LEMMA TriggerFlushSettled ==
    ASSUME NEW buf, NEW bytes, NEW timer, NEW reqs, NEW flights, NEW pending,
           Typed(buf, bytes, timer, reqs, flights, pending),
           Callable(buf, bytes, flights, pending),
           TriggerFlush(buf, bytes, timer, reqs, flights, pending)
    PROVE  Settled(buffer, bufferedBytes, flushTimer, inFlightFlushes, pendingFlush)'
<1> USE LimitsAssumption
<1>0. Len(<<>>) = 0
  OBVIOUS
<1>1. CASE buf = <<>>
  BY <1>0, <1>1, BytesOfEmpty DEF TriggerFlush, KeepBuffer, Typed, Callable, Settled, ShouldFlushBySize
<1>2. CASE buf # <<>> /\ flights >= MaxParallelFlushes
  BY <1>2 DEF TriggerFlush, KeepBuffer, Typed, Callable, Settled, ShouldFlushBySize
<1>3. CASE buf # <<>> /\ flights < MaxParallelFlushes
  BY <1>0, <1>3, BytesOfEmpty DEF TriggerFlush, DrainBuffer, Typed, Callable, Settled, ShouldFlushBySize
<1> QED BY <1>1, <1>2, <1>3 DEF Typed

\* The three parts that say where the documents are, together.
Sound(buf, bytes, timer, reqs, flights, pending, acc, done) ==
    /\ Typed(buf, bytes, timer, reqs, flights, pending)
    /\ Counted(reqs, flights)
    /\ Placed(buf, reqs, acc, done)

\* A call of TriggerFlush with sound arguments ends in a sound, settled state.
LEMMA TriggerFlushSound ==
    ASSUME NEW buf, NEW bytes, NEW timer, NEW reqs, NEW flights, NEW pending,
           NEW acc, NEW done,
           Sound(buf, bytes, timer, reqs, flights, pending, acc, done),
           Callable(buf, bytes, flights, pending),
           TriggerFlush(buf, bytes, timer, reqs, flights, pending)
    PROVE  /\ Sound(buffer', bufferedBytes', flushTimer', requests', inFlightFlushes',
                    pendingFlush', acc, done)
           /\ Settled(buffer', bufferedBytes', flushTimer', inFlightFlushes', pendingFlush')
<1>1. Range(buf) \cap Contents(reqs) = {}
  BY DEF Sound, Placed
<1>2. Typed(buffer, bufferedBytes, flushTimer, requests, inFlightFlushes, pendingFlush)'
  BY TriggerFlushTyped DEF Sound
<1>3. Counted(requests, inFlightFlushes)'
  BY <1>1, TriggerFlushCounted DEF Sound
<1>4. Placed(buffer', requests', acc, done)
  BY TriggerFlushPlaced DEF Sound
<1>5. Settled(buffer, bufferedBytes, flushTimer, inFlightFlushes, pendingFlush)'
  BY TriggerFlushSettled DEF Sound
<1> QED BY <1>2, <1>3, <1>4, <1>5 DEF Sound

-----------------------------------------------------------------------------
(* The inductive invariant.                                                 *)

HistoryTyped ==
    /\ lifecycle \in Lifecycles
    /\ accepted \subseteq Documents
    /\ indexed \subseteq Documents
    /\ dropped \subseteq Documents
    /\ indexed \cap dropped = {}

IInv ==
    /\ HistoryTyped
    /\ Sound(buffer, bufferedBytes, flushTimer, requests, inFlightFlushes, pendingFlush,
             accepted, indexed \cup dropped)
    /\ Settled(buffer, bufferedBytes, flushTimer, inFlightFlushes, pendingFlush)

\* Between callbacks the fields themselves are fit for a call of TriggerFlush.
LEMMA SettledIsCallable ==
    ASSUME IInv
    PROVE  Callable(buffer, bufferedBytes, inFlightFlushes, pendingFlush)
BY DEF IInv, Settled, Callable

LEMMA InitIInv == Init => IInv
<1> SUFFICES ASSUME Init PROVE IInv
  OBVIOUS
<1> USE LimitsAssumption
<1>1. HistoryTyped
  BY DEF Init, HistoryTyped, Lifecycles
<1>2. Typed(buffer, bufferedBytes, flushTimer, requests, inFlightFlushes, pendingFlush)
  <2>1. <<>> \in Seq(Documents)
    OBVIOUS
  <2>2. bufferedBytes \in Nat /\ inFlightFlushes \in 0..MaxParallelFlushes
    BY DEF Init
  <2>3. requests \in SUBSET Batches
    BY DEF Init
  <2>4. flushTimer \in BOOLEAN /\ pendingFlush \in BOOLEAN
    BY DEF Init
  <2> QED BY <2>1, <2>2, <2>3, <2>4 DEF Init, Typed
<1>3. Counted(requests, inFlightFlushes)
  BY FS_EmptySet DEF Init, Counted
<1>4. Placed(buffer, requests, accepted, indexed \cup dropped)
  <2>1. Range(<<>>) = {} /\ NoRepeats(<<>>)
    BY DEF Range, NoRepeats
  <2> QED BY <2>1 DEF Init, Placed, Contents
<1>5. Settled(buffer, bufferedBytes, flushTimer, inFlightFlushes, pendingFlush)
  <2>1. Len(<<>>) = 0
    OBVIOUS
  <2> QED BY <2>1, BytesOfEmpty DEF Init, Settled, ShouldFlushBySize
<1> QED BY <1>1, <1>2, <1>3, <1>4, <1>5 DEF IInv, Sound

\* What the buffer is like when enqueue has pushed a document.
LEMMA PushSound ==
    ASSUME IInv, NEW d \in Documents, d \notin accepted
    PROVE  /\ Sound(Append(buffer, d), bufferedBytes + Size[d], flushTimer, requests,
                    inFlightFlushes, pendingFlush, accepted \cup {d}, indexed \cup dropped)
           /\ Callable(Append(buffer, d), bufferedBytes + Size[d], inFlightFlushes, pendingFlush)
<1>1. Typed(buffer, bufferedBytes, flushTimer, requests, inFlightFlushes, pendingFlush)
      /\ Counted(requests, inFlightFlushes)
      /\ Placed(buffer, requests, accepted, indexed \cup dropped)
  BY DEF IInv, Sound
<1>2. buffer \in Seq(Documents)
  BY <1>1 DEF Typed
<1>3. /\ Append(buffer, d) \in Seq(Documents)
      /\ Append(buffer, d) # <<>>
      /\ Range(Append(buffer, d)) = Range(buffer) \cup {d}
  BY <1>2, AppendFacts
<1>4. bufferedBytes + Size[d] \in Nat
  BY <1>1, SizeAssumption DEF Typed
<1>5. Typed(Append(buffer, d), bufferedBytes + Size[d], flushTimer, requests,
            inFlightFlushes, pendingFlush)
  BY <1>1, <1>3, <1>4 DEF Typed
<1>6. d \notin Range(buffer) /\ d \notin Contents(requests) /\ d \notin indexed \cup dropped
  BY <1>1 DEF Placed
<1>7. NoRepeats(Append(buffer, d))
  BY <1>1, <1>2, <1>6, AppendNoRepeats DEF Placed
<1>8. Placed(Append(buffer, d), requests, accepted \cup {d}, indexed \cup dropped)
  BY <1>1, <1>3, <1>6, <1>7 DEF Placed
<1>9. Callable(Append(buffer, d), bufferedBytes + Size[d], inFlightFlushes, pendingFlush)
  BY <1>2, <1>3, BytesOfAppend, SettledIsCallable DEF Callable
<1> QED BY <1>1, <1>5, <1>8, <1>9 DEF Sound

\* What is left when a request has settled and its slot is free again.
LEMMA SettleSound ==
    ASSUME IInv, NEW batch \in requests
    PROVE  /\ Sound(buffer, bufferedBytes, flushTimer, requests \ {batch},
                    inFlightFlushes - 1, FALSE,
                    accepted, (indexed \cup dropped) \cup Range(batch))
           /\ Callable(buffer, bufferedBytes, inFlightFlushes - 1, FALSE)
<1>1. Typed(buffer, bufferedBytes, flushTimer, requests, inFlightFlushes, pendingFlush)
      /\ Counted(requests, inFlightFlushes)
      /\ Placed(buffer, requests, accepted, indexed \cup dropped)
  BY DEF IInv, Sound
<1>2. Counted(requests \ {batch}, inFlightFlushes - 1)
  BY <1>1, FS_RemoveElement DEF Counted
<1>3. inFlightFlushes - 1 \in 0..MaxParallelFlushes
  <2>1. Cardinality(requests \ {batch}) \in Nat
    BY <1>2, FS_CardinalityType DEF Counted
  <2> QED BY <1>1, <1>2, <2>1, LimitsAssumption DEF Counted, Typed
<1>4. Typed(buffer, bufferedBytes, flushTimer, requests \ {batch}, inFlightFlushes - 1, FALSE)
  BY <1>1, <1>3 DEF Typed
<1>5. /\ Contents(requests) = Contents(requests \ {batch}) \cup Range(batch)
      /\ Contents(requests \ {batch}) \cap Range(batch) = {}
  BY <1>1 DEF Placed, Contents
<1>6. Placed(buffer, requests \ {batch}, accepted, (indexed \cup dropped) \cup Range(batch))
  BY <1>1, <1>5 DEF Placed
<1>7. Callable(buffer, bufferedBytes, inFlightFlushes - 1, FALSE)
  BY SettledIsCallable DEF Callable
<1> QED BY <1>2, <1>4, <1>6, <1>7 DEF Sound

LEMMA EnqueueIInv ==
    ASSUME IInv, NEW d \in Documents, Enqueue(d)
    PROVE  IInv'
<1> DEFINE buf   == Append(buffer, d)
           bytes == bufferedBytes + Size[d]
           done  == indexed \cup dropped
<1>1. d \notin accepted /\ accepted' = accepted \cup {d} /\ done' = done
  BY DEF Enqueue
<1>2. HistoryTyped'
  BY DEF IInv, HistoryTyped, Enqueue
<1>3. /\ Sound(buf, bytes, flushTimer, requests, inFlightFlushes, pendingFlush,
               accepted \cup {d}, done)
      /\ Callable(buf, bytes, inFlightFlushes, pendingFlush)
  BY <1>1, PushSound
<1>4. /\ Sound(buffer', bufferedBytes', flushTimer', requests', inFlightFlushes',
               pendingFlush', accepted \cup {d}, done)
      /\ Settled(buffer', bufferedBytes', flushTimer', inFlightFlushes', pendingFlush')
  <2>1. CASE TriggerFlush(buf, bytes, flushTimer, requests, inFlightFlushes, pendingFlush)
    <3> HIDE DEF buf, bytes, done
    <3> QED BY <1>3, <2>1, TriggerFlushSound
  <2>2. CASE /\ ~ShouldFlushBySize(buf, bytes)
             /\ KeepBuffer(buf, bytes, EnsureFlushTimer(buf, flushTimer), requests)
             /\ UNCHANGED <<inFlightFlushes, pendingFlush>>
    <3>1. buf # <<>>
      BY AppendFacts DEF IInv, Sound, Typed
    <3> HIDE DEF buf, bytes, done
    <3>2. flushTimer' = TRUE
      BY <2>2, <3>1 DEF KeepBuffer, EnsureFlushTimer
    <3>3. Typed(buffer', bufferedBytes', flushTimer', requests', inFlightFlushes', pendingFlush')
      BY <1>3, <2>2, <3>2 DEF Sound, Typed, KeepBuffer
    <3>4. Counted(requests', inFlightFlushes') /\ Placed(buffer', requests', accepted \cup {d}, done)
      BY <1>3, <2>2 DEF Sound, KeepBuffer
    <3>5. bytes = BytesOf(buf) /\ (pendingFlush => inFlightFlushes = MaxParallelFlushes)
      BY <1>3 DEF Callable
    <3>6. Settled(buffer', bufferedBytes', flushTimer', inFlightFlushes', pendingFlush')
      BY <2>2, <3>1, <3>2, <3>5 DEF Settled, KeepBuffer
    <3> QED BY <3>3, <3>4, <3>6 DEF Sound
  <2> QED BY <2>1, <2>2 DEF Enqueue
<1> QED BY <1>1, <1>2, <1>4 DEF IInv

\* The callers of TriggerFlush that change no field before the call, but for
\* the timer callback, which clears the timer.
LEMMA TriggerIInv ==
    ASSUME IInv, NEW timer \in BOOLEAN,
           TriggerFlush(buffer, bufferedBytes, timer, requests, inFlightFlushes, pendingFlush),
           UNCHANGED historyVars, lifecycle' \in Lifecycles
    PROVE  IInv'
<1> DEFINE done == indexed \cup dropped
<1>1. accepted' = accepted /\ done' = done
  BY DEF historyVars
<1>2. HistoryTyped'
  BY DEF IInv, HistoryTyped, historyVars
<1>3. Sound(buffer, bufferedBytes, timer, requests, inFlightFlushes, pendingFlush, accepted, done)
  BY DEF IInv, Sound, Typed
<1>4. Callable(buffer, bufferedBytes, inFlightFlushes, pendingFlush)
  BY SettledIsCallable
<1>5. /\ Sound(buffer', bufferedBytes', flushTimer', requests', inFlightFlushes',
               pendingFlush', accepted, done)
      /\ Settled(buffer', bufferedBytes', flushTimer', inFlightFlushes', pendingFlush')
  <2> HIDE DEF done
  <2> QED BY <1>3, <1>4, TriggerFlushSound
<1> QED BY <1>1, <1>2, <1>5 DEF IInv

LEMMA FlushSettlesIInv ==
    ASSUME IInv, NEW batch \in requests, FlushSettles(batch)
    PROVE  IInv'
<1> DEFINE done == (indexed \cup dropped) \cup Range(batch)
           reqs == requests \ {batch}
           flights == inFlightFlushes - 1
<1>1. /\ Sound(buffer, bufferedBytes, flushTimer, reqs, flights, FALSE, accepted, done)
      /\ Callable(buffer, bufferedBytes, flights, FALSE)
  BY SettleSound
<1>2. PICK stored \in SUBSET Range(batch) :
          /\ indexed' = indexed \cup stored
          /\ dropped' = dropped \cup (Range(batch) \ stored)
  BY DEF FlushSettles
<1>3. accepted' = accepted /\ (indexed \cup dropped)' = done
  BY <1>2 DEF FlushSettles
<1>4. HistoryTyped'
  <2>1. Range(batch) \subseteq Documents
    BY RangeOfBatch DEF IInv, Sound, Typed, Batches
  <2>2. Range(batch) \cap (indexed \cup dropped) = {}
    BY DEF IInv, Sound, Placed, Contents
  <2>3. lifecycle' = lifecycle
    BY DEF FlushSettles
  <2> QED BY <1>2, <1>3, <2>1, <2>2, <2>3 DEF IInv, HistoryTyped
<1>5. /\ Sound(buffer', bufferedBytes', flushTimer', requests', inFlightFlushes',
               pendingFlush', accepted, done)
      /\ Settled(buffer', bufferedBytes', flushTimer', inFlightFlushes', pendingFlush')
  <2>1. CASE TriggerFlush(buffer, bufferedBytes, flushTimer, reqs, flights, FALSE)
    <3> HIDE DEF done, reqs, flights
    <3> QED BY <1>1, <2>1, TriggerFlushSound
  <2>2. CASE /\ ~ShouldFlushBySize(buffer, bufferedBytes)
             /\ inFlightFlushes' = flights
             /\ pendingFlush' = FALSE
             /\ KeepBuffer(buffer, bufferedBytes, EnsureFlushTimer(buffer, flushTimer), reqs)
    <3> HIDE DEF done, reqs, flights
    <3>1. flushTimer' \in BOOLEAN /\ (buffer # <<>> => flushTimer')
      BY <1>1, <2>2 DEF KeepBuffer, EnsureFlushTimer, Sound, Typed
    <3>2. Typed(buffer', bufferedBytes', flushTimer', requests', inFlightFlushes', pendingFlush')
      BY <1>1, <2>2, <3>1 DEF Sound, Typed, KeepBuffer
    <3>3. Counted(requests', inFlightFlushes') /\ Placed(buffer', requests', accepted, done)
      BY <1>1, <2>2 DEF Sound, KeepBuffer
    <3>4. Settled(buffer', bufferedBytes', flushTimer', inFlightFlushes', pendingFlush')
      BY <1>1, <2>2, <3>1 DEF Settled, Callable, KeepBuffer
    <3> QED BY <3>2, <3>3, <3>4 DEF Sound
  <2> QED BY <2>1, <2>2 DEF FlushSettles, FlushFinally
<1> QED BY <1>3, <1>4, <1>5 DEF IInv

\* Steps that change nothing but how far onModuleDestroy has come.
LEMMA LifecycleIInv ==
    ASSUME IInv, UNCHANGED <<queueVars, historyVars>>, lifecycle' \in Lifecycles
    PROVE  IInv'
<1>1. HistoryTyped'
  BY DEF IInv, HistoryTyped, historyVars
<1>2. /\ buffer' = buffer /\ bufferedBytes' = bufferedBytes /\ flushTimer' = flushTimer
      /\ requests' = requests /\ inFlightFlushes' = inFlightFlushes
      /\ pendingFlush' = pendingFlush /\ accepted' = accepted
      /\ indexed' = indexed /\ dropped' = dropped
  BY DEF queueVars, historyVars
<1> QED BY <1>1, <1>2 DEF IInv

LEMMA NextIInv == IInv /\ [Next]_vars => IInv'
<1> SUFFICES ASSUME IInv, [Next]_vars PROVE IInv'
  OBVIOUS
<1>0. lifecycle \in Lifecycles /\ flushTimer \in BOOLEAN
  BY DEF IInv, HistoryTyped, Sound, Typed
<1>1. ASSUME NEW d \in Documents, Enqueue(d) PROVE IInv'
  BY <1>1, EnqueueIInv
<1>2. CASE TimerFires
  BY <1>0, <1>2, TriggerIInv DEF TimerFires
<1>3. ASSUME NEW batch \in requests, FlushSettles(batch) PROVE IInv'
  BY <1>3, FlushSettlesIInv
<1>4. CASE DestroyDrains
  BY <1>0, <1>4, TriggerIInv DEF DestroyDrains, Lifecycles
<1>5. CASE DestroyReturns
  BY <1>5, LifecycleIInv DEF DestroyReturns, Lifecycles
<1>6. CASE DrainTurn
  BY <1>0, <1>6, TriggerIInv DEF DrainTurn
<1>7. CASE DrainEnds
  BY <1>7, LifecycleIInv DEF DrainEnds, Lifecycles
<1>8. CASE UNCHANGED vars
  BY <1>0, <1>8, LifecycleIInv DEF vars
<1> QED BY <1>1, <1>2, <1>3, <1>4, <1>5, <1>6, <1>7, <1>8 DEF Next

LEMMA Invariance == Spec => []IInv
BY InitIInv, NextIInv, PTL DEF Spec

-----------------------------------------------------------------------------
(* The theorems.                                                            *)

LEMMA IInvImplies ==
    ASSUME IInv
    PROVE  /\ TypeOK
           /\ NoLostWakeup
           /\ FullBufferWaitsForSlot
           /\ ParallelBound
           /\ EachDocumentInOnePlace
<1>1. TypeOK
  BY DEF IInv, HistoryTyped, Sound, Typed, TypeOK
<1>2. NoLostWakeup /\ FullBufferWaitsForSlot
  BY DEF IInv, Settled, NoLostWakeup, FullBufferWaitsForSlot
<1>3. ParallelBound
  BY LimitsAssumption DEF IInv, Sound, Counted, Typed, ParallelBound
<1>4. EachDocumentInOnePlace
  BY DEF IInv, HistoryTyped, Sound, Placed, Contents, InFlight, EachDocumentInOnePlace
<1> QED BY <1>1, <1>2, <1>3, <1>4

\* The fields keep their types, and the flush counter its bounds.
THEOREM TypeCorrect == Spec => []TypeOK
BY Invariance, IInvImplies, PTL

\* enqueue, the timer callback and the finally handler never strand a
\* buffered document.
THEOREM NeverStranded == Spec => []NoLostWakeup
BY Invariance, IInvImplies, PTL

\* A full buffer waits only for a slot, and the pending flag says so.
THEOREM FullBufferWaits == Spec => []FullBufferWaitsForSlot
BY Invariance, IInvImplies, PTL

\* Elasticsearch never has more than maxParallelFlushes bulk requests of one
\* BulkIndexerService at a time.
THEOREM AtMostMaxParallelFlushes == Spec => []ParallelBound
BY Invariance, IInvImplies, PTL

\* The service neither loses a document nor sends it twice.
THEOREM DocumentsConserved == Spec => []EachDocumentInOnePlace
BY Invariance, IInvImplies, PTL

\* A batch leaves in this step only if TriggerFlush drained it.
LEMMA NewBatch ==
    ASSUME NEW buf, NEW bytes, NEW timer, NEW reqs, NEW flights, NEW pending,
           TriggerFlush(buf, bytes, timer, reqs, flights, pending),
           NEW batch \in requests' \ reqs
    PROVE  batch = buf
BY DEF TriggerFlush, KeepBuffer, DrainBuffer

\* Batches outgrow BULK_BATCH_SIZE only when every slot was taken before.
THEOREM OversizedAfterStall == Spec => OversizedOnlyAfterStall
<1> DEFINE Grown == \A batch \in requests' \ requests :
                        Len(batch) > MaxBatchSize => inFlightFlushes = MaxParallelFlushes
<1>1. ASSUME IInv, [Next]_vars PROVE Grown
  <2> SUFFICES ASSUME NEW batch \in requests' \ requests, Len(batch) > MaxBatchSize,
                      inFlightFlushes # MaxParallelFlushes
               PROVE  FALSE
    OBVIOUS
  <2> USE LimitsAssumption
  <2>1. buffer \in Seq(Documents) /\ Len(buffer) \in Nat
    BY <1>1 DEF IInv, Sound, Typed
  <2>2. Len(buffer) < MaxBatchSize
    BY <1>1, <2>1 DEF IInv, Settled, ShouldFlushBySize
  <2>3. batch # buffer
    BY <2>1, <2>2
  <2>4. ASSUME NEW d \in Documents, Enqueue(d) PROVE FALSE
    <3>1. CASE TriggerFlush(Append(buffer, d), bufferedBytes + Size[d], flushTimer, requests,
                            inFlightFlushes, pendingFlush)
      <4>1. batch = Append(buffer, d)
        BY <3>1, NewBatch
      <4>2. Len(batch) = Len(buffer) + 1
        BY <2>1, <4>1, AppendFacts
      <4> QED BY <2>1, <2>2, <4>2
    <3>2. CASE requests' = requests
      BY <3>2
    <3> QED BY <2>4, <3>1, <3>2 DEF Enqueue, KeepBuffer
  <2>5. CASE TimerFires
    BY <2>3, <2>5, NewBatch DEF TimerFires
  <2>6. ASSUME NEW b \in requests, FlushSettles(b) PROVE FALSE
    <3>1. CASE TriggerFlush(buffer, bufferedBytes, flushTimer, requests \ {b},
                            inFlightFlushes - 1, FALSE)
      <4> DEFINE reqs == requests \ {b}
                 flights == inFlightFlushes - 1
      <4>1. batch \in requests' \ reqs
        OBVIOUS
      <4> HIDE DEF reqs, flights
      <4>2. batch = buffer
        BY <3>1, <4>1, NewBatch DEF reqs, flights
      <4> QED BY <2>3, <4>2
    <3>2. CASE requests' = requests \ {b}
      BY <3>2
    <3> QED BY <2>6, <3>1, <3>2 DEF FlushSettles, FlushFinally, KeepBuffer
  <2>7. CASE DestroyDrains
    BY <2>3, <2>7, NewBatch DEF DestroyDrains
  <2>8. CASE DrainTurn
    BY <2>3, <2>8, NewBatch DEF DrainTurn
  <2>9. CASE requests' = requests
    BY <2>9
  <2> QED BY <1>1, <2>4, <2>5, <2>6, <2>7, <2>8, <2>9
          DEF Next, DestroyReturns, DrainEnds, vars, queueVars
<1>2. IInv /\ [Next]_vars => [Grown]_vars
  BY <1>1
<1> QED BY Invariance, <1>2, PTL DEF Spec, OversizedOnlyAfterStall

-----------------------------------------------------------------------------
(* The service implements DocumentSink (its safety part: that every         *)
(* document is settled in the end is left to TLC).                          *)

Waiting == Range(buffer) \cup InFlight

LEMMA TriggerFlushKeepsWaiting ==
    ASSUME IInv, NEW timer,
           TriggerFlush(buffer, bufferedBytes, timer, requests, inFlightFlushes, pendingFlush)
    PROVE  Waiting' = Waiting
<1>1. Placed(buffer, requests, accepted, indexed \cup dropped)
  BY DEF IInv, Sound
<1>2. Range(buffer') \cup Contents(requests') = Range(buffer) \cup Contents(requests)
  BY <1>1, TriggerFlushPlaced
<1> QED BY <1>2 DEF Waiting, InFlight, Contents

LEMMA EnqueueAccepts ==
    ASSUME IInv, NEW d \in Documents, Enqueue(d)
    PROVE  Sink!Accept(d)
<1> DEFINE buf   == Append(buffer, d)
           bytes == bufferedBytes + Size[d]
           acc   == accepted \cup {d}
           done  == indexed \cup dropped
<1>1. d \notin accepted /\ accepted' = acc /\ UNCHANGED <<indexed, dropped>>
  BY DEF Enqueue
<1>2. Placed(buf, requests, acc, done)
  BY <1>1, PushSound DEF Sound
<1>3. Range(buf) = Range(buffer) \cup {d}
  BY AppendFacts DEF IInv, Sound, Typed
<1>4. Range(buffer') \cup Contents(requests') = Range(buf) \cup Contents(requests)
  <2>1. CASE TriggerFlush(buf, bytes, flushTimer, requests, inFlightFlushes, pendingFlush)
    <3> HIDE DEF buf, bytes, acc, done
    <3> QED BY <1>2, <2>1, TriggerFlushPlaced
  <2>2. CASE KeepBuffer(buf, bytes, EnsureFlushTimer(buf, flushTimer), requests)
    BY <2>2 DEF KeepBuffer
  <2> QED BY <2>1, <2>2 DEF Enqueue
<1>5. Waiting' = Waiting \cup {d}
  BY <1>3, <1>4 DEF Waiting, InFlight, Contents
<1> QED BY <1>1, <1>5 DEF Sink!Accept, Waiting

LEMMA FlushSettlesSettles ==
    ASSUME IInv, NEW batch \in requests, FlushSettles(batch)
    PROVE  Sink!Next
<1> DEFINE done == (indexed \cup dropped) \cup Range(batch)
           reqs == requests \ {batch}
           flights == inFlightFlushes - 1
<1>1. Placed(buffer, reqs, accepted, done)
  BY SettleSound DEF Sound
<1>2. Range(buffer') \cup Contents(requests') = Range(buffer) \cup Contents(reqs)
  <2>1. CASE TriggerFlush(buffer, bufferedBytes, flushTimer, reqs, flights, FALSE)
    <3> HIDE DEF done, reqs, flights
    <3> QED BY <1>1, <2>1, TriggerFlushPlaced
  <2>2. CASE buffer' = buffer /\ requests' = reqs
    BY <2>2
  <2> QED BY <2>1, <2>2 DEF FlushSettles, FlushFinally, KeepBuffer
<1>3. Waiting = Waiting' \cup Range(batch) /\ Waiting' \cap Range(batch) = {}
  <2>1. Contents(requests) = Contents(reqs) \cup Range(batch)
    BY DEF Contents
  <2>2. (Range(buffer) \cup Contents(reqs)) \cap Range(batch) = {}
    BY <1>1 DEF Placed
  <2> QED BY <1>2, <2>1, <2>2 DEF Waiting, InFlight, Contents
<1>4. Range(batch) # {} /\ Range(batch) \subseteq Waiting /\ Waiting' = Waiting \ Range(batch)
  BY <1>3, RangeOfBatch DEF IInv, Sound, Typed, Batches
<1>5. PICK stored \in SUBSET Range(batch) :
          /\ indexed' = indexed \cup stored
          /\ dropped' = dropped \cup (Range(batch) \ stored)
  BY DEF FlushSettles
<1>6. Sink!Settle(Range(batch), stored)
  BY <1>4, <1>5 DEF Sink!Settle, FlushSettles, Waiting
<1> QED BY <1>4, <1>6 DEF Sink!Next, Waiting

\* Every step of the service is a step of DocumentSink or leaves it alone.
THEOREM ImplementsSinkSafety == Spec => Sink!Init /\ [][Sink!Next]_(Sink!vars)
<1>1. Init => Sink!Init
  BY DEF Init, Sink!Init, InFlight, Range
<1>2. IInv /\ [Next]_vars => [Sink!Next]_(Sink!vars)
  <2> SUFFICES ASSUME IInv, [Next]_vars PROVE [Sink!Next]_(Sink!vars)
    OBVIOUS
  <2>1. ASSUME NEW d \in Documents, Enqueue(d) PROVE Sink!Next
    BY <2>1, EnqueueAccepts DEF Sink!Next
  <2>2. ASSUME NEW batch \in requests, FlushSettles(batch) PROVE Sink!Next
    BY <2>2, FlushSettlesSettles
  <2>3. ASSUME Waiting' = Waiting, UNCHANGED historyVars PROVE UNCHANGED Sink!vars
    BY <2>3 DEF Sink!vars, Waiting, historyVars
  <2>4. CASE TimerFires
    BY <2>3, <2>4, TriggerFlushKeepsWaiting DEF TimerFires
  <2>5. CASE DestroyDrains
    BY <2>3, <2>5, TriggerFlushKeepsWaiting DEF DestroyDrains
  <2>6. CASE DrainTurn
    BY <2>3, <2>6, TriggerFlushKeepsWaiting DEF DrainTurn
  <2>7. CASE UNCHANGED <<queueVars, historyVars>>
    BY <2>3, <2>7 DEF queueVars, historyVars, Waiting, InFlight
  <2> QED BY <2>1, <2>2, <2>4, <2>5, <2>6, <2>7
          DEF Next, DestroyReturns, DrainEnds, vars
<1> QED BY <1>1, <1>2, Invariance, PTL DEF Spec

=============================================================================
