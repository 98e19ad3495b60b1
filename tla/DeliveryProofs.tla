--------------------------- MODULE DeliveryProofs ---------------------------
(***************************************************************************)
(* What holds of the way of a report for any number of POSTs, partitions,  *)
(* attempts and mishaps, and for any bodies.                               *)
(*                                                                         *)
(* Lists of any length are flattened and filtered, so a part of the module *)
(* is about those operators; induction over the length of a list is done   *)
(* with a set of numbers that has 0 and with n also n + 1.  Then the       *)
(* argument has three steps: each topic only grows, by a batch whose       *)
(* messages are of one POST, belong there and were not acknowledged; with  *)
(* that, copies can be counted (IInv); and what the consumers take as an   *)
(* event is a report of its POST, from which the refinement follows.       *)
(***************************************************************************)
EXTENDS Delivery, FiniteSetTheorems, SequenceTheorems, TLAPS

-----------------------------------------------------------------------------
(* Induction over the natural numbers, for a set instead of a predicate.    *)

LEMMA LeastNumber ==
    ASSUME NEW T \in SUBSET Nat, T # {}
    PROVE  \E m \in T : \A k \in T : m <= k
<1> DEFINE R == StrictSubsetOrdering(Nat)  S == FiniteSubsetsOf(Nat)
           U == {1..n : n \in T}
<1>1. IsWellFoundedOn(R, S)
    BY FS_StrictSubsetOrderingWellFounded
<1>2. U \subseteq S
    <2>1. \A n \in T : IsFiniteSet(1..n) /\ 1..n \subseteq Nat
        BY FS_Interval
    <2> QED BY <2>1 DEF FiniteSubsetsOf
<1>3. U # {}
    OBVIOUS
<1>4. PICK V \in U : \A W \in U : ~ (<<W, V>> \in R)
    <2> HIDE DEF R, S, U
    <2> QED BY <1>1, <1>2, <1>3, WFMin
<1>5. PICK m \in T : V = 1..m
    OBVIOUS
<1>6. ASSUME NEW k \in T, k < m
      PROVE  FALSE
    <2>1. 1..k \subseteq 1..m /\ m \in 1..m /\ m \notin 1..k
        BY <1>6
    <2>2. 1..k # 1..m /\ 1..k \in SUBSET Nat /\ 1..m \in SUBSET Nat
        BY <2>1
    <2>3. <<1..k, 1..m>> \in R
        BY <2>1, <2>2 DEF StrictSubsetOrdering
    <2> QED BY <1>4, <1>5, <2>3
<1> QED BY <1>6

LEMMA SetInduction ==
    ASSUME NEW S, 0 \in S, \A n \in Nat : n \in S => n + 1 \in S
    PROVE  Nat \subseteq S
<1> DEFINE T == Nat \ S
<1> SUFFICES ASSUME T # {} PROVE FALSE
    OBVIOUS
<1>1. PICK m \in T : \A k \in T : m <= k
    BY LeastNumber
<1>2. m # 0 /\ m - 1 \in Nat /\ m - 1 + 1 = m
    OBVIOUS
<1>3. m - 1 \in S
    BY <1>1, <1>2
<1> QED BY <1>2, <1>3

-----------------------------------------------------------------------------
(* Lists that are put together and filtered.                                *)

\* The equation of FlattenSeq for the first n of some lists.
Flattens(F, lists, n) ==
    F = [i \in 1..n |-> IF i = 1 THEN lists[i] ELSE F[i - 1] \o lists[i]]

LEMMA FlattensExists ==
    ASSUME NEW lists, NEW n \in Nat
    PROVE  \E F : Flattens(F, lists, n)
<1> DEFINE S == {k \in Nat : \E F : Flattens(F, lists, k)}
<1>1. 0 \in S
    <2> DEFINE F == [i \in 1..0 |-> <<>>]
    <2>1. Flattens(F, lists, 0)
        BY DEF Flattens
    <2> QED BY <2>1
<1>2. ASSUME NEW k \in Nat, k \in S
      PROVE  k + 1 \in S
    <2>1. PICK F : Flattens(F, lists, k)
        BY <1>2
    <2> DEFINE next == IF k = 0 THEN lists[1] ELSE F[k] \o lists[k + 1]
               G == [i \in 1..(k + 1) |-> IF i = k + 1 THEN next ELSE F[i]]
    <2>2. ASSUME NEW i \in 1..(k + 1)
          PROVE  G[i] = IF i = 1 THEN lists[i] ELSE G[i - 1] \o lists[i]
        <3>1. CASE i = k + 1
            BY <3>1
        <3>2. CASE i \in 1..k
            <4> DEFINE Of(f) == IF i = 1 THEN lists[i] ELSE f[i - 1] \o lists[i]
            <4>1. G[i] = F[i] /\ (i # 1 => G[i - 1] = F[i - 1])
                BY <3>2
            <4>2. F[i] = Of(F)
                BY <2>1, <3>2 DEF Flattens
            <4> HIDE DEF G
            <4> QED BY <4>1, <4>2
        <3> QED BY <3>1, <3>2
    <2>3. Flattens(G, lists, k + 1)
        BY <2>2 DEF Flattens
    <2> HIDE DEF G
    <2> QED BY <2>3
<1>3. Nat \subseteq S
    <2> HIDE DEF S
    <2> QED BY <1>1, <1>2, SetInduction
<1> QED BY <1>3

LEMMA FlattenRecursion ==
    ASSUME NEW S, NEW lists \in Seq(Seq(S)), NEW n, n = Len(lists), n # 0
    PROVE  \E F : Flattens(F, lists, n) /\ FlattenSeq(lists) = F[n]
<1> DEFINE F == CHOOSE G : Flattens(G, lists, n)
<1>1. Flattens(F, lists, n)
    <2>1. n \in Nat
        BY LenProperties
    <2> QED BY <2>1, FlattensExists
<1>2. FlattenSeq(lists) = F[n]
    BY DEF FlattenSeq, Flattens
<1> QED BY <1>1, <1>2

\* Each step of it has what the lists have up to there.
UpTo(S, F, lists, k) ==
    /\ F[k] \in Seq(S)
    /\ \A x : x \in Range(F[k]) <=> \E i \in 1..k : x \in Range(lists[i])
    /\ F[k] = IF k = 1 THEN lists[k] ELSE F[k - 1] \o lists[k]

LEMMA FlattensSteps ==
    ASSUME NEW S, NEW lists \in Seq(Seq(S)), NEW F, NEW n, n = Len(lists), Flattens(F, lists, n)
    PROVE  \A k \in 1..n : UpTo(S, F, lists, k)
<1>1. n \in Nat /\ DOMAIN lists = 1..n /\ \A i \in 1..n : lists[i] \in Seq(S)
    BY LenProperties, ElementOfSeq
<1>2. \A i \in 1..n : F[i] = IF i = 1 THEN lists[i] ELSE F[i - 1] \o lists[i]
    BY DEF Flattens
<1> DEFINE Good(j) == /\ F[j] \in Seq(S)
                      /\ \A x : x \in Range(F[j]) <=> \E i \in 1..j : x \in Range(lists[i])
           T == {j \in Nat : j \in 1..n => Good(j)}
<1>3. 0 \in T
    OBVIOUS
<1>4. ASSUME NEW m \in Nat, m \in T
      PROVE  m + 1 \in T
    <2> SUFFICES ASSUME m + 1 \in 1..n PROVE Good(m + 1)
        <3> HIDE DEF Good
        <3> QED OBVIOUS
    <2>1. CASE m = 0
        <3>1. F[1] = lists[1] /\ 1..1 = {1}
            BY <1>2, <2>1
        <3> QED BY <1>1, <2>1, <3>1
    <2>2. CASE m # 0
        <3>1. F[m + 1] = F[m] \o lists[m + 1]
            <4> DEFINE i == m + 1
            <4>1. i \in 1..n /\ i # 1 /\ i - 1 = m
                BY <1>1, <2>2
            <4>2. F[i] = IF i = 1 THEN lists[i] ELSE F[i - 1] \o lists[i]
                <5> HIDE DEF i
                <5> QED BY <1>2, <4>1
            <4> QED BY <4>1, <4>2
        <3>2. m \in 1..n /\ 1..(m + 1) = (1..m) \cup {m + 1}
            BY <1>1, <2>2
        <3>3. Good(m)
            BY <1>4, <3>2
        <3>4. lists[m + 1] \in Seq(S)
            BY <1>1
        <3>5. F[m + 1] \in Seq(S)
            BY <3>1, <3>3, <3>4, ConcatProperties
        <3>6. Range(F[m + 1]) = Range(F[m]) \cup Range(lists[m + 1])
            BY <3>1, <3>3, <3>4, RangeConcatenation
        <3> QED BY <3>2, <3>3, <3>5, <3>6
    <2> QED BY <2>1, <2>2
<1>5. Nat \subseteq T
    <2> HIDE DEF T
    <2> QED BY <1>3, <1>4, SetInduction
<1>6. \A j \in 1..n : Good(j)
    <2> HIDE DEF Good
    <2> QED BY <1>1, <1>5
<1> HIDE DEF T
<1> QED BY <1>2, <1>6 DEF UpTo

\* A flattened list has what the lists have.
LEMMA FlattenFacts ==
    ASSUME NEW S, NEW lists \in Seq(Seq(S))
    PROVE  /\ FlattenSeq(lists) \in Seq(S)
           /\ \A x : x \in Range(FlattenSeq(lists)) <=> \E i \in DOMAIN lists : x \in Range(lists[i])
<1> DEFINE n == Len(lists)
<1>1. n \in Nat /\ DOMAIN lists = 1..n
    BY LenProperties
<1>2. CASE n = 0
    <2>1. lists = <<>> /\ FlattenSeq(lists) = lists
        BY <1>2, EmptySeq DEF FlattenSeq
    <2>2. DOMAIN lists = {}
        BY <1>1, <1>2
    <2>3. Range(lists) = {}
        BY <2>2 DEF Range
    <2> QED BY <2>1, <2>2, <2>3, EmptySeq
<1>3. CASE n # 0
    <2>1. PICK F : Flattens(F, lists, n) /\ FlattenSeq(lists) = F[n]
        BY <1>3, FlattenRecursion
    <2>2. n \in 1..n
        BY <1>1, <1>3
    <2>3. F[n] \in Seq(S) /\ \A x : x \in Range(F[n]) <=> \E i \in 1..n : x \in Range(lists[i])
        <3>1. n = Len(lists)
            OBVIOUS
        <3> HIDE DEF n
        <3>2. UpTo(S, F, lists, n)
            BY <2>1, <2>2, <3>1, FlattensSteps
        <3> QED BY <3>2 DEF UpTo
    <2> HIDE DEF n
    <2> QED BY <1>1, <2>1, <2>3
<1> QED BY <1>2, <1>3

\* A list that has a type.
LEMMA ListFacts ==
    ASSUME NEW list, IsList(list)
    PROVE  /\ Len(list) \in Nat /\ DOMAIN list = 1..Len(list)
           /\ \A n \in DOMAIN list : list[n] \in Range(list)
BY LenProperties DEF IsList, Range

LEMMA SubList ==
    ASSUME NEW S, NEW list \in Seq(S)
    PROVE  IsList(list) /\ Range(list) \subseteq S
<1>1. Len(list) \in Nat /\ list \in [1..Len(list) -> S] /\ DOMAIN list = 1..Len(list)
    BY LenProperties
<1>2. list \in [1..Len(list) -> Range(list)] /\ Range(list) \subseteq S
    BY <1>1 DEF Range
<1> QED BY <1>1, <1>2, SeqDef DEF IsList

\* A part of a list, in its order.
Part(list, T) == FlattenSeq([n \in DOMAIN list |-> IF n \in T THEN <<list[n]>> ELSE <<>>])

LEMMA InjectiveAppend ==
    ASSUME NEW S, NEW s \in Seq(S), IsInjective(s), NEW x \in S, x \notin Range(s)
    PROVE  IsInjective(s \o <<x>>)
<1> DEFINE t == s \o <<x>>
<1>1. /\ Len(s) \in Nat /\ DOMAIN s = 1..Len(s)
      /\ DOMAIN t = 1..(Len(s) + 1) /\ t[Len(s) + 1] = x
      /\ \A k \in 1..Len(s) : t[k] = s[k] /\ t[k] # x
    BY LenProperties DEF Range
<1> HIDE DEF t
<1>2. ASSUME NEW j \in DOMAIN t, NEW k \in DOMAIN t, t[j] = t[k]
      PROVE  j = k
    <2>1. CASE j = Len(s) + 1
        BY <1>1, <1>2, <2>1
    <2>2. CASE k = Len(s) + 1
        BY <1>1, <1>2, <2>2
    <2>3. CASE j \in 1..Len(s) /\ k \in 1..Len(s)
        BY <1>1, <1>2, <2>3 DEF IsInjective
    <2> QED BY <1>1, <2>1, <2>2, <2>3
<1>3. IsInjective(t)
    BY <1>2 DEF IsInjective
<1> QED BY <1>3 DEF t

\* What each place of a list puts into a part of it.
Pieces(list, T) == [n \in DOMAIN list |-> IF n \in T THEN <<list[n]>> ELSE <<>>]

LEMMA PiecesFacts ==
    ASSUME NEW list, IsList(list), NEW T
    PROVE  /\ Pieces(list, T) \in Seq(Seq(Range(list)))
           /\ Len(Pieces(list, T)) = Len(list) /\ DOMAIN Pieces(list, T) = 1..Len(list)
           /\ \A n \in 1..Len(list) :
                 /\ list[n] \in Range(list)
                 /\ Pieces(list, T)[n] = IF n \in T THEN <<list[n]>> ELSE <<>>
                 /\ Range(Pieces(list, T)[n]) = IF n \in T THEN {list[n]} ELSE {}
<1> DEFINE S == Range(list)  N == Len(list)  lists == Pieces(list, T)
<1>1. N \in Nat /\ DOMAIN list = 1..N /\ \A n \in 1..N : list[n] \in S
    BY ListFacts
<1>2. ASSUME NEW n \in 1..N
      PROVE  /\ lists[n] = IF n \in T THEN <<list[n]>> ELSE <<>>
             /\ lists[n] \in Seq(S)
             /\ Range(lists[n]) = IF n \in T THEN {list[n]} ELSE {}
    <2>1. Range(<<>>) = {} /\ Range(<<list[n]>>) = {list[n]}
        BY DEF Range
    <2>2. <<>> \in Seq(S) /\ <<list[n]>> \in Seq(S)
        BY <1>1
    <2>3. lists[n] = IF n \in T THEN <<list[n]>> ELSE <<>>
        BY <1>1 DEF Pieces
    <2> QED BY <2>1, <2>2, <2>3
<1>3. lists \in [1..N -> Seq(S)]
    BY <1>1, <1>2 DEF Pieces
<1>4. lists \in Seq(Seq(S)) /\ DOMAIN lists = 1..N /\ Len(lists) = N
    <2> HIDE DEF lists, S, N
    <2> QED BY <1>1, <1>3, SeqDef, LenProperties
<1> QED BY <1>1, <1>2, <1>4

LEMMA PartFacts ==
    ASSUME NEW list, IsList(list), NEW T
    PROVE  /\ Part(list, T) \in Seq(Range(list))
           /\ \A x : x \in Range(Part(list, T)) <=> \E n \in DOMAIN list : n \in T /\ x = list[n]
<1>1. Part(list, T) = FlattenSeq(Pieces(list, T)) /\ DOMAIN list = 1..Len(list)
    BY ListFacts DEF Part, Pieces
<1>2. /\ Part(list, T) \in Seq(Range(list))
      /\ \A x : x \in Range(Part(list, T)) <=>
                \E n \in DOMAIN Pieces(list, T) : x \in Range(Pieces(list, T)[n])
    BY <1>1, PiecesFacts, FlattenFacts
<1>3. DOMAIN Pieces(list, T) = DOMAIN list
    BY <1>1, PiecesFacts
<1>4. ASSUME NEW n \in DOMAIN list
      PROVE  \A x : x \in Range(Pieces(list, T)[n]) <=> n \in T /\ x = list[n]
    <2>1. Range(Pieces(list, T)[n]) = IF n \in T THEN {list[n]} ELSE {}
        BY <1>1, PiecesFacts
    <2> QED BY <2>1
<1> QED BY <1>2, <1>3, <1>4

\* A part of a list without repetitions has none.
LEMMA PartInjective ==
    ASSUME NEW list, IsList(list), IsInjective(list), NEW T
    PROVE  IsInjective(Part(list, T))
<1> DEFINE S == Range(list)  N == Len(list)  lists == Pieces(list, T)
<1>1. N \in Nat /\ DOMAIN list = 1..N /\ Part(list, T) = FlattenSeq(lists)
    BY ListFacts DEF Part, Pieces
<1>2. /\ lists \in Seq(Seq(S)) /\ Len(lists) = N
      /\ \A n \in 1..N : /\ list[n] \in S
                         /\ lists[n] = IF n \in T THEN <<list[n]>> ELSE <<>>
                         /\ Range(lists[n]) = IF n \in T THEN {list[n]} ELSE {}
    BY PiecesFacts
<1> HIDE DEF S, N, lists
<1>3. CASE N = 0
    <2>1. lists = <<>> /\ FlattenSeq(lists) = lists
        BY <1>2, <1>3, EmptySeq DEF FlattenSeq
    <2> QED BY <1>1, <2>1 DEF IsInjective
<1>4. CASE N # 0
    <2>1. PICK F : Flattens(F, lists, N) /\ FlattenSeq(lists) = F[N]
        BY <1>2, <1>4, FlattenRecursion
    <2>2. \A k \in 1..N : UpTo(S, F, lists, k)
        BY <1>2, <2>1, FlattensSteps
    <2> DEFINE U == {k \in Nat : k \in 1..N => IsInjective(F[k])}
    <2>3. 0 \in U
        OBVIOUS
    <2>4. ASSUME NEW k \in Nat, k \in U, k + 1 \in 1..N
          PROVE  IsInjective(F[k + 1])
        <3>1. IsInjective(<<>>) /\ IsInjective(<<list[k + 1]>>)
            BY DEF IsInjective
        <3>2. lists[k + 1] \in {<<>>, <<list[k + 1]>>}
            BY <1>2, <2>4
        <3>3. CASE k = 0
            <4>1. F[1] = lists[1]
                <5>1. UpTo(S, F, lists, 1)
                    BY <2>2, <2>4, <3>3
                <5> QED BY <5>1 DEF UpTo
            <4> QED BY <3>1, <3>2, <3>3, <4>1
        <3>4. CASE k # 0
            <4>1. k \in 1..N /\ k + 1 # 1 /\ k + 1 - 1 = k
                BY <1>1, <2>4, <3>4
            <4>2. IsInjective(F[k])
                BY <2>4, <4>1
            <4>3. F[k] \in Seq(S) /\ F[k + 1] = F[k] \o lists[k + 1]
                <5> DEFINE i == k + 1
                <5>1. UpTo(S, F, lists, k) /\ UpTo(S, F, lists, i)
                    BY <2>2, <2>4, <4>1
                <5>2. i # 1 /\ i - 1 = k
                    BY <4>1
                <5> HIDE DEF i
                <5>3. F[k] \in Seq(S) /\ F[i] = F[k] \o lists[i]
                    BY <5>1, <5>2 DEF UpTo
                <5> QED BY <5>3 DEF i
            <4>4. CASE k + 1 \notin T
                BY <1>2, <2>4, <4>2, <4>3, <4>4, ConcatEmptySeq
            <4>5. CASE k + 1 \in T
                <5>1. F[k + 1] = F[k] \o <<list[k + 1]>> /\ list[k + 1] \in S
                    BY <1>2, <2>4, <4>3, <4>5
                <5>2. ASSUME list[k + 1] \in Range(F[k])
                      PROVE  FALSE
                    <6>1. PICK i \in 1..k : list[k + 1] \in Range(lists[i])
                        <7>1. UpTo(S, F, lists, k)
                            BY <2>2, <4>1
                        <7> QED BY <5>2, <7>1 DEF UpTo
                    <6>2. i \in 1..N /\ k + 1 \in 1..N /\ i # k + 1
                        BY <1>1, <2>4
                    <6>3. list[k + 1] = list[i]
                        BY <1>2, <6>1, <6>2
                    <6> QED BY <1>1, <6>2, <6>3 DEF IsInjective
                <5> QED BY <4>2, <4>3, <5>1, <5>2, InjectiveAppend
            <4> QED BY <4>4, <4>5
        <3> QED BY <3>3, <3>4
    <2>5. Nat \subseteq U
        <3>1. \A k \in Nat : k \in U => k + 1 \in U
            BY <2>4
        <3> HIDE DEF U
        <3> QED BY <2>3, <3>1, SetInduction
    <2>6. IsInjective(F[N])
        BY <1>1, <1>4, <2>5
    <2> QED BY <1>1, <2>1, <2>6
<1> QED BY <1>3, <1>4

LEMMA SeqGrows ==
    ASSUME NEW A, NEW B, A \subseteq B, NEW s \in Seq(A)
    PROVE  s \in Seq(B)
<1>1. Len(s) \in Nat /\ s \in [1..Len(s) -> A]
    BY LenProperties
<1>2. s \in [1..Len(s) -> B]
    BY <1>1
<1> QED BY <1>1, <1>2, SeqDef

\* A function on the places of a list is a list.
LEMMA SameDomain ==
    ASSUME NEW list, IsList(list), NEW s, s = [n \in DOMAIN list |-> s[n]]
    PROVE  IsList(s) /\ \A x : x \in Range(s) <=> \E n \in DOMAIN list : x = s[n]
<1>1. Len(list) \in Nat /\ DOMAIN list = 1..Len(list)
    BY ListFacts
<1>2. DOMAIN s = DOMAIN list
    OBVIOUS
<1>3. s \in [1..Len(list) -> Range(s)]
    BY <1>1, <1>2 DEF Range
<1>4. IsList(s)
    BY <1>1, <1>3, SeqDef DEF IsList
<1> QED BY <1>2, <1>4 DEF Range

LEMMA FlattenLists ==
    ASSUME NEW lists, IsList(lists), \A list \in Range(lists) : IsList(list)
    PROVE  /\ IsList(FlattenSeq(lists))
           /\ \A x : x \in Range(FlattenSeq(lists)) <=> \E list \in Range(lists) : x \in Range(list)
<1> DEFINE S == UNION {Range(list) : list \in Range(lists)}
<1>1. \A list \in Range(lists) : list \in Seq(S)
    <2> TAKE list \in Range(lists)
    <2>1. Range(list) \subseteq S /\ list \in Seq(Range(list))
        BY DEF IsList
    <2> HIDE DEF S
    <2> QED BY <2>1, SeqGrows
<1>2. lists \in Seq(Seq(S))
    <2> HIDE DEF S
    <2>1. Range(lists) \subseteq Seq(S) /\ lists \in Seq(Range(lists))
        BY <1>1 DEF IsList
    <2> QED BY <2>1, SeqGrows
<1> HIDE DEF S
<1>3. /\ FlattenSeq(lists) \in Seq(S)
      /\ \A x : x \in Range(FlattenSeq(lists)) <=> \E i \in DOMAIN lists : x \in Range(lists[i])
    BY <1>2, FlattenFacts
<1>4. IsList(FlattenSeq(lists))
    BY <1>3, SubList
<1>5. Range(lists) = {lists[i] : i \in DOMAIN lists}
    BY DEF Range
<1> QED BY <1>3, <1>4, <1>5

-----------------------------------------------------------------------------
(* What a POST sends.                                                       *)

LEMMA NormalLogsFacts ==
    ASSUME NEW data, IsList(data)
    PROVE  /\ IsList(NormalLogs(data))
           /\ \A x : x \in Range(NormalLogs(data)) <=>
                     x \in Range(data) /\ x.service_name \notin {Absent, ""}
<1> DEFINE T == {n \in DOMAIN data : data[n].service_name \notin {Absent, ""}}
<1>1. NormalLogs(data) = Part(data, T)
    BY DEF NormalLogs, filter, Part
<1>2. \A n : n \in T <=> n \in DOMAIN data /\ data[n].service_name \notin {Absent, ""}
    OBVIOUS
<1> HIDE DEF T
<1>3. /\ Part(data, T) \in Seq(Range(data))
      /\ \A x : x \in Range(Part(data, T)) <=> \E n \in DOMAIN data : n \in T /\ x = data[n]
    BY PartFacts
<1>4. IsList(NormalLogs(data))
    BY <1>1, <1>3, SubList
<1>5. \A x : x \in Range(data) <=> \E n \in DOMAIN data : x = data[n]
    BY DEF Range
<1>6. \A x : x \in Range(Part(data, T)) <=> x \in Range(data) /\ x.service_name \notin {Absent, ""}
    BY <1>2, <1>3, <1>5, Zenon
<1> QED BY <1>1, <1>4, <1>6

\* The resources of a request as IsTraceData has them.
IsResource(resource) ==
    /\ IsList(resource.attributes) /\ IsList(resource.scopeSpans)
    /\ \A a1, a2 \in Range(resource.attributes) : a1.key = a2.key => a1 = a2
    /\ \A scope \in Range(resource.scopeSpans) :
          IsList(scope) /\ \A span \in Range(scope) : span.kind \notin {"SERVER", "CLIENT", "INTERNAL"}

LEMMA KeptSpansFacts ==
    ASSUME NEW resource, IsResource(resource)
    PROVE  /\ IsList(KeptSpans(resource))
           /\ \A x : x \in Range(KeptSpans(resource)) <=>
                     /\ \E scope \in Range(resource.scopeSpans) : x \in Range(scope)
                     /\ x.name \notin Middleware
<1> DEFINE spans == FlattenSeq(resource.scopeSpans)
           T == {n \in DOMAIN spans : spans[n].name \notin Middleware}
<1>1. KeptSpans(resource) = Part(spans, T)
    BY DEF KeptSpans, filter, Part
<1>2. \A n : n \in T <=> n \in DOMAIN spans /\ spans[n].name \notin Middleware
    OBVIOUS
<1>3. /\ IsList(spans)
      /\ \A x : x \in Range(spans) <=> \E scope \in Range(resource.scopeSpans) : x \in Range(scope)
    BY FlattenLists DEF IsResource
<1> HIDE DEF T, spans
<1>4. /\ Part(spans, T) \in Seq(Range(spans))
      /\ \A x : x \in Range(Part(spans, T)) <=> \E n \in DOMAIN spans : n \in T /\ x = spans[n]
    BY <1>3, PartFacts
<1>5. IsList(KeptSpans(resource))
    BY <1>1, <1>4, SubList
<1>6. \A x : x \in Range(spans) <=> \E n \in DOMAIN spans : x = spans[n]
    BY DEF Range
<1>7. \A x : x \in Range(Part(spans, T)) <=> x \in Range(spans) /\ x.name \notin Middleware
    BY <1>2, <1>4, <1>6, Zenon
<1> QED BY <1>1, <1>3, <1>5, <1>7

\* What becomes of a span of a resource.
SpanOf(resource, span) ==
    transformSpan(span, KnownValue(resource.attributes, "service.name"),
                  KnownValue(resource.attributes, "deployment.environment"))

LEMMA TransformFacts ==
    ASSUME NEW data, IsTraceData(data)
    PROVE  /\ IsList(transformTraceData(data))
           /\ \A x : x \in Range(transformTraceData(data)) <=>
                     \E resource \in Range(data.resourceSpans) :
                         \E span \in Range(KeptSpans(resource)) : x = SpanOf(resource, span)
<1> DEFINE Of(resource) == [n \in DOMAIN KeptSpans(resource) |-> SpanOf(resource, KeptSpans(resource)[n])]
           all == data.resourceSpans
           lists == [n \in DOMAIN all |-> Of(all[n])]
<1>1. transformTraceData(data) = FlattenSeq(lists)
    BY DEF transformTraceData, SpanOf
<1>2. IsList(all) /\ \A resource \in Range(all) : IsResource(resource)
    BY DEF IsTraceData, IsResource
<1>3. ASSUME NEW resource \in Range(all)
      PROVE  /\ IsList(Of(resource))
             /\ \A x : x \in Range(Of(resource)) <=>
                       \E span \in Range(KeptSpans(resource)) : x = SpanOf(resource, span)
    <2> DEFINE kept == KeptSpans(resource)
               sent == Of(resource)
    <2>1. IsList(kept)
        BY <1>2, <1>3, KeptSpansFacts
    <2>2. sent = [n \in DOMAIN kept |-> sent[n]] /\ \A n \in DOMAIN kept : sent[n] = SpanOf(resource, kept[n])
        OBVIOUS
    <2>3. Range(kept) = {kept[n] : n \in DOMAIN kept}
        BY DEF Range
    <2> HIDE DEF kept, sent
    <2>4. IsList(sent) /\ \A x : x \in Range(sent) <=> \E n \in DOMAIN kept : x = sent[n]
        BY <2>1, <2>2, SameDomain
    <2>5. \A x : x \in Range(sent) <=> \E span \in Range(kept) : x = SpanOf(resource, span)
        BY <2>2, <2>3, <2>4
    <2> QED BY <2>4, <2>5 DEF sent, kept
<1>4. IsList(lists) /\ \A x : x \in Range(lists) <=> \E n \in DOMAIN all : x = lists[n]
    <2>1. lists = [n \in DOMAIN all |-> lists[n]]
        OBVIOUS
    <2> HIDE DEF lists, all
    <2> QED BY <1>2, <2>1, SameDomain
<1>5. \A n \in DOMAIN all : lists[n] = Of(all[n]) /\ all[n] \in Range(all)
    BY DEF Range
<1>6. \A resource \in Range(all) : \E n \in DOMAIN all : resource = all[n]
    BY DEF Range
<1> HIDE DEF all, lists, Of
<1>7. \A list \in Range(lists) : \E resource \in Range(all) : list = Of(resource)
    BY <1>4, <1>5
<1>8. \A resource \in Range(all) : Of(resource) \in Range(lists)
    BY <1>4, <1>5, <1>6
<1>9. \A list \in Range(lists) : IsList(list)
    BY <1>3, <1>7
<1>10. /\ IsList(FlattenSeq(lists))
       /\ \A x : x \in Range(FlattenSeq(lists)) <=> \E list \in Range(lists) : x \in Range(list)
    BY <1>4, <1>9, FlattenLists
<1>11. \A x : x \in Range(FlattenSeq(lists)) <=>
              \E resource \in Range(all) : \E span \in Range(KeptSpans(resource)) : x = SpanOf(resource, span)
    BY <1>3, <1>7, <1>8, <1>10
<1> QED BY <1>1, <1>10, <1>11 DEF all

LEMMA MessagesList ==
    ASSUME NEW b \in DOMAIN Body
    PROVE  IsList(Messages[b])
<1>1. CASE Throws(Body[b])
    <2>1. Messages[b] = <<>>
        BY <1>1 DEF Messages
    <2> QED BY <2>1 DEF IsList
<1>2. CASE ~Throws(Body[b]) /\ Body[b].path = "logs"
    <2>1. Messages[b] = NormalLogs(Body[b].data)
        BY <1>2 DEF Messages
    <2>2. IsList(Body[b].data)
        BY <1>2, ProducerAssumption
    <2> QED BY <2>1, <2>2, NormalLogsFacts
<1>3. CASE ~Throws(Body[b]) /\ Body[b].path # "logs"
    <2>1. Messages[b] = Spans(Body[b])
        BY <1>3 DEF Messages
    <2>2. CASE Body[b].rawBody
        BY <1>3, <2>1, <2>2, ProducerAssumption, TransformFacts DEF Spans
    <2>3. CASE ~Body[b].rawBody
        BY <2>1, <2>3, ProducerAssumption DEF Spans
    <2> QED BY <2>2, <2>3
<1> QED BY <1>1, <1>2, <1>3

\* The numbers of a partition are those of its messages, each once.
LEMMA NumbersFacts ==
    ASSUME NEW b \in DOMAIN Body, NEW p \in Partitions
    PROVE  /\ IsList(NumbersFor[b][p]) /\ IsInjective(NumbersFor[b][p])
           /\ \A n : n \in Range(NumbersFor[b][p]) <=> n \in DOMAIN Messages[b] /\ PartitionOf[b][n] = p
<1> DEFINE all == [n \in DOMAIN Messages[b] |-> n]
           T == {n \in DOMAIN Messages[b] : PartitionOf[b][n] = p}
<1>1. NumbersFor[b][p] = Part(all, T)
    <2>1. NumbersFor[b][p] = filter(all, LAMBDA n : PartitionOf[b][n] = p)
        BY DEF NumbersFor
    <2> QED BY <2>1 DEF filter, Part
<1>2. IsList(all) /\ \A x : x \in Range(all) <=> \E n \in DOMAIN Messages[b] : x = all[n]
    <2>1. all = [n \in DOMAIN Messages[b] |-> all[n]]
        OBVIOUS
    <2> HIDE DEF all
    <2> QED BY <2>1, MessagesList, SameDomain
<1>3. IsInjective(all)
    BY DEF IsInjective
<1>4. DOMAIN all = DOMAIN Messages[b] /\ \A n \in DOMAIN all : all[n] = n
    OBVIOUS
<1>5. \A n : n \in T <=> n \in DOMAIN Messages[b] /\ PartitionOf[b][n] = p
    OBVIOUS
<1> HIDE DEF all, T
<1>6. /\ Part(all, T) \in Seq(Range(all))
      /\ \A x : x \in Range(Part(all, T)) <=> \E n \in DOMAIN all : n \in T /\ x = all[n]
    BY <1>2, PartFacts
<1>7. IsInjective(Part(all, T))
    BY <1>2, <1>3, PartInjective
<1>8. IsList(Part(all, T))
    BY <1>6, SubList
<1> QED BY <1>1, <1>4, <1>5, <1>6, <1>7, <1>8

-----------------------------------------------------------------------------
(* Messages stay what they are.                                             *)

IsSent(m) == \E r \in Requests : posted[r] # NoBody /\ \E n \in DOMAIN Messages[posted[r]] : m = <<r, n>>

LEMMA SentFacts ==
    /\ \A m : m \in SentMessages <=> IsSent(m)
    /\ \A m : m \in SentMessages' <=> IsSent(m)'
BY DEF SentMessages, IsSent

\* What a POST holds is not replaced.
PostedGrows == \A r \in Requests : posted[r] # NoBody => posted'[r] = posted[r]

SentStays ==
    /\ SentMessages \subseteq SentMessages'
    /\ \A m \in SentMessages : /\ m[1] \in Requests /\ posted[m[1]] # NoBody
                               /\ posted'[m[1]] = posted[m[1]]

LEMMA SentGrows ==
    ASSUME PostedGrows
    PROVE  SentStays
<1> SUFFICES ASSUME NEW m \in SentMessages
             PROVE  /\ m \in SentMessages' /\ m[1] \in Requests /\ posted[m[1]] # NoBody
                    /\ posted'[m[1]] = posted[m[1]]
    BY DEF SentStays
<1>1. PICK r \in Requests : posted[r] # NoBody /\ \E n \in DOMAIN Messages[posted[r]] : m = <<r, n>>
    BY SentFacts DEF IsSent
<1>2. m[1] = r /\ posted'[r] = posted[r]
    BY <1>1 DEF PostedGrows
<1>3. IsSent(m)'
    BY <1>1, <1>2 DEF IsSent
<1> QED BY <1>1, <1>2, <1>3, SentFacts

\* The messages of a batch are of its POST and its partition, each once.
LEMMA BatchFacts ==
    ASSUME NEW r \in Requests, posted[r] \in DOMAIN Body, posted[r] # NoBody, NEW p \in Partitions
    PROVE  /\ Batch(r, p) \in Seq(SentMessages) /\ IsInjective(Batch(r, p))
           /\ \A m \in Range(Batch(r, p)) : m[1] = r /\ Route(m) = p
           /\ \A n \in DOMAIN Messages[posted[r]] : Route(<<r, n>>) = p => <<r, n>> \in Range(Batch(r, p))
<1> DEFINE numbers == NumbersFor[posted[r]][p]
           batch == Batch(r, p)
<1>1. /\ IsList(numbers) /\ IsInjective(numbers)
      /\ \A n : n \in Range(numbers) <=> n \in DOMAIN Messages[posted[r]] /\ PartitionOf[posted[r]][n] = p
    BY NumbersFacts
<1>2. batch = [k \in DOMAIN numbers |-> <<r, numbers[k]>>]
    BY DEF Batch
<1> HIDE DEF numbers, batch
<1>3. DOMAIN batch = DOMAIN numbers /\ \A k \in DOMAIN numbers : batch[k] = <<r, numbers[k]>>
    BY <1>2
<1>4. IsList(batch) /\ \A x : x \in Range(batch) <=> \E k \in DOMAIN numbers : x = batch[k]
    <2>1. batch = [k \in DOMAIN numbers |-> batch[k]]
        BY <1>2, <1>3
    <2> QED BY <1>1, <2>1, SameDomain
<1>5. \A n : n \in Range(numbers) <=> \E k \in DOMAIN numbers : n = numbers[k]
    BY DEF Range
<1>6. /\ \A x \in Range(batch) : \E n \in Range(numbers) : x = <<r, n>>
      /\ \A n \in Range(numbers) : <<r, n>> \in Range(batch)
    <2>1. \A x \in Range(batch) : \E k \in DOMAIN numbers : x = <<r, numbers[k]>>
        BY <1>3, <1>4
    <2>2. \A k \in DOMAIN numbers : <<r, numbers[k]>> \in Range(batch)
        BY <1>3, <1>4
    <2> QED BY <1>5, <2>1, <2>2
<1>7. \A n \in Range(numbers) : <<r, n>> \in SentMessages /\ Route(<<r, n>>) = p
    BY <1>1, SentFacts DEF IsSent, Route
<1>8. Range(batch) \subseteq SentMessages
    BY <1>6, <1>7
<1>9. batch \in Seq(SentMessages)
    BY <1>4, <1>8, SeqGrows DEF IsList
<1>10. IsInjective(batch)
    <2>1. \A j, k \in DOMAIN numbers : batch[j] = batch[k] => numbers[j] = numbers[k]
        BY <1>3
    <2> QED BY <1>1, <1>3, <2>1 DEF IsInjective
<1>11. \A m \in Range(batch) : m[1] = r /\ Route(m) = p
    BY <1>6, <1>7
<1>12. \A n \in DOMAIN Messages[posted[r]] : Route(<<r, n>>) = p => <<r, n>> \in Range(batch)
    BY <1>1, <1>6 DEF Route
<1> QED BY <1>9, <1>10, <1>11, <1>12 DEF batch

-----------------------------------------------------------------------------
(* What a step of the producer does to the topics.                          *)

\* A partition gets messages that belong there and were not acknowledged.
Adds(p, t) ==
    /\ topic'[p] = topic[p] \o t
    /\ t \in Seq(SentMessages) /\ IsInjective(t)
    /\ \A m \in Range(t) : Route(m) = p /\ p \notin acked[m[1]]

\* It is acknowledged, or something went wrong.
TopicGrows ==
    /\ topic' = [p \in Partitions |-> topic'[p]]
    /\ \A p \in Partitions : \E t : /\ Adds(p, t)
                                    /\ t = <<>> \/ faults' = faults + 1 \/ \A m \in Range(t) : p \in acked'[m[1]]
    /\ \A r \in Requests : acked[r] \subseteq acked'[r]
    /\ faults' \in {faults, faults + 1}

LEMMA AddsNothing ==
    ASSUME NEW p \in Partitions, topic[p] \in Seq(SentMessages), topic'[p] = topic[p]
    PROVE  Adds(p, <<>>)
<1>1. topic[p] = topic[p] \o <<>>
    BY ConcatEmptySeq
<1>2. Range(<<>>) = {} /\ <<>> \in Seq(SentMessages) /\ IsInjective(<<>>)
    BY DEF Range, IsInjective
<1> QED BY <1>1, <1>2 DEF Adds

LEMMA AddsBatch ==
    ASSUME NEW r \in Requests, posted[r] \in DOMAIN Body, posted[r] # NoBody,
           NEW p \in Partitions, p \notin acked[r], topic'[p] = topic[p] \o Batch(r, p)
    PROVE  Adds(p, Batch(r, p)) /\ \A m \in Range(Batch(r, p)) : m[1] = r
BY BatchFacts DEF Adds

\* A POST that is under way has a body.
LEMMA Sending ==
    ASSUME ProducerTypeOK, NEW r \in Requests, request[r] = "sending"
    PROVE  posted[r] \in DOMAIN Body /\ posted[r] # NoBody
BY DEF ProducerTypeOK

\* The brokers carry out some of what is not acknowledged.
LEMMA AppendedFacts ==
    ASSUME ProducerTypeOK, NEW r \in Requests, request[r] = "sending",
           NEW parts, parts \subseteq Unacknowledged(r), topic' = Appended(r, parts)
    PROVE  /\ topic' = [p \in Partitions |-> topic'[p]]
           /\ \A p \in Partitions : IF p \in parts THEN /\ Adds(p, Batch(r, p))
                                                        /\ \A m \in Range(Batch(r, p)) : m[1] = r
                                                   ELSE Adds(p, <<>>)
<1>1. /\ topic' = [p \in Partitions |-> topic'[p]]
      /\ \A p \in Partitions : topic'[p] = IF p \in parts THEN topic[p] \o Batch(r, p) ELSE topic[p]
    BY DEF Appended
<1>2. ASSUME NEW p \in Partitions, p \in parts
      PROVE  Adds(p, Batch(r, p)) /\ \A m \in Range(Batch(r, p)) : m[1] = r
    BY <1>1, <1>2, Sending, AddsBatch DEF Unacknowledged
<1>3. ASSUME NEW p \in Partitions, p \notin parts
      PROVE  Adds(p, <<>>)
    BY <1>1, <1>3, AddsNothing DEF ProducerTypeOK
<1> QED BY <1>1, <1>2, <1>3

LEMMA TopicUnchanged ==
    ASSUME ProducerTypeOK, UNCHANGED <<topic, acked, faults>>
    PROVE  TopicGrows
BY AddsNothing DEF ProducerTypeOK, TopicGrows

LEMMA TopicSteps ==
    ASSUME ProducerTypeOK, ProducerNext
    PROVE  TopicGrows
<1>1. CASE Start
    BY <1>1, TopicUnchanged DEF Start
<1>2. CASE Crash
    <2> DEFINE open == {r \in Requests : request[r] = "sending"}
               Pending(p) == {<<>>} \cup {Batch(r, p) : r \in {r \in open : p \in Unacknowledged(r)}}
               parts == UNION {Unacknowledged(r) : r \in open}
    <2>1. UNCHANGED acked /\ faults' = faults + 1
        BY <1>2 DEF Crash, Fault
    <2>2. PICK last : /\ \A p \in parts : last[p] \in Pending(p)
                      /\ topic' = [p \in Partitions |-> IF p \in parts THEN topic[p] \o last[p] ELSE topic[p]]
        BY <1>2 DEF Crash
    <2> HIDE DEF parts
    <2>3. ASSUME NEW p \in Partitions
          PROVE  \E t : Adds(p, t)
        <3>1. topic'[p] = IF p \in parts THEN topic[p] \o last[p] ELSE topic[p]
            BY <2>2
        <3>2. topic[p] \in Seq(SentMessages)
            BY DEF ProducerTypeOK
        <3>3. CASE p \notin parts
            BY <3>1, <3>2, <3>3, AddsNothing
        <3>4. CASE p \in parts /\ last[p] = <<>>
            BY <3>1, <3>2, <3>4, ConcatEmptySeq, AddsNothing
        <3>5. CASE p \in parts /\ last[p] # <<>>
            <4>1. PICK r \in Requests : request[r] = "sending" /\ p \in Unacknowledged(r) /\ last[p] = Batch(r, p)
                BY <2>2, <3>5
            <4> QED BY <3>1, <3>5, <4>1, Sending, AddsBatch DEF Unacknowledged
        <3> QED BY <3>3, <3>4, <3>5
    <2>4. topic' = [p \in Partitions |-> topic'[p]]
        BY <2>2
    <2> QED BY <2>1, <2>3, <2>4 DEF TopicGrows
<1>3. ASSUME NEW r \in Requests, RequestStep(r)
      PROVE  TopicGrows
    <2>1. ASSUME NEW b \in DOMAIN Body, Post(r, b)
          PROVE  TopicGrows
        BY <2>1, TopicUnchanged DEF Post
    <2>2. ASSUME NEW p \in Partitions, Acknowledge(r, p)
          PROVE  TopicGrows
        <3>1. /\ request[r] = "sending" /\ p \in Unacknowledged(r) /\ topic' = Appended(r, {p})
              /\ acked' = [acked EXCEPT ![r] = @ \cup {p}] /\ UNCHANGED faults
            BY <2>2 DEF Acknowledge
        <3>2. p \in acked'[r] /\ \A q \in Requests : acked[q] \subseteq acked'[q]
            BY <3>1 DEF ProducerTypeOK
        <3>3. /\ topic' = [q \in Partitions |-> topic'[q]]
              /\ \A q \in Partitions : IF q \in {p} THEN /\ Adds(q, Batch(r, q))
                                                         /\ \A m \in Range(Batch(r, q)) : m[1] = r
                                                    ELSE Adds(q, <<>>)
            <4> DEFINE parts == {p}
            <4>1. parts \subseteq Unacknowledged(r) /\ topic' = Appended(r, parts) /\ request[r] = "sending"
                BY <3>1
            <4> HIDE DEF parts
            <4>2. /\ topic' = [q \in Partitions |-> topic'[q]]
                  /\ \A q \in Partitions : IF q \in parts THEN /\ Adds(q, Batch(r, q))
                                                               /\ \A m \in Range(Batch(r, q)) : m[1] = r
                                                          ELSE Adds(q, <<>>)
                BY <4>1, AppendedFacts
            <4> QED BY <4>2 DEF parts
        <3> QED BY <3>1, <3>2, <3>3 DEF TopicGrows
    <2>3. ASSUME NEW parts \in SUBSET Unacknowledged(r), AttemptEnds(r, parts), UNCHANGED acked
          PROVE  TopicGrows
        <3>1. request[r] = "sending" /\ topic' = Appended(r, parts) /\ faults' = faults + 1
            BY <2>3 DEF AttemptEnds, Fault
        <3>2. /\ topic' = [q \in Partitions |-> topic'[q]]
              /\ \A q \in Partitions : IF q \in parts THEN /\ Adds(q, Batch(r, q))
                                                           /\ \A m \in Range(Batch(r, q)) : m[1] = r
                                                      ELSE Adds(q, <<>>)
            BY <3>1, AppendedFacts
        <3> QED BY <2>3, <3>1, <3>2 DEF TopicGrows
    <2>4. CASE Accept(r)
        BY <2>4, TopicUnchanged DEF Accept
    <2> QED BY <1>3, <2>1, <2>2, <2>3, <2>4 DEF RequestStep, Retry, GiveUp
<1> QED BY <1>1, <1>2, <1>3 DEF ProducerNext

-----------------------------------------------------------------------------
(* The type invariant.                                                      *)

ProducerRest ==
    /\ connected \in BOOLEAN
    /\ request \in [Requests -> States]
    /\ posted \in [Requests -> DOMAIN Body \cup {NoBody}]
    /\ acked \in [Requests -> SUBSET Partitions]
    /\ retries \in [Requests -> 0..MaxRetries]
    /\ \A r \in Requests : /\ acked[r] \subseteq Needed(r)
                           /\ request[r] = "sending" => connected
                           /\ request[r] = "new" <=> posted[r] = NoBody
    /\ faults \in 0..MaxFaults

TopicOK ==
    /\ topic \in [Partitions -> Seq(SentMessages)]
    /\ \A p \in Partitions : \A m \in Range(topic[p]) : Route(m) = p

ProcessorOK ==
    /\ place \in [Partitions -> Nat] /\ \A p \in Partitions : place[p] <= Len(topic[p])
    /\ IsABag(stored) /\ BagToSet(stored) \subseteq SentMessages
    /\ IsABag(forwarded) /\ BagToSet(forwarded) \subseteq SentMessages
    /\ \A m \in BagToSet(forwarded) : Valid(m) /\ IsErrorLog(m)
    /\ lost \subseteq SentMessages
    /\ mishaps \in 0..MaxMishaps

LEMMA TypeParts == TypeOK <=> ProducerRest /\ TopicOK /\ ProcessorOK
BY DEF TypeOK, ProducerTypeOK, ProducerRest, TopicOK, ProcessorOK

LEMMA ProducerParts == ProducerTypeOK <=> ProducerRest /\ TopicOK
BY DEF ProducerTypeOK, ProducerRest, TopicOK

LEMMA PostedSteps ==
    ASSUME ProducerRest, ProducerNext
    PROVE  PostedGrows
<1>1. CASE UNCHANGED posted
    BY <1>1 DEF PostedGrows
<1>2. ASSUME NEW r \in Requests, NEW b \in DOMAIN Body, Post(r, b)
      PROVE  PostedGrows
    BY <1>2 DEF Post, PostedGrows, ProducerRest
<1> QED BY <1>1, <1>2 DEF ProducerNext, Start, Crash, RequestStep, Acknowledge, Retry, GiveUp, Accept

LEMMA ProducerRestSteps ==
    ASSUME ProducerRest, ProducerNext
    PROVE  ProducerRest'
<1> USE DEF ProducerRest, States
<1>1. CASE Start
    BY <1>1 DEF Start, Needed
<1>2. CASE Crash
    <2>1. /\ connected' = FALSE /\ UNCHANGED <<posted, acked, retries>>
          /\ request' = [r \in Requests |-> IF request[r] = "sending" THEN "cut" ELSE request[r]]
          /\ faults < MaxFaults /\ faults' = faults + 1
        BY <1>2 DEF Crash, Fault
    <2>2. request' \in [Requests -> States] /\ \A r \in Requests : request'[r] # "sending"
        BY <2>1
    <2>3. \A r \in Requests : request'[r] = "new" <=> posted'[r] = NoBody
        BY <2>1
    <2>4. faults' \in 0..MaxFaults
        BY <2>1, ProducerAssumption
    <2>5. \A r \in Requests : acked'[r] \subseteq Needed(r)'
        BY <2>1 DEF Needed
    <2> QED BY <2>1, <2>2, <2>3, <2>4, <2>5
<1>3. ASSUME NEW r \in Requests, NEW b \in DOMAIN Body, Post(r, b)
      PROVE  ProducerRest'
    <2>1. posted[r] = NoBody /\ b # NoBody
        BY <1>3, ProducerAssumption DEF Post
    <2>2. acked[r] = {}
        BY <2>1 DEF Needed
    <2> QED BY <1>3, <2>1, <2>2 DEF Post, Becomes, Needed
<1>4. ASSUME NEW r \in Requests, NEW p \in Partitions, Acknowledge(r, p)
      PROVE  ProducerRest'
    BY <1>4 DEF Acknowledge, Unacknowledged, Needed
<1>5. ASSUME NEW r \in Requests, NEW parts, Retry(r, parts)
      PROVE  ProducerRest'
    BY <1>5, ProducerAssumption DEF Retry, AttemptEnds, Fault, Needed
<1>6. ASSUME NEW r \in Requests, NEW parts, GiveUp(r, parts)
      PROVE  ProducerRest'
    BY <1>6, ProducerAssumption DEF GiveUp, AttemptEnds, Fault, Becomes, Needed
<1>7. ASSUME NEW r \in Requests, Accept(r)
      PROVE  ProducerRest'
    BY <1>7 DEF Accept, Becomes, Needed
<1> HIDE DEF ProducerRest
<1> QED BY <1>1, <1>2, <1>3, <1>4, <1>5, <1>6, <1>7 DEF ProducerNext, RequestStep

LEMMA TopicOKSteps ==
    ASSUME TopicOK, SentStays, TopicGrows
    PROVE  /\ TopicOK'
           /\ \A p \in Partitions : /\ Len(topic'[p]) \in Nat /\ Len(topic[p]) <= Len(topic'[p])
                                    /\ \A k \in 1..Len(topic[p]) : topic'[p][k] = topic[p][k]
<1>1. ASSUME NEW p \in Partitions
      PROVE  /\ topic'[p] \in Seq(SentMessages')
             /\ \A m \in Range(topic'[p]) : Route(m)' = p
             /\ Len(topic'[p]) \in Nat /\ Len(topic[p]) <= Len(topic'[p])
             /\ \A k \in 1..Len(topic[p]) : topic'[p][k] = topic[p][k]
    <2>1. PICK t : Adds(p, t)
        BY DEF TopicGrows
    <2>2. topic[p] \in Seq(SentMessages) /\ t \in Seq(SentMessages) /\ topic'[p] = topic[p] \o t
        BY <2>1 DEF TopicOK, Adds
    <2> DEFINE s == topic[p]  S == SentMessages  u == topic'[p]
    <2>3. /\ u \in Seq(S) /\ Range(u) = Range(s) \cup Range(t)
          /\ Len(u) \in Nat /\ Len(s) <= Len(u) /\ \A k \in 1..Len(s) : u[k] = s[k]
        <3> HIDE DEF s, S, u
        <3>1. s \in Seq(S) /\ t \in Seq(S) /\ u = s \o t
            BY <2>2 DEF s, S, u
        <3> QED BY <3>1, ConcatProperties, RangeConcatenation, LenProperties
    <2>4. u \in Seq(SentMessages')
        BY <2>3, SeqGrows DEF SentStays
    <2>5. \A m \in Range(u) : m \in SentMessages /\ Route(m) = p
        <3>1. Range(s) \subseteq S /\ Range(t) \subseteq S
            BY <2>2, RangeOfSeq
        <3> QED BY <2>1, <2>3, <3>1 DEF TopicOK, Adds
    <2>6. \A m \in Range(u) : Route(m)' = p
        BY <2>5 DEF SentStays, Route
    <2> QED BY <2>3, <2>4, <2>6
<1>2. topic' = [p \in Partitions |-> topic'[p]]
    BY DEF TopicGrows
<1> QED BY <1>1, <1>2 DEF TopicOK

\* What the consumers make of a message stays, too.
LEMMA ViewStays ==
    ASSUME SentStays, NEW m \in SentMessages
    PROVE  /\ Event(m)' = Event(m) /\ BodyOf(m)' = BodyOf(m) /\ Route(m)' = Route(m)
           /\ Valid(m)' <=> Valid(m)
           /\ IsErrorLog(m)' <=> IsErrorLog(m)
           /\ Report(m)' = Report(m)
<1>1. posted'[m[1]] = posted[m[1]]
    BY DEF SentStays
<1> QED BY <1>1 DEF Event, BodyOf, Route, Valid, IsErrorLog, Report

LEMMA ProducerSteps ==
    ASSUME TypeOK, ProducerNext, UNCHANGED processorVars
    PROVE  TypeOK'
<1>1. ProducerRest /\ TopicOK /\ ProcessorOK /\ ProducerTypeOK
    BY TypeParts, ProducerParts
<1>2. SentStays
    BY <1>1, PostedSteps, SentGrows
<1>3. TopicGrows
    BY <1>1, TopicSteps
<1>4. ProducerRest'
    BY <1>1, ProducerRestSteps
<1>5. /\ TopicOK'
      /\ \A p \in Partitions : Len(topic'[p]) \in Nat /\ Len(topic[p]) <= Len(topic'[p])
    BY <1>1, <1>2, <1>3, TopicOKSteps
<1>6. ProcessorOK'
    <2>1. \A p \in Partitions : place[p] \in Nat /\ place[p] <= Len(topic'[p])
        <3>1. \A p \in Partitions : place[p] \in Nat /\ place[p] <= Len(topic[p]) /\ Len(topic[p]) \in Nat
            BY <1>1, LenProperties DEF ProcessorOK, TopicOK
        <3> QED BY <1>5, <3>1
    <2>2. \A m \in BagToSet(forwarded) : Valid(m)' /\ IsErrorLog(m)'
        BY <1>1, <1>2, ViewStays DEF ProcessorOK
    <2> QED BY <1>1, <1>2, <2>1, <2>2 DEF ProcessorOK, SentStays, processorVars
<1>7. (TypeOK <=> ProducerRest /\ TopicOK /\ ProcessorOK)'
    BY TypeParts, PTL
<1> QED BY <1>4, <1>5, <1>6, <1>7

Count(bag, m) == IF m \in BagToSet(bag) THEN bag[m] ELSE 0

LEMMA KeptFacts ==
    ASSUME NEW bag, IsABag(bag), NEW m
    PROVE  /\ IsABag(Kept(bag, m)) /\ BagToSet(Kept(bag, m)) = BagToSet(bag) \cup {m}
           /\ \A x : Count(Kept(bag, m), x) = IF x = m THEN Count(bag, x) + 1 ELSE Count(bag, x)
<1> DEFINE more == Kept(bag, m)
<1>1. DOMAIN more = DOMAIN bag \cup {m}
    BY DEF Kept, (+), SetToBag
<1>2. \A x \in DOMAIN bag : bag[x] \in Nat /\ bag[x] > 0
    BY DEF IsABag
<1>3. ASSUME NEW x \in DOMAIN bag \cup {m}
      PROVE  more[x] = IF x = m THEN Count(bag, x) + 1 ELSE Count(bag, x)
    BY <1>2, <1>3 DEF Kept, (+), SetToBag, Count, BagToSet
<1>4. more = [x \in DOMAIN bag \cup {m} |-> more[x]]
    BY DEF Kept, (+), SetToBag
<1> HIDE DEF more
<1>5. \A x : Count(more, x) = IF x = m THEN Count(bag, x) + 1 ELSE Count(bag, x)
    BY <1>1, <1>3 DEF Count, BagToSet
<1>6. \A x \in DOMAIN more : more[x] \in {n \in Nat : n > 0}
    BY <1>1, <1>2, <1>3 DEF Count, BagToSet
<1>7. IsABag(more)
    BY <1>1, <1>4, <1>6 DEF IsABag
<1> QED BY <1>1, <1>5, <1>7 DEF more, BagToSet

LEMMA CurrentFacts ==
    ASSUME TopicOK, ProcessorOK, NEW p \in Partitions, place[p] < Len(topic[p])
    PROVE  /\ place[p] + 1 \in 1..Len(topic[p]) /\ Len(topic[p]) \in Nat
           /\ Current(p) = topic[p][place[p] + 1]
           /\ Current(p) \in SentMessages /\ Route(Current(p)) = p
<1>1. topic[p] \in Seq(SentMessages) /\ place[p] \in Nat
    BY DEF TopicOK, ProcessorOK
<1>2. /\ Len(topic[p]) \in Nat /\ DOMAIN topic[p] = 1..Len(topic[p])
      /\ \A k \in 1..Len(topic[p]) : topic[p][k] \in SentMessages
    BY <1>1, LenProperties, ElementOfSeq
<1>3. place[p] + 1 \in 1..Len(topic[p])
    BY <1>1, <1>2
<1>4. Current(p) \in SentMessages /\ Current(p) \in Range(topic[p])
    BY <1>2, <1>3 DEF Current, Range
<1> QED BY <1>2, <1>3, <1>4 DEF TopicOK, Current

\* Steps of the stream processor leave the producer and the topics alone.
LEMMA ProducerStays ==
    ASSUME ProducerRest, TopicOK, UNCHANGED producerVars
    PROVE  ProducerRest' /\ TopicOK' /\ SentMessages' = SentMessages /\ SentStays
<1> USE DEF producerVars
<1>1. SentMessages' = SentMessages /\ PostedGrows
    BY DEF SentMessages, PostedGrows
<1>2. SentStays
    BY <1>1, SentGrows
<1> QED BY <1>1, <1>2 DEF ProducerRest, Needed, TopicOK, Route

LEMMA PlaceSteps ==
    ASSUME TopicOK, ProcessorOK, NEW p \in Partitions, UNCHANGED producerVars,
           \/ Handles(p)
           \/ \E k \in 0..(place[p] - 1) : place' = [place EXCEPT ![p] = k]
    PROVE  place' \in [Partitions -> Nat] /\ \A q \in Partitions : place'[q] <= Len(topic'[q])
<1>1. place \in [Partitions -> Nat] /\ \A q \in Partitions : place[q] <= Len(topic[q])
    BY DEF ProcessorOK
<1>2. topic' = topic /\ \A q \in Partitions : Len(topic[q]) \in Nat
    BY LenProperties DEF TopicOK, producerVars
<1>3. CASE Handles(p)
    BY <1>1, <1>2, <1>3 DEF Handles
<1>4. ASSUME NEW k \in 0..(place[p] - 1), place' = [place EXCEPT ![p] = k]
      PROVE  place' \in [Partitions -> Nat] /\ \A q \in Partitions : place'[q] <= Len(topic'[q])
    BY <1>1, <1>2, <1>4
<1> QED BY <1>3, <1>4

LEMMA ProcessorSteps ==
    ASSUME TypeOK, NEW p \in Partitions, ProcessorStep(p)
    PROVE  TypeOK'
<1>1. ProducerRest /\ TopicOK /\ ProcessorOK
    BY TypeParts
<1>2. UNCHANGED producerVars
    BY DEF ProcessorStep, Handle, Refuse, Store, StoreAndForward, Lose, ForwardFails, Redeliver, Handles
<1>3. ProducerRest' /\ TopicOK' /\ SentMessages' = SentMessages /\ SentStays
    BY <1>1, <1>2, ProducerStays
<1>4. place' \in [Partitions -> Nat] /\ \A q \in Partitions : place'[q] <= Len(topic'[q])
    <2>1. Handles(p) \/ \E k \in 0..(place[p] - 1) : place' = [place EXCEPT ![p] = k]
        BY DEF ProcessorStep, Handle, Refuse, Store, StoreAndForward, Lose, ForwardFails, Redeliver
    <2> QED BY <1>1, <1>2, <2>1, PlaceSteps
<1> DEFINE m == Current(p)
           Good(bag) == IsABag(bag) /\ BagToSet(bag) \subseteq SentMessages
           Errors(bag) == \A x \in BagToSet(bag) : Valid(x) /\ IsErrorLog(x)
<1>5. Handles(p) => m \in SentMessages
    BY <1>1, CurrentFacts DEF Handles
<1>6. ASSUME NEW bag, Good(bag), Handles(p)
      PROVE  /\ Good(Kept(bag, m))
             /\ Errors(bag) /\ Valid(m) /\ IsErrorLog(m) => Errors(Kept(bag, m))
    <2> HIDE DEF m
    <2> QED BY <1>5, <1>6, KeptFacts
<1>7. Good(stored) /\ Good(forwarded) /\ Errors(forwarded) /\ lost \subseteq SentMessages
    BY <1>1 DEF ProcessorOK
<1> HIDE DEF m
<1>8. Good(stored')
    <2>1. stored' = stored \/ (Handles(p) /\ stored' = Kept(stored, m))
        BY DEF ProcessorStep, Handle, Refuse, Store, StoreAndForward, Lose, ForwardFails, Redeliver, m
    <2> HIDE DEF Good
    <2> QED BY <1>6, <1>7, <2>1
<1>9. Good(forwarded') /\ Errors(forwarded')
    <2>1. \/ forwarded' = forwarded
          \/ /\ Handles(p) /\ Valid(m) /\ IsErrorLog(m)
             /\ forwarded' \in {Kept(forwarded, m), Kept(Kept(forwarded, m), m)}
        BY DEF ProcessorStep, Handle, Refuse, Store, StoreAndForward, Lose, ForwardFails, Redeliver, m
    <2> HIDE DEF Good, Errors
    <2> QED BY <1>6, <1>7, <2>1
<1>10. lost' \subseteq SentMessages
    <2>1. lost' = lost \/ (Handles(p) /\ lost' = lost \cup {m})
        BY DEF ProcessorStep, Handle, Refuse, Store, StoreAndForward, Lose, ForwardFails, Redeliver, m
    <2> QED BY <1>5, <1>7, <2>1
<1>11. mishaps' \in 0..MaxMishaps
    <2>1. mishaps' = mishaps \/ Mishap
        BY DEF ProcessorStep, Handle, Refuse, Store, StoreAndForward, Lose, ForwardFails, Redeliver
    <2> QED BY <1>1, <2>1, DeliveryAssumption DEF Mishap, ProcessorOK
<1>12. \A x \in BagToSet(forwarded') : Valid(x)' /\ IsErrorLog(x)'
    BY <1>3, <1>9, ViewStays
<1>13. ProcessorOK'
    BY <1>3, <1>4, <1>8, <1>9, <1>10, <1>11, <1>12 DEF ProcessorOK
<1>14. (TypeOK <=> ProducerRest /\ TopicOK /\ ProcessorOK)'
    BY TypeParts, PTL
<1> QED BY <1>3, <1>13, <1>14

LEMMA TypeInit == Init => TypeOK
<1> SUFFICES ASSUME Init PROVE TypeOK
    OBVIOUS
<1>1. ProducerRest
    <2> USE DEF Init, ProducerInit
    <2>1. request \in [Requests -> States] /\ connected \in BOOLEAN
        BY DEF States
    <2>2. acked \in [Requests -> SUBSET Partitions] /\ posted \in [Requests -> DOMAIN Body \cup {NoBody}]
        OBVIOUS
    <2>3. retries \in [Requests -> 0..MaxRetries] /\ faults \in 0..MaxFaults
        BY ProducerAssumption
    <2>4. \A r \in Requests : /\ acked[r] \subseteq Needed(r)
                              /\ request[r] = "sending" => connected
                              /\ request[r] = "new" <=> posted[r] = NoBody
        OBVIOUS
    <2> QED BY <2>1, <2>2, <2>3, <2>4 DEF ProducerRest
<1>2. TopicOK
    <2>1. <<>> \in Seq(SentMessages) /\ Range(<<>>) = {}
        BY DEF Range
    <2> QED BY <2>1 DEF Init, ProducerInit, TopicOK
<1>3. ProcessorOK
    <2>1. \A p \in Partitions : topic[p] = <<>>
        BY DEF Init, ProducerInit
    <2>2. IsABag(EmptyBag) /\ BagToSet(EmptyBag) = {}
        BY DEF IsABag, EmptyBag, SetToBag, BagToSet
    <2>3. place \in [Partitions -> Nat] /\ \A p \in Partitions : place[p] <= Len(topic[p])
        BY <2>1 DEF Init
    <2> QED BY <2>2, <2>3, DeliveryAssumption DEF Init, ProcessorOK
<1> QED BY <1>1, <1>2, <1>3, TypeParts

LEMMA TypeStutter ==
    ASSUME TypeOK, UNCHANGED vars
    PROVE  TypeOK'
<1>1. ProducerRest /\ TopicOK /\ ProcessorOK
    BY TypeParts
<1>2. ProducerRest' /\ TopicOK' /\ SentMessages' = SentMessages /\ SentStays
    BY <1>1, ProducerStays DEF vars
<1>3. \A m \in BagToSet(forwarded) : Valid(m)' /\ IsErrorLog(m)'
    BY <1>1, <1>2, ViewStays DEF ProcessorOK
<1>4. ProcessorOK'
    BY <1>1, <1>2, <1>3 DEF ProcessorOK, vars, processorVars, producerVars
<1>5. (TypeOK <=> ProducerRest /\ TopicOK /\ ProcessorOK)'
    BY TypeParts, PTL
<1> QED BY <1>2, <1>4, <1>5

\* In every state the fields have their types: above all, the topics hold only
\* messages that a POST sent, each in its partition, the stream processor has not
\* read past their ends, and what is stored or forwarded came from a POST.
THEOREM TypeCorrect == Spec => []TypeOK
<1>1. TypeOK /\ [Next]_vars => TypeOK'
    BY ProducerSteps, ProcessorSteps, TypeStutter DEF Next
<1> QED BY <1>1, TypeInit, PTL DEF Spec

-----------------------------------------------------------------------------
(* How often a message is in a list.                                        *)

\* Among the first n elements of s.
Copies(s, m, n) == Cardinality({k \in 1..n : s[k] = m})

LEMMA CopiesType ==
    ASSUME NEW s, NEW m, NEW n \in Nat
    PROVE  IsFiniteSet({k \in 1..n : s[k] = m}) /\ Copies(s, m, n) \in Nat
<1>1. IsFiniteSet(1..n)
    BY FS_Interval
<1>2. IsFiniteSet({k \in 1..n : s[k] = m})
    BY <1>1, FS_Subset
<1> QED BY <1>2, FS_CardinalityType DEF Copies

LEMMA CopiesGrow ==
    ASSUME NEW s, NEW m, NEW n1 \in Nat, NEW n2 \in Nat, n1 <= n2
    PROVE  Copies(s, m, n1) <= Copies(s, m, n2)
<1> DEFINE A == {k \in 1..n1 : s[k] = m}
           B == {k \in 1..n2 : s[k] = m}
<1>1. A \subseteq B
    OBVIOUS
<1>2. IsFiniteSet(B)
    BY CopiesType
<1>3. Copies(s, m, n1) = Cardinality(A) /\ Copies(s, m, n2) = Cardinality(B)
    BY DEF Copies
<1> HIDE DEF A, B
<1> QED BY <1>1, <1>2, <1>3, FS_Subset

LEMMA CopiesNext ==
    ASSUME NEW s, NEW m, NEW n \in Nat
    PROVE  Copies(s, m, n + 1) = IF s[n + 1] = m THEN Copies(s, m, n) + 1 ELSE Copies(s, m, n)
<1> DEFINE A == {k \in 1..n : s[k] = m}
           B == {k \in 1..(n + 1) : s[k] = m}
<1>1. B = IF s[n + 1] = m THEN A \cup {n + 1} ELSE A
    OBVIOUS
<1>2. IsFiniteSet(A) /\ n + 1 \notin A
    <2>1. IsFiniteSet(A)
        BY CopiesType
    <2> QED BY <2>1
<1>3. Cardinality(A \cup {n + 1}) = Cardinality(A) + 1
    <2> HIDE DEF A
    <2> QED BY <1>2, FS_AddElement
<1>4. Copies(s, m, n + 1) = Cardinality(B) /\ Copies(s, m, n) = Cardinality(A)
    BY DEF Copies
<1> HIDE DEF A, B
<1> QED BY <1>1, <1>3, <1>4

LEMMA CopiesSame ==
    ASSUME NEW s, NEW t, NEW m, NEW n \in Nat, \A k \in 1..n : s[k] = t[k]
    PROVE  Copies(s, m, n) = Copies(t, m, n)
<1>1. {k \in 1..n : s[k] = m} = {k \in 1..n : t[k] = m}
    OBVIOUS
<1> QED BY <1>1 DEF Copies

LEMMA CopiesNone ==
    ASSUME NEW S, NEW s \in Seq(S), NEW m, m \notin S, NEW n \in Nat, n <= Len(s)
    PROVE  Copies(s, m, n) = 0
<1>1. \A k \in 1..n : s[k] \in S
    BY LenProperties, ElementOfSeq
<1>2. {k \in 1..n : s[k] = m} = {}
    BY <1>1
<1> QED BY <1>2, FS_EmptySet DEF Copies

\* A list without repetitions adds one copy at most.
LEMMA CopiesAppended ==
    ASSUME NEW S, NEW s \in Seq(S), NEW t \in Seq(S), IsInjective(t), NEW m
    PROVE  /\ Len(s) \in Nat /\ Len(s \o t) \in Nat
           /\ Copies(s \o t, m, Len(s \o t)) <=
                 IF m \in Range(t) THEN Copies(s, m, Len(s)) + 1 ELSE Copies(s, m, Len(s))
<1> DEFINE u == s \o t
           A == {k \in 1..Len(s) : s[k] = m}
           B == {k \in 1..Len(u) : u[k] = m}
<1>1. /\ Len(s) \in Nat /\ Len(t) \in Nat /\ Len(u) = Len(s) + Len(t)
      /\ DOMAIN t = 1..Len(t)
      /\ \A k \in 1..Len(s) : u[k] = s[k]
      /\ \A k \in (Len(s) + 1)..Len(u) : k - Len(s) \in 1..Len(t) /\ u[k] = t[k - Len(s)]
    BY LenProperties, ConcatProperties
<1> HIDE DEF u
<1>2. IsFiniteSet(A) /\ Copies(s, m, Len(s)) = Cardinality(A) /\ Cardinality(A) \in Nat
    BY <1>1, CopiesType DEF Copies
<1>3. Copies(u, m, Len(u)) = Cardinality(B)
    BY DEF Copies
<1>4. \A k \in B : k \notin A => k - Len(s) \in DOMAIN t /\ t[k - Len(s)] = m
    BY <1>1
<1>5. A \subseteq B
    BY <1>1
<1>6. CASE m \notin Range(t)
    <2>1. B = A
        BY <1>4, <1>5, <1>6 DEF Range
    <2> HIDE DEF A, B
    <2> QED BY <1>1, <1>2, <1>3, <1>6, <2>1 DEF u
<1>7. CASE m \in Range(t)
    <2>1. PICK j \in DOMAIN t : t[j] = m
        BY <1>7 DEF Range
    <2>2. \A i \in DOMAIN t : t[i] = m => i = j
        BY <2>1 DEF IsInjective
    <2>3. B \subseteq A \cup {Len(s) + j}
        <3>1. \A k \in B : k \in Int
            BY <1>1
        <3>2. j \in Int
            BY <1>1, <2>1
        <3> HIDE DEF A, B
        <3> QED BY <1>1, <1>4, <2>2, <3>1, <3>2
    <2> HIDE DEF A, B
    <2>4. /\ IsFiniteSet(A \cup {Len(s) + j})
          /\ Cardinality(A \cup {Len(s) + j}) \in {Cardinality(A), Cardinality(A) + 1}
        BY <1>2, FS_AddElement
    <2>5. Cardinality(B) <= Cardinality(A \cup {Len(s) + j})
        BY <2>3, <2>4, FS_Subset
    <2>6. Cardinality(B) \in Nat
        BY <2>3, <2>4, FS_Subset, FS_CardinalityType
    <2>7. Cardinality(B) <= Cardinality(A) + 1
        BY <1>2, <2>4, <2>5, <2>6
    <2> QED BY <1>1, <1>2, <1>3, <1>7, <2>7 DEF u
<1> QED BY <1>6, <1>7

-----------------------------------------------------------------------------
(* Copies of a message: in its topic at most one for each failed attempt and *)
(* one that was acknowledged; and the stream processor stores and forwards a *)
(* message as often as it has read it, and for each mishap at most as often  *)
(* again as it is in the topic.                                              *)

TopicCopies ==
    \A p \in Partitions : \A m \in SentMessages :
        Copies(topic[p], m, Len(topic[p])) <= IF p \in acked[m[1]] THEN faults + 1 ELSE faults

\* How often a message is in its partition, and how often it has been read.
Held(m) == Copies(topic[Route(m)], m, Len(topic[Route(m)]))
WasRead(m) == Copies(topic[Route(m)], m, place[Route(m)])

Handled(bag) ==
    /\ \A m \in BagToSet(bag) : Route(m) \in Partitions
    /\ \A m \in SentMessages :
          Route(m) \in Partitions => Count(bag, m) <= WasRead(m) + mishaps * Held(m)

IInv == TypeOK /\ TopicCopies /\ Handled(stored) /\ Handled(forwarded)

LEMMA TopicCopiesSteps ==
    ASSUME TypeOK, TopicCopies, SentStays, TopicGrows
    PROVE  TopicCopies'
<1> SUFFICES ASSUME NEW p \in Partitions, NEW m \in SentMessages'
             PROVE  Copies(topic'[p], m, Len(topic'[p])) <=
                        IF p \in acked'[m[1]] THEN faults' + 1 ELSE faults'
    BY DEF TopicCopies
<1>1. ProducerRest /\ TopicOK
    BY TypeParts
<1>2. PICK t : /\ Adds(p, t)
               /\ t = <<>> \/ faults' = faults + 1 \/ \A x \in Range(t) : p \in acked'[x[1]]
    BY DEF TopicGrows
<1> DEFINE s == topic[p]  S == SentMessages
           old == Copies(s, m, Len(s))
           new == Copies(topic'[p], m, Len(topic'[p]))
           f == faults  f1 == faults'
<1>3. s \in Seq(S) /\ t \in Seq(S) /\ IsInjective(t) /\ topic'[p] = s \o t
    BY <1>1, <1>2 DEF TopicOK, Adds
<1>4. /\ Len(s) \in Nat /\ Len(topic'[p]) \in Nat
      /\ m \in Range(t) => new <= old + 1
      /\ m \notin Range(t) => new <= old
    <2> HIDE DEF s, S
    <2> QED BY <1>3, CopiesAppended
<1>5. old \in Nat /\ new \in Nat
    BY <1>4, CopiesType
<1>6. f \in Nat /\ f1 \in Nat /\ f <= f1
    BY <1>1 DEF ProducerRest, TopicGrows
<1>7. CASE m \in SentMessages
    <2>1. /\ old <= f + 1
          /\ p \notin acked[m[1]] => old <= f
        <3>1. old <= IF p \in acked[m[1]] THEN faults + 1 ELSE faults
            BY <1>7 DEF TopicCopies
        <3> HIDE DEF old
        <3> QED BY <1>5, <1>6, <3>1
    <2>2. p \in acked[m[1]] => p \in acked'[m[1]]
        BY <1>7 DEF TopicGrows, SentStays
    <2>3. m \in Range(t) => p \notin acked[m[1]] /\ (f1 = f + 1 \/ p \in acked'[m[1]])
        <3>1. m \in Range(t) => t # <<>>
            BY DEF Range
        <3> QED BY <1>2, <3>1 DEF Adds
    <2> HIDE DEF old, new, f, f1
    <2>4. CASE m \in Range(t)
        <3>1. new <= old + 1 /\ old <= f /\ (f1 = f + 1 \/ p \in acked'[m[1]])
            BY <1>4, <2>1, <2>3, <2>4
        <3>2. CASE f1 = f + 1
            <4>1. new <= f1 /\ new <= f1 + 1
                BY <1>5, <1>6, <3>1, <3>2
            <4> QED BY <4>1 DEF new, f1
        <3>3. CASE p \in acked'[m[1]]
            <4>1. new <= f1 + 1
                BY <1>5, <1>6, <3>1
            <4> QED BY <3>3, <4>1 DEF new, f1
        <3> QED BY <3>1, <3>2, <3>3
    <2>5. CASE m \notin Range(t)
        <3>1. new <= old
            BY <1>4, <2>5
        <3>2. CASE p \in acked'[m[1]]
            <4>1. new <= f1 + 1
                BY <1>5, <1>6, <2>1, <3>1
            <4> QED BY <3>2, <4>1 DEF new, f1
        <3>3. CASE p \notin acked'[m[1]]
            <4>1. p \notin acked[m[1]]
                BY <2>2, <3>3
            <4>2. new <= f1
                BY <1>5, <1>6, <2>1, <3>1, <4>1
            <4> QED BY <3>3, <4>2 DEF new, f1
        <3> QED BY <3>2, <3>3
    <2> QED BY <2>4, <2>5
<1>8. CASE m \notin SentMessages
    <2>1. old = 0
        <3> HIDE DEF s, S
        <3>1. m \notin S
            BY <1>8 DEF S
        <3> QED BY <1>3, <1>4, <3>1, CopiesNone
    <2>2. m \notin Range(t)
        BY <1>3, <1>8, RangeOfSeq
    <2> HIDE DEF old, new, f, f1
    <2>3. new <= f1 /\ new <= f1 + 1
        BY <1>4, <1>5, <1>6, <2>1, <2>2
    <2> QED BY <2>3 DEF new, f1
<1> QED BY <1>7, <1>8

LEMMA HandledType ==
    ASSUME TypeOK, NEW m \in SentMessages, Route(m) \in Partitions
    PROVE  WasRead(m) \in Nat /\ Held(m) \in Nat /\ WasRead(m) <= Held(m) /\ mishaps \in Nat
<1> DEFINE p == Route(m)
<1>1. Len(topic[p]) \in Nat /\ place[p] \in Nat /\ place[p] <= Len(topic[p]) /\ mishaps \in Nat
    BY TypeParts, LenProperties DEF TopicOK, ProcessorOK
<1> QED BY <1>1, CopiesType, CopiesGrow DEF WasRead, Held

LEMMA TimesGrows ==
    ASSUME NEW a \in Nat, NEW b \in Nat, NEW c \in Nat, b <= c
    PROVE  a * b \in Nat /\ a * c \in Nat /\ a * b <= a * c
<1>1. PICK d \in Nat : c = b + d
    <2>1. c - b \in Nat /\ c = b + (c - b)
        OBVIOUS
    <2> QED BY <2>1
<1>2. a * c = a * b + a * d /\ a * d \in Nat /\ a * b \in Nat
    BY <1>1
<1> DEFINE x == a * b  y == a * d  z == a * c
<1>3. z = x + y /\ x \in Nat /\ y \in Nat
    BY <1>2
<1> HIDE DEF x, y, z
<1>4. x \in Nat /\ z \in Nat /\ x <= z
    BY <1>3
<1> QED BY <1>4 DEF x, z

\* The producer only adds to the topics.
LEMMA HandledProducer ==
    ASSUME TypeOK, SentStays, TopicGrows, UNCHANGED processorVars,
           NEW bag, IsABag(bag), Handled(bag), BagToSet(bag) \subseteq SentMessages,
           NEW bag1, bag1 = bag
    PROVE  /\ \A m \in BagToSet(bag1) : Route(m)' \in Partitions
           /\ \A m \in SentMessages' :
                 Route(m)' \in Partitions => Count(bag1, m) <= WasRead(m)' + mishaps' * Held(m)'
<1>1. ProducerRest /\ TopicOK /\ ProcessorOK
    BY TypeParts
<1>2. \A p \in Partitions : /\ Len(topic'[p]) \in Nat /\ Len(topic[p]) <= Len(topic'[p])
                            /\ Len(topic[p]) \in Nat
                            /\ \A k \in 1..Len(topic[p]) : topic'[p][k] = topic[p][k]
    BY <1>1, TopicOKSteps, LenProperties DEF TopicOK
<1>3. place' = place /\ mishaps' = mishaps
    BY DEF processorVars
<1>4. ASSUME NEW m \in BagToSet(bag)
      PROVE  Route(m)' \in Partitions
    BY <1>4, ViewStays DEF Handled
<1>5. ASSUME NEW m \in SentMessages', Route(m)' \in Partitions
      PROVE  Count(bag, m) <= WasRead(m)' + mishaps' * Held(m)'
    <2> DEFINE p == Route(m)'
    <2>1. place[p] \in Nat /\ place[p] <= Len(topic[p]) /\ mishaps \in Nat
        BY <1>1, <1>5 DEF ProcessorOK
    <2>2. WasRead(m)' = Copies(topic'[p], m, place[p]) /\ Held(m)' = Copies(topic'[p], m, Len(topic'[p]))
        BY <1>3 DEF WasRead, Held
    <2>3. WasRead(m)' \in Nat /\ Held(m)' \in Nat
        BY <1>2, <1>5, <2>1, <2>2, CopiesType
    <2>4. CASE m \notin SentMessages
        <3>1. Count(bag, m) = 0
            BY <2>4 DEF Count
        <3>2. mishaps * Held(m)' \in Nat
            BY <2>1, <2>3
        <3> QED BY <1>3, <2>3, <3>1, <3>2
    <2>5. CASE m \in SentMessages
        <3>1. Route(m) = p
            BY <2>5, ViewStays
        <3>2. Count(bag, m) <= WasRead(m) + mishaps * Held(m)
            BY <1>5, <2>5, <3>1 DEF Handled
        <3>3. WasRead(m) \in Nat /\ Held(m) \in Nat
            BY <1>5, <2>5, <3>1, HandledType
        <3>4. WasRead(m)' = WasRead(m)
            <4>1. \A k \in 1..place[p] : topic'[p][k] = topic[p][k]
                BY <1>2, <1>5, <2>1
            <4> HIDE DEF p
            <4> QED BY <2>1, <2>2, <3>1, <4>1, CopiesSame DEF WasRead
        <3>5. Held(m) <= Held(m)'
            <4>1. Copies(topic'[p], m, Len(topic[p])) = Copies(topic[p], m, Len(topic[p]))
                BY <1>2, <1>5, CopiesSame
            <4>2. Copies(topic'[p], m, Len(topic[p])) <= Copies(topic'[p], m, Len(topic'[p]))
                BY <1>2, <1>5, CopiesGrow
            <4> HIDE DEF p
            <4> QED BY <2>2, <3>1, <4>1, <4>2 DEF Held
        <3>6. /\ mishaps * Held(m) \in Nat /\ mishaps * Held(m)' \in Nat
              /\ mishaps * Held(m) <= mishaps * Held(m)'
            BY <2>1, <2>3, <3>3, <3>5, TimesGrows
        <3>7. Count(bag, m) \in Nat
            BY DEF Count, IsABag, BagToSet
        <3> HIDE DEF p
        <3> DEFINE c == Count(bag, m)  w == WasRead(m)  x == mishaps * Held(m)  y == mishaps * Held(m)'
        <3>8. c \in Nat /\ w \in Nat /\ x \in Nat /\ y \in Nat /\ c <= w + x /\ x <= y
            BY <3>2, <3>3, <3>6, <3>7
        <3>9. c <= w + y
            <4> HIDE DEF c, w, x, y
            <4> QED BY <3>8
        <3> QED BY <1>3, <3>4, <3>9
    <2> QED BY <2>4, <2>5
<1> QED BY <1>4, <1>5

\* What a step of the stream processor does to a bag.
BagStep(p, bag, bag1) ==
    \/ Handles(p) /\ mishaps' = mishaps /\ bag1 \in {bag, Kept(bag, Current(p))}
    \/ /\ Handles(p) /\ mishaps' = mishaps + 1
       /\ bag1 \in {bag, Kept(bag, Current(p)), Kept(Kept(bag, Current(p)), Current(p))}
    \/ /\ \E k \in 0..(place[p] - 1) : place' = [place EXCEPT ![p] = k]
       /\ mishaps' = mishaps + 1 /\ bag1 = bag

\* A message that is handled has been read once more.
LEMMA ReadSteps ==
    ASSUME TypeOK, UNCHANGED producerVars, NEW p \in Partitions, Handles(p),
           NEW m \in SentMessages, Route(m) \in Partitions
    PROVE  /\ Held(m)' = Held(m)
           /\ WasRead(m)' = IF m = Current(p) THEN WasRead(m) + 1 ELSE WasRead(m)
           /\ m = Current(p) => Held(m) >= 1
<1> DEFINE q == Route(m)  s == topic[q]
<1>1. ProducerRest /\ TopicOK /\ ProcessorOK
    BY TypeParts
<1>2. q' = q /\ topic' = topic
    <2>1. SentStays
        BY <1>1, ProducerStays
    <2> QED BY <2>1, ViewStays DEF producerVars
<1>3. place[p] < Len(topic[p]) /\ place' = [place EXCEPT ![p] = @ + 1] /\ place \in [Partitions -> Nat]
    BY <1>1 DEF Handles, ProcessorOK
<1>4. /\ place[p] + 1 \in 1..Len(topic[p]) /\ Len(topic[p]) \in Nat /\ place[p] \in Nat
      /\ Current(p) = topic[p][place[p] + 1] /\ Route(Current(p)) = p
    BY <1>1, <1>3, CurrentFacts
<1>5. Held(m) = Copies(s, m, Len(s)) /\ WasRead(m) = Copies(s, m, place[q])
    BY DEF Held, WasRead
<1>6. Held(m)' = Copies(s, m, Len(s)) /\ WasRead(m)' = Copies(s, m, place'[q])
    BY <1>2 DEF Held, WasRead
<1>7. CASE q = p
    <2>1. place'[q] = place[p] + 1
        BY <1>3, <1>7
    <2>2. Copies(s, m, place[p] + 1) = IF s[place[p] + 1] = m THEN Copies(s, m, place[p]) + 1
                                       ELSE Copies(s, m, place[p])
        BY <1>4, CopiesNext
    <2>3. Current(p) = s[place[p] + 1]
        BY <1>4, <1>7
    <2>4. /\ Copies(s, m, place[p] + 1) <= Copies(s, m, Len(s))
          /\ Copies(s, m, place[p]) \in Nat /\ Copies(s, m, Len(s)) \in Nat
        <3>1. place[p] + 1 \in Nat /\ Len(s) \in Nat /\ place[p] + 1 <= Len(s)
            BY <1>4, <1>7
        <3> HIDE DEF s
        <3> QED BY <1>4, <3>1, CopiesGrow, CopiesType
    <2> HIDE DEF s, q
    <2> QED BY <1>5, <1>6, <1>7, <2>1, <2>2, <2>3, <2>4
<1>8. CASE q # p
    <2>1. place'[q] = place[q] /\ m # Current(p)
        BY <1>3, <1>4, <1>8
    <2> QED BY <1>5, <1>6, <2>1
<1> QED BY <1>7, <1>8

LEMMA HandledProcessor ==
    ASSUME TypeOK, UNCHANGED producerVars, NEW p \in Partitions,
           NEW bag, IsABag(bag), Handled(bag), BagToSet(bag) \subseteq SentMessages,
           NEW bag1, BagStep(p, bag, bag1)
    PROVE  /\ \A m \in BagToSet(bag1) : Route(m)' \in Partitions
           /\ \A m \in SentMessages' :
                 Route(m)' \in Partitions => Count(bag1, m) <= WasRead(m)' + mishaps' * Held(m)'
<1> DEFINE c == Current(p)
<1>1. ProducerRest /\ TopicOK /\ ProcessorOK
    BY TypeParts
<1>2. SentMessages' = SentMessages /\ SentStays /\ TopicOK' /\ ProducerRest'
    BY <1>1, ProducerStays
<1>3. Handles(p) => c \in SentMessages /\ Route(c) = p
    BY <1>1, CurrentFacts DEF Handles
<1>4. /\ IsABag(Kept(bag, c)) /\ BagToSet(Kept(bag, c)) = BagToSet(bag) \cup {c}
      /\ \A x : Count(Kept(bag, c), x) = IF x = c THEN Count(bag, x) + 1 ELSE Count(bag, x)
    BY KeptFacts
<1>5. /\ BagToSet(Kept(Kept(bag, c), c)) = BagToSet(bag) \cup {c}
      /\ \A x : Count(Kept(Kept(bag, c), c), x) =
                IF x = c THEN Count(Kept(bag, c), x) + 1 ELSE Count(Kept(bag, c), x)
    BY <1>4, KeptFacts
<1>6. ASSUME NEW m \in BagToSet(bag1)
      PROVE  Route(m)' \in Partitions
    <2>1. m \in BagToSet(bag) \/ (Handles(p) /\ m = c)
        BY <1>4, <1>5, <1>6 DEF BagStep
    <2>2. m \in SentMessages /\ Route(m) \in Partitions
        BY <1>3, <2>1 DEF Handled
    <2> QED BY <1>2, <2>2, ViewStays
<1>7. ASSUME NEW m \in SentMessages', Route(m)' \in Partitions
      PROVE  Count(bag1, m) <= WasRead(m)' + mishaps' * Held(m)'
    <2>1. m \in SentMessages /\ Route(m) \in Partitions
        BY <1>2, <1>7, ViewStays
    <2>2. Count(bag, m) <= WasRead(m) + mishaps * Held(m)
        BY <2>1 DEF Handled
    <2>3. Count(bag, m) \in Nat
        BY DEF Count, IsABag, BagToSet
    <2>4. WasRead(m) \in Nat /\ Held(m) \in Nat /\ WasRead(m) <= Held(m) /\ mishaps \in Nat
        BY <2>1, HandledType
    <2> DEFINE h == Held(m)  r == WasRead(m)  r1 == WasRead(m)'  x == mishaps * h  y == (mishaps + 1) * h
               k == Count(bag, m)  k1 == Count(bag1, m)
    <2>5. x \in Nat /\ y = x + h
        <3> HIDE DEF h
        <3>1. h \in Nat
            BY <2>4 DEF h
        <3> QED BY <2>4, <3>1
    <2>6. k \in Nat /\ h \in Nat /\ r \in Nat /\ r <= h /\ k <= r + x
        BY <2>2, <2>3, <2>4
    <2>7. CASE Handles(p)
        <3> DEFINE d == IF m = c THEN 1 ELSE 0
        <3>1. Held(m)' = h /\ r1 = r + d /\ d <= h /\ d \in {0, 1}
            <4>1. /\ Held(m)' = Held(m)
                  /\ WasRead(m)' = IF m = Current(p) THEN WasRead(m) + 1 ELSE WasRead(m)
                  /\ m = Current(p) => Held(m) >= 1
                BY <2>1, <2>7, ReadSteps
            <4> QED BY <2>4, <4>1
        <3>2. Count(Kept(bag, c), m) = k + d /\ Count(Kept(Kept(bag, c), c), m) = k + d + d
            BY <1>4, <1>5, <2>3
        <3>3. \/ mishaps' = mishaps /\ k1 \in {k, k + d}
              \/ mishaps' = mishaps + 1 /\ k1 \in {k, k + d, k + d + d}
            BY <3>2 DEF BagStep
        <3>4. CASE mishaps' = mishaps /\ k1 \in {k, k + d}
            <4>1. mishaps' * Held(m)' = x
                BY <3>1, <3>4
            <4>2. k1 <= r1 + x
                <5> HIDE DEF h, r, r1, x, y, k, k1, d
                <5> QED BY <2>5, <2>6, <3>1, <3>4
            <4> QED BY <4>1, <4>2
        <3>5. CASE mishaps' = mishaps + 1 /\ k1 \in {k, k + d, k + d + d}
            <4>1. mishaps' * Held(m)' = y
                BY <3>1, <3>5
            <4>2. k1 <= r1 + y
                <5> HIDE DEF h, r, r1, x, y, k, k1, d
                <5> QED BY <2>5, <2>6, <3>1, <3>5
            <4> QED BY <4>1, <4>2
        <3> QED BY <3>3, <3>4, <3>5
    <2>8. CASE ~Handles(p)
        <3>1. PICK j \in 0..(place[p] - 1) : place' = [place EXCEPT ![p] = j]
            BY <2>8 DEF BagStep
        <3>2. mishaps' = mishaps + 1 /\ k1 = k
            BY <2>8 DEF BagStep
        <3>3. /\ Held(m)' = Copies(topic[Route(m)], m, Len(topic[Route(m)]))
              /\ r1 = Copies(topic[Route(m)], m, place'[Route(m)])
            BY <1>2, <2>1, ViewStays DEF Held, WasRead, producerVars
        <3>4. Held(m)' = h
            BY <3>3 DEF Held
        <3>5. r1 \in Nat
            <4>1. place'[Route(m)] \in Nat
                BY <1>1, <2>1, <3>1 DEF ProcessorOK
            <4> QED BY <3>3, <4>1, CopiesType
        <3>6. mishaps' * Held(m)' = y
            BY <3>2, <3>4
        <3>7. k1 <= r1 + y
            <4> HIDE DEF h, r, r1, x, y, k, k1
            <4> QED BY <2>5, <2>6, <3>2, <3>5
        <3> QED BY <3>6, <3>7
    <2> QED BY <2>7, <2>8
<1> QED BY <1>6, <1>7

LEMMA BagSteps ==
    ASSUME NEW p \in Partitions, ProcessorStep(p)
    PROVE  UNCHANGED producerVars /\ BagStep(p, stored, stored') /\ BagStep(p, forwarded, forwarded')
<1> USE DEF BagStep
<1>1. CASE Refuse(p)
    BY <1>1 DEF Refuse, Handles
<1>2. CASE Store(p)
    BY <1>2 DEF Store, Handles
<1>3. CASE StoreAndForward(p)
    BY <1>3 DEF StoreAndForward, Handles
<1>4. CASE Lose(p)
    BY <1>4 DEF Lose, Handles, Mishap
<1>5. CASE ForwardFails(p)
    BY <1>5 DEF ForwardFails, Handles, Mishap
<1>6. CASE Redeliver(p)
    BY <1>6 DEF Redeliver, Mishap
<1> QED BY <1>1, <1>2, <1>3, <1>4, <1>5, <1>6 DEF ProcessorStep, Handle

LEMMA CopiesInit == Init => IInv
<1> SUFFICES ASSUME Init PROVE IInv
    OBVIOUS
<1>1. TypeOK
    BY TypeInit
<1>2. BagToSet(EmptyBag) = {} /\ stored = EmptyBag /\ forwarded = EmptyBag
    BY DEF Init, EmptyBag, SetToBag, BagToSet
<1>3. SentMessages = {}
    BY DEF Init, ProducerInit, SentMessages
<1> QED BY <1>1, <1>2, <1>3 DEF IInv, TopicCopies, Handled

LEMMA CopiesSteps ==
    ASSUME IInv, [Next]_vars
    PROVE  IInv'
<1>1. TypeOK /\ TopicCopies /\ ProducerTypeOK /\ ProducerRest /\ TopicOK /\ ProcessorOK
    BY TypeParts, ProducerParts DEF IInv
<1>2. TypeOK'
    BY <1>1, ProducerSteps, ProcessorSteps, TypeStutter DEF Next
<1>3. /\ IsABag(stored) /\ BagToSet(stored) \subseteq SentMessages
      /\ IsABag(forwarded) /\ BagToSet(forwarded) \subseteq SentMessages
    BY <1>1 DEF ProcessorOK
<1>4. ASSUME SentStays, TopicGrows, UNCHANGED processorVars
      PROVE  TopicCopies' /\ Handled(stored)' /\ Handled(forwarded)'
    <2>1. TopicCopies'
        BY <1>1, <1>4, TopicCopiesSteps
    <2>2. stored' = stored /\ forwarded' = forwarded
        BY <1>4 DEF processorVars
    <2>3. Handled(stored)'
        BY <1>1, <1>3, <1>4, <2>2, HandledProducer DEF IInv, Handled
    <2>4. Handled(forwarded)'
        BY <1>1, <1>3, <1>4, <2>2, HandledProducer DEF IInv, Handled
    <2> QED BY <2>1, <2>3, <2>4
<1>5. CASE ProducerNext /\ UNCHANGED processorVars
    <2>1. SentStays /\ TopicGrows
        BY <1>1, <1>5, PostedSteps, SentGrows, TopicSteps
    <2> QED BY <1>2, <1>4, <1>5, <2>1 DEF IInv
<1>6. ASSUME NEW p \in Partitions, ProcessorStep(p)
      PROVE  IInv'
    <2>1. UNCHANGED producerVars /\ BagStep(p, stored, stored') /\ BagStep(p, forwarded, forwarded')
        BY <1>6, BagSteps
    <2>2. Handled(stored)'
        BY <1>1, <1>3, <2>1, HandledProcessor DEF IInv, Handled
    <2>3. Handled(forwarded)'
        BY <1>1, <1>3, <2>1, HandledProcessor DEF IInv, Handled
    <2>4. TopicCopies'
        <3>1. SentStays
            BY <1>1, <2>1, ProducerStays
        <3>2. TopicGrows
            BY <1>1, <2>1, TopicUnchanged DEF producerVars
        <3> QED BY <1>1, <3>1, <3>2, TopicCopiesSteps
    <2> QED BY <1>2, <2>2, <2>3, <2>4 DEF IInv
<1>7. CASE UNCHANGED vars
    <2>1. SentStays
        BY <1>1, <1>7, ProducerStays DEF vars
    <2>2. TopicGrows
        BY <1>1, <1>7, TopicUnchanged DEF vars, producerVars
    <2> QED BY <1>2, <1>4, <1>7, <2>1, <2>2 DEF IInv, vars
<1> QED BY <1>5, <1>6, <1>7 DEF Next

LEMMA CopiesBound ==
    ASSUME IInv
    PROVE  CopiesWithinFaults
<1> SUFFICES ASSUME NEW bag \in {stored, forwarded}, NEW m \in BagToSet(bag)
             PROVE  bag[m] <= (1 + faults) * (1 + mishaps)
    BY DEF CopiesWithinFaults
<1>1. TypeOK /\ TopicCopies /\ Handled(bag) /\ ProducerRest /\ TopicOK /\ ProcessorOK
    BY TypeParts DEF IInv
<1>2. m \in SentMessages /\ Route(m) \in Partitions /\ IsABag(bag)
    BY <1>1 DEF ProcessorOK, Handled
<1>3. bag[m] <= WasRead(m) + mishaps * Held(m) /\ bag[m] \in Nat
    BY <1>1, <1>2 DEF Handled, Count, IsABag, BagToSet
<1>4. WasRead(m) \in Nat /\ Held(m) \in Nat /\ WasRead(m) <= Held(m) /\ mishaps \in Nat
    BY <1>1, <1>2, HandledType
<1>5. faults \in Nat /\ Held(m) <= 1 + faults
    <2>1. faults \in Nat
        BY <1>1 DEF ProducerRest
    <2>2. Held(m) <= IF Route(m) \in acked[m[1]] THEN faults + 1 ELSE faults
        BY <1>1, <1>2 DEF TopicCopies, Held
    <2> QED BY <1>4, <2>1, <2>2
<1> DEFINE h == Held(m)  r == WasRead(m)  f == 1 + faults  x == mishaps * h  y == mishaps * f
           z == f * (1 + mishaps)  k == bag[m]
<1>6. x \in Nat /\ y \in Nat /\ x <= y
    <2>1. mishaps \in Nat /\ h \in Nat /\ f \in Nat /\ h <= f
        BY <1>4, <1>5
    <2> HIDE DEF h, f
    <2> QED BY <2>1, TimesGrows
<1>7. z = f + y /\ f \in Nat
    <2>1. f \in Nat
        BY <1>5
    <2> HIDE DEF f
    <2> QED BY <1>4, <2>1
<1>8. k <= r + x /\ r <= h /\ h <= f /\ k \in Nat /\ r \in Nat /\ h \in Nat
    BY <1>3, <1>4, <1>5
<1>9. k <= z
    <2> HIDE DEF h, r, f, x, y, z, k
    <2> QED BY <1>6, <1>7, <1>8
<1> QED BY <1>9

\* Nothing is repeated by itself: however many POSTs there are and in whatever order
\* attempts fail, processes end and messages are delivered again, a message is stored
\* and forwarded at most once for each copy that the failed attempts and the one
\* acknowledged batch left in Kafka, times one more than the mishaps.
THEOREM CopiesBounded == Spec => []CopiesWithinFaults
BY CopiesInit, CopiesSteps, CopiesBound, PTL DEF Spec

-----------------------------------------------------------------------------
(* What is stored was reported.                                             *)

LEMMA AttributeFacts ==
    ASSUME NEW resource, IsResource(resource), NEW key
    PROVE  KnownValue(resource.attributes, key) = Named(resource, key)
<1> DEFINE list == resource.attributes
           I == {i \in 1..Len(list) : list[i].key = key}
           found == SelectInSeq(list, LAMBDA a : a.key = key)
           A == {a \in Range(list) : a.key = key}
<1>1. Len(list) \in Nat /\ DOMAIN list = 1..Len(list) /\ \A i \in DOMAIN list : list[i] \in Range(list)
    BY ListFacts DEF IsResource
<1>2. \A a \in A : \E i \in I : a = list[i]
    BY <1>1 DEF Range
<1>3. \A a1, a2 \in A : a1 = a2
    BY DEF IsResource
<1>4. found = IF I # {} THEN CHOOSE i \in I : \A j \in I : i <= j ELSE 0
    BY DEF SelectInSeq, Min
<1>5. CASE I = {}
    <2>1. getAttributeValue(list, key) = Absent
        BY <1>4, <1>5 DEF getAttributeValue
    <2>2. A = {}
        BY <1>2, <1>5
    <2> QED BY <2>1, <2>2 DEF KnownValue, Named
<1>6. CASE I # {}
    <2>1. found \in I
        <3>1. I \in SUBSET Nat
            BY <1>1
        <3>2. \E i \in I : \A j \in I : i <= j
            <4> HIDE DEF I
            <4> QED BY <1>6, <3>1, LeastNumber
        <3> QED BY <1>4, <1>6, <3>2
    <2>2. found # 0 /\ list[found] \in A
        BY <1>1, <2>1
    <2>3. A = {list[found]}
        BY <1>3, <2>2
    <2> DEFINE value == list[found].value
               names == {a.value : a \in A} \ {Absent, ""}
    <2>4. getAttributeValue(list, key) = value
        BY <2>2 DEF getAttributeValue
    <2>5. {a.value : a \in A} = {value}
        <3> HIDE DEF A, found
        <3> QED BY <2>3
    <2>6. Named(resource, key) = IF names = {} THEN "unknown" ELSE CHOOSE name \in names : TRUE
        BY DEF Named
    <2>7. KnownValue(list, key) = IF value \in {Absent, ""} THEN "unknown" ELSE value
        BY <2>4 DEF KnownValue
    <2>8. names = {value} \ {Absent, ""}
        BY <2>5
    <2> HIDE DEF value, names
    <2> QED BY <2>6, <2>7, <2>8
<1> QED BY <1>5, <1>6

\* A span that is kept, and taken as an event, is one that its service reported.
LEMMA SpanReported ==
    ASSUME NEW data, IsTraceData(data), NEW resource \in Range(data.resourceSpans),
           NEW span \in Range(KeptSpans(resource)), ValidSpan(SpanOf(resource, span))
    PROVE  SpanReport(SpanOf(resource, span)) \in ReportedSpans(data)
<1> DEFINE event == SpanOf(resource, span)
           spans == {s \in UNION {Range(scope) : scope \in Range(resource.scopeSpans)} :
                            /\ s.name \notin Middleware \cup {Absent}
                            /\ s.kind \in DOMAIN ReportedKinds
                            /\ s.traceId # Absent /\ s.spanId # Absent /\ s.end # Missing}
           ReportOf(s) ==
              [kind |-> ReportedKinds[s.kind], service |-> Named(resource, "service.name"),
               environment |-> Named(resource, "deployment.environment"),
               trace |-> Hex[s.traceId], id |-> Hex[s.spanId],
               parent |-> IF s.parentSpanId = Absent THEN Absent ELSE Hex[s.parentSpanId],
               at |-> s.start \div NanosPerMilli, took |-> s.end - s.start]
<1>1. IsResource(resource)
    BY DEF IsTraceData, IsResource
<1>2. PICK scope \in Range(resource.scopeSpans) : span \in Range(scope)
    BY <1>1, KeptSpansFacts
<1>3. span.name \notin Middleware /\ span.kind \notin {"SERVER", "CLIENT", "INTERNAL"}
    BY <1>1, <1>2, KeptSpansFacts DEF IsResource
<1>4. /\ event.name = span.name /\ event.kind = parseSpanKind(span.kind)
      /\ event.service_name = KnownValue(resource.attributes, "service.name")
      /\ event.environment = KnownValue(resource.attributes, "deployment.environment")
      /\ event.trace_id = base64ToHex(span.traceId) /\ event.span_id = base64ToHex(span.spanId)
      /\ event.parent_span_id = IF span.parentSpanId = Absent THEN Absent ELSE base64ToHex(span.parentSpanId)
      /\ event.timestamp = nanoToISO(span.start) /\ event.duration_ms = calculateDuration(span.start, span.end)
    BY DEF SpanOf, transformSpan
<1>5. /\ event.name # Absent /\ event.trace_id # "" /\ event.span_id # ""
      /\ event.kind \in {"SERVER", "CLIENT", "INTERNAL"} /\ event.duration_ms # Missing
    <2> HIDE DEF event
    <2>1. ValidSpan(event)
        BY DEF event
    <2> QED BY <2>1 DEF ValidSpan, IsSet
<1> HIDE DEF event
<1>6. span.kind \in DOMAIN ReportedKinds /\ ReportedKinds[span.kind] = event.kind
    <2> DEFINE kind == span.kind
    <2>1. /\ DOMAIN KindMap = {"SPAN_KIND_UNSPECIFIED", "SPAN_KIND_INTERNAL", "SPAN_KIND_SERVER",
                               "SPAN_KIND_CLIENT", "SPAN_KIND_PRODUCER", "SPAN_KIND_CONSUMER"}
          /\ KindMap["SPAN_KIND_UNSPECIFIED"] = "UNSPECIFIED" /\ KindMap["SPAN_KIND_INTERNAL"] = "INTERNAL"
          /\ KindMap["SPAN_KIND_SERVER"] = "SERVER" /\ KindMap["SPAN_KIND_CLIENT"] = "CLIENT"
          /\ KindMap["SPAN_KIND_PRODUCER"] = "PRODUCER" /\ KindMap["SPAN_KIND_CONSUMER"] = "CONSUMER"
        BY DEF KindMap
    <2>2. /\ DOMAIN ReportedKinds = {"SPAN_KIND_INTERNAL", "SPAN_KIND_SERVER", "SPAN_KIND_CLIENT"}
          /\ ReportedKinds["SPAN_KIND_INTERNAL"] = "INTERNAL"
          /\ ReportedKinds["SPAN_KIND_SERVER"] = "SERVER" /\ ReportedKinds["SPAN_KIND_CLIENT"] = "CLIENT"
        BY DEF ReportedKinds
    <2>3. event.kind = IF kind \in DOMAIN KindMap THEN KindMap[kind] ELSE kind
        BY <1>4 DEF parseSpanKind
    <2>4. kind \notin {"SERVER", "CLIENT", "INTERNAL"}
        BY <1>3
    <2> HIDE DEF kind
    <2>5. kind \in DOMAIN ReportedKinds /\ ReportedKinds[kind] = event.kind
        BY <1>5, <2>1, <2>2, <2>3, <2>4
    <2> QED BY <2>5 DEF kind
<1>7. span.traceId # Absent /\ event.trace_id = Hex[span.traceId]
    BY <1>4, <1>5 DEF base64ToHex
<1>8. span.spanId # Absent /\ event.span_id = Hex[span.spanId]
    BY <1>4, <1>5 DEF base64ToHex
<1>9. event.parent_span_id = IF span.parentSpanId = Absent THEN Absent ELSE Hex[span.parentSpanId]
    BY <1>4 DEF base64ToHex
<1>10. span.end # Missing /\ event.duration_ms = span.end - span.start
    BY <1>4, <1>5 DEF calculateDuration
<1>11. event.timestamp = span.start \div NanosPerMilli
    BY <1>4 DEF nanoToISO
<1>12. /\ event.service_name = Named(resource, "service.name")
       /\ event.environment = Named(resource, "deployment.environment")
    BY <1>1, <1>4, AttributeFacts
<1>13. SpanReport(event) = ReportOf(span)
    BY <1>6, <1>7, <1>8, <1>9, <1>10, <1>11, <1>12 DEF SpanReport
<1>14. span \in spans
    BY <1>2, <1>3, <1>4, <1>5, <1>6, <1>7, <1>8, <1>10
<1>15. PICK n \in DOMAIN data.resourceSpans : resource = data.resourceSpans[n]
    BY DEF Range
<1>16. ReportOf(span) \in ReportedSpans(data)
    <2>1. \A x : (\E k \in DOMAIN data.resourceSpans : data.resourceSpans[k] = resource)
                    /\ x \in {ReportOf(s) : s \in spans} => x \in ReportedSpans(data)
        BY DEF ReportedSpans
    <2> HIDE DEF ReportOf, spans
    <2>2. ReportOf(span) \in {ReportOf(s) : s \in spans}
        BY <1>14
    <2> QED BY <1>15, <2>1, <2>2
<1> QED BY <1>13, <1>16 DEF event

\* What the consumers take as an event is something that the POST reported.
LEMMA ReportIsReported ==
    ASSUME NEW m \in SentMessages, ProducerRest, Valid(m)
    PROVE  Report(m) \in Reports(posted[m[1]])
<1>1. PICK r \in Requests : posted[r] # NoBody /\ \E n \in DOMAIN Messages[posted[r]] : m = <<r, n>>
    BY SentFacts DEF IsSent
<1>2. PICK n \in DOMAIN Messages[posted[r]] : m = <<r, n>>
    BY <1>1
<1> DEFINE b == posted[r]  event == Messages[b][n]  data == Body[b].data
<1>3. posted[m[1]] = b /\ b \in DOMAIN Body /\ Event(m) = event /\ BodyOf(m) = Body[b] /\ event \in Range(Messages[b])
    BY <1>1, <1>2 DEF Event, BodyOf, ProducerRest, Range
<1> HIDE DEF event, b
<1>4. ~Throws(Body[b])
    <2>1. Throws(Body[b]) => Messages[b] = <<>>
        BY <1>3 DEF Messages
    <2>2. DOMAIN <<>> = {}
        OBVIOUS
    <2> QED BY <1>2, <2>1, <2>2 DEF b
<1>5. CASE Body[b].path = "logs"
    <2>1. IsList(data) /\ Messages[b] = NormalLogs(data)
        BY <1>3, <1>4, <1>5, ProducerAssumption DEF Messages
    <2>2. event \in Range(data)
        BY <1>3, <2>1, NormalLogsFacts
    <2>3. ValidLog(event) /\ Report(m) = LogReport(event)
        BY <1>3, <1>5 DEF Valid, Report
    <2>4. Reports(b) = {LogReport(e) : e \in {e \in Range(data) : ValidLog(e)}}
        BY <1>5 DEF Reports
    <2> QED BY <1>3, <2>2, <2>3, <2>4
<1>6. CASE Body[b].path # "logs"
    <2>1. Body[b].path = "traces" /\ Messages[b] = Spans(Body[b])
        BY <1>3, <1>4, <1>6, ProducerAssumption DEF Messages
    <2>2. ValidSpan(event) /\ Report(m) = SpanReport(event)
        BY <1>3, <1>6 DEF Valid, Report
    <2>3. CASE ~Body[b].rawBody
        <3>1. event \in Range(data)
            BY <1>3, <2>1, <2>3 DEF Spans
        <3>2. Reports(b) = {SpanReport(e) : e \in {e \in Range(data) : ValidSpan(e)}}
            BY <1>6, <2>3 DEF Reports
        <3> QED BY <1>3, <2>2, <3>1, <3>2
    <2>4. CASE Body[b].rawBody
        <3>1. IsTraceData(data) /\ event \in Range(transformTraceData(data))
            BY <1>3, <2>1, <2>4, ProducerAssumption DEF Spans
        <3>2. PICK resource \in Range(data.resourceSpans) :
                      \E span \in Range(KeptSpans(resource)) : event = SpanOf(resource, span)
            <4> HIDE DEF data
            <4> QED BY <3>1, TransformFacts
        <3>3. PICK span \in Range(KeptSpans(resource)) : event = SpanOf(resource, span)
            BY <3>2
        <3>4. SpanReport(event) \in ReportedSpans(data)
            <4> HIDE DEF data
            <4> QED BY <2>2, <3>1, <3>3, SpanReported
        <3>5. Reports(b) = ReportedSpans(data)
            BY <2>1, <2>4 DEF Reports
        <3> QED BY <1>3, <2>2, <3>4, <3>5
    <2> QED BY <2>3, <2>4
<1> QED BY <1>5, <1>6

-----------------------------------------------------------------------------
(* The refinement of Telemetry.                                             *)

OfferedStates == {"sending", "accepted", "failed", "cut"}

KeptReports == {Report(m) : m \in BagToSet(stored)}
MissingReports == {Report(m) : m \in lost}

\* Only events are stored or lost.
OnlyEvents == \A m \in BagToSet(stored) \cup lost : Valid(m)

LEMMA OnlyEventsSteps ==
    ASSUME TypeOK, OnlyEvents, [Next]_vars
    PROVE  OnlyEvents'
<1>1. ProducerRest /\ TopicOK /\ ProcessorOK /\ ProducerTypeOK
    BY TypeParts, ProducerParts
<1>2. ASSUME SentStays, UNCHANGED <<stored, lost>>
      PROVE  OnlyEvents'
    BY <1>1, <1>2, ViewStays DEF OnlyEvents, ProcessorOK
<1>3. CASE ProducerNext /\ UNCHANGED processorVars
    BY <1>1, <1>2, <1>3, PostedSteps, SentGrows DEF processorVars
<1>4. ASSUME NEW p \in Partitions, ProcessorStep(p)
      PROVE  OnlyEvents'
    <2>1. UNCHANGED producerVars
        BY <1>4, BagSteps
    <2>2. SentStays
        BY <1>1, <2>1, ProducerStays
    <2> DEFINE c == Current(p)
    <2>3. /\ stored' = stored \/ (Handles(p) /\ Valid(c) /\ stored' = Kept(stored, c))
          /\ lost' = lost \/ (Handles(p) /\ Valid(c) /\ lost' = lost \cup {c})
        BY <1>4 DEF ProcessorStep, Handle, Refuse, Store, StoreAndForward, Lose, ForwardFails, Redeliver
    <2>4. Handles(p) => c \in SentMessages
        BY <1>1, CurrentFacts DEF Handles
    <2>5. BagToSet(Kept(stored, c)) = BagToSet(stored) \cup {c}
        BY <1>1, KeptFacts DEF ProcessorOK
    <2> HIDE DEF c
    <2>6. \A m \in BagToSet(stored') \cup lost' : m \in SentMessages /\ Valid(m)
        BY <1>1, <2>3, <2>4, <2>5 DEF OnlyEvents, ProcessorOK
    <2> QED BY <2>2, <2>6, ViewStays DEF OnlyEvents
<1>5. CASE UNCHANGED vars
    <2>1. SentStays
        BY <1>1, <1>5, ProducerStays DEF vars
    <2> QED BY <1>2, <1>5, <2>1 DEF vars, processorVars
<1> QED BY <1>3, <1>4, <1>5 DEF Next

\* An event that was sent is among what was offered.
LEMMA EventOffered ==
    ASSUME TypeOK, NEW m \in SentMessages, Valid(m)
    PROVE  Report(m) \in ReportsIn(OfferedStates)
<1>1. ProducerRest
    BY TypeParts
<1>2. PICK r \in Requests : posted[r] # NoBody /\ \E n \in DOMAIN Messages[posted[r]] : m = <<r, n>>
    BY SentFacts DEF IsSent
<1>3. request[r] \in OfferedStates /\ posted[r] \in DOMAIN Body
    BY <1>1, <1>2 DEF ProducerRest, States, OfferedStates
<1>4. m[1] = r /\ Report(m) \in AllReports[posted[r]]
    <2>1. m[1] = r
        BY <1>2
    <2> QED BY <1>1, <1>3, <2>1, ReportIsReported DEF AllReports
<1> QED BY <1>3, <1>4 DEF ReportsIn

\* What a POST reported stays as long as its state does.
LEMMA ReportsStay ==
    ASSUME NEW states,
           \A r \in Requests : request[r] \in states => request'[r] \in states /\ posted'[r] = posted[r]
    PROVE  /\ ReportsIn(states) \subseteq ReportsIn(states)'
           /\ (\A r \in Requests : request'[r] \in states => request[r] \in states)
                  => ReportsIn(states)' = ReportsIn(states)
BY DEF ReportsIn

LEMMA ViewsStay ==
    ASSUME TypeOK, SentStays
    PROVE  /\ UNCHANGED stored => UNCHANGED KeptReports
           /\ UNCHANGED lost => UNCHANGED MissingReports
<1>1. ProcessorOK
    BY TypeParts
<1>2. ASSUME NEW M, M \subseteq SentMessages
      PROVE  {Report(m)' : m \in M} = {Report(m) : m \in M}
    BY <1>2, ViewStays
<1>3. UNCHANGED stored => UNCHANGED KeptReports
    <2> SUFFICES ASSUME UNCHANGED stored PROVE UNCHANGED KeptReports
        OBVIOUS
    <2>1. KeptReports' = {Report(m)' : m \in BagToSet(stored)}
        BY DEF KeptReports
    <2> QED BY <1>1, <1>2, <2>1 DEF KeptReports, ProcessorOK
<1>4. UNCHANGED lost => UNCHANGED MissingReports
    <2> SUFFICES ASSUME UNCHANGED lost PROVE UNCHANGED MissingReports
        OBVIOUS
    <2>1. MissingReports' = {Report(m)' : m \in lost}
        BY DEF MissingReports
    <2> QED BY <1>1, <1>2, <2>1 DEF MissingReports, ProcessorOK
<1> QED BY <1>3, <1>4

LEMMA TelemetryShape ==
    LET O == ReportsIn(OfferedStates)
        P == ReportsIn({"accepted"})
    IN  /\ UNCHANGED <<O, P, KeptReports, MissingReports>> => UNCHANGED Abstract!vars
        /\ O \subseteq O' /\ UNCHANGED <<P, KeptReports, MissingReports>> => Abstract!Next
        /\ P \subseteq P' /\ P' \subseteq O /\ UNCHANGED <<O, KeptReports, MissingReports>> => Abstract!Next
        /\ KeptReports \subseteq KeptReports' /\ KeptReports' \subseteq O
              /\ UNCHANGED <<O, P, MissingReports>> => Abstract!Next
        /\ MissingReports \subseteq MissingReports' /\ MissingReports' \subseteq O
              /\ UNCHANGED <<O, P, KeptReports>> => Abstract!Next
BY DEF Abstract!vars, Abstract!Next, Abstract!Offer, Abstract!Promise, Abstract!Keep, Abstract!Miss,
       OfferedStates, KeptReports, MissingReports

\* A step of the producer that offers and promises nothing new.
LEMMA SilentProducer ==
    ASSUME \A r \in Requests : /\ request'[r] \in OfferedStates <=> request[r] \in OfferedStates
                               /\ request'[r] = "accepted" <=> request[r] = "accepted",
           UNCHANGED posted
    PROVE  UNCHANGED <<ReportsIn(OfferedStates), ReportsIn({"accepted"})>>
BY DEF ReportsIn

LEMMA TelemetryProducer ==
    ASSUME TypeOK, ProducerNext, UNCHANGED processorVars
    PROVE  [Abstract!Next]_(Abstract!vars)
<1> DEFINE O == ReportsIn(OfferedStates)
           P == ReportsIn({"accepted"})
<1>1. ProducerRest /\ TopicOK
    BY TypeParts
<1>2. UNCHANGED <<KeptReports, MissingReports>>
    BY <1>1, PostedSteps, SentGrows, ViewsStay DEF processorVars
<1>3. ASSUME UNCHANGED <<O, P>>
      PROVE  [Abstract!Next]_(Abstract!vars)
    BY <1>2, <1>3, TelemetryShape
<1>4. CASE UNCHANGED <<request, posted>>
    <2>1. UNCHANGED <<O, P>>
        BY <1>4, SilentProducer
    <2> QED BY <1>3, <2>1
<1>5. CASE Crash
    <2>1. UNCHANGED posted /\ request' = [r \in Requests |-> IF request[r] = "sending" THEN "cut" ELSE request[r]]
        BY <1>5 DEF Crash
    <2>2. UNCHANGED <<O, P>>
        BY <2>1, SilentProducer DEF OfferedStates
    <2> QED BY <1>3, <2>2
<1>6. ASSUME NEW r \in Requests, NEW parts, GiveUp(r, parts)
      PROVE  [Abstract!Next]_(Abstract!vars)
    <2>1. UNCHANGED posted /\ request[r] = "sending" /\ request' = [request EXCEPT ![r] = "failed"]
        BY <1>6 DEF GiveUp, AttemptEnds, Becomes
    <2>2. \A q \in Requests : request'[q] = IF q = r THEN "failed" ELSE request[q]
        BY <1>1, <2>1 DEF ProducerRest
    <2>3. UNCHANGED <<O, P>>
        BY <2>1, <2>2, SilentProducer DEF OfferedStates
    <2> QED BY <1>3, <2>3
<1>7. ASSUME NEW r \in Requests, NEW b \in DOMAIN Body, Post(r, b)
      PROVE  [Abstract!Next]_(Abstract!vars)
    <2>1. /\ request[r] = "new" /\ posted' = [posted EXCEPT ![r] = b]
          /\ request' = [request EXCEPT ![r] = IF Throws(Body[b]) THEN "failed" ELSE "sending"]
        BY <1>7 DEF Post, Becomes
    <2>2. \A q \in Requests : /\ q # r => request'[q] = request[q] /\ posted'[q] = posted[q]
                              /\ request'[r] \in {"failed", "sending"}
        BY <1>1, <2>1 DEF ProducerRest
    <2>3. O \subseteq O'
        <3>1. \A q \in Requests : request[q] \in OfferedStates =>
                                      request'[q] \in OfferedStates /\ posted'[q] = posted[q]
            BY <2>1, <2>2 DEF OfferedStates
        <3> QED BY <3>1, ReportsStay
    <2>4. UNCHANGED P
        <3> DEFINE states == {"accepted"}
        <3>1. /\ \A q \in Requests : request[q] \in states => request'[q] \in states /\ posted'[q] = posted[q]
              /\ \A q \in Requests : request'[q] \in states => request[q] \in states
            BY <2>1, <2>2
        <3> HIDE DEF states
        <3>2. ReportsIn(states)' = ReportsIn(states)
            BY <3>1, ReportsStay DEF states
        <3> QED BY <3>2 DEF states
    <2> QED BY <1>2, <2>3, <2>4, TelemetryShape
<1>8. ASSUME NEW r \in Requests, Accept(r)
      PROVE  [Abstract!Next]_(Abstract!vars)
    <2>1. UNCHANGED posted /\ request[r] = "sending" /\ request' = [request EXCEPT ![r] = "accepted"]
        BY <1>8 DEF Accept, Becomes
    <2>2. \A q \in Requests : request'[q] = IF q = r THEN "accepted" ELSE request[q]
        BY <1>1, <2>1 DEF ProducerRest
    <2>3. UNCHANGED O
        <3>1. \A q \in Requests : request'[q] \in OfferedStates <=> request[q] \in OfferedStates
            BY <2>1, <2>2 DEF OfferedStates
        <3> QED BY <2>1, <3>1 DEF ReportsIn
    <2>4. P \subseteq P' /\ P' \subseteq O
        <3>1. \A q \in Requests : /\ request[q] = "accepted" => request'[q] = "accepted"
                                  /\ request'[q] = "accepted" => request[q] \in OfferedStates
            BY <2>1, <2>2 DEF OfferedStates
        <3> QED BY <2>1, <3>1 DEF ReportsIn
    <2> QED BY <1>2, <2>3, <2>4, TelemetryShape
<1>9. Start \/ (\E r \in Requests : \E p \in Partitions : Acknowledge(r, p))
            \/ (\E r \in Requests : \E parts : Retry(r, parts)) => UNCHANGED <<request, posted>>
    BY DEF Start, Acknowledge, Retry
<1> QED BY <1>4, <1>5, <1>6, <1>7, <1>8, <1>9 DEF ProducerNext, RequestStep

LEMMA TelemetryProcessor ==
    ASSUME TypeOK, OnlyEvents, OnlyEvents', NEW p \in Partitions, ProcessorStep(p)
    PROVE  [Abstract!Next]_(Abstract!vars)
<1> DEFINE O == ReportsIn(OfferedStates)
           P == ReportsIn({"accepted"})
<1>1. ProducerRest /\ TopicOK /\ ProcessorOK
    BY TypeParts
<1>2. UNCHANGED producerVars
    BY BagSteps
<1>3. SentMessages' = SentMessages /\ SentStays
    BY <1>1, <1>2, ProducerStays
<1>4. UNCHANGED <<O, P>>
    BY <1>2 DEF ReportsIn, producerVars
<1>5. TypeOK'
    BY ProcessorSteps
<1>6. ASSUME NEW m, m \in BagToSet(stored') \cup lost'
      PROVE  Report(m)' \in O
    <2>1. m \in SentMessages /\ Valid(m)
        <3>1. ProcessorOK'
            BY <1>5, TypeParts, PTL
        <3>2. m \in SentMessages' /\ Valid(m)'
            BY <1>6, <3>1 DEF OnlyEvents, ProcessorOK
        <3> QED BY <1>3, <3>2, ViewStays
    <2>2. Report(m) \in O
        BY <2>1, EventOffered
    <2> QED BY <1>3, <2>1, <2>2, ViewStays
<1>7. KeptReports' \subseteq O /\ MissingReports' \subseteq O
    BY <1>6 DEF KeptReports, MissingReports
<1>8. BagToSet(stored) \subseteq BagToSet(stored') => KeptReports \subseteq KeptReports'
    <2>1. \A m \in BagToSet(stored) : Report(m)' = Report(m)
        BY <1>1, <1>3, ViewStays DEF ProcessorOK
    <2> QED BY <2>1 DEF KeptReports
<1>9. lost \subseteq lost' => MissingReports \subseteq MissingReports'
    <2>1. \A m \in lost : Report(m)' = Report(m)
        BY <1>1, <1>3, ViewStays DEF ProcessorOK
    <2> QED BY <2>1 DEF MissingReports
<1>10. \/ stored' = Kept(stored, Current(p)) /\ UNCHANGED lost
       \/ lost' = lost \cup {Current(p)} /\ UNCHANGED stored
       \/ UNCHANGED <<stored, lost>>
    BY DEF ProcessorStep, Handle, Refuse, Store, StoreAndForward, Lose, ForwardFails, Redeliver
<1>11. CASE stored' = Kept(stored, Current(p)) /\ UNCHANGED lost
    <2>1. BagToSet(stored) \subseteq BagToSet(stored')
        BY <1>1, <1>11, KeptFacts DEF ProcessorOK
    <2>2. UNCHANGED MissingReports
        BY <1>3, <1>11, ViewsStay
    <2> QED BY <1>4, <1>7, <1>8, <2>1, <2>2, TelemetryShape
<1>12. CASE lost' = lost \cup {Current(p)} /\ UNCHANGED stored
    <2>1. UNCHANGED KeptReports
        BY <1>3, <1>12, ViewsStay
    <2> QED BY <1>4, <1>7, <1>9, <1>12, <2>1, TelemetryShape
<1>13. CASE UNCHANGED <<stored, lost>>
    BY <1>3, <1>4, <1>13, ViewsStay, TelemetryShape
<1> QED BY <1>10, <1>11, <1>12, <1>13

LEMMA TelemetryInit == Init => Abstract!Init /\ OnlyEvents
<1> SUFFICES ASSUME Init PROVE Abstract!Init /\ OnlyEvents
    OBVIOUS
<1>1. BagToSet(EmptyBag) = {} /\ stored = EmptyBag /\ lost = {}
    BY DEF Init, EmptyBag, SetToBag, BagToSet
<1>2. \A r \in Requests : request[r] = "new"
    BY DEF Init, ProducerInit
<1>3. ReportsIn({"sending", "accepted", "failed", "cut"}) = {} /\ ReportsIn({"accepted"}) = {}
    BY <1>2 DEF ReportsIn
<1> QED BY <1>1, <1>3 DEF Abstract!Init, OnlyEvents

\* The safety half of ImplementsTelemetry: each step of the pipeline is a step of
\* Telemetry or none of its concern.  So a 202 is given only for what was offered, a
\* promise is never taken back, what is stored stays, and whatever the transformation,
\* the brokers and the consumers do, nothing is stored or lost that is not a report
\* read from a POST.
THEOREM KeepsToTelemetry == Spec => Abstract!Init /\ [][Abstract!Next]_(Abstract!vars)
<1>1. TypeOK /\ OnlyEvents /\ [Next]_vars => TypeOK' /\ OnlyEvents' /\ [Abstract!Next]_(Abstract!vars)
    <2> SUFFICES ASSUME TypeOK, OnlyEvents, [Next]_vars
                 PROVE  TypeOK' /\ OnlyEvents' /\ [Abstract!Next]_(Abstract!vars)
        OBVIOUS
    <2>1. TypeOK' /\ OnlyEvents'
        BY ProducerSteps, ProcessorSteps, TypeStutter, OnlyEventsSteps DEF Next
    <2>2. CASE ProducerNext /\ UNCHANGED processorVars
        BY <2>1, <2>2, TelemetryProducer
    <2>3. ASSUME NEW p \in Partitions, ProcessorStep(p)
          PROVE  [Abstract!Next]_(Abstract!vars)
        BY <2>1, <2>3, TelemetryProcessor
    <2>4. CASE UNCHANGED vars
        <3>1. SentStays
            BY <2>4, TypeParts, ProducerStays DEF vars
        <3>2. UNCHANGED <<KeptReports, MissingReports>>
            BY <2>4, <3>1, ViewsStay DEF vars, processorVars
        <3> DEFINE O == ReportsIn(OfferedStates)
                   P == ReportsIn({"accepted"})
        <3>3. UNCHANGED <<O, P>>
            BY <2>4, SilentProducer DEF vars, producerVars
        <3>4. UNCHANGED <<O, P, KeptReports, MissingReports>>
            BY <3>2, <3>3
        <3> QED BY <2>1, <3>4, TelemetryShape
    <2> QED BY <2>1, <2>2, <2>3, <2>4 DEF Next
<1> QED BY <1>1, TypeInit, TelemetryInit, PTL DEF Spec

=============================================================================
