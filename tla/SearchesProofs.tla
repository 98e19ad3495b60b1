--------------------------- MODULE SearchesProofs ---------------------------
(***************************************************************************)
(* What holds of the stateless requests for any documents, queries and     *)
(* sizes, however documents arrive meanwhile.                              *)
(*                                                                         *)
(* An order of the hits of a search has each of them once, so what a cut   *)
(* leaves out of it is known by its place.  A trace keeps that of either   *)
(* search.  A walk through pages needs more than it shows: a document that *)
(* is not shown yet has at least as many before it as there were places on *)
(* the pages, and documents that arrive only make them more.  A limit      *)
(* leaves out what gives way to the top, and the top only gets busier.     *)
(***************************************************************************)
EXTENDS Searches, FiniteSetTheorems, SequenceTheorems, TLAPS

-----------------------------------------------------------------------------
(* The orders of hits and what is cut out of them.                          *)

\* What an order of the hits is: it has each of them once, by its key.
Orders(s, hits, sort) ==
    /\ s \in Seq(hits)
    /\ Len(s) \in Nat /\ Len(s) = Cardinality(hits) /\ DOMAIN s = 1..Len(s)
    /\ \A n \in DOMAIN s : s[n] \in hits
    /\ \A d \in hits : \E n \in DOMAIN s : s[n] = d
    /\ \A m, n \in DOMAIN s : m # n => s[m] # s[n]
    /\ \A m, n \in DOMAIN s : m < n => SortKey(s[m], sort) <= SortKey(s[n], sort)

LEMMA SortedOrders ==
    ASSUME NEW hits, IsFiniteSet(hits), NEW sort, NEW s \in Sorted(hits, sort)
    PROVE  Orders(s, hits, sort)
<1> DEFINE size == Cardinality(hits)
<1>1. size \in Nat
    BY FS_CardinalityType
<1>2. s \in [1..size -> hits] /\ \A m, n \in 1..size : m # n => s[m] # s[n]
    BY DEF Sorted, SetToSeqs
<1>3. s \in Seq(hits) /\ Len(s) = size
    BY <1>1, <1>2, SeqDef, LenProperties
<1>4. s \in Surjection(1..size, hits)
    <2>1. s \in Injection(1..size, hits)
        BY <1>2 DEF Injection, IsInjective
    <2>2. Cardinality(1..size) = size
        BY <1>1, FS_Interval
    <2> QED BY <2>1, <2>2, FS_Injection
<1>5. \A d \in hits : \E n \in 1..size : s[n] = d
    BY <1>4 DEF Surjection
<1>6. \A m, n \in DOMAIN s : m < n => SortKey(s[m], sort) <= SortKey(s[n], sort)
    BY DEF Sorted
<1> HIDE DEF size
<1> QED BY <1>1, <1>2, <1>3, <1>5, <1>6 DEF Orders, size

\* What a piece of a list is.
Piece(c, s, skipped, size) ==
    /\ Len(c) \in Nat /\ DOMAIN c = 1..Len(c) /\ Len(c) <= size
    /\ Len(c) < size => Len(s) <= skipped + Len(c) \/ Len(s) < skipped
    /\ skipped + Len(c) <= Len(s) \/ Len(c) = 0
    /\ \A n \in 1..Len(c) : c[n] = s[skipped + n]

LEMMA CutPiece ==
    ASSUME NEW S, NEW s \in Seq(S), NEW skipped \in Nat, NEW size \in Nat
    PROVE  Cut(s, skipped, size) \in Seq(S) /\ Piece(Cut(s, skipped, size), s, skipped, size)
<1> DEFINE last == Least(skipped + size, Len(s))  c == SubSeq(s, skipped + 1, last)
<1>1. Len(s) \in Nat /\ DOMAIN s = 1..Len(s) /\ \A n \in 1..Len(s) : s[n] \in S
    BY LenProperties, ElementOfSeq
<1>2. last \in Nat /\ last <= skipped + size /\ last <= Len(s) /\ last \in {skipped + size, Len(s)}
    BY <1>1 DEF Least
<1> HIDE DEF last
<1>3. c = [n \in 1..(last - skipped) |-> s[n + skipped]]
    BY <1>2
<1>4. PICK length \in Nat : /\ 1..(last - skipped) = 1..length
                            /\ last < skipped => length = 0
                            /\ last >= skipped => length = last - skipped
    <2>1. CASE last < skipped
        <3>1. 1..(last - skipped) = 1..0
            BY <1>2, <2>1
        <3> QED BY <2>1, <3>1, <1>2
    <2>2. CASE last >= skipped
        <3>1. last - skipped \in Nat
            BY <1>2, <2>2
        <3> QED BY <2>2, <3>1, <1>2
    <2> QED BY <1>2, <2>1, <2>2
<1> HIDE DEF c
<1>5. /\ length <= size /\ (skipped + length <= Len(s) \/ length = 0)
      /\ length < size => Len(s) <= skipped + length \/ Len(s) < skipped
    <2>1. length \in Nat /\ (last < skipped => length = 0) /\ (last >= skipped => length = last - skipped)
        BY <1>4
    <2> DEFINE total == Len(s)
    <2>2. total \in Nat /\ last <= total /\ last \in {skipped + size, total}
        BY <1>1, <1>2
    <2> SUFFICES /\ length <= size /\ (skipped + length <= total \/ length = 0)
                 /\ length < size => total <= skipped + length \/ total < skipped
        OBVIOUS
    <2> HIDE DEF total
    <2> QED BY <1>2, <2>1, <2>2
<1>6. c = [n \in 1..length |-> s[n + skipped]]
    BY <1>3, <1>4
<1>7. c \in Seq(S) /\ Len(c) = length /\ DOMAIN c = 1..length /\ \A n \in 1..length : c[n] = s[skipped + n]
    <2>1. \A n \in 1..length : n + skipped = skipped + n /\ skipped + n \in 1..Len(s)
        BY <1>1, <1>5
    <2>2. c \in [1..length -> S] /\ \A n \in 1..length : c[n] = s[skipped + n]
        BY <1>1, <1>6, <2>1
    <2> QED BY <1>4, <2>2, SeqDef, LenProperties
<1>8. c = Cut(s, skipped, size)
    BY DEF Cut, last, c
<1> QED BY <1>5, <1>7, <1>8 DEF Piece

LEMMA SeqGrows ==
    ASSUME NEW S, NEW T, S \subseteq T
    PROVE  Seq(S) \subseteq Seq(T)
BY SeqDef

LEMMA KeyType ==
    ASSUME TypeOK, NEW d \in stored
    PROVE  /\ Doc[d].at \in Int
           /\ SortKey(d, "start_time_asc") = Doc[d].at
           /\ stage # "idle" /\ query.endpoint \in Paged /\ (query.endpoint # "logs" => Doc[d].type = "span")
              => SortKey(d, query.sort) \in Int
<1>1. Doc[d].at \in Int /\ (Doc[d].type = "span" => Doc[d].duration \in Int)
    BY SearchesAssumption DEF TypeOK
<1>2. ASSUME stage # "idle", query.endpoint \in Paged, query.endpoint # "logs" => Doc[d].type = "span"
      PROVE  SortKey(d, query.sort) \in Int
    <2>1. query.sort \in {"start_time_asc", "start_time_desc"} \cup
              IF query.endpoint = "logs" THEN {} ELSE {"duration_asc", "duration_desc"}
        BY <1>2, SearchesAssumption DEF TypeOK
    <2>2. CASE query.sort \in {"start_time_asc", "start_time_desc"}
        BY <1>1, <2>2 DEF SortKey
    <2>3. CASE query.endpoint # "logs" /\ query.sort \in {"duration_asc", "duration_desc"}
        BY <1>1, <1>2, <2>3 DEF SortKey
    <2> QED BY <2>1, <2>2, <2>3
<1>3. SortKey(d, "start_time_asc") = Doc[d].at
    BY DEF SortKey
<1> QED BY <1>1, <1>2, <1>3

\* What a search may take is finite.
LEMMA HitsFinite ==
    ASSUME TypeOK, NEW hits \in SUBSET stored
    PROVE  IsFiniteSet(hits) /\ Cardinality(hits) \in Nat
<1>1. hits \in SUBSET Documents
    BY DEF TypeOK
<1> QED BY <1>1, SearchesAssumption, FS_Subset, FS_CardinalityType

LEMMA PieceFound ==
    ASSUME TypeOK, NEW hits \in SUBSET stored, NEW sort, NEW s \in Sorted(hits, sort),
           NEW skipped \in Nat, NEW size \in Nat
    PROVE  /\ Orders(s, hits, sort)
           /\ Piece(Cut(s, skipped, size), s, skipped, size)
           /\ Found(Cut(s, skipped, size), size)
           /\ Cut(s, skipped, size) \in Seq(stored)
<1>1. Orders(s, hits, sort)
    BY HitsFinite, SortedOrders
<1>2. s \in Seq(hits)
    BY <1>1 DEF Orders
<1>3. Cut(s, skipped, size) \in Seq(hits) /\ Piece(Cut(s, skipped, size), s, skipped, size)
    BY <1>2, CutPiece
<1>4. Cut(s, skipped, size) \in Seq(stored)
    BY <1>3, SeqGrows
<1> QED BY <1>1, <1>3, <1>4 DEF Found, Piece

\* The documents of a trace that a search gives.
LEMMA TraceFound ==
    ASSUME TypeOK, NEW hits \in SUBSET stored, NEW size \in Nat, NEW c \in findByTraceId(hits, size)
    PROVE  Found(c, size) /\ LeavesOutOnlyLater(c, hits, size)
<1>1. PICK s \in Sorted(hits, "start_time_asc") : c = Cut(s, 0, size)
    BY DEF findByTraceId
<1>2. Orders(s, hits, "start_time_asc") /\ Piece(c, s, 0, size) /\ Found(c, size)
    BY <1>1, PieceFound
<1>3. ASSUME NEW d \in hits \ Range(c)
      PROVE  Len(c) = size /\ \A e \in Range(c) : Doc[e].at <= Doc[d].at
    <2>1. PICK n \in DOMAIN s : s[n] = d
        BY <1>2 DEF Orders
    <2>2. Len(s) \in Nat /\ DOMAIN s = 1..Len(s) /\ n \in 1..Len(s)
        BY <1>2 DEF Orders
    <2>3. Len(c) \in Nat /\ DOMAIN c = 1..Len(c) /\ Len(c) <= size
          /\ \A m \in 1..Len(c) : c[m] = s[m]
        BY <1>2 DEF Piece
    <2>4. n \notin 1..Len(c)
        BY <1>3, <2>1, <2>3 DEF Range
    <2>5. Len(c) = size
        <3>1. Len(c) < size => Len(s) <= Len(c)
            BY <1>2, <2>2, <2>3 DEF Piece
        <3> DEFINE total == Len(s)  length == Len(c)
        <3>2. n \in 1..total /\ total \in Nat /\ length \in Nat /\ length <= size /\ n \notin 1..length
            BY <2>2, <2>3, <2>4
        <3>3. length < size => total <= length
            BY <3>1
        <3> HIDE DEF total, length
        <3>4. length = size
            BY <3>2, <3>3
        <3> QED BY <3>4 DEF length
    <2>6. ASSUME NEW e \in Range(c)
          PROVE  Doc[e].at <= Doc[d].at
        <3>1. PICK m \in 1..Len(c) : e = s[m]
            BY <2>3 DEF Range
        <3>2. m \in DOMAIN s /\ m < n
            BY <1>2, <2>2, <2>3, <2>4 DEF Piece
        <3>3. SortKey(e, "start_time_asc") <= SortKey(d, "start_time_asc") /\ e \in stored /\ d \in stored
            BY <1>2, <2>1, <3>1, <3>2 DEF Orders
        <3> QED BY <3>3, KeyType
    <2> QED BY <2>5, <2>6
<1> QED BY <1>2, <1>3 DEF LeavesOutOnlyLater

-----------------------------------------------------------------------------
(* What the steps do.                                                       *)

LEMMA Gotten ==
    ASSUME NEW field, NEW values, Gets(field, values)
    PROVE  \E v \in values :
               /\ DOMAIN result' = DOMAIN result \cup {field}
               /\ result'[field] = v
               /\ \A other \in DOMAIN result \ {field} : result'[other] = result[other]
BY DEF Gets

\* The parts of an answer that there are at each stage.
Parts ==
    /\ stage # "idle" /\ query.endpoint \in Paged => DOMAIN result = {"pages"}
    /\ Answered(Paged) => result.pages # <<>>
    /\ Answered({"trace"}) => Has("spans") /\ Has("logs")

\* Documents arrive, the clock goes on, or nothing happens.
Outside ==
    /\ stored \subseteq stored' /\ stored' \subseteq Documents
    /\ now' \in 0..MaxTime
    /\ UNCHANGED <<stage, query, window, result, known>>

LEMMA OutsideSteps ==
    ASSUME TypeOK, (\E d \in Documents : IndexDocument(d)) \/ Tick \/ UNCHANGED vars
    PROVE  Outside
<1>1. stored \subseteq Documents /\ now \in 0..MaxTime
    BY DEF TypeOK
<1>2. CASE \E d \in Documents : IndexDocument(d)
    BY <1>1, <1>2 DEF IndexDocument, Outside
<1>3. CASE Tick
    <2>1. now' \in 0..MaxTime
        BY <1>1, <1>3, SearchesAssumption DEF Tick
    <2> QED BY <1>1, <1>3, <2>1 DEF Tick, Outside
<1>4. CASE UNCHANGED vars
    BY <1>1, <1>4 DEF vars, Outside
<1> QED BY <1>2, <1>3, <1>4

\* What is wanted are documents that are stored, and a page of a walk is one of them.
LEMMA WantedStored ==
    Wanted \in SUBSET stored \/ query.endpoint \notin Paged
BY DEF Wanted, Paged, TermLogs, TermSpans, ServerSpans, Of

\* A step to the next page shows a piece of an order of what is wanted.
ShowsPage(s, page) ==
    /\ s \in Sorted(Wanted, query.sort)
    /\ page = Cut(s, Skipped(NextNumber, query.size), query.size)
    /\ result' = [pages |-> Append(result.pages, page)]
    /\ stage' = "answered"
    /\ UNCHANGED <<stored, now, query, window, known>>

LEMMA PageSteps ==
    ASSUME GetSpans \/ GetServiceTraces \/ GetLogs
    PROVE  /\ stage = "asked" /\ query.endpoint \in Paged
           /\ \E s, page : ShowsPage(s, page)
<1> DEFINE Shows(pages) == pages = Page(Wanted, query, NextNumber)
<1>1. ASSUME NEW pages, Answer(pages), pages = Page(Wanted, query, NextNumber),
             UNCHANGED <<stored, now, query, window, known>>
      PROVE  \E s, page : ShowsPage(s, page)
    <2>1. PICK page \in pages : result' = [pages |-> Append(result.pages, page)]
        BY <1>1 DEF Answer
    <2>2. PICK s \in Sorted(Wanted, query.sort) :
              page = Cut(s, Skipped(NextNumber, query.size), query.size)
        BY <1>1, <2>1 DEF Page
    <2>3. ShowsPage(s, page)
        BY <1>1, <2>1, <2>2 DEF ShowsPage, Answer
    <2> QED BY <2>3
<1>2. CASE GetSpans
    <2>1. searchSpans(query, NextNumber) = Page(Wanted, query, NextNumber)
        BY <1>2 DEF GetSpans, At, searchSpans, Wanted
    <2> QED BY <1>1, <1>2, <2>1 DEF GetSpans, At, Paged
<1>3. CASE GetServiceTraces
    <2>1. searchServiceTraces(query, NextNumber) = Page(Wanted, query, NextNumber)
        BY <1>3 DEF GetServiceTraces, At, searchServiceTraces, Wanted
    <2> QED BY <1>1, <1>3, <2>1 DEF GetServiceTraces, At, Paged
<1>4. CASE GetLogs
    <2>1. searchLogs(query, NextNumber) = Page(Wanted, query, NextNumber)
        BY <1>4 DEF GetLogs, At, searchLogs, Wanted
    <2> QED BY <1>1, <1>4, <2>1 DEF GetLogs, At, Paged
<1> QED BY <1>2, <1>3, <1>4

\* The pages of a walk, and the number of the next.
LEMMA Pages ==
    ASSUME TypeOK, Parts, stage # "idle", query.endpoint \in Paged
    PROVE  /\ Has("pages") /\ result.pages \in Seq(Seq(stored))
           /\ query.size \in Nat \ {0} /\ query \in Queries
           /\ Len(result.pages) \in Nat /\ DOMAIN result.pages = 1..Len(result.pages)
           /\ \A n \in DOMAIN result.pages : Found(result.pages[n], query.size)
           /\ Skipped(NextNumber, query.size) = Len(result.pages) * query.size
           /\ Skipped(NextNumber, query.size) \in Nat
<1>1. Has("pages") /\ query \in Queries
    BY DEF TypeOK, Parts, Has
<1>2. query.size \in Nat \ {0}
    BY <1>1, SearchesAssumption
<1>3. /\ result.pages \in Seq(Seq(stored))
      /\ \A n \in DOMAIN result.pages : Found(result.pages[n], query.size)
    BY <1>1 DEF TypeOK
<1>4. Len(result.pages) \in Nat /\ DOMAIN result.pages = 1..Len(result.pages)
    BY <1>3, LenProperties
<1>5. Skipped(NextNumber, query.size) = Len(result.pages) * query.size
    <2> DEFINE n == Len(result.pages)  size == query.size
    <2>1. n \in Nat /\ size \in Nat /\ Skipped(NextNumber, query.size) = (n + 1 - 1) * size
        BY <1>2, <1>4 DEF Skipped, NextNumber
    <2>2. n + 1 - 1 = n
        BY <2>1
    <2> QED BY <2>1, <2>2
<1>6. Len(result.pages) * query.size \in Nat
    BY <1>2, <1>4
<1> QED BY <1>1, <1>2, <1>3, <1>4, <1>5, <1>6

\* A search that is not one of a walk adds a field.
LEMMA GetsType ==
    ASSUME TypeOK, NEW endpoint \in {"trace", "overview", "endpoints", "endpointTraces"}, At(endpoint),
           NEW field \in {"spans", "logs", "traces", "items", "threshold"}, NEW values,
           Gets(field, values),
           \A v \in values : /\ field = "spans" => Found(v, SpanSize)
                             /\ field = "logs" => Found(v, LogSize)
                             /\ field = "traces" => Found(v, query.limit),
           stage' \in {"asked", "answered"}, endpoint = "trace" => stage' = "asked"
    PROVE  TypeOK' /\ Parts'
<1>1. /\ stage = "asked" /\ query.endpoint = endpoint
      /\ stored' = stored /\ now' = now /\ query' = query /\ window' = window /\ known' = known
    BY DEF At
<1>2. PICK v \in values :
          /\ DOMAIN result' = DOMAIN result \cup {field}
          /\ result'[field] = v
          /\ \A other \in DOMAIN result \ {field} : result'[other] = result[other]
    BY Gotten
<1>3. Has("spans")' => Found(result'["spans"], SpanSize)
    BY <1>2 DEF TypeOK, Has
<1>4. Has("logs")' => Found(result'["logs"], LogSize)
    BY <1>2 DEF TypeOK, Has
<1>5. Has("traces")' => Found(result'["traces"], query.limit)
    BY <1>2 DEF TypeOK, Has
<1>6. Has("pages")' => Has("pages") /\ result'["pages"] = result["pages"]
    BY <1>2 DEF Has
<1>7. TypeOK'
    BY <1>1, <1>3, <1>4, <1>5, <1>6 DEF TypeOK, Found
<1>8. Parts'
    BY <1>1 DEF Parts, Answered, Paged
<1> QED BY <1>7, <1>8

LEMMA TypeStep ==
    ASSUME TypeOK, Parts, [Next]_vars
    PROVE  TypeOK' /\ Parts'
<1> USE DEF Has, Answered
<1>1. CASE (\E d \in Documents : IndexDocument(d)) \/ Tick \/ UNCHANGED vars
    <2>1. Outside
        BY <1>1, OutsideSteps
    <2>2. Seq(stored) \subseteq Seq(stored') /\ Seq(Seq(stored)) \subseteq Seq(Seq(stored'))
        BY <2>1, SeqGrows DEF Outside
    <2>3. TypeOK'
        BY <2>1, <2>2 DEF TypeOK, Outside, Found
    <2>4. Parts'
        BY <2>1 DEF Parts, Outside
    <2> QED BY <2>3, <2>4
<1>2. ASSUME NEW q \in Queries, Ask(q)
      PROVE  TypeOK' /\ Parts'
    <2>1. /\ stage' = "asked" /\ query' = q /\ known' = stored /\ stored' = stored /\ now' = now
          /\ result' = IF q.endpoint \in Paged THEN [pages |-> <<>>] ELSE <<>>
        BY <1>2 DEF Ask
    <2>2. <<>> \in Seq(Seq(stored)) /\ DOMAIN <<>> = {}
        OBVIOUS
    <2>3. q # NoQuery
        BY SearchesAssumption
    <2>4. CASE q.endpoint \in Paged
        <3>1. DOMAIN result' = {"pages"} /\ result'["pages"] = <<>>
            BY <2>1, <2>4
        <3>2. TypeOK'
            BY <2>1, <2>2, <2>3, <3>1 DEF TypeOK
        <3> QED BY <2>1, <3>1, <3>2 DEF Parts, Paged
    <2>5. CASE q.endpoint \notin Paged
        <3>1. DOMAIN result' = {}
            BY <2>1, <2>2, <2>5
        <3>2. TypeOK'
            BY <2>1, <2>3, <3>1 DEF TypeOK
        <3> QED BY <2>1, <2>5, <3>2 DEF Parts
    <2> QED BY <2>4, <2>5
<1>3. CASE FindSpans
    <2>1. \A v \in findByTraceId(TermSpans(query), SpanSize) : Found(v, SpanSize)
        <3>1. TermSpans(query) \in SUBSET stored
            BY DEF TermSpans, Of
        <3> QED BY <3>1, TraceFound, SearchesAssumption
    <2> QED BY <1>3, <2>1, GetsType DEF FindSpans, At
<1>4. CASE FindLogs
    <2>1. \A v \in findByTraceId(TermLogs(query), LogSize) : Found(v, LogSize)
        <3>1. TermLogs(query) \in SUBSET stored
            BY DEF TermLogs, Of
        <3> QED BY <3>1, TraceFound, SearchesAssumption
    <2> QED BY <1>4, <2>1, GetsType DEF FindLogs, At
<1>5. CASE AnswerTrace
    <2>1. /\ stage = "asked" /\ query.endpoint = "trace" /\ stage' \in {"answered", "notFound"}
          /\ "spans" \in DOMAIN result /\ "logs" \in DOMAIN result
          /\ UNCHANGED <<stored, now, query, window, result, known>>
        BY <1>5 DEF AnswerTrace, At
    <2>2. TypeOK'
        BY <2>1 DEF TypeOK, Found
    <2> QED BY <2>1, <2>2 DEF Parts, Paged
<1>6. CASE GetOverview
    BY <1>6, GetsType DEF GetOverview
<1>7. CASE GetEndpointMetrics
    BY <1>7, GetsType DEF GetEndpointMetrics
<1>8. CASE GetSlowThreshold
    <2>1. stage' = "asked"
        BY <1>8 DEF GetSlowThreshold, At
    <2> QED BY <1>8, <2>1, GetsType DEF GetSlowThreshold
<1>9. CASE GetEndpointTraces
    <2>1. /\ At("endpointTraces") /\ stage' = "answered"
          /\ Gets("traces", findRecentTracesByEndpoint(query,
                               IF query.slow THEN result.threshold ELSE NoThreshold))
        BY <1>9 DEF GetEndpointTraces
    <2>2. query.limit \in Nat
        BY <2>1, SearchesAssumption DEF At, TypeOK
    <2>3. ASSUME NEW threshold, NEW v \in findRecentTracesByEndpoint(query, threshold)
          PROVE  Found(v, query.limit)
        <3> DEFINE hits == IF threshold \in {NoThreshold, 0} THEN ServerSpans(query)
                           ELSE {d \in ServerSpans(query) : threshold <= Doc[d].duration}
        <3>1. hits \in SUBSET stored
            BY DEF ServerSpans, TermSpans, Of
        <3>2. PICK s \in Sorted(hits, "start_time_desc") : v = Cut(s, 0, query.limit)
            BY <2>3 DEF findRecentTracesByEndpoint
        <3> HIDE DEF hits
        <3> QED BY <2>2, <3>1, <3>2, PieceFound
    <2> QED BY <2>1, <2>3, GetsType
<1>10. CASE GetSpans \/ GetServiceTraces \/ GetLogs
    <2>1. stage = "asked" /\ query.endpoint \in Paged
        BY <1>10, PageSteps
    <2>2. PICK s, page : ShowsPage(s, page)
        BY <1>10, PageSteps
    <2>3. Wanted \in SUBSET stored
        BY <2>1, WantedStored
    <2>4. /\ result.pages \in Seq(Seq(stored)) /\ query.size \in Nat
          /\ \A n \in DOMAIN result.pages : Found(result.pages[n], query.size)
          /\ Skipped(NextNumber, query.size) \in Nat
        BY <2>1, Pages
    <2>5. Found(page, query.size) /\ page \in Seq(stored)
        BY <2>2, <2>3, <2>4, PieceFound DEF ShowsPage
    <2> DEFINE pages == Append(result.pages, page)
    <2>6. DOMAIN result' = {"pages"} /\ result'["pages"] = pages
        BY <2>2 DEF ShowsPage
    <2>7. /\ pages \in Seq(Seq(stored)) /\ pages # <<>>
          /\ \A n \in DOMAIN pages : Found(pages[n], query.size)
        BY <2>4, <2>5, AppendProperties, LenProperties
    <2> HIDE DEF pages
    <2>8. TypeOK'
        BY <2>1, <2>2, <2>6, <2>7 DEF TypeOK, Found, ShowsPage
    <2> QED BY <2>1, <2>2, <2>6, <2>7, <2>8 DEF Parts, ShowsPage, Paged
<1>11. CASE NextPage
    <2>1. TypeOK'
        BY <1>11 DEF NextPage, TypeOK, Found
    <2> QED BY <1>11, <2>1 DEF NextPage, Parts
<1>12. CASE Fail
    <2>1. TypeOK'
        BY <1>12 DEF Fail, TypeOK, Found
    <2> QED BY <1>12, <2>1 DEF Fail, Parts
<1> QED BY <1>1, <1>2, <1>3, <1>4, <1>5, <1>6, <1>7, <1>8, <1>9, <1>10, <1>11, <1>12 DEF Next

LEMMA TypeInit ==
    ASSUME Init
    PROVE  TypeOK /\ Parts
<1>1. DOMAIN result = {}
    BY DEF Init
<1> QED BY <1>1, SearchesAssumption DEF Init, TypeOK, Parts, Has, Answered

\* The fields have their types, whatever is stored and asked.
THEOREM TypeCorrect == Spec => []TypeOK
<1>1. Init => TypeOK /\ Parts
    BY TypeInit
<1>2. TypeOK /\ Parts /\ [Next]_vars => TypeOK' /\ Parts'
    BY TypeStep
<1> QED BY <1>1, <1>2, PTL DEF Spec

-----------------------------------------------------------------------------
(* A trace and its logs.                                                    *)

\* What was known of the trace, and what is true of its two searches.
KnownSpans == TermSpans(query) \cap known
KnownLogs  == TermLogs(query) \cap known

TraceKept ==
    /\ Has("spans") => LeavesOutOnlyLater(result.spans, KnownSpans, SpanSize)
    /\ Has("logs") => LeavesOutOnlyLater(result.logs, KnownLogs, LogSize)
    /\ stage = "notFound" => KnownSpans = {} /\ KnownLogs = {}

LEMMA KnownStays ==
    ASSUME TypeOK, stored \subseteq stored', known' = known, query' = query
    PROVE  KnownSpans' = KnownSpans /\ KnownLogs' = KnownLogs
<1>1. known \subseteq stored
    BY DEF TypeOK
<1> QED BY <1>1 DEF KnownSpans, KnownLogs, TermSpans, TermLogs, Of

\* A step that leaves the two searches of a trace as they are.
LEMMA TraceUntouched ==
    ASSUME TypeOK, TraceKept, stored \subseteq stored', known' = known, query' = query,
           \A field \in {"spans", "logs"} :
               Has(field)' => Has(field) /\ result'[field] = result[field],
           stage' = "notFound" => stage = "notFound"
    PROVE  TraceKept'
<1>1. KnownSpans' = KnownSpans /\ KnownLogs' = KnownLogs
    BY KnownStays
<1>2. Has("spans")' => LeavesOutOnlyLater(result.spans, KnownSpans, SpanSize)'
    BY <1>1 DEF TraceKept, LeavesOutOnlyLater
<1>3. Has("logs")' => LeavesOutOnlyLater(result.logs, KnownLogs, LogSize)'
    BY <1>1 DEF TraceKept, LeavesOutOnlyLater
<1> QED BY <1>1, <1>2, <1>3 DEF TraceKept

\* Nothing of an answer has room for one more, so nothing was left out of it.
LEMMA NothingLeftOut ==
    ASSUME NEW wanted, NEW size \in Nat \ {0}, LeavesOutOnlyLater(<<>>, wanted, size)
    PROVE  wanted = {}
<1>1. Range(<<>>) = {} /\ Len(<<>>) = 0
    BY DEF Range
<1> QED BY <1>1 DEF LeavesOutOnlyLater

LEMMA TraceStep ==
    ASSUME TypeOK, Parts, TraceKept, [Next]_vars
    PROVE  TraceKept'
<1>1. CASE (\E d \in Documents : IndexDocument(d)) \/ Tick \/ UNCHANGED vars
    <2>1. Outside
        BY <1>1, OutsideSteps
    <2> QED BY <2>1, TraceUntouched DEF Outside, Has
<1>2. ASSUME NEW q \in Queries, Ask(q)
      PROVE  TraceKept'
    <2>1. stage' = "asked" /\ DOMAIN result' \subseteq {"pages"}
        BY <1>2 DEF Ask
    <2> QED BY <2>1 DEF TraceKept, Has
<1>3. CASE FindSpans
    <2>1. /\ stage' = stage /\ stage = "asked"
          /\ UNCHANGED <<stored, now, query, window, known>>
        BY <1>3 DEF FindSpans, At
    <2>2. PICK v \in findByTraceId(TermSpans(query), SpanSize) :
              /\ result'["spans"] = v
              /\ DOMAIN result' = DOMAIN result \cup {"spans"}
              /\ \A other \in DOMAIN result \ {"spans"} : result'[other] = result[other]
        BY <1>3, Gotten DEF FindSpans
    <2>3. LeavesOutOnlyLater(v, TermSpans(query), SpanSize)
        <3>1. TermSpans(query) \in SUBSET stored
            BY DEF TermSpans, Of
        <3> QED BY <3>1, TraceFound, SearchesAssumption
    <2>4. LeavesOutOnlyLater(result'.spans, KnownSpans, SpanSize)
        BY <2>2, <2>3 DEF LeavesOutOnlyLater, KnownSpans
    <2>5. KnownSpans' = KnownSpans /\ KnownLogs' = KnownLogs
        BY <2>1, KnownStays
    <2>6. Has("logs")' => LeavesOutOnlyLater(result'.logs, KnownLogs, LogSize)
        BY <2>2 DEF TraceKept, Has
    <2> QED BY <2>1, <2>4, <2>5, <2>6 DEF TraceKept, LeavesOutOnlyLater
<1>4. CASE FindLogs
    <2>1. /\ stage' = stage /\ stage = "asked"
          /\ UNCHANGED <<stored, now, query, window, known>>
        BY <1>4 DEF FindLogs, At
    <2>2. PICK v \in findByTraceId(TermLogs(query), LogSize) :
              /\ result'["logs"] = v
              /\ DOMAIN result' = DOMAIN result \cup {"logs"}
              /\ \A other \in DOMAIN result \ {"logs"} : result'[other] = result[other]
        BY <1>4, Gotten DEF FindLogs
    <2>3. LeavesOutOnlyLater(v, TermLogs(query), LogSize)
        <3>1. TermLogs(query) \in SUBSET stored
            BY DEF TermLogs, Of
        <3> QED BY <3>1, TraceFound, SearchesAssumption
    <2>4. LeavesOutOnlyLater(result'.logs, KnownLogs, LogSize)
        BY <2>2, <2>3 DEF LeavesOutOnlyLater, KnownLogs
    <2>5. KnownSpans' = KnownSpans /\ KnownLogs' = KnownLogs
        BY <2>1, KnownStays
    <2>6. Has("spans")' => LeavesOutOnlyLater(result'.spans, KnownSpans, SpanSize)
        BY <2>2 DEF TraceKept, Has
    <2> QED BY <2>1, <2>4, <2>5, <2>6 DEF TraceKept, LeavesOutOnlyLater
<1>5. CASE AnswerTrace
    <2>1. /\ Has("spans") /\ Has("logs")
          /\ UNCHANGED <<stored, now, query, window, result, known>>
          /\ stage' = "notFound" => result.spans = <<>> /\ result.logs = <<>>
        BY <1>5 DEF AnswerTrace, At
    <2>2. KnownSpans' = KnownSpans /\ KnownLogs' = KnownLogs
        BY <2>1, KnownStays
    <2>3. ASSUME stage' = "notFound"
          PROVE  KnownSpans = {} /\ KnownLogs = {}
        <3>1. LeavesOutOnlyLater(<<>>, KnownSpans, SpanSize) /\ LeavesOutOnlyLater(<<>>, KnownLogs, LogSize)
            BY <2>1, <2>3 DEF TraceKept
        <3> QED BY <3>1, NothingLeftOut, SearchesAssumption
    <2> QED BY <2>1, <2>2, <2>3 DEF TraceKept, LeavesOutOnlyLater, Has
<1>6. ASSUME NEW endpoint, At(endpoint), NEW field \in {"items", "threshold", "traces"}, NEW values,
             Gets(field, values), stage' # "notFound"
      PROVE  TraceKept'
    <2>1. UNCHANGED <<stored, query, known>>
        BY <1>6 DEF At
    <2>2. PICK v \in values :
              /\ DOMAIN result' = DOMAIN result \cup {field}
              /\ \A other \in DOMAIN result \ {field} : result'[other] = result[other]
        BY <1>6, Gotten
    <2> QED BY <1>6, <2>1, <2>2, TraceUntouched DEF Has
<1>7. CASE GetOverview
    BY <1>6, <1>7 DEF GetOverview
<1>8. CASE GetEndpointMetrics
    BY <1>6, <1>8 DEF GetEndpointMetrics
<1>9. CASE GetSlowThreshold
    BY <1>6, <1>9 DEF GetSlowThreshold, At
<1>10. CASE GetEndpointTraces
    BY <1>6, <1>10 DEF GetEndpointTraces
<1>11. CASE GetSpans \/ GetServiceTraces \/ GetLogs
    <2>1. PICK s, page : ShowsPage(s, page)
        BY <1>11, PageSteps
    <2>2. stage' = "answered" /\ DOMAIN result' = {"pages"}
        BY <2>1 DEF ShowsPage
    <2> QED BY <2>2 DEF TraceKept, Has
<1>12. CASE NextPage
    BY <1>12, TraceUntouched DEF NextPage, Has
<1>13. CASE Fail
    BY <1>13, TraceUntouched DEF Fail, Has
<1> QED BY <1>1, <1>2, <1>3, <1>4, <1>5, <1>7, <1>8, <1>9, <1>10, <1>11, <1>12, <1>13 DEF Next

\* A trace that is answered has what was stored of it when it was asked for, and 404
\* means that nothing was: each search of the two keeps that by itself.
THEOREM TracesTrue == Spec => []TraceAnswerTrue
<1>1. Init => TypeOK /\ Parts /\ TraceKept
    <2>1. Init => DOMAIN result = {} /\ stage = "idle"
        BY DEF Init
    <2> QED BY <2>1, TypeInit DEF TraceKept, Has
<1>2. TypeOK /\ Parts /\ TraceKept /\ [Next]_vars => TypeOK' /\ Parts' /\ TraceKept'
    BY TypeStep, TraceStep
<1>3. Parts /\ TraceKept => TraceAnswerTrue
    BY DEF Parts, TraceKept, TraceAnswerTrue, KnownSpans, KnownLogs
<1> QED BY <1>1, <1>2, <1>3, PTL DEF Spec

-----------------------------------------------------------------------------
(* A walk through pages.                                                    *)

\* What comes before a document in every order.
Before(d) == {e \in Wanted : SortKey(e, query.sort) < SortKey(d, query.sort)}

\* A walk in a window that was given in full has shown a document that it looks for, or
\* has still to come to it: as many as its pages hold are before it.
Walking ==
    /\ stage # "idle" /\ query.endpoint \in Paged
    /\ query.from # NoTime /\ query.to # NoTime

StillToCome(d) == Cardinality(Before(d)) >= Len(result.pages) * query.size

WalkKept ==
    Walking =>
        /\ window = [from |-> query.from, to |-> query.to]
        /\ \A d \in Wanted \cap known : d \in Shown \/ Tied(d) \/ StillToCome(d)
        /\ stage = "answered" /\ Len(Last(result.pages)) < query.size =>
               \A d \in Wanted \cap known : d \in Shown \/ Tied(d)

\* More documents make ties, and may come before others, but none of those that were
\* known is new.
LEMMA WantedGrows ==
    ASSUME TypeOK, TypeOK', stage # "idle", query.endpoint \in Paged,
           stored \subseteq stored', UNCHANGED <<query, window, known>>
    PROVE  /\ Wanted \subseteq Wanted' /\ (Wanted \cap known)' = Wanted \cap known
           /\ \A d \in Wanted : Tied(d) => Tied(d)'
           /\ \A d \in Wanted : Cardinality(Before(d)') \in Nat /\ Cardinality(Before(d)) \in Nat
                                /\ Cardinality(Before(d)') >= Cardinality(Before(d))
<1>1. known \subseteq stored
    BY DEF TypeOK
<1>2. Wanted \subseteq Wanted' /\ (Wanted \cap known)' = Wanted \cap known
    <2>1. CASE query.endpoint = "logs"
        BY <1>1, <2>1 DEF Wanted, TermLogs, Of, InWindow
    <2>2. CASE query.endpoint = "spans"
        BY <1>1, <2>2 DEF Wanted, TermSpans, Of, InWindow
    <2>3. CASE query.endpoint = "serviceTraces"
        BY <1>1, <2>3 DEF Wanted, ServerSpans, TermSpans, Of, InWindow
    <2> QED BY <2>1, <2>2, <2>3 DEF Paged
<1>3. ASSUME NEW d \in Wanted, Tied(d)
      PROVE  Tied(d)'
    BY <1>2, <1>3 DEF Tied
<1>4. ASSUME NEW d \in Wanted
      PROVE  /\ Cardinality(Before(d)') \in Nat /\ Cardinality(Before(d)) \in Nat
             /\ Cardinality(Before(d)') >= Cardinality(Before(d))
    <2>1. Before(d) \in SUBSET Before(d)'
        BY <1>2 DEF Before
    <2>2. Wanted' \in SUBSET stored'
        <3>1. (Wanted \in SUBSET stored \/ query.endpoint \notin Paged)'
            BY WantedStored, PTL
        <3> QED BY <3>1
    <2>3. Before(d)' \in SUBSET Documents
        BY <2>2 DEF Before, TypeOK
    <2>4. IsFiniteSet(Before(d)')
        BY <2>3, SearchesAssumption, FS_Subset
    <2> HIDE DEF Before
    <2> QED BY <2>1, <2>4, FS_Subset, FS_CardinalityType
<1> QED BY <1>2, <1>3, <1>4

\* A document without ties has one place in all orders.
LEMMA Place ==
    ASSUME TypeOK, stage # "idle", query.endpoint \in Paged,
           NEW s, Orders(s, Wanted, query.sort), NEW n \in DOMAIN s, ~Tied(s[n])
    PROVE  Cardinality(Before(s[n])) = n - 1
<1> DEFINE first == 1..(n - 1)  f == [m \in first |-> s[m]]
<1>1. DOMAIN s = 1..Len(s) /\ Len(s) \in Nat /\ n \in 1..Len(s) /\ first \subseteq DOMAIN s
    BY DEF Orders
<1>2. ASSUME NEW m \in DOMAIN s
      PROVE  SortKey(s[m], query.sort) \in Int /\ s[m] \in Wanted
    <2>1. Wanted \in SUBSET stored /\ s[m] \in Wanted
        BY WantedStored DEF Orders
    <2>2. query.endpoint # "logs" => Doc[s[m]].type = "span"
        BY <2>1 DEF Wanted, Paged, ServerSpans, TermSpans, Of
    <2> QED BY <2>1, <2>2, KeyType
<1>3. ASSUME NEW m \in first
      PROVE  s[m] \in Before(s[n])
    <2>1. m \in DOMAIN s /\ m < n /\ m # n
        BY <1>1
    <2>2. SortKey(s[m], query.sort) <= SortKey(s[n], query.sort) /\ s[m] # s[n]
        BY <2>1 DEF Orders
    <2>3. SortKey(s[m], query.sort) # SortKey(s[n], query.sort)
        BY <1>2, <2>1, <2>2 DEF Tied
    <2>4. SortKey(s[m], query.sort) < SortKey(s[n], query.sort)
        BY <1>2, <2>1, <2>2, <2>3
    <2> QED BY <1>2, <2>1, <2>4 DEF Before
<1>4. ASSUME NEW d \in Before(s[n])
      PROVE  \E m \in first : s[m] = d
    <2>1. PICK m \in DOMAIN s : s[m] = d
        BY DEF Before, Orders
    <2>2. SortKey(s[m], query.sort) < SortKey(s[n], query.sort)
        BY <2>1 DEF Before
    <2>3. ~(n <= m)
        <3>1. n < m => SortKey(s[n], query.sort) <= SortKey(s[m], query.sort)
            BY <2>1 DEF Orders
        <3>2. SortKey(s[n], query.sort) \in Int /\ SortKey(s[m], query.sort) \in Int
            BY <1>2, <2>1
        <3>3. ~(n < m)
            BY <2>2, <3>1, <3>2
        <3>4. n # m
            BY <2>2, <3>2
        <3> QED BY <1>1, <2>1, <3>3, <3>4
    <2>4. m \in first
        BY <1>1, <2>1, <2>3
    <2> QED BY <2>1, <2>4
<1>5. f \in Bijection(first, Before(s[n]))
    <2>1. f \in [first -> Before(s[n])]
        BY <1>3
    <2>2. \A m1, m2 \in first : m1 # m2 => f[m1] # f[m2]
        BY <1>1 DEF Orders
    <2>3. \A d \in Before(s[n]) : \E m \in first : f[m] = d
        BY <1>4
    <2> HIDE DEF f, first
    <2> QED BY <2>1, <2>2, <2>3 DEF Bijection, Injection, Surjection, IsInjective
<1>6. IsFiniteSet(first) /\ Cardinality(first) = n - 1
    <2>1. 1 \in Int /\ n - 1 \in Int /\ n \in Nat /\ n >= 1
        BY <1>1
    <2>2. Cardinality(first) = IF 1 > n - 1 THEN 0 ELSE (n - 1) - 1 + 1
        BY <2>1, FS_Interval
    <2> QED BY <2>1, <2>2, FS_Interval
<1> HIDE DEF f, first
<1> QED BY <1>5, <1>6, FS_Bijection DEF ExistsBijection

\* A page shows a document without ties, or the document is after all of a full page.
LEMMA PageOrLater ==
    ASSUME TypeOK, Parts, stage # "idle", query.endpoint \in Paged,
           NEW s, NEW page, ShowsPage(s, page),
           NEW d \in Wanted, ~Tied(d), StillToCome(d)
    PROVE  \/ d \in Range(page)
           \/ Len(page) = query.size /\ StillToCome(d)'
<1> DEFINE skipped == Len(result.pages) * query.size
<1>1. skipped \in Nat /\ Skipped(NextNumber, query.size) = skipped /\ query.size \in Nat
      /\ result.pages \in Seq(Seq(stored)) /\ Len(result.pages) \in Nat
    BY Pages
<1>2. Wanted \in SUBSET stored
    BY WantedStored
<1>3. Orders(s, Wanted, query.sort) /\ Piece(page, s, skipped, query.size) /\ page \in Seq(stored)
    BY <1>1, <1>2, PieceFound DEF ShowsPage
<1>4. PICK n \in DOMAIN s : s[n] = d
    BY <1>3 DEF Orders
<1>5. Cardinality(Before(d)) = n - 1
    BY <1>3, <1>4, Place
<1>6. Len(s) \in Nat /\ n \in 1..Len(s)
    BY <1>3, <1>4 DEF Orders
<1>7. Len(page) \in Nat /\ DOMAIN page = 1..Len(page) /\ Len(page) <= query.size
    BY <1>3 DEF Piece
<1>8. n - 1 >= skipped
    BY <1>5 DEF StillToCome
<1>9. ASSUME n <= skipped + Len(page)
      PROVE  d \in Range(page)
    <2> HIDE DEF skipped
    <2>1. n - skipped \in 1..Len(page) /\ skipped + (n - skipped) = n
        BY <1>1, <1>6, <1>7, <1>8, <1>9
    <2>2. page[n - skipped] = s[n]
        BY <1>3, <2>1 DEF Piece
    <2> QED BY <1>4, <1>7, <2>1, <2>2 DEF Range
<1>10. ASSUME ~(n <= skipped + Len(page))
       PROVE  Len(page) = query.size /\ StillToCome(d)'
    <2> DEFINE total == Len(s)  length == Len(page)  size == query.size
    <2>1. length < size => total <= skipped + length \/ total < skipped
        BY <1>3 DEF Piece
    <2>2. /\ total \in Nat /\ n \in 1..total /\ length \in Nat /\ length <= size /\ size \in Nat
          /\ skipped \in Nat /\ n - 1 >= skipped /\ ~(n <= skipped + length)
        BY <1>1, <1>6, <1>7, <1>8, <1>10
    <2>3. length = size /\ n - 1 >= skipped + size
        <3> HIDE DEF skipped, total, length, size
        <3> QED BY <2>1, <2>2
    <2>4. Len(result'.pages) = Len(result.pages) + 1
        <3>1. result'.pages = Append(result.pages, page)
            BY DEF ShowsPage
        <3> QED BY <1>1, <1>3, <3>1, AppendProperties
    <2>5. Len(result'.pages) * size = skipped + size
        <3> DEFINE number == Len(result.pages)
        <3>1. (number + 1) * size = number * size + size
            <4>1. number \in Nat /\ size \in Nat
                BY <1>1
            <4> HIDE DEF number, size
            <4> QED BY <4>1
        <3> QED BY <2>4, <3>1
    <2>6. Before(d)' = Before(d) /\ query' = query
        BY DEF ShowsPage, Before, Wanted, TermSpans, TermLogs, ServerSpans, Of, InWindow
    <2>7. Cardinality(Before(d)') >= Len(result'.pages) * query'.size
        BY <1>5, <2>3, <2>5, <2>6
    <2> QED BY <2>3, <2>7 DEF StillToCome
<1> QED BY <1>9, <1>10

\* Pages are added to what was shown.
LEMMA ShownGrows ==
    ASSUME TypeOK, Parts, stage # "idle", query.endpoint \in Paged,
           NEW s, NEW page, ShowsPage(s, page), page \in Seq(stored)
    PROVE  /\ Shown \cup Range(page) \subseteq Shown'
           /\ Last(result'.pages) = page
<1> DEFINE pages == result.pages  n == Len(pages)
<1>1. pages \in Seq(Seq(stored)) /\ n \in Nat /\ DOMAIN pages = 1..n
    BY Pages
<1>2. result'.pages = Append(pages, page)
    BY DEF ShowsPage
<1>3. /\ Len(Append(pages, page)) = n + 1
      /\ \A m \in 1..n : Append(pages, page)[m] = pages[m]
      /\ Append(pages, page)[n + 1] = page
      /\ DOMAIN Append(pages, page) = 1..(n + 1)
    BY <1>1, AppendProperties
<1>4. Last(result'.pages) = page
    BY <1>2, <1>3 DEF Last
<1>5. ASSUME NEW m \in DOMAIN pages, NEW d \in Range(pages[m])
      PROVE  d \in Shown'
    <2>1. m \in DOMAIN result'.pages /\ result'.pages[m] = pages[m]
        BY <1>1, <1>2, <1>3
    <2> QED BY <2>1 DEF Shown
<1>6. ASSUME NEW d \in Range(page)
      PROVE  d \in Shown'
    <2>1. n + 1 \in DOMAIN result'.pages /\ result'.pages[n + 1] = page
        BY <1>1, <1>2, <1>3
    <2> QED BY <2>1 DEF Shown
<1> QED BY <1>4, <1>5, <1>6 DEF Shown

\* A step that leaves the walk as it is, while documents may arrive.
LEMMA WalkUntouched ==
    ASSUME TypeOK, TypeOK', Parts, WalkKept, stored \subseteq stored',
           UNCHANGED <<query, window, result, known>>, stage # "idle", stage' # "idle",
           stage' = "answered" => stage = "answered"
    PROVE  WalkKept'
<1> SUFFICES ASSUME Walking'
             PROVE  /\ window = [from |-> query.from, to |-> query.to]
                    /\ \A d \in (Wanted \cap known)' : d \in Shown' \/ Tied(d)' \/ StillToCome(d)'
                    /\ stage' = "answered" /\ Len(Last(result.pages)) < query.size =>
                           \A d \in (Wanted \cap known)' : d \in Shown' \/ Tied(d)'
    BY DEF WalkKept
<1>1. Walking
    BY DEF Walking
<1>2. /\ (Wanted \cap known)' = Wanted \cap known
      /\ \A d \in Wanted : Tied(d) => Tied(d)'
      /\ \A d \in Wanted : Cardinality(Before(d)') \in Nat /\ Cardinality(Before(d)) \in Nat
                           /\ Cardinality(Before(d)') >= Cardinality(Before(d))
    BY <1>1, WantedGrows DEF Walking
<1>3. Shown' = Shown
    BY DEF Shown
<1>4. ASSUME NEW d \in Wanted, StillToCome(d)
      PROVE  StillToCome(d)'
    <2> DEFINE skipped == Len(result.pages) * query.size
    <2>1. skipped \in Nat
        BY <1>1, <1>4, Pages DEF Walking
    <2>2. StillToCome(d) <=> Cardinality(Before(d)) >= skipped
        BY DEF StillToCome
    <2>3. StillToCome(d)' <=> Cardinality(Before(d)') >= skipped
        BY DEF StillToCome
    <2> HIDE DEF skipped
    <2> QED BY <1>2, <1>4, <2>1, <2>2, <2>3
<1> QED BY <1>1, <1>2, <1>3, <1>4 DEF WalkKept

LEMMA PageKept ==
    ASSUME TypeOK, Parts, WalkKept, GetSpans \/ GetServiceTraces \/ GetLogs
    PROVE  WalkKept'
<1>1. stage = "asked" /\ query.endpoint \in Paged
    BY PageSteps
<1>2. PICK s, page : ShowsPage(s, page)
    BY PageSteps
<1>3. /\ stage' = "answered"
      /\ UNCHANGED <<stored, now, query, window, known>>
    BY <1>2 DEF ShowsPage
<1>4. Wanted' = Wanted
    BY <1>3 DEF Wanted, TermSpans, TermLogs, ServerSpans, Of, InWindow
<1>5. \A d : Tied(d)' <=> Tied(d)
    BY <1>3, <1>4 DEF Tied
<1>6. page \in Seq(stored)
    <2>1. Wanted \in SUBSET stored /\ query.size \in Nat /\ Skipped(NextNumber, query.size) \in Nat
        BY <1>1, WantedStored, Pages
    <2> QED BY <1>2, <2>1, PieceFound DEF ShowsPage
<1>7. Shown \cup Range(page) \subseteq Shown' /\ Last(result'.pages) = page
    BY <1>1, <1>2, <1>6, ShownGrows
<1> SUFFICES ASSUME Walking'
             PROVE  /\ window = [from |-> query.from, to |-> query.to]
                    /\ \A d \in Wanted \cap known : d \in Shown' \/ Tied(d) \/ StillToCome(d)'
                    /\ Len(page) < query.size => \A d \in Wanted \cap known : d \in Shown' \/ Tied(d)
    BY <1>3, <1>4, <1>5, <1>7 DEF WalkKept
<1>8. Walking
    BY <1>1, <1>3 DEF Walking
<1>9. ASSUME NEW d \in Wanted \cap known
      PROVE  \/ d \in Shown' \/ Tied(d)
             \/ StillToCome(d)' /\ Len(page) = query.size
    BY <1>1, <1>2, <1>7, <1>8, PageOrLater DEF WalkKept
<1>10. query.size \in Nat /\ (Len(page) # query.size \/ ~(Len(page) < query.size))
    <2>1. query.size \in Nat
        BY <1>1, Pages
    <2> QED BY <2>1
<1> QED BY <1>8, <1>9, <1>10 DEF WalkKept

LEMMA WalkStep ==
    ASSUME TypeOK, Parts, TypeOK', WalkKept, [Next]_vars
    PROVE  WalkKept'
<1>1. CASE (\E d \in Documents : IndexDocument(d)) \/ Tick \/ UNCHANGED vars
    <2>1. Outside
        BY <1>1, OutsideSteps
    <2>2. CASE stage = "idle"
        BY <2>1, <2>2 DEF Outside, WalkKept, Walking
    <2>3. CASE stage # "idle"
        BY <2>1, <2>3, WalkUntouched DEF Outside
    <2> QED BY <2>2, <2>3
<1>2. ASSUME NEW q \in Queries, Ask(q)
      PROVE  WalkKept'
    <2>1. stage' = "asked" /\ query' = q /\ window' = resolveTimeRange(q)
        BY <1>2 DEF Ask
    <2> SUFFICES ASSUME Walking'
                 PROVE  /\ window' = [from |-> q.from, to |-> q.to]
                        /\ \A d \in (Wanted \cap known)' : StillToCome(d)'
        BY <2>1 DEF WalkKept
    <2>2. q.endpoint \in Paged /\ q.from # NoTime /\ q.to # NoTime
        BY <2>1 DEF Walking
    <2>3. window' = [from |-> q.from, to |-> q.to]
        BY <2>1, <2>2 DEF resolveTimeRange
    <2>4. Len(result'.pages) = 0
        BY <1>2, <2>2 DEF Ask
    <2>5. ASSUME NEW d \in (Wanted \cap known)'
          PROVE  StillToCome(d)'
        <3>1. (Wanted \in SUBSET stored \/ query.endpoint \notin Paged)'
            BY WantedStored, PTL
        <3>2. Before(d)' \in SUBSET Documents
            BY <2>1, <2>2, <3>1 DEF Before, TypeOK
        <3>3. Cardinality(Before(d)') \in Nat
            BY <3>2, SearchesAssumption, FS_Subset, FS_CardinalityType
        <3>4. Len(result'.pages) * query'.size = 0
            <4>1. q.size \in Nat
                BY <2>2, SearchesAssumption
            <4> QED BY <2>1, <2>4, <4>1
        <3>5. Cardinality(Before(d)') >= 0
            BY <3>3
        <3> QED BY <3>4, <3>5 DEF StillToCome
    <2> QED BY <2>3, <2>5
<1>3. CASE FindSpans \/ FindLogs \/ AnswerTrace \/ GetOverview \/ GetEndpointMetrics
           \/ GetSlowThreshold \/ GetEndpointTraces
    <2>1. query' = query /\ query.endpoint \notin Paged
        BY <1>3 DEF FindSpans, FindLogs, AnswerTrace, GetOverview, GetEndpointMetrics,
                    GetSlowThreshold, GetEndpointTraces, At, Paged
    <2> QED BY <2>1 DEF WalkKept, Walking
<1>4. CASE GetSpans \/ GetServiceTraces \/ GetLogs
    BY <1>4, PageKept
<1>5. CASE NextPage
    <2>1. /\ stage = "answered" /\ stage' = "asked" /\ window' = resolveTimeRange(query)
          /\ UNCHANGED <<stored, now, query, result, known>>
        BY <1>5 DEF NextPage
    <2>2. CASE Walking
        <3>1. window' = window
            BY <2>1, <2>2 DEF resolveTimeRange, WalkKept, Walking
        <3> QED BY <2>1, <3>1, WalkUntouched
    <2>3. CASE ~Walking
        BY <2>1, <2>3 DEF WalkKept, Walking
    <2> QED BY <2>2, <2>3
<1>6. CASE Fail
    BY <1>6, WalkUntouched DEF Fail
<1> QED BY <1>1, <1>2, <1>3, <1>4, <1>5, <1>6 DEF Next

\* While documents arrive, a walk to the last page of a window that was given in full
\* skips no document that was there before, but among equals: those that are
\* not shown yet have at least as many before them as the pages hold.
THEOREM PagesTrue == Spec => []PagesSkipNothing
<1>1. Init => TypeOK /\ Parts /\ WalkKept
    BY TypeInit DEF Init, WalkKept, Walking
<1>2. TypeOK /\ Parts /\ WalkKept /\ [Next]_vars => TypeOK' /\ Parts' /\ WalkKept'
    BY TypeStep, WalkStep
<1>3. WalkKept => PagesSkipNothing
    BY DEF WalkKept, Walking, PagesSkipNothing, Answered
<1> QED BY <1>1, <1>2, <1>3, PTL DEF Spec

-----------------------------------------------------------------------------
(* The busiest groups.                                                      *)

Values(hits, field) == {Doc[d][field] : d \in hits}

LEMMA ValuesFinite ==
    ASSUME NEW hits, IsFiniteSet(hits), NEW field
    PROVE  IsFiniteSet(Values(hits, field))
<1> DEFINE values == Values(hits, field)  f == [d \in hits |-> Doc[d][field]]
<1>1. f \in Surjection(hits, values)
    BY DEF Surjection, Values
<1> HIDE DEF f, values
<1>2. IsFiniteSet(values)
    BY <1>1, FS_Surjection
<1> QED BY <1>2 DEF values

\* What the groups of some documents are.
Grouping(hits, field) ==
    /\ DOMAIN ByField(hits, field) = Values(hits, field)
    /\ IsFiniteSet(DOMAIN ByField(hits, field))
    /\ \A g \in DOMAIN ByField(hits, field) :
           /\ ByField(hits, field)[g] = {d \in hits : Doc[d][field] = g}
           /\ ByField(hits, field)[g] # {} /\ IsFiniteSet(ByField(hits, field)[g])
           /\ Cardinality(ByField(hits, field)[g]) \in Nat

LEMMA GroupsOf ==
    ASSUME NEW hits, IsFiniteSet(hits), NEW field
    PROVE  Grouping(hits, field)
<1>1. /\ DOMAIN ByField(hits, field) = Values(hits, field)
      /\ \A g \in DOMAIN ByField(hits, field) :
             ByField(hits, field)[g] = {d \in hits : Doc[d][field] = g}
    BY DEF ByField, Values
<1>2. ASSUME NEW g \in DOMAIN ByField(hits, field)
      PROVE  /\ ByField(hits, field)[g] # {} /\ IsFiniteSet(ByField(hits, field)[g])
             /\ Cardinality(ByField(hits, field)[g]) \in Nat
    <2>1. ByField(hits, field)[g] \in SUBSET hits /\ ByField(hits, field)[g] # {}
        BY <1>1 DEF Values
    <2> QED BY <2>1, FS_Subset, FS_CardinalityType
<1>3. IsFiniteSet(DOMAIN ByField(hits, field))
    BY <1>1, ValuesFinite
<1> QED BY <1>1, <1>2, <1>3 DEF Grouping

\* Some of the groups are at the top, and what is not gives way to a full top.
LEMMA TopsFull ==
    ASSUME NEW hits, IsFiniteSet(hits), NEW field, NEW limit \in Nat \ {0},
           NEW top \in Tops(ByField(hits, field), limit)
    PROVE  /\ top \in SUBSET DOMAIN ByField(hits, field)
           /\ hits # {} => top # {}
           /\ \A g \in DOMAIN ByField(hits, field) \ top :
                  /\ Cardinality(top) = limit
                  /\ \A other \in top :
                         Cardinality(ByField(hits, field)[other]) >= Cardinality(ByField(hits, field)[g])
<1> DEFINE groups == DOMAIN ByField(hits, field)  count == Counts(ByField(hits, field))
<1>1. IsFiniteSet(groups) /\ Cardinality(groups) \in Nat /\ (hits # {} => groups # {})
    <2>1. groups = Values(hits, field) /\ IsFiniteSet(groups)
        <3>1. Grouping(hits, field)
            BY GroupsOf
        <3> QED BY <3>1 DEF Grouping
    <2>2. hits # {} => Values(hits, field) # {}
        BY DEF Values
    <2> HIDE DEF groups
    <2> QED BY <2>1, <2>2, FS_CardinalityType
<1>2. /\ top \in SUBSET groups
      /\ Cardinality(top) = Least(limit, Cardinality(groups))
      /\ \A g \in top, other \in groups \ top : count[g] >= count[other]
    BY DEF Tops, TopGroups
<1>3. \A g \in groups : count[g] = Cardinality(ByField(hits, field)[g])
    BY DEF Counts
<1>4. ASSUME hits # {}
      PROVE  top # {}
    <2>1. Cardinality(groups) # 0
        BY <1>1, <1>4, FS_EmptySet
    <2>2. Cardinality(top) # 0
        BY <1>1, <1>2, <2>1 DEF Least
    <2> QED BY <2>2, FS_EmptySet
<1>5. ASSUME NEW g \in groups \ top
      PROVE  /\ Cardinality(top) = limit
             /\ \A other \in top :
                    Cardinality(ByField(hits, field)[other]) >= Cardinality(ByField(hits, field)[g])
    <2>1. Cardinality(top) # Cardinality(groups)
        BY <1>1, <1>2, FS_Subset
    <2>2. Cardinality(top) = limit
        BY <1>2, <2>1 DEF Least
    <2>3. ASSUME NEW other \in top
          PROVE  Cardinality(ByField(hits, field)[other]) >= Cardinality(ByField(hits, field)[g])
        <3>1. count[other] >= count[g] /\ other \in groups
            BY <1>2
        <3> HIDE DEF count, groups
        <3> QED BY <1>3, <3>1
    <2> QED BY <2>2, <2>3
<1> QED BY <1>2, <1>4, <1>5

\* The groups at the top that are wanted are in an answer.
Covers(items) ==
    \E top \in Tops(ByField(Grouped, GroupField), query.limit) :
        \A g \in top \cap query.names : g \in {item[1] : item \in items}

LEMMA OverviewCovers ==
    ASSUME TypeOK, query \in Queries, query.endpoint = "overview",
           NEW items \in aggregateServiceOverview(query)
    PROVE  Covers(items)
<1> DEFINE services == ByField({d \in TermSpans(query) : InWindow(d, window)}, "service")
           envs     == [s \in DOMAIN services |-> ByField(services[s], "environment")]
           Picks(top) == {f \in [top -> SUBSET {Doc[d].environment : d \in stored}] :
                             \A s \in top : f[s] \in Tops(envs[s], EnvLimit)}
           Items(top, f) == UNION {{<<s, e, Summary(envs[s][e])>> : e \in f[s]} : s \in top \cap query.names}
<1>1. aggregateServiceOverview(query) =
          UNION {{Items(top, f) : f \in Picks(top)} : top \in Tops(services, query.limit)}
    BY DEF aggregateServiceOverview
<1>2. PICK top \in Tops(services, query.limit) : \E f \in Picks(top) : items = Items(top, f)
    <2> HIDE DEF Items, Picks, services
    <2> QED BY <1>1
<1>3. PICK f \in Picks(top) : items = Items(top, f)
    BY <1>2
<1>4. services = ByField(Grouped, GroupField) /\ Grouped \in SUBSET stored
    BY DEF Grouped, GroupField, TermSpans, Of
<1>5. query.limit \in Nat \ {0} /\ EnvLimit \in Nat \ {0}
    BY SearchesAssumption
<1>6. ASSUME NEW g \in top \cap query.names
      PROVE  g \in {item[1] : item \in items}
    <2>1. IsFiniteSet(Grouped)
        BY <1>4, HitsFinite
    <2>2. g \in DOMAIN services
        BY <1>4, <1>5, <2>1, TopsFull
    <2>3. IsFiniteSet(services[g]) /\ services[g] # {}
        <3> HIDE DEF services
        <3>1. g \in DOMAIN ByField(Grouped, GroupField)
            BY <1>4, <2>2
        <3>2. /\ IsFiniteSet(ByField(Grouped, GroupField)[g])
              /\ ByField(Grouped, GroupField)[g] # {}
            <4>1. Grouping(Grouped, GroupField)
                BY <2>1, GroupsOf
            <4> QED BY <3>1, <4>1 DEF Grouping
        <3> QED BY <1>4, <3>2
    <2>4. f[g] \in Tops(ByField(services[g], "environment"), EnvLimit)
        BY <1>3, <2>2
    <2>5. PICK e : e \in f[g]
        <3> HIDE DEF services
        <3> QED BY <1>5, <2>3, <2>4, TopsFull
    <2> DEFINE item == <<g, e, Summary(envs[g][e])>>
    <2>6. item \in items
        <3> HIDE DEF envs, Picks
        <3> QED BY <1>3, <2>5
    <2>7. item[1] = g
        OBVIOUS
    <2> HIDE DEF item
    <2> QED BY <2>6, <2>7
<1> HIDE DEF services
<1> QED BY <1>4, <1>6 DEF Covers

LEMMA EndpointsCover ==
    ASSUME query.endpoint = "endpoints", NEW items \in aggregateEndpointMetrics(query)
    PROVE  Covers(items)
<1> DEFINE endpoints == ByField(ServerSpans(query), "name")
<1>1. endpoints = ByField(Grouped, GroupField)
    BY DEF Grouped, GroupField
<1>2. PICK top \in Tops(endpoints, query.limit) :
          items = {<<e, Summary(endpoints[e])>> : e \in top \cap query.names}
    BY DEF aggregateEndpointMetrics
<1>3. ASSUME NEW g \in top \cap query.names
      PROVE  g \in {item[1] : item \in items}
    <2> DEFINE item == <<g, Summary(endpoints[g])>>
    <2>1. item \in items /\ item[1] = g
        BY <1>2
    <2> HIDE DEF item
    <2> QED BY <2>1
<1> HIDE DEF endpoints
<1> QED BY <1>1, <1>2, <1>3 DEF Covers

\* Documents that arrive make groups busier, and those that were known stay.
LEMMA GroupsGrow ==
    ASSUME TypeOK, TypeOK', stored \subseteq stored', UNCHANGED <<query, window, known>>
    PROVE  /\ (Grouped \cap known)' = Grouped \cap known
           /\ \A g \in DOMAIN ByField(Grouped \cap known, GroupField) :
                  /\ Cardinality(AsBusyAs(g)) \in Nat /\ Cardinality(AsBusyAs(g)') \in Nat
                  /\ Cardinality(AsBusyAs(g)') >= Cardinality(AsBusyAs(g))
<1> DEFINE old == Grouped  new == Grouped'  field == GroupField  was == Grouped \cap known
<1>1. known \subseteq stored
    BY DEF TypeOK
<1>2. old \subseteq new /\ (Grouped \cap known)' = was /\ GroupField' = field
    <2>1. CASE query.endpoint = "overview"
        BY <1>1, <2>1 DEF Grouped, TermSpans, Of, InWindow, GroupField
    <2>2. CASE query.endpoint # "overview"
        BY <1>1, <2>2 DEF Grouped, ServerSpans, TermSpans, Of, InWindow, GroupField
    <2> QED BY <2>1, <2>2
<1>3. new \in SUBSET Documents
    <2>1. new \subseteq stored'
        BY DEF Grouped, ServerSpans, TermSpans, Of
    <2> QED BY <2>1 DEF TypeOK
<1>4. IsFiniteSet(new) /\ IsFiniteSet(old) /\ IsFiniteSet(was)
    <2>1. old \in SUBSET Documents /\ was \in SUBSET Documents
        BY <1>2, <1>3
    <2> HIDE DEF old, new, was
    <2> QED BY <1>3, <2>1, FS_Subset, SearchesAssumption
<1> HIDE DEF old, new, field, was
<1>5. Grouping(old, field) /\ Grouping(new, field) /\ Grouping(was, field)
    BY <1>4, GroupsOf
<1>6. ASSUME NEW other \in DOMAIN ByField(old, field)
      PROVE  /\ other \in DOMAIN ByField(new, field)
             /\ Cardinality(ByField(old, field)[other]) \in Nat
             /\ Cardinality(ByField(new, field)[other]) \in Nat
             /\ Cardinality(ByField(new, field)[other]) >= Cardinality(ByField(old, field)[other])
    <2>1. other \in DOMAIN ByField(new, field)
        <3>1. DOMAIN ByField(old, field) = Values(old, field) /\ DOMAIN ByField(new, field) = Values(new, field)
            BY <1>5 DEF Grouping
        <3> QED BY <1>2, <3>1 DEF Values
    <2>2. ByField(old, field)[other] \in SUBSET ByField(new, field)[other]
        <3>1. ByField(old, field)[other] = {d \in old : Doc[d][field] = other}
            BY DEF ByField
        <3>2. ByField(new, field)[other] = {d \in new : Doc[d][field] = other}
            BY <2>1 DEF ByField
        <3> QED BY <1>2, <3>1, <3>2
    <2>3. IsFiniteSet(ByField(new, field)[other])
        BY <1>5, <2>1 DEF Grouping
    <2>4. Cardinality(ByField(old, field)[other]) \in Nat /\ Cardinality(ByField(new, field)[other]) \in Nat
        BY <1>5, <2>1 DEF Grouping
    <2>5. Cardinality(ByField(old, field)[other]) <= Cardinality(ByField(new, field)[other])
        BY <2>2, <2>3, FS_Subset
    <2> QED BY <2>1, <2>4, <2>5
<1>7. ASSUME NEW g \in DOMAIN ByField(was, field)
      PROVE  /\ Cardinality(AsBusyAs(g)) \in Nat /\ Cardinality(AsBusyAs(g)') \in Nat
             /\ Cardinality(AsBusyAs(g)') >= Cardinality(AsBusyAs(g))
    <2> DEFINE count == Cardinality(ByField(was, field)[g])
               A == {other \in DOMAIN ByField(old, field) \ {g} : Cardinality(ByField(old, field)[other]) >= count}
               B == {other \in DOMAIN ByField(new, field) \ {g} : Cardinality(ByField(new, field)[other]) >= count}
    <2>1. AsBusyAs(g) = A
        BY DEF AsBusyAs, old, field, was
    <2>2. AsBusyAs(g)' = B
        <3>1. /\ ByField(Grouped, GroupField)' = ByField(new, field)
              /\ ByField(Grouped \cap known, GroupField)' = ByField(was, field)
            BY <1>2 DEF ByField, new
        <3> QED BY <3>1 DEF AsBusyAs
    <2>3. count \in Nat
        BY <1>5 DEF Grouping
    <2>4. A \in SUBSET B
        <3> HIDE DEF count
        <3> QED BY <1>6, <2>3
    <2>5. IsFiniteSet(B)
        <3>1. IsFiniteSet(DOMAIN ByField(new, field)) /\ B \in SUBSET DOMAIN ByField(new, field)
            BY <1>5 DEF Grouping
        <3> HIDE DEF B
        <3> QED BY <3>1, FS_Subset
    <2> HIDE DEF A, B
    <2>6. IsFiniteSet(A) /\ Cardinality(A) <= Cardinality(B) /\ Cardinality(A) \in Nat /\ Cardinality(B) \in Nat
        BY <2>4, <2>5, FS_Subset, FS_CardinalityType
    <2> QED BY <2>1, <2>2, <2>6
<1>8. was = Grouped \cap known /\ field = GroupField
    BY DEF was, field
<1> QED BY <1>2, <1>7, <1>8

\* What an answer that covers the top leaves out gives way to it.
GivesWay(items) ==
    \A g \in DOMAIN ByField(Grouped \cap known, GroupField) \cap query.names :
        g \in {item[1] : item \in items} \/ Cardinality(AsBusyAs(g)) >= query.limit

LEMMA CoversGivesWay ==
    ASSUME TypeOK, query \in Queries, query.endpoint \in {"overview", "endpoints"},
           NEW items, Covers(items)
    PROVE  GivesWay(items)
<1> DEFINE hits == Grouped  field == GroupField  was == Grouped \cap known
<1>1. PICK top \in Tops(ByField(hits, field), query.limit) :
          \A g \in top \cap query.names : g \in {item[1] : item \in items}
    BY DEF Covers
<1>2. query.limit \in Nat \ {0}
    BY SearchesAssumption
<1>3. hits \in SUBSET stored /\ was \in SUBSET stored
    BY DEF Grouped, ServerSpans, TermSpans, Of
<1>4. IsFiniteSet(hits) /\ Grouping(hits, field) /\ Grouping(was, field)
    <2> HIDE DEF hits, was
    <2> QED BY <1>3, HitsFinite, GroupsOf
<1>5. ASSUME NEW g \in DOMAIN ByField(was, field) \cap query.names,
             g \notin {item[1] : item \in items}
      PROVE  Cardinality(AsBusyAs(g)) >= query.limit
    <2> DEFINE before == Cardinality(ByField(was, field)[g])
               busy == {other \in DOMAIN ByField(hits, field) \ {g} :
                            Cardinality(ByField(hits, field)[other]) >= before}
    <2>1. AsBusyAs(g) = busy
        BY DEF AsBusyAs
    <2>2. g \notin top
        BY <1>1, <1>5
    <2> HIDE DEF field
    <2>3. g \in DOMAIN ByField(hits, field)
        BY <1>4 DEF Grouping, Values
    <2>4. ByField(was, field)[g] \in SUBSET ByField(hits, field)[g] /\ IsFiniteSet(ByField(hits, field)[g])
        <3>1. was \subseteq hits
            OBVIOUS
        <3> HIDE DEF hits, was
        <3>2. /\ ByField(was, field)[g] = {d \in was : Doc[d][field] = g}
              /\ ByField(hits, field)[g] = {d \in hits : Doc[d][field] = g}
              /\ IsFiniteSet(ByField(hits, field)[g])
            BY <1>4, <1>5, <2>3 DEF Grouping
        <3> QED BY <3>1, <3>2
    <2> HIDE DEF hits, was
    <2>5. /\ top \in SUBSET DOMAIN ByField(hits, field)
          /\ Cardinality(top) = query.limit
          /\ \A other \in top :
                 Cardinality(ByField(hits, field)[other]) >= Cardinality(ByField(hits, field)[g])
        BY <1>1, <1>2, <1>4, <2>2, <2>3, TopsFull
    <2>6. before <= Cardinality(ByField(hits, field)[g])
        BY <2>4, FS_Subset
    <2>7. before \in Nat /\ \A other \in DOMAIN ByField(hits, field) : Cardinality(ByField(hits, field)[other]) \in Nat
        BY <1>4, <1>5 DEF Grouping
    <2>8. top \in SUBSET busy
        <3> SUFFICES ASSUME NEW other \in top
                     PROVE  other \in busy
            OBVIOUS
        <3>1. other \in DOMAIN ByField(hits, field) /\ other # g
            BY <2>2, <2>5
        <3> HIDE DEF before
        <3>2. Cardinality(ByField(hits, field)[other]) >= before
            BY <2>3, <2>5, <2>6, <2>7, <3>1
        <3> QED BY <3>1, <3>2
    <2>9. IsFiniteSet(busy)
        <3>1. IsFiniteSet(DOMAIN ByField(hits, field))
            BY <1>4 DEF Grouping
        <3>2. busy \in SUBSET DOMAIN ByField(hits, field)
            OBVIOUS
        <3> HIDE DEF busy
        <3> QED BY <3>1, <3>2, FS_Subset
    <2> HIDE DEF busy, before
    <2>10. Cardinality(top) <= Cardinality(busy)
        BY <2>8, <2>9, FS_Subset
    <2> QED BY <2>1, <2>5, <2>10
<1> QED BY <1>5 DEF GivesWay

LEMMA BusyStep ==
    ASSUME TypeOK, TypeOK', LeavesOutOnlyLessBusy, [Next]_vars
    PROVE  LeavesOutOnlyLessBusy'
<1>1. CASE (\E d \in Documents : IndexDocument(d)) \/ Tick \/ UNCHANGED vars
    <2>1. Outside
        BY <1>1, OutsideSteps
    <2> SUFFICES ASSUME Answered({"overview", "endpoints"})'
                 PROVE  GivesWay(result.items)'
        BY DEF GivesWay, LeavesOutOnlyLessBusy
    <2>2. Answered({"overview", "endpoints"}) /\ query \in Queries
        BY <2>1 DEF Answered, Outside, TypeOK
    <2>3. GivesWay(result.items)
        BY <2>2 DEF GivesWay, LeavesOutOnlyLessBusy
    <2> DEFINE before == DOMAIN ByField(Grouped \cap known, GroupField)
    <2>4. before' = before
        <3>1. (Grouped \cap known)' = Grouped \cap known /\ GroupField' = GroupField
            BY <2>1, GroupsGrow DEF Outside, GroupField
        <3> QED BY <3>1 DEF ByField
    <2>5. ASSUME NEW g \in before
          PROVE  /\ Cardinality(AsBusyAs(g)) \in Nat /\ Cardinality(AsBusyAs(g)') \in Nat
                 /\ Cardinality(AsBusyAs(g)') >= Cardinality(AsBusyAs(g))
        BY <2>1, GroupsGrow DEF Outside
    <2>6. query.limit \in Nat
        BY <2>2, SearchesAssumption DEF Answered
    <2> SUFFICES ASSUME NEW g \in before \cap query.names, g \notin {item[1] : item \in result.items}
                 PROVE  Cardinality(AsBusyAs(g)') >= query.limit
        BY <2>1, <2>4 DEF GivesWay, Outside
    <2>7. Cardinality(AsBusyAs(g)) >= query.limit
        BY <2>3 DEF GivesWay
    <2> HIDE DEF before
    <2> QED BY <2>5, <2>6, <2>7
<1>2. ASSUME At("overview") \/ At("endpoints"), stage' = "answered", Covers(result'.items)
      PROVE  LeavesOutOnlyLessBusy'
    <2>1. /\ stage = "asked" /\ query.endpoint \in {"overview", "endpoints"} /\ query \in Queries
          /\ UNCHANGED <<stored, now, query, window, known>>
        BY <1>2 DEF At, TypeOK
    <2>2. GivesWay(result'.items)
        BY <1>2, <2>1, CoversGivesWay
    <2>3. (Grouped \cap known)' = Grouped \cap known /\ GroupField' = GroupField /\ Grouped' = Grouped
        BY <2>1 DEF Grouped, GroupField, TermSpans, ServerSpans, Of, InWindow
    <2>4. ByField(Grouped, GroupField)' = ByField(Grouped, GroupField)
          /\ ByField(Grouped \cap known, GroupField)' = ByField(Grouped \cap known, GroupField)
        BY <2>3 DEF ByField
    <2>5. \A g : AsBusyAs(g)' = AsBusyAs(g)
        BY <2>4 DEF AsBusyAs
    <2> QED BY <2>1, <2>2, <2>4, <2>5 DEF GivesWay, LeavesOutOnlyLessBusy
<1>3. CASE GetOverview
    <2>1. result'.items \in aggregateServiceOverview(query)
        BY <1>3, Gotten DEF GetOverview
    <2>2. query \in Queries /\ query.endpoint = "overview"
        BY <1>3 DEF GetOverview, At, TypeOK
    <2> QED BY <1>2, <1>3, <2>1, <2>2, OverviewCovers DEF GetOverview
<1>4. CASE GetEndpointMetrics
    <2>1. result'.items \in aggregateEndpointMetrics(query)
        BY <1>4, Gotten DEF GetEndpointMetrics
    <2>2. query.endpoint = "endpoints"
        BY <1>4 DEF GetEndpointMetrics, At
    <2> QED BY <1>2, <1>4, <2>1, <2>2, EndpointsCover DEF GetEndpointMetrics
<1>5. CASE FindSpans \/ FindLogs \/ AnswerTrace \/ GetSlowThreshold \/ GetEndpointTraces
           \/ GetSpans \/ GetServiceTraces \/ GetLogs
    <2>1. query' = query /\ query.endpoint \notin {"overview", "endpoints"}
        BY <1>5 DEF FindSpans, FindLogs, AnswerTrace, GetSlowThreshold, GetEndpointTraces,
                    GetSpans, GetServiceTraces, GetLogs, At
    <2> QED BY <2>1 DEF LeavesOutOnlyLessBusy, Answered
<1>6. CASE (\E q \in Queries : Ask(q)) \/ NextPage \/ Fail
    <2>1. stage' # "answered"
        BY <1>6 DEF Ask, NextPage, Fail
    <2> QED BY <2>1 DEF LeavesOutOnlyLessBusy, Answered
<1> QED BY <1>1, <1>3, <1>4, <1>5, <1>6 DEF Next

\* The services of an overview, or the endpoints of a service, that an answer leaves
\* out give way to as many that are at least as busy as the limit says: those at
\* the top when it was answered, which only get busier.
THEOREM LimitsFair == Spec => []LeavesOutOnlyLessBusy
<1>1. Init => TypeOK /\ Parts /\ LeavesOutOnlyLessBusy
    BY TypeInit DEF Init, LeavesOutOnlyLessBusy, Answered
<1>2. TypeOK /\ Parts /\ LeavesOutOnlyLessBusy /\ [Next]_vars
          => TypeOK' /\ Parts' /\ LeavesOutOnlyLessBusy'
    BY TypeStep, BusyStep
<1> QED BY <1>1, <1>2, PTL DEF Spec

=============================================================================
