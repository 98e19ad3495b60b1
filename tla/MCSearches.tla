----------------------------- MODULE MCSearches -----------------------------
(* An instance of Searches: one trace of two services, and another one. *)
EXTENDS Searches

CONSTANT NoOne

Span(trace, at, service, name, kind, parent, duration, status) ==
    [type |-> "span", trace |-> trace, at |-> at, service |-> service,
     environment |-> "production", name |-> name, kind |-> kind, parent |-> parent,
     duration |-> duration, status |-> status]

Log(trace, at) ==
    [type |-> "log", trace |-> trace, at |-> at, service |-> "shop",
     environment |-> "prod", level |-> "INFO"]

MCDoc ==
    [s1 |-> Span("x", 1, "shop", "GET", "SERVER", NoOne, 5, "OK"),
     s2 |-> Span("x", 2, "shop", "SELECT", "CLIENT", "s1", 3, "OK"),
     s3 |-> Span("y", 2, "shop", "GET", "SERVER", NoOne, 9, "ERROR"),
     s4 |-> Span("y", 3, "pay", "POST", "SERVER", "s3", 5, "OK"),
     l1 |-> Log("x", 1),
     l2 |-> Log("x", 2),
     l3 |-> Log("x", 2)]

MCDocuments == DOMAIN MCDoc

Query(endpoint, terms, from, to) ==
    [endpoint |-> endpoint, terms |-> terms, from |-> from, to |-> to]

Top(names, limit) == [names |-> names, limit |-> limit]

Walk(sort, range) == [size |-> 1, sort |-> sort, range |-> range]

Traces(slow) == [limit |-> 2, slow |-> slow, percentile |-> 95]

MCQueries ==
    {Query("trace", [trace |-> "x"], NoTime, NoTime),
     Query("trace", [trace |-> "y", service |-> "shop", environment |-> "prod"], NoTime, NoTime),
     Query("overview", [environment |-> "prod"], 0, 3) @@ Top({"pay", "shop"}, 1),
     Query("overview", <<>>, NoTime, 3) @@ Top({"pay"}, 1),
     Query("endpoints", [service |-> "shop"], 0, 3) @@ Top({"GET", "POST"}, 1),
     Query("endpointTraces", [service |-> "shop", name |-> "GET"], 0, 3) @@ Traces(TRUE),
     Query("endpointTraces", [service |-> "shop", name |-> "GET", status |-> "ERROR"], 0, 3)
         @@ Traces(FALSE),
     Query("spans", <<>>, 0, 3) @@ Walk("duration_asc", [min |-> 4, max |-> 9]),
     Query("spans", [trace |-> "x"], NoTime, NoTime) @@ Walk("start_time_desc", <<>>),
     Query("serviceTraces", [service |-> "shop"], 0, 3) @@ Walk("duration_desc", <<>>),
     Query("logs", [trace |-> "x"], 0, 3) @@ Walk("start_time_asc", <<>>)}

MCAlias      == [prod |-> "production", production |-> "production"]
MCNumberText == 95 :> "95"
MCDoubleText == 95 :> "95.0"

=============================================================================
