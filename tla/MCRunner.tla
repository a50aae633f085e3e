------------------------------ MODULE MCRunner ------------------------------
(* Small instances of Runner for TLC. *)
EXTENDS Runner

CONSTANTS d1, d2, d3, gone

RequestsOf(lists, links, prepared, before, carryOn, limit) ==
    [listed: lists, origin: links, prepared: prepared, before: before,
     abort: {before # {FALSE}}, carryOn: carryOn, limit: limit,
     after: {{"success", "failure"}}]

\* How the destinations are linked: side by side; a chain listed backwards;
\* a fan with a link to a destination that is disabled; a loop.
Links ==
    {d1 :> NoDest @@ d2 :> NoDest @@ d3 :> NoDest,
     d1 :> d2 @@ d2 :> d3 @@ d3 :> NoDest,
     d1 :> NoDest @@ d2 :> d1 @@ d3 :> d1,
     d1 :> NoDest @@ d2 :> d3 @@ d3 :> d2}
Listings == {<<d1, d2, d3>>, <<d1, d2>>, <<d2, d3>>, <<>>}

\* Every way to link the destinations; one link may dangle.  The names are
\* arbitrary: the prefixes of one list lose nothing.
AllLinks == [{d1, d2, d3} -> {d1, d2, d3, gone, NoDest}]
Leading == {SubSeq(<<d1, d2, d3>>, 1, n) : n \in 0..3}

\* Every switch of a job, a run without any, and every plan.
RunRequests ==
    RequestsOf(Listings, Links, {FALSE}, {FALSE}, BOOLEAN, BOOLEAN)
    \cup RequestsOf({<<d1, d2>>}, Links, BOOLEAN, {TRUE}, {TRUE}, {FALSE})
    \cup RequestsOf(Leading, AllLinks, {FALSE}, {FALSE}, {TRUE}, {FALSE})

\* The longest chain the validator accepts: eight hops, nine destinations.
CONSTANTS d4, d5, d6, d7, d8, d9
Longest == <<d1, d2, d3, d4, d5, d6, d7, d8, d9>>
LongestChain ==
    [d \in Range(Longest) |->
       IF d = d1 THEN NoDest ELSE Longest[(CHOOSE i \in 2..9 : Longest[i] = d) - 1]]
ChainRequests ==
    RequestsOf({Longest}, {LongestChain}, {FALSE}, {FALSE}, {TRUE}, {FALSE})
=============================================================================
