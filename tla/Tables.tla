------------------------------- MODULE Tables -------------------------------
(***************************************************************************)
(* Reading the event tables of ClickHouse while Core writes to them.       *)
(*                                                                         *)
(*   writer   a flush stamps all its rows with one time, a resource event  *)
(*            is stamped when it is received; both are inserted later, by  *)
(*            tasks that run beside each other.                            *)
(*   reader   the paged endpoints (/api/network-events, /api/k8s-events)   *)
(*            run two queries per request, a count and a page, and the UI  *)
(*            steps through the pages while they change.                   *)
(*   window   the MCP tools ask for the last N minutes, newest first.      *)
(*                                                                         *)
(* The two tables are read by the same code up to names and defaults, so   *)
(* one table stands for either, and for the rows that match the optional   *)
(* filters of the MCP tools.  The reader is the view of resource events,   *)
(* or the network view while paused (live, it goes back to the first page  *)
(* at every refresh).  Time is counted in seconds.                         *)
(*                                                                         *)
(* Names that Views has too begin with "Tables": ViewsProofs extends both. *)
(***************************************************************************)
EXTENDS Naturals, Integers, FiniteSets, FiniteSetsExt

CONSTANTS
    Unset,        \* a parameter that the request does not set
    DefaultSize,  \* the page size without a parameter
    MaxPageSize,  \* the cap on the page size
    Requested,    \* page sizes that requests ask for, Unset included
    Ttl,          \* age at which a row may be removed
    Limit,        \* LIMIT of the MCP queries
    Minute,       \* seconds per minute
    Word,         \* 2^w for the integers of the MCP server
    BatchSizes,   \* how many rows one write inserts
    MaxRows,      \* bound on the rows ever written
    MaxTime,      \* bound on the clock
    MaxRefetch    \* bound on fetches that fail or repeat a page

ASSUME TablesAssumption ==
    /\ DefaultSize \in Nat \ {0}
    /\ MaxPageSize \in Nat \ {0}
    /\ Requested \subseteq (Nat \ {0}) \cup {Unset}
    /\ Unset \notin Nat
    /\ {Ttl, Limit, Minute, Word} \subseteq Nat \ {0}
    /\ BatchSizes \subseteq Nat \ {0}
    /\ {MaxRows, MaxTime, MaxRefetch} \subseteq Nat

VARIABLES
    now,      \* the clock
    rows,     \* the table
    writes,   \* stamped batches whose insert is still on its way
    written,  \* how many rows were stamped
    reader,   \* the view that pages through the table, see ReaderState
    start,    \* the rows of the table when the reader opened it
    seen,     \* the rows it was shown
    late,     \* rows inserted between the two queries of its last fetch
    refetch   \* failed and repeated fetches

tablesVars == <<now, rows, writes, written, reader, start, seen, late, refetch>>

Row == [id: 1 .. MaxRows, time: 0 .. MaxTime]
Batch == SUBSET Row

\* pc "count": the count query comes next; "data": then the page itself;
\* "shown": the answer is on screen.  total is the count last received.
ReaderState == [pc: {"closed", "count", "data", "shown"}, page: Nat,
                size: 0 .. MaxPageSize, total: 0 .. MaxRows]

TablesTypeOK ==
    /\ now \in 0 .. MaxTime
    /\ rows \subseteq Row
    /\ writes \subseteq Batch
    /\ written \in 0 .. MaxRows
    /\ reader \in ReaderState
    /\ reader.pc # "closed" => reader.size > 0 /\ reader.page <= MaxRows
    /\ start \subseteq Row
    /\ seen \subseteq Row
    /\ late \in 0 .. MaxRows
    /\ refetch \in 0 .. MaxRefetch

TablesInit ==
    /\ now = 0
    /\ rows = {}
    /\ writes = {}
    /\ written = 0
    /\ reader = [pc |-> "closed", page |-> 0, size |-> 0, total |-> 0]
    /\ start = {}
    /\ seen = {}
    /\ late = 0
    /\ refetch = 0

view == <<reader, start, seen, refetch>>

-----------------------------------------------------------------------------
(* Writers, clock and expiry                                               *)

Tick ==
    /\ now < MaxTime
    /\ now' = now + 1
    /\ UNCHANGED <<rows, writes, written, late, view>>

\* now_ns of a flush, event_time of a resource event.
Stamp(k) ==
    /\ written + k <= MaxRows
    /\ written' = written + k
    /\ writes' = writes \cup
                    {[id: written + 1 .. written + k, time: {now}]}
    /\ UNCHANGED <<now, rows, late, view>>

InsertBatch(b) ==
    /\ writes' = writes \ {b}
    /\ rows' = rows \cup b
    /\ late' = IF reader.pc = "data" THEN late + Cardinality(b) ELSE late
    /\ UNCHANGED <<now, written, view>>

\* A failed write is not tried again with this stamp.
WriteFails(b) ==
    /\ writes' = writes \ {b}
    /\ UNCHANGED <<now, rows, written, late, view>>

Expired(r) == r.time + Ttl <= now

\* Merges remove expired rows part by part, in no particular order.
ExpireRow(r) ==
    /\ Expired(r)
    /\ rows' = rows \ {r}
    /\ UNCHANGED <<now, writes, written, late, view>>

-----------------------------------------------------------------------------
(* ORDER BY time DESC: rows of one time come in any order                  *)

\* Mutant: oldest first.
IsPrefix_Ascending(table, X) == \A r \in X, q \in table \ X : r.time <= q.time

\* The rows of X can be the first ones.
IsPrefix(table, X) == \A r \in X, q \in table \ X : q.time <= r.time

Prefixes(table, n) ==
    {X \in kSubset(IF n < Cardinality(table) THEN n ELSE Cardinality(table), table) :
        IsPrefix(table, X)}

\* The pages that LIMIT and OFFSET may yield.
Slices(table, limit, offset) ==
    {p[2] \ p[1] : p \in
        {q \in Prefixes(table, offset) \X Prefixes(table, offset + limit) :
            q[1] \subseteq q[2]}}

-----------------------------------------------------------------------------
(* The paged endpoints and the views that use them                         *)

\* Mutant: the cap is applied to the default only.
PageSize_Uncapped(requested) ==
    IF requested = Unset
    THEN (IF DefaultSize < MaxPageSize THEN DefaultSize ELSE MaxPageSize)
    ELSE requested

\* unwrap_or(default).min(cap)
PageSize(requested) ==
    LET size == IF requested = Unset THEN DefaultSize ELSE requested
    IN  IF size < MaxPageSize THEN size ELSE MaxPageSize

Open(requested) ==
    /\ reader.pc = "closed"
    /\ reader' = [pc |-> "count", page |-> 0, size |-> PageSize(requested), total |-> 0]
    /\ start' = rows
    /\ seen' = {}
    /\ UNCHANGED <<now, rows, writes, written, late, refetch>>

CountRows ==
    /\ reader.pc = "count"
    /\ reader' = [reader EXCEPT !.pc = "data", !.total = Cardinality(rows)]
    /\ late' = 0
    /\ UNCHANGED <<now, rows, writes, written, start, seen, refetch>>

FetchPage ==
    /\ reader.pc = "data"
    /\ \E page \in Slices(rows, reader.size, reader.page * reader.size) :
          seen' = seen \cup page
    /\ reader' = [reader EXCEPT !.pc = "shown"]
    /\ UNCHANGED <<now, rows, writes, written, start, late, refetch>>

\* Either query fails: the answer is an error, and the view asks again at
\* its next refresh.
QueryFails ==
    /\ reader.pc \in {"count", "data"}
    /\ refetch < MaxRefetch
    /\ refetch' = refetch + 1
    /\ reader' = [reader EXCEPT !.pc = "count"]
    /\ UNCHANGED <<now, rows, writes, written, start, seen, late>>

Refresh ==
    /\ reader.pc = "shown"
    /\ refetch < MaxRefetch
    /\ refetch' = refetch + 1
    /\ reader' = [reader EXCEPT !.pc = "count"]
    /\ UNCHANGED <<now, rows, writes, written, start, seen, late>>

\* "Next" is disabled from page Math.ceil(total / page_size) - 1 on.
HasNextPage == (reader.page + 1) * reader.size < reader.total

NextPage ==
    /\ reader.pc = "shown"
    /\ HasNextPage
    /\ reader' = [reader EXCEPT !.pc = "count", !.page = @ + 1]
    /\ UNCHANGED <<now, rows, writes, written, start, seen, late, refetch>>

TablesNext ==
    \/ Tick
    \/ \E k \in BatchSizes : Stamp(k)
    \/ \E b \in writes : InsertBatch(b) \/ WriteFails(b)
    \/ \E r \in rows : ExpireRow(r)
    \/ \E requested \in Requested : Open(requested)
    \/ CountRows \/ FetchPage \/ QueryFails \/ Refresh \/ NextPage

TablesSpec == TablesInit /\ [][TablesNext]_tablesVars

-----------------------------------------------------------------------------
(* The MCP tools                                                           *)

\* Mutant: the product is computed in half as many values.
WindowSeconds_Narrow(minutes) == (minutes * Minute) % (Word \div 2)

\* "last_minutes * 60" in an unsigned integer that wraps.
WindowSeconds(minutes) == (minutes * Minute) % Word

Newest(table) == Slices(table, Limit, 0)

get_network_events(minutes) ==
    Newest({r \in rows : r.time >= now - WindowSeconds(minutes)})

\* "event_time >= now() - INTERVAL n MINUTE": ClickHouse multiplies.
get_k8s_events(minutes) ==
    Newest({r \in rows : r.time >= now - minutes * Minute})

-----------------------------------------------------------------------------
(* Properties                                                              *)

AtLastPage == reader.pc = "shown" /\ ~ HasNextPage

UniqueTime(r) == \A q \in rows : q.time = r.time => q = r

\* What a reader that reached the last page was not shown although it was
\* there all the time, is not due to expire and shares its time with none.
Missed == {r \in (start \cap rows) \ seen : UniqueTime(r) /\ ~ Expired(r)}

\* Paging by OFFSET under concurrent inserts, expiry and failed queries:
\* reading "newest first" to the last page misses at most as many such rows
\* as were inserted between the count and the page of the last answer.
\* (Rows with one time, such as those of one flush, may be missed freely.)
PagingMissesOnlyLate == AtLastPage => Cardinality(Missed) <= late

\* As long as last_minutes * 60 does not wrap, both tools show what "the
\* last N minutes" says: rows of that window only, the newest ones, and all
\* of them unless the limit is reached.
WindowExact ==
    \A minutes \in 0 .. Word - 1 : minutes * Minute < Word =>
        LET window == {r \in rows : now - r.time <= minutes * Minute}
        IN  \A shown \in get_network_events(minutes) \cup get_k8s_events(minutes) :
              /\ shown \subseteq window
              /\ \A r \in shown, q \in window \ shown : q.time <= r.time
              /\ Cardinality(shown) < Limit => shown = window

=============================================================================
