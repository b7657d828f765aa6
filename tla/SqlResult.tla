----------------------------- MODULE SqlResult -----------------------------
(***************************************************************************)
(* Reading the rows of a query (sql.cpp): sql_result, its page_iterator,   *)
(* which fetches one page at a time, page_iterator_sync, which holds the   *)
(* current page and has the next one under way, and row_iterator_sync, as  *)
(* the application's loop                                                  *)
(*     for (auto& row : result) ...                                        *)
(* drives them. The application may close the result between two calls and *)
(* goes on after a timeout. The member that runs the query is external.    *)
(***************************************************************************)
EXTENDS Naturals, Sequences, SequencesExt

CONSTANTS Results,     \* the results to read: the number of rows of each page
          Timeout,     \* whether begin() was given a positive timeout
          MaxTimeouts, \* bound: calls of ++ or * that time out
          MaxFaults    \* bound: fetches refused, lost or answered by an error

VARIABLES
    result,      \* the rows of each page; the last one is marked last()
    served,      \* pages the member has sent
    in_progress, \* page_iterator::in_progress_
    last,        \* page_iterator::last_
    preloaded,   \* state of the future preloaded_page_
    current,     \* page_iterator_sync::current_, 0 for null
    row_idx,     \* row_iterator_sync::row_idx_
    closed,      \* sql_result::closed_
    app,         \* what the application's loop does next
    got,         \* history: the rows the loop received
    timeouts, faults

fetching == <<in_progress, last, preloaded>>
vars == <<result, served, fetching, current, row_idx, closed, app, got,
          timeouts, faults>>

IsLast(page) == page = Len(result)
AllRows == FlattenSeq([p \in 1..Len(result) |->
                          [r \in 1..result[p] |-> <<p, r - 1>>]])

\* The response to execute carries the first page.
Init ==
    /\ result \in Results /\ served = 1
    /\ in_progress = FALSE /\ last = FALSE /\ preloaded = "none"
    /\ current = 0 /\ row_idx = 0 /\ closed = FALSE
    /\ app = "begin" /\ got = <<>> /\ timeouts = 0 /\ faults = 0

Throw == app' = "threw"

-----------------------------------------------------------------------------
(* page_iterator                                                           *)

\* next(), once the first page is taken: in_progress_ is set before the
\* invocation is made, which may be refused (too many invocations).
next(pc) ==
    /\ in_progress' = TRUE
    /\ \/ preloaded' = "waiting" /\ app' = pc /\ UNCHANGED faults
       \/ /\ faults < MaxFaults /\ faults' = faults + 1
          /\ preloaded' = "none" /\ Throw

\* if (has_next()) preloaded_page_ = next(): seen says whether the page just
\* taken was the last one.
Preload(seen, pc) ==
    \/ closed /\ Throw /\ preloaded' = "none" /\ UNCHANGED <<in_progress, faults>>
    \/ /\ ~closed /\ seen
       /\ app' = pc /\ preloaded' = "none" /\ UNCHANGED <<in_progress, faults>>
    \/ ~closed /\ ~seen /\ next(pc)

\* Mutant: the page of a closed result completes nothing.
FetchedIfOpen ==
    /\ preloaded = "waiting" /\ ~closed
    /\ served' = served + 1 /\ in_progress' = FALSE
    /\ preloaded' = "ready" /\ last' = IsLast(served + 1)
    /\ UNCHANGED <<result, current, row_idx, closed, app, got, timeouts, faults>>

\* The continuation of next(): the page of a closed result is dropped.
Fetched ==
    /\ preloaded = "waiting"
    /\ served' = served + 1 /\ in_progress' = FALSE
    /\ \/ closed /\ preloaded' = "failed" /\ UNCHANGED last
       \/ ~closed /\ preloaded' = "ready" /\ last' = IsLast(served + 1)
    /\ UNCHANGED <<result, current, row_idx, closed, app, got, timeouts, faults>>

FetchFails ==
    /\ preloaded = "waiting" /\ faults < MaxFaults
    /\ faults' = faults + 1
    /\ in_progress' = FALSE /\ preloaded' = "failed"
    /\ served' \in {served, served + 1}
    /\ UNCHANGED <<result, last, current, row_idx, closed, app, got, timeouts>>

-----------------------------------------------------------------------------
(* page_iterator_sync                                                      *)

\* operator++ of a page iterator that is not past the end, for the row
\* iterator's call pc: it calls this again, so that a timeout leaves pc to the
\* application's next try.
Advance(pc) ==
    \/ /\ IsLast(current)
       /\ current' = 0 /\ app' = pc /\ UNCHANGED <<fetching, timeouts, faults>>
    \/ /\ ~IsLast(current) /\ preloaded = "ready"
       /\ current' = served
       /\ Preload(last, pc) /\ UNCHANGED <<last, timeouts>>
    \/ /\ ~IsLast(current) /\ preloaded \in {"failed", "none"}
       /\ preloaded' = "none" /\ Throw
       /\ UNCHANGED <<in_progress, last, current, timeouts, faults>>
    \/ /\ ~IsLast(current) /\ preloaded = "waiting"
       /\ Timeout /\ timeouts < MaxTimeouts /\ timeouts' = timeouts + 1
       /\ app' = (IF pc = "seek" THEN "increment" ELSE pc)
       /\ UNCHANGED <<fetching, current, faults>>

-----------------------------------------------------------------------------
(* row_iterator_sync and the loop                                          *)

\* begin(): iterator(), the first page, and the fetch of the second.
begin ==
    /\ app = "begin" /\ ~closed
    /\ current' = 1 /\ row_idx' = 0 /\ last' = IsLast(1)
    /\ Preload(IsLast(1), "compare")
    /\ UNCHANGED <<result, served, closed, got, timeouts>>

beginClosed ==
    /\ app = "begin" /\ closed /\ Throw
    /\ UNCHANGED <<result, served, fetching, current, row_idx, closed, got,
                   timeouts, faults>>

\* it != end(): the iterator without a block is the end.
Compare ==
    /\ app = "compare"
    /\ app' = IF current = 0 THEN "end" ELSE "deref"
    /\ UNCHANGED <<result, served, fetching, current, row_idx, closed, got,
                   timeouts, faults>>

\* operator*: empty pages are skipped, past the end it throws.
Deref ==
    /\ app = "deref"
    /\ \/ /\ current = 0 /\ Throw
          /\ UNCHANGED <<fetching, current, got, timeouts, faults>>
       \/ /\ current # 0 /\ result[current] = 0
          /\ Advance("deref") /\ UNCHANGED got
       \/ /\ current # 0 /\ row_idx < result[current]
          /\ got' = Append(got, <<current, row_idx>>) /\ app' = "increment"
          /\ UNCHANGED <<fetching, current, timeouts, faults>>
    /\ UNCHANGED <<result, served, row_idx, closed>>

Increment ==
    /\ app = "increment"
    /\ row_idx' = row_idx + 1 /\ app' = "seek"
    /\ UNCHANGED <<result, served, fetching, current, closed, got, timeouts,
                   faults>>

\* Mutant: the row index survives the page it belongs to.
SeekKeepsRow ==
    /\ app = "seek"
    /\ \/ /\ current # 0 /\ row_idx >= result[current]
          /\ Advance("seek") /\ UNCHANGED row_idx
       \/ /\ current # 0 => row_idx < result[current]
          /\ app' = "compare"
          /\ UNCHANGED <<fetching, current, row_idx, timeouts, faults>>
    /\ UNCHANGED <<result, served, closed, got>>

\* The rest of operator++: on to the next page that has rows.
Seek ==
    /\ app = "seek"
    /\ \/ /\ current # 0 /\ row_idx >= result[current]
          /\ Advance("seek")
          /\ row_idx' = IF app' = "seek" THEN 0 ELSE row_idx
       \/ /\ current # 0 => row_idx < result[current]
          /\ app' = "compare"
          /\ UNCHANGED <<fetching, current, row_idx, timeouts, faults>>
    /\ UNCHANGED <<result, served, closed, got>>

\* close(), between two calls of the loop.
close ==
    /\ app \in {"begin", "compare", "deref", "increment"} /\ ~closed
    /\ closed' = TRUE
    /\ UNCHANGED <<result, served, fetching, current, row_idx, app, got,
                   timeouts, faults>>

Loop == begin \/ beginClosed \/ Compare \/ Deref \/ Increment \/ Seek
Over == app \in {"end", "threw"} /\ preloaded # "waiting"
Done == Over /\ UNCHANGED vars

Next == Loop \/ Fetched \/ FetchFails \/ close \/ Done

Spec == Init /\ [][Next]_vars

\* The loop runs and a fetch is answered or fails with its connection.
FairSpec == Spec /\ WF_vars(Loop) /\ WF_vars(Fetched)

-----------------------------------------------------------------------------
TypeOK ==
    /\ result \in Results /\ served \in 1..Len(result)
    /\ in_progress \in BOOLEAN /\ last \in BOOLEAN /\ closed \in BOOLEAN
    /\ preloaded \in {"none", "waiting", "ready", "failed"}
    /\ current \in 0..Len(result) /\ row_idx \in Nat
    /\ app \in {"begin", "compare", "deref", "increment", "seek", "end", "threw"}
    /\ timeouts \in 0..MaxTimeouts /\ faults \in 0..MaxFaults

\* The loop receives the rows of the result in order, each one once and none
\* left out, over page boundaries, empty pages and timeouts, and when it ends
\* by reaching end() it has received all of them.
RowsInOrder ==
    /\ got = SubSeq(AllRows, 1, Len(got))
    /\ app = "end" => got = AllRows

\* The loop over a result always ends: page_iterator_sync never waits for a
\* page that was not asked for.
LoopEnds == <>(app \in {"end", "threw"})

\* A loop over a result that is not closed, with no failed fetch, ends at
\* end(): "Hence, this iterator can be used in `range-for` loop."
\* (Reference_Manual.md). begin() never equals end(), so the loop over a
\* result without rows dereferences it.
RangeForEnds == app = "threw" => closed \/ faults > 0
=============================================================================
