----------------------------- MODULE QueryCache -----------------------------
(***************************************************************************)
(* TanStack Query (external), as main.tsx configures it: what happens to   *)
(* the cache entry of one query.  Data are abstracted to the set of writes *)
(* they show.  fetch is sent before the backend has read what it answers,  *)
(* read or denied (401) after; no queryFn takes the abort signal, so only  *)
(* the answer of a cancelled fetch is dropped, never the request.          *)
(***************************************************************************)

CONSTANT Writes

Entries == [loaded: BOOLEAN,            \* there are data
            data:   SUBSET Writes,
            stale:  BOOLEAN,            \* invalidated, failed, or older than staleTime
            fetch:  {"idle", "failed", "sent", "read", "denied"},
            got:    SUBSET Writes]

Empty == [loaded |-> FALSE, data |-> {}, stale |-> FALSE, fetch |-> "idle", got |-> {}]

InFlight(e) == e.fetch \in {"sent", "read", "denied"}

\* Variant with a defect: what an earlier fetch got is kept.
RestartKeeps(e) == [e EXCEPT !.fetch = "sent"]

\* A fetch from scratch: the answer of one in flight will be dropped.
Restart(e) == [e EXCEPT !.fetch = "sent", !.got = {}]

\* fetch(): joins the one in flight.
Fetch(e) == IF InFlight(e) THEN e ELSE Restart(e)

\* refetch() and refetchQueries(): cancelRefetch, except for a first load.
Refetch(e) == IF InFlight(e) /\ ~e.loaded THEN e ELSE Restart(e)

\* A component mounts the query: no refetch of what is fresh.
Mount(e) == IF ~e.loaded \/ e.stale THEN Fetch(e) ELSE e

\* invalidateQueries(): active queries are fetched again at once.
Invalidate(e, active) ==
    IF active THEN Refetch([e EXCEPT !.stale = TRUE]) ELSE [e EXCEPT !.stale = TRUE]

\* The answer: data are fresh; or an error: retry is off, the data are kept.
Land(e) == [e EXCEPT !.loaded = TRUE, !.data = e.got, !.stale = FALSE, !.fetch = "idle", !.got = {}]
Fail(e) == [e EXCEPT !.stale = TRUE, !.fetch = "failed", !.got = {}]
=============================================================================
