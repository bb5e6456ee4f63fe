---------------------------- MODULE MarketOverview ----------------------------
(***************************************************************************)
(* indian_market_overview (dashboard.py): a request hands one task for     *)
(* each symbol to a pool of threads, takes the results as they are         *)
(* completed, and returns when all are in.  The pool and the handlers of   *)
(* other requests share the cache.  A task raises ValueError when the      *)
(* download fails, and IndexError when the frame has no rows, which the    *)
(* collecting loop does not catch: leaving the pool's block then waits for *)
(* the other tasks and drops their results.                                *)
(***************************************************************************)
EXTENDS MarketCache

CONSTANTS
  Workers,    \* the pool's threads
  Sparse,     \* the frames of which dropna leaves no row
  Requested,  \* the keys of all indices and constituents
  Sectors     \* the baskets: the sets of keys that are averaged

ASSUME OverviewAssumption ==
  /\ Workers \subseteq Threads /\ Requested \subseteq Keys /\ Sparse \subseteq Frames
  /\ IsFiniteSet(Requested)
  /\ \A s \in Sectors : s # {} /\ s \subseteq Requested

Handlers == Threads \ Workers

VARIABLES
  overview,   \* "idle", "collecting", or "raising" while the pool is shut down
  waiting,    \* tasks no worker has begun
  completed,  \* results not yet taken: for a key, "value" or the exception's name
  instruments, failures

overviewVars == <<overview, waiting, completed, instruments, failures>>
vars == <<cacheVars, overviewVars>>

Init ==
  /\ CacheInit
  /\ overview = "idle" /\ waiting = {} /\ completed = << >>
  /\ instruments = {} /\ failures = {}

\* A dashboard request other than the overview.
Request(t) ==
  /\ t \in Handlers
  /\ \E key \in Keys, refresh \in BOOLEAN : Begin(t, key, refresh)
  /\ UNCHANGED overviewVars

\* Its data is loaded and used, or its exception becomes a response.
Respond(t) == t \in Handlers /\ Finish(t) /\ UNCHANGED overviewVars

BeginOverview ==
  /\ overview = "idle"
  /\ overview' = "collecting" /\ waiting' = Requested /\ completed' = << >>
  /\ UNCHANGED <<instruments, failures>>
  /\ UNCHANGED cacheVars

TakeTask(w) ==
  /\ w \in Workers
  /\ \E key \in waiting : Begin(w, key, FALSE) /\ waiting' = waiting \ {key}
  /\ UNCHANGED <<overview, completed, instruments, failures>>

\* What _market_instrument gives or raises, once _download_yahoo has.
TaskResult(t) ==
  IF At(t, "failed") THEN "ValueError" ELSE IF call[t].frame \in Sparse THEN "IndexError" ELSE "value"

FinishTask(w) ==
  /\ w \in Workers
  /\ Finish(w)
  /\ completed' = [k \in DOMAIN completed \cup {call[w].key} |->
                     IF k = call[w].key THEN TaskResult(w) ELSE completed[k]]
  /\ UNCHANGED <<overview, waiting, instruments, failures>>

\* Mutant of Failed: an instrument without data is left out.
FailedSilently(key) == failures

Failed(key) == failures \cup {key}

\* The loop over as_completed takes one result.
Collect ==
  /\ overview = "collecting"
  /\ \E key \in DOMAIN completed :
       /\ completed' = [k \in DOMAIN completed \ {key} |-> completed[k]]
       /\ instruments' = IF completed[key] = "value" THEN instruments \cup {key} ELSE instruments
       /\ failures' = IF completed[key] = "ValueError" THEN Failed(key) ELSE failures
       /\ overview' = IF completed[key] = "IndexError" THEN "raising" ELSE overview
  /\ UNCHANGED waiting /\ UNCHANGED cacheVars

AllDone == waiting = {} /\ \A w \in Workers : At(w, "idle")

\* A sector is reported with its available members, and left out when it has none.
SectorRows == {[available |-> Cardinality(s \cap instruments), total |-> Cardinality(s)]
                : s \in {b \in Sectors : b \cap instruments # {}}}

\* The response is built from the results, which then go with the call.
Leave ==
  /\ AllDone
  /\ overview' = "idle" /\ completed' = << >> /\ instruments' = {} /\ failures' = {}
  /\ UNCHANGED waiting /\ UNCHANGED cacheVars

Return == overview = "collecting" /\ completed = << >> /\ Leave
Raise == overview = "raising" /\ Leave

\* What the overview's own thread does.
Gather == Collect \/ Return \/ Raise
Run(t) == (Work(t) /\ UNCHANGED overviewVars) \/ Respond(t) \/ FinishTask(t)

Next ==
  \/ Tick /\ UNCHANGED overviewVars
  \/ BeginOverview \/ Gather
  \/ \E t \in Threads : Request(t) \/ TakeTask(t) \/ Run(t)

\* Every thread that is in a call is scheduled, the pool's threads take the tasks that
\* wait, and a download ends (timeout=12).
Fairness ==
  /\ WF_vars(Gather)
  /\ \A t \in Threads : WF_vars(Run(t))
  /\ \A w \in Workers : WF_vars(TakeTask(w))

Spec == Init /\ [][Next]_vars /\ Fairness
-----------------------------------------------------------------------------
\* No instrument goes missing between the tasks, the pool and the two results: a report
\* has each requested instrument as loaded or as failed, and not as both ("available",
\* "requested" and "failures" of the response; app.js shows the coverage).
OverviewAccountsForAll ==
  [][Return =>
       /\ instruments \cup failures = Requested /\ instruments \cap failures = {}
       /\ \A row \in SectorRows : 0 < row.available /\ row.available <= row.total]_vars

\* Every request is answered or fails, and every overview ends, whatever the other
\* threads do to the cache in between.
EveryRequestEnds ==
  /\ \A t \in Threads : ~At(t, "idle") ~> At(t, "idle")
  /\ overview # "idle" ~> overview = "idle"
=============================================================================
