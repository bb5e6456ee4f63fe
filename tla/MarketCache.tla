----------------------------- MODULE MarketCache -----------------------------
(***************************************************************************)
(* The market-data cache of the dashboard (python/quant_system/dashboard.py)*)
(* and the threads that call _download_yahoo.  Look-up, store and the      *)
(* removal by a refresh are critical sections of one lock; the clock is    *)
(* read before the first, and the download runs between look-up and store, *)
(* without the lock.  A frame is known by its key and the time at which    *)
(* the provider took its snapshot.                                         *)
(***************************************************************************)
EXTENDS Naturals, FiniteSets

CONSTANTS
  Keys,       \* pairs of a symbol and a period
  Threads,    \* of the web server and of the overview's pool
  None,
  Capacity,   \* 96 entries
  TTL,        \* YAHOO_CACHE_TTL_SECONDS
  MaxTime     \* bound: the clock stops there

ASSUME CacheAssumption ==
  /\ Capacity \in Nat \ {0} /\ TTL \in Nat \ {0} /\ MaxTime \in Nat

Times == 0 .. MaxTime
Frames == [key : Keys, taken : Times]
Entries == [expires : TTL .. MaxTime + TTL, frame : Frames]

\* None is no key, no frame, and nothing a caller asks for.
ASSUME NoneAssumption ==
  None \notin Keys \cup Frames \cup [key : Keys, since : Times, answer : Frames \cup {None}]

VARIABLES
  clock,   \* time.monotonic()
  cache,   \* _YAHOO_CACHE
  call     \* call[t]: where thread t is in its call, with the call's locals

cacheVars == <<clock, cache, call>>

\* "refreshed" is when a call that refreshes was made, and None in other calls.
NoCall == [pc |-> "idle", key |-> None, refreshed |-> None, now |-> 0, frame |-> None]

CacheInit ==
  /\ clock = 0 /\ cache = << >> /\ call = [t \in Threads |-> NoCall]

\* The next thing a thread does, and what it knows then.
At(t, pc) == call[t].pc = pc
Goto(t, pc) == call' = [call EXCEPT ![t].pc = pc]
AnswerWith(t, frame) == call' = [call EXCEPT ![t].pc = "answered", ![t].frame = frame]

\* A request enters _load_data, or a pool thread enters _download_yahoo.
Begin(t, key, refresh) ==
  /\ At(t, "idle")
  /\ call' = [call EXCEPT ![t] = [NoCall EXCEPT !.pc = IF refresh THEN "refresh" ELSE "clock",
                                                !.key = key, !.refreshed = IF refresh THEN clock ELSE None]]
  /\ UNCHANGED <<clock, cache>>

\* A refresh removes the entry, in a critical section of its own.
Forget(t) ==
  /\ At(t, "refresh")
  /\ cache' = [k \in DOMAIN cache \ {call[t].key} |-> cache[k]]
  /\ Goto(t, "clock") /\ UNCHANGED clock

ReadClock(t) ==
  /\ At(t, "clock")
  /\ call' = [call EXCEPT ![t].pc = "look", ![t].now = clock]
  /\ UNCHANGED <<clock, cache>>

\* Mutant of Hit: an entry is still used when it expires.
HitTooLong(entry, now) == entry.expires + 1 > now

Hit(entry, now) == entry.expires > now

\* The first critical section: an unexpired entry is the answer.
LookUp(t) ==
  /\ At(t, "look")
  /\ IF call[t].key \in DOMAIN cache /\ Hit(cache[call[t].key], call[t].now)
     THEN AnswerWith(t, cache[call[t].key].frame)
     ELSE Goto(t, "download")
  /\ UNCHANGED <<clock, cache>>

\* The provider takes its snapshot some time after the look-up and before the store.
Download(t) ==
  /\ At(t, "download")
  /\ call' = [call EXCEPT ![t].pc = "store", ![t].frame = [key |-> call[t].key, taken |-> clock]]
  /\ UNCHANGED <<clock, cache>>

\* Mutant of AfterFailure: a failed download is tried again.
TryAgain(t) == Goto(t, "look")

AfterFailure(t) == Goto(t, "failed")

\* The provider raises or times out, or its answer is empty or without timestamps.
DownloadFails(t) == At(t, "download") /\ AfterFailure(t) /\ UNCHANGED <<clock, cache>>

\* Mutant of Full: one entry too many.
MoreThanFull(entries) == Cardinality(DOMAIN entries) > Capacity

Full(entries) == Cardinality(DOMAIN entries) >= Capacity

\* The entries after room is made for one: a full cache loses an entry that expires
\* first, also when the key about to be stored is present.  Of several, min takes the one
\* inserted first; the order of insertion is left open.
MakingRoom(entries) ==
  IF ~Full(entries) THEN {entries}
  ELSE {[k \in DOMAIN entries \ {oldest} |-> entries[k]]
         : oldest \in {k \in DOMAIN entries : \A l \in DOMAIN entries : entries[k].expires <= entries[l].expires}}

\* The second critical section.  The entry's life is counted from before the download.
Store(t) ==
  /\ At(t, "store")
  /\ \E entries \in MakingRoom(cache) :
       cache' = [k \in DOMAIN entries \cup {call[t].key} |->
                   IF k = call[t].key THEN [expires |-> call[t].now + TTL, frame |-> call[t].frame]
                                      ELSE entries[k]]
  /\ Goto(t, "answered") /\ UNCHANGED clock

\* The caller has used the answer or handled the exception.
Finish(t) ==
  /\ At(t, "answered") \/ At(t, "failed")
  /\ call' = [call EXCEPT ![t] = NoCall]
  /\ UNCHANGED <<clock, cache>>

Tick == clock < MaxTime /\ clock' = clock + 1 /\ UNCHANGED <<cache, call>>

\* What a thread does once it is in a call, until it has an answer.
Work(t) ==
  \/ Forget(t) \/ ReadClock(t) \/ LookUp(t) \/ Download(t) \/ DownloadFails(t) \/ Store(t)
-----------------------------------------------------------------------------
\* The cache never holds more than its capacity, and each entry under its own key and
\* with its own life, however look-ups, stores and refreshes of threads interleave
\* ("bounded, thread-safe time-based cache").
CacheOK ==
  /\ DOMAIN cache \subseteq Keys /\ Cardinality(DOMAIN cache) <= Capacity
  /\ \A k \in DOMAIN cache :
       /\ cache[k] \in Entries /\ cache[k].frame.key = k
       /\ cache[k].expires <= cache[k].frame.taken + TTL
  /\ call \in [Threads -> [pc : {"idle", "refresh", "clock", "look", "download", "store", "answered", "failed"},
                           key : Keys \cup {None}, refreshed : Times \cup {None}, now : Times,
                           frame : Frames \cup {None}]]

\* What a caller asks for, since the clock was read, and the answer once there is one.
RequestOf(c) ==
  IF c.pc \in {"idle", "refresh", "clock"} THEN None
  ELSE [key |-> c.key, since |-> c.now, answer |-> IF c.pc = "answered" THEN c.frame ELSE None]

RequestsOf(calls) == [t \in Threads |-> RequestOf(calls[t])]

Fresh ==
  INSTANCE FreshAnswers WITH
    Clients <- Threads, Nothing <- None, time <- clock, request <- RequestsOf(call)

\* Whoever stored what a thread reads, and however long downloads take, the thread gets
\* data of its key not older than TTL when it read the clock: the cache implements
\* FreshAnswers.
AnswersAreFresh == Fresh!FreshSpec

\* "explicitly bypasses that cache and takes a fresh Yahoo snapshot" (README.md:209-210):
\* the answer to a refresh is not older than the request.
RefreshIsFresh ==
  \A t \in Threads : At(t, "answered") /\ call[t].refreshed # None => call[t].frame.taken >= call[t].refreshed
=============================================================================
