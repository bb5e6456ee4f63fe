------------------------- MODULE MarketOverviewProofs -------------------------
(***************************************************************************)
(* The dashboard's cache and overviews, for any number of keys, threads,   *)
(* workers and requests, any capacity and any time to live: the cache is   *)
(* bounded and implements FreshAnswers, and an overview accounts for every *)
(* requested instrument.                                                   *)
(***************************************************************************)
EXTENDS MarketOverview, FiniteSetTheorems, TLAPS

Places == {"idle", "refresh", "clock", "look", "download", "store", "answered", "failed"}
Calls == [pc : Places, key : Keys \cup {None}, refreshed : Times \cup {None}, now : Times,
          frame : Frames \cup {None}]

\* An entry is stored under its frame's key, lives from before its snapshot, and its
\* snapshot has been taken.
EntryOK(k, entry) ==
  /\ entry \in Entries /\ entry.frame.key = k
  /\ entry.expires <= entry.frame.taken + TTL /\ entry.frame.taken <= clock

EntriesOK == DOMAIN cache \subseteq Keys /\ \A k \in DOMAIN cache : EntryOK(k, cache[k])

Bounded == IsFiniteSet(DOMAIN cache) /\ Cardinality(DOMAIN cache) <= Capacity

\* What a thread knows: its key, when it looked, and what it is about to store.
CallOK(c) ==
  /\ c.now <= clock
  /\ c.pc # "idle" => c.key \in Keys
  /\ c.pc = "store" => /\ c.frame \in Frames /\ c.frame.key = c.key
                       /\ c.now <= c.frame.taken /\ c.frame.taken <= clock

CallsOK == call \in [Threads -> Calls] /\ \A t \in Threads : CallOK(call[t])

\* The inductive invariant.
CacheInvariant ==
  /\ clock \in Times /\ waiting \subseteq Keys
  /\ EntriesOK /\ Bounded /\ CallsOK
-----------------------------------------------------------------------------
\* The times are numbers, from 0 on.
LEMMA TimesAreNaturals == Times \subseteq Nat /\ TTL \in Nat /\ MaxTime \in Nat /\ 0 \in Times
  BY CacheAssumption DEF Times

\* The order of three times is transitive.
LEMMA LaterStill ==
  ASSUME NEW a \in Times, NEW b \in Times, NEW c \in Times, a <= b, b <= c
  PROVE  a <= c
BY TimesAreNaturals

\* A step of one thread leaves the others' calls as they were.
LEMMA OneCallChanges ==
  ASSUME CallsOK, clock' = clock, NEW t \in Threads, NEW c \in Calls, CallOK(c),
         call' = [call EXCEPT ![t] = c]
  PROVE  CallsOK'
<1>1. call' \in [Threads -> Calls]
  BY DEF CallsOK
<1>2. ASSUME NEW s \in Threads PROVE CallOK(call[s])'
  <2>1. CASE s = t
    <3>1. call'[s] = c
      BY <2>1 DEF CallsOK
    <3>2. QED
      BY <3>1 DEF CallOK
  <2>2. CASE s # t
    <3>1. call'[s] = call[s]
      BY <2>2 DEF CallsOK
    <3>2. QED
      BY <3>1 DEF CallsOK, CallOK
  <2>3. QED
    BY <2>1, <2>2
<1>3. QED
  BY <1>1, <1>2 DEF CallsOK

\* Removing entries breaks nothing.
LEMMA FewerEntries ==
  ASSUME EntriesOK, Bounded, clock' = clock, NEW S \in SUBSET DOMAIN cache,
         cache' = [k \in S |-> cache[k]]
  PROVE  EntriesOK' /\ Bounded'
<1>1. IsFiniteSet(S) /\ Cardinality(S) <= Cardinality(DOMAIN cache)
  BY FS_Subset DEF Bounded
<1>2. Cardinality(S) \in Nat /\ Cardinality(DOMAIN cache) \in Nat
  BY <1>1, FS_CardinalityType DEF Bounded
<1>3. Bounded'
  BY <1>1, <1>2, CacheAssumption DEF Bounded
<1>4. EntriesOK'
  BY DEF EntriesOK, EntryOK
<1>5. QED
  BY <1>3, <1>4

\* After room is made, there is room for one more.
LEMMA RoomIsMade ==
  ASSUME Bounded, NEW entries \in MakingRoom(cache)
  PROVE  /\ DOMAIN entries \subseteq DOMAIN cache
         /\ \A k \in DOMAIN entries : entries[k] = cache[k]
         /\ IsFiniteSet(DOMAIN entries) /\ Cardinality(DOMAIN entries) < Capacity
<1>1. Cardinality(DOMAIN cache) \in Nat /\ Capacity \in Nat
  BY FS_CardinalityType, CacheAssumption DEF Bounded
<1>2. CASE ~Full(cache)
  BY <1>1, <1>2 DEF MakingRoom, Full, Bounded
<1>3. CASE Full(cache)
  <2>1. PICK oldest \in DOMAIN cache : entries = [k \in DOMAIN cache \ {oldest} |-> cache[k]]
    BY <1>3 DEF MakingRoom
  <2>2. IsFiniteSet(DOMAIN cache \ {oldest}) /\ Cardinality(DOMAIN cache \ {oldest}) = Cardinality(DOMAIN cache) - 1
    BY FS_RemoveElement DEF Bounded
  <2>3. QED
    BY <1>1, <2>1, <2>2 DEF Bounded
<1>4. QED
  BY <1>2, <1>3
-----------------------------------------------------------------------------
(***************************************************************************)
(* One lemma per action.  Each leaves the waiting tasks to the overview.   *)
(***************************************************************************)
CachePart == clock \in Times /\ EntriesOK /\ Bounded /\ CallsOK

\* A step that leaves the cache and its calls alone keeps the invariant.
LEMMA NothingChanges ==
  ASSUME CachePart, UNCHANGED cacheVars
  PROVE  CachePart'
BY DEF CachePart, cacheVars, EntriesOK, EntryOK, Bounded, CallsOK, CallOK

\* What is said of entries depends on the clock and the cache only.
LEMMA CacheIsKept ==
  ASSUME EntriesOK, Bounded, UNCHANGED <<clock, cache>>
  PROVE  EntriesOK' /\ Bounded'
BY DEF EntriesOK, EntryOK, Bounded

\* A request begins.
LEMMA BeginStep ==
  ASSUME CachePart, NEW t \in Threads, NEW key \in Keys, NEW refresh \in BOOLEAN, Begin(t, key, refresh)
  PROVE  CachePart'
<1> DEFINE c == [NoCall EXCEPT !.pc = IF refresh THEN "refresh" ELSE "clock",
                               !.key = key, !.refreshed = IF refresh THEN clock ELSE None]
<1>1. c \in Calls /\ c.now = 0 /\ c.key \in Keys /\ c.pc # "store"
  BY TimesAreNaturals DEF CachePart, NoCall, Calls, Places
<1>2. CallOK(c)
  BY <1>1, TimesAreNaturals DEF CallOK, CachePart
<1>3. call' = [call EXCEPT ![t] = c] /\ UNCHANGED <<clock, cache>>
  BY DEF Begin
<1> HIDE DEF c
<1>4. QED
  BY <1>1, <1>2, <1>3, OneCallChanges, CacheIsKept DEF CachePart

\* A refresh forgets the entry.
LEMMA ForgetStep ==
  ASSUME CachePart, NEW t \in Threads, Forget(t)
  PROVE  CachePart'
<1> DEFINE c == [call[t] EXCEPT !.pc = "clock"]
<1>1. c \in Calls /\ CallOK(c)
  BY DEF Forget, At, CachePart, CallsOK, CallOK, Calls, Places
<1>2. call' = [call EXCEPT ![t] = c] /\ UNCHANGED clock
  BY DEF Forget, Goto
<1> HIDE DEF c
<1>3. EntriesOK' /\ Bounded'
  BY <1>2, FewerEntries DEF Forget, CachePart
<1>4. QED
  BY <1>1, <1>2, <1>3, OneCallChanges DEF CachePart

\* The call reads the clock.
LEMMA ReadClockStep ==
  ASSUME CachePart, NEW t \in Threads, ReadClock(t)
  PROVE  CachePart'
<1> DEFINE c == [call[t] EXCEPT !.pc = "look", !.now = clock]
<1>1. clock \in Times /\ clock <= clock /\ call[t] \in Calls /\ call[t].key \in Keys
  BY TimesAreNaturals DEF ReadClock, At, CachePart, CallsOK, CallOK
<1>2. c \in Calls /\ CallOK(c)
  BY <1>1 DEF Calls, Places, CallOK
<1>3. call' = [call EXCEPT ![t] = c] /\ UNCHANGED <<clock, cache>>
  BY DEF ReadClock
<1> HIDE DEF c
<1>4. QED
  BY <1>2, <1>3, OneCallChanges, CacheIsKept DEF CachePart

\* It looks for an entry that has not expired.
LEMMA LookUpStep ==
  ASSUME CachePart, NEW t \in Threads, LookUp(t)
  PROVE  CachePart'
<1>1. UNCHANGED <<clock, cache>> /\ call[t].pc = "look"
  BY DEF LookUp, At
<1>2. CASE call[t].key \in DOMAIN cache /\ Hit(cache[call[t].key], call[t].now)
  <2> DEFINE c == [call[t] EXCEPT !.pc = "answered", !.frame = cache[call[t].key].frame]
  <2>1. cache[call[t].key].frame \in Frames
    BY <1>2 DEF CachePart, EntriesOK, EntryOK, Entries
  <2>2. c \in Calls /\ CallOK(c)
    BY <1>1, <2>1 DEF CachePart, CallsOK, CallOK, Calls, Places
  <2>3. call' = [call EXCEPT ![t] = c]
    BY <1>2 DEF LookUp, AnswerWith
  <2> HIDE DEF c
  <2>4. QED
    BY <1>1, <2>2, <2>3, OneCallChanges, CacheIsKept DEF CachePart
<1>3. CASE ~(call[t].key \in DOMAIN cache /\ Hit(cache[call[t].key], call[t].now))
  <2> DEFINE c == [call[t] EXCEPT !.pc = "download"]
  <2>1. c \in Calls /\ CallOK(c)
    BY <1>1 DEF CachePart, CallsOK, CallOK, Calls, Places
  <2>2. call' = [call EXCEPT ![t] = c]
    BY <1>3 DEF LookUp, Goto
  <2> HIDE DEF c
  <2>3. QED
    BY <1>1, <2>1, <2>2, OneCallChanges, CacheIsKept DEF CachePart
<1>4. QED
  BY <1>2, <1>3

\* The snapshot is taken after the clock was read.
LEMMA DownloadStep ==
  ASSUME CachePart, NEW t \in Threads, Download(t)
  PROVE  CachePart'
<1> DEFINE c == [call[t] EXCEPT !.pc = "store", !.frame = [key |-> call[t].key, taken |-> clock]]
<1>1. call[t] \in Calls /\ call[t].key \in Keys /\ call[t].now <= clock /\ clock \in Times /\ clock <= clock
  BY TimesAreNaturals DEF Download, At, CachePart, CallsOK, CallOK
<1>2. c \in Calls /\ CallOK(c)
  BY <1>1 DEF CallOK, Calls, Places, Frames
<1>3. call' = [call EXCEPT ![t] = c] /\ UNCHANGED <<clock, cache>>
  BY DEF Download
<1> HIDE DEF c
<1>4. QED
  BY <1>2, <1>3, OneCallChanges, CacheIsKept DEF CachePart

\* The download raises.
LEMMA DownloadFailsStep ==
  ASSUME CachePart, NEW t \in Threads, DownloadFails(t)
  PROVE  CachePart'
<1> DEFINE c == [call[t] EXCEPT !.pc = "failed"]
<1>1. c \in Calls /\ CallOK(c)
  BY DEF DownloadFails, At, CachePart, CallsOK, CallOK, Calls, Places
<1>2. call' = [call EXCEPT ![t] = c] /\ UNCHANGED <<clock, cache>>
  BY DEF DownloadFails, AfterFailure, Goto
<1> HIDE DEF c
<1>3. QED
  BY <1>1, <1>2, OneCallChanges, CacheIsKept DEF CachePart

\* The frame is stored, after room is made.
LEMMA StoreStep ==
  ASSUME CachePart, NEW t \in Threads, Store(t)
  PROVE  CachePart'
<1> DEFINE c == [call[t] EXCEPT !.pc = "answered"]
<1> DEFINE key == call[t].key
<1> DEFINE entry == [expires |-> call[t].now + TTL, frame |-> call[t].frame]
<1>1. call[t].pc = "store" /\ call[t] \in Calls /\ CallOK(call[t])
  BY DEF Store, At, CachePart, CallsOK
<1>2. c \in Calls /\ CallOK(c)
  BY <1>1 DEF CallOK, Calls, Places
<1>3. call' = [call EXCEPT ![t] = c] /\ UNCHANGED clock
  BY DEF Store, Goto
<1>4. PICK entries \in MakingRoom(cache) :
        cache' = [k \in DOMAIN entries \cup {key} |-> IF k = key THEN entry ELSE entries[k]]
  BY DEF Store
<1>5. /\ DOMAIN entries \subseteq DOMAIN cache
      /\ \A k \in DOMAIN entries : entries[k] = cache[k]
      /\ IsFiniteSet(DOMAIN entries) /\ Cardinality(DOMAIN entries) < Capacity
  BY RoomIsMade DEF CachePart
<1>6. key \in Keys /\ EntryOK(key, entry)
  <2>1. /\ call[t].now \in Times /\ call[t].frame \in Frames /\ call[t].frame.key = key
        /\ call[t].now <= call[t].frame.taken /\ call[t].frame.taken <= clock /\ key \in Keys
    BY <1>1 DEF CallOK, Calls
  <2>2. call[t].frame.taken \in Times
    BY <2>1 DEF Frames
  <2>3. call[t].now + TTL \in TTL .. MaxTime + TTL
    BY <2>1, CacheAssumption DEF Times
  <2>4. call[t].now + TTL <= call[t].frame.taken + TTL
    BY <2>1, <2>2, CacheAssumption DEF Times
  <2>5. QED
    BY <2>1, <2>3, <2>4 DEF EntryOK, Entries
<1> HIDE DEF c, key, entry
<1>7. EntriesOK'
  <2>1. DOMAIN cache' \subseteq Keys
    BY <1>4, <1>5, <1>6 DEF CachePart, EntriesOK
  <2>2. ASSUME NEW k \in DOMAIN cache' PROVE EntryOK(k, cache'[k])
    BY <1>4, <1>5, <1>6 DEF CachePart, EntriesOK
  <2>3. QED
    BY <1>3, <2>1, <2>2 DEF EntriesOK, EntryOK
<1>8. Bounded'
  <2>1. /\ IsFiniteSet(DOMAIN entries \cup {key})
        /\ Cardinality(DOMAIN entries \cup {key}) <= Cardinality(DOMAIN entries) + 1
    <3>1. Cardinality(DOMAIN entries) \in Nat
      BY <1>5, FS_CardinalityType
    <3>2. /\ IsFiniteSet(DOMAIN entries \cup {key})
          /\ Cardinality(DOMAIN entries \cup {key})
               = IF key \in DOMAIN entries THEN Cardinality(DOMAIN entries) ELSE Cardinality(DOMAIN entries) + 1
      BY <1>5, FS_AddElement
    <3>3. QED
      BY <3>1, <3>2
  <2>2. Cardinality(DOMAIN entries) \in Nat /\ Cardinality(DOMAIN entries \cup {key}) \in Nat /\ Capacity \in Nat
    BY <1>5, <2>1, FS_CardinalityType, CacheAssumption
  <2>3. QED
    BY <1>4, <1>5, <2>1, <2>2 DEF Bounded
<1>9. QED
  BY <1>2, <1>3, <1>7, <1>8, OneCallChanges DEF CachePart

\* The call returns.
LEMMA FinishStep ==
  ASSUME CachePart, NEW t \in Threads, Finish(t)
  PROVE  CachePart'
<1>1. NoCall \in Calls /\ CallOK(NoCall)
  BY TimesAreNaturals DEF CachePart, NoCall, Calls, Places, CallOK
<1>2. call' = [call EXCEPT ![t] = NoCall] /\ UNCHANGED <<clock, cache>>
  BY DEF Finish
<1>3. QED
  BY <1>1, <1>2, OneCallChanges, CacheIsKept DEF CachePart

\* Time passes.
LEMMA TickStep ==
  ASSUME CachePart, Tick
  PROVE  CachePart'
<1>1. clock' \in Times /\ clock <= clock' /\ UNCHANGED <<cache, call>>
  BY CacheAssumption DEF Tick, CachePart, Times
<1>2. EntriesOK'
  <2>1. ASSUME NEW k \in DOMAIN cache PROVE EntryOK(k, cache[k])'
    <3>1. EntryOK(k, cache[k])
      BY DEF CachePart, EntriesOK
    <3>2. cache[k].frame.taken \in Times /\ clock \in Times
      BY <3>1 DEF CachePart, EntryOK, Entries, Frames
    <3>3. cache[k].frame.taken <= clock'
      <4>1. cache[k].frame.taken <= clock
        BY <3>1 DEF EntryOK
      <4>2. QED
        BY <1>1, <3>2, <4>1, LaterStill
    <3>4. QED
      BY <1>1, <3>1, <3>3 DEF EntryOK
  <2>2. QED
    BY <1>1, <2>1 DEF CachePart, EntriesOK
<1>3. CallsOK'
  <2>1. ASSUME NEW t \in Threads PROVE CallOK(call[t])'
    <3>1. call[t].now \in Times /\ call[t].now <= clock
      BY DEF CachePart, CallsOK, CallOK, Calls
    <3>2. call[t].pc = "store" => call[t].frame.taken \in Times /\ call[t].frame.taken <= clock
      BY DEF CachePart, CallsOK, CallOK, Frames
    <3>3. QED
      BY <1>1, <3>1, <3>2, TimesAreNaturals DEF CachePart, CallsOK, CallOK
  <2>2. QED
    BY <1>1, <2>1 DEF CachePart, CallsOK
<1>4. QED
  BY <1>1, <1>2, <1>3 DEF CachePart, Bounded

\* Every step of a thread keeps the invariant.
LEMMA WorkStep ==
  ASSUME CachePart, NEW t \in Threads, Work(t)
  PROVE  CachePart'
BY ForgetStep, ReadClockStep, LookUpStep, DownloadStep, DownloadFailsStep, StoreStep DEF Work
-----------------------------------------------------------------------------
\* At first the cache is empty and no call is in it.
LEMMA InitStep == Init => CacheInvariant
<1> SUFFICES ASSUME Init PROVE CacheInvariant
  OBVIOUS
<1>1. clock = 0 /\ cache = << >> /\ waiting = {} /\ call = [t \in Threads |-> NoCall]
  BY DEF Init, CacheInit
<1>2. DOMAIN cache = {}
  BY <1>1
<1>3. EntriesOK /\ Bounded
  BY <1>2, FS_EmptySet, CacheAssumption DEF EntriesOK, Bounded
<1>4. CallsOK
  BY <1>1, TimesAreNaturals DEF CallsOK, CallOK, NoCall, Calls, Places
<1>5. QED
  BY <1>1, <1>3, <1>4, TimesAreNaturals DEF CacheInvariant

\* Every step is one of a thread in the cache, or leaves the cache alone; tasks are made
\* of the requested keys.
LEMMA NextStep == CacheInvariant /\ [Next]_vars => CacheInvariant'
<1> SUFFICES ASSUME CacheInvariant, [Next]_vars PROVE CacheInvariant'
  OBVIOUS
<1> USE DEF CacheInvariant
<1>1. CachePart
  BY DEF CachePart
<1>2. CASE UNCHANGED vars
  BY <1>1, <1>2, NothingChanges DEF vars, overviewVars, CachePart
<1>3. CASE Tick /\ UNCHANGED overviewVars
  BY <1>1, <1>3, TickStep DEF overviewVars, CachePart
<1>4. CASE BeginOverview
  BY <1>1, <1>4, NothingChanges, OverviewAssumption DEF BeginOverview, CachePart
<1>5. CASE Gather
  BY <1>1, <1>5, NothingChanges DEF Gather, Collect, Return, Raise, Leave, CachePart
<1>6. ASSUME NEW t \in Threads, Request(t) PROVE CacheInvariant'
  BY <1>1, <1>6, BeginStep DEF Request, overviewVars, CachePart
<1>7. ASSUME NEW t \in Threads, TakeTask(t) PROVE CacheInvariant'
  <2>1. PICK key \in waiting : Begin(t, key, FALSE) /\ waiting' = waiting \ {key}
    BY <1>7 DEF TakeTask
  <2>2. CachePart'
    BY <1>1, <2>1, BeginStep
  <2>3. QED
    BY <2>1, <2>2 DEF CachePart
<1>8. ASSUME NEW t \in Threads, Run(t) PROVE CacheInvariant'
  <2>1. CASE Work(t) /\ UNCHANGED overviewVars
    BY <1>1, <2>1, WorkStep DEF overviewVars, CachePart
  <2>2. CASE Finish(t) /\ UNCHANGED waiting
    BY <1>1, <2>2, FinishStep DEF CachePart
  <2>3. QED
    BY <1>8, <2>1, <2>2 DEF Run, Respond, FinishTask, overviewVars
<1>9. QED
  BY <1>2, <1>3, <1>4, <1>5, <1>6, <1>7, <1>8 DEF Next

\* The invariant holds in every state.
LEMMA CacheInvariantHolds == Spec => []CacheInvariant
<1>1. QED
  BY InitStep, NextStep, PTL DEF Spec

\* The cache is bounded, keeps each entry under its key and with its own life, and calls
\* are of their types, for any number of threads that look up, download, store and refresh.
THEOREM CacheIsBounded == Spec => []CacheOK
<1>1. CacheInvariant => CacheOK
  BY DEF CacheInvariant, CacheOK, EntriesOK, EntryOK, Bounded, CallsOK, Calls, Places
<1>2. QED
  BY <1>1, CacheInvariantHolds, PTL
-----------------------------------------------------------------------------
(***************************************************************************)
(* The refinement: a request of FreshAnswers is made when a call reads the *)
(* clock, and answered by the hit or by the store.                         *)
(***************************************************************************)
\* A call that looks, downloads or stores has made a request that has no answer yet.
LEMMA OpenRequest ==
  ASSUME CachePart, NEW t \in Threads, call[t].pc \in {"look", "download", "store", "failed"}
  PROVE  /\ RequestOf(call[t]) = [key |-> call[t].key, since |-> call[t].now, answer |-> None]
         /\ RequestOf(call[t]) # None
<1>1. call[t].key \in Keys /\ call[t].now \in Times
  BY DEF CachePart, CallsOK, CallOK, Calls
<1>2. RequestOf(call[t]) = [key |-> call[t].key, since |-> call[t].now, answer |-> None]
  BY DEF RequestOf
<1>3. RequestOf(call[t]) \in [key : Keys, since : Times, answer : Frames \cup {None}]
  BY <1>1, <1>2
<1>4. QED
  BY <1>2, <1>3, NoneAssumption

\* What one thread does changes its own request only.
LEMMA OneRequestChanges ==
  ASSUME CachePart, NEW t \in Threads, NEW c, call' = [call EXCEPT ![t] = c]
  PROVE  RequestsOf(call') = [RequestsOf(call) EXCEPT ![t] = RequestOf(c)]
BY DEF CachePart, CallsOK, RequestsOf

\* A step that leaves the thread's request is none of FreshAnswers.
LEMMA RequestIsKept ==
  ASSUME CachePart, NEW t \in Threads, NEW c, call' = [call EXCEPT ![t] = c],
         RequestOf(c) = RequestOf(call[t])
  PROVE  RequestsOf(call') = RequestsOf(call)
BY OneRequestChanges DEF RequestsOf

\* A request without an answer is answered by a frame of its key that was taken by now,
\* and not TTL or longer before the request.
LEMMA AnswerIsFresh ==
  ASSUME CachePart, NEW t \in Threads, call[t].pc \in {"look", "store"}, clock' = clock,
         NEW frame \in Frames, frame.key = call[t].key, frame.taken <= clock,
         frame.taken + TTL > call[t].now,
         call' = [call EXCEPT ![t] = [call[t] EXCEPT !.pc = "answered", !.frame = frame]]
  PROVE  Fresh!Answer(t)
<1> DEFINE c == [call[t] EXCEPT !.pc = "answered", !.frame = frame]
<1> DEFINE r == [key |-> call[t].key, since |-> call[t].now, answer |-> None]
<1>1. RequestsOf(call)[t] = r /\ r # None
  BY OpenRequest DEF RequestsOf
<1>2. RequestOf(c) = [key |-> call[t].key, since |-> call[t].now, answer |-> frame]
  BY DEF RequestOf, CachePart, CallsOK, Calls
<1>3. frame = [key |-> call[t].key, taken |-> frame.taken] /\ frame.taken \in 0 .. clock
  BY TimesAreNaturals DEF Frames, Times, CachePart
<1>4. RequestOf(c) = [r EXCEPT !.answer = [key |-> r.key, taken |-> frame.taken]]
  BY <1>2, <1>3
<1>5. RequestsOf(call') = [RequestsOf(call) EXCEPT ![t] = RequestOf(c)]
  BY OneRequestChanges
<1> HIDE DEF c, r
<1>6. RequestsOf(call') = [RequestsOf(call) EXCEPT ![t].answer = [key |-> RequestsOf(call)[t].key, taken |-> frame.taken]]
  BY <1>1, <1>4, <1>5
<1>7. RequestsOf(call)[t] # None /\ RequestsOf(call)[t].answer = None /\ frame.taken + TTL > RequestsOf(call)[t].since
  BY <1>1 DEF r
<1>8. QED
  BY <1>3, <1>6, <1>7 DEF Fresh!Answer

\* A request is asked when its call reads the clock,
LEMMA AskingIsFresh ==
  ASSUME CachePart, NEW t \in Threads, ReadClock(t)
  PROVE  Fresh!Ask(t)
<1> DEFINE c == [call[t] EXCEPT !.pc = "look", !.now = clock]
<1>1. call[t] \in Calls /\ call[t].key \in Keys /\ call[t].pc = "clock"
  BY DEF ReadClock, At, CachePart, CallsOK, CallOK
<1>2. RequestOf(c) = [key |-> call[t].key, since |-> clock, answer |-> None]
  BY <1>1 DEF RequestOf, Calls
<1>3. RequestsOf(call)[t] = None
  BY <1>1 DEF RequestsOf, RequestOf
<1>4. call' = [call EXCEPT ![t] = c]
  BY DEF ReadClock
<1> HIDE DEF c
<1>5. RequestsOf(call') = [RequestsOf(call) EXCEPT ![t] = RequestOf(c)]
  BY <1>4, OneRequestChanges
<1>6. QED
  BY <1>1, <1>2, <1>3, <1>5 DEF Fresh!Ask, ReadClock

\* A hit is fresh by the entry's life, a stored frame because it was taken after the clock
\* was read; a miss is no step.
LEMMA LookingIsFresh ==
  ASSUME CachePart, NEW t \in Threads, LookUp(t)
  PROVE  Fresh!Answer(t) \/ UNCHANGED <<clock, RequestsOf(call)>>
<1>1. call[t].pc = "look" /\ clock' = clock /\ call[t] \in Calls
  BY DEF LookUp, At, CachePart, CallsOK
<1>2. CASE call[t].key \in DOMAIN cache /\ Hit(cache[call[t].key], call[t].now)
  <2> DEFINE entry == cache[call[t].key]
  <2>1. EntryOK(call[t].key, entry) /\ entry.expires > call[t].now
    BY <1>2 DEF CachePart, EntriesOK, Hit
  <2> HIDE DEF entry
  <2>2. entry.frame \in Frames /\ entry.frame.taken \in Nat /\ entry.expires \in Nat /\ call[t].now \in Nat
    <3>1. entry.frame \in Frames /\ entry.expires \in TTL .. MaxTime + TTL
      BY <2>1 DEF EntryOK, Entries
    <3>2. entry.frame.taken \in Times /\ call[t].now \in Times
      BY <1>1, <3>1 DEF Frames, Calls
    <3>3. \A e \in TTL .. MaxTime + TTL : e \in Nat
      BY TimesAreNaturals
    <3>4. QED
      BY <3>1, <3>2, <3>3, TimesAreNaturals
  <2>3. entry.frame.taken + TTL > call[t].now
    BY <2>1, <2>2, TimesAreNaturals DEF EntryOK
  <2>4. call' = [call EXCEPT ![t] = [call[t] EXCEPT !.pc = "answered", !.frame = entry.frame]]
    BY <1>2 DEF LookUp, AnswerWith, entry
  <2>5. entry.frame.key = call[t].key /\ entry.frame.taken <= clock
    BY <2>1 DEF EntryOK
  <2>6. QED
    BY <1>1, <2>2, <2>3, <2>4, <2>5, AnswerIsFresh
<1>3. CASE ~(call[t].key \in DOMAIN cache /\ Hit(cache[call[t].key], call[t].now))
  <2> DEFINE c == [call[t] EXCEPT !.pc = "download"]
  <2>1. RequestOf(c) = RequestOf(call[t])
    BY <1>1 DEF RequestOf, Calls
  <2>2. call' = [call EXCEPT ![t] = c]
    BY <1>3 DEF LookUp, Goto
  <2> HIDE DEF c
  <2>3. QED
    BY <1>1, <2>1, <2>2, RequestIsKept
<1>4. QED
  BY <1>2, <1>3

\* answered by a download when its frame is stored,
LEMMA StoringIsFresh ==
  ASSUME CachePart, NEW t \in Threads, Store(t)
  PROVE  Fresh!Answer(t)
<1>1. call[t].pc = "store" /\ clock' = clock /\ call[t] \in Calls /\ CallOK(call[t])
  BY DEF Store, At, CachePart, CallsOK
<1>2. /\ call[t].frame \in Frames /\ call[t].frame.key = call[t].key
      /\ call[t].now <= call[t].frame.taken /\ call[t].frame.taken <= clock
  BY <1>1 DEF CallOK
<1>3. call[t].frame.taken \in Nat /\ call[t].now \in Nat /\ TTL \in Nat \ {0}
  BY <1>1, <1>2, TimesAreNaturals, CacheAssumption DEF Frames, Calls
<1>4. call[t].frame.taken + TTL > call[t].now
  BY <1>2, <1>3
<1>5. call' = [call EXCEPT ![t] = [call[t] EXCEPT !.pc = "answered", !.frame = call[t].frame]]
  BY <1>1 DEF Store, Goto, CachePart, CallsOK, Calls
<1>6. QED
  BY <1>1, <1>2, <1>4, <1>5, AnswerIsFresh

\* and closed when the call returns.
LEMMA FinishingIsFresh ==
  ASSUME CachePart, NEW t \in Threads, Finish(t)
  PROVE  Fresh!Close(t)
<1>1. call[t].pc \in {"answered", "failed"} /\ call[t] \in Calls /\ call[t].key \in Keys
  BY DEF Finish, At, CachePart, CallsOK, CallOK
<1>2. RequestOf(call[t]) \in [key : Keys, since : Times, answer : Frames \cup {None}]
  BY <1>1 DEF RequestOf, Calls
<1>3. RequestsOf(call)[t] # None
  BY <1>2, NoneAssumption DEF RequestsOf
<1>4. RequestOf(NoCall) = None
  BY DEF RequestOf, NoCall
<1>5. RequestsOf(call') = [RequestsOf(call) EXCEPT ![t] = None]
  BY <1>4, OneRequestChanges DEF Finish
<1>6. QED
  BY <1>3, <1>5 DEF Finish, Fresh!Close

\* Until the clock is read nothing is asked for, and a download leaves the request open.
LEMMA OtherWorkIsHidden ==
  ASSUME CachePart, NEW t \in Threads,
         \/ Forget(t) \/ Download(t) \/ DownloadFails(t)
         \/ \E key \in Keys, refresh \in BOOLEAN : Begin(t, key, refresh)
  PROVE  UNCHANGED <<clock, RequestsOf(call)>>
<1>1. call[t] \in Calls
  BY DEF CachePart, CallsOK
<1>2. CASE Forget(t)
  <2>1. RequestOf([call[t] EXCEPT !.pc = "clock"]) = RequestOf(call[t])
    BY <1>1, <1>2 DEF RequestOf, Calls, Forget, At
  <2>2. QED
    BY <1>2, <2>1, RequestIsKept DEF Forget, Goto
<1>3. CASE Download(t)
  <2> DEFINE c == [call[t] EXCEPT !.pc = "store", !.frame = [key |-> call[t].key, taken |-> clock]]
  <2>1. RequestOf(c) = RequestOf(call[t])
    BY <1>1, <1>3 DEF RequestOf, Calls, Download, At
  <2>2. call' = [call EXCEPT ![t] = c] /\ clock' = clock
    BY <1>3 DEF Download
  <2> HIDE DEF c
  <2>3. QED
    BY <2>1, <2>2, RequestIsKept
<1>4. CASE DownloadFails(t)
  <2>1. RequestOf([call[t] EXCEPT !.pc = "failed"]) = RequestOf(call[t])
    BY <1>1, <1>4 DEF RequestOf, Calls, DownloadFails, At
  <2>2. QED
    BY <1>4, <2>1, RequestIsKept DEF DownloadFails, AfterFailure, Goto
<1>5. CASE \E key \in Keys, refresh \in BOOLEAN : Begin(t, key, refresh)
  <2>1. PICK key \in Keys, refresh \in BOOLEAN : Begin(t, key, refresh)
    BY <1>5
  <2> DEFINE c == [NoCall EXCEPT !.pc = IF refresh THEN "refresh" ELSE "clock",
                                 !.key = key, !.refreshed = IF refresh THEN clock ELSE None]
  <2>2. RequestOf(c) = None /\ RequestOf(call[t]) = None
    BY <2>1 DEF RequestOf, NoCall, Begin, At
  <2>3. call' = [call EXCEPT ![t] = c] /\ clock' = clock
    BY <2>1 DEF Begin
  <2> HIDE DEF c
  <2>4. QED
    BY <2>2, <2>3, RequestIsKept
<1>6. QED
  BY <1>2, <1>3, <1>4, <1>5

\* The initial states agree.
LEMMA InitIsFresh == Init => Fresh!FreshInit
<1> SUFFICES ASSUME Init PROVE Fresh!FreshInit
  OBVIOUS
<1>1. clock = 0 /\ call = [t \in Threads |-> NoCall]
  BY DEF Init, CacheInit
<1>2. RequestsOf(call) = [t \in Threads |-> None]
  BY <1>1 DEF RequestsOf, RequestOf, NoCall
<1>3. QED
  BY <1>1, <1>2 DEF Fresh!FreshInit

\* Each step is one of FreshAnswers or leaves what it sees alone.
LEMMA StepIsFresh ==
  ASSUME CachePart, waiting \subseteq Keys, [Next]_vars
  PROVE  [Fresh!FreshNext]_<<clock, RequestsOf(call)>>
<1> USE DEF Fresh!FreshNext
<1>1. CASE UNCHANGED <<clock, call>>
  BY <1>1
<1>2. CASE Tick
  BY <1>2 DEF Tick, Fresh!Pass
<1>3. ASSUME NEW t \in Threads, Request(t) PROVE UNCHANGED <<clock, RequestsOf(call)>>
  BY <1>3, OtherWorkIsHidden DEF Request
<1>4. ASSUME NEW t \in Threads, TakeTask(t) PROVE UNCHANGED <<clock, RequestsOf(call)>>
  <2>1. PICK key \in waiting : Begin(t, key, FALSE)
    BY <1>4 DEF TakeTask
  <2>2. QED
    BY <2>1, OtherWorkIsHidden
<1>5. ASSUME NEW t \in Threads, Run(t) PROVE [Fresh!FreshNext]_<<clock, RequestsOf(call)>>
  <2>1. CASE Work(t)
    BY <2>1, AskingIsFresh, LookingIsFresh, StoringIsFresh, OtherWorkIsHidden DEF Work
  <2>2. CASE Finish(t)
    BY <2>2, FinishingIsFresh
  <2>3. QED
    BY <1>5, <2>1, <2>2 DEF Run, Respond, FinishTask
<1>6. QED
  BY <1>1, <1>2, <1>3, <1>4, <1>5
     DEF Next, vars, cacheVars, BeginOverview, Gather, Collect, Return, Raise, Leave

\* The cache implements FreshAnswers for every number of threads, every capacity and every
\* time to live: whoever stored what a thread reads, and however long downloads take, the
\* answer is data of the thread's key that was not older than TTL when it read the clock.
THEOREM AnswersAreFreshAlways == Spec => AnswersAreFresh
<1>1. CacheInvariant /\ [Next]_vars => [Fresh!FreshNext]_<<clock, RequestsOf(call)>>
  BY StepIsFresh DEF CacheInvariant, CachePart
<1>2. QED
  BY <1>1, InitIsFresh, CacheInvariantHolds, PTL DEF Spec, AnswersAreFresh, Fresh!FreshSpec
-----------------------------------------------------------------------------
(***************************************************************************)
(* Overviews                                                               *)
(***************************************************************************)
\* A worker with a task, and the keys of the results not yet taken.
Working(w) == ~At(w, "idle")
Done == DOMAIN completed

\* A requested key is in one place at most: with the tasks that wait, with one worker,
\* with the results not yet taken, or in one of the two lists of the response.
OnePlace ==
  /\ waiting \cup Done \cup instruments \cup failures \subseteq Requested
  /\ waiting \cap (Done \cup instruments \cup failures) = {}
  /\ Done \cap (instruments \cup failures) = {}
  /\ instruments \cap failures = {}
  /\ \A w \in Workers : Working(w) =>
       /\ call[w].key \in Requested
       /\ call[w].key \notin waiting \cup Done \cup instruments \cup failures
  /\ \A v, w \in Workers : Working(v) /\ Working(w) /\ call[v].key = call[w].key => v = w

\* While results are collected, each is in one.
EveryPlace ==
  overview = "collecting" =>
    \A k \in Requested :
      \/ k \in waiting \cup Done \cup instruments \cup failures
      \/ \E w \in Workers : Working(w) /\ call[w].key = k

\* Nothing is left over from one overview to the next.
NothingLeft ==
  overview = "idle" =>
    /\ waiting = {} /\ Done = {} /\ instruments = {} /\ failures = {}
    /\ \A w \in Workers : ~Working(w)

\* A result is one of the three that the collecting loop tells apart.
ResultsOK == \A k \in Done : completed[k] \in {"value", "ValueError", "IndexError"}

\* The inductive invariant of the overview, beside that of the cache.
TasksInvariant == OnePlace /\ EveryPlace /\ NothingLeft /\ ResultsOK
-----------------------------------------------------------------------------
\* A step that leaves the overview's tasks where they are.
LEMMA TasksAreKept ==
  ASSUME TasksInvariant, UNCHANGED overviewVars,
         \A w \in Workers : (Working(w)' <=> Working(w)) /\ call'[w].key = call[w].key
  PROVE  TasksInvariant'
<1>1. OnePlace'
  BY DEF TasksInvariant, overviewVars, OnePlace, Done
<1>2. EveryPlace'
  BY DEF TasksInvariant, overviewVars, EveryPlace, Done
<1>3. NothingLeft' /\ ResultsOK'
  BY DEF TasksInvariant, overviewVars, NothingLeft, ResultsOK, Done
<1>4. QED
  BY <1>1, <1>2, <1>3 DEF TasksInvariant

\* A handler is no worker.
LEMMA HandlersAreApart ==
  ASSUME CallsOK, TasksInvariant, NEW t \in Handlers, NEW c, call' = [call EXCEPT ![t] = c],
         UNCHANGED overviewVars
  PROVE  TasksInvariant'
<1>1. \A w \in Workers : call'[w] = call[w]
  BY OverviewAssumption DEF Handlers, CallsOK
<1>2. QED
  BY <1>1, TasksAreKept DEF Working, At

\* Until it has an answer, a thread in a call stays in it, with its key.
LEMMA WorkKeepsTasks ==
  ASSUME CallsOK, TasksInvariant, NEW t \in Threads, Work(t), UNCHANGED overviewVars
  PROVE  TasksInvariant'
<1>1. call[t] \in Calls
  BY DEF CallsOK
<1>2. /\ Working(t)
      /\ \E c : call' = [call EXCEPT ![t] = c] /\ c.pc # "idle" /\ c.key = call[t].key
  <2>1. ASSUME NEW pc, pc # "idle", Goto(t, pc)
        PROVE  \E c : call' = [call EXCEPT ![t] = c] /\ c.pc # "idle" /\ c.key = call[t].key
    <3> DEFINE c == [call[t] EXCEPT !.pc = pc]
    <3>1. call' = [call EXCEPT ![t] = c] /\ c.pc # "idle" /\ c.key = call[t].key
      BY <1>1, <2>1 DEF Goto, Calls
    <3>2. QED
      BY <3>1
  <2>2. ASSUME NEW frame, AnswerWith(t, frame)
        PROVE  \E c : call' = [call EXCEPT ![t] = c] /\ c.pc # "idle" /\ c.key = call[t].key
    <3> DEFINE c == [call[t] EXCEPT !.pc = "answered", !.frame = frame]
    <3>1. call' = [call EXCEPT ![t] = c] /\ c.pc # "idle" /\ c.key = call[t].key
      BY <1>1, <2>2 DEF AnswerWith, Calls
    <3>2. QED
      BY <3>1
  <2>3. CASE ReadClock(t)
    <3> DEFINE c == [call[t] EXCEPT !.pc = "look", !.now = clock]
    <3>1. call' = [call EXCEPT ![t] = c] /\ c.pc # "idle" /\ c.key = call[t].key
      BY <1>1, <2>3 DEF ReadClock, Calls
    <3>2. QED
      BY <2>3, <3>1 DEF ReadClock, Working, At
  <2>4. CASE Download(t)
    <3> DEFINE c == [call[t] EXCEPT !.pc = "store",
                                    !.frame = [key |-> call[t].key, taken |-> clock]]
    <3>1. call' = [call EXCEPT ![t] = c] /\ c.pc # "idle" /\ c.key = call[t].key
      BY <1>1, <2>4 DEF Download, Calls
    <3>2. QED
      BY <2>4, <3>1 DEF Download, Working, At
  <2>5. CASE Forget(t)
    BY <2>1, <2>5 DEF Forget, Working, At
  <2>6. CASE LookUp(t)
    BY <2>1, <2>2, <2>6 DEF LookUp, Working, At
  <2>7. CASE DownloadFails(t)
    BY <2>1, <2>7 DEF DownloadFails, AfterFailure, Working, At
  <2>8. CASE Store(t)
    BY <2>1, <2>8 DEF Store, Working, At
  <2>9. QED
    BY <2>3, <2>4, <2>5, <2>6, <2>7, <2>8 DEF Work
<1>3. \A w \in Workers : (Working(w)' <=> Working(w)) /\ call'[w].key = call[w].key
  BY <1>2, OverviewAssumption DEF CallsOK, Working, At
<1>4. QED
  BY <1>3, TasksAreKept

\* The tasks of a new overview wait.
LEMMA BeginOverviewStep ==
  ASSUME TasksInvariant, BeginOverview
  PROVE  TasksInvariant'
<1>1. /\ overview = "idle" /\ overview' = "collecting" /\ waiting' = Requested /\ Done' = {}
      /\ instruments' = {} /\ failures' = {}
      /\ \A w \in Workers : ~Working(w)'
  BY DEF BeginOverview, TasksInvariant, NothingLeft, cacheVars, Working, At, Done
<1>2. QED
  BY <1>1 DEF TasksInvariant, OnePlace, EveryPlace, NothingLeft, ResultsOK

\* A task goes from those that wait to a worker.
LEMMA TakeTaskStep ==
  ASSUME CallsOK, TasksInvariant, NEW w \in Workers, TakeTask(w)
  PROVE  TasksInvariant'
<1>1. PICK key \in waiting : Begin(w, key, FALSE) /\ waiting' = waiting \ {key}
  BY DEF TakeTask
<1>2. /\ ~Working(w) /\ Working(w)' /\ call'[w].key = key
      /\ \A v \in Workers \ {w} : call'[v] = call[v]
  BY <1>1, OverviewAssumption DEF Begin, NoCall, CallsOK, Working, At
<1>3. \A v \in Workers \ {w} : Working(v)' <=> Working(v)
  BY <1>2 DEF Working, At
<1>4. UNCHANGED <<overview, Done, instruments, failures>> /\ ResultsOK'
  BY DEF TakeTask, TasksInvariant, ResultsOK, Done
<1>5. OnePlace'
  BY <1>1, <1>2, <1>3, <1>4 DEF TasksInvariant, OnePlace
<1>6. EveryPlace'
  BY <1>1, <1>2, <1>3, <1>4 DEF TasksInvariant, EveryPlace
<1>7. NothingLeft'
  BY <1>1, <1>4 DEF TasksInvariant, NothingLeft
<1>8. QED
  BY <1>4, <1>5, <1>6, <1>7 DEF TasksInvariant

\* A result goes from a worker to those not yet taken.
LEMMA FinishTaskStep ==
  ASSUME CallsOK, TasksInvariant, NEW w \in Workers, FinishTask(w)
  PROVE  TasksInvariant'
<1>1. PICK k \in Requested : k = call[w].key
  BY DEF FinishTask, Finish, TasksInvariant, OnePlace, Working, At
<1>2. /\ Working(w) /\ ~Working(w)' /\ call[w].key = k
      /\ \A v \in Workers \ {w} : call'[v] = call[v]
  BY <1>1, OverviewAssumption DEF FinishTask, Finish, NoCall, CallsOK, Working, At
<1>3. \A v \in Workers \ {w} : Working(v)' <=> Working(v)
  BY <1>2 DEF Working, At
<1>4. UNCHANGED <<overview, waiting, instruments, failures>> /\ Done' = Done \cup {k}
  BY <1>1 DEF FinishTask, Done
<1>5. ResultsOK'
  BY <1>1 DEF FinishTask, TaskResult, TasksInvariant, ResultsOK, Done
<1>6. OnePlace'
  BY <1>2, <1>3, <1>4 DEF TasksInvariant, OnePlace
<1>7. EveryPlace'
  BY <1>2, <1>3, <1>4 DEF TasksInvariant, EveryPlace
<1>8. NothingLeft'
  BY <1>2, <1>4 DEF TasksInvariant, NothingLeft
<1>9. QED
  BY <1>5, <1>6, <1>7, <1>8 DEF TasksInvariant

\* A result goes into one of the two lists, or ends the collecting.
LEMMA CollectStep ==
  ASSUME TasksInvariant, Collect
  PROVE  TasksInvariant'
<1>1. PICK key \in Done :
        /\ completed' = [k \in DOMAIN completed \ {key} |-> completed[k]]
        /\ instruments' = IF completed[key] = "value"
                          THEN instruments \cup {key} ELSE instruments
        /\ failures' = IF completed[key] = "ValueError" THEN failures \cup {key} ELSE failures
        /\ overview' = IF completed[key] = "IndexError" THEN "raising" ELSE overview
  BY DEF Collect, Failed, Done
<1>2. /\ overview = "collecting" /\ waiting' = waiting /\ Done' = Done \ {key}
      /\ \A w \in Workers : (Working(w)' <=> Working(w)) /\ call'[w].key = call[w].key
  BY <1>1 DEF Collect, cacheVars, Working, At, Done
<1>3. completed[key] \in {"value", "ValueError", "IndexError"}
  BY <1>1 DEF TasksInvariant, ResultsOK
<1>4. OnePlace'
  BY <1>1, <1>2 DEF TasksInvariant, OnePlace
<1>5. EveryPlace'
  BY <1>1, <1>2, <1>3 DEF TasksInvariant, EveryPlace
<1>6. NothingLeft' /\ ResultsOK'
  BY <1>1, <1>2 DEF TasksInvariant, NothingLeft, ResultsOK, Done
<1>7. QED
  BY <1>4, <1>5, <1>6 DEF TasksInvariant

\* The overview is left when no task is anywhere.
LEMMA LeaveStep ==
  ASSUME TasksInvariant, Leave
  PROVE  TasksInvariant'
<1>1. /\ overview' = "idle" /\ waiting' = {} /\ Done' = {}
      /\ instruments' = {} /\ failures' = {}
      /\ \A w \in Workers : ~Working(w)'
  BY DEF Leave, AllDone, cacheVars, Working, At, Done
<1>2. QED
  BY <1>1 DEF TasksInvariant, OnePlace, EveryPlace, NothingLeft, ResultsOK

\* No task is anywhere at the start.
LEMMA TasksStart == Init => TasksInvariant
<1> SUFFICES ASSUME Init PROVE TasksInvariant
  OBVIOUS
<1>1. /\ overview = "idle" /\ waiting = {} /\ Done = {}
      /\ instruments = {} /\ failures = {}
  BY DEF Init, Done
<1>2. \A w \in Workers : ~Working(w)
  BY OverviewAssumption DEF Init, CacheInit, NoCall, Working, At
<1>3. QED
  BY <1>1, <1>2 DEF TasksInvariant, OnePlace, EveryPlace, NothingLeft, ResultsOK

\* Every step is one of the overview, of a worker, or of a thread that is none.
LEMMA TasksStep == CacheInvariant /\ TasksInvariant /\ [Next]_vars => TasksInvariant'
<1> SUFFICES ASSUME CallsOK, TasksInvariant, [Next]_vars PROVE TasksInvariant'
  BY DEF CacheInvariant
<1>1. CASE UNCHANGED overviewVars /\ UNCHANGED call
  BY <1>1, TasksAreKept DEF Working, At
<1>2. CASE BeginOverview
  BY <1>2, BeginOverviewStep
<1>3. CASE Gather
  BY <1>3, CollectStep, LeaveStep DEF Gather, Return, Raise
<1>4. ASSUME NEW t \in Threads, Request(t) PROVE TasksInvariant'
  BY <1>4, HandlersAreApart DEF Request, Begin
<1>5. ASSUME NEW t \in Threads, TakeTask(t) PROVE TasksInvariant'
  BY <1>5, TakeTaskStep DEF TakeTask
<1>6. ASSUME NEW t \in Threads, Run(t) PROVE TasksInvariant'
  <2>1. CASE Work(t) /\ UNCHANGED overviewVars
    BY <2>1, WorkKeepsTasks
  <2>2. CASE Respond(t)
    BY <2>2, HandlersAreApart DEF Respond, Finish
  <2>3. CASE FinishTask(t)
    BY <2>3, FinishTaskStep DEF FinishTask
  <2>4. QED
    BY <1>6, <2>1, <2>2, <2>3 DEF Run
<1>7. QED
  BY <1>1, <1>2, <1>3, <1>4, <1>5, <1>6 DEF Next, Tick, vars, cacheVars

\* Hence the invariant, always.
LEMMA TasksInvariantHolds == Spec => []TasksInvariant
<1>1. QED
  BY CacheInvariantHolds, TasksStart, TasksStep, PTL DEF Spec
-----------------------------------------------------------------------------
\* What a returning overview reports.
Accounted ==
  Return =>
    /\ instruments \cup failures = Requested /\ instruments \cap failures = {}
    /\ \A row \in SectorRows : 0 < row.available /\ row.available <= row.total

\* With no task waiting, in hand or untaken, every place left is in the response.
LEMMA ReturnAccounts ==
  ASSUME TasksInvariant
  PROVE  Accounted
<1> SUFFICES ASSUME Return
             PROVE  /\ instruments \cup failures = Requested /\ instruments \cap failures = {}
                    /\ \A row \in SectorRows : 0 < row.available /\ row.available <= row.total
  BY DEF Accounted
<1>1. /\ overview = "collecting" /\ waiting = {} /\ Done = {}
      /\ \A w \in Workers : ~Working(w)
  BY DEF Return, Leave, AllDone, Working, Done
<1>2. instruments \cup failures = Requested /\ instruments \cap failures = {}
  BY <1>1 DEF TasksInvariant, OnePlace, EveryPlace
<1>3. ASSUME NEW s \in Sectors, s \cap instruments # {}
      PROVE  /\ 0 < Cardinality(s \cap instruments)
             /\ Cardinality(s \cap instruments) <= Cardinality(s)
  <2>1. IsFiniteSet(s)
    BY OverviewAssumption, FS_Subset
  <2>2. /\ IsFiniteSet(s \cap instruments)
        /\ Cardinality(s \cap instruments) <= Cardinality(s)
    BY <2>1, FS_Subset
  <2>3. Cardinality(s \cap instruments) \in Nat /\ Cardinality(s \cap instruments) # 0
    BY <1>3, <2>2, FS_CardinalityType, FS_EmptySet
  <2>4. QED
    BY <2>2, <2>3
<1>4. ASSUME NEW row \in SectorRows PROVE 0 < row.available /\ row.available <= row.total
  <2>1. PICK s \in Sectors : /\ s \cap instruments # {}
                             /\ row = [available |-> Cardinality(s \cap instruments),
                                       total |-> Cardinality(s)]
    BY DEF SectorRows
  <2>2. row.available = Cardinality(s \cap instruments) /\ row.total = Cardinality(s)
    BY <2>1
  <2>3. QED
    BY <1>3, <2>1, <2>2
<1>5. QED
  BY <1>2, <1>4

\* An overview reports every requested instrument, for any number of instruments, pool
\* threads and other requests: once, as loaded or as failed, and no sector claims more
\* members than it has.
THEOREM OverviewReportsAll == Spec => OverviewAccountsForAll
<1>1. TasksInvariant => [Accounted]_vars
  BY ReturnAccounts
<1>2. QED
  BY <1>1, TasksInvariantHolds, PTL DEF Spec, OverviewAccountsForAll, Accounted
=============================================================================
