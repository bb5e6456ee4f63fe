---------------------------- MODULE FreshAnswers ----------------------------
(***************************************************************************)
(* What the dashboard's callers may rely on, without a cache, a provider   *)
(* or threads that meet: a request for a key fails, or is answered with    *)
(* data of that key that was not older than TTL when the request was made  *)
(* (README, "cached briefly ... for 60 seconds").                          *)
(***************************************************************************)
EXTENDS Naturals

CONSTANTS
  Clients,   \* the threads that make requests
  Keys,      \* what they may ask for
  TTL,       \* how old an answer may be
  Nothing    \* no request, or no answer yet

VARIABLES
  time,
  request    \* request[c]: Nothing, or what c asks for, since when, and its answer

FreshInit == time = 0 /\ request = [c \in Clients |-> Nothing]

Ask(c) ==
  /\ request[c] = Nothing
  /\ \E k \in Keys :
       request' = [request EXCEPT ![c] = [key |-> k, since |-> time, answer |-> Nothing]]
  /\ UNCHANGED time

\* The data is some snapshot of the market between TTL before the request and now.
Answer(c) ==
  /\ request[c] # Nothing /\ request[c].answer = Nothing
  /\ \E taken \in 0 .. time :
       /\ taken + TTL > request[c].since
       /\ request' = [request EXCEPT ![c].answer = [key |-> request[c].key, taken |-> taken]]
  /\ UNCHANGED time

Close(c) ==
  /\ request[c] # Nothing
  /\ request' = [request EXCEPT ![c] = Nothing]
  /\ UNCHANGED time

Pass == time' = time + 1 /\ UNCHANGED request

FreshNext == Pass \/ \E c \in Clients : Ask(c) \/ Answer(c) \/ Close(c)

FreshSpec == FreshInit /\ [][FreshNext]_<<time, request>>
=============================================================================
