------------------------------- MODULE RateLimit -------------------------------
(***************************************************************************)
(* http/middleware/rate_limit.go: the limiter in front of the portal and   *)
(* the payment webhook.  Each request runs INCR and EXPIRE on its key in   *)
(* one MULTI, so API processes that share Redis share the counters; what   *)
(* happens to the request depends on the count its own INCR returned, and  *)
(* is recorded with that step.  Redis keeps its data.                      *)
(***************************************************************************)
EXTENDS Naturals, Sequences

CONSTANTS
  Keys,      \* pairs (route, client IP)
  Max,       \* RATE_LIMIT_REQUESTS; 0 or less turns the limiter off
  Window,    \* RATE_LIMIT_WINDOW_SECS
  MaxClock,  \* bound: the clock stops there
  MaxAsked   \* bound: requests of a key

ASSUME LimitAssumption == Max \in Nat \ {0} /\ Window \in Nat \ {0}
ASSUME BoundAssumption == MaxClock \in Nat /\ MaxAsked \in Nat

VARIABLES
  count,     \* value of each key in Redis
  expires,   \* when it expires: from then on Redis has no such key
  clock,     \* Redis's clock
  asked,     \* when each request that Redis counted came, in order
  admitted,  \* when each request let through on Redis's answer came
  refused    \* which of the counted requests got 429

vars == <<count, expires, clock, asked, admitted, refused>>

Init ==
  /\ count    = [k \in Keys |-> 0]
  /\ expires  = [k \in Keys |-> 0]
  /\ clock    = 0
  /\ asked    = [k \in Keys |-> <<>>]
  /\ admitted = [k \in Keys |-> <<>>]
  /\ refused  = [k \in Keys |-> {}]

Live(k) == clock < expires[k]

\* What INCR returns: a key that expired starts again
Incr(k) == IF Live(k) THEN count[k] + 1 ELSE 1

\* Mutant: only the request that creates the key sets its expiry
CountedOnce(k) ==
  /\ Len(asked[k]) < MaxAsked
  /\ count'   = [count EXCEPT ![k] = Incr(k)]
  /\ expires' = IF Live(k) THEN expires ELSE [expires EXCEPT ![k] = clock + Window]
  /\ asked'   = [asked EXCEPT ![k] = Append(@, clock)]

\* The MULTI: INCR, then EXPIRE, on every request
Counted(k) ==
  /\ Len(asked[k]) < MaxAsked
  /\ count'   = [count EXCEPT ![k] = Incr(k)]
  /\ expires' = [expires EXCEPT ![k] = clock + Window]
  /\ asked'   = [asked EXCEPT ![k] = Append(@, clock)]

Admit(k) ==
  /\ Incr(k) <= Max
  /\ Counted(k)
  /\ admitted' = [admitted EXCEPT ![k] = Append(@, clock)]
  /\ UNCHANGED <<clock, refused>>

\* Mutant: the request that reaches the limit is refused too
RefuseEarly(k) ==
  /\ Incr(k) >= Max
  /\ Counted(k)
  /\ refused' = [refused EXCEPT ![k] = @ \cup {Len(asked'[k])}]
  /\ UNCHANGED <<clock, admitted>>

Refuse(k) ==
  /\ Incr(k) > Max
  /\ Counted(k)
  /\ refused' = [refused EXCEPT ![k] = @ \cup {Len(asked'[k])}]
  /\ UNCHANGED <<clock, admitted>>

\* Exec failed after Redis ran the commands: the request is let through.  If it
\* failed before, nothing changes at all.
LoseAnswer(k) ==
  /\ Counted(k)
  /\ UNCHANGED <<clock, admitted, refused>>

Tick ==
  /\ clock < MaxClock
  /\ clock' = clock + 1
  /\ UNCHANGED <<count, expires, asked, admitted, refused>>

Next == Tick \/ \E k \in Keys : Admit(k) \/ Refuse(k) \/ LoseAnswer(k)

Spec == Init /\ [][Next]_vars

------------------------------------------------------------------------------
TypeOK ==
  /\ count \in [Keys -> Nat]
  /\ expires \in [Keys -> Nat]
  /\ clock \in Nat
  /\ asked \in [Keys -> Seq(Nat)]
  /\ admitted \in [Keys -> Seq(Nat)]
  /\ refused \in [Keys -> SUBSET Nat]

\* No window of time, wherever it starts, sees more than Max requests of a key
\* let through on Redis's answer, whatever answers are lost
WindowBound ==
  \A k \in Keys : \A i \in DOMAIN admitted[k] :
    i + Max \in DOMAIN admitted[k] => admitted[k][i] + Window <= admitted[k][i + Max]

\* Only a client that was never silent for a window over its last Max requests
\* is refused: one that waits for a window is let in again
RefusedIsBusy ==
  \A k \in Keys : \A n \in refused[k] :
    /\ n > Max
    /\ \A i \in n - Max .. n - 1 : asked[k][i + 1] < asked[k][i] + Window

\* The counter covers every admission that is still in its window
AdmittedInv ==
  \A k \in Keys : \A i \in DOMAIN admitted[k] :
    /\ admitted[k][i] + Window <= expires[k]
    /\ \/ Live(k) /\ i + count[k] > Len(admitted[k])
       \/ admitted[k][i] + Window <= clock

\* The counter counts requests with no silent window between them
RunOfRequests(k) ==
  /\ count[k] \in 1 .. Len(asked[k])
  /\ expires[k] = asked[k][Len(asked[k])] + Window
  /\ \A i \in DOMAIN asked[k] :
       i + count[k] > Len(asked[k]) /\ i < Len(asked[k])
         => asked[k][i + 1] < asked[k][i] + Window

AskedInv ==
  \A k \in Keys : expires[k] <= clock + Window /\ (Live(k) => RunOfRequests(k))

LimitInv == /\ TypeOK /\ AdmittedInv /\ AskedInv /\ WindowBound /\ RefusedIsBusy
            /\ \A k \in Keys : refused[k] \subseteq DOMAIN asked[k]
==============================================================================
