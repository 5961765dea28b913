---------------------------- MODULE ApiLimiter -----------------------------
(***************************************************************************)
(* RateLimitMiddleware: the window of served requests that is kept for     *)
(* each client, and the clean-up that keeps the windows few.  dispatch()   *)
(* does not await before it has decided, so that a request is one step.    *)
(* Time is in ticks of Window to a minute.                                 *)
(*                                                                         *)
(* Operators named Fault... are not part of the specification.             *)
(***************************************************************************)
EXTENDS Integers, Sequences, SequencesExt, FiniteSets

CONSTANTS
  Clients,   \* addresses
  Limit,     \* requests_per_minute
  MaxIps,    \* MAX_IPS
  Window,    \* ticks of a minute
  MaxTime    \* bound: ticks

VARIABLES
  now,
  requests,      \* times of each client that has an entry
  last_cleanup,
  served,        \* history: when each client was served
  evicted        \* history: clients whose entry went while it was counted

vars == <<now, requests, last_cleanup, served, evicted>>

Times == 0..MaxTime

LimiterTypeOK ==
  /\ now \in Times /\ last_cleanup \in Times
  /\ DOMAIN requests \subseteq Clients
  /\ \A c \in DOMAIN requests : requests[c] \in Seq(Times) /\ Len(requests[c]) \in 1..Limit
  /\ served \in [Clients -> Seq(Times)]
  /\ evicted \subseteq Clients

Init ==
  /\ now = 0 /\ last_cleanup = 0
  /\ requests = [c \in {} |-> <<>>]
  /\ served = [c \in Clients |-> <<>>]
  /\ evicted = {}

-----------------------------------------------------------------------------
(* How many have expired: times ascend, and they are the first. *)
Expired(times, cutoff) == Cardinality({i \in 1..Len(times) : times[i] <= cutoff})

FaultCounted(times, cutoff) == SubSeq(times, Expired(times, cutoff + 1) + 1, Len(times))

Counted(times, cutoff) == SubSeq(times, Expired(times, cutoff) + 1, Len(times))

Live(cutoff) == {c \in DOMAIN requests : Last(requests[c]) >= cutoff}

(* _cleanup: stale entries go; then the least recently served, if there    *)
(* are more than MaxIps; of equals, the order of the dict decides.         *)
Survivors(cutoff) ==
  {s \in SUBSET Live(cutoff) :
     /\ Cardinality(s) = IF Cardinality(Live(cutoff)) > MaxIps THEN MaxIps ELSE Cardinality(Live(cutoff))
     /\ \A c \in s, d \in Live(cutoff) \ s : Last(requests[c]) >= Last(requests[d])}

(* The client's window, from which what is too old goes, decides. *)
Serve(c, kept) ==
  LET times == IF c \in kept THEN Counted(requests[c], now - Window) ELSE <<>>
  IN  IF Len(times) >= Limit
      THEN /\ requests' = [d \in kept |-> IF d = c THEN times ELSE requests[d]]
           /\ UNCHANGED served
      ELSE /\ requests' = [d \in kept \cup {c} |-> IF d = c THEN Append(times, now) ELSE requests[d]]
           /\ served' = [served EXCEPT ![c] = Append(@, now)]

(* At most once a minute, a request cleans up first. *)
DispatchAndCleanUp(c) ==
  /\ now - last_cleanup > Window
  /\ last_cleanup' = now
  /\ \E kept \in Survivors(now - Window) :
       /\ Serve(c, kept)
       /\ evicted' = evicted \cup (Live(now - Window) \ kept)
  /\ UNCHANGED now

Dispatch(c) ==
  /\ now - last_cleanup <= Window
  /\ Serve(c, DOMAIN requests)
  /\ UNCHANGED <<now, last_cleanup, evicted>>

Tick ==
  /\ now < MaxTime
  /\ now' = now + 1
  /\ UNCHANGED <<requests, last_cleanup, served, evicted>>

Next ==
  \/ \E c \in Clients : DispatchAndCleanUp(c) \/ Dispatch(c)
  \/ Tick

Spec == Init /\ [][Next]_vars

-----------------------------------------------------------------------------
Within(c, t) == Cardinality({i \in 1..Len(served[c]) : t - Window < served[c][i] /\ served[c][i] <= t})

(* In no minute, wherever it begins, is a client served more often than    *)
(* the limit, unless the clean-up has forgotten it while it was counted:   *)
(* then it starts anew.                                                    *)
LimitHolds == \A c \in Clients \ evicted, t \in Times : Within(c, t) <= Limit

(* main.py:114: "requests_per_minute=60"                                   *)
LimitHoldsForAll == \A c \in Clients, t \in Times : Within(c, t) <= Limit

(* Entries that no request has touched since the last clean-up are no more *)
(* than MaxIps: between two clean-ups, and only then, there may be more.   *)
IdleEntriesAreBounded ==
  Cardinality({c \in DOMAIN requests : Last(requests[c]) < last_cleanup}) <= MaxIps

=============================================================================
