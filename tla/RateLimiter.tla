---------------------------- MODULE RateLimiter -----------------------------
(***************************************************************************)
(* RateLimiter.acquire: the token bucket that every request of the shared  *)
(* fetcher waits for.  A caller takes the lock, refills the bucket for the *)
(* time since the last refill and, when there is less than one token,      *)
(* sleeps with the lock held until the rest would have flowed in.          *)
(*                                                                         *)
(* Tokens are counted in units, Token of them to a token; Flow units come  *)
(* in per tick.  The bucket starts with, and holds at most, the tokens of  *)
(* one second: Burst units.  Times are kept as what flows in during them.  *)
(*                                                                         *)
(* Operators named Fault... are not part of the specification: each is a   *)
(* plausible wrong variant of the definition after it.                     *)
(***************************************************************************)
EXTENDS Integers, Sequences

CONSTANTS
  Callers,   \* coroutines that call acquire, again and again
  Token,     \* units of one token
  Flow,      \* units that come in per tick
  Burst,     \* units of _rate tokens
  Nobody     \* the lock is free

ASSUME LimiterAssumption ==
  /\ Token \in Nat \ {0} /\ Flow \in Nat \ {0} /\ Burst \in Nat \ {0}
  /\ Nobody \notin Callers

VARIABLES
  tokens,    \* _tokens
  accrued,   \* the flow since _last_refill, up to Full
  holder,    \* who holds _lock and sleeps
  owed,      \* the flow that it still sleeps for
  queue,     \* who waits for the lock, first come first served
  strict,    \* history: a bucket with the limiter's rate and burst
  double     \* history: a bucket with twice the rate and a token more

bucket == <<tokens, accrued, holder, owed, queue, strict, double>>

Least(a, b) == IF a < b THEN a ELSE b

Most(a, b) == IF a < b THEN b ELSE a

Full == Burst + Token

Waiting(c) == \E i \in 1..Len(queue) : queue[i] = c

BucketTypeOK ==
  /\ tokens \in 0..Burst
  /\ accrued \in 0..Full
  /\ holder \in Callers \cup {Nobody}
  /\ owed \in 0..Token
  /\ queue \in Seq(Callers)
  /\ strict \in -Token..Full
  /\ double \in Int

BucketInit ==
  /\ tokens = Burst
  /\ accrued = 0
  /\ holder = Nobody
  /\ owed = 0
  /\ queue = <<>>
  /\ strict = Most(Burst, Token)
  /\ double = Full

-----------------------------------------------------------------------------
(* A caller is let through.  What strict owes is counted to one token. *)
Grant == strict' = Most(-Token, strict - Token) /\ double' = double - Token

Enter(c) ==
  /\ holder # c /\ ~Waiting(c)
  /\ queue' = Append(queue, c)
  /\ UNCHANGED <<tokens, accrued, holder, owed, strict, double>>

(* tokens after the refill. *)
Refilled == Least(Burst, tokens + accrued)

(* Fault: the time of the refill is not noted. *)
FaultTakeLock ==
  /\ holder = Nobody /\ queue # <<>>
  /\ queue' = Tail(queue)
  /\ UNCHANGED accrued
  /\ IF Refilled < Token
       THEN /\ tokens' = Refilled
            /\ holder' = Head(queue)
            /\ owed' = Token - Refilled
            /\ UNCHANGED <<strict, double>>
       ELSE tokens' = Refilled - Token /\ Grant /\ UNCHANGED <<holder, owed>>

(* Fault: the last to come is served first. *)
FaultTakeLockLast ==
  /\ holder = Nobody /\ queue # <<>>
  /\ queue' = SubSeq(queue, 1, Len(queue) - 1)
  /\ accrued' = 0
  /\ IF Refilled < Token
       THEN /\ tokens' = Refilled
            /\ holder' = queue[Len(queue)]
            /\ owed' = Token - Refilled
            /\ UNCHANGED <<strict, double>>
       ELSE tokens' = Refilled - Token /\ Grant /\ UNCHANGED <<holder, owed>>

(* The lock is free: the first in the queue takes it and refills.  With a
   token it is let through, without one it goes to sleep.                  *)
TakeLock ==
  /\ holder = Nobody /\ queue # <<>>
  /\ queue' = Tail(queue)
  /\ accrued' = 0
  /\ IF Refilled < Token
       THEN /\ tokens' = Refilled
            /\ holder' = Head(queue)
            /\ owed' = Token - Refilled
            /\ UNCHANGED <<strict, double>>
       ELSE tokens' = Refilled - Token /\ Grant /\ UNCHANGED <<holder, owed>>

(* The sleep is over: tokens is set to zero, _last_refill is left where it
   was before the sleep.                                                   *)
Wake ==
  /\ holder # Nobody /\ owed = 0
  /\ tokens' = 0
  /\ holder' = Nobody
  /\ Grant
  /\ UNCHANGED <<accrued, owed, queue>>

(* A tick of time; a sleeper may wake late. *)
Tick ==
  /\ accrued' = Least(Full, accrued + Flow)
  /\ owed' = Most(0, owed - Flow)
  /\ strict' = Least(Most(Burst, Token), strict + Flow)
  /\ double' = Least(Full, double + 2 * Flow)
  /\ UNCHANGED <<tokens, holder, queue>>

BucketNext == (\E c \in Callers : Enter(c)) \/ TakeLock \/ Wake \/ Tick

BucketSpec == BucketInit /\ [][BucketNext]_bucket

(* Time passes, and the event loop runs who holds the lock or may take it. *)
FairBucketSpec == BucketSpec /\ WF_bucket(TakeLock) /\ WF_bucket(Wake) /\ WF_bucket(Tick)

-----------------------------------------------------------------------------
(* Properties. *)

(* However the callers come and however late a sleeper wakes, they are never
   let through at more than twice the configured rate, with a burst of one
   token more than configured: the time of a sleep, which is both waited
   for and credited at the next refill, is counted no more than twice.     *)
TwiceTheRateAtMost == double >= 0

(* Whoever waits for the lock is let through. *)
EveryCallerIsServed == \A c \in Callers : Waiting(c) ~> ~Waiting(c) /\ holder # c

(* brain.md:441-442: "Default: 0.5 requests/second", "Max burst: Equal to
   rate".  No more requests are let through than a bucket of that rate and
   that burst, or one token if the rate is less, has tokens for.           *)
RateIsRespected == strict >= 0

=============================================================================
