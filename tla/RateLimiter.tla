----------------------------- MODULE RateLimiter -----------------------------
(***************************************************************************)
(* The rate limiter every request passes first: ThrottlerGuard, registered *)
(* as APP_GUARD, asks RedisThrottlerStorage.increment, whose Lua script     *)
(* counts the client's hits and blocks it in Redis.  All replicas share the *)
(* keys; a run of the script is one step, and keys expire between two.      *)
(***************************************************************************)
EXTENDS Integers, Sequences

CONSTANTS
  Clients,       \* what the guard tracks: an address and a route
  Ttl,           \* RATE_LIMIT_TTL_SECONDS, in milliseconds
  Limit,         \* RATE_LIMIT_MAX
  Second,        \* the milliseconds of a second
  MaxTime,       \* bound: the last instant of the clock
  MaxRequests    \* bound: the requests of each client

ASSUME TtlAssumption == Ttl \in Nat \ {0}
ASSUME LimitAssumption == Limit \in Nat \ {0}
ASSUME SecondAssumption == Second \in Nat \ {0}
ASSUME BoundsAssumption == MaxTime \in Nat /\ MaxRequests \in [Clients -> Nat]

VARIABLES
  now,       \* Redis's clock
  hits,      \* throttle:default:{client}:hits
  block,     \* throttle:default:{client}:block
  log,       \* history: the runs of the script for a client, as it answered
  admitted   \* history: the hits that were let through

vars == <<now, hits, block, log, admitted>>

-----------------------------------------------------------------------------
(* Redis: a key has a value and an instant it expires at, 0 for never.  It  *)
(* is still there at that instant, with a PTTL of 0, and gone after it.     *)

NoKey == [value |-> 0, expires |-> 0]

Alive(key) == key.value # 0 /\ (key.expires = 0 \/ now <= key.expires)

Pttl(key) ==
  CASE ~ Alive(key)                       -> -2
    [] Alive(key) /\ key.expires = 0      -> -1
    [] Alive(key) /\ key.expires # 0      -> key.expires - now

\* The guard hands increment the window as the block's length, since the
\* application configures none.
BlockDuration == Ttl

\* Mutant: the counter never gets its expiry.
CountedForever(c) ==
  IF Alive(hits[c]) THEN [hits[c] EXCEPT !.value = @ + 1]
                    ELSE [value |-> 1, expires |-> 0]

\* Mutant: every hit renews the expiry.
CountedRenewed(c) ==
  [value |-> IF Alive(hits[c]) THEN hits[c].value + 1 ELSE 1,
   expires |-> now + Ttl]

\* INCR; the hit that creates the key gives it its expiry.
Counted(c) ==
  IF Alive(hits[c]) THEN [hits[c] EXCEPT !.value = @ + 1]
                    ELSE [value |-> 1, expires |-> now + Ttl]

\* Math.max(0, Math.ceil(ms / 1000))
Seconds(ms) == IF ms <= 0 THEN 0 ELSE (ms + Second - 1) \div Second

\* The script's answer, as the request gets it: the guard refuses it when the
\* client is blocked, and a request whose answer is lost fails.
Answer(c, isBlocked, blockTtl, count) ==
  \E outcome \in {IF isBlocked THEN "refused" ELSE "admitted", "failed"} :
    /\ log' = [log EXCEPT ![c] =
         Append(@, [at |-> now, outcome |-> outcome, exceeds |-> count > Limit,
                    until |-> now + blockTtl, retryAfter |-> Seconds(blockTtl)])]
    /\ admitted' = IF outcome = "admitted"
         THEN [admitted EXCEPT ![c] =
                 Append(@, [at |-> now, rank |-> count,
                            start |-> Counted(c).expires - Ttl])]
         ELSE admitted

CanAsk(c) == Len(log[c]) < MaxRequests[c]

Blocked(c) == Pttl(block[c]) > 0

\* The block key is there: nothing is counted.
StillBlocked(c) ==
  /\ CanAsk(c)
  /\ Blocked(c)
  /\ Answer(c, TRUE, Pttl(block[c]), 0)
  /\ UNCHANGED <<now, hits, block>>

\* Mutant: the client is refused, but not blocked.
ExceedUnblocked(c) ==
  LET counter == Counted(c) IN
  /\ CanAsk(c)
  /\ ~ Blocked(c)
  /\ counter.value > Limit /\ BlockDuration > 0
  /\ hits' = [hits EXCEPT ![c] = counter]
  /\ Answer(c, TRUE, BlockDuration, counter.value)
  /\ UNCHANGED <<now, block>>

\* The hit that goes over the limit blocks the client.
Exceed(c) ==
  LET counter == Counted(c) IN
  /\ CanAsk(c)
  /\ ~ Blocked(c)
  /\ counter.value > Limit /\ BlockDuration > 0
  /\ hits' = [hits EXCEPT ![c] = counter]
  /\ block' = [block EXCEPT ![c] = [value |-> 1, expires |-> now + BlockDuration]]
  /\ Answer(c, TRUE, BlockDuration, counter.value)
  /\ UNCHANGED now

\* Mutant: the limit is compared after the fact.
AdmitOneMore(c) ==
  LET counter == Counted(c) IN
  /\ CanAsk(c)
  /\ ~ Blocked(c)
  /\ ~ (counter.value > Limit + 1 /\ BlockDuration > 0)
  /\ hits' = [hits EXCEPT ![c] = counter]
  /\ Answer(c, FALSE, 0, counter.value)
  /\ UNCHANGED <<now, block>>

Admit(c) ==
  LET counter == Counted(c) IN
  /\ CanAsk(c)
  /\ ~ Blocked(c)
  /\ ~ (counter.value > Limit /\ BlockDuration > 0)
  /\ hits' = [hits EXCEPT ![c] = counter]
  /\ Answer(c, FALSE, 0, counter.value)
  /\ UNCHANGED <<now, block>>

Tick ==
  /\ now < MaxTime
  /\ now' = now + 1
  /\ UNCHANGED <<hits, block, log, admitted>>

Init ==
  /\ now      = 0
  /\ hits     = [c \in Clients |-> NoKey]
  /\ block    = [c \in Clients |-> NoKey]
  /\ log      = [c \in Clients |-> <<>>]
  /\ admitted = [c \in Clients |-> <<>>]

Next ==
  \/ Tick
  \/ \E c \in Clients : StillBlocked(c) \/ Exceed(c) \/ Admit(c)

Spec == Init /\ [][Next]_vars

-----------------------------------------------------------------------------
(* Properties.                                                             *)

Keys    == [value : Nat, expires : Nat]
Answers == [at : Nat, outcome : {"admitted", "refused", "failed"},
            exceeds : BOOLEAN, until : Nat, retryAfter : Nat]
Hits    == [at : Nat, rank : Nat, start : Int]

\* The keys, the answers and the hits have their types.
TypeOK ==
  /\ now \in Nat
  /\ hits \in [Clients -> Keys]
  /\ block \in [Clients -> Keys]
  /\ log \in [Clients -> Seq(Answers)]
  /\ admitted \in [Clients -> Seq(Hits)]

\* However a client places its requests around the end of a window, less than
\* twice the limit of them are admitted within the length of one: the 2 Limit - 1
\* that fit end in the next window, and the first of the two opened the last.
BurstBounded ==
  \A c \in Clients : \A i, j \in DOMAIN admitted[c] :
    j >= i + 2 * Limit - 1 => admitted[c][j].at > admitted[c][i].at + Ttl

\* A client is refused only for an excess of its own: at most one window before
\* the refusal, one of its hits came within a window of the Limit-th before it.
RefusedForExcess ==
  \A c \in Clients : \A j \in DOMAIN log[c] :
    log[c][j].outcome = "refused" =>
      \E i \in (Limit + 1)..j :
        /\ log[c][i].exceeds
        /\ log[c][i].at + Ttl >= log[c][j].at
        /\ log[c][i - Limit].at + Ttl >= log[c][i].at

\* A refused client that asks again after the seconds it was told to wait, and
\* not before, is not refused.
RetryAfterSuffices ==
  \A c \in Clients : \A i \in DOMAIN log[c] :
    log[c][i].outcome = "refused" /\ i + 1 \in DOMAIN log[c]
      /\ log[c][i + 1].at > log[c][i].at + Second * log[c][i].retryAfter
    => log[c][i + 1].outcome # "refused"

\* Until the block it was told of is over nothing of a refused client is let in,
\* however many replicas it asks and whatever becomes of the counter meanwhile.
BlockServed ==
  \A c \in Clients : \A i, j \in DOMAIN log[c] :
    i < j /\ log[c][i].outcome = "refused" /\ log[c][j].outcome = "admitted"
    => log[c][j].at >= log[c][i].until

==============================================================================
