-------------------------- MODULE RateLimiterProofs --------------------------
(***************************************************************************)
(* Proofs about RateLimiter for any window, limit, number of clients and    *)
(* requests.  The inductive invariant says of each client how its admitted  *)
(* hits lie in windows (Admissions), what its block owes it (Refusals) and  *)
(* which of its requests its counter and its block come from (Excesses).    *)
(***************************************************************************)
EXTENDS RateLimiter, TLAPS

\* The window that a counter belongs to is one that has begun.
Begun(key) == key.value # 0 => Ttl <= key.expires /\ key.expires <= now + Ttl

KeysInv == \A c \in Clients : Begun(hits[c]) /\ Begun(block[c])

-----------------------------------------------------------------------------
(* How the script runs.                                                    *)

Quiet(c) ==
  /\ hits'[c] = hits[c] /\ block'[c] = block[c]
  /\ log'[c] = log[c] /\ admitted'[c] = admitted[c]
  /\ now' \in Nat /\ now <= now'

LEMMA OneClient ==
  ASSUME TypeOK, [Next]_vars, NEW c \in Clients
  PROVE  Quiet(c) \/ StillBlocked(c) \/ Exceed(c) \/ Admit(c)
<1>1. CASE UNCHANGED vars
  BY <1>1 DEF vars, TypeOK, Quiet
<1>2. CASE Tick
  BY <1>2 DEF Tick, TypeOK, Quiet
<1>3. ASSUME NEW d \in Clients, StillBlocked(d) \/ Exceed(d) \/ Admit(d)
      PROVE  Quiet(c) \/ StillBlocked(c) \/ Exceed(c) \/ Admit(c)
  <2>1. CASE c = d
    BY <1>3, <2>1
  <2>2. CASE c # d
    <3>1. /\ hits'[c] = hits[c] /\ block'[c] = block[c] /\ now' = now
          /\ log'[c] = log[c] /\ admitted'[c] = admitted[c]
      BY <1>3, <2>2 DEF StillBlocked, Exceed, Admit, Answer, TypeOK
    <3>2. QED
      BY <3>1 DEF Quiet, TypeOK
  <2>3. QED
    BY <2>1, <2>2
<1>4. QED
  BY <1>1, <1>2, <1>3 DEF Next

\* Redis keeps its keys in the past and the present.
LEMMA CountedTyped ==
  ASSUME TypeOK, KeysInv, NEW c \in Clients
  PROVE  /\ Counted(c) \in Keys
         /\ Counted(c).value # 0
         /\ Ttl <= Counted(c).expires /\ Counted(c).expires <= now + Ttl
         /\ now <= Counted(c).expires
         /\ \/ /\ hits[c].value # 0
               /\ Counted(c).value = hits[c].value + 1
               /\ Counted(c).expires = hits[c].expires
            \/ /\ hits[c].value = 0 \/ hits[c].expires < now
               /\ Counted(c).value = 1
               /\ Counted(c).expires = now + Ttl
<1>1. /\ hits[c] \in Keys /\ now \in Nat
      /\ hits[c].value \in Nat /\ hits[c].expires \in Nat
  BY DEF TypeOK, Keys
<1>2. CASE Alive(hits[c])
  <2>1. hits[c].value # 0 /\ now <= hits[c].expires
    BY <1>1, <1>2, TtlAssumption DEF Alive, KeysInv, Begun
  <2>2. Counted(c) = [hits[c] EXCEPT !.value = hits[c].value + 1]
    BY <1>2 DEF Counted
  <2>3. /\ Counted(c) \in Keys
        /\ Counted(c).value = hits[c].value + 1
        /\ Counted(c).expires = hits[c].expires
    BY <1>1, <2>2 DEF Keys
  <2>4. QED
    BY <1>1, <2>1, <2>3 DEF KeysInv, Begun
<1>3. CASE ~ Alive(hits[c])
  <2>1. hits[c].value = 0 \/ hits[c].expires < now
    BY <1>1, <1>3 DEF Alive
  <2>2. Counted(c) = [value |-> 1, expires |-> now + Ttl]
    BY <1>3 DEF Counted
  <2>3. QED
    BY <1>1, <2>1, <2>2, TtlAssumption DEF Keys
<1>4. QED
  BY <1>2, <1>3

\* A block is in force until it expires.
LEMMA BlockedUntil ==
  ASSUME TypeOK, KeysInv, NEW c \in Clients
  PROVE  /\ Blocked(c) => /\ block[c].value # 0 /\ now < block[c].expires
                          /\ Pttl(block[c]) = block[c].expires - now
         /\ ~ Blocked(c) => block[c].value = 0 \/ block[c].expires <= now
<1>1. now \in Nat /\ block[c].value \in Nat /\ block[c].expires \in Nat
  BY DEF TypeOK, Keys
<1>2. block[c].value # 0 => block[c].expires # 0
  BY <1>1, TtlAssumption DEF KeysInv, Begun
<1>3. QED
  BY <1>1, <1>2 DEF Blocked, Pttl, Alive

LEMMA SecondsSuffice ==
  ASSUME NEW ms \in Nat
  PROVE  Seconds(ms) \in Nat /\ ms <= Second * Seconds(ms)
<1>1. CASE ms = 0
  BY <1>1, SecondAssumption DEF Seconds
<1>2. CASE ms # 0
  <2> DEFINE a == ms + Second - 1
             q == a \div Second
  <2>1. a \in Nat /\ Second \in Nat /\ Second > 0
    BY SecondAssumption
  <2>2. q \in Int /\ Second * q <= a /\ a < Second * q + Second
    BY <2>1, Z3T(30)
  <2>3. a < Second * (q + 1)
    BY <2>1, SMTT(30)
  <2>4. q >= 0
    BY <2>1, <2>2, <2>3
  <2>5. Seconds(ms) = q
    BY <1>2 DEF Seconds
  <2>6. QED
    BY <2>1, <2>2, <2>4, <2>5
<1>3. QED
  BY <1>1, <1>2

-----------------------------------------------------------------------------
(* Type correctness, with what the keys hold.                               *)

TypeInv == TypeOK /\ KeysInv

\* What a run of the script appends to the log and the hits of its client.
Entry(c, outcomes, exceeds, blockTtl, counter) ==
  \E e \in Answers :
    /\ log'[c] = Append(log[c], e)
    /\ e.at = now /\ e.outcome \in outcomes /\ e.exceeds = exceeds
    /\ e.until = now + blockTtl /\ e.retryAfter = Seconds(blockTtl)
    /\ \/ e.outcome # "admitted" /\ admitted' = admitted
       \/ /\ e.outcome = "admitted"
          /\ admitted' = [admitted EXCEPT ![c] =
               Append(@, [at |-> now, rank |-> counter,
                          start |-> Counted(c).expires - Ttl])]

LEMMA AnswerEntry ==
  ASSUME TypeInv, NEW c \in Clients, NEW isBlocked \in BOOLEAN,
         NEW blockTtl \in Nat, NEW counter \in Nat,
         Answer(c, isBlocked, blockTtl, counter)
  PROVE  /\ Entry(c, IF isBlocked THEN {"refused", "failed"}
                                  ELSE {"admitted", "failed"},
                  counter > Limit, blockTtl, counter)
         /\ log' \in [Clients -> Seq(Answers)]
         /\ admitted' \in [Clients -> Seq(Hits)]
<1>1. PICK outcome \in {IF isBlocked THEN "refused" ELSE "admitted", "failed"} :
        /\ log' = [log EXCEPT ![c] =
             Append(@, [at |-> now, outcome |-> outcome,
                        exceeds |-> counter > Limit, until |-> now + blockTtl,
                        retryAfter |-> Seconds(blockTtl)])]
        /\ admitted' = IF outcome = "admitted"
             THEN [admitted EXCEPT ![c] =
                     Append(@, [at |-> now, rank |-> counter,
                                start |-> Counted(c).expires - Ttl])]
             ELSE admitted
  BY DEF Answer
<1> DEFINE e == [at |-> now, outcome |-> outcome, exceeds |-> counter > Limit,
                 until |-> now + blockTtl, retryAfter |-> Seconds(blockTtl)]
<1>2. now \in Nat /\ log \in [Clients -> Seq(Answers)]
  BY DEF TypeInv, TypeOK
<1>3. e \in Answers
  <2>1. Seconds(blockTtl) \in Nat
    BY SecondsSuffice
  <2>2. outcome \in {"admitted", "refused", "failed"}
    OBVIOUS
  <2>3. now \in Nat /\ now + blockTtl \in Nat
    BY <1>2
  <2>4. (counter > Limit) \in BOOLEAN
    OBVIOUS
  <2> DEFINE more == (counter > Limit)
  <2> HIDE DEF more
  <2>5. [at |-> now, outcome |-> outcome, exceeds |-> more,
         until |-> now + blockTtl, retryAfter |-> Seconds(blockTtl)] \in Answers
    BY <2>1, <2>2, <2>3, <2>4, Zenon DEF Answers, more
  <2>6. QED
    BY <2>5 DEF more
<1>4. log' = [log EXCEPT ![c] = Append(log[c], e)]
  BY <1>1
<1>5. /\ e.at = now /\ e.outcome = outcome /\ e.exceeds = (counter > Limit)
      /\ e.until = now + blockTtl /\ e.retryAfter = Seconds(blockTtl)
  OBVIOUS
<1> HIDE DEF e
<1>6. log'[c] = Append(log[c], e)
  BY <1>2, <1>4
<1> DEFINE outcomes == IF isBlocked THEN {"refused", "failed"} ELSE {"admitted", "failed"}
<1>7. e.outcome \in outcomes
  BY <1>1, <1>5
<1> HIDE DEF outcomes
<1>8. \/ e.outcome # "admitted" /\ admitted' = admitted
      \/ /\ e.outcome = "admitted"
         /\ admitted' = [admitted EXCEPT ![c] =
              Append(@, [at |-> now, rank |-> counter,
                         start |-> Counted(c).expires - Ttl])]
  BY <1>1, <1>5
<1>9. Entry(c, outcomes, counter > Limit, blockTtl, counter)
  BY <1>3, <1>5, <1>6, <1>7, <1>8, Zenon DEF Entry
<1>10. Append(log[c], e) \in Seq(Answers)
  BY <1>2, <1>3
<1>11. admitted' \in [Clients -> Seq(Hits)]
  <2> DEFINE hit == [at |-> now, rank |-> counter, start |-> Counted(c).expires - Ttl]
  <2>1. Counted(c).expires - Ttl \in Int
    BY CountedTyped, TtlAssumption DEF TypeInv, Keys
  <2>2. hit \in Hits
    BY <1>2, <2>1 DEF Hits
  <2>3. admitted \in [Clients -> Seq(Hits)]
    BY DEF TypeInv, TypeOK
  <2>4. Append(admitted[c], hit) \in Seq(Hits)
    BY <2>2, <2>3
  <2> HIDE DEF hit
  <2>5. admitted' = admitted \/ admitted' = [admitted EXCEPT ![c] = Append(admitted[c], hit)]
    BY <1>8 DEF hit
  <2>6. QED
    BY <2>3, <2>4, <2>5
<1>12. log' \in [Clients -> Seq(Answers)]
  BY <1>2, <1>4, <1>10
<1>13. QED
  BY <1>9, <1>11, <1>12 DEF outcomes

\* The three ways the script can go, seen from the entry e it leaves.
Answered(c, e) ==
  /\ e \in Answers
  /\ log'[c] = Append(log[c], e)
  /\ e.at = now /\ now' = now
  /\ e.until >= now /\ e.retryAfter = Seconds(e.until - now)

Keeps(c, e) ==
  /\ block[c].value # 0 /\ now < block[c].expires /\ e.until = block[c].expires
  /\ e.outcome # "admitted"
  /\ hits'[c] = hits[c] /\ block'[c] = block[c] /\ admitted'[c] = admitted[c]

Unblocked(c) == block[c].value = 0 \/ block[c].expires <= now

Blocks(c, e) ==
  /\ Unblocked(c) /\ Counted(c).value > Limit
  /\ e.exceeds /\ e.until = now + Ttl /\ e.outcome # "admitted"
  /\ hits'[c] = Counted(c)
  /\ block'[c].value = 1 /\ block'[c].expires = now + Ttl
  /\ admitted'[c] = admitted[c]

Hit(c) == [at |-> now, rank |-> Counted(c).value,
           start |-> Counted(c).expires - Ttl]

Admits(c, e) ==
  /\ Unblocked(c) /\ Counted(c).value <= Limit
  /\ e.outcome # "refused"
  /\ hits'[c] = Counted(c) /\ block'[c] = block[c]
  /\ \/ e.outcome # "admitted" /\ admitted'[c] = admitted[c]
     \/ admitted'[c] = Append(admitted[c], Hit(c))

LEMMA Script ==
  ASSUME TypeInv, NEW c \in Clients, StillBlocked(c) \/ Exceed(c) \/ Admit(c)
  PROVE  \E e : Answered(c, e) /\ (Keeps(c, e) \/ Blocks(c, e) \/ Admits(c, e))
<1>1. /\ now \in Nat /\ Ttl \in Nat \ {0} /\ Limit \in Nat
      /\ hits \in [Clients -> Keys] /\ block \in [Clients -> Keys]
      /\ admitted \in [Clients -> Seq(Hits)]
      /\ block[c].expires \in Nat /\ Counted(c).value \in Nat
  BY TtlAssumption, LimitAssumption, CountedTyped DEF TypeInv, TypeOK, Keys
<1>2. CASE StillBlocked(c)
  <2> DEFINE wait == Pttl(block[c])
  <2>1. block[c].value # 0 /\ now < block[c].expires /\ wait = block[c].expires - now
    BY <1>2, BlockedUntil DEF StillBlocked, TypeInv
  <2>2. wait \in Nat
    BY <1>1, <2>1
  <2>3. Entry(c, {"refused", "failed"}, 0 > Limit, wait, 0)
    BY <1>2, <2>2, AnswerEntry DEF StillBlocked, TypeInv
  <2>4. PICK e \in Answers :
          /\ log'[c] = Append(log[c], e)
          /\ e.at = now /\ e.outcome \in {"refused", "failed"}
          /\ e.until = now + wait /\ e.retryAfter = Seconds(wait)
          /\ e.outcome # "admitted" /\ admitted' = admitted
    BY <2>3 DEF Entry
  <2>5. e.until = block[c].expires /\ e.until >= now /\ e.until - now = wait
    BY <1>1, <2>1, <2>2, <2>4
  <2>6. Answered(c, e) /\ Keeps(c, e)
    BY <1>2, <2>1, <2>4, <2>5 DEF Answered, Keeps, StillBlocked
  <2>7. QED
    BY <2>6
<1>3. CASE Exceed(c)
  <2>1. Unblocked(c) /\ Counted(c).value > Limit
    BY <1>3, BlockedUntil DEF Exceed, TypeInv, Unblocked
  <2>2. Entry(c, {"refused", "failed"}, Counted(c).value > Limit, Ttl, Counted(c).value)
    BY <1>1, <1>3, AnswerEntry DEF Exceed, TypeInv, BlockDuration
  <2>3. PICK e \in Answers :
          /\ log'[c] = Append(log[c], e)
          /\ e.at = now /\ e.outcome \in {"refused", "failed"}
          /\ e.exceeds = (Counted(c).value > Limit)
          /\ e.until = now + Ttl /\ e.retryAfter = Seconds(Ttl)
          /\ e.outcome # "admitted" /\ admitted' = admitted
    BY <2>2 DEF Entry
  <2>4. e.exceeds
    BY <2>1, <2>3, Zenon
  <2>5. Answered(c, e)
    <3>1. e.until >= now /\ e.until - now = Ttl
      BY <1>1, <2>3
    <3>2. QED
      BY <1>3, <2>3, <3>1 DEF Answered, Exceed
  <2>6. /\ hits'[c] = Counted(c)
        /\ block'[c].value = 1 /\ block'[c].expires = now + Ttl
    BY <1>1, <1>3 DEF Exceed, BlockDuration
  <2>7. Blocks(c, e)
    BY <2>1, <2>3, <2>4, <2>6 DEF Blocks
  <2>8. QED
    BY <2>5, <2>7
<1>4. CASE Admit(c)
  <2>1. Unblocked(c) /\ Counted(c).value <= Limit
    BY <1>1, <1>4, BlockedUntil DEF Admit, TypeInv, Unblocked, BlockDuration
  <2>2. Entry(c, {"admitted", "failed"}, Counted(c).value > Limit, 0, Counted(c).value)
    BY <1>1, <1>4, AnswerEntry DEF Admit, TypeInv
  <2>3. PICK e \in Answers :
          /\ log'[c] = Append(log[c], e)
          /\ e.at = now /\ e.outcome \in {"admitted", "failed"}
          /\ e.until = now + 0 /\ e.retryAfter = Seconds(0)
          /\ \/ e.outcome # "admitted" /\ admitted' = admitted
             \/ admitted' = [admitted EXCEPT ![c] =
                  Append(admitted[c], [at |-> now, rank |-> Counted(c).value,
                                       start |-> Counted(c).expires - Ttl])]
    BY <2>2 DEF Entry
  <2>4. e.until >= now /\ e.until - now = 0
    BY <1>1, <2>3
  <2>5. Answered(c, e)
    BY <1>4, <2>3, <2>4 DEF Answered, Admit
  <2>6. hits'[c] = Counted(c) /\ block'[c] = block[c]
    BY <1>1, <1>4 DEF Admit
  <2>7. \/ e.outcome # "admitted" /\ admitted'[c] = admitted[c]
        \/ admitted'[c] = Append(admitted[c], Hit(c))
    BY <1>1, <2>3 DEF Hit
  <2>8. Admits(c, e)
    BY <2>1, <2>3, <2>6, <2>7 DEF Admits
  <2>9. QED
    BY <2>5, <2>8
<1>5. QED
  BY <1>2, <1>3, <1>4

LEMMA TypeStep ==
  ASSUME TypeInv, [Next]_vars
  PROVE  TypeInv'
<1>1. /\ now \in Nat /\ hits \in [Clients -> Keys] /\ block \in [Clients -> Keys]
      /\ Ttl \in Nat /\ Ttl > 0
  BY TtlAssumption DEF TypeInv, TypeOK
<1>2. CASE UNCHANGED vars \/ Tick
  BY <1>1, <1>2 DEF Tick, vars, TypeInv, TypeOK, KeysInv, Begun, Keys
<1>3. ASSUME NEW c \in Clients, StillBlocked(c) \/ Exceed(c) \/ Admit(c)
      PROVE  TypeInv'
  <2>1. /\ Counted(c) \in Keys
        /\ Ttl <= Counted(c).expires /\ Counted(c).expires <= now + Ttl
        /\ Counted(c).value \in Nat
    BY CountedTyped DEF TypeInv, Keys
  <2>2. now' = now
    BY <1>3 DEF StillBlocked, Exceed, Admit
  <2>3. log' \in [Clients -> Seq(Answers)] /\ admitted' \in [Clients -> Seq(Hits)]
    <3>1. CASE StillBlocked(c)
      <4>1. Pttl(block[c]) \in Nat
        BY <1>1, <3>1, BlockedUntil DEF StillBlocked, TypeInv, Keys
      <4>2. QED
        BY <3>1, <4>1, AnswerEntry DEF StillBlocked
    <3>2. CASE Exceed(c)
      BY <1>1, <2>1, <3>2, AnswerEntry DEF Exceed, BlockDuration
    <3>3. CASE Admit(c)
      BY <1>1, <2>1, <3>3, AnswerEntry DEF Admit
    <3>4. QED
      BY <1>3, <3>1, <3>2, <3>3
  <2>4. hits' = hits \/ hits' = [hits EXCEPT ![c] = Counted(c)]
    BY <1>3 DEF StillBlocked, Exceed, Admit
  <2>5. block' = block \/ block' = [block EXCEPT ![c] = [value |-> 1, expires |-> now + Ttl]]
    BY <1>3 DEF StillBlocked, Exceed, Admit, BlockDuration
  <2>6. hits' \in [Clients -> Keys] /\ block' \in [Clients -> Keys]
    BY <1>1, <2>1, <2>4, <2>5 DEF Keys
  <2>7. ASSUME NEW d \in Clients
        PROVE  Begun(hits[d])' /\ Begun(block[d])'
    <3>1. hits'[d] = hits[d] \/ hits'[d] = Counted(c)
      BY <1>1, <2>4
    <3>2. block'[d] = block[d] \/ (block'[d].value = 1 /\ block'[d].expires = now + Ttl)
      BY <1>1, <2>5
    <3>3. QED
      BY <1>1, <2>1, <2>2, <3>1, <3>2 DEF TypeInv, KeysInv, Begun
  <2>8. QED
    BY <1>1, <2>2, <2>3, <2>6, <2>7 DEF TypeInv, TypeOK, KeysInv
<1>4. QED
  BY <1>2, <1>3 DEF Next

LEMMA TypeInit == Init => TypeInv
  BY DEF Init, TypeInv, TypeOK, KeysInv, Begun, NoKey, Keys

\* The keys, the log and the hits always have their types.
THEOREM TypeCorrect == Spec => []TypeOK
<1>1. TypeInv /\ [Next]_vars => TypeInv'
  BY TypeStep
<1>2. TypeInv => TypeOK
  BY DEF TypeInv
<1>3. QED
  BY <1>1, <1>2, TypeInit, PTL DEF Spec

-----------------------------------------------------------------------------
(* The admitted hits of a client, window by window.                         *)

\* A hit falls into its window, whose first hit opened it.
Sound(h) ==
  /\ h.start \in Nat /\ h.rank \in 1..Limit
  /\ h.start <= h.at /\ h.at <= h.start + Ttl
  /\ h.rank = 1 => h.at = h.start

\* Two hits of one window are n ranks apart; windows do not overlap.
Apart(start, rank, h, n) ==
  \/ h.start = start /\ h.rank + n <= rank
  \/ h.start + Ttl < start

Admissions(c) ==
  LET s == admitted[c] IN
  /\ \A i \in DOMAIN s : Sound(s[i])
  /\ \A i, j \in DOMAIN s : i < j => Apart(s[j].start, s[j].rank, s[i], j - i)
  /\ \A i \in DOMAIN s :
       /\ hits[c].value # 0
       /\ Apart(hits[c].expires - Ttl, hits[c].value, s[i], Len(s) - i)

LEMMA HitTyped ==
  ASSUME TypeInv, NEW c \in Clients, NEW i \in DOMAIN admitted[c]
  PROVE  /\ i \in Nat /\ Len(admitted[c]) \in Nat
         /\ admitted[c][i].start \in Int /\ admitted[c][i].rank \in Nat
         /\ admitted[c][i].at \in Nat
<1>1. admitted[c] \in Seq(Hits)
  BY DEF TypeInv, TypeOK
<1>2. i \in Nat /\ Len(admitted[c]) \in Nat /\ admitted[c][i] \in Hits
  BY <1>1
<1>3. QED
  BY <1>2 DEF Hits

\* The counter that counts the next hit is apart from the hits before it.
LEMMA CountedApart ==
  ASSUME TypeInv, NEW c \in Clients, Admissions(c),
         NEW i \in DOMAIN admitted[c]
  PROVE  Apart(Counted(c).expires - Ttl, Counted(c).value, admitted[c][i],
               Len(admitted[c]) + 1 - i)
<1>1. /\ i \in Nat /\ Len(admitted[c]) \in Nat
      /\ admitted[c][i].start \in Int /\ admitted[c][i].rank \in Nat
  BY HitTyped
<1>2. /\ now \in Nat /\ Ttl \in Nat
      /\ hits[c].value \in Nat /\ hits[c].expires \in Nat
  BY TtlAssumption DEF TypeInv, TypeOK, Keys
<1>3. /\ hits[c].value # 0
      /\ Apart(hits[c].expires - Ttl, hits[c].value, admitted[c][i],
               Len(admitted[c]) - i)
  BY DEF Admissions
<1>4. \/ /\ Counted(c).value = hits[c].value + 1
         /\ Counted(c).expires = hits[c].expires
      \/ /\ hits[c].expires < now
         /\ Counted(c).expires = now + Ttl
  BY <1>3, CountedTyped DEF TypeInv
<1> DEFINE h == admitted[c][i]
           n == Len(admitted[c])
<1>5. CASE /\ Counted(c).value = hits[c].value + 1
           /\ Counted(c).expires = hits[c].expires
  <2>1. CASE h.start + Ttl < hits[c].expires - Ttl
    BY <1>5, <2>1 DEF Apart
  <2>2. CASE h.start = hits[c].expires - Ttl /\ h.rank + (n - i) <= hits[c].value
    <3>1. h.rank + (n + 1 - i) <= hits[c].value + 1
      BY <1>2, <1>1, <2>2
    <3>2. QED
      BY <1>5, <2>2, <3>1 DEF Apart
  <2>3. QED
    BY <1>3, <2>1, <2>2 DEF Apart
<1>6. CASE hits[c].expires < now /\ Counted(c).expires = now + Ttl
  <2>1. h.start + Ttl <= hits[c].expires
    BY <1>2, <1>1, <1>3 DEF Apart
  <2>2. h.start + Ttl < Counted(c).expires - Ttl
    BY <1>2, <1>1, <1>6, <2>1
  <2>3. QED
    BY <2>2 DEF Apart
<1>7. QED
  BY <1>4, <1>5, <1>6

LEMMA HitSound ==
  ASSUME TypeInv, NEW c \in Clients, Counted(c).value <= Limit
  PROVE  Hit(c) \in Hits /\ Sound(Hit(c))
<1>1. /\ now \in Nat /\ Ttl \in Nat /\ Ttl > 0 /\ Limit \in Nat
      /\ Counted(c).value \in Nat /\ Counted(c).expires \in Nat
      /\ Counted(c).value # 0
      /\ Ttl <= Counted(c).expires /\ Counted(c).expires <= now + Ttl
      /\ now <= Counted(c).expires
  BY TtlAssumption, LimitAssumption, CountedTyped DEF TypeInv, TypeOK, Keys
<1>2. Counted(c).value = 1 => Counted(c).expires = now + Ttl
  BY <1>1, CountedTyped DEF TypeInv, TypeOK, Keys
<1>3. /\ Hit(c).at = now /\ Hit(c).rank = Counted(c).value
      /\ Hit(c).start = Counted(c).expires - Ttl
  BY DEF Hit
<1>4. Counted(c).expires - Ttl \in Nat
  BY <1>1
<1>5. Hit(c) \in Hits
  BY <1>1, <1>4 DEF Hit, Hits
<1>6. QED
  BY <1>1, <1>2, <1>3, <1>4, <1>5 DEF Sound

LEMMA AdmissionsStep ==
  ASSUME TypeInv, [Next]_vars, NEW c \in Clients, Admissions(c)
  PROVE  Admissions(c)'
<1> DEFINE s == admitted[c]
<1>1. /\ s \in Seq(Hits) /\ Len(s) \in Nat /\ DOMAIN s = 1..Len(s)
  BY DEF TypeInv, TypeOK
<1>2. CASE Quiet(c)
  BY <1>2 DEF Quiet, Admissions, Sound, Apart
<1>3. ASSUME NEW e, Answered(c, e), Keeps(c, e)
      PROVE  Admissions(c)'
  BY <1>3 DEF Keeps, Admissions, Sound, Apart
<1>4. ASSUME hits'[c] = Counted(c), admitted'[c] = s
      PROVE  Admissions(c)'
  <2>1. Counted(c).value # 0
    BY CountedTyped DEF TypeInv
  <2>2. ASSUME NEW i \in DOMAIN s
        PROVE  Apart(Counted(c).expires - Ttl, Counted(c).value, s[i], Len(s) - i)
    <3>1. s[i].start \in Int /\ s[i].rank \in Nat /\ i \in Nat
      BY HitTyped
    <3>2. Counted(c).value \in Nat
      BY CountedTyped DEF TypeInv, Keys
    <3>3. QED
      BY <1>1, <3>1, <3>2, CountedApart DEF Apart
  <2>3. QED
    BY <1>4, <2>1, <2>2 DEF Admissions, Sound
<1>5. ASSUME Counted(c).value <= Limit,
             hits'[c] = Counted(c), admitted'[c] = Append(s, Hit(c))
      PROVE  Admissions(c)'
  <2> DEFINE t == Append(s, Hit(c))
  <2>1. Hit(c) \in Hits /\ Sound(Hit(c))
    BY <1>5, HitSound
  <2>2. /\ t \in Seq(Hits) /\ Len(t) = Len(s) + 1 /\ DOMAIN t = 1..(Len(s) + 1)
        /\ \A i \in 1..Len(s) : t[i] = s[i]
        /\ t[Len(s) + 1] = Hit(c)
    BY <1>1, <2>1
  <2> HIDE DEF t
  <2>3. /\ Hit(c).start = Counted(c).expires - Ttl
        /\ Hit(c).rank = Counted(c).value
        /\ Counted(c).value \in Nat /\ Counted(c).value # 0
    BY CountedTyped DEF Hit, TypeInv, Keys
  <2>4. \A i \in DOMAIN t : Sound(t[i])
    BY <1>1, <2>1, <2>2 DEF Admissions
  <2>5. \A i \in 1..Len(s) :
          Apart(Counted(c).expires - Ttl, Counted(c).value, s[i], Len(s) + 1 - i)
    BY <1>1, CountedApart
  <2>6. ASSUME NEW i \in DOMAIN t, NEW j \in DOMAIN t, i < j
        PROVE  Apart(t[j].start, t[j].rank, t[i], j - i)
    <3>1. i \in 1..Len(s) /\ j \in Nat
      BY <1>1, <2>2, <2>6
    <3>2. CASE j = Len(s) + 1
      BY <2>2, <2>3, <2>5, <3>1, <3>2
    <3>3. CASE j # Len(s) + 1
      <4>1. j \in 1..Len(s)
        BY <1>1, <2>2, <3>3
      <4>2. QED
        BY <1>1, <2>2, <2>6, <3>1, <4>1 DEF Admissions
    <3>4. QED
      BY <3>2, <3>3
  <2>7. ASSUME NEW i \in DOMAIN t
        PROVE  Apart(Counted(c).expires - Ttl, Counted(c).value, t[i], Len(t) - i)
    <3>1. CASE i = Len(s) + 1
      BY <1>1, <2>1, <2>2, <2>3, <3>1 DEF Apart, Hits
    <3>2. CASE i # Len(s) + 1
      BY <1>1, <2>2, <2>5, <3>2
    <3>3. QED
      BY <3>1, <3>2
  <2>8. QED
    BY <1>5, <2>3, <2>4, <2>6, <2>7 DEF Admissions, Sound, t
<1>6. CASE StillBlocked(c) \/ Exceed(c) \/ Admit(c)
  <2>1. PICK e : Answered(c, e) /\ (Keeps(c, e) \/ Blocks(c, e) \/ Admits(c, e))
    BY <1>6, Script
  <2>2. CASE Keeps(c, e)
    BY <1>3, <2>1, <2>2
  <2>3. CASE Blocks(c, e)
    BY <1>4, <2>3 DEF Blocks
  <2>4. CASE Admits(c, e)
    BY <1>4, <1>5, <2>4 DEF Admits
  <2>5. QED
    BY <2>1, <2>2, <2>3, <2>4
<1>7. QED
  BY <1>2, <1>6, OneClient DEF TypeInv

\* Three hits, the first two Limit - 1 apart and the last beyond them by more
\* than a window has room for.
LEMMA ThreeHits ==
  ASSUME NEW g \in Hits, NEW h \in Hits, NEW k \in Hits, NEW n \in Nat, n >= Limit,
         Sound(g), Sound(h), Sound(k),
         (Limit = 1 /\ g = h) \/ Apart(h.start, h.rank, g, Limit - 1),
         Apart(k.start, k.rank, h, n)
  PROVE  k.at > g.at + Ttl
<1>1. /\ Ttl \in Nat /\ Ttl > 0 /\ Limit \in Nat /\ Limit > 0
      /\ g.at \in Nat /\ h.at \in Nat /\ k.at \in Nat
      /\ g.rank \in Nat /\ h.rank \in Nat /\ k.rank \in Nat
      /\ g.start \in Int /\ h.start \in Int /\ k.start \in Int
  BY TtlAssumption, LimitAssumption DEF Hits
<1>2. /\ g.at <= g.start + Ttl /\ (g.rank = 1 => g.at = g.start)
      /\ 1 <= g.rank /\ 1 <= h.rank /\ g.rank <= Limit /\ h.rank <= Limit
      /\ k.rank <= Limit /\ k.start <= k.at
  BY <1>1 DEF Sound
<1>3. h.start + Ttl < k.start
  BY <1>1, <1>2 DEF Apart
<1>4. g.at <= h.start
  \* The first is of rank 1 if the second is of the same window.
  BY <1>1, <1>2 DEF Apart
<1>5. QED
  BY <1>1, <1>2, <1>3, <1>4

LEMMA BurstFromAdmissions ==
  ASSUME TypeInv, NEW c \in Clients, Admissions(c),
         NEW i \in DOMAIN admitted[c], NEW j \in DOMAIN admitted[c],
         j >= i + 2 * Limit - 1
  PROVE  admitted[c][j].at > admitted[c][i].at + Ttl
<1> DEFINE s == admitted[c]
           m == i + Limit - 1
<1>1. Limit \in Nat /\ Limit > 0 /\ s \in Seq(Hits)
  BY LimitAssumption DEF TypeInv, TypeOK
<1>2. /\ m \in DOMAIN s /\ i <= m /\ m < j /\ m - i = Limit - 1
      /\ j - m \in Nat /\ j - m >= Limit /\ i \in Nat
  BY <1>1
<1>3. s[i] \in Hits /\ s[m] \in Hits /\ s[j] \in Hits
  BY <1>1, <1>2
<1>4. Sound(s[i]) /\ Sound(s[m]) /\ Sound(s[j])
  BY <1>2 DEF Admissions
<1>5. (Limit = 1 /\ s[i] = s[m]) \/ Apart(s[m].start, s[m].rank, s[i], Limit - 1)
  <2>1. CASE Limit = 1
    BY <1>2, <2>1
  <2>2. CASE Limit # 1
    <3>1. i < m
      BY <1>1, <1>2, <2>2
    <3>2. Apart(s[m].start, s[m].rank, s[i], m - i)
      BY <1>2, <3>1 DEF Admissions
    <3>3. QED
      BY <1>2, <3>2
  <2>3. QED
    BY <2>1, <2>2
<1>6. Apart(s[j].start, s[j].rank, s[m], j - m)
  BY <1>2 DEF Admissions
<1> HIDE DEF s, m
<1>7. s[j].at > s[i].at + Ttl
  BY <1>2, <1>3, <1>4, <1>5, <1>6, ThreeHits
<1>8. QED
  BY <1>7 DEF s

AdmissionsInv == TypeInv /\ \A c \in Clients : Admissions(c)

\* Within the length of a window less than twice the limit are admitted.
THEOREM BurstsBounded == Spec => []BurstBounded
<1>1. Init => AdmissionsInv
  BY TypeInit DEF Init, AdmissionsInv, Admissions
<1>2. AdmissionsInv /\ [Next]_vars => AdmissionsInv'
  BY TypeStep, AdmissionsStep DEF AdmissionsInv
<1>3. AdmissionsInv => BurstBounded
  BY BurstFromAdmissions DEF AdmissionsInv, BurstBounded
<1>4. QED
  BY <1>1, <1>2, <1>3, PTL DEF Spec

-----------------------------------------------------------------------------
(* What a refusal owes the client: the block that it announces, no less and *)
(* no more.                                                                 *)

Refused(e) == e.outcome = "refused"

\* The block key outlasts what any refusal announced.
Announced(c) ==
  \A i \in DOMAIN log[c] :
    /\ Refused(log[c][i]) =>
         block[c].value # 0 /\ log[c][i].until <= block[c].expires
    /\ log[c][i].until <= log[c][i].at + Second * log[c][i].retryAfter

\* The counter of a blocked client is gone when its block is.
Outlived(c) ==
  /\ block[c].value # 0 /\ now < block[c].expires =>
       hits[c].expires <= block[c].expires
  /\ log[c] # <<>> /\ Refused(log[c][Len(log[c])]) =>
       /\ block[c].expires = log[c][Len(log[c])].until
       /\ hits[c].expires <= block[c].expires

Served(c) ==
  \A i, j \in DOMAIN log[c] :
    i < j /\ Refused(log[c][i]) /\ log[c][j].outcome = "admitted"
    => log[c][j].at >= log[c][i].until

Released(c) ==
  \A i \in DOMAIN log[c] :
    Refused(log[c][i]) /\ i + 1 \in DOMAIN log[c]
      /\ log[c][i + 1].at > log[c][i].at + Second * log[c][i].retryAfter
    => ~ Refused(log[c][i + 1])

Refusals(c) == Announced(c) /\ Outlived(c) /\ Served(c) /\ Released(c)

\* What a run of the script leaves of the keys of its client.
LEMMA KeysAfter ==
  ASSUME TypeInv, NEW c \in Clients, NEW e, Answered(c, e),
         Keeps(c, e) \/ Blocks(c, e) \/ Admits(c, e)
  PROVE  /\ block[c].value # 0 =>
              block'[c].value # 0 /\ block[c].expires <= block'[c].expires
         /\ Refused(e) => /\ block'[c].value # 0 /\ e.until = block'[c].expires
                          /\ ~ Admits(c, e)
         /\ Blocks(c, e) => hits'[c].expires <= block'[c].expires
<1>1. /\ now \in Nat /\ Ttl \in Nat
      /\ block[c].value \in Nat /\ block[c].expires \in Nat
      /\ Counted(c).expires <= now + Ttl
  BY TtlAssumption, CountedTyped DEF TypeInv, TypeOK, Keys
<1>2. QED
  BY <1>1 DEF Keeps, Blocks, Admits, Unblocked, Refused

LEMMA Grown ==
  ASSUME TypeInv, NEW c \in Clients, NEW e, Answered(c, e)
  PROVE  /\ Len(log[c]) \in Nat /\ DOMAIN log[c] = 1..Len(log[c])
         /\ Len(log'[c]) = Len(log[c]) + 1
         /\ DOMAIN log'[c] = 1..(Len(log[c]) + 1)
         /\ \A i \in 1..Len(log[c]) : log'[c][i] = log[c][i]
         /\ log'[c][Len(log[c]) + 1] = e
<1>1. log[c] \in Seq(Answers) /\ e \in Answers /\ log'[c] = Append(log[c], e)
  BY DEF TypeInv, TypeOK, Answered
<1>2. QED
  BY <1>1

LEMMA EntryTyped ==
  ASSUME TypeInv, NEW c \in Clients, NEW i \in DOMAIN log[c]
  PROVE  /\ log[c][i].at \in Nat /\ log[c][i].until \in Nat
         /\ log[c][i].retryAfter \in Nat
<1>1. log[c] \in Seq(Answers)
  BY DEF TypeInv, TypeOK
<1>2. log[c][i] \in Answers
  BY <1>1
<1>3. QED
  BY <1>2 DEF Answers

LEMMA AnnouncedStep ==
  ASSUME TypeInv, NEW c \in Clients, Announced(c), NEW e, Answered(c, e),
         Keeps(c, e) \/ Blocks(c, e) \/ Admits(c, e)
  PROVE  Announced(c)'
<1>1. /\ e.until \in Nat /\ e.until >= now /\ e.at = now /\ now \in Nat
      /\ e.retryAfter = Seconds(e.until - now)
  BY DEF Answered, Answers, TypeInv, TypeOK
<1>2. e.until <= e.at + Second * e.retryAfter
  <2>1. e.until - now \in Nat
    BY <1>1
  <2>2. e.until - now <= Second * e.retryAfter /\ e.retryAfter \in Nat
    BY <1>1, <2>1, SecondsSuffice
  <2> DEFINE wait == Second * e.retryAfter
  <2>3. wait \in Nat
    BY <2>2, SecondAssumption
  <2> HIDE DEF wait
  <2>4. e.until <= e.at + wait
    BY <1>1, <2>2, <2>3 DEF wait
  <2>5. QED
    BY <2>4 DEF wait
<1>3. ASSUME NEW i \in 1..Len(log[c]), Refused(log[c][i])
      PROVE  block'[c].value # 0 /\ log[c][i].until <= block'[c].expires
  <2>1. /\ block[c].value # 0 /\ log[c][i].until <= block[c].expires
        /\ log[c][i].until \in Nat
    BY <1>3, Grown, EntryTyped DEF Announced
  <2>2. block'[c].value # 0 /\ block[c].expires <= block'[c].expires
    BY <2>1, KeysAfter
  <2>3. block[c].expires \in Nat /\ block'[c].expires \in Nat
    BY <1>1, CountedTyped, TtlAssumption
       DEF TypeInv, TypeOK, Keys, Keeps, Blocks, Admits
  <2>4. QED
    BY <2>1, <2>2, <2>3
<1>4. Refused(e) => block'[c].value # 0 /\ e.until <= block'[c].expires
  BY <1>1, KeysAfter
<1>5. ASSUME NEW i \in DOMAIN log'[c]
      PROVE  /\ Refused(log'[c][i]) =>
                  block'[c].value # 0 /\ log'[c][i].until <= block'[c].expires
             /\ log'[c][i].until <= log'[c][i].at + Second * log'[c][i].retryAfter
  <2>1. CASE i \in 1..Len(log[c])
    BY <1>3, <2>1, Grown DEF Announced
  <2>2. CASE i = Len(log[c]) + 1
    BY <1>2, <1>4, <2>2, Grown
  <2>3. QED
    BY <2>1, <2>2, Grown
<1>6. QED
  BY <1>5 DEF Announced, Refused

LEMMA OutlivedStep ==
  ASSUME TypeInv, NEW c \in Clients, Outlived(c), NEW e, Answered(c, e),
         Keeps(c, e) \/ Blocks(c, e) \/ Admits(c, e)
  PROVE  Outlived(c)'
<1>1. /\ now \in Nat /\ Ttl \in Nat /\ now' = now
      /\ Counted(c).expires \in Nat /\ Counted(c).expires <= now + Ttl
      /\ block[c].expires \in Nat /\ hits[c].expires \in Nat
  BY TtlAssumption, CountedTyped DEF TypeInv, TypeOK, Keys, Answered
<1>2. log'[c] # <<>> /\ log'[c][Len(log'[c])] = e
  BY Grown
<1>3. CASE Keeps(c, e)
  BY <1>1, <1>2, <1>3 DEF Keeps, Outlived, Refused
<1>4. CASE Blocks(c, e)
  BY <1>1, <1>2, <1>4 DEF Blocks, Outlived, Refused
<1>5. CASE Admits(c, e)
  BY <1>1, <1>2, <1>5 DEF Admits, Outlived, Refused, Unblocked
<1>6. QED
  BY <1>3, <1>4, <1>5

LEMMA ServedStep ==
  ASSUME TypeInv, NEW c \in Clients, Announced(c), Served(c),
         NEW e, Answered(c, e), Keeps(c, e) \/ Blocks(c, e) \/ Admits(c, e)
  PROVE  Served(c)'
<1> DEFINE n == Len(log[c])
<1>1. /\ n \in Nat /\ DOMAIN log[c] = 1..n /\ DOMAIN log'[c] = 1..(n + 1)
      /\ \A i \in 1..n : log'[c][i] = log[c][i]
      /\ log'[c][n + 1] = e
  BY Grown
<1> HIDE DEF n
<1>2. ASSUME NEW i \in 1..n, Refused(log[c][i]), e.outcome = "admitted"
      PROVE  e.at >= log[c][i].until
  <2>1. block[c].value # 0 /\ log[c][i].until <= block[c].expires
    BY <1>1, <1>2 DEF Announced
  <2>2. block[c].expires <= now
    BY <1>2, <2>1 DEF Keeps, Blocks, Admits, Unblocked
  <2>3. /\ log[c][i].until \in Nat /\ block[c].expires \in Nat /\ now \in Nat
        /\ e.at = now
    BY <1>1, EntryTyped DEF TypeInv, TypeOK, Keys, Answered
  <2>4. QED
    BY <2>1, <2>2, <2>3
<1>3. ASSUME NEW i \in DOMAIN log'[c], NEW j \in DOMAIN log'[c], i < j,
             Refused(log'[c][i]), log'[c][j].outcome = "admitted"
      PROVE  log'[c][j].at >= log'[c][i].until
  <2>1. i \in 1..n
    BY <1>1, <1>3
  <2>2. CASE j = n + 1
    BY <1>1, <1>2, <1>3, <2>1, <2>2
  <2>3. CASE j # n + 1
    <3>1. j \in 1..n
      BY <1>1, <2>3
    <3>2. QED
      BY <1>1, <1>3, <2>1, <3>1 DEF Served
  <2>4. QED
    BY <2>2, <2>3
<1>4. QED
  BY <1>3 DEF Served, Refused

LEMMA ReleasedStep ==
  ASSUME TypeInv, NEW c \in Clients, Announced(c), Outlived(c), Released(c),
         NEW e, Answered(c, e), Keeps(c, e) \/ Blocks(c, e) \/ Admits(c, e)
  PROVE  Released(c)'
<1> DEFINE n == Len(log[c])
           last == log[c][n]
<1>1. /\ n \in Nat /\ DOMAIN log[c] = 1..n /\ DOMAIN log'[c] = 1..(n + 1)
      /\ \A i \in 1..n : log'[c][i] = log[c][i]
      /\ log'[c][n + 1] = e
  BY Grown
<1>2. ASSUME n # 0, Refused(last), e.at > last.at + Second * last.retryAfter
      PROVE  ~ Refused(e)
  <2>1. /\ block[c].value # 0 /\ block[c].expires = last.until
        /\ hits[c].expires <= block[c].expires
        /\ last.until <= last.at + Second * last.retryAfter
    BY <1>1, <1>2 DEF Announced, Outlived
  <2> DEFINE wait == Second * last.retryAfter
  <2>2. /\ last.at \in Nat /\ last.until \in Nat /\ wait \in Nat
        /\ now \in Nat /\ e.at = now /\ hits[c].expires \in Nat
        /\ block[c].expires \in Nat
    <3>1. last.at \in Nat /\ last.until \in Nat /\ last.retryAfter \in Nat
      BY <1>1, <1>2, EntryTyped
    <3>2. wait \in Nat
      BY <3>1, SecondAssumption
    <3>3. QED
      BY <3>1, <3>2 DEF TypeInv, TypeOK, Keys, Answered
  <2> HIDE DEF wait
  <2>3. block[c].expires < now /\ hits[c].expires < now
    <3>1. last.until <= last.at + wait /\ now > last.at + wait
      BY <1>2, <2>1, <2>2 DEF wait
    <3>2. QED
      BY <2>1, <2>2, <3>1
  <2>4. ~ Keeps(c, e)
    BY <2>2, <2>3 DEF Keeps
  \* The counter of the refusal is gone, so this request is the first of its own.
  <2>5. Counted(c).value = 1
    BY <2>2, <2>3, CountedTyped DEF TypeInv
  <2>6. ~ Blocks(c, e)
    BY <2>5, LimitAssumption DEF Blocks
  <2>7. QED
    BY <2>4, <2>6 DEF Admits, Refused
<1> HIDE DEF n
<1>3. ASSUME NEW i \in DOMAIN log'[c], Refused(log'[c][i]), i + 1 \in DOMAIN log'[c],
             log'[c][i + 1].at > log'[c][i].at + Second * log'[c][i].retryAfter
      PROVE  ~ Refused(log'[c][i + 1])
  <2>1. i \in 1..n
    BY <1>1, <1>3
  <2>2. CASE i = n
    BY <1>1, <1>2, <1>3, <2>1, <2>2
  <2>3. CASE i # n
    <3>1. i + 1 \in 1..n
      BY <1>1, <2>1, <2>3
    <3>2. QED
      BY <1>1, <1>3, <2>1, <3>1 DEF Released
  <2>4. QED
    BY <2>2, <2>3
<1>4. QED
  BY <1>3 DEF Released, Refused

LEMMA RefusalsStep ==
  ASSUME TypeInv, [Next]_vars, NEW c \in Clients, Refusals(c)
  PROVE  Refusals(c)'
<1>1. CASE Quiet(c)
  <2>1. now \in Nat /\ now' \in Nat /\ now <= now' /\ block[c].expires \in Nat
    BY <1>1 DEF Quiet, TypeInv, TypeOK, Keys
  <2>2. Announced(c)' /\ Served(c)' /\ Released(c)'
    BY <1>1 DEF Quiet, Refusals, Announced, Served, Released, Refused
  <2>3. Outlived(c)'
    BY <1>1, <2>1 DEF Quiet, Refusals, Outlived, Refused
  <2>4. QED
    BY <2>2, <2>3 DEF Refusals
<1>2. CASE StillBlocked(c) \/ Exceed(c) \/ Admit(c)
  <2>1. PICK e : Answered(c, e) /\ (Keeps(c, e) \/ Blocks(c, e) \/ Admits(c, e))
    BY <1>2, Script
  <2>2. QED
    BY <2>1, AnnouncedStep, OutlivedStep, ServedStep, ReleasedStep DEF Refusals
<1>3. QED
  BY <1>1, <1>2, OneClient DEF TypeInv

RefusalsInv == TypeInv /\ \A c \in Clients : Refusals(c)

LEMMA RefusalsInvariant == Spec => []RefusalsInv
<1>1. Init => RefusalsInv
  BY TypeInit DEF Init, RefusalsInv, Refusals, Announced, Outlived, Served,
                  Released, NoKey
<1>2. RefusalsInv /\ [Next]_vars => RefusalsInv'
  BY TypeStep, RefusalsStep DEF RefusalsInv
<1>3. QED
  BY <1>1, <1>2, PTL DEF Spec

\* A block is served to its announced end.
THEOREM BlocksServed == Spec => []BlockServed
<1>1. RefusalsInv => BlockServed
  BY DEF RefusalsInv, Refusals, Served, Refused, BlockServed
<1>2. QED
  BY <1>1, RefusalsInvariant, PTL

\* Whoever waits for the announced seconds is not refused again.
THEOREM RetriesReleased == Spec => []RetryAfterSuffices
<1>1. RefusalsInv => RetryAfterSuffices
  BY DEF RefusalsInv, Refusals, Released, Refused, RetryAfterSuffices
<1>2. QED
  BY <1>1, RefusalsInvariant, PTL

-----------------------------------------------------------------------------
(* What a refusal was for.                                                  *)

\* The client's last requests, as many as its counter has, lie in its window.
Windowed(requests, counter) ==
  /\ counter.value <= Len(requests)
  /\ \A k \in DOMAIN requests :
       k > Len(requests) - counter.value =>
         requests[k].at >= counter.expires - Ttl

\* A request that went over the limit: Limit others came within a window of it.
Excess(requests, i) ==
  /\ i \in (Limit + 1)..Len(requests)
  /\ requests[i].exceeds
  /\ requests[i - Limit].at + Ttl >= requests[i].at

\* A block goes back to such a request.
Caused(requests, key) ==
  key.value # 0 =>
    \E i \in DOMAIN requests :
      Excess(requests, i) /\ requests[i].at + Ttl = key.expires

Justified(requests) ==
  \A j \in DOMAIN requests :
    Refused(requests[j]) =>
      \E i \in 1..j : Excess(requests, i) /\ requests[i].at + Ttl >= requests[j].at

Excesses(c) ==
  Windowed(log[c], hits[c]) /\ Caused(log[c], block[c]) /\ Justified(log[c])

LEMMA ExcessKept ==
  ASSUME TypeInv, NEW c \in Clients, NEW e, Answered(c, e),
         NEW i, Excess(log[c], i)
  PROVE  Excess(log'[c], i) /\ log'[c][i] = log[c][i] /\ i \in 1..Len(log[c])
<1>1. Limit \in Nat \ {0}
  BY LimitAssumption
<1>2. /\ i \in (Limit + 1)..Len(log[c]) /\ log[c][i].exceeds
      /\ log[c][i - Limit].at + Ttl >= log[c][i].at
  BY DEF Excess
<1> DEFINE n == Len(log[c])
<1>3. /\ n \in Nat /\ Len(log'[c]) = n + 1
      /\ \A k \in 1..n : log'[c][k] = log[c][k]
  BY Grown
<1>4. i \in (Limit + 1)..n
  BY <1>2
<1> HIDE DEF n
<1>5. i \in 1..n /\ i - Limit \in 1..n /\ i \in (Limit + 1)..(n + 1)
  BY <1>1, <1>3, <1>4
<1>6. log'[c][i] = log[c][i] /\ log'[c][i - Limit] = log[c][i - Limit]
  BY <1>3, <1>5
<1>7. QED
  BY <1>2, <1>3, <1>5, <1>6 DEF Excess, n

LEMMA WindowedStep ==
  ASSUME TypeInv, NEW c \in Clients, Windowed(log[c], hits[c]), NEW e, Answered(c, e),
         Keeps(c, e) \/ Blocks(c, e) \/ Admits(c, e)
  PROVE  Windowed(log'[c], hits'[c])
<1> DEFINE n == Len(log[c])
<1>1. /\ n \in Nat /\ DOMAIN log[c] = 1..n /\ DOMAIN log'[c] = 1..(n + 1)
      /\ Len(log'[c]) = n + 1
      /\ \A i \in 1..n : log'[c][i] = log[c][i]
      /\ log'[c][n + 1] = e
  BY Grown
<1>2. /\ now \in Nat /\ Ttl \in Nat /\ e.at = now
      /\ hits[c].value \in Nat /\ hits[c].expires \in Nat
      /\ Counted(c).value \in Nat /\ Counted(c).expires \in Nat
      /\ Counted(c).expires <= now + Ttl
      /\ hits[c].value # 0 => hits[c].expires <= now + Ttl
  BY TtlAssumption, CountedTyped
     DEF TypeInv, TypeOK, KeysInv, Begun, Keys, Answered
<1>3. /\ hits[c].value <= n
      /\ \A k \in 1..n : k > n - hits[c].value => log[c][k].at >= hits[c].expires - Ttl
  BY <1>1 DEF Windowed
<1> HIDE DEF n
<1>4. ASSUME hits'[c] = hits[c]
      PROVE  Windowed(log'[c], hits'[c])
  <2>1. ASSUME NEW k \in DOMAIN log'[c], k > Len(log'[c]) - hits[c].value
        PROVE  log'[c][k].at >= hits[c].expires - Ttl
    <3>1. CASE k = n + 1
      <4>1. hits[c].value # 0
        BY <1>1, <1>2, <2>1, <3>1
      <4>2. QED
        BY <1>1, <1>2, <3>1, <4>1
    <3>2. CASE k # n + 1
      <4>1. k \in 1..n /\ k > n - hits[c].value
        BY <1>1, <1>2, <2>1, <3>2
      <4>2. QED
        BY <1>1, <1>3, <4>1
    <3>3. QED
      BY <3>1, <3>2
  <2>2. hits[c].value <= Len(log'[c])
    BY <1>1, <1>2, <1>3
  <2>3. QED
    <3>1. Windowed(log'[c], hits[c])
      BY <2>1, <2>2 DEF Windowed
    <3>2. QED
      BY <1>4, <3>1
<1>5. ASSUME hits'[c] = Counted(c)
      PROVE  Windowed(log'[c], hits'[c])
  <2>1. CASE Counted(c).value = hits[c].value + 1 /\ Counted(c).expires = hits[c].expires
    <3>1. ASSUME NEW k \in DOMAIN log'[c], k > Len(log'[c]) - Counted(c).value
          PROVE  log'[c][k].at >= Counted(c).expires - Ttl
      <4>1. CASE k = n + 1
        BY <1>1, <1>2, <2>1, <4>1
      <4>2. CASE k # n + 1
        <5>1. k \in 1..n /\ k > n - hits[c].value
          BY <1>1, <1>2, <2>1, <3>1, <4>2
        <5>2. log'[c][k].at >= hits[c].expires - Ttl
          BY <1>1, <1>3, <5>1
        <5>3. QED
          BY <2>1, <5>2
      <4>3. QED
        BY <4>1, <4>2
    <3>2. Counted(c).value <= Len(log'[c])
      BY <1>1, <1>2, <1>3, <2>1
    <3>3. QED
      <4>1. Windowed(log'[c], Counted(c))
        BY <3>1, <3>2 DEF Windowed
      <4>2. QED
        BY <1>5, <4>1
  <2>2. CASE Counted(c).value = 1 /\ Counted(c).expires = now + Ttl
    BY <1>1, <1>2, <1>5, <2>2 DEF Windowed
  <2>3. QED
    BY <2>1, <2>2, CountedTyped DEF TypeInv
<1>6. QED
  BY <1>4, <1>5 DEF Keeps, Blocks, Admits

\* A request that is blocked for its own excess.
LEMMA BlocksExcess ==
  ASSUME TypeInv, NEW c \in Clients, Windowed(log[c], hits[c]), NEW e, Answered(c, e), Blocks(c, e)
  PROVE  Excess(log'[c], Len(log[c]) + 1)
<1> DEFINE n == Len(log[c])
<1>1. /\ n \in Nat /\ DOMAIN log'[c] = 1..(n + 1) /\ Len(log'[c]) = n + 1
      /\ log'[c][n + 1] = e
  BY Grown
<1>2. /\ now \in Nat /\ Ttl \in Nat /\ e.at = now /\ Limit \in Nat /\ Limit > 0
      /\ Counted(c).value \in Nat /\ Counted(c).expires \in Nat
      /\ now <= Counted(c).expires
      /\ Counted(c).value > Limit /\ hits'[c] = Counted(c) /\ e.exceeds
  BY TtlAssumption, LimitAssumption, CountedTyped
     DEF TypeInv, TypeOK, Keys, Answered, Blocks
<1>3. /\ Counted(c).value <= Len(log'[c])
      /\ \A k \in DOMAIN log'[c] : k > Len(log'[c]) - Counted(c).value =>
           log'[c][k].at >= Counted(c).expires - Ttl
  <2>1. Windowed(log'[c], hits'[c])
    BY WindowedStep
  <2> HIDE DEF n
  <2>2. Windowed(log'[c], Counted(c))
    BY <1>2, <2>1
  <2>3. QED
    BY <2>2 DEF Windowed
<1> HIDE DEF n
<1> DEFINE k == n + 1 - Limit
<1>4. k \in 1..(n + 1) /\ k > n + 1 - Counted(c).value /\ n + 1 \in (Limit + 1)..(n + 1)
  BY <1>1, <1>2, <1>3
<1>5. log'[c][k].at >= Counted(c).expires - Ttl
  <2> HIDE DEF k
  <2>1. DOMAIN log'[c] = 1..(n + 1)
    BY <1>1
  <2>2. Len(log'[c]) = n + 1
    BY <1>1
  <2>3. k \in DOMAIN log'[c]
    BY <1>4, <2>1
  <2>4. k > Len(log'[c]) - Counted(c).value
    <3>1. n \in Nat /\ k \in Int /\ Counted(c).value \in Nat
      BY <1>1, <1>2, <1>4
    <3>2. QED
      BY <1>4, <2>2, <3>1
  <2>5. QED
    BY <1>3, <2>3, <2>4
<1>6. log'[c] \in Seq(Answers)
  BY DEF TypeInv, TypeOK, Answered
<1>7. log'[c][k] \in Answers
  BY <1>1, <1>4, <1>6
<1>8. log'[c][k].at \in Nat
  BY <1>7 DEF Answers
<1> HIDE DEF k
<1>9. log'[c][k].at + Ttl >= e.at
  BY <1>2, <1>5, <1>8
<1>10. Excess(log'[c], n + 1)
  BY <1>1, <1>2, <1>4, <1>9 DEF Excess, k
<1>11. QED
  BY <1>10 DEF n

LEMMA ExcessesStep ==
  ASSUME TypeInv, [Next]_vars, NEW c \in Clients, Excesses(c)
  PROVE  Excesses(c)'
<1>1. CASE Quiet(c)
  BY <1>1 DEF Quiet, Excesses, Windowed, Caused, Justified, Excess, Refused
<1>2. ASSUME NEW e, Answered(c, e), Keeps(c, e) \/ Blocks(c, e) \/ Admits(c, e)
      PROVE  Excesses(c)'
  <2> DEFINE n == Len(log[c])
  <2>1. /\ n \in Nat /\ DOMAIN log[c] = 1..n /\ DOMAIN log'[c] = 1..(n + 1)
        /\ \A i \in 1..n : log'[c][i] = log[c][i]
        /\ log'[c][n + 1] = e
    BY <1>2, Grown
  <2>2. /\ now \in Nat /\ Ttl \in Nat /\ e.at = now /\ block[c].expires \in Nat
    BY <1>2, TtlAssumption DEF TypeInv, TypeOK, Keys, Answered
  <2>3. \A i : Excess(log[c], i) =>
          Excess(log'[c], i) /\ log'[c][i] = log[c][i] /\ i \in 1..n
    BY <1>2, ExcessKept
  <2>4. Blocks(c, e) => Excess(log'[c], n + 1)
    BY <1>2, BlocksExcess DEF Excesses
  <2> HIDE DEF n
  <2>5. Windowed(log'[c], hits'[c])
    BY <1>2, WindowedStep DEF Excesses
  <2>6. Caused(log'[c], block'[c])
    <3>1. CASE Blocks(c, e)
      <4>1. n + 1 \in DOMAIN log'[c] /\ log'[c][n + 1].at + Ttl = block'[c].expires
        BY <2>1, <2>2, <3>1 DEF Blocks
      <4>2. QED
        BY <2>4, <3>1, <4>1 DEF Caused
    <3>2. CASE ~ Blocks(c, e)
      <4>1. block'[c] = block[c]
        BY <1>2, <3>2 DEF Keeps, Admits
      <4>2. QED
        BY <2>1, <2>3, <4>1 DEF Excesses, Caused
    <3>3. QED
      BY <3>1, <3>2
  <2>7. Refused(e) => \E i \in 1..(n + 1) :
                        Excess(log'[c], i) /\ log'[c][i].at + Ttl >= e.at
    <3>1. CASE Keeps(c, e)
      <4>1. PICK i \in DOMAIN log[c] :
              Excess(log[c], i) /\ log[c][i].at + Ttl = block[c].expires
        BY <3>1 DEF Keeps, Excesses, Caused
      <4>2. /\ i \in 1..(n + 1) /\ Excess(log'[c], i)
            /\ log'[c][i].at + Ttl = block[c].expires
        BY <2>1, <2>3, <4>1
      <4>3. block[c].expires >= e.at
        BY <2>2, <3>1 DEF Keeps
      <4>4. QED
        BY <4>2, <4>3
    <3>2. CASE Blocks(c, e)
      BY <2>1, <2>2, <2>4, <3>2
    <3>3. CASE Admits(c, e)
      BY <3>3 DEF Admits, Refused
    <3>4. QED
      BY <1>2, <3>1, <3>2, <3>3
  <2>8. ASSUME NEW j \in DOMAIN log'[c], Refused(log'[c][j])
        PROVE  \E i \in 1..j : Excess(log'[c], i) /\ log'[c][i].at + Ttl >= log'[c][j].at
    <3>1. CASE j = n + 1
      BY <2>1, <2>7, <2>8, <3>1
    <3>2. CASE j # n + 1
      <4>1. j \in 1..n /\ log'[c][j] = log[c][j]
        BY <2>1, <3>2
      <4>2. PICK i \in 1..j : Excess(log[c], i) /\ log[c][i].at + Ttl >= log[c][j].at
        BY <2>1, <2>8, <4>1 DEF Excesses, Justified
      <4>3. QED
        BY <2>3, <4>1, <4>2
    <3>3. QED
      BY <3>1, <3>2
  <2>9. Justified(log'[c])
    BY <2>8 DEF Justified, Refused
  <2>10. QED
    BY <2>5, <2>6, <2>9 DEF Excesses
<1>3. CASE StillBlocked(c) \/ Exceed(c) \/ Admit(c)
  BY <1>2, <1>3, Script
<1>4. QED
  BY <1>1, <1>3, OneClient DEF TypeInv

ExcessesInv == TypeInv /\ \A c \in Clients : Excesses(c)

\* Nobody is refused but for an excess of its own, a window ago at most.
THEOREM RefusalsJustified == Spec => []RefusedForExcess
<1>1. Init => ExcessesInv
  BY TypeInit DEF Init, ExcessesInv, Excesses, Windowed, Caused, Justified, NoKey
<1>2. ExcessesInv /\ [Next]_vars => ExcessesInv'
  BY TypeStep, ExcessesStep DEF ExcessesInv
<1>3. ExcessesInv => RefusedForExcess
  <2> SUFFICES ASSUME ExcessesInv, NEW c \in Clients, NEW j \in DOMAIN log[c],
                      Refused(log[c][j])
               PROVE  \E i \in (Limit + 1)..j :
                        /\ log[c][i].exceeds
                        /\ log[c][i].at + Ttl >= log[c][j].at
                        /\ log[c][i - Limit].at + Ttl >= log[c][i].at
    BY DEF RefusedForExcess, Refused
  <2>1. PICK i \in 1..j : Excess(log[c], i) /\ log[c][i].at + Ttl >= log[c][j].at
    BY DEF ExcessesInv, Excesses, Justified
  <2>2. i \in (Limit + 1)..j
    BY <2>1, LimitAssumption DEF Excess
  <2>3. QED
    BY <2>1, <2>2 DEF Excess
<1>4. QED
  BY <1>1, <1>2, <1>3, PTL DEF Spec
==============================================================================
