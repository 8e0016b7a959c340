-------------------------- MODULE RateLimiterProofs --------------------------
(***************************************************************************)
(* Proofs about the token buckets, for all limits, costs and numbers of    *)
(* threads.                                                                *)
(***************************************************************************)
EXTENDS RateLimiter, TLAPS

\* What a rate brings in over two adjoining stretches of time.
LEMMA RateAdds ==
  ASSUME NEW r \in Nat, NEW x \in Int, NEW y \in Int
  PROVE  r * x + r * y = r * (x + y)
  BY Z3

\* A longer stretch brings in no less.
LEMMA RateGrows ==
  ASSUME NEW r \in Nat, NEW x \in Int, NEW y \in Int, x <= y
  PROVE  r * x <= r * y
<1>1. PICK d \in Nat : y = x + d
  BY y - x \in Nat, y = x + (y - x)
<1>2. r * y = r * x + r * d
  BY <1>1, RateAdds
<1>3. r * d \in Nat
  BY <1>1
<1>4. r * x \in Int /\ r * y \in Int
  OBVIOUS
<1> QED
  BY <1>2, <1>3, <1>4

\* A budget kept until `then' is kept until `time', if the bucket was
\* credited with no more than the rate brings in between the two.
LEMMA StillInBudget ==
  ASSUME NEW r \in Nat, NEW cap \in Nat, NEW level \in Nat, NEW before \in Nat,
         NEW total \in Nat, NEW from \in Nat,
         NEW at \in Nat, NEW then \in Nat, NEW time \in Nat,
         before + total - from <= cap + r * (then - at),
         level <= before + r * (time - then)
  PROVE  level + total - from <= cap + r * (time - at)
<1> DEFINE x == then - at
           y == time - then
<1>1. x \in Int /\ y \in Int /\ x + y = time - at
  OBVIOUS
<1>2. r * x + r * y = r * (time - at)
  BY <1>1, RateAdds
<1>3. r * x \in Int /\ r * y \in Int /\ r * (time - at) \in Int
  BY <1>1
<1>4. before + total - from <= cap + r * x /\ level <= before + r * y
  OBVIOUS
<1> HIDE DEF x, y
<1>5. \A p, q, s \in Int :
        /\ before + total - from <= cap + p
        /\ level <= before + q
        /\ p + q = s
        => level + total - from <= cap + s
  OBVIOUS
<1> QED
  BY <1>2, <1>3, <1>4, <1>5

\* Capacities are natural numbers.
LEMMA CapacityTyped ==
  ASSUME NEW b \in Buckets
  PROVE  /\ Limit[b] \in Nat
         /\ Capacity(b) \in Nat
  BY RateAssumption DEF Capacity

\* The credited bucket is between empty and full, and holds no more than it
\* did plus what the elapsed time is worth.
LEMMA LevelBounds ==
  ASSUME RateTypeOK, NEW b \in Buckets
  PROVE  /\ Level(b) \in Nat
         /\ Level(b) <= Capacity(b)
         /\ Level(b) <= tokens[b] + Limit[b] * (now - last[b])
<1>1. tokens[b] \in Nat /\ now - last[b] \in Nat
  BY DEF RateTypeOK
<1>2. Limit[b] * (now - last[b]) \in Nat
  BY <1>1, CapacityTyped
<1> QED
  BY <1>1, <1>2, CapacityTyped DEF Level

\* No thread asks for more than a full bucket.
LEMMA AmountBounds ==
  ASSUME RateTypeOK, NEW c \in Callers, NEW b \in Buckets
  PROVE  /\ Amount(c, b) \in Nat
         /\ Amount(c, b) <= Capacity(b)
<1>0. need[c] \in Nat
  <2>1. need[c] \in Costs \/ need[c] = 0
    BY DEF RateTypeOK
  <2>2. CASE need[c] = 0
    BY <2>2
  <2>3. CASE need[c] \in Costs
    BY <2>3, RateAssumption
  <2> QED
    BY <2>1, <2>2, <2>3
<1>1. (IF b = "req" THEN 1 ELSE need[c]) \in Nat
  BY <1>0
<1>2. Minute * (IF b = "req" THEN 1 ELSE need[c]) \in Nat
  BY <1>1, RateAssumption
<1> QED
  BY <1>2, CapacityTyped DEF Amount

\* The running total of a bucket's grants is a natural number.
LEMMA TotalTyped ==
  ASSUME RateTypeOK, NEW b \in Buckets
  PROVE  Total(b) \in Nat
<1>1. granted[b] \in Seq(Grant)
  BY DEF RateTypeOK
<1>2. CASE granted[b] = << >>
  BY <1>2 DEF Total
<1>3. CASE granted[b] # << >>
  <2>1. Len(granted[b]) \in DOMAIN granted[b]
    BY <1>1, <1>3
  <2>2. granted[b][Len(granted[b])] \in Grant
    BY <1>1, <2>1
  <2> QED
    BY <1>3, <2>2 DEF Total, Grant
<1> QED
  BY <1>2, <1>3

-----------------------------------------------------------------------------

\* Every step keeps the types, and the buckets between empty and full.
LEMMA RateTypeStep == RateTypeOK /\ [RateNext]_rateVars => RateTypeOK'
<1> SUFFICES ASSUME RateTypeOK, [RateNext]_rateVars PROVE RateTypeOK'
  OBVIOUS
<1> USE RateAssumption
<1>1. CASE UNCHANGED rateVars
  BY <1>1 DEF RateTypeOK, rateVars, bucketVars, chatVars, Capacity
<1>2. CASE Tick
  BY <1>2 DEF Tick, RateTypeOK, bucketVars, chatVars, Capacity
<1>3. ASSUME NEW c \in Callers, StartChat(c) PROVE RateTypeOK'
  <2>1. need' \in [Callers -> Costs \cup {0}]
    BY <1>3 DEF StartChat, RateTypeOK
  <2>2. pc' \in [Callers -> Buckets \cup {"idle", "call"}]
    BY <1>3 DEF StartChat, RateTypeOK, Buckets
  <2>3. chats' \in 0..MaxChats
    BY <1>3 DEF StartChat, RateTypeOK
  <2> QED
    BY <1>3, <2>1, <2>2, <2>3 DEF StartChat, RateTypeOK, bucketVars, Capacity
<1>4. ASSUME NEW c \in Callers, NEW b \in Buckets, Take(c, b) PROVE RateTypeOK'
  <2>1. Level(b) - Amount(c, b) \in Nat /\ Level(b) - Amount(c, b) <= Capacity(b)
    BY <1>4, LevelBounds, AmountBounds, CapacityTyped DEF Take, Enough
  <2>2. [at |-> now, from |-> Total(b), upto |-> Total(b) + Amount(c, b)] \in Grant
    <3>1. now \in Nat /\ Total(b) \in Nat /\ Amount(c, b) \in Nat
      BY TotalTyped, AmountBounds DEF RateTypeOK
    <3> QED
      BY <3>1 DEF Grant
  <2>3. granted' \in [Buckets -> Seq(Grant)]
    BY <1>4, <2>2 DEF Take, RateTypeOK
  <2>4. /\ tokens' \in [Buckets -> Nat]
        /\ \A q \in Buckets : tokens'[q] <= Capacity(q)
        /\ last' \in [Buckets -> Nat]
        /\ \A q \in Buckets : last'[q] <= now
    BY <1>4, <2>1 DEF Take, RateTypeOK
  <2>5. pc' \in [Callers -> Buckets \cup {"idle", "call"}]
    BY <1>4 DEF Take, RateTypeOK, Buckets
  <2> QED
    BY <1>4, <2>3, <2>4, <2>5 DEF Take, RateTypeOK, chatVars, Capacity
<1>5. ASSUME NEW c \in Callers, NEW b \in Buckets, Sleep(c, b) PROVE RateTypeOK'
  <2>1. /\ tokens' \in [Buckets -> Nat]
        /\ \A q \in Buckets : tokens'[q] <= Capacity(q)
        /\ last' \in [Buckets -> Nat]
        /\ \A q \in Buckets : last'[q] <= now
    <3>1. /\ tokens' = [tokens EXCEPT ![b] = Level(b)]
          /\ last' = [last EXCEPT ![b] = now]
      BY <1>5 DEF Sleep, Credit
    <3>2. Level(b) \in Nat /\ Level(b) <= Capacity(b)
      BY LevelBounds
    <3> QED
      BY <3>1, <3>2 DEF RateTypeOK
  <2>2. wake' \in [Callers -> Nat]
    <3>1. PICK w \in 0..Minute : wake' = [wake EXCEPT ![c] = now + w]
      BY <1>5 DEF Sleep
    <3> QED
      BY <3>1 DEF RateTypeOK
  <2> QED
    BY <1>5, <2>1, <2>2 DEF Sleep, RateTypeOK, chatVars, Capacity
<1>6. ASSUME NEW c \in Callers, Attempt(c) PROVE sent' \in Seq(Nat)
  BY <1>6 DEF Attempt, RateTypeOK
<1>7. ASSUME NEW c \in Callers, CallSucceeds(c) \/ ChatRaises(c) PROVE RateTypeOK'
  <2>1. pc' \in [Callers -> Buckets \cup {"idle", "call"}]
    BY <1>7 DEF CallSucceeds, ChatRaises, RateTypeOK
  <2>2. tries' \in [Callers -> 0..Retries]
    <3>1. 0 \in 0..Retries
      OBVIOUS
    <3>2. tries' = [tries EXCEPT ![c] = 0]
      BY <1>7 DEF CallSucceeds, ChatRaises
    <3> QED
      BY <3>1, <3>2 DEF RateTypeOK
  <2>3. Attempt(c) /\ UNCHANGED wake
    BY <1>7 DEF CallSucceeds, ChatRaises
  <2> QED
    BY <1>6, <2>1, <2>2, <2>3 DEF Attempt, RateTypeOK, bucketVars, Capacity
<1>8. ASSUME NEW c \in Callers, CallFails(c) PROVE RateTypeOK'
  <2>1. tries[c] \in 0..(Retries - 1) /\ tries[c] + 1 \in 0..Retries
    BY <1>8 DEF CallFails, RateTypeOK
  <2>2. Backoff[tries[c]] \in Nat
    BY <2>1
  <2>3. wake' \in [Callers -> Nat] /\ tries' \in [Callers -> 0..Retries]
    BY <1>8, <2>1, <2>2 DEF CallFails, RateTypeOK
  <2>4. Attempt(c) /\ UNCHANGED pc
    BY <1>8 DEF CallFails
  <2> QED
    BY <1>6, <2>3, <2>4 DEF Attempt, RateTypeOK, bucketVars, Capacity
<1> QED
  BY <1>1, <1>2, <1>3, <1>4, <1>5, <1>7, <1>8 DEF RateNext, ChatGoesOn

\* Both buckets always hold between nothing and their capacity.
THEOREM RateTypeCorrect == RateSpec => []RateTypeOK
<1>1. RateInit => RateTypeOK
  BY RateAssumption, CapacityTyped DEF RateInit, RateTypeOK, Buckets
<1> QED
  BY <1>1, RateTypeStep, PTL DEF RateSpec

-----------------------------------------------------------------------------
(* What the buckets hand out.                                              *)

\* Taking from bucket b keeps its budget since every earlier grant, and
\* starts one for the new grant.
LEMMA TakeInBudget ==
  ASSUME RateTypeOK, BudgetInv, RateBounded,
         NEW c \in Callers, NEW b \in Buckets, Take(c, b)
  PROVE  (BudgetInv /\ RateBounded)'
<1> DEFINE g == granted[b]
           n == Len(g)
           e == [at |-> now, from |-> Total(b), upto |-> Total(b) + Amount(c, b)]
<1>1. /\ g \in Seq(Grant)
      /\ n \in Nat
      /\ DOMAIN g = 1..n
      /\ \A i \in 1..n : g[i].at \in Nat /\ g[i].from \in Nat /\ g[i].upto \in Nat
  <2>1. g \in Seq(Grant)
    BY DEF RateTypeOK
  <2>2. \A i \in 1..n : g[i] \in Grant
    BY <2>1
  <2> QED
    BY <2>1, <2>2 DEF Grant
<1>2. granted' = [granted EXCEPT ![b] = Append(g, e)]
  BY DEF Take
<1>3. /\ granted'[b] = Append(g, e)
      /\ DOMAIN granted'[b] = 1..(n + 1)
      /\ \A i \in 1..n : granted'[b][i] = g[i]
      /\ granted'[b][n + 1] = e
      /\ \A q \in Buckets \ {b} : granted'[q] = granted[q]
  <2>1. e \in Grant
    <3>1. now \in Nat /\ Total(b) \in Nat /\ Amount(c, b) \in Nat
      BY TotalTyped, AmountBounds DEF RateTypeOK
    <3> QED
      BY <3>1 DEF Grant
  <2>2. granted'[b] = Append(g, e) /\ \A q \in Buckets \ {b} : granted'[q] = granted[q]
    BY <1>2 DEF RateTypeOK
  <2> QED
    BY <1>1, <2>1, <2>2
<1>4. Total(b)' = Total(b) + Amount(c, b)
  <2>1. Len(granted'[b]) = n + 1 /\ granted'[b] # << >>
    BY <1>1, <1>3
  <2> QED
    BY <1>3, <2>1 DEF Total
<1>5. /\ tokens'[b] = Level(b) - Amount(c, b)
      /\ last'[b] = now
      /\ \A q \in Buckets \ {b} : tokens'[q] = tokens[q] /\ last'[q] = last[q]
      /\ now' = now
  BY DEF Take, RateTypeOK
<1>6. /\ Level(b) \in Nat /\ Amount(c, b) \in Nat /\ Total(b) \in Nat
      /\ Capacity(b) \in Nat /\ Limit[b] \in Nat /\ now \in Nat
      /\ last[b] \in Nat /\ tokens[b] \in Nat
      /\ Level(b) <= Capacity(b)
      /\ Amount(c, b) <= Level(b)
  BY LevelBounds, AmountBounds, TotalTyped, CapacityTyped
     DEF Take, Enough, RateTypeOK
<1>6b. Level(b) <= tokens[b] + Limit[b] * (now - last[b])
  BY LevelBounds
<1>7. \A i \in 1..n :
        /\ g[i].at <= now
        /\ Level(b) + Total(b) - g[i].from
             <= Capacity(b) + Limit[b] * (now - g[i].at)
  <2> SUFFICES ASSUME NEW i \in 1..n
               PROVE  /\ g[i].at <= now
                      /\ Level(b) + Total(b) - g[i].from
                           <= Capacity(b) + Limit[b] * (now - g[i].at)
    OBVIOUS
  <2>0. g[i].at \in Nat /\ g[i].from \in Nat /\ i \in DOMAIN granted[b]
    BY <1>1
  <2>1. g[i].at <= last[b]
    BY <2>0 DEF BudgetInv
  <2>2. tokens[b] + Total(b) - g[i].from
          <= Capacity(b) + Limit[b] * (last[b] - g[i].at)
    BY <2>0 DEF BudgetInv
  <2>3. last[b] <= now
    BY DEF RateTypeOK
  <2>4. g[i].at <= now
    BY <1>6, <2>0, <2>1, <2>3
  <2>5. Level(b) + Total(b) - g[i].from <= Capacity(b) + Limit[b] * (now - g[i].at)
    BY ONLY <1>6, <1>6b, <2>0, <2>2, StillInBudget
  <2> QED
    BY <2>4, <2>5
<1>8. Limit[b] * (now - now) = 0
  BY <1>6
<1>9. BudgetInv'
  <2> SUFFICES ASSUME NEW q \in Buckets, NEW i \in DOMAIN granted'[q]
               PROVE  /\ granted'[q][i].at <= last'[q]
                      /\ tokens'[q] + Total(q)' - granted'[q][i].from
                           <= Capacity(q) + Limit[q] * (last'[q] - granted'[q][i].at)
    BY DEF BudgetInv, Capacity
  <2>1. CASE q # b
    BY <1>3, <1>5, <2>1 DEF BudgetInv, Total
  <2>2. CASE q = b /\ i \in 1..n
    <3>1. granted'[b][i] = g[i] /\ g[i].from \in Nat /\ g[i].at \in Nat
      BY <1>1, <1>3, <2>2
    <3>2. tokens'[b] + Total(b)' = Level(b) + Total(b)
      BY <1>4, <1>5, <1>6
    <3>3. /\ g[i].at <= now
          /\ Level(b) + Total(b) - g[i].from
               <= Capacity(b) + Limit[b] * (now - g[i].at)
      BY <1>7, <2>2
    <3>4. tokens'[b] + Total(b)' - g[i].from = Level(b) + Total(b) - g[i].from
      BY <1>4, <1>5, <1>6, <3>1
    <3> QED
      BY <1>5, <2>2, <3>1, <3>3, <3>4
  <2>3. CASE q = b /\ i = n + 1
    <3>1. granted'[b][i].at = now /\ granted'[b][i].from = Total(b)
      BY <1>3, <2>3
    <3>2. tokens'[b] + Total(b)' - Total(b) = Level(b)
      BY <1>4, <1>5, <1>6
    <3>3. Level(b) <= Capacity(b) + Limit[b] * (now - now)
      BY <1>6, <1>8
    <3>4. now <= now
      BY <1>6
    <3> QED
      BY <1>5, <2>3, <3>1, <3>2, <3>3, <3>4
  <2> QED
    BY <1>1, <1>3, <2>1, <2>2, <2>3
<1>10. RateBounded'
  <2> SUFFICES ASSUME NEW q \in Buckets, NEW j \in DOMAIN granted'[q], NEW i \in 1..j
               PROVE  granted'[q][j].upto - granted'[q][i].from
                        <= Capacity(q) + Limit[q] * (granted'[q][j].at - granted'[q][i].at)
    BY DEF RateBounded, Capacity
  <2>1. CASE q # b
    BY <1>3, <2>1 DEF RateBounded
  <2>2. CASE q = b /\ j \in 1..n
    <3>1. j \in DOMAIN g /\ i \in 1..n
      BY <1>1, <2>2
    <3>2. granted'[q][j] = g[j] /\ granted'[q][i] = g[i]
      BY <1>3, <2>2, <3>1
    <3>3. g[j].upto - g[i].from <= Capacity(b) + Limit[b] * (g[j].at - g[i].at)
      BY <3>1 DEF RateBounded
    <3> QED
      BY <2>2, <3>2, <3>3, Zenon
  <2>3. CASE q = b /\ j = n + 1 /\ i \in 1..n
    <3>1. g[i].at \in Nat /\ g[i].from \in Nat /\ granted'[b][i] = g[i]
      BY <1>1, <1>3, <2>3
    <3>2. granted'[b][j].at = now /\ granted'[b][j].upto = Total(b) + Amount(c, b)
      BY <1>3, <2>3
    <3>3. Level(b) + Total(b) - g[i].from <= Capacity(b) + Limit[b] * (now - g[i].at)
      BY <1>7, <2>3
    <3>4. now - g[i].at \in Int
      BY <1>6, <3>1
    <3>5. Limit[b] * (now - g[i].at) \in Int
      BY <1>6, <3>4
    <3>6. \A w, f \in Int : Level(b) + Total(b) - f <= Capacity(b) + w
                           => (Total(b) + Amount(c, b)) - f <= Capacity(b) + w
      BY <1>6
    <3>7. (Total(b) + Amount(c, b)) - g[i].from
            <= Capacity(b) + Limit[b] * (now - g[i].at)
      BY <3>1, <3>3, <3>5, <3>6
    <3> QED
      BY <2>3, <3>1, <3>2, <3>7, Zenon
  <2>4. CASE q = b /\ j = n + 1 /\ i = n + 1
    <3>1. /\ granted'[b][j].at = now /\ granted'[b][j].from = Total(b)
          /\ granted'[b][j].upto = Total(b) + Amount(c, b)
      BY <1>3, <2>4
    <3>2. (Total(b) + Amount(c, b)) - Total(b) <= Capacity(b) + Limit[b] * (now - now)
      BY <1>6, <1>8
    <3> QED
      BY <2>4, <3>1, <3>2, Zenon
  <2> QED
    BY <1>1, <1>3, <2>1, <2>2, <2>3, <2>4
<1> QED
  BY <1>9, <1>10

\* A thread that finds too little credits the bucket and takes nothing.
LEMMA SleepInBudget ==
  ASSUME RateTypeOK, BudgetInv,
         NEW c \in Callers, NEW b \in Buckets, Sleep(c, b)
  PROVE  BudgetInv'
<1>1. /\ granted' = granted
      /\ tokens'[b] = Level(b)
      /\ last'[b] = now
      /\ \A q \in Buckets \ {b} : tokens'[q] = tokens[q] /\ last'[q] = last[q]
  BY DEF Sleep, Credit, RateTypeOK
<1>2. /\ Level(b) \in Nat /\ Total(b) \in Nat /\ Capacity(b) \in Nat
      /\ Limit[b] \in Nat /\ now \in Nat /\ last[b] \in Nat /\ tokens[b] \in Nat
      /\ last[b] <= now
  BY LevelBounds, TotalTyped, CapacityTyped DEF RateTypeOK
<1>3. Level(b) <= tokens[b] + Limit[b] * (now - last[b])
  BY LevelBounds
<1> SUFFICES ASSUME NEW q \in Buckets, NEW i \in DOMAIN granted'[q]
             PROVE  /\ granted'[q][i].at <= last'[q]
                    /\ tokens'[q] + Total(q)' - granted'[q][i].from
                         <= Capacity(q) + Limit[q] * (last'[q] - granted'[q][i].at)
  BY DEF BudgetInv, Capacity
<1>4. Total(q)' = Total(q)
  BY <1>1 DEF Total
<1>5. CASE q # b
  BY <1>1, <1>4, <1>5 DEF BudgetInv
<1>6. CASE q = b
  <2>1. granted[b][i].at \in Nat /\ granted[b][i].from \in Nat /\ i \in DOMAIN granted[b]
    <3>1. granted[b] \in Seq(Grant) /\ i \in 1..Len(granted[b])
      BY <1>1, <1>6 DEF RateTypeOK
    <3>2. granted[b][i] \in Grant
      BY <3>1
    <3> QED
      BY <3>1, <3>2 DEF Grant
  <2>2. granted[b][i].at <= last[b]
    BY <2>1 DEF BudgetInv
  <2>3. tokens[b] + Total(b) - granted[b][i].from
          <= Capacity(b) + Limit[b] * (last[b] - granted[b][i].at)
    BY <2>1 DEF BudgetInv
  <2>4. granted[b][i].at <= now
    BY <1>2, <2>1, <2>2
  <2>5. Level(b) + Total(b) - granted[b][i].from
          <= Capacity(b) + Limit[b] * (now - granted[b][i].at)
    BY ONLY <1>2, <1>3, <2>1, <2>3, StillInBudget
  <2> QED
    BY <1>1, <1>4, <1>6, <2>4, <2>5, Zenon
<1> QED
  BY <1>5, <1>6

\* Steps that leave the buckets alone leave the budget alone.
LEMMA BudgetUntouched ==
  ASSUME BudgetInv, RateBounded, UNCHANGED bucketVars
  PROVE  (BudgetInv /\ RateBounded)'
  BY DEF BudgetInv, RateBounded, bucketVars, Total, Capacity

\* Per bucket and for any two grants, what was handed out from the first to
\* the second is at most a full bucket plus the rate over the time between.
THEOREM WindowBound == RateSpec => []RateBounded
<1>1. RateInit => BudgetInv /\ RateBounded
  BY DEF RateInit, BudgetInv, RateBounded, Buckets
<1>2. RateTypeOK /\ BudgetInv /\ RateBounded /\ [RateNext]_rateVars
        => (BudgetInv /\ RateBounded)'
  <2> SUFFICES ASSUME RateTypeOK, BudgetInv, RateBounded, [RateNext]_rateVars
               PROVE  (BudgetInv /\ RateBounded)'
    OBVIOUS
  <2>1. ASSUME NEW c \in Callers, NEW b \in Buckets, Take(c, b)
        PROVE  (BudgetInv /\ RateBounded)'
    BY <2>1, TakeInBudget
  <2>2. ASSUME NEW c \in Callers, NEW b \in Buckets, Sleep(c, b)
        PROVE  (BudgetInv /\ RateBounded)'
    <3>1. RateBounded'
      BY <2>2 DEF Sleep, RateBounded, Capacity
    <3> QED
      BY <2>2, <3>1, SleepInBudget
  <2>3. ASSUME NEW c \in Callers,
               StartChat(c) \/ CallSucceeds(c) \/ CallFails(c) \/ ChatRaises(c)
        PROVE  (BudgetInv /\ RateBounded)'
    <3>1. UNCHANGED bucketVars
      BY <2>3 DEF StartChat, CallSucceeds, CallFails, ChatRaises, Attempt
    <3> QED
      BY <3>1, BudgetUntouched
  <2>4. CASE Tick \/ UNCHANGED rateVars
    <3>1. UNCHANGED bucketVars
      BY <2>4 DEF Tick, rateVars
    <3> QED
      BY <3>1, BudgetUntouched
  <2> QED
    BY <2>1, <2>2, <2>3, <2>4 DEF RateNext, ChatGoesOn
<1> QED
  BY <1>1, <1>2, RateTypeCorrect, PTL DEF RateSpec

-----------------------------------------------------------------------------
(* Nobody oversleeps.                                                      *)

\* A bucket that is still short a tick before a sleeper's timeout is short
\* now.
LEMMA StillShort ==
  ASSUME RateTypeOK, SleepInv
  PROVE  NoLostWakeup
<1> SUFFICES ASSUME NEW c \in Callers, pc[c] \in Buckets, ~ Awake(c)
             PROVE  ~ Enough(c, pc[c])
  BY DEF NoLostWakeup
<1> DEFINE b == pc[c]
           ahead == wake[c] - 1 - last[b]
           gone == now - last[b]
<1>1. /\ wake[c] \in Nat /\ now \in Nat /\ last[b] \in Nat /\ tokens[b] \in Nat
      /\ Limit[b] \in Nat /\ Amount(c, b) \in Nat /\ Level(b) \in Nat
  BY LevelBounds, AmountBounds, CapacityTyped DEF RateTypeOK
<1>2. ahead \in Int /\ gone \in Int /\ gone <= ahead
  BY <1>1 DEF Awake
<1>3. Limit[b] * gone <= Limit[b] * ahead
  BY <1>1, <1>2, RateGrows
<1>4. Limit[b] * gone \in Int /\ Limit[b] * ahead \in Int
  BY <1>1, <1>2
<1>5. tokens[b] + Limit[b] * ahead < Amount(c, b)
  BY DEF SleepInv
<1>6. Level(b) <= tokens[b] + Limit[b] * gone
  BY LevelBounds
<1> HIDE DEF b, ahead, gone
<1>7. \A x, y \in Int : x <= y /\ tokens[b] + y < Amount(c, b)
                           /\ Level(b) <= tokens[b] + x => Level(b) < Amount(c, b)
  BY <1>1
<1>8. Level(b) < Amount(c, b)
  BY <1>3, <1>4, <1>5, <1>6, <1>7
<1> QED
  BY <1>1, <1>8 DEF Enough, b

\* Crediting the bucket now changes nothing for who sleeps there.
LEMMA CreditKeepsShort ==
  ASSUME RateTypeOK, SleepInv, NEW c \in Callers, pc[c] \in Buckets, ~ Awake(c)
  PROVE  Level(pc[c]) + Limit[pc[c]] * (wake[c] - 1 - now) < Amount(c, pc[c])
<1> DEFINE b == pc[c]
           x == now - last[b]
           y == wake[c] - 1 - now
<1>1. /\ wake[c] \in Nat /\ now \in Nat /\ last[b] \in Nat /\ tokens[b] \in Nat
      /\ Limit[b] \in Nat /\ Amount(c, b) \in Nat /\ Level(b) \in Nat
  BY LevelBounds, AmountBounds, CapacityTyped DEF RateTypeOK
<1>2. x \in Int /\ y \in Int /\ x + y = wake[c] - 1 - last[b]
  BY <1>1
<1>3. Limit[b] * x + Limit[b] * y = Limit[b] * (wake[c] - 1 - last[b])
  BY <1>1, <1>2, RateAdds
<1>4. /\ Limit[b] * x \in Int /\ Limit[b] * y \in Int
      /\ Limit[b] * (wake[c] - 1 - last[b]) \in Int
  BY <1>1, <1>2
<1>5. tokens[b] + Limit[b] * (wake[c] - 1 - last[b]) < Amount(c, b)
  BY DEF SleepInv
<1>6. Level(b) <= tokens[b] + Limit[b] * x
  BY LevelBounds
<1> HIDE DEF b, x, y
<1>7. \A p, q, s \in Int :
        /\ p + q = s
        /\ tokens[b] + s < Amount(c, b)
        /\ Level(b) <= tokens[b] + p
        => Level(b) + q < Amount(c, b)
  BY <1>1
<1>8. Level(b) + Limit[b] * y < Amount(c, b)
  BY <1>3, <1>4, <1>5, <1>6, <1>7
<1> QED
  BY <1>8 DEF b, y

\* What thread d takes from a bucket, or only credits, leaves it short for
\* every other thread c that sleeps there.
LEMMA OthersStayShort ==
  ASSUME RateTypeOK, SleepInv,
         NEW c \in Callers, pc[c] \in Buckets, ~ Awake(c),
         NEW b \in Buckets, NEW taken \in Nat,
         tokens' = [tokens EXCEPT ![b] = Level(b) - taken],
         last' = [last EXCEPT ![b] = now]
  PROVE  tokens'[pc[c]] + Limit[pc[c]] * (wake[c] - 1 - last'[pc[c]])
           < Amount(c, pc[c])
<1>1. CASE pc[c] # b
  BY <1>1 DEF SleepInv, RateTypeOK
<1>2. CASE pc[c] = b
  <2>1. tokens'[b] = Level(b) - taken /\ last'[b] = now
    BY DEF RateTypeOK
  <2>2. Level(b) \in Nat /\ Amount(c, b) \in Nat /\ Limit[b] \in Nat
        /\ wake[c] - 1 - now \in Int
    <3>1. wake[c] \in Nat /\ now \in Nat
      BY DEF RateTypeOK
    <3> QED
      BY <3>1, LevelBounds, AmountBounds, CapacityTyped
  <2>3. Limit[b] * (wake[c] - 1 - now) \in Int
    BY <2>2
  <2>4. Level(b) + Limit[b] * (wake[c] - 1 - now) < Amount(c, b)
    BY <1>2, CreditKeepsShort
  <2>5. \A w \in Int : Level(b) + w < Amount(c, b)
                         => (Level(b) - taken) + w < Amount(c, b)
    BY <2>2
  <2>6. (Level(b) - taken) + Limit[b] * (wake[c] - 1 - now) < Amount(c, b)
    BY <2>3, <2>4, <2>5
  <2> QED
    BY <1>2, <2>1, <2>6, Zenon
<1> QED
  BY <1>1, <1>2

\* A thread that goes to sleep would still be short a tick before it wakes.
LEMMA SleeperShort ==
  ASSUME RateTypeOK, NEW c \in Callers, NEW b \in Buckets, Sleep(c, b)
  PROVE  tokens'[b] + Limit[b] * (wake'[c] - 1 - last'[b]) < Amount(c, b)
<1>1. tokens'[b] = Level(b) /\ last'[b] = now
  BY DEF Sleep, Credit, RateTypeOK
<1>2. PICK w \in 0..Minute : /\ EnoughAfter(c, b, w)
                              /\ wake' = [wake EXCEPT ![c] = now + w]
  BY DEF Sleep
<1>3. w \in Int
  BY <1>2, RateAssumption
<1>4. wake'[c] - 1 - now = w - 1
  <2>1. wake'[c] = now + w /\ now \in Nat
    BY <1>2 DEF RateTypeOK
  <2> QED
    BY <1>3, <2>1
<1>5. Level(b) + Limit[b] * (w - 1) < Amount(c, b)
  BY <1>2 DEF EnoughAfter
<1> QED
  BY <1>1, <1>4, <1>5, Zenon

\* Every step keeps the sleepers' timeouts right.
LEMMA SleepStep == RateTypeOK /\ SleepInv /\ [RateNext]_rateVars => SleepInv'
<1> SUFFICES ASSUME RateTypeOK, SleepInv, [RateNext]_rateVars,
                    NEW x \in Callers
             PROVE  /\ (pc[x] = "idle" => Awake(x))'
                    /\ (pc[x] \in Buckets /\ ~ Awake(x) =>
                          tokens[pc[x]] + Limit[pc[x]] * (wake[x] - 1 - last[pc[x]])
                            < Amount(x, pc[x]))'
  BY DEF SleepInv
<1> DEFINE Goal == /\ (pc[x] = "idle" => Awake(x))'
                   /\ (pc[x] \in Buckets /\ ~ Awake(x) =>
                         tokens[pc[x]] + Limit[pc[x]] * (wake[x] - 1 - last[pc[x]])
                           < Amount(x, pc[x]))'
<1>1. CASE UNCHANGED rateVars
  BY <1>1 DEF SleepInv, rateVars, bucketVars, chatVars, Awake, Amount, Capacity
<1>2. CASE Tick
  <2>1. /\ now' = now + 1 /\ now \in Nat /\ wake[x] \in Nat
        /\ pc' = pc /\ wake' = wake /\ tokens' = tokens /\ last' = last
        /\ need' = need
    BY <1>2 DEF Tick, bucketVars, chatVars, RateTypeOK
  <2>2. Awake(x) => Awake(x)'
    BY <2>1 DEF Awake
  <2> QED
    BY <2>1, <2>2 DEF SleepInv, Amount, Capacity
<1>3. ASSUME NEW c \in Callers, StartChat(c) PROVE Goal
  <2>1. /\ tokens' = tokens /\ last' = last /\ wake' = wake /\ now' = now
        /\ pc' = [pc EXCEPT ![c] = "req"] /\ pc[c] = "idle"
        /\ x # c => need'[x] = need[x]
    BY <1>3 DEF StartChat, bucketVars, RateTypeOK
  <2>2. CASE x = c
    BY <2>1, <2>2 DEF SleepInv, Awake, RateTypeOK
  <2>3. CASE x # c
    BY <2>1, <2>3 DEF SleepInv, Awake, Amount, Capacity, RateTypeOK
  <2> QED
    BY <2>2, <2>3
<1>4. ASSUME NEW c \in Callers, NEW b \in Buckets, Take(c, b) PROVE Goal
  <2>1. /\ tokens' = [tokens EXCEPT ![b] = Level(b) - Amount(c, b)]
        /\ last' = [last EXCEPT ![b] = now]
        /\ wake' = wake /\ now' = now /\ need' = need
        /\ pc' = [pc EXCEPT ![c] = IF b = "req" THEN "tok" ELSE "call"]
        /\ Awake(c)
    BY <1>4 DEF Take, chatVars
  <2>2. CASE x = c
    BY <2>1, <2>2 DEF Awake, RateTypeOK
  <2>3. CASE x # c
    <3>1. pc'[x] = pc[x] /\ (Awake(x)' <=> Awake(x))
      BY <2>1, <2>3 DEF Awake, RateTypeOK
    <3>2. Amount(x, pc[x])' = Amount(x, pc[x])
      BY <2>1, <3>1 DEF Amount, Capacity
    <3>3. ASSUME pc[x] \in Buckets, ~ Awake(x)
          PROVE  tokens'[pc[x]] + Limit[pc[x]] * (wake[x] - 1 - last'[pc[x]])
                   < Amount(x, pc[x])
      BY <2>1, <3>3, OthersStayShort, AmountBounds
    <3> QED
      BY <2>1, <3>1, <3>2, <3>3 DEF SleepInv
  <2> QED
    BY <2>2, <2>3
<1>5. ASSUME NEW c \in Callers, NEW b \in Buckets, Sleep(c, b) PROVE Goal
  <2>1. /\ tokens' = [tokens EXCEPT ![b] = Level(b)]
        /\ last' = [last EXCEPT ![b] = now]
        /\ now' = now /\ need' = need /\ pc' = pc /\ pc[c] = b
        /\ x # c => wake'[x] = wake[x]
    <3>1. \E w \in 0..Minute : wake' = [wake EXCEPT ![c] = now + w]
      BY <1>5 DEF Sleep
    <3> QED
      BY <1>5, <3>1 DEF Sleep, Credit, chatVars, RateTypeOK
  <2>2. Amount(x, pc[x])' = Amount(x, pc[x])
    BY <2>1 DEF Amount, Capacity
  <2>3. CASE x = c
    <3>1. tokens'[b] + Limit[b] * (wake'[c] - 1 - last'[b]) < Amount(c, b)
      BY <1>5, SleeperShort
    <3>2. pc'[x] = b /\ b # "idle"
      BY <2>1, <2>3 DEF Buckets
    <3> QED
      BY <2>1, <2>2, <2>3, <3>1, <3>2
  <2>4. CASE x # c
    <3>1. Awake(x)' <=> Awake(x)
      BY <2>1, <2>4 DEF Awake
    <3>2. ASSUME pc[x] \in Buckets, ~ Awake(x)
          PROVE  tokens'[pc[x]] + Limit[pc[x]] * (wake[x] - 1 - last'[pc[x]])
                   < Amount(x, pc[x])
      <4>1. Level(b) = Level(b) - 0
        BY LevelBounds
      <4> QED
        BY <2>1, <3>2, <4>1, OthersStayShort
    <3> QED
      BY <2>1, <2>2, <2>4, <3>1, <3>2 DEF SleepInv
  <2> QED
    BY <2>3, <2>4
<1>6. ASSUME NEW c \in Callers, CallSucceeds(c) \/ ChatRaises(c) \/ CallFails(c)
      PROVE  Goal
  <2>1. /\ tokens' = tokens /\ last' = last /\ now' = now /\ need' = need
        /\ pc[c] = "call" /\ Awake(c) /\ pc'[c] \in {"idle", "call"}
        /\ pc'[c] = "idle" => wake' = wake
        /\ x # c => pc'[x] = pc[x] /\ wake'[x] = wake[x]
    BY <1>6 DEF CallSucceeds, ChatRaises, CallFails, Attempt, bucketVars, RateTypeOK
  <2>2. CASE x = c
    BY <2>1, <2>2 DEF Awake, Buckets
  <2>3. CASE x # c
    BY <2>1, <2>3 DEF SleepInv, Awake, Amount, Capacity
  <2> QED
    BY <2>2, <2>3
<1> QED
  BY <1>1, <1>2, <1>3, <1>4, <1>5, <1>6 DEF RateNext, ChatGoesOn

\* No thread sleeps on while the bucket holds what it asked for, for all
\* limits and costs and however the others take from the bucket meanwhile.
THEOREM NobodyOversleeps == RateSpec => []NoLostWakeup
<1>1. RateInit => SleepInv
  BY DEF RateInit, SleepInv, Awake, Buckets
<1> QED
  BY <1>1, SleepStep, StillShort, RateTypeCorrect, PTL DEF RateSpec
=============================================================================
