----------------------------- MODULE RateLimiter -----------------------------
(***************************************************************************)
(* LLMRateLimiter (core/rate_limiter.py) and `chat', the only caller it    *)
(* has (core/llm_client.py).  The threads of the pool reserve one request  *)
(* and the estimated tokens of a message from two token buckets before     *)
(* they call the provider, and sleep while a bucket is short.              *)
(*                                                                         *)
(* A tick is a second, and a bucket is counted in shares: Minute shares    *)
(* are one request or one token, so that `limit / 60' per second is Limit  *)
(* shares per tick.                                                        *)
(***************************************************************************)
EXTENDS Integers, Sequences, FiniteSets

CONSTANTS
  Callers,   \* threads that call chat
  Limit,     \* rpm and tpm, per bucket
  Minute,    \* ticks in a minute: 60 in the code
  Costs,     \* token estimates a message may have
  Retries,   \* attempts chat makes
  Backoff,   \* seconds it sleeps after each: 2 ** attempt
  MaxChats,  \* bound: calls of chat by all threads
  Horizon    \* bound: when time stops unless somebody sleeps

Buckets == {"req", "tok"}

ASSUME RateAssumption ==
  /\ Limit \in [Buckets -> Nat]
  /\ Minute \in Nat \ {0}
  /\ Costs \subseteq Nat
  /\ Retries \in Nat \ {0}
  /\ Backoff \in [0..(Retries - 1) -> Nat]
  /\ MaxChats \in Nat
  /\ Horizon \in Nat

VARIABLES
  now,      \* time.monotonic()
  tokens,   \* TokenBucket._tokens, in shares
  last,     \* TokenBucket._last
  pc,       \* "idle", at a bucket, or in chat's retry loop
  need,     \* estimate of the message being sent
  wake,     \* when a thread's sleep ends
  tries,    \* attempts of chat that failed
  chats,    \* calls of chat begun
  granted,  \* history: per bucket, what was taken when
  sent      \* history: when a request went to the provider

bucketVars == <<tokens, last, granted>>
chatVars == <<need, tries, chats, sent>>
rateVars == <<now, pc, wake, bucketVars, chatVars>>

Capacity(b) == Limit[b] * Minute

\* A grant, with the bucket's total before and after it.
Grant == [at: Nat, from: Nat, upto: Nat]

Total(b) == IF granted[b] = << >> THEN 0 ELSE granted[b][Len(granted[b])].upto

RateTypeOK ==
  /\ now \in Nat
  /\ tokens \in [Buckets -> Nat]
  /\ \A b \in Buckets : tokens[b] <= Capacity(b)
  /\ last \in [Buckets -> Nat]
  /\ \A b \in Buckets : last[b] <= now
  /\ pc \in [Callers -> Buckets \cup {"idle", "call"}]
  /\ need \in [Callers -> Costs \cup {0}]
  /\ wake \in [Callers -> Nat]
  /\ tries \in [Callers -> 0..Retries]
  /\ chats \in 0..MaxChats
  /\ granted \in [Buckets -> Seq(Grant)]
  /\ sent \in Seq(Nat)

RateInit ==
  /\ now = 0
  /\ tokens = [b \in Buckets |-> Capacity(b)]
  /\ last = [b \in Buckets |-> 0]
  /\ pc = [c \in Callers |-> "idle"]
  /\ need = [c \in Callers |-> 0]
  /\ wake = [c \in Callers |-> 0]
  /\ tries = [c \in Callers |-> 0]
  /\ chats = 0
  /\ granted = [b \in Buckets |-> << >>]
  /\ sent = << >>

-----------------------------------------------------------------------------

\* Mutant: the refill is not cut off at the bucket's capacity.
LevelUncapped(b) == tokens[b] + Limit[b] * (now - last[b])

\* _refill_locked: what the bucket holds once the elapsed time is credited.
Level(b) == LET refilled == tokens[b] + Limit[b] * (now - last[b])
            IN IF refilled < Capacity(b) THEN refilled ELSE Capacity(b)

\* What acquire asks of a bucket: never more than it can ever hold.
Amount(c, b) ==
  LET wanted == Minute * (IF b = "req" THEN 1 ELSE need[c])
  IN IF wanted < Capacity(b) THEN wanted ELSE Capacity(b)

\* Mutant: a bucket that holds exactly the amount is short of it.
EnoughAndMore(c, b) == Level(b) > Amount(c, b)

Enough(c, b) == Level(b) >= Amount(c, b)

\* Nobody notifies the condition: only the timeout ends a wait.
Awake(c) == wake[c] <= now

\* Mutant: a failed attempt credits the elapsed time and does not note it.
CreditAgain(b) == /\ tokens' = [tokens EXCEPT ![b] = Level(b)]
                  /\ UNCHANGED last

Credit(b) == /\ tokens' = [tokens EXCEPT ![b] = Level(b)]
             /\ last' = [last EXCEPT ![b] = now]

StartChat(c) ==
  /\ pc[c] = "idle"
  /\ chats < MaxChats
  /\ chats' = chats + 1
  /\ \E n \in Costs : need' = [need EXCEPT ![c] = n]
  /\ pc' = [pc EXCEPT ![c] = "req"]
  /\ UNCHANGED <<now, wake, bucketVars, tries, sent>>

\* acquire finds enough.  The request is taken before the tokens are waited
\* for, and stays taken meanwhile.
Take(c, b) ==
  /\ pc[c] = b
  /\ Awake(c)
  /\ Enough(c, b)
  /\ tokens' = [tokens EXCEPT ![b] = Level(b) - Amount(c, b)]
  /\ last' = [last EXCEPT ![b] = now]
  /\ granted' = [granted EXCEPT ![b] = Append(@,
       [at |-> now, from |-> Total(b), upto |-> Total(b) + Amount(c, b)])]
  /\ pc' = [pc EXCEPT ![c] = IF b = "req" THEN "tok" ELSE "call"]
  /\ UNCHANGED <<now, wake, chatVars>>

\* Mutant: the thread waits for the whole amount, not for what is missing.
EnoughAfterWhole(c, b, w) ==
  /\ Limit[b] * (w - 1) < Amount(c, b)
  /\ Amount(c, b) <= Limit[b] * w

\* missing / rate, rounded up to a tick.
EnoughAfter(c, b, w) ==
  /\ Level(b) + Limit[b] * (w - 1) < Amount(c, b)
  /\ Amount(c, b) <= Level(b) + Limit[b] * w

\* acquire finds too little, and sleeps for as long as the refill takes; the
\* bucket's lock is free meanwhile and others may take what comes in.
Sleep(c, b) ==
  /\ pc[c] = b
  /\ Awake(c)
  /\ ~ Enough(c, b)
  /\ Credit(b)
  /\ \E w \in 0..Minute : /\ EnoughAfter(c, b, w)
                          /\ wake' = [wake EXCEPT ![c] = now + w]
  /\ UNCHANGED <<now, pc, granted, chatVars>>

\* One attempt of chat, with the provider's answer.  The limiter was asked
\* once, whatever the number of attempts.
Attempt(c) ==
  /\ pc[c] = "call"
  /\ Awake(c)
  /\ sent' = Append(sent, now)
  /\ UNCHANGED <<now, bucketVars, need, chats>>

CallSucceeds(c) ==
  /\ Attempt(c)
  /\ pc' = [pc EXCEPT ![c] = "idle"]
  /\ tries' = [tries EXCEPT ![c] = 0]
  /\ UNCHANGED wake

\* Sleep and try again ...
CallFails(c) ==
  /\ tries[c] + 1 < Retries
  /\ Attempt(c)
  /\ wake' = [wake EXCEPT ![c] = now + Backoff[tries[c]]]
  /\ tries' = [tries EXCEPT ![c] = @ + 1]
  /\ UNCHANGED pc

\* ... or raise the last error.
ChatRaises(c) ==
  /\ tries[c] + 1 >= Retries
  /\ Attempt(c)
  /\ pc' = [pc EXCEPT ![c] = "idle"]
  /\ tries' = [tries EXCEPT ![c] = 0]
  /\ UNCHANGED wake

Tick ==
  /\ now < Horizon \/ \E c \in Callers : ~ Awake(c)
  /\ now' = now + 1
  /\ UNCHANGED <<pc, wake, bucketVars, chatVars>>

ChatGoesOn(c) ==
  \/ \E b \in Buckets : Take(c, b) \/ Sleep(c, b)
  \/ CallSucceeds(c)
  \/ CallFails(c)
  \/ ChatRaises(c)

RateNext == Tick \/ \E c \in Callers : StartChat(c) \/ ChatGoesOn(c)

RateSpec == RateInit /\ [][RateNext]_rateVars

\* Time passes and a thread that is awake runs; nothing obliges anybody to
\* call chat.
RateFairSpec == /\ RateSpec
                /\ WF_rateVars(Tick)
                /\ \A c \in Callers : WF_rateVars(ChatGoesOn(c))

-----------------------------------------------------------------------------

\* What the buckets do promise: in any stretch of time they hand out at most
\* a full bucket and what the rate brings in meanwhile, however the threads
\* sleep, wake and overtake each other.
RateBounded ==
  \A b \in Buckets : \A j \in DOMAIN granted[b] : \A i \in 1..j :
    granted[b][j].upto - granted[b][i].from
      <= Capacity(b) + Limit[b] * (granted[b][j].at - granted[b][i].at)

\* Nobody sleeps through tokens that are there: although nobody notifies the
\* condition, a thread's amount is never in the bucket before its timeout.
NoLostWakeup ==
  \A c \in Callers : pc[c] \in Buckets /\ ~ Awake(c) => ~ Enough(c, pc[c])

\* Every call of chat returns or raises: a message larger than the bucket is
\* asked for the whole bucket only, a limit of zero blocks nobody, and no two
\* threads wait for each other with a request and without tokens.
ChatsReturn == \A c \in Callers : pc[c] # "idle" ~> pc[c] = "idle"

-----------------------------------------------------------------------------
(* Why it holds.                                                           *)

\* Since a grant began, the bucket has handed out and still holds no more
\* than it could then hold and has been credited with since.
BudgetInv ==
  \A b \in Buckets : \A i \in DOMAIN granted[b] :
    /\ granted[b][i].at <= last[b]
    /\ tokens[b] + Total(b) - granted[b][i].from
         <= Capacity(b) + Limit[b] * (last[b] - granted[b][i].at)

\* A tick before a sleeper's timeout the bucket would still be short, if
\* nobody else took anything; others can only make it shorter.
SleepInv ==
  \A c \in Callers :
    /\ pc[c] = "idle" => Awake(c)
    /\ pc[c] \in Buckets /\ ~ Awake(c) =>
         tokens[pc[c]] + Limit[pc[c]] * (wake[c] - 1 - last[pc[c]])
           < Amount(c, pc[c])
=============================================================================
