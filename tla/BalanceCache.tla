---------------------------- MODULE BalanceCache ----------------------------
(***************************************************************************)
(* GET /accounts/{id}/balance of one account (httpapi.getBalance): look in *)
(* Redis, read the ledger on a miss, put what was read into Redis for a    *)
(* TTL.  Nothing deletes the key when the ledger changes the balance.      *)
(* Several requests run at once, and time passes between their steps.      *)
(* Redis is external; it may fail at any call, which the handler ignores.  *)
(***************************************************************************)
EXTENDS Integers

CONSTANTS
    Request,   \* requests being served at the same time
    TTL,       \* cacheTTL, 5 s
    MaxDelay,  \* the longest time from the read of the ledger to the answer
    Horizon,   \* bound on time
    None       \* an empty cache, or no answer yet

ASSUME CacheAssumption == TTL \in Nat \ {0} /\ MaxDelay \in Nat /\ Horizon \in Nat

VARIABLES
    now,
    since,   \* the times at which the balance changed; the last one is current
    cache,   \* the key in Redis: the balance (its time), as_of and the expiry
    pc,      \* the step each request is at
    dto,     \* its dto
    begun    \* when it read the ledger

cacheVars == <<now, since, cache, pc, dto, begun>>

\* A balance is named by the time since which it holds.
Current == CHOOSE t \in since : \A s \in since : s <= t

\* When balance b was replaced; the current one still holds.
HeldUntil(b) ==
    IF b = Current THEN now
    ELSE CHOOSE t \in since : t > b /\ \A s \in since : s > b => t <= s

DTO == [balance : Nat, asOf : Nat, source : {"ledger", "cache"}]

CacheTypeOK ==
    /\ now \in 0 .. Horizon
    /\ since \subseteq 0 .. now /\ 0 \in since
    /\ cache \in {None} \cup [value : DTO, expires : Nat]
    /\ pc \in [Request -> {"get", "query", "stamp", "set", "done"}]
    /\ dto \in [Request -> DTO \cup {None}]
    /\ begun \in [Request -> 0 .. now]

CacheInit ==
    /\ now = 0
    /\ since = {0}
    /\ cache = None
    /\ pc = [r \in Request |-> "get"]
    /\ dto = [r \in Request |-> None]
    /\ begun = [r \in Request |-> 0]

\* Some operation of the ledger changes the balance.
LedgerWrites ==
    /\ now \notin since
    /\ since' = since \cup {now}
    /\ UNCHANGED <<now, cache, pc, dto, begun>>

\* The key exists as long as its TTL has not run out.
Live(entry) == entry # None /\ now < entry.expires

\* Mutant of Get: a hit is handed on as if it had been read from the ledger.
GetAsLedger(r) ==
    /\ pc[r] = "get"
    /\ IF Live(cache)
       THEN /\ pc' = [pc EXCEPT ![r] = "set"]
            /\ dto' = [dto EXCEPT ![r] = cache.value]
            /\ begun' = [begun EXCEPT ![r] = now]
       ELSE pc' = [pc EXCEPT ![r] = "query"] /\ UNCHANGED <<dto, begun>>
    /\ UNCHANGED <<now, since, cache>>

\* cache.Get: a hit is the answer.
Get(r) ==
    /\ pc[r] = "get"
    /\ IF Live(cache)
       THEN /\ pc' = [pc EXCEPT ![r] = "done"]
            /\ dto' = [dto EXCEPT ![r] = [cache.value EXCEPT !.source = "cache"]]
       ELSE pc' = [pc EXCEPT ![r] = "query"] /\ UNCHANGED dto
    /\ UNCHANGED <<now, since, cache, begun>>

\* Redis does not answer, or the bytes are no dto: as a miss.
GetFails(r) ==
    /\ pc[r] = "get"
    /\ pc' = [pc EXCEPT ![r] = "query"]
    /\ UNCHANGED <<now, since, cache, dto, begun>>

\* The select on account_balances.
Query(r) ==
    /\ pc[r] = "query"
    /\ pc' = [pc EXCEPT ![r] = "stamp"]
    /\ dto' = [dto EXCEPT ![r] = [balance |-> Current, asOf |-> 0, source |-> "ledger"]]
    /\ begun' = [begun EXCEPT ![r] = now]
    /\ UNCHANGED <<now, since, cache>>

\* dto.AsOf = time.Now(), once the row has arrived.
Stamp(r) ==
    /\ pc[r] = "stamp"
    /\ pc' = [pc EXCEPT ![r] = "set"]
    /\ dto' = [dto EXCEPT ![r].asOf = now]
    /\ UNCHANGED <<now, since, cache, begun>>

\* cache.Set with the TTL, best effort, and the answer.
Set(r) ==
    /\ pc[r] = "set"
    /\ pc' = [pc EXCEPT ![r] = "done"]
    /\ cache' \in {cache, [value |-> dto[r], expires |-> now + TTL]}
    /\ UNCHANGED <<now, since, dto, begun>>

\* The same goroutine, or another one, serves the next request.
Again(r) ==
    /\ pc[r] = "done"
    /\ pc' = [pc EXCEPT ![r] = "get"]
    /\ dto' = [dto EXCEPT ![r] = None]
    /\ begun' = [begun EXCEPT ![r] = 0]
    /\ UNCHANGED <<now, since, cache>>

\* Time passes.  A request between the ledger and Redis takes at most MaxDelay,
\* and an answer is looked at when it is given.
Tick ==
    /\ now < Horizon
    /\ \A r \in Request : /\ pc[r] \in {"stamp", "set"} => now - begun[r] < MaxDelay
                          /\ pc[r] # "done"
    /\ now' = now + 1
    /\ UNCHANGED <<since, cache, pc, dto, begun>>

CacheNext ==
    \/ LedgerWrites
    \/ \E r \in Request : Get(r)
    \/ \E r \in Request : GetFails(r)
    \/ \E r \in Request : Query(r)
    \/ \E r \in Request : Stamp(r)
    \/ \E r \in Request : Set(r)
    \/ \E r \in Request : Again(r)
    \/ Tick

CacheSpec == CacheInit /\ [][CacheNext]_cacheVars

-----------------------------------------------------------------------------
(* Properties. *)

\* How long ago the balance in an answer was replaced.
Staleness(r) == now - HeldUntil(dto[r].balance)

\* A balance that is shown was the ledger's less than TTL and the time of one
\* request ago, however many requests have filled the cache in whatever order
\* (getBalance never writes what it took from the cache back with a new TTL).
StalenessBounded == \A r \in Request : pc[r] = "done" =>
    /\ Staleness(r) < TTL + MaxDelay
    /\ dto[r].source = "ledger" => Staleness(r) <= MaxDelay

\* The as_of of an answer does not predate the balance it labels, and is later
\* than the balance's end by the time of one request at most: Get keeps the
\* as_of of the request that filled the cache.
AsOfLabelsBalance == \A r \in Request : pc[r] = "done" =>
    /\ dto[r].balance <= dto[r].asOf
    /\ dto[r].asOf <= HeldUntil(dto[r].balance) + MaxDelay

\* A dto read at time t has a balance the ledger had at that time.
ReadAt(d, t) ==
    /\ d \in DTO /\ d.balance \in since
    /\ d.balance <= t /\ t <= HeldUntil(d.balance)

\* A request between the select and the answer has what it read from the ledger
\* no longer than MaxDelay ago, with as_of taken in between.
RequestsRead == \A r \in Request : pc[r] \in {"stamp", "set"} =>
    /\ ReadAt(dto[r], begun[r]) /\ dto[r].source = "ledger"
    /\ now <= begun[r] + MaxDelay
    /\ pc[r] = "set" => begun[r] <= dto[r].asOf /\ dto[r].asOf <= now

\* The key in Redis has a balance of the ledger, a label that fits it, and is
\* gone TTL and the time of one request after the balance was replaced.
CacheLabelled == cache # None =>
    LET d == cache.value IN
    /\ d.balance \in since /\ d.source = "ledger"
    /\ d.balance <= d.asOf /\ d.asOf <= HeldUntil(d.balance) + MaxDelay
    /\ cache.expires <= HeldUntil(d.balance) + MaxDelay + TTL

\* An answer has a balance that the ledger had.
AnswersFromLedger == \A r \in Request : pc[r] = "done" => dto[r] \in DTO /\ dto[r].balance \in since

\* What getBalance shows is recent, and says how recent it is.
CacheInv ==
    /\ CacheTypeOK /\ RequestsRead /\ CacheLabelled /\ AnswersFromLedger
    /\ StalenessBounded /\ AsOfLabelsBalance
=============================================================================
