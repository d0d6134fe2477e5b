----------------------------- MODULE InatProxy -----------------------------
(***************************************************************************)
(* The proxy to iNaturalist, routes/inat.py: an LRU cache with expiry, a   *)
(* semaphore that bounds the calls in flight and a lock that spaces their  *)
(* starts.  A caller is one request; requests are coroutines of one event  *)
(* loop, and a step runs from one await to the next.                       *)
(*                                                                         *)
(* Time is relative: `since` and `quiet` count ticks up to MinInterval, a  *)
(* cache entry and a sleeper count down what they have left.               *)
(***************************************************************************)
EXTENDS Integers, FiniteSets, SequencesExt

CONSTANTS
    Caller,       \* requests that may be open at once
    Url,          \* questions: allowed path and query
    NoUrl,
    Free,         \* nobody holds the pacing lock
    MaxInFlight,  \* MAX_IN_FLIGHT
    MinInterval,  \* MIN_INTERVAL_S, in ticks
    MaxEntries,   \* CACHE_MAX_ENTRIES
    TtlOk,        \* inat_cache_seconds, in ticks
    TtlError      \* the 60 seconds a 4xx is kept, in ticks

ASSUME LimitsArePositive == /\ MaxInFlight \in Nat \ {0}
                            /\ MaxEntries \in Nat \ {0}
ASSUME TimesAreNatural == /\ MinInterval \in Nat
                          /\ TtlOk \in Nat
                          /\ TtlError \in Nat
ASSUME ProxyNullsAreDistinct == NoUrl \notin Url /\ Free \notin Caller
ASSUME CallersAreFinite == IsFiniteSet(Caller)

VARIABLES
    caller,   \* the open requests, with their locals
    slots,    \* the value of _slots
    pace,     \* the holder of _pace
    since,    \* ticks since _last_call
    cache,    \* _cache, least recently used first
    quiet,    \* history: ticks since a call to iNaturalist was last started
    owed      \* history: the answers the cache still owes

vars == <<caller, slots, pace, since, cache, quiet, owed>>

-----------------------------------------------------------------------------
(* The cache.                                                              *)

\* The answers of iNaturalist that are kept, and for how long.
Kept == {"ok", "clientError"}
Ttl(status) == IF status = "ok" THEN TtlOk ELSE TtlError

\* life is the time to expiry; an entry is served until that is negative.
Life == -1 .. (TtlOk + TtlError)
Older(life) == IF life >= 0 THEN life - 1 ELSE life
Entry == [url : Url, life : Life]

Cached(u) == \E k \in DOMAIN cache : cache[k].url = u
Position(u) == CHOOSE k \in DOMAIN cache : cache[k].url = u
Fresh(u) == Cached(u) /\ cache[Position(u)].life >= 0

Forget(u) == IF Cached(u) THEN RemoveAt(cache, Position(u)) ELSE cache

\* Mutation: a hit is not moved to the end.
AfterLookupInPlace(u) == IF Fresh(u) THEN cache ELSE Forget(u)

\* A lookup drops an expired entry and moves a fresh one to the end.
AfterLookup(u) == IF Fresh(u) THEN Append(Forget(u), cache[Position(u)])
                              ELSE Forget(u)

Filled(u, status) == Append(Forget(u), [url |-> u, life |-> Ttl(status)])

\* Mutation: the entry that was just stored makes room.
RememberPopsLast(u, status) ==
    cache' = IF Len(Filled(u, status)) > MaxEntries
             THEN Front(Filled(u, status)) ELSE Filled(u, status)

\* The least recently used entry makes room.
Remember(u, status) ==
    cache' = IF Len(Filled(u, status)) > MaxEntries
             THEN Tail(Filled(u, status)) ELSE Filled(u, status)

-----------------------------------------------------------------------------
(* The history: what the cache owes.                                       *)

\* The last answer to a question, while it is valid and fewer than MaxEntries
\* others were answered or hit since: what is left of its life, and the others.
Debt == [life : Life, others : SUBSET Url]
Nothing == [life |-> -1, others |-> {}]

IsOwed(u) == owed[u].life >= 0
Others(v, u) == owed[v].others \cup {u}
StillOwed(v, u) == IsOwed(v) /\ Cardinality(Others(v, u)) < MaxEntries

\* The question u is answered or hit; its answer has life left.
Use(u, life) ==
    owed' = [v \in Url |->
               IF v = u THEN [life |-> life, others |-> {}]
               ELSE IF StillOwed(v, u)
                    THEN [life |-> owed[v].life, others |-> Others(v, u)]
                    ELSE Nothing]

\* Time passes.
Age ==
    owed' = [u \in Url |-> IF owed[u].life > 0
                           THEN [owed[u] EXCEPT !.life = Older(@)]
                           ELSE Nothing]

-----------------------------------------------------------------------------
(* The requests.                                                           *)

\* "slots" waits for _slots, "pace" for _pace; "sleep" holds both locks and
\* waits out the interval; "fetch" holds a slot and waits for iNaturalist.
Phases == {"idle", "slots", "pace", "sleep", "fetch"}
CallerState == [pc : Phases, url : Url \cup {NoUrl}, nap : 0 .. MinInterval]
Idle == [pc |-> "idle", url |-> NoUrl, nap |-> 0]

InSlot == {c \in Caller : caller[c].pc \in {"pace", "sleep", "fetch"}}
AtUpstream == {c \in Caller : caller[c].pc = "fetch"}

Become(c, state) == caller' = [caller EXCEPT ![c] = state]
Waiting(pc, u, nap) == [pc |-> pc, url |-> u, nap |-> nap]
Move(c, pc) == Become(c, Waiting(pc, caller[c].url, 0))
Respond(c) == Become(c, Idle)

\* A request with the key and an allowed path whose answer is in the cache.
AskHit(c, u) ==
    /\ caller[c].pc = "idle"
    /\ Fresh(u)
    /\ cache' = AfterLookup(u)
    /\ Use(u, cache[Position(u)].life)
    /\ Respond(c)
    /\ UNCHANGED <<slots, pace, since, quiet>>

\* One whose answer is not.
AskMiss(c, u) ==
    /\ caller[c].pc = "idle"
    /\ ~Fresh(u)
    /\ cache' = AfterLookup(u)
    /\ Become(c, Waiting("slots", u, 0))
    /\ UNCHANGED <<slots, pace, since, quiet, owed>>

\* Mutation: the semaphore is not counted down.
TakeSlotUncounted(c) ==
    /\ caller[c].pc = "slots"
    /\ slots > 0
    /\ Move(c, "pace")
    /\ UNCHANGED <<slots, pace, since, cache, quiet, owed>>

TakeSlot(c) ==
    /\ caller[c].pc = "slots"
    /\ slots > 0
    /\ slots' = slots - 1
    /\ Move(c, "pace")
    /\ UNCHANGED <<pace, since, cache, quiet, owed>>

\* Mutation: the wait is slept without the lock.
PaceSleepUnlocked(c) ==
    /\ caller[c].pc = "pace"
    /\ pace = Free
    /\ since < MinInterval
    /\ Become(c, Waiting("sleep", caller[c].url, MinInterval - since))
    /\ UNCHANGED <<slots, pace, since, cache, quiet, owed>>

\* The lock is free but the last call is too recent: sleep with the lock.
PaceSleep(c) ==
    /\ caller[c].pc = "pace"
    /\ pace = Free
    /\ since < MinInterval
    /\ pace' = c
    /\ Become(c, Waiting("sleep", caller[c].url, MinInterval - since))
    /\ UNCHANGED <<slots, since, cache, quiet, owed>>

\* From the end of the wait: note the time, release the lock, look again (a
\* hit returns its slot) and otherwise send the question upstream.
Proceed(c) ==
    /\ since' = 0
    /\ pace' = Free
    /\ cache' = AfterLookup(caller[c].url)
    /\ \/ /\ Fresh(caller[c].url)
          /\ Use(caller[c].url, cache[Position(caller[c].url)].life)
          /\ Respond(c)
          /\ slots' = slots + 1
          /\ UNCHANGED quiet
       \/ /\ ~Fresh(caller[c].url)
          /\ Move(c, "fetch")
          /\ quiet' = 0
          /\ UNCHANGED <<slots, owed>>

PaceNow(c) ==
    /\ caller[c].pc = "pace"
    /\ pace = Free
    /\ since >= MinInterval
    /\ Proceed(c)

\* asyncio.sleep ends at its time or later.
Wake(c) ==
    /\ caller[c].pc = "sleep"
    /\ caller[c].nap = 0
    /\ Proceed(c)

\* iNaturalist answered with a 200 or a 4xx of its own.
Answered(c, status) ==
    /\ caller[c].pc = "fetch"
    /\ slots' = slots + 1
    /\ Remember(caller[c].url, status)
    /\ Use(caller[c].url, Ttl(status))
    /\ Respond(c)
    /\ UNCHANGED <<pace, since, quiet>>

\* Mutation: a failed call keeps its slot.
TroubledLeaky(c) ==
    /\ caller[c].pc = "fetch"
    /\ Respond(c)
    /\ UNCHANGED <<slots, pace, since, cache, quiet, owed>>

\* A 429; or a 5xx, a redirect, too large an answer, a time-out, or another
\* exception of the client.
Troubled(c) ==
    /\ caller[c].pc = "fetch"
    /\ slots' = slots + 1
    /\ Respond(c)
    /\ UNCHANGED <<pace, since, cache, quiet, owed>>

Later(ticks) == IF ticks < MinInterval THEN ticks + 1 ELSE ticks
Nearer(ticks) == IF ticks > 0 THEN ticks - 1 ELSE ticks

Tick ==
    /\ since' = Later(since)
    /\ quiet' = Later(quiet)
    /\ caller' = [c \in Caller |->
                    [caller[c] EXCEPT !.nap = Nearer(caller[c].nap)]]
    /\ cache' = [k \in DOMAIN cache |->
                    [cache[k] EXCEPT !.life = Older(@)]]
    /\ Age
    /\ UNCHANGED <<slots, pace>>

-----------------------------------------------------------------------------
Init ==
    /\ caller = [c \in Caller |-> Idle]
    /\ slots = MaxInFlight
    /\ pace = Free
    /\ since = MinInterval
    /\ cache = <<>>
    /\ quiet = MinInterval
    /\ owed = [u \in Url |-> Nothing]

Next ==
    \/ \E c \in Caller, u \in Url : AskHit(c, u) \/ AskMiss(c, u)
    \/ \E c \in Caller : TakeSlot(c) \/ PaceSleep(c) \/ PaceNow(c) \/ Wake(c)
    \/ \E c \in Caller, status \in Kept : Answered(c, status)
    \/ \E c \in Caller : Troubled(c)
    \/ Tick

Spec == Init /\ [][Next]_vars

\* What a request does once it waits.  A request goes through its phases once,
\* so that it is enough to be fair to all of it together.
Continue(c) ==
    \/ TakeSlot(c) \/ PaceSleep(c) \/ PaceNow(c) \/ Wake(c)
    \/ \E status \in Kept : Answered(c, status)
    \/ Troubled(c)

\* asyncio wakes the waiters of a semaphore and of a lock in the order they
\* came, so nobody is passed over for ever; the client's time-out ends a
\* call; time passes.
Fairness == WF_vars(Tick) /\ \A c \in Caller : SF_vars(Continue(c))

FairSpec == Spec /\ Fairness

-----------------------------------------------------------------------------
(* Properties.                                                             *)

\* Every variable keeps its type (inat.py 47-50 and the locals of inat_proxy).
TypeOK ==
    /\ caller \in [Caller -> CallerState]
    /\ slots \in 0 .. MaxInFlight
    /\ pace \in Caller \cup {Free}
    /\ since \in 0 .. MinInterval
    /\ cache \in Seq(Entry)
    /\ quiet \in 0 .. MinInterval
    /\ owed \in [Url -> Debt]

\* However requests arrive, wait, hit the cache on the second look and fail,
\* no more than MAX_IN_FLIGHT of them are at iNaturalist (inat.py 119-139).
InFlightBounded == Cardinality(AtUpstream) <= MaxInFlight

\* A slot is either free or belongs to exactly one request past the semaphore.
SlotsConserved == slots + Cardinality(InSlot) = MaxInFlight

\* The lock is held by the request that sleeps, and only one sleeps.
PaceHeld == \A c \in Caller : caller[c].pc = "sleep" <=> pace = c

\* A sleeper still has to wait at least what the interval has left.
NapCovers == \A c \in Caller :
                caller[c].pc = "sleep" => since + caller[c].nap >= MinInterval

\* A call upstream counts as the last call.
QuietCovers == quiet >= since

\* A request that is under way knows its question.
AskedKnown == \A c \in Caller : caller[c].pc # "idle" => caller[c].url \in Url

\* The cache holds at most CACHE_MAX_ENTRIES answers and one per question, so
\* that two answers to a question that was fetched twice do not both stay
\* (inat.py 73-77).
CacheSound ==
    /\ Len(cache) <= MaxEntries
    /\ \A j, k \in DOMAIN cache : cache[j].url = cache[k].url => j = k

\* What the cache owes it has, for the life that is left, with nothing behind it
\* that was used before it: an answer is evicted in the order of use.
DebtsCovered ==
    \A u \in Url :
        IsOwed(u) => /\ IsFiniteSet(owed[u].others)
                    /\ Cardinality(owed[u].others) < MaxEntries
                    /\ \E k \in DOMAIN cache :
                         /\ cache[k].url = u /\ cache[k].life = owed[u].life
                         /\ \A j \in DOMAIN cache :
                              j > k => cache[j].url \in owed[u].others

\* The inductive invariant.
IInv == /\ TypeOK
        /\ SlotsConserved
        /\ PaceHeld
        /\ NapCovers
        /\ QuietCovers
        /\ AskedKnown
        /\ CacheSound
        /\ DebtsCovered

\* Two calls to iNaturalist start at least MIN_INTERVAL_S apart, although up
\* to MAX_IN_FLIGHT requests wait for their turn at once (inat.py 121-125).
CallsSpaced ==
    [][\A c \in Caller :
         caller[c].pc # "fetch" /\ caller'[c].pc = "fetch"
            => quiet >= MinInterval]_vars

\* A question is not sent upstream while its last answer is valid and fewer
\* than CACHE_MAX_ENTRIES others were answered or hit since, however long the
\* request waited and whatever others stored, evicted and expired meanwhile
\* (inat.py 61-77, 126-133).
RecentNeverRefetched ==
    [][\A c \in Caller :
         caller[c].pc # "fetch" /\ caller'[c].pc = "fetch"
            => ~IsOwed(caller[c].url)]_vars

\* Every request is answered: no exit of the handler keeps a slot or the lock
\* for itself (inat.py 119-139).
EveryoneAnswered ==
    \A c \in Caller : caller[c].pc # "idle" ~> caller[c].pc = "idle"

-----------------------------------------------------------------------------
(* A statement of the module's docstring.                                  *)

\* "every answer is cached for a while so many panels asking the same question
\* cost iNaturalist one call" (inat.py 10-11).
OneCallPerQuestion ==
    \A c, d \in AtUpstream : caller[c].url = caller[d].url => c = d
=============================================================================
