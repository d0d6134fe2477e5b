-------------------------- MODULE InatProxyProofs --------------------------
(* The invariant of InatProxy and what follows from it, for every number   *)
(* of requests, questions, slots and entries and every interval.           *)
EXTENDS InatProxy, FiniteSetTheorems, SequenceTheorems, TLAPS

USE LimitsArePositive, TimesAreNatural, ProxyNullsAreDistinct, CallersAreFinite

-----------------------------------------------------------------------------
(* The cache.                                                              *)

\* A sequence of entries stays one, with its order, when one is taken out.
LEMMA RemoveOne ==
    ASSUME NEW s \in Seq(Entry), NEW k \in DOMAIN s
    PROVE  /\ RemoveAt(s, k) \in Seq(Entry)
           /\ Len(RemoveAt(s, k)) = Len(s) - 1
           /\ \A j \in 1 .. Len(s) - 1 :
                RemoveAt(s, k)[j] = IF j < k THEN s[j] ELSE s[j + 1]
<1> DEFINE before == SubSeq(s, 1, k - 1)
           after == SubSeq(s, k + 1, Len(s))
<1>1. k \in 1 .. Len(s) /\ Len(s) \in Nat
  OBVIOUS
<1>2. before \in Seq(Entry) /\ Len(before) = k - 1
      /\ \A j \in 1 .. k - 1 : before[j] = s[j]
  BY <1>1
<1>3. after \in Seq(Entry) /\ Len(after) = Len(s) - k
      /\ \A j \in 1 .. Len(s) - k : after[j] = s[k + j]
  BY <1>1
<1>4. RemoveAt(s, k) = before \o after
  BY DEF RemoveAt
<1> HIDE DEF before, after
<1>5. /\ before \o after \in Seq(Entry)
      /\ Len(before \o after) = Len(before) + Len(after)
  BY <1>2, <1>3, ConcatProperties
<1>6. ASSUME NEW j \in 1 .. Len(s) - 1
      PROVE  (before \o after)[j] = IF j < k THEN s[j] ELSE s[j + 1]
  <2>1. (before \o after)[j] = IF j <= Len(before) THEN before[j]
                                                   ELSE after[j - Len(before)]
    BY <1>1, <1>2, <1>3
  <2>2. CASE j < k
    BY <1>1, <1>2, <2>1, <2>2
  <2>3. CASE ~(j < k)
    <3>1. j - (k - 1) \in 1 .. Len(s) - k /\ k + (j - (k - 1)) = j + 1
      BY <1>1, <2>3
    <3>2. after[j - (k - 1)] = s[j + 1]
      BY <1>3, <3>1
    <3>3. ~(j <= Len(before))
      BY <1>1, <1>2, <2>3
    <3> QED
      BY <1>2, <2>1, <2>3, <3>2, <3>3
  <2> QED
    BY <2>2, <2>3
<1>7. (k - 1) + (Len(s) - k) = Len(s) - 1
  BY <1>1
<1> QED
  BY <1>2, <1>3, <1>4, <1>5, <1>6, <1>7

\* Where the entry of a cached question is.
LEMMA PositionFound ==
    ASSUME NEW u, Cached(u)
    PROVE  Position(u) \in DOMAIN cache /\ cache[Position(u)].url = u
BY DEF Cached, Position

\* Forget(u) is a sound cache without u.
LEMMA ForgetSound ==
    ASSUME cache \in Seq(Entry), CacheSound, NEW u \in Url
    PROVE  /\ Forget(u) \in Seq(Entry)
           /\ Len(Forget(u)) <= Len(cache)
           /\ Cached(u) => Len(Forget(u)) = Len(cache) - 1
           /\ \A k \in DOMAIN Forget(u) : Forget(u)[k].url # u
           /\ \A j, k \in DOMAIN Forget(u) :
                Forget(u)[j].url = Forget(u)[k].url => j = k
<1>1. CASE ~Cached(u)
  BY <1>1 DEF Forget, Cached, CacheSound
<1>2. CASE Cached(u)
  <2> DEFINE k == Position(u)
             s == Forget(u)
  <2>1. k \in DOMAIN cache /\ cache[k].url = u
    BY <1>2, PositionFound
  <2>2. s = RemoveAt(cache, k)
    BY <1>2 DEF Forget
  <2> HIDE DEF k, s
  <2>3. /\ s \in Seq(Entry) /\ Len(s) = Len(cache) - 1
        /\ \A j \in 1 .. Len(cache) - 1 :
             s[j] = IF j < k THEN cache[j] ELSE cache[j + 1]
    BY <2>1, <2>2, RemoveOne
  <2>4. \A i, j \in 1 .. Len(cache) : cache[i].url = cache[j].url => i = j
    BY DEF CacheSound
  <2>5. k \in 1 .. Len(cache) /\ DOMAIN s = 1 .. Len(cache) - 1 /\ Len(cache) \in Nat
    BY <2>1, <2>3
  <2>6. ASSUME NEW j \in DOMAIN s
        PROVE  s[j].url # u
    <3>1. CASE j < k
      BY <2>1, <2>3, <2>4, <2>5, <3>1
    <3>2. CASE ~(j < k)
      BY <2>1, <2>3, <2>4, <2>5, <3>2
    <3> QED BY <3>1, <3>2
  <2>7. ASSUME NEW i \in DOMAIN s, NEW j \in DOMAIN s, s[i].url = s[j].url
        PROVE  i = j
    <3>1. PICK a \in 1 .. Len(cache) :
             s[i] = cache[a] /\ a = IF i < k THEN i ELSE i + 1
      BY <2>3, <2>5
    <3>2. PICK b \in 1 .. Len(cache) :
             s[j] = cache[b] /\ b = IF j < k THEN j ELSE j + 1
      BY <2>3, <2>5
    <3>3. a = b
      BY <2>4, <2>7, <3>1, <3>2
    <3> QED BY <2>5, <3>1, <3>2, <3>3
  <2> QED
    BY <2>3, <2>6, <2>7 DEF s
<1> QED
  BY <1>1, <1>2

\* Putting an entry of u at the end of what Forget(u) leaves.
LEMMA AppendSound ==
    ASSUME cache \in Seq(Entry), CacheSound, NEW e \in Entry
    PROVE  LET filled == Append(Forget(e.url), e)
           IN  /\ filled \in Seq(Entry)
               /\ Len(filled) = Len(Forget(e.url)) + 1
               /\ \A j, k \in DOMAIN filled : filled[j].url = filled[k].url => j = k
<1> DEFINE s == Forget(e.url)
           filled == Append(s, e)
<1>1. e.url \in Url
  BY DEF Entry
<1>2. /\ s \in Seq(Entry)
      /\ \A k \in DOMAIN s : s[k].url # e.url
      /\ \A j, k \in DOMAIN s : s[j].url = s[k].url => j = k
  BY <1>1, ForgetSound
<1> HIDE DEF s
<1>3. /\ filled \in Seq(Entry) /\ Len(filled) = Len(s) + 1
      /\ \A j \in 1 .. Len(s) : filled[j] = s[j]
      /\ filled[Len(s) + 1] = e
      /\ DOMAIN filled = 1 .. Len(s) + 1
      /\ DOMAIN s = 1 .. Len(s)
      /\ Len(s) \in Nat
  BY <1>2
<1> HIDE DEF filled
<1>4. ASSUME NEW j \in DOMAIN filled, NEW k \in DOMAIN filled,
             filled[j].url = filled[k].url
      PROVE  j = k
  <2>1. CASE j \in 1 .. Len(s) /\ k \in 1 .. Len(s)
    BY <1>2, <1>3, <1>4, <2>1
  <2>2. CASE j = Len(s) + 1 /\ k \in 1 .. Len(s)
    BY <1>2, <1>3, <1>4, <2>2
  <2>3. CASE j \in 1 .. Len(s) /\ k = Len(s) + 1
    BY <1>2, <1>3, <1>4, <2>3
  <2>4. CASE j = Len(s) + 1 /\ k = Len(s) + 1
    BY <2>4
  <2> QED BY <1>3, <2>1, <2>2, <2>3, <2>4
<1> QED
  BY <1>3, <1>4 DEF filled, s

\* What a step may make of the cache.
CacheFine(new) == /\ new \in Seq(Entry)
                  /\ Len(new) <= MaxEntries
                  /\ \A j, k \in DOMAIN new : new[j].url = new[k].url => j = k

\* A lookup keeps the cache sound.
LEMMA LookupSound ==
    ASSUME cache \in Seq(Entry), CacheSound, NEW u \in Url
    PROVE  CacheFine(AfterLookup(u))
<1>1. CASE Fresh(u)
  <2>1. Cached(u) /\ Position(u) \in DOMAIN cache /\ cache[Position(u)].url = u
    BY <1>1, PositionFound DEF Fresh
  <2> DEFINE e == cache[Position(u)]
  <2>2. e \in Entry /\ e.url = u
    BY <2>1
  <2>3. Len(Forget(u)) = Len(cache) - 1
    BY <2>1, ForgetSound
  <2>4. AfterLookup(u) = Append(Forget(u), e)
    BY <1>1 DEF AfterLookup
  <2>5. Len(cache) \in Nat /\ Len(cache) <= MaxEntries
    BY DEF CacheSound
  <2> HIDE DEF e
  <2>6. /\ Append(Forget(u), e) \in Seq(Entry)
        /\ Len(Append(Forget(u), e)) = Len(Forget(u)) + 1
        /\ \A j, k \in DOMAIN Append(Forget(u), e) :
              Append(Forget(u), e)[j].url = Append(Forget(u), e)[k].url => j = k
    BY <2>2, AppendSound
  <2> QED
    BY <2>3, <2>4, <2>5, <2>6 DEF CacheFine
<1>2. CASE ~Fresh(u)
  <2>1. AfterLookup(u) = Forget(u)
    BY <1>2 DEF AfterLookup
  <2>2. Len(cache) \in Nat /\ Len(cache) <= MaxEntries
    BY DEF CacheSound
  <2>3. /\ Forget(u) \in Seq(Entry)
        /\ Len(Forget(u)) <= Len(cache)
        /\ \A j, k \in DOMAIN Forget(u) :
             Forget(u)[j].url = Forget(u)[k].url => j = k
    BY ForgetSound
  <2>4. Len(Forget(u)) \in Nat
    BY <2>3
  <2> QED
    BY <2>1, <2>2, <2>3, <2>4 DEF CacheFine
<1> QED
  BY <1>1, <1>2

\* An answer put into the cache keeps it sound.
LEMMA RememberSound ==
    ASSUME cache \in Seq(Entry), CacheSound, NEW u \in Url, NEW status \in Kept,
           Remember(u, status)
    PROVE  CacheFine(cache')
<1> DEFINE e == [url |-> u, life |-> Ttl(status)]
           s == Append(Forget(u), e)
<1>1. e \in Entry /\ e.url = u
  BY DEF Entry, Life, Ttl, Kept
<1>2. cache' = IF Len(s) > MaxEntries THEN Tail(s) ELSE s
  BY DEF Remember, Filled
<1>3. Len(cache) \in Nat /\ Len(cache) <= MaxEntries /\ Len(Forget(u)) <= Len(cache)
      /\ Forget(u) \in Seq(Entry)
  BY ForgetSound DEF CacheSound
<1> HIDE DEF e
<1>4. /\ s \in Seq(Entry)
      /\ Len(s) = Len(Forget(u)) + 1
      /\ \A j, k \in DOMAIN s : s[j].url = s[k].url => j = k
  BY <1>1, AppendSound
<1> HIDE DEF s
<1>5. Len(s) <= MaxEntries + 1 /\ Len(s) \in Nat \ {0} /\ DOMAIN s = 1 .. Len(s)
  BY <1>3, <1>4
<1>6. CASE Len(s) > MaxEntries
  <2>1. cache' = Tail(s)
    BY <1>2, <1>6
  <2>2. s # <<>>
    BY <1>5
  <2>3. /\ Tail(s) \in Seq(Entry) /\ Len(Tail(s)) = Len(s) - 1
        /\ DOMAIN Tail(s) = 1 .. Len(s) - 1
        /\ \A j \in 1 .. Len(s) - 1 : Tail(s)[j] = s[j + 1]
    BY <1>4, <1>5, <2>2
  <2>4. \A j, k \in 1 .. Len(s) - 1 : Tail(s)[j].url = Tail(s)[k].url => j = k
    BY <1>4, <1>5, <2>3
  <2> QED
    BY <1>5, <2>1, <2>3, <2>4 DEF CacheFine
<1>7. CASE ~(Len(s) > MaxEntries)
  <2>1. cache' = s
    BY <1>2, <1>7
  <2> QED
    BY <1>4, <1>5, <1>7, <2>1 DEF CacheFine
<1> QED
  BY <1>6, <1>7

\* The passing of time changes no question.
LEMMA TickSound ==
    ASSUME cache \in Seq(Entry), CacheSound, Tick
    PROVE  CacheFine(cache')
<1> DEFINE older(e) == [e EXCEPT !.life = Older(@)]
<1>1. cache' = [k \in DOMAIN cache |-> older(cache[k])]
  BY DEF Tick
<1>2. \A e \in Entry : older(e) \in Entry /\ older(e).url = e.url
  BY DEF Entry, Life, Older
<1> HIDE DEF older
<1>3. DOMAIN cache = 1 .. Len(cache) /\ Len(cache) \in Nat
      /\ \A k \in DOMAIN cache : cache[k] \in Entry
  OBVIOUS
<1>4. /\ cache' \in Seq(Entry) /\ DOMAIN cache' = DOMAIN cache
      /\ Len(cache') = Len(cache)
      /\ \A k \in DOMAIN cache : cache'[k].url = cache[k].url
  BY <1>1, <1>2, <1>3
<1> QED
  BY <1>4 DEF CacheFine, CacheSound
-----------------------------------------------------------------------------
(* What the cache owes.                                                    *)

DebtsFine == owed \in [Url -> Debt] /\ DebtsCovered

\* An entry of v with this life is in the sequence, before questions of `others`.
Followed(s, v, life, others) ==
    \E k \in DOMAIN s : /\ s[k].url = v /\ s[k].life = life
                        /\ \A j \in DOMAIN s : j > k => s[j].url \in others

\* Taking another question out changes neither the entry nor who follows it.
LEMMA FollowedForget ==
    ASSUME cache \in Seq(Entry), NEW u, NEW v, v # u, NEW life, NEW others,
           Followed(cache, v, life, others)
    PROVE  Followed(Forget(u), v, life, others)
<1>1. CASE ~Cached(u)
  BY <1>1 DEF Forget
<1>2. CASE Cached(u)
  <2> DEFINE p == Position(u)
             s == Forget(u)
  <2>1. p \in DOMAIN cache /\ cache[p].url = u
    BY <1>2, PositionFound
  <2>2. s = RemoveAt(cache, p)
    BY <1>2 DEF Forget
  <2> HIDE DEF p, s
  <2>3. /\ s \in Seq(Entry) /\ Len(s) = Len(cache) - 1
        /\ \A j \in 1 .. Len(cache) - 1 :
             s[j] = IF j < p THEN cache[j] ELSE cache[j + 1]
    BY <2>1, <2>2, RemoveOne
  <2>4. /\ p \in 1 .. Len(cache) /\ Len(cache) \in Nat
        /\ DOMAIN s = 1 .. Len(cache) - 1 /\ DOMAIN cache = 1 .. Len(cache)
    BY <2>1, <2>3
  <2>5. PICK k \in 1 .. Len(cache) :
           /\ cache[k].url = v /\ cache[k].life = life
           /\ \A j \in 1 .. Len(cache) : j > k => cache[j].url \in others
    BY <2>4 DEF Followed
  <2>6. k # p
    BY <2>1, <2>5
  <2>7. PICK n \in 1 .. Len(cache) - 1 : n = IF k < p THEN k ELSE k - 1
    BY <2>4, <2>5, <2>6
  <2>8. s[n] = cache[k]
    BY <2>3, <2>4, <2>5, <2>6, <2>7
  <2>9. ASSUME NEW j \in 1 .. Len(cache) - 1, j > n
        PROVE  s[j].url \in others
    <3>1. CASE j < p
      BY <2>3, <2>4, <2>5, <2>6, <2>7, <2>9, <3>1
    <3>2. CASE ~(j < p)
      <4>1. j + 1 \in 1 .. Len(cache) /\ j + 1 > k
        BY <2>4, <2>7, <2>9, <3>2
      <4> QED
        BY <2>3, <2>5, <3>2, <4>1
    <3> QED
      BY <3>1, <3>2
  <2>10. Followed(s, v, life, others)
    BY <2>4, <2>5, <2>7, <2>8, <2>9 DEF Followed
  <2> QED
    BY <2>10 DEF s
<1> QED
  BY <1>1, <1>2

\* An entry put at the end is one more that follows.
LEMMA FollowedAppend ==
    ASSUME NEW s \in Seq(Entry), NEW e \in Entry, NEW v, NEW life, NEW others,
           Followed(s, v, life, others)
    PROVE  Followed(Append(s, e), v, life, others \cup {e.url})
<1>1. PICK k \in 1 .. Len(s) :
         /\ s[k].url = v /\ s[k].life = life
         /\ \A j \in 1 .. Len(s) : j > k => s[j].url \in others
  BY DEF Followed
<1>2. /\ Len(s) \in Nat /\ DOMAIN Append(s, e) = 1 .. Len(s) + 1
      /\ \A j \in 1 .. Len(s) : Append(s, e)[j] = s[j]
      /\ Append(s, e)[Len(s) + 1] = e
  OBVIOUS
<1>3. ASSUME NEW j \in 1 .. Len(s) + 1, j > k
      PROVE  Append(s, e)[j].url \in others \cup {e.url}
  <2>1. CASE j = Len(s) + 1
    BY <1>2, <2>1
  <2>2. CASE j \in 1 .. Len(s)
    BY <1>1, <1>2, <1>3, <2>2
  <2> QED
    BY <1>2, <2>1, <2>2
<1>4. k \in DOMAIN Append(s, e) /\ Append(s, e)[k] = s[k]
  BY <1>1, <1>2
<1> QED
  BY <1>1, <1>2, <1>3, <1>4 DEF Followed

\* More than MaxEntries different questions do not follow one that is followed
\* by fewer: the entry that makes room is another one.
LEMMA FollowedTail ==
    ASSUME NEW s \in Seq(Entry), Len(s) > MaxEntries,
           \A i, j \in DOMAIN s : s[i].url = s[j].url => i = j,
           NEW v, NEW life, NEW others, IsFiniteSet(others),
           Cardinality(others) < MaxEntries, Followed(s, v, life, others)
    PROVE  Followed(Tail(s), v, life, others)
<1>1. PICK k \in 1 .. Len(s) :
         /\ s[k].url = v /\ s[k].life = life
         /\ \A j \in 1 .. Len(s) : j > k => s[j].url \in others
  BY DEF Followed
<1>2. Len(s) \in Nat /\ DOMAIN s = 1 .. Len(s) /\ s # <<>>
  OBVIOUS
<1>3. k # 1
  <2> SUFFICES ASSUME k = 1 PROVE FALSE
    OBVIOUS
  <2> DEFINE behind == 2 .. Len(s)
             f == [j \in behind |-> s[j].url]
  <2>1. f \in [behind -> others]
    BY <1>1, <1>2
  <2>2. IsFiniteSet(behind) /\ Cardinality(behind) = Len(s) - 1
    BY <1>2, FS_Interval
  <2>3. Cardinality(others) \in Nat
    BY FS_CardinalityType
  <2>4. Cardinality(others) < Cardinality(behind)
    BY <1>2, <2>2, <2>3
  <2>5. \A i, j \in behind : f[i] = f[j] => i = j
    BY <1>2
  <2> HIDE DEF behind, f
  <2> QED
    BY <2>1, <2>2, <2>4, <2>5, FS_PigeonHole
<1>4. /\ DOMAIN Tail(s) = 1 .. Len(s) - 1
      /\ \A j \in 1 .. Len(s) - 1 : Tail(s)[j] = s[j + 1]
  BY <1>2
<1>5. k - 1 \in DOMAIN Tail(s) /\ Tail(s)[k - 1] = s[k]
  BY <1>1, <1>2, <1>3, <1>4
<1>6. ASSUME NEW j \in DOMAIN Tail(s), j > k - 1
      PROVE  Tail(s)[j].url \in others
  <2>1. j + 1 \in 1 .. Len(s) /\ j + 1 > k /\ Tail(s)[j] = s[j + 1]
    BY <1>1, <1>2, <1>4, <1>6
  <2> QED
    BY <1>1, <2>1
<1> QED
  BY <1>1, <1>5, <1>6 DEF Followed

\* What DebtsCovered says of one question.
LEMMA DebtCovered ==
    ASSUME DebtsCovered, NEW v \in Url, IsOwed(v)
    PROVE  /\ IsFiniteSet(owed[v].others)
           /\ Cardinality(owed[v].others) < MaxEntries
           /\ Followed(cache, v, owed[v].life, owed[v].others)
BY DEF DebtsCovered, Followed

\* An answer that is owed is found by a lookup.
LEMMA OwedIsFresh ==
    ASSUME DebtsFine, cache \in Seq(Entry), CacheSound, NEW u \in Url, IsOwed(u)
    PROVE  Fresh(u)
<1>1. PICK k \in DOMAIN cache : cache[k].url = u /\ cache[k].life = owed[u].life
  BY DebtCovered DEF DebtsFine, Followed
<1>2. Cached(u)
  BY <1>1 DEF Cached
<1>3. Position(u) = k
  BY <1>1, <1>2, PositionFound DEF CacheSound
<1> QED
  BY <1>1, <1>2, <1>3 DEF Fresh, IsOwed

\* A step that leaves the cache and the debts alone.
LEMMA SameDebts ==
    ASSUME DebtsFine, UNCHANGED <<cache, owed>>
    PROVE  DebtsFine'
BY DEF DebtsFine, DebtsCovered, IsOwed

\* A lookup that finds nothing takes out nothing that is owed.
LEMMA MissDebts ==
    ASSUME DebtsFine, cache \in Seq(Entry), CacheSound, NEW u \in Url, ~Fresh(u),
           cache' = AfterLookup(u), UNCHANGED owed
    PROVE  DebtsFine'
<1>1. cache' = Forget(u)
  BY DEF AfterLookup
<1>2. ASSUME NEW v \in Url, IsOwed(v)
      PROVE  /\ IsFiniteSet(owed[v].others)
             /\ Cardinality(owed[v].others) < MaxEntries
             /\ Followed(cache', v, owed[v].life, owed[v].others)
  <2>1. v # u
    BY <1>2, OwedIsFresh
  <2> QED
    BY <1>1, <1>2, <2>1, DebtCovered, FollowedForget DEF DebtsFine
<1> QED
  BY <1>2 DEF DebtsFine, DebtsCovered, IsOwed, Followed

\* An answer put at the end, with room made for it, covers its own debt, and
\* whatever is still owed stays covered.
LEMMA UseDebts ==
    ASSUME DebtsFine, cache \in Seq(Entry), CacheSound, NEW e \in Entry,
           Use(e.url, e.life),
           LET filled == Append(Forget(e.url), e)
           IN  cache' = IF Len(filled) > MaxEntries THEN Tail(filled) ELSE filled
    PROVE  DebtsFine'
<1> DEFINE u == e.url
           kept == Forget(u)
           filled == Append(kept, e)
<1>1. u \in Url /\ e.life \in Life
  BY DEF Entry
<1>2. kept \in Seq(Entry) /\ Len(kept) \in Nat
  BY <1>1, ForgetSound
<1>3. /\ filled \in Seq(Entry) /\ Len(filled) = Len(kept) + 1
      /\ \A i, j \in DOMAIN filled : filled[i].url = filled[j].url => i = j
  BY AppendSound
<1>4. filled[Len(kept) + 1] = e
  BY <1>2
<1>5. cache' = IF Len(filled) > MaxEntries THEN Tail(filled) ELSE filled
  OBVIOUS
<1>6. owed' \in [Url -> Debt]
  <2>1. ASSUME NEW v \in Url
        PROVE  /\ [life |-> e.life, others |-> {}] \in Debt
               /\ [life |-> owed[v].life, others |-> Others(v, u)] \in Debt
               /\ Nothing \in Debt
    BY <1>1 DEF DebtsFine, Debt, Life, Others, Nothing
  <2> QED
    BY <2>1 DEF Use
<1>7. owed'[u] = [life |-> e.life, others |-> {}]
  BY <1>1 DEF Use
<1>8. Followed(cache', u, e.life, {})
  <2>1. CASE Len(filled) > MaxEntries
    <3>1. /\ DOMAIN Tail(filled) = 1 .. Len(kept)
          /\ Len(kept) >= 1 /\ Tail(filled)[Len(kept)] = e
      BY <1>2, <1>3, <1>4, <2>1
    <3>2. ~(\E j \in 1 .. Len(kept) : j > Len(kept))
      BY <1>2
    <3>3. Len(kept) \in DOMAIN Tail(filled)
      BY <1>2, <3>1
    <3> HIDE DEF filled, kept
    <3> QED
      BY <1>5, <2>1, <3>1, <3>2, <3>3 DEF Followed
  <2>2. CASE ~(Len(filled) > MaxEntries)
    <3>1. DOMAIN filled = 1 .. Len(kept) + 1
      BY <1>3
    <3>2. ~(\E j \in 1 .. Len(kept) + 1 : j > Len(kept) + 1)
      BY <1>2
    <3>3. Len(kept) + 1 \in DOMAIN filled
      BY <1>2, <3>1
    <3> HIDE DEF filled, kept
    <3> QED
      BY <1>4, <1>5, <2>2, <3>1, <3>2, <3>3 DEF Followed
  <2> QED
    BY <2>1, <2>2
<1>9. ASSUME NEW v \in Url, v # u, StillOwed(v, u)
      PROVE  /\ owed'[v] = [life |-> owed[v].life, others |-> Others(v, u)]
             /\ IsFiniteSet(Others(v, u))
             /\ Followed(cache', v, owed[v].life, Others(v, u))
  <2>1. IsOwed(v) /\ Cardinality(Others(v, u)) < MaxEntries
    BY <1>9 DEF StillOwed
  <2>2. /\ IsFiniteSet(owed[v].others)
        /\ Followed(cache, v, owed[v].life, owed[v].others)
    BY <2>1, DebtCovered DEF DebtsFine
  <2>3. IsFiniteSet(Others(v, u))
    BY <2>2, FS_AddElement DEF Others
  <2>4. Followed(kept, v, owed[v].life, owed[v].others)
    BY <1>9, <2>2, FollowedForget
  <2> HIDE DEF kept
  <2>5. Followed(filled, v, owed[v].life, Others(v, u))
    BY <1>2, <2>4, FollowedAppend DEF Others
  <2> HIDE DEF filled
  <2>6. Followed(cache', v, owed[v].life, Others(v, u))
    BY <1>3, <1>5, <2>1, <2>3, <2>5, FollowedTail
  <2> QED
    BY <1>9, <2>3, <2>6 DEF Use
<1>10. ASSUME NEW v \in Url, v # u, ~StillOwed(v, u)
       PROVE  owed'[v] = Nothing
  BY <1>10 DEF Use
<1> HIDE DEF filled, kept
<1>11. ASSUME NEW v \in Url, IsOwed(v)'
       PROVE  /\ IsFiniteSet(owed'[v].others)
              /\ Cardinality(owed'[v].others) < MaxEntries
              /\ Followed(cache', v, owed'[v].life, owed'[v].others)
  <2>1. CASE v = u
    <3>1. owed'[v].life = e.life /\ owed'[v].others = {}
      BY <1>7, <2>1
    <3>2. Cardinality({}) < MaxEntries /\ IsFiniteSet({})
      BY FS_EmptySet
    <3>3. Followed(cache', v, e.life, {})
      BY <1>8, <2>1
    <3> QED
      BY <3>1, <3>2, <3>3
  <2>2. CASE v # u
    <3>1. StillOwed(v, u)
      BY <1>10, <1>11, <2>2 DEF IsOwed, Nothing
    <3>2. Cardinality(Others(v, u)) < MaxEntries
      BY <3>1 DEF StillOwed
    <3>3. /\ owed'[v].life = owed[v].life
          /\ owed'[v].others = Others(v, u)
      <4>1. owed'[v] = [life |-> owed[v].life, others |-> Others(v, u)]
        BY <1>9, <2>2, <3>1
      <4>2. \A d, l, o : d = [life |-> l, others |-> o] => d.life = l /\ d.others = o
        OBVIOUS
      <4> HIDE DEF u
      <4> QED
        BY <4>1, <4>2
    <3>4. /\ IsFiniteSet(Others(v, u))
          /\ Followed(cache', v, owed[v].life, Others(v, u))
      BY <1>9, <2>2, <3>1
    <3> QED
      BY <3>2, <3>3, <3>4
  <2> QED
    BY <2>1, <2>2
<1> QED
  BY <1>6, <1>11 DEF DebtsFine, DebtsCovered, Followed

\* A hit moves its entry to the end; nobody has to make room.
LEMMA HitDebts ==
    ASSUME DebtsFine, cache \in Seq(Entry), CacheSound, NEW u \in Url, Fresh(u),
           cache' = AfterLookup(u), Use(u, cache[Position(u)].life)
    PROVE  DebtsFine'
<1> DEFINE e == cache[Position(u)]
           filled == Append(Forget(u), e)
<1>1. Cached(u) /\ Position(u) \in DOMAIN cache /\ e.url = u
  BY PositionFound DEF Fresh
<1>2. e \in Entry
  BY <1>1
<1>3. cache' = filled
  BY DEF AfterLookup
<1>4. /\ Forget(u) \in Seq(Entry) /\ Len(Forget(u)) = Len(cache) - 1
      /\ Len(cache) \in Nat /\ Len(cache) <= MaxEntries
  BY <1>1, ForgetSound DEF CacheSound
<1>5. Use(e.url, e.life)
  BY <1>1
<1> HIDE DEF e
<1>6. ~(Len(filled) > MaxEntries)
  BY <1>2, <1>4
<1>7. filled = Append(Forget(e.url), e)
  BY <1>1
<1> HIDE DEF filled
<1> QED
  BY <1>2, <1>3, <1>5, <1>6, <1>7, UseDebts

LEMMA AnsweredDebts ==
    ASSUME DebtsFine, cache \in Seq(Entry), CacheSound, NEW u \in Url,
           NEW status \in Kept, Remember(u, status), Use(u, Ttl(status))
    PROVE  DebtsFine'
<1> DEFINE e == [url |-> u, life |-> Ttl(status)]
           filled == Append(Forget(u), e)
<1>1. e \in Entry /\ e.url = u /\ e.life = Ttl(status)
  BY DEF Entry, Life, Ttl, Kept
<1>2. cache' = IF Len(filled) > MaxEntries THEN Tail(filled) ELSE filled
  BY DEF Remember, Filled
<1>3. Use(e.url, e.life)
  BY <1>1
<1> HIDE DEF e
<1>4. filled = Append(Forget(e.url), e)
  BY <1>1
<1> HIDE DEF filled
<1> QED
  BY <1>1, <1>2, <1>3, <1>4, UseDebts

\* Entries and debts grow old together.
LEMMA TickDebts ==
    ASSUME DebtsFine, cache \in Seq(Entry), CacheSound, Tick
    PROVE  DebtsFine'
<1>1. /\ DOMAIN cache' = DOMAIN cache
      /\ \A k \in DOMAIN cache : /\ cache'[k].url = cache[k].url
                                 /\ cache'[k].life = Older(cache[k].life)
  <2>1. cache' = [k \in DOMAIN cache |-> [cache[k] EXCEPT !.life = Older(@)]]
    BY DEF Tick
  <2>2. \A k \in DOMAIN cache : cache[k] \in Entry
    OBVIOUS
  <2>3. \A k \in DOMAIN cache : cache[k] \in [url : Url, life : Life]
    BY <2>2 DEF Entry
  <2> QED
    BY <2>1, <2>3
<1>2. \A v \in Url : owed[v] \in [life : Life, others : SUBSET Url]
  BY DEF DebtsFine, Debt
<1>3. ASSUME NEW v \in Url
      PROVE  owed'[v] = IF owed[v].life > 0
                        THEN [life |-> owed[v].life - 1, others |-> owed[v].others]
                        ELSE Nothing
  <2>1. owed'[v] = IF owed[v].life > 0
                   THEN [owed[v] EXCEPT !.life = Older(@)] ELSE Nothing
    BY DEF Tick, Age
  <2>2. \A d \in [life : Life, others : SUBSET Url] :
           d.life > 0 => [d EXCEPT !.life = Older(@)]
                           = [life |-> d.life - 1, others |-> d.others]
    BY DEF Older, Life
  <2> QED
    BY <1>2, <2>1, <2>2
<1>4. owed' \in [Url -> Debt]
  <2>1. ASSUME NEW v \in Url
        PROVE  owed'[v] \in Debt
    <3>1. \A d \in [life : Life, others : SUBSET Url] :
             d.life > 0 => [life |-> d.life - 1, others |-> d.others] \in Debt
      BY DEF Debt, Life
    <3>2. Nothing \in Debt
      BY DEF Debt, Life, Nothing
    <3> QED
      BY <1>2, <1>3, <3>1, <3>2
  <2> QED
    BY <2>1 DEF Tick, Age
<1>5. ASSUME NEW v \in Url, IsOwed(v)'
      PROVE  /\ IsFiniteSet(owed'[v].others)
             /\ Cardinality(owed'[v].others) < MaxEntries
             /\ Followed(cache', v, owed'[v].life, owed'[v].others)
  <2>1. /\ owed[v].life > 0 /\ owed'[v].life = owed[v].life - 1
        /\ owed'[v].others = owed[v].others
    <3>1. owed'[v].life >= 0
      BY <1>5 DEF IsOwed
    <3>2. Nothing.life = -1
      BY DEF Nothing
    <3>3. owed[v].life > 0
      <4> SUFFICES ASSUME ~(owed[v].life > 0) PROVE FALSE
        OBVIOUS
      <4>1. owed'[v] = Nothing
        BY <1>3
      <4>2. owed'[v].life = -1
        BY <3>2, <4>1
      <4> QED
        BY <3>1, <4>2
    <3>4. owed'[v] = [life |-> owed[v].life - 1, others |-> owed[v].others]
      BY <1>3, <3>3
    <3> QED
      BY <3>3, <3>4
  <2>2. IsOwed(v) /\ Older(owed[v].life) = owed[v].life - 1
    BY <1>2, <2>1 DEF IsOwed, Older, Life
  <2>3. /\ IsFiniteSet(owed[v].others)
        /\ Cardinality(owed[v].others) < MaxEntries
        /\ Followed(cache, v, owed[v].life, owed[v].others)
    BY <2>2, DebtCovered DEF DebtsFine
  <2>4. Followed(cache', v, owed[v].life - 1, owed[v].others)
    BY <1>1, <2>2, <2>3 DEF Followed
  <2> QED
    BY <2>1, <2>3, <2>4
<1> QED
  BY <1>4, <1>5 DEF DebtsFine, DebtsCovered, Followed

-----------------------------------------------------------------------------
(* The slots.                                                              *)

\* What changes when one request changes its state.
LEMMA BecomeEffect ==
    ASSUME caller \in [Caller -> CallerState], NEW c \in Caller,
           NEW state \in CallerState, Become(c, state)
    PROVE  /\ caller' \in [Caller -> CallerState]
           /\ caller'[c] = state
           /\ \A d \in Caller \ {c} : caller'[d] = caller[d]
BY DEF Become

SlotPhases == {"pace", "sleep", "fetch"}

\* The phases decide who is past the semaphore.
LEMMA SlotEnter ==
    ASSUME NEW c \in Caller, caller[c].pc \notin SlotPhases,
           caller'[c].pc \in SlotPhases,
           \A d \in Caller \ {c} : caller'[d] = caller[d]
    PROVE  Cardinality(InSlot') = Cardinality(InSlot) + 1
<1>1. InSlot' = InSlot \cup {c} /\ c \notin InSlot
  BY DEF InSlot, SlotPhases
<1>2. IsFiniteSet(InSlot)
  BY FS_Subset DEF InSlot
<1> QED
  BY <1>1, <1>2, FS_AddElement

LEMMA SlotLeave ==
    ASSUME NEW c \in Caller, caller[c].pc \in SlotPhases,
           caller'[c].pc \notin SlotPhases,
           \A d \in Caller \ {c} : caller'[d] = caller[d]
    PROVE  Cardinality(InSlot') = Cardinality(InSlot) - 1
<1>1. InSlot' = InSlot \ {c} /\ c \in InSlot
  BY DEF InSlot, SlotPhases
<1>2. IsFiniteSet(InSlot)
  BY FS_Subset DEF InSlot
<1> QED
  BY <1>1, <1>2, FS_RemoveElement

LEMMA SlotStay ==
    ASSUME NEW c \in Caller,
           caller[c].pc \in SlotPhases <=> caller'[c].pc \in SlotPhases,
           \A d \in Caller \ {c} : caller'[d] = caller[d]
    PROVE  InSlot' = InSlot
BY DEF InSlot, SlotPhases

\* The number of requests past the semaphore is a number.
LEMMA SlotCount == Cardinality(InSlot) \in Nat
<1>1. IsFiniteSet(InSlot)
  BY FS_Subset DEF InSlot
<1> QED
  BY <1>1, FS_CardinalityType

-----------------------------------------------------------------------------
(* The invariant without the cache, one lemma per action.                  *)

Gates == /\ caller \in [Caller -> CallerState]
         /\ slots \in 0 .. MaxInFlight
         /\ pace \in Caller \cup {Free}
         /\ since \in 0 .. MinInterval
         /\ quiet \in 0 .. MinInterval
         /\ SlotsConserved
         /\ PaceHeld
         /\ NapCovers
         /\ QuietCovers
         /\ AskedKnown

Asleep(state) == state.pc = "sleep"

\* A step of one request that leaves the lock and the clocks alone and does
\* not sleep before or after keeps the gates when its slot is accounted for.
LEMMA QuietStep ==
    ASSUME Gates, NEW c \in Caller, NEW state \in CallerState, Become(c, state),
           ~Asleep(caller[c]), ~Asleep(state),
           state.pc # "idle" => state.url \in Url,
           slots' \in 0 .. MaxInFlight, SlotsConserved',
           UNCHANGED <<pace, since, quiet>>
    PROVE  Gates'
<1>1. /\ caller' \in [Caller -> CallerState]
      /\ caller'[c] = state
      /\ \A d \in Caller \ {c} : caller'[d] = caller[d]
  BY BecomeEffect DEF Gates
<1>2. PaceHeld'
  BY <1>1 DEF Gates, PaceHeld, Asleep
<1>3. NapCovers'
  BY <1>1 DEF Gates, NapCovers, Asleep
<1>4. QuietCovers'
  BY DEF Gates, QuietCovers
<1>5. AskedKnown'
  BY <1>1 DEF Gates, AskedKnown
<1> QED
  BY <1>1, <1>2, <1>3, <1>4, <1>5 DEF Gates

\* A response leaves a request idle.
LEMMA RespondEffect ==
    ASSUME NEW c \in Caller, Respond(c)
    PROVE  Idle \in CallerState /\ Idle.pc = "idle" /\ Become(c, Idle)
BY DEF Idle, CallerState, Phases, Respond

\* A request that goes on keeps its question.
LEMMA WaitingTyped ==
    ASSUME NEW pc \in Phases, NEW u \in Url, NEW nap \in 0 .. MinInterval
    PROVE  LET state == Waiting(pc, u, nap)
           IN  /\ state \in CallerState
               /\ state.pc = pc /\ state.url = u /\ state.nap = nap
BY DEF Waiting, CallerState

LEMMA AskHitGates ==
    ASSUME Gates, NEW c \in Caller, NEW u \in Url, AskHit(c, u)
    PROVE  Gates'
<1>1. /\ caller[c].pc = "idle" /\ UNCHANGED <<slots, pace, since, quiet>>
      /\ Respond(c)
  BY DEF AskHit
<1>2. Idle \in CallerState /\ Idle.pc = "idle" /\ Become(c, Idle)
  BY <1>1, RespondEffect
<1>3. /\ caller'[c].pc = "idle"
      /\ \A d \in Caller \ {c} : caller'[d] = caller[d]
  BY <1>2, BecomeEffect DEF Gates
<1>4. InSlot' = InSlot
  BY <1>1, <1>3, SlotStay DEF SlotPhases
<1>5. SlotsConserved'
  BY <1>1, <1>4 DEF Gates, SlotsConserved
<1> QED
  BY <1>1, <1>2, <1>5, QuietStep DEF Gates, Asleep

LEMMA AskMissGates ==
    ASSUME Gates, NEW c \in Caller, NEW u \in Url, AskMiss(c, u)
    PROVE  Gates'
<1> DEFINE state == Waiting("slots", u, 0)
<1>1. state \in CallerState /\ state.pc = "slots" /\ state.url \in Url
  BY WaitingTyped DEF Phases
<1>2. Become(c, state)
  BY DEF AskMiss
<1>3. caller[c].pc = "idle" /\ UNCHANGED <<slots, pace, since, quiet>>
  BY DEF AskMiss
<1> HIDE DEF state
<1>5. /\ caller'[c].pc = "slots"
      /\ \A d \in Caller \ {c} : caller'[d] = caller[d]
  BY <1>1, <1>2, BecomeEffect DEF Gates
<1>6. InSlot' = InSlot
  BY <1>3, <1>5, SlotStay DEF SlotPhases
<1>7. SlotsConserved'
  BY <1>3, <1>6 DEF Gates, SlotsConserved
<1> QED
  BY <1>1, <1>2, <1>3, <1>7, QuietStep DEF Gates, Asleep

LEMMA TakeSlotGates ==
    ASSUME Gates, NEW c \in Caller, TakeSlot(c)
    PROVE  Gates'
<1>1. /\ caller[c].pc = "slots" /\ slots > 0 /\ slots' = slots - 1
      /\ Move(c, "pace") /\ UNCHANGED <<pace, since, quiet>>
  BY DEF TakeSlot
<1>6. caller[c].url \in Url
  BY <1>1 DEF Gates, AskedKnown
<1>2. PICK state \in CallerState :
         Become(c, state) /\ state.pc = "pace" /\ state.url = caller[c].url
  BY <1>1, <1>6, WaitingTyped DEF Move, Phases
<1>3. /\ caller'[c].pc = "pace"
      /\ \A d \in Caller \ {c} : caller'[d] = caller[d]
  BY <1>2, BecomeEffect DEF Gates
<1>4. Cardinality(InSlot') = Cardinality(InSlot) + 1
  BY <1>1, <1>3, SlotEnter DEF SlotPhases
<1>5. SlotsConserved' /\ slots' \in 0 .. MaxInFlight
  BY <1>1, <1>4, SlotCount DEF Gates, SlotsConserved
<1> QED
  BY <1>1, <1>2, <1>5, <1>6, QuietStep DEF Asleep

\* An answer, good or bad, returns the slot.
LEMMA FetchedGates ==
    ASSUME Gates, NEW c \in Caller, caller[c].pc = "fetch",
           Respond(c), slots' = slots + 1, UNCHANGED <<pace, since, quiet>>
    PROVE  Gates'
<1>1. Idle \in CallerState /\ Idle.pc = "idle" /\ Become(c, Idle)
  BY RespondEffect
<1>2. /\ caller'[c].pc = "idle"
      /\ \A d \in Caller \ {c} : caller'[d] = caller[d]
  BY <1>1, BecomeEffect DEF Gates
<1>3. Cardinality(InSlot') = Cardinality(InSlot) - 1
  BY <1>2, SlotLeave DEF SlotPhases
<1>4. Cardinality(InSlot') \in Nat
  <2>1. IsFiniteSet(InSlot')
    BY FS_Subset DEF InSlot
  <2> QED BY <2>1, FS_CardinalityType
<1>5. SlotsConserved' /\ slots' \in 0 .. MaxInFlight
  BY <1>3, <1>4, SlotCount DEF Gates, SlotsConserved
<1> QED
  BY <1>1, <1>5, QuietStep DEF Asleep

LEMMA PaceSleepGates ==
    ASSUME Gates, NEW c \in Caller, PaceSleep(c)
    PROVE  Gates'
<1> DEFINE state == Waiting("sleep", caller[c].url, MinInterval - since)
<1>1. /\ caller[c].pc = "pace" /\ pace = Free /\ since < MinInterval /\ pace' = c
      /\ Become(c, state) /\ UNCHANGED <<slots, since, quiet>>
  BY DEF PaceSleep
<1>2. caller[c].url \in Url /\ since \in 0 .. MinInterval
  BY <1>1 DEF Gates, AskedKnown
<1>3. MinInterval - since \in 0 .. MinInterval
  BY <1>2
<1>4. /\ state \in CallerState /\ state.pc = "sleep" /\ state.url \in Url
      /\ state.nap = MinInterval - since
  BY <1>2, <1>3, WaitingTyped DEF Phases
<1> HIDE DEF state
<1>5. /\ caller' \in [Caller -> CallerState] /\ caller'[c] = state
      /\ \A d \in Caller \ {c} : caller'[d] = caller[d]
  BY <1>1, <1>4, BecomeEffect DEF Gates
<1>6. InSlot' = InSlot
  BY <1>1, <1>4, <1>5, SlotStay DEF SlotPhases
<1>7. SlotsConserved'
  BY <1>1, <1>6 DEF Gates, SlotsConserved
<1>8. \A d \in Caller : caller[d].pc # "sleep"
  BY <1>1 DEF Gates, PaceHeld
<1>9. PaceHeld'
  BY <1>1, <1>4, <1>5, <1>8 DEF PaceHeld
<1>10. NapCovers'
  BY <1>1, <1>2, <1>4, <1>5, <1>8 DEF NapCovers
<1>11. AskedKnown' /\ QuietCovers'
  BY <1>1, <1>4, <1>5 DEF Gates, AskedKnown, QuietCovers
<1> QED
  BY <1>1, <1>2, <1>5, <1>7, <1>9, <1>10, <1>11 DEF Gates

\* From the end of the wait, held by c or by nobody.
LEMMA ProceedGates ==
    ASSUME Gates, NEW c \in Caller, Proceed(c),
           caller[c].pc \in {"pace", "sleep"},
           pace = Free \/ pace = c
    PROVE  Gates'
<1> DEFINE u == caller[c].url
<1>1. u \in Url
  BY DEF Gates, AskedKnown
<1>2. since' = 0 /\ pace' = Free
  BY DEF Proceed
<1>3. \A d \in Caller \ {c} : caller[d].pc # "sleep"
  BY DEF Gates, PaceHeld
<1>4. ASSUME NEW state \in CallerState, Become(c, state), ~Asleep(state),
             state.pc # "idle" => state.url \in Url,
             slots' \in 0 .. MaxInFlight, SlotsConserved',
             quiet' \in 0 .. MinInterval
      PROVE  Gates'
  <2>1. /\ caller' \in [Caller -> CallerState] /\ caller'[c] = state
        /\ \A d \in Caller \ {c} : caller'[d] = caller[d]
    BY <1>4, BecomeEffect DEF Gates
  <2>2. \A d \in Caller : caller'[d].pc # "sleep"
    BY <1>3, <1>4, <2>1 DEF Asleep
  <2>3. PaceHeld' /\ NapCovers'
    BY <1>2, <2>2 DEF PaceHeld, NapCovers
  <2>4. AskedKnown'
    BY <1>4, <2>1 DEF Gates, AskedKnown
  <2>5. QuietCovers' /\ since' \in 0 .. MinInterval /\ pace' \in Caller \cup {Free}
    BY <1>2, <1>4 DEF QuietCovers
  <2> QED
    BY <1>4, <2>1, <2>3, <2>4, <2>5 DEF Gates
<1>5. CASE Respond(c) /\ slots' = slots + 1 /\ UNCHANGED quiet
  <2>2. Idle \in CallerState /\ Idle.pc = "idle" /\ Become(c, Idle)
    BY <1>5, RespondEffect
  <2>3. /\ caller'[c].pc = "idle"
        /\ \A d \in Caller \ {c} : caller'[d] = caller[d]
    BY <2>2, BecomeEffect DEF Gates
  <2>4. Cardinality(InSlot') = Cardinality(InSlot) - 1
    BY <2>3, SlotLeave DEF SlotPhases
  <2>5. Cardinality(InSlot') \in Nat
    <3>1. IsFiniteSet(InSlot')
      BY FS_Subset DEF InSlot
    <3> QED BY <3>1, FS_CardinalityType
  <2>6. SlotsConserved' /\ slots' \in 0 .. MaxInFlight
    BY <1>5, <2>4, <2>5, SlotCount DEF Gates, SlotsConserved
  <2>7. quiet' \in 0 .. MinInterval
    BY <1>5 DEF Gates
  <2> QED
    BY <1>4, <2>2, <2>6, <2>7 DEF Asleep
<1>6. CASE Move(c, "fetch") /\ quiet' = 0 /\ UNCHANGED slots
  <2>1. PICK state \in CallerState :
           Become(c, state) /\ state.pc = "fetch" /\ state.url = u
    BY <1>1, <1>6, WaitingTyped DEF Move, Phases
  <2>2. /\ caller'[c].pc = "fetch"
        /\ \A d \in Caller \ {c} : caller'[d] = caller[d]
    BY <2>1, BecomeEffect DEF Gates
  <2>3. InSlot' = InSlot
    BY <2>2, SlotStay DEF SlotPhases
  <2>4. SlotsConserved' /\ slots' \in 0 .. MaxInFlight
    BY <1>6, <2>3 DEF Gates, SlotsConserved
  <2> QED
    BY <1>1, <1>4, <1>6, <2>1, <2>4 DEF Asleep
<1> QED
  BY <1>5, <1>6 DEF Proceed

LEMMA TickGates ==
    ASSUME Gates, Tick
    PROVE  Gates'
<1>1. /\ since' = Later(since) /\ quiet' = Later(quiet)
      /\ UNCHANGED <<slots, pace>>
      /\ caller' = [c \in Caller |->
                      [caller[c] EXCEPT !.nap = Nearer(caller[c].nap)]]
  BY DEF Tick
<1>2. /\ since \in 0 .. MinInterval /\ quiet \in 0 .. MinInterval
      /\ quiet >= since /\ caller \in [Caller -> CallerState]
  BY DEF Gates, QuietCovers
<1>3. since' \in 0 .. MinInterval /\ quiet' \in 0 .. MinInterval /\ QuietCovers'
  BY <1>1, <1>2 DEF Later, QuietCovers
<1>4. \A k \in CallerState, n \in 0 .. MinInterval :
         LET state == [k EXCEPT !.nap = n]
         IN  /\ state \in CallerState /\ state.pc = k.pc
             /\ state.url = k.url /\ state.nap = n
  BY DEF CallerState
<1>5. \A n \in 0 .. MinInterval : Nearer(n) \in 0 .. MinInterval
  BY DEF Nearer
<1>6. \A k \in CallerState : k.nap \in 0 .. MinInterval
  BY DEF CallerState
<1>7. ASSUME NEW c \in Caller
      PROVE  /\ caller'[c] \in CallerState /\ caller'[c].pc = caller[c].pc
             /\ caller'[c].url = caller[c].url
             /\ caller'[c].nap = Nearer(caller[c].nap)
  <2> DEFINE k == caller[c]
  <2>1. k \in CallerState /\ caller'[c] = [k EXCEPT !.nap = Nearer(k.nap)]
    BY <1>1, <1>2
  <2> HIDE DEF k
  <2>2. Nearer(k.nap) \in 0 .. MinInterval
    BY <1>5, <1>6, <2>1
  <2>3. /\ caller'[c] \in CallerState /\ caller'[c].pc = k.pc
        /\ caller'[c].url = k.url /\ caller'[c].nap = Nearer(k.nap)
    BY <1>4, <2>1, <2>2
  <2> QED BY <2>3 DEF k
<1>8. caller' \in [Caller -> CallerState]
  <2>1. DOMAIN caller' = Caller /\ caller' = [c \in Caller |-> caller'[c]]
    BY <1>1
  <2> QED BY <1>7, <2>1
<1>9. InSlot' = InSlot
  BY <1>7 DEF InSlot
<1>10. SlotsConserved' /\ PaceHeld' /\ AskedKnown'
  BY <1>1, <1>7, <1>9 DEF Gates, SlotsConserved, PaceHeld, AskedKnown
<1>11. NapCovers'
  <2>1. \A s, n \in 0 .. MinInterval :
           s + n >= MinInterval => Later(s) + Nearer(n) >= MinInterval
    BY DEF Later, Nearer
  <2>2. \A c \in Caller : caller[c].nap \in 0 .. MinInterval
    BY <1>2, <1>6
  <2> QED
    BY <1>1, <1>2, <1>7, <2>1, <2>2 DEF Gates, NapCovers
<1> QED
  BY <1>1, <1>3, <1>8, <1>10, <1>11 DEF Gates

-----------------------------------------------------------------------------
(* The whole invariant.                                                    *)

LEMMA Parts == IInv <=> Gates /\ CacheFine(cache) /\ DebtsFine
BY DEF IInv, Gates, CacheFine, TypeOK, CacheSound, DebtsFine

LEMMA FineIsSound == CacheFine(cache) => cache \in Seq(Entry) /\ CacheSound
BY DEF CacheFine, CacheSound

LEMMA InitHolds == Init => IInv
<1> SUFFICES ASSUME Init PROVE IInv
  OBVIOUS
<1>1. Idle \in CallerState /\ Idle.pc = "idle"
  BY DEF CallerState, Phases, Idle
<1>2. caller = [c \in Caller |-> Idle]
  BY DEF Init
<1>3. caller \in [Caller -> CallerState] /\ \A c \in Caller : caller[c].pc = "idle"
  BY <1>1, <1>2
<1>4. InSlot = {}
  BY <1>3 DEF InSlot
<1>5. SlotsConserved
  BY <1>4, FS_EmptySet DEF SlotsConserved, Init
<1>6. PaceHeld /\ NapCovers /\ QuietCovers /\ AskedKnown
  BY <1>3 DEF PaceHeld, NapCovers, QuietCovers, AskedKnown, Init
<1>7. CacheFine(cache)
  BY DEF CacheFine, Init
<1>8. DebtsFine
  BY DEF DebtsFine, DebtsCovered, Debt, Life, Nothing, IsOwed, Init
<1> QED
  BY <1>3, <1>5, <1>6, <1>7, <1>8, Parts DEF Gates, Init

LEMMA StepHolds == IInv /\ [Next]_vars => IInv'
<1> SUFFICES ASSUME IInv, [Next]_vars PROVE IInv'
  OBVIOUS
<1> DEFINE Goal == Gates' /\ CacheFine(cache') /\ DebtsFine'
<1>1. Gates /\ CacheFine(cache) /\ DebtsFine /\ cache \in Seq(Entry) /\ CacheSound
  BY Parts, FineIsSound
<1>2. SUFFICES Goal
  BY DEF IInv, Gates, CacheFine, TypeOK, CacheSound, DebtsFine
<1>3. ASSUME NEW c \in Caller, NEW u \in Url, AskHit(c, u)
      PROVE  Goal
  BY <1>1, <1>3, AskHitGates, LookupSound, HitDebts DEF AskHit
<1>4. ASSUME NEW c \in Caller, NEW u \in Url, AskMiss(c, u)
      PROVE  Goal
  BY <1>1, <1>4, AskMissGates, LookupSound, MissDebts DEF AskMiss
<1>5. ASSUME NEW c \in Caller, TakeSlot(c)
      PROVE  Goal
  BY <1>1, <1>5, TakeSlotGates, SameDebts DEF TakeSlot
<1>6. ASSUME NEW c \in Caller, PaceSleep(c)
      PROVE  Goal
  BY <1>1, <1>6, PaceSleepGates, SameDebts DEF PaceSleep
<1>7. ASSUME NEW c \in Caller, PaceNow(c) \/ Wake(c)
      PROVE  Goal
  <2> DEFINE u == caller[c].url
  <2>1. /\ Proceed(c) /\ caller[c].pc \in {"pace", "sleep"}
        /\ pace = Free \/ pace = c
    BY <1>1, <1>7 DEF PaceNow, Wake, Gates, PaceHeld
  <2>2. u \in Url
    BY <1>1, <2>1 DEF Gates, AskedKnown
  <2>3. /\ cache' = AfterLookup(u)
        /\ \/ Fresh(u) /\ Use(u, cache[Position(u)].life)
           \/ ~Fresh(u) /\ UNCHANGED owed
    BY <2>1 DEF Proceed
  <2>4. DebtsFine'
    BY <1>1, <2>2, <2>3, HitDebts, MissDebts
  <2> QED
    BY <1>1, <2>1, <2>2, <2>3, <2>4, ProceedGates, LookupSound
<1>8. ASSUME NEW c \in Caller, NEW status \in Kept, Answered(c, status)
      PROVE  Goal
  <2>1. /\ caller[c].pc = "fetch" /\ slots' = slots + 1
        /\ Remember(caller[c].url, status) /\ Respond(c)
        /\ Use(caller[c].url, Ttl(status))
        /\ UNCHANGED <<pace, since, quiet>>
    BY <1>8 DEF Answered
  <2>2. caller[c].url \in Url
    BY <1>1, <2>1 DEF Gates, AskedKnown
  <2> QED
    BY <1>1, <2>1, <2>2, FetchedGates, RememberSound, AnsweredDebts
<1>9. ASSUME NEW c \in Caller, Troubled(c)
      PROVE  Goal
  BY <1>1, <1>9, FetchedGates, SameDebts DEF Troubled
<1>10. CASE Tick
  BY <1>1, <1>10, TickGates, TickSound, TickDebts
<1>11. CASE UNCHANGED vars
  BY <1>1, <1>11, SameDebts DEF vars, Gates, CacheFine, SlotsConserved, InSlot,
                     PaceHeld, NapCovers, QuietCovers, AskedKnown
<1> QED
  BY <1>3, <1>4, <1>5, <1>6, <1>7, <1>8, <1>9, <1>10, <1>11 DEF Next

\* The invariant holds in every reachable state: slots are neither lost nor
\* made, one request sleeps at a time and long enough, the cache is sound.
THEOREM Invariance == Spec => []IInv
<1>1. Init => IInv
  BY InitHolds
<1>2. IInv /\ [Next]_vars => IInv'
  BY StepHolds
<1> QED
  BY <1>1, <1>2, PTL DEF Spec

\* Types (inat.py 47-50).
THEOREM TypeCorrect == Spec => []TypeOK
<1>1. IInv => TypeOK
  BY DEF IInv
<1> QED
  BY <1>1, Invariance, PTL

\* No more than MAX_IN_FLIGHT requests are at iNaturalist (inat.py 119-139).
THEOREM InFlightHolds == Spec => []InFlightBounded
<1>1. IInv => InFlightBounded
  <2> SUFFICES ASSUME IInv PROVE InFlightBounded
    OBVIOUS
  <2>1. AtUpstream \subseteq InSlot
    BY DEF AtUpstream, InSlot
  <2>2. IsFiniteSet(InSlot)
    BY FS_Subset DEF InSlot
  <2>3. Cardinality(AtUpstream) <= Cardinality(InSlot)
    BY <2>1, <2>2, FS_Subset
  <2>4. Cardinality(AtUpstream) \in Nat
    BY <2>1, <2>2, FS_Subset, FS_CardinalityType
  <2>5. slots + Cardinality(InSlot) = MaxInFlight /\ slots \in 0 .. MaxInFlight
    BY DEF IInv, TypeOK, SlotsConserved
  <2> QED
    BY <2>3, <2>4, <2>5, SlotCount DEF InFlightBounded
<1> QED
  BY <1>1, Invariance, PTL

\* The cache never outgrows its limit nor holds a question twice (inat.py 61-77).
THEOREM CacheHolds == Spec => []CacheSound
<1>1. IInv => CacheSound
  BY DEF IInv
<1> QED
  BY <1>1, Invariance, PTL

\* Only Proceed sends a question upstream.
LEMMA OnlyProceedFetches ==
    ASSUME IInv, [Next]_vars, NEW c \in Caller,
           caller[c].pc # "fetch", caller'[c].pc = "fetch"
    PROVE  /\ Proceed(c) /\ ~Fresh(caller[c].url)
           /\ PaceNow(c) \/ Wake(c)
<1>1. caller \in [Caller -> CallerState]
  BY DEF IInv, TypeOK
<1>2. ASSUME NEW d, NEW state, Become(d, state), state.pc # "fetch"
      PROVE  FALSE
  <2>1. caller'[c] = caller[c] \/ caller'[c] = state
    BY <1>1, <1>2 DEF Become
  <2> QED
    BY <1>2, <2>1
<1>3. ASSUME NEW d, Respond(d)
      PROVE  FALSE
  BY <1>2, <1>3 DEF Respond, Idle
<1>4. ASSUME NEW d \in Caller, NEW u \in Url, AskHit(d, u) \/ AskMiss(d, u)
      PROVE  FALSE
  BY <1>2, <1>3, <1>4 DEF AskHit, AskMiss, Waiting
<1>5. ASSUME NEW d \in Caller, TakeSlot(d) \/ PaceSleep(d)
      PROVE  FALSE
  BY <1>2, <1>5 DEF TakeSlot, PaceSleep, Move, Waiting
<1>6. ASSUME NEW d \in Caller, NEW status, Answered(d, status) \/ Troubled(d)
      PROVE  FALSE
  BY <1>3, <1>6 DEF Answered, Troubled
<1>7. ASSUME Tick
      PROVE  FALSE
  BY <1>1, <1>7 DEF Tick, CallerState
<1>8. ASSUME UNCHANGED vars
      PROVE  FALSE
  BY <1>8 DEF vars
<1>9. ASSUME NEW d \in Caller, PaceNow(d) \/ Wake(d)
      PROVE  d = c /\ Proceed(c) /\ ~Fresh(caller[c].url)
  <2>1. Proceed(d)
    BY <1>9 DEF PaceNow, Wake
  <2>2. /\ ~Fresh(caller[d].url)
        /\ Move(d, "fetch")
    BY <1>3, <2>1 DEF Proceed
  <2>3. d = c
    BY <1>1, <2>2 DEF Move, Become
  <2> QED
    BY <2>1, <2>2, <2>3
<1> QED
  BY <1>4, <1>5, <1>6, <1>7, <1>8, <1>9 DEF Next

\* Calls to iNaturalist start MIN_INTERVAL_S apart (inat.py 121-125).
THEOREM SpacingHolds == Spec => CallsSpaced
<1>1. IInv /\ [Next]_vars
      => [\A c \in Caller :
           caller[c].pc # "fetch" /\ caller'[c].pc = "fetch"
             => quiet >= MinInterval]_vars
  <2> SUFFICES ASSUME IInv, [Next]_vars, NEW c \in Caller,
                      caller[c].pc # "fetch", caller'[c].pc = "fetch"
               PROVE  quiet >= MinInterval
    OBVIOUS
  <2>1. PaceNow(c) \/ Wake(c)
    BY OnlyProceedFetches
  <2>2. /\ quiet >= since /\ since \in 0 .. MinInterval /\ quiet \in 0 .. MinInterval
        /\ caller[c].pc = "sleep" => since + caller[c].nap >= MinInterval
    BY DEF IInv, TypeOK, QuietCovers, NapCovers
  <2> QED
    BY <2>1, <2>2 DEF PaceNow, Wake
<1> QED
  BY <1>1, Invariance, PTL DEF Spec, CallsSpaced

\* A question is not sent again while the cache owes its answer
\* (inat.py 61-77, 126-133).
THEOREM RefetchHolds == Spec => RecentNeverRefetched
<1>1. IInv /\ [Next]_vars
      => [\A c \in Caller :
           caller[c].pc # "fetch" /\ caller'[c].pc = "fetch"
             => ~IsOwed(caller[c].url)]_vars
  <2> SUFFICES ASSUME IInv, [Next]_vars, NEW c \in Caller,
                      caller[c].pc # "fetch", caller'[c].pc = "fetch"
               PROVE  ~IsOwed(caller[c].url)
    OBVIOUS
  <2>1. ~Fresh(caller[c].url) /\ caller[c].pc \in {"pace", "sleep"}
    BY OnlyProceedFetches DEF PaceNow, Wake
  <2>2. caller[c].url \in Url
    BY <2>1 DEF IInv, AskedKnown
  <2> QED
    BY <2>1, <2>2, OwedIsFresh, Parts, FineIsSound
<1> QED
  BY <1>1, Invariance, PTL DEF Spec, RecentNeverRefetched
=============================================================================
