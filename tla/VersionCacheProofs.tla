------------------------- MODULE VersionCacheProofs -------------------------
(* What VersionCache serves is consistent and whole, for every number of   *)
(* polls at the same time, every history of GitHub and every page size.    *)
EXTENDS VersionCache, FiniteSetTheorems, TLAPS

USE BootIsPoller, LimitIsPositive, NothingIsServed, NullIsNoAnswer,
    PayloadsAreServed

-----------------------------------------------------------------------------
(* One poll's step.                                                        *)

\* What changes when a poll changes its state.
LEMMA BecomeEffect ==
    ASSUME poller \in [Poller -> PollerState], NEW p \in Poller,
           NEW pc \in Phases, NEW draft \in Payload, Become(p, pc, draft)
    PROVE  /\ poller' \in [Poller -> PollerState]
           /\ poller'[p].pc = pc /\ poller'[p].draft = draft
           /\ \A q \in Poller \ {p} : poller'[q] = poller[q]
BY DEF Become, PollerState

LEMMA BlankTyped == Blank \in Payload /\ Blank.releases = {}
BY DEF Blank, Payload

\* A step of one poll keeps the invariant if the draft it ends with was
\* published and, from "write" on, agrees with itself.
LEMMA PollKeeps ==
    ASSUME IInv, NEW p \in Poller, NEW pc \in Phases, NEW draft \in Payload,
           Become(p, pc, draft), UNCHANGED <<published, head, restarts>>,
           booting' \in BOOLEAN,
           \A r \in draft.releases :
              r.version \in DOMAIN published /\ r.prerelease = published[r.version],
           pc \in {"write", "replace"} => AgreesWithItself(draft),
           file' \in Payload \cup NotPayload,
           file' \notin NotPayload => AgreesWithItself(file')
    PROVE  IInv'
<1>1. poller \in [Poller -> PollerState]
  BY DEF IInv, TypeOK
<1>2. /\ poller' \in [Poller -> PollerState]
      /\ poller'[p].pc = pc /\ poller'[p].draft = draft
      /\ \A q \in Poller \ {p} : poller'[q] = poller[q]
  BY <1>1, BecomeEffect
<1>3. TypeOK'
  BY <1>2 DEF IInv, TypeOK
<1>4. DraftsListed'
  BY <1>2 DEF IInv, DraftsListed
<1>5. DraftsAgree'
  BY <1>2 DEF IInv, DraftsAgree, AgreesWithItself
<1>6. (CacheIsCurrent => AgreesWithItself(file))'
  BY DEF CacheIsCurrent, AgreesWithItself
<1> QED
  BY <1>3, <1>4, <1>5, <1>6 DEF IInv

-----------------------------------------------------------------------------
(* The invariant.                                                          *)

LEMMA InitHolds == Init => IInv
<1> SUFFICES ASSUME Init PROVE IInv
  OBVIOUS
<1>1. IdlePoller \in PollerState
  BY BlankTyped DEF IdlePoller, PollerState, Phases
<1>2. /\ poller \in [Poller -> PollerState]
      /\ \A p \in Poller : poller[p].pc = "idle" /\ poller[p].draft.releases = {}
  BY <1>1, BlankTyped DEF Init, IdlePoller
<1>3. TypeOK
  BY <1>2 DEF Init, TypeOK
<1>4. DraftsListed /\ DraftsAgree
  BY <1>2 DEF DraftsListed, DraftsAgree
<1>5. ~CacheIsCurrent
  BY DEF Init, CacheIsCurrent
<1> QED
  BY <1>3, <1>4, <1>5 DEF IInv

\* The list GitHub answers with is typed and published.
LEMMA ListedTyped ==
    ASSUME published \in Seq(BOOLEAN)
    PROVE  /\ Listed \in SUBSET Release
           /\ \A r \in Listed : /\ r.version \in DOMAIN published
                                /\ r.prerelease = published[r.version]
BY DEF Listed, Release

LEMMA StepHolds == IInv /\ [Next]_vars => IInv'
<1> SUFFICES ASSUME IInv, [Next]_vars PROVE IInv'
  OBVIOUS
<1>1. /\ published \in Seq(BOOLEAN) /\ head \in Nat
      /\ poller \in [Poller -> PollerState]
      /\ file \in Payload \cup NotPayload
      /\ booting \in BOOLEAN /\ restarts \in Nat
      /\ DraftsListed /\ DraftsAgree
      /\ file \notin NotPayload => AgreesWithItself(file)
  BY DEF IInv, TypeOK, CacheIsCurrent
<1>2. Blank \in Payload /\ Blank.releases = {}
  BY BlankTyped
<1>3. ASSUME NEW prerelease \in BOOLEAN, Publish(prerelease)
      PROVE  IInv'
  <2>1. /\ published' = Append(published, prerelease)
        /\ UNCHANGED <<head, poller, file, booting, restarts>>
    BY <1>3 DEF Publish
  <2>2. /\ published' \in Seq(BOOLEAN)
        /\ \A k \in DOMAIN published :
             k \in DOMAIN published' /\ published'[k] = published[k]
    BY <1>1, <2>1
  <2>3. DraftsListed'
    BY <1>1, <2>1, <2>2 DEF DraftsListed
  <2>4. TypeOK'
    BY <1>1, <2>1, <2>2 DEF TypeOK
  <2>5. DraftsAgree' /\ (CacheIsCurrent => AgreesWithItself(file))'
    BY <1>1, <2>1 DEF DraftsAgree, AgreesWithItself, CacheIsCurrent
  <2> QED
    BY <2>3, <2>4, <2>5 DEF IInv
<1>4. CASE Push
  BY <1>1, <1>4 DEF Push, IInv, TypeOK, DraftsListed, DraftsAgree,
                    AgreesWithItself, CacheIsCurrent
<1>5. CASE BootPoll
  BY <1>1, <1>2, <1>5, PollKeeps DEF BootPoll, Phases
<1>6. CASE BootSkip
  BY <1>1, <1>6 DEF BootSkip, IInv, TypeOK, DraftsListed, DraftsAgree,
                    AgreesWithItself, CacheIsCurrent
<1>7. CASE Restart
  <2>1. IdlePoller \in PollerState
    BY <1>2 DEF IdlePoller, PollerState, Phases
  <2>2. /\ poller' \in [Poller -> PollerState]
        /\ \A p \in Poller : poller'[p].pc = "idle"
                             /\ poller'[p].draft.releases = {}
    BY <1>2, <1>7, <2>1 DEF Restart, IdlePoller
  <2>3. TypeOK'
    BY <1>1, <1>7, <2>2 DEF Restart, TypeOK
  <2>4. DraftsListed' /\ DraftsAgree'
    BY <2>2 DEF DraftsListed, DraftsAgree
  <2>5. (CacheIsCurrent => AgreesWithItself(file))'
    BY <1>1, <1>7 DEF Restart, CacheIsCurrent, AgreesWithItself
  <2> QED
    BY <2>3, <2>4, <2>5 DEF IInv
<1>8. ASSUME NEW p \in Poller, Poll(p)
      PROVE  IInv'
  <2> DEFINE d == poller[p].draft
  <2>1. /\ d \in Payload
        /\ \A r \in d.releases :
             r.version \in DOMAIN published /\ r.prerelease = published[r.version]
        /\ poller[p].pc \in {"write", "replace"} => AgreesWithItself(d)
    BY <1>1 DEF DraftsListed, DraftsAgree, PollerState
  <2>2. CASE Start(p) \/ Fail(p)
    BY <1>1, <1>2, <2>2, PollKeeps DEF Start, Fail, Phases
  <2>3. CASE FetchReleases(p)
    <3> DEFINE e == [d EXCEPT !.releases = Listed]
    <3> HIDE DEF d
    <3>1. Listed \in SUBSET Release
      BY <1>1, ListedTyped
    <3>2. e \in Payload /\ e.releases = Listed
      BY <2>1, <3>1 DEF Payload
    <3>3. Become(p, "commits", e) /\ UNCHANGED <<published, head, file, booting, restarts>>
      BY <2>3 DEF FetchReleases, d
    <3> HIDE DEF e
    <3> QED
      BY <1>1, <3>2, <3>3, ListedTyped, PollKeeps DEF Phases
  <2>4. CASE FetchCommits(p)
    <3> DEFINE e == [d EXCEPT !.head = head]
    <3> HIDE DEF d
    <3>2. e \in Payload /\ e.releases = d.releases
      BY <1>1, <2>1 DEF Payload
    <3>3. Become(p, "latest", e) /\ UNCHANGED <<published, head, file, booting, restarts>>
      BY <2>4 DEF FetchCommits, d
    <3> HIDE DEF e
    <3> QED
      BY <1>1, <2>1, <3>2, <3>3, PollKeeps DEF Phases
  <2>5. CASE FetchLatest(p)
    <3>1. PICK k \in DOMAIN published :
             IsLatest(k) /\ Become(p, "write", [d EXCEPT !.stable = k])
      BY <2>5 DEF FetchLatest
    <3>2. UNCHANGED <<published, head, file, booting, restarts>>
      BY <2>5 DEF FetchLatest
    <3> DEFINE e == [d EXCEPT !.stable = k]
    <3> HIDE DEF d
    <3>3. k \in Nat
      BY <1>1, <3>1
    <3>4. e \in Payload /\ e.releases = d.releases /\ e.stable = k
      BY <2>1, <3>3 DEF Payload
    <3>5. Become(p, "write", e)
      BY <3>1
    <3> HIDE DEF e
    <3>6. AgreesWithItself(e)
      <4>1. SUFFICES ASSUME NEW r \in d.releases, ~r.prerelease
                     PROVE  r.version <= k
        BY <3>4 DEF AgreesWithItself
      <4>2. r.version \in DOMAIN published /\ ~published[r.version]
        BY <2>1, <4>1
      <4> QED
        BY <3>1, <4>2 DEF IsLatest, FullReleases
    <3> QED
      BY <1>1, <2>1, <3>2, <3>4, <3>5, <3>6, PollKeeps DEF Phases
  <2>6. CASE WriteTemporary(p)
    BY <1>1, <2>1, <2>6, PollKeeps DEF WriteTemporary, Phases
  <2>7. CASE Replace(p)
    BY <1>1, <1>2, <2>1, <2>7, PollKeeps DEF Replace, Phases
  <2> QED
    BY <1>8, <2>2, <2>3, <2>4, <2>5, <2>6, <2>7 DEF Poll
<1>9. CASE UNCHANGED vars
  BY <1>1, <1>9 DEF vars, IInv, TypeOK, DraftsListed, DraftsAgree,
                    AgreesWithItself, CacheIsCurrent
<1> QED
  BY <1>3, <1>4, <1>5, <1>6, <1>7, <1>8, <1>9 DEF Next

\* What polls hold was published, and what they write agrees with itself.
THEOREM Invariance == Spec => []IInv
<1>1. Init => IInv
  BY InitHolds
<1>2. IInv /\ [Next]_vars => IInv'
  BY StepHolds
<1> QED
  BY <1>1, <1>2, PTL DEF Spec

\* Types (github_releases.py 86-104, 121-149).
THEOREM TypeCorrect == Spec => []TypeOK
<1>1. IInv => TypeOK
  BY DEF IInv
<1> QED
  BY <1>1, Invariance, PTL

-----------------------------------------------------------------------------
(* What callers are told.                                                  *)

\* When no release is newer than the latest one, a caller that runs it or is told
\* so is none behind.
LEMMA ChannelAgrees ==
    ASSUME NEW latest, NEW releases \in SUBSET Release, NEW number \in Nat,
           NEW current, current.number = number,
           \A v \in latest : \A r \in releases : r.version <= v,
           \/ current.kind = "version" /\ number \in latest
           \/ ResolveReleaseChannel(latest, releases, current).isCurrent = TRUE
    PROVE  ResolveReleaseChannel(latest, releases, current).behind = 0
<1> DEFINE none == latest = {} \/ current.kind = "none"
           same == /\ current.kind = "version" /\ current.exact
                   /\ current.number \in latest
           answer == [isCurrent |-> same, behind |-> VersionsBehind(releases, current)]
<1>1. none => ResolveReleaseChannel(latest, releases, current).isCurrent = Null
  BY DEF ResolveReleaseChannel
<1>2. ~none => ResolveReleaseChannel(latest, releases, current) = answer
  BY Zenon DEF ResolveReleaseChannel
<1>3. answer.isCurrent = same /\ answer.behind = VersionsBehind(releases, current)
  BY Zenon
<1>4. current.kind = "version" /\ number \in latest
  <2>1. CASE current.kind = "version" /\ number \in latest
    BY <2>1
  <2>2. CASE ResolveReleaseChannel(latest, releases, current).isCurrent = TRUE
    <3>1. Null # TRUE
      BY NullIsNoAnswer
    <3>2. ~none
      BY <1>1, <2>2, <3>1, Zenon
    <3>3. same = TRUE
      BY <1>2, <1>3, <2>2, <3>2, Zenon
    <3> QED
      BY <3>3, Zenon
  <2> QED
    BY <2>1, <2>2
<1>5. ~none
  BY <1>4
<1>6. Newer(releases, current) = {}
  BY <1>4 DEF Newer, Release
<1>7. VersionsBehind(releases, current) = 0
  BY <1>4, <1>6, FS_EmptySet DEF VersionsBehind
<1> QED
  BY <1>2, <1>3, <1>5, <1>7, Zenon

\* A caller that runs the latest of its channel in any spelling, or is told that
\* what it runs is current, is told to be none behind.
THEOREM CurrentHolds == Spec => []CurrentIsNotBehind
<1>1. IInv => CurrentIsNotBehind
  <2> SUFFICES ASSUME IInv, CacheIsCurrent, NEW channel \in Channels,
                      NEW current \in Located,
                      \/ RunsLatest(channel, current)
                      \/ Resolve(file, channel, current).isCurrent = TRUE
               PROVE  Resolve(file, channel, current).behind = 0
    BY DEF CurrentIsNotBehind
  <2>1. file \in Payload /\ AgreesWithItself(file)
    BY DEF IInv, TypeOK, CacheIsCurrent
  <2> DEFINE number == current.number
  <2>2. current.number = number /\ number \in Nat /\ number # 0
    BY DEF Located, Numbers
  <2>3. \A pre \in BOOLEAN : OfChannel(file, pre) \in SUBSET Release
    BY <2>1 DEF OfChannel, Payload
  <2> HIDE DEF number
  <2>4. CASE channel = "stable"
    <3> DEFINE latest == {file.stable} \ {0}
               releases == OfChannel(file, FALSE)
    <3>1. Resolve(file, channel, current)
            = ResolveReleaseChannel(latest, releases, current)
      BY <2>4 DEF Resolve, ResolveStable
    <3>2. \A v \in latest : \A r \in releases : r.version <= v
      BY <2>1 DEF AgreesWithItself, OfChannel
    <3>3. releases \in SUBSET Release
      BY <2>3
    <3>4. RunsLatest(channel, current) => current.kind = "version" /\ number \in latest
      BY <2>2, <2>4 DEF RunsLatest
    <3> HIDE DEF latest, releases
    <3>5. \/ current.kind = "version" /\ number \in latest
          \/ ResolveReleaseChannel(latest, releases, current).isCurrent = TRUE
      BY <3>1, <3>4, Zenon
    <3>6. ResolveReleaseChannel(latest, releases, current).behind = 0
      BY <2>2, <3>2, <3>3, <3>5, ChannelAgrees, Zenon
    <3> QED
      BY <3>1, <3>6, Zenon
  <2>5. CASE channel = "edge"
    <3> DEFINE latest == EdgeOf(file)
               releases == OfChannel(file, TRUE)
    <3>1. Resolve(file, channel, current)
            = ResolveReleaseChannel(latest, releases, current)
      BY <2>5 DEF Resolve, ResolveEdge
    <3>2. \A v \in latest : \A r \in releases : r.version <= v
      BY DEF EdgeOf
    <3>3. releases \in SUBSET Release
      BY <2>3
    <3>4. RunsLatest(channel, current) => current.kind = "version" /\ number \in latest
      BY <2>2, <2>5 DEF RunsLatest
    <3> HIDE DEF latest, releases
    <3>5. \/ current.kind = "version" /\ number \in latest
          \/ ResolveReleaseChannel(latest, releases, current).isCurrent = TRUE
      BY <3>1, <3>4, Zenon
    <3>6. ResolveReleaseChannel(latest, releases, current).behind = 0
      BY <2>2, <3>2, <3>3, <3>5, ChannelAgrees, Zenon
    <3> QED
      BY <3>1, <3>6, Zenon
  <2>6. CASE channel = "main"
    <3> DEFINE none == file.head = 0 \/ current.kind # "commit"
               behind == CommitsBehind(file, current)
               answer == [isCurrent |-> behind = 0, behind |-> behind]
    <3>1. none => Resolve(file, channel, current).isCurrent = Null
      BY <2>6 DEF Resolve, ResolveMain
    <3>2. ~none => Resolve(file, channel, current) = answer
      BY <2>6, Zenon DEF Resolve, ResolveMain
    <3>3. answer.isCurrent = (behind = 0) /\ answer.behind = behind
      BY Zenon
    <3>4. CASE RunsLatest(channel, current)
      <4>1. current.kind = "commit" /\ current.number = file.head
        BY <2>6, <3>4 DEF RunsLatest
      <4>2. ~none
        BY <2>2, <4>1
      <4>3. file.head \in Nat /\ HistoryLimit \in Nat \ {0}
        BY <2>1, LimitIsPositive DEF Payload
      <4>4. behind = 0
        BY <2>2, <4>1, <4>3 DEF CommitsBehind
      <4> QED
        BY <3>2, <3>3, <4>2, <4>4, Zenon
    <3>5. CASE Resolve(file, channel, current).isCurrent = TRUE
      <4>1. Null # TRUE
        BY NullIsNoAnswer
      <4>2. ~none
        BY <3>1, <3>5, <4>1, Zenon
      <4>3. (behind = 0) = TRUE
        BY <3>2, <3>3, <3>5, <4>2, Zenon
      <4>4. behind = 0
        BY <4>3, Zenon
      <4> QED
        BY <3>2, <3>3, <4>2, <4>4, Zenon
    <3> QED
      BY <3>4, <3>5
  <2> QED
    BY <2>4, <2>5, <2>6 DEF Channels
<1> QED
  BY <1>1, Invariance, PTL

\* A file that can be served stays so through failures, kills and overlapping
\* polls (github_releases.py 107-130).
THEOREM WholeHolds == Spec => FileStaysWhole
<1>1. IInv /\ [Next]_vars => [CacheIsCurrent => CacheIsCurrent']_vars
  <2> SUFFICES ASSUME IInv, [Next]_vars, file \notin NotPayload
               PROVE  file' \notin NotPayload
    BY DEF CacheIsCurrent
  <2>1. poller \in [Poller -> PollerState]
    BY DEF IInv, TypeOK
  <2>2. ASSUME NEW p \in Poller, Replace(p)
        PROVE  file' \in Payload
    BY <2>1, <2>2 DEF Replace, PollerState
  <2>3. \/ UNCHANGED file
        \/ \E p \in Poller : Replace(p)
    BY DEF Next, Poll, Publish, Push, BootPoll, BootSkip, Restart, Start,
           FetchReleases, FetchCommits, FetchLatest, WriteTemporary, Fail, vars
  <2>4. NotPayload \cap Payload = {}
    BY PayloadsAreServed
  <2> QED
    BY <2>2, <2>3, <2>4
<1> QED
  BY <1>1, Invariance, PTL DEF Spec, FileStaysWhole
=============================================================================
