---------------------------- MODULE VersionCache ----------------------------
(***************************************************************************)
(* The version cache: cache/github_releases.py, polled by the API when it  *)
(* starts (main.py), by the timer and by hand (scripts/poll_github.py),    *)
(* and read by /version/latest.                                            *)
(*                                                                         *)
(* GitHub is external: `published` is its list of releases, oldest first,  *)
(* TRUE for a prerelease; release k carries version k.  Commit k is the    *)
(* k-th on the default branch.  A poll asks three questions one after the  *)
(* other while GitHub goes on; it writes a file of its own and renames it. *)
(***************************************************************************)
EXTENDS Integers, FiniteSets, Sequences

CONSTANTS
    Poller,        \* processes that poll
    Boot,          \* the API's poll, in its lifespan handler
    HistoryLimit,  \* history_limit: the page size of both lists
    Null,          \* None in an answer
    NotPayload,    \* contents the API replaces when it starts: the file is
                   \* missing, no JSON, or of an older schema; the route
                   \* serves the last kind until then, which is left out
    MaxReleases,   \* bound: releases GitHub publishes
    MaxCommits,    \* bound: commits pushed
    MaxRestarts    \* bound: restarts of the container

ASSUME BootIsPoller == Boot \in Poller
ASSUME LimitIsPositive == HistoryLimit \in Nat \ {0}
ASSUME NothingIsServed == NotPayload # {}
ASSUME NullIsNoAnswer == Null \notin Nat /\ Null \notin BOOLEAN

VARIABLES
    published,  \* GitHub's releases
    head,       \* GitHub's number of commits
    poller,     \* the polls, with their locals
    file,       \* version_cache.json
    booting,    \* the API is in its lifespan handler and has not polled yet
    restarts

vars == <<published, head, poller, file, booting, restarts>>

-----------------------------------------------------------------------------
(* GitHub.                                                                 *)

Release == [version : Nat, prerelease : BOOLEAN]

\* GET /releases: the newest HistoryLimit releases.
Listed == {[version |-> k, prerelease |-> published[k]] :
             k \in {j \in DOMAIN published : j > Len(published) - HistoryLimit}}

\* GET /releases/latest: the newest full release; 404 when there is none.
FullReleases == {k \in DOMAIN published : ~published[k]}
IsLatest(k) == k \in FullReleases /\ \A j \in FullReleases : j <= k

Publish(prerelease) ==
    /\ Len(published) < MaxReleases
    /\ published' = Append(published, prerelease)
    /\ UNCHANGED <<head, poller, file, booting, restarts>>

Push ==
    /\ head < MaxCommits
    /\ head' = head + 1
    /\ UNCHANGED <<published, poller, file, booting, restarts>>

-----------------------------------------------------------------------------
(* The file.  A payload is what a poll assembled; stable is 0 before the   *)
(* question is answered, head is the newest of the listed commits.         *)

Payload == [releases : SUBSET Release, head : Nat, stable : Nat]
Blank == [releases |-> {}, head |-> 0, stable |-> 0]

ASSUME PayloadsAreServed == NotPayload \cap Payload = {}

\* cache_is_current(load_cache(path))
CacheIsCurrent == file \notin NotPayload

-----------------------------------------------------------------------------
(* Channel resolution.  `current` is what the caller says it runs: nothing,*)
(* something that is no version, a version in the service's own spelling   *)
(* (exact) or another one, or on the main channel a commit.                *)

Kinds == {"none", "garbage", "version", "commit"}
Current == [kind : Kinds, number : Nat, exact : BOOLEAN]
Channels == {"stable", "edge", "main"}

Newer(releases, current) == {r \in releases : r.version > current.number}

VersionsBehind(releases, current) ==
    IF current.kind = "version" THEN Cardinality(Newer(releases, current)) ELSE Null

\* The versions are compared as text to tell whether they are the same, and as
\* versions to count the releases between.  latest holds the channel's latest
\* version, if there is one.
ResolveReleaseChannel(latest, releases, current) ==
    IF latest = {} \/ current.kind = "none"
    THEN [isCurrent |-> Null, behind |-> Null]
    ELSE [isCurrent |-> /\ current.kind = "version"
                        /\ current.exact
                        /\ current.number \in latest,
          behind |-> VersionsBehind(releases, current)]

OfChannel(payload, prerelease) ==
    {r \in payload.releases : r.prerelease = prerelease}

ResolveStable(payload, current) ==
    ResolveReleaseChannel({payload.stable} \ {0}, OfChannel(payload, FALSE), current)

\* The first prerelease of the list, which is newest first, is the edge.
EdgeOf(payload) ==
    LET versions == {r.version : r \in OfChannel(payload, TRUE)}
    IN  {v \in versions : \A w \in versions : w <= v}

ResolveEdge(payload, current) ==
    ResolveReleaseChannel(EdgeOf(payload), OfChannel(payload, TRUE), current)

\* The position of the caller's commit in the list of the newest ones.
CommitsBehind(payload, current) ==
    IF current.number \in 1 .. payload.head /\ current.number > payload.head - HistoryLimit
    THEN payload.head - current.number
    ELSE Null

ResolveMain(payload, current) ==
    IF payload.head = 0 \/ current.kind # "commit"
    THEN [isCurrent |-> Null, behind |-> Null]
    ELSE [isCurrent |-> CommitsBehind(payload, current) = 0,
          behind |-> CommitsBehind(payload, current)]

Resolve(payload, channel, current) ==
    CASE channel = "stable" -> ResolveStable(payload, current)
      [] channel = "edge"   -> ResolveEdge(payload, current)
      [] channel = "main"   -> ResolveMain(payload, current)

-----------------------------------------------------------------------------
(* The polls.                                                              *)

Phases == {"idle", "releases", "commits", "latest", "write", "replace"}
PollerState == [pc : Phases, draft : Payload]
IdlePoller == [pc |-> "idle", draft |-> Blank]

Become(p, pc, draft) ==
    poller' = [poller EXCEPT ![p] = [pc |-> pc, draft |-> draft]]

\* Lifespan: the API polls before it serves if the file is not current.
BootPoll ==
    /\ booting
    /\ ~CacheIsCurrent
    /\ booting' = FALSE
    /\ Become(Boot, "releases", Blank)
    /\ UNCHANGED <<published, head, file, restarts>>

BootSkip ==
    /\ booting
    /\ CacheIsCurrent
    /\ booting' = FALSE
    /\ UNCHANGED <<published, head, poller, file, restarts>>

\* Mutation: the script polls only when the file is not current.
StartIfStale(p) ==
    /\ p # Boot
    /\ ~CacheIsCurrent
    /\ poller[p].pc = "idle"
    /\ Become(p, "releases", Blank)
    /\ UNCHANGED <<published, head, file, booting, restarts>>

\* The timer, or somebody by hand, runs the script in the container.
Start(p) ==
    /\ p # Boot
    /\ poller[p].pc = "idle"
    /\ Become(p, "releases", Blank)
    /\ UNCHANGED <<published, head, file, booting, restarts>>

FetchReleases(p) ==
    /\ poller[p].pc = "releases"
    /\ Become(p, "commits", [poller[p].draft EXCEPT !.releases = Listed])
    /\ UNCHANGED <<published, head, file, booting, restarts>>

FetchCommits(p) ==
    /\ poller[p].pc = "commits"
    /\ Become(p, "latest", [poller[p].draft EXCEPT !.head = head])
    /\ UNCHANGED <<published, head, file, booting, restarts>>

\* Mutation: a failed third request falls back to what the cache has.
FetchLatestFallsBack(p) ==
    /\ poller[p].pc = "latest"
    /\ \/ \E k \in DOMAIN published :
             /\ IsLatest(k)
             /\ Become(p, "write", [poller[p].draft EXCEPT !.stable = k])
       \/ /\ CacheIsCurrent
          /\ Become(p, "write", [poller[p].draft EXCEPT !.stable = file.stable])
    /\ UNCHANGED <<published, head, file, booting, restarts>>

FetchLatest(p) ==
    /\ poller[p].pc = "latest"
    /\ \E k \in DOMAIN published :
          /\ IsLatest(k)
          /\ Become(p, "write", [poller[p].draft EXCEPT !.stable = k])
    /\ UNCHANGED <<published, head, file, booting, restarts>>

\* Mutation: the file is opened for writing where it is read.
WriteInPlace(p) ==
    /\ poller[p].pc = "write"
    /\ \E torn \in NotPayload : file' = torn
    /\ Become(p, "replace", poller[p].draft)
    /\ UNCHANGED <<published, head, booting, restarts>>

\* The payload goes to a file of the poll's own.
WriteTemporary(p) ==
    /\ poller[p].pc = "write"
    /\ Become(p, "replace", poller[p].draft)
    /\ UNCHANGED <<published, head, file, booting, restarts>>

Replace(p) ==
    /\ poller[p].pc = "replace"
    /\ file' = poller[p].draft
    /\ Become(p, "idle", Blank)
    /\ UNCHANGED <<published, head, booting, restarts>>

\* A request fails or times out, or the disk is full; the temporary file is
\* removed and the cache stays.
Fail(p) ==
    /\ poller[p].pc # "idle"
    /\ Become(p, "idle", Blank)
    /\ UNCHANGED <<published, head, file, booting, restarts>>

\* The container stops with all that runs in it and starts again.
Restart ==
    /\ restarts < MaxRestarts
    /\ restarts' = restarts + 1
    /\ booting' = TRUE
    /\ poller' = [p \in Poller |-> IdlePoller]
    /\ UNCHANGED <<published, head, file>>

-----------------------------------------------------------------------------
Init ==
    /\ published = <<>>
    /\ head = 0
    /\ poller = [p \in Poller |-> IdlePoller]
    /\ file \in NotPayload
    /\ booting = TRUE
    /\ restarts = 0

Poll(p) == \/ Start(p) \/ FetchReleases(p) \/ FetchCommits(p) \/ FetchLatest(p)
           \/ WriteTemporary(p) \/ Replace(p) \/ Fail(p)

Next ==
    \/ \E prerelease \in BOOLEAN : Publish(prerelease)
    \/ Push
    \/ BootPoll \/ BootSkip
    \/ \E p \in Poller : Poll(p)
    \/ Restart

Spec == Init /\ [][Next]_vars

\* tesserae-api-poll.timer starts a poll every 15 minutes, and a step tried
\* again and again succeeds in the end: GitHub recovers.
Fairness ==
    \A p \in Poller :
        /\ WF_vars(Start(p))
        /\ SF_vars(FetchReleases(p)) /\ SF_vars(FetchCommits(p))
        /\ SF_vars(FetchLatest(p)) /\ SF_vars(WriteTemporary(p))
        /\ SF_vars(Replace(p))

FairSpec == Spec /\ Fairness

-----------------------------------------------------------------------------
(* Properties.                                                             *)

\* Types (github_releases.py 86-104, 121-149).
TypeOK ==
    /\ published \in Seq(BOOLEAN)
    /\ head \in Nat
    /\ poller \in [Poller -> PollerState]
    /\ file \in Payload \cup NotPayload
    /\ booting \in BOOLEAN
    /\ restarts \in Nat

\* What a poll holds was published.
DraftsListed ==
    \A p \in Poller : \A r \in poller[p].draft.releases :
        r.version \in DOMAIN published /\ r.prerelease = published[r.version]

\* No full release of a payload is newer than the latest one it names.
AgreesWithItself(payload) ==
    \A r \in payload.releases : ~r.prerelease => r.version <= payload.stable

DraftsAgree ==
    \A p \in Poller : poller[p].pc \in {"write", "replace"}
                        => AgreesWithItself(poller[p].draft)

\* The inductive invariant.
IInv == /\ TypeOK
        /\ DraftsListed
        /\ DraftsAgree
        /\ CacheIsCurrent => AgreesWithItself(file)

\* Once the file can be served it can always be served: a poll that fails or
\* is killed, and polls at the same time, leave a whole file
\* (github_releases.py 107-130).
FileStaysWhole == [][CacheIsCurrent => CacheIsCurrent']_vars

\* What the caller runs is the latest of the channel, in whatever spelling.
RunsLatest(channel, current) ==
    \/ /\ current.kind = "version"
       /\ \/ channel = "stable" /\ current.number = file.stable
          \/ channel = "edge"   /\ current.number \in EdgeOf(file)
    \/ current.kind = "commit" /\ channel = "main" /\ current.number = file.head

\* A caller who runs the latest of its channel, however it spells it, is told
\* to be none behind, and so is who is told to be current, although one figure
\* compares text and the other versions, and the parts of the answer were
\* fetched by different requests while GitHub published more
\* (github_releases.py 86-104, 176-282).
Numbers == 1 .. (MaxReleases + MaxCommits)
Located == [kind : {"version", "commit"}, number : Numbers, exact : BOOLEAN]
CurrentIsNotBehind ==
    CacheIsCurrent =>
        \A channel \in Channels, current \in Located :
            \/ RunsLatest(channel, current)
            \/ Resolve(file, channel, current).isCurrent = TRUE
            => Resolve(file, channel, current).behind = 0

\* When GitHub is quiet the file ends up with all of it, although an old poll
\* may write after a newer one (github_releases.py 107-130, poll_github.py).
Answers(payload) == /\ payload.releases = Listed
                    /\ payload.head = head
                    /\ IsLatest(payload.stable)
CatchesUp == <>[](FullReleases # {} => CacheIsCurrent /\ Answers(file))

=============================================================================
