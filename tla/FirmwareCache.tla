--------------------------- MODULE FirmwareCache ---------------------------
(***************************************************************************)
(* The firmware cache: cache/firmware.py, polled like the version cache,   *)
(* from the firmware repository and from community repositories, each of   *)
(* which serves one kind of device and may fail on its own.                *)
(*                                                                         *)
(* GitHub is external: `released` is what all repositories published, in   *)
(* the order of time, so that a position is a date.  The list of a payload *)
(* is sorted by date, so it is modelled as the set of its entries.         *)
(***************************************************************************)
EXTENDS Integers, FiniteSets, Sequences

CONSTANTS
    Poller,        \* polls that may run at once
    Boot,          \* the place of the API's poll in its lifespan handler;
                   \* afterwards a script may take it
    Kind,          \* kinds of device
    CommunityKind, \* kinds served by a community repository
    Source,        \* community_firmware_sources: its repository for each
    MainRepo,      \* firmware_repo
    HistoryLimit,  \* history_limit: the page size
    NotPayload,    \* contents of a file that is missing, is no JSON or is
                   \* of an older schema
    MaxReleases,   \* bound: releases published
    MaxRestarts    \* bound: restarts of the container

Repo == {MainRepo} \cup {Source[kind] : kind \in CommunityKind}

\* A payload: descriptor entries index the kinds a release has a descriptor
\* for, community entries the one kind their repository serves.
Entry == [repo : Repo, date : Nat, kinds : SUBSET Kind]
Entries == SUBSET Entry
Payload == [releases : Entries]

ASSUME PollersAreKnown == Boot \in Poller
ASSUME KindsAreKnown == CommunityKind \subseteq Kind
ASSUME MainIsNoCommunity == \A kind \in CommunityKind : Source[kind] # MainRepo
ASSUME PageIsPositive == HistoryLimit \in Nat \ {0}
ASSUME PayloadsAreServed == NotPayload # {} /\ NotPayload \cap Payload = {}

VARIABLES
    released,   \* all releases of all repositories
    poller,     \* the polls, with their locals
    file,       \* firmware_cache.json
    booting,    \* the API is in its lifespan handler and has not polled yet
    restarts

vars == <<released, poller, file, booting, restarts>>

-----------------------------------------------------------------------------
(* GitHub.                                                                 *)

\* full: neither draft nor prerelease; descriptors: the kinds with a
\* descriptor-<kind>.json among the assets, where anybody looks for one.
Published == {release \in [repo : Repo, full : BOOLEAN, descriptors : SUBSET Kind] :
                release.repo # MainRepo \/ ~release.full => release.descriptors = {}}

Publish(release) ==
    /\ Len(released) < MaxReleases
    /\ released' = Append(released, release)
    /\ UNCHANGED <<poller, file, booting, restarts>>

LaterIn(repo, k) == {j \in DOMAIN released : released[j].repo = repo /\ j > k}

\* Mutation: drafts and prereleases are not dropped.
FetchUnfiltered(repo) ==
    {k \in DOMAIN released : /\ released[k].repo = repo
                             /\ Cardinality(LaterIn(repo, k)) < HistoryLimit}

\* The full releases on the first page of a repository.
FetchReleases(repo) ==
    {k \in DOMAIN released : /\ released[k].repo = repo
                             /\ Cardinality(LaterIn(repo, k)) < HistoryLimit
                             /\ released[k].full}

DescriptorReleases ==
    {[repo |-> MainRepo, date |-> k, kinds |-> released[k].descriptors] :
        k \in {j \in FetchReleases(MainRepo) : released[j].descriptors # {}}}

CommunityReleases(kind) ==
    {[repo |-> Source[kind], date |-> k, kinds |-> {kind}] :
        k \in FetchReleases(Source[kind])}

-----------------------------------------------------------------------------
(* The payload.                                                            *)

\* cache_is_current(load_cache(path))
CacheIsCurrent == file \notin NotPayload

\* What a poll takes over from the file it finds.
Usable(content) == IF content \in NotPayload THEN {} ELSE content.releases

\* The entries of a community kind.
EntriesOf(entries, kind) ==
    {r \in entries : r.repo = Source[kind] /\ kind \in r.kinds}

\* The first entry that covers the kind, newest first; none is a 404.
Resolve(payload, kind) ==
    LET covering == {r \in payload.releases : kind \in r.kinds}
    IN  {r \in covering : \A q \in covering : q.date <= r.date}

-----------------------------------------------------------------------------
(* The polls.  todo holds the community kinds not yet asked for, failed    *)
(* those whose entries were carried over.                                  *)

Phases == {"idle", "load", "main", "community", "replace"}
PollerState == [pc : Phases, previous : Entries, draft : Entries,
                todo : SUBSET CommunityKind, failed : SUBSET CommunityKind]
IdlePoller == [pc |-> "idle", previous |-> {}, draft |-> {},
               todo |-> {}, failed |-> {}]

Become(p, state) == poller' = [poller EXCEPT ![p] = state]

Begun == [pc |-> "load", previous |-> {}, draft |-> {},
          todo |-> CommunityKind, failed |-> {}]

\* Lifespan: the API polls before it serves if the file is not current.
BootPoll ==
    /\ booting
    /\ ~CacheIsCurrent
    /\ booting' = FALSE
    /\ Become(Boot, Begun)
    /\ UNCHANGED <<released, file, restarts>>

BootSkip ==
    /\ booting
    /\ CacheIsCurrent
    /\ booting' = FALSE
    /\ UNCHANGED <<released, poller, file, restarts>>

\* The timer, or somebody by hand, runs the script.
Start(p) ==
    /\ poller[p].pc = "idle"
    /\ p = Boot => ~booting
    /\ Become(p, Begun)
    /\ UNCHANGED <<released, file, booting, restarts>>

\* The poll reads the file it will replace.
Load(p) ==
    /\ poller[p].pc = "load"
    /\ Become(p, [poller[p] EXCEPT !.pc = "main", !.previous = Usable(file)])
    /\ UNCHANGED <<released, file, booting, restarts>>

FetchMain(p) ==
    /\ poller[p].pc = "main"
    /\ Become(p, [poller[p] EXCEPT !.pc = "community", !.draft = DescriptorReleases])
    /\ UNCHANGED <<released, file, booting, restarts>>

\* The kind is done with these entries; failed are the kinds that failed.
Done(p, kind, entries, failed) ==
    /\ poller[p].pc = "community"
    /\ kind \in poller[p].todo
    /\ Become(p, [pc |-> "community", previous |-> poller[p].previous,
                  draft |-> poller[p].draft \cup entries,
                  todo |-> poller[p].todo \ {kind}, failed |-> failed])
    /\ UNCHANGED <<released, file, booting, restarts>>

FetchCommunity(p, kind) ==
    Done(p, kind, CommunityReleases(kind), poller[p].failed)

\* Mutation: the kind of a repository that fails is dropped.
CommunityDropped(p, kind) ==
    Done(p, kind, {}, poller[p].failed \cup {kind})

\* Mutation: a community repository that fails ends the poll.
CommunityAborts(p, kind) ==
    /\ poller[p].pc = "community"
    /\ kind \in poller[p].todo
    /\ Become(p, IdlePoller)
    /\ UNCHANGED <<released, file, booting, restarts>>

\* A community repository that fails keeps what the poll had found.
CommunityFails(p, kind) ==
    Done(p, kind, EntriesOf(poller[p].previous, kind), poller[p].failed \cup {kind})

\* Sorted and written to a file of the poll's own.
WriteTemporary(p) ==
    /\ poller[p].pc = "community"
    /\ poller[p].todo = {}
    /\ Become(p, [poller[p] EXCEPT !.pc = "replace"])
    /\ UNCHANGED <<released, file, booting, restarts>>

Replace(p) ==
    /\ poller[p].pc = "replace"
    /\ file' = [releases |-> poller[p].draft]
    /\ Become(p, IdlePoller)
    /\ UNCHANGED <<released, booting, restarts>>

\* The main repository fails, or the write: the cache stays.
Fail(p) ==
    /\ poller[p].pc # "idle"
    /\ Become(p, IdlePoller)
    /\ UNCHANGED <<released, file, booting, restarts>>

\* The container stops with all that runs in it and starts again.
Restart ==
    /\ restarts < MaxRestarts
    /\ restarts' = restarts + 1
    /\ booting' = TRUE
    /\ poller' = [p \in Poller |-> IdlePoller]
    /\ UNCHANGED <<released, file>>

-----------------------------------------------------------------------------
Init ==
    /\ released = <<>>
    /\ poller = [p \in Poller |-> IdlePoller]
    /\ file \in NotPayload
    /\ booting = TRUE
    /\ restarts = 0

Poll(p) ==
    \/ Start(p) \/ Load(p) \/ FetchMain(p) \/ WriteTemporary(p) \/ Replace(p) \/ Fail(p)
    \/ \E kind \in CommunityKind : FetchCommunity(p, kind) \/ CommunityFails(p, kind)

Next ==
    \/ \E release \in Published : Publish(release)
    \/ BootPoll \/ BootSkip
    \/ \E p \in Poller : Poll(p)
    \/ Restart

Spec == Init /\ [][Next]_vars

\* The API starts and the timer polls every 15 minutes; the firmware repository
\* and the disk work again in the end; a community repository answers or fails,
\* and may fail for ever.
Fairness ==
    /\ WF_vars(BootPoll \/ BootSkip)
    /\ \A p \in Poller :
          /\ WF_vars(Start(p)) /\ SF_vars(Load(p)) /\ SF_vars(FetchMain(p))
          /\ SF_vars(\E kind \in CommunityKind :
                        FetchCommunity(p, kind) \/ CommunityFails(p, kind))
          /\ SF_vars(WriteTemporary(p)) /\ SF_vars(Replace(p))

FairSpec == Spec /\ Fairness

-----------------------------------------------------------------------------
(* Properties.                                                             *)

\* Types (firmware.py 125-171).
TypeOK ==
    /\ released \in Seq(Published)
    /\ poller \in [Poller -> PollerState]
    /\ file \in Payload \cup NotPayload
    /\ booting \in BOOLEAN
    /\ restarts \in Nat

\* What an entry says of a release is so.
EntryOK(r) ==
    /\ r.date \in DOMAIN released
    /\ released[r.date].repo = r.repo
    /\ released[r.date].full
    /\ \/ r.repo = MainRepo /\ r.kinds = released[r.date].descriptors
       \/ \E kind \in CommunityKind : r.repo = Source[kind] /\ r.kinds = {kind}

\* Every entry that is served is a release its repository published, neither
\* draft nor prerelease, for kinds it covers, through all carrying over from
\* file to file (firmware.py 75-149).
EntriesPublished == CacheIsCurrent => \A r \in file.releases : EntryOK(r)

\* The same of what polls hold.
DraftsPublished ==
    \A p \in Poller : \A r \in poller[p].previous \cup poller[p].draft : EntryOK(r)

\* A kind still to be asked for has no entries yet, one that failed has those
\* the poll found.
DraftsCarry ==
    \A p \in Poller :
        /\ poller[p].pc \in {"load", "main"} => poller[p].failed = {}
        /\ poller[p].todo \cap poller[p].failed = {}
        /\ \A kind \in poller[p].todo : EntriesOf(poller[p].draft, kind) = {}
        /\ \A kind \in poller[p].failed :
              EntriesOf(poller[p].draft, kind) = EntriesOf(poller[p].previous, kind)

\* The inductive invariant.
IInv == TypeOK /\ EntriesPublished /\ DraftsPublished /\ DraftsCarry

\* "A community repo that fails to fetch keeps its entries from the previous
\* cache" (firmware.py 17-18, README.md 125-126): the file a poll replaces and
\* the file it writes agree on every kind whose repository failed.
CarriedOver ==
    [][\A p \in Poller :
         poller[p].pc = "replace" /\ poller'[p] # poller[p] /\ file' # file
            => \A kind \in poller[p].failed :
                 EntriesOf(Usable(file'), kind) = EntriesOf(Usable(file), kind)]_vars

\* The answer for a kind never goes back to an older release, or to none,
\* through polls that fail in part, as long as every repository fits on a page
\* (firmware.py 137-152, 174-196).
OnePage == \A repo \in Repo : Cardinality(LaterIn(repo, 0)) <= HistoryLimit
AnswersNeverGoBack ==
    [][CacheIsCurrent /\ OnePage =>
         /\ CacheIsCurrent'
         /\ \A kind \in Kind :
              \A r \in Resolve(file, kind) :
                 \E q \in Resolve(file', kind) : q.date >= r.date]_vars

\* "never blocks the main feed": when GitHub is quiet the file ends up with all
\* of the firmware repository's releases, though community repositories fail
\* for ever (firmware.py 18, 137-148).
MainCatchesUp ==
    <>[](/\ CacheIsCurrent
         /\ {r \in file.releases : r.repo = MainRepo} = DescriptorReleases)

=============================================================================
