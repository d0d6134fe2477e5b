------------------------ MODULE FirmwareCacheProofs ------------------------
(* What FirmwareCache serves was published, and what a poll carries over   *)
(* is what its own reading of the file had, for every number of polls at   *)
(* the same time; for polls that do not overlap that is the file.          *)
EXTENDS FirmwareCache, FiniteInduction

USE PollersAreKnown, KindsAreKnown, MainIsNoCommunity, PageIsPositive,
    PayloadsAreServed

-----------------------------------------------------------------------------
(* One poll.                                                               *)

\* The conjuncts of DraftsPublished and DraftsCarry for one poll.
AllPublished(state) == \A r \in state.previous \cup state.draft : EntryOK(r)
Carries(state) ==
    /\ state.pc \in {"load", "main"} => state.failed = {}
    /\ state.todo \cap state.failed = {}
    /\ \A kind \in state.todo : EntriesOf(state.draft, kind) = {}
    /\ \A kind \in state.failed :
          EntriesOf(state.draft, kind) = EntriesOf(state.previous, kind)

\* A poll that has not asked yet holds nothing.
LEMMA FreshStates ==
    /\ IdlePoller \in PollerState /\ AllPublished(IdlePoller) /\ Carries(IdlePoller)
    /\ Begun \in PollerState /\ AllPublished(Begun) /\ Carries(Begun)
    /\ IdlePoller.pc = "idle" /\ Begun.pc = "load"
BY DEF IdlePoller, Begun, PollerState, Phases, Entries, AllPublished, Carries,
       EntriesOf

\* What changes when a poll changes its state.
LEMMA BecomeEffect ==
    ASSUME poller \in [Poller -> PollerState], NEW p \in Poller,
           NEW state \in PollerState, Become(p, state)
    PROVE  /\ poller' \in [Poller -> PollerState]
           /\ poller'[p] = state
           /\ \A q \in Poller \ {p} : poller'[q] = poller[q]
BY DEF Become

\* A step of one poll keeps the invariant if the state it ends with, and the
\* file, are fine.
LEMMA PollKeeps ==
    ASSUME IInv, NEW p \in Poller, NEW state \in PollerState, Become(p, state),
           UNCHANGED <<released, restarts>>, booting' \in BOOLEAN,
           AllPublished(state), Carries(state),
           file' \in Payload \cup NotPayload,
           file' \notin NotPayload => \A r \in file'.releases : EntryOK(r)
    PROVE  IInv'
<1>1. poller \in [Poller -> PollerState]
  BY DEF IInv, TypeOK
<1>2. /\ poller' \in [Poller -> PollerState]
      /\ poller'[p] = state
      /\ \A q \in Poller \ {p} : poller'[q] = poller[q]
  BY <1>1, BecomeEffect
<1>3. TypeOK'
  BY <1>2 DEF IInv, TypeOK
<1>4. \A r : EntryOK(r)' <=> EntryOK(r)
  BY DEF EntryOK
<1>5. DraftsPublished'
  BY <1>2, <1>4 DEF IInv, DraftsPublished, AllPublished
<1>6. DraftsCarry'
  BY <1>2 DEF IInv, DraftsCarry, Carries, EntriesOf
<1>7. EntriesPublished'
  BY <1>4 DEF EntriesPublished, CacheIsCurrent
<1> QED
  BY <1>3, <1>5, <1>6, <1>7 DEF IInv

-----------------------------------------------------------------------------
(* What the requests answer.                                               *)

\* The entries of the firmware repository are its full releases, and none of
\* them belongs to a community kind.
LEMMA MainEntries ==
    ASSUME released \in Seq(Published)
    PROVE  /\ DescriptorReleases \in Entries
           /\ \A r \in DescriptorReleases : EntryOK(r)
           /\ \A kind \in CommunityKind : EntriesOf(DescriptorReleases, kind) = {}
<1>1. \A k \in DOMAIN released : k \in Nat /\ released[k] \in Published
  OBVIOUS
<1>2. DescriptorReleases \in Entries
  BY <1>1 DEF DescriptorReleases, FetchReleases, Entries, Entry, Repo, Published
<1>3. \A r \in DescriptorReleases : EntryOK(r)
  BY DEF DescriptorReleases, FetchReleases, EntryOK
<1>4. \A r \in DescriptorReleases : r.repo = MainRepo
  BY DEF DescriptorReleases
<1> QED
  BY <1>2, <1>3, <1>4 DEF EntriesOf

\* The entries of a community repository cover its kind and no other.
LEMMA CommunityEntries ==
    ASSUME released \in Seq(Published), NEW kind \in CommunityKind
    PROVE  /\ CommunityReleases(kind) \in Entries
           /\ \A r \in CommunityReleases(kind) : EntryOK(r) /\ r.kinds = {kind}
<1>1. \A k \in DOMAIN released : k \in Nat
  OBVIOUS
<1>2. CommunityReleases(kind) \in Entries
  BY <1>1 DEF CommunityReleases, FetchReleases, Entries, Entry, Repo
<1>3. \A r \in CommunityReleases(kind) : EntryOK(r) /\ r.kinds = {kind}
  BY DEF CommunityReleases, FetchReleases, EntryOK
<1> QED
  BY <1>2, <1>3

\* So do the entries of that kind a poll carries over.
LEMMA CarriedEntries ==
    ASSUME NEW entries \in Entries, NEW kind \in CommunityKind,
           \A r \in entries : EntryOK(r)
    PROVE  /\ EntriesOf(entries, kind) \in Entries
           /\ \A r \in EntriesOf(entries, kind) : EntryOK(r) /\ r.kinds = {kind}
<1>1. ASSUME NEW r \in EntriesOf(entries, kind)
      PROVE  EntryOK(r) /\ r.kinds = {kind}
  <2>1. r \in entries /\ r.repo = Source[kind] /\ kind \in r.kinds
    BY DEF EntriesOf
  <2>2. EntryOK(r)
    BY <2>1
  <2>3. \E k \in CommunityKind : r.kinds = {k}
    BY <2>1, <2>2 DEF EntryOK
  <2> QED
    BY <2>1, <2>2, <2>3
<1> QED
  BY <1>1 DEF EntriesOf, Entries

\* A community kind is done with entries of its own.
LEMMA DoneKeeps ==
    ASSUME IInv, NEW p \in Poller, NEW kind \in CommunityKind,
           NEW entries \in Entries, NEW failed, Done(p, kind, entries, failed),
           \A r \in entries : EntryOK(r) /\ r.kinds = {kind},
           \/ failed = poller[p].failed
           \/ /\ failed = poller[p].failed \cup {kind}
              /\ entries = EntriesOf(poller[p].previous, kind)
    PROVE  IInv'
<1> DEFINE old == poller[p]
           new == [pc |-> "community", previous |-> old.previous,
                   draft |-> old.draft \cup entries,
                   todo |-> old.todo \ {kind}, failed |-> failed]
<1>1. /\ old \in PollerState
      /\ AllPublished(old) /\ Carries(old)
      /\ file \in Payload \cup NotPayload /\ booting \in BOOLEAN
      /\ file \notin NotPayload => \A r \in file.releases : EntryOK(r)
  BY DEF IInv, TypeOK, DraftsPublished, DraftsCarry, EntriesPublished,
         CacheIsCurrent, AllPublished, Carries
<1>2. /\ kind \in old.todo /\ Become(p, new)
      /\ UNCHANGED <<released, file, booting, restarts>>
  BY DEF Done
<1>3. /\ new.pc = "community" /\ new.previous = old.previous
      /\ new.draft = old.draft \cup entries
      /\ new.todo = old.todo \ {kind} /\ new.failed = failed
  OBVIOUS
<1>4. /\ old.previous \in Entries /\ old.draft \in Entries
      /\ old.todo \in SUBSET CommunityKind /\ old.failed \in SUBSET CommunityKind
  BY <1>1 DEF PollerState
<1>5. failed \in SUBSET CommunityKind
  BY <1>4
<1>6. new \in PollerState
  BY <1>4, <1>5 DEF PollerState, Phases, Entries
<1> HIDE DEF old, new
<1>7. AllPublished(new)
  BY <1>1, <1>3 DEF AllPublished
<1>8. \A other \in CommunityKind \ {kind} :
         EntriesOf(new.draft, other) = EntriesOf(old.draft, other)
  BY <1>3 DEF EntriesOf
<1>9. new.todo \cap new.failed = {}
  BY <1>1, <1>2, <1>3 DEF Carries, old
<1>10. \A k \in new.todo : EntriesOf(new.draft, k) = {}
  BY <1>1, <1>3, <1>4, <1>8 DEF Carries
<1>11. ASSUME NEW k \in new.failed
       PROVE  EntriesOf(new.draft, k) = EntriesOf(new.previous, k)
  <2>1. CASE k # kind
    <3>1. k \in old.failed /\ k \in CommunityKind
      BY <1>3, <1>4, <1>11, <2>1 DEF old
    <3> QED
      BY <1>1, <1>3, <1>8, <2>1, <3>1 DEF Carries
  <2>2. CASE k = kind
    <3>1. kind \notin old.failed
      BY <1>1, <1>2 DEF Carries
    <3>2. entries = EntriesOf(old.previous, kind)
      BY <1>3, <1>11, <2>2, <3>1 DEF old
    <3>3. EntriesOf(old.draft, kind) = {}
      BY <1>1, <1>2 DEF Carries
    <3> QED
      BY <1>3, <2>2, <3>2, <3>3 DEF EntriesOf
  <2> QED
    BY <2>1, <2>2
<1>12. Carries(new)
  BY <1>3, <1>9, <1>10, <1>11 DEF Carries
<1> QED
  BY <1>1, <1>2, <1>6, <1>7, <1>12, PollKeeps

-----------------------------------------------------------------------------
(* The invariant.                                                          *)

LEMMA InitHolds == Init => IInv
<1> SUFFICES ASSUME Init PROVE IInv
  OBVIOUS
<1>1. /\ poller \in [Poller -> PollerState]
      /\ \A p \in Poller : AllPublished(poller[p]) /\ Carries(poller[p])
  BY FreshStates DEF Init
<1>2. TypeOK
  BY <1>1 DEF Init, TypeOK
<1>3. DraftsPublished /\ DraftsCarry
  BY <1>1 DEF DraftsPublished, DraftsCarry, AllPublished, Carries
<1>4. EntriesPublished
  BY DEF Init, EntriesPublished, CacheIsCurrent
<1> QED
  BY <1>2, <1>3, <1>4 DEF IInv

\* A release more leaves what is known of the others.
LEMMA PublishKeeps ==
    ASSUME IInv, NEW release \in Published, Publish(release)
    PROVE  IInv'
<1>1. /\ released' = Append(released, release)
      /\ UNCHANGED <<poller, file, booting, restarts>>
      /\ released \in Seq(Published)
  BY DEF Publish, IInv, TypeOK
<1>2. /\ released' \in Seq(Published)
      /\ \A k \in DOMAIN released :
           k \in DOMAIN released' /\ released'[k] = released[k]
  BY <1>1
<1>3. \A r : EntryOK(r) => EntryOK(r)'
  BY <1>2 DEF EntryOK
<1>4. TypeOK'
  BY <1>1, <1>2 DEF IInv, TypeOK
<1>5. DraftsPublished'
  BY <1>1, <1>3 DEF IInv, DraftsPublished
<1>6. DraftsCarry'
  BY <1>1 DEF IInv, DraftsCarry, EntriesOf
<1>7. EntriesPublished'
  BY <1>1, <1>3 DEF IInv, EntriesPublished, CacheIsCurrent
<1> QED
  BY <1>4, <1>5, <1>6, <1>7 DEF IInv

\* When neither the polls nor the file nor GitHub change.
LEMMA QuietKeeps ==
    ASSUME IInv, UNCHANGED <<released, poller, file, restarts>>,
           booting' \in BOOLEAN
    PROVE  IInv'
BY DEF IInv, TypeOK, EntriesPublished, DraftsPublished, DraftsCarry, EntryOK,
       EntriesOf, CacheIsCurrent

LEMMA RestartKeeps ==
    ASSUME IInv, Restart
    PROVE  IInv'
<1>1. /\ UNCHANGED <<released, file>> /\ booting' = TRUE
      /\ restarts' = restarts + 1
      /\ poller' = [p \in Poller |-> IdlePoller]
  BY DEF Restart
<1>2. /\ poller' \in [Poller -> PollerState]
      /\ \A p \in Poller : poller'[p] = IdlePoller
  BY <1>1, FreshStates
<1>3. TypeOK'
  BY <1>1, <1>2 DEF IInv, TypeOK
<1>4. EntriesPublished'
  BY <1>1 DEF IInv, EntriesPublished, EntryOK, CacheIsCurrent
<1>5. DraftsPublished' /\ DraftsCarry'
  BY <1>2 DEF DraftsPublished, DraftsCarry, IdlePoller, EntriesOf
<1> QED
  BY <1>3, <1>4, <1>5 DEF IInv

LEMMA StepHolds == IInv /\ [Next]_vars => IInv'
<1> SUFFICES ASSUME IInv, [Next]_vars PROVE IInv'
  OBVIOUS
<1>1. /\ released \in Seq(Published)
      /\ poller \in [Poller -> PollerState]
      /\ file \in Payload \cup NotPayload
      /\ booting \in BOOLEAN
      /\ \A p \in Poller : AllPublished(poller[p]) /\ Carries(poller[p])
      /\ file \notin NotPayload => \A r \in file.releases : EntryOK(r)
  BY DEF IInv, TypeOK, DraftsPublished, DraftsCarry, EntriesPublished,
         CacheIsCurrent, AllPublished, Carries
<1>2. ASSUME NEW release \in Published, Publish(release)
      PROVE  IInv'
  BY <1>2, PublishKeeps
<1>3. CASE BootPoll
  BY <1>1, <1>3, FreshStates, PollKeeps DEF BootPoll
<1>4. CASE BootSkip
  BY <1>4, QuietKeeps DEF BootSkip
<1>5. CASE Restart
  BY <1>5, RestartKeeps
<1>6. ASSUME NEW p \in Poller, Poll(p)
      PROVE  IInv'
  <2> DEFINE old == poller[p]
  <2>1. old \in PollerState /\ AllPublished(old) /\ Carries(old)
    BY <1>1
  <2>2. /\ old.previous \in Entries /\ old.draft \in Entries
        /\ old.todo \in SUBSET CommunityKind /\ old.failed \in SUBSET CommunityKind
    BY <2>1 DEF PollerState
  <2>3. CASE Start(p)
    BY <1>1, <2>3, FreshStates, PollKeeps DEF Start
  <2>4. CASE Load(p)
    <3> DEFINE new == [old EXCEPT !.pc = "main", !.previous = Usable(file)]
    <3>1. /\ old.pc = "load" /\ Become(p, new)
          /\ UNCHANGED <<released, file, booting, restarts>>
      BY <2>4 DEF Load
    <3>2. Usable(file) \in Entries /\ \A r \in Usable(file) : EntryOK(r)
      BY <1>1 DEF Usable, Payload, Entries
    <3> HIDE DEF old
    <3>3. /\ new \in PollerState
          /\ new.pc = "main" /\ new.previous = Usable(file) /\ new.draft = old.draft
          /\ new.todo = old.todo /\ new.failed = old.failed
      BY <2>1, <3>2 DEF PollerState, Phases
    <3> HIDE DEF new
    <3>4. AllPublished(new)
      BY <2>1, <3>2, <3>3 DEF AllPublished
    <3>5. Carries(new)
      BY <2>1, <3>1, <3>3 DEF Carries
    <3> QED
      BY <1>1, <3>1, <3>3, <3>4, <3>5, PollKeeps
  <2>5. CASE FetchMain(p)
    <3> DEFINE new == [old EXCEPT !.pc = "community", !.draft = DescriptorReleases]
    <3>1. /\ old.pc = "main" /\ Become(p, new)
          /\ UNCHANGED <<released, file, booting, restarts>>
      BY <2>5 DEF FetchMain
    <3>2. /\ DescriptorReleases \in Entries
          /\ \A r \in DescriptorReleases : EntryOK(r)
          /\ \A kind \in CommunityKind : EntriesOf(DescriptorReleases, kind) = {}
      BY <1>1, MainEntries
    <3> HIDE DEF old
    <3>3. /\ new \in PollerState
          /\ new.pc = "community" /\ new.draft = DescriptorReleases
          /\ new.previous = old.previous
          /\ new.todo = old.todo /\ new.failed = old.failed
      BY <2>1, <3>2 DEF PollerState, Phases
    <3> HIDE DEF new
    <3>4. AllPublished(new)
      BY <2>1, <3>2, <3>3 DEF AllPublished
    <3>5. Carries(new)
      BY <2>1, <2>2, <3>1, <3>2, <3>3 DEF Carries
    <3> QED
      BY <1>1, <3>1, <3>3, <3>4, <3>5, PollKeeps
  <2>6. ASSUME NEW kind \in CommunityKind, FetchCommunity(p, kind)
        PROVE  IInv'
    BY <1>1, <2>6, CommunityEntries, DoneKeeps DEF FetchCommunity
  <2>7. ASSUME NEW kind \in CommunityKind, CommunityFails(p, kind)
        PROVE  IInv'
    <3>1. \A r \in old.previous : EntryOK(r)
      BY <2>1 DEF AllPublished
    <3> DEFINE entries == EntriesOf(old.previous, kind)
    <3>2. /\ entries \in Entries
          /\ \A r \in entries : EntryOK(r) /\ r.kinds = {kind}
      BY <2>2, <3>1, CarriedEntries
    <3>3. Done(p, kind, entries, old.failed \cup {kind})
      BY <2>7 DEF CommunityFails
    <3> QED
      BY <3>2, <3>3, DoneKeeps
  <2>8. CASE WriteTemporary(p)
    <3> DEFINE new == [old EXCEPT !.pc = "replace"]
    <3>1. Become(p, new) /\ UNCHANGED <<released, file, booting, restarts>>
      BY <2>8 DEF WriteTemporary
    <3> HIDE DEF old
    <3>2. /\ new \in PollerState
          /\ new.pc = "replace" /\ new.draft = old.draft
          /\ new.previous = old.previous
          /\ new.todo = old.todo /\ new.failed = old.failed
      BY <2>1 DEF PollerState, Phases
    <3> HIDE DEF new
    <3>3. AllPublished(new) /\ Carries(new)
      BY <2>1, <3>2 DEF AllPublished, Carries
    <3> QED
      BY <1>1, <3>1, <3>2, <3>3, PollKeeps
  <2>9. CASE Replace(p)
    <3>1. /\ file' = [releases |-> old.draft] /\ Become(p, IdlePoller)
          /\ UNCHANGED <<released, booting, restarts>>
      BY <2>9 DEF Replace
    <3>2. file' \in Payload /\ file'.releases = old.draft
      BY <2>2, <3>1 DEF Payload
    <3>3. \A r \in old.draft : EntryOK(r)
      BY <2>1 DEF AllPublished
    <3> QED
      BY <1>1, <3>1, <3>2, <3>3, FreshStates, PollKeeps
  <2>10. CASE Fail(p)
    BY <1>1, <2>10, FreshStates, PollKeeps DEF Fail
  <2> QED
    BY <1>6, <2>3, <2>4, <2>5, <2>6, <2>7, <2>8, <2>9, <2>10 DEF Poll
<1>7. CASE UNCHANGED vars
  BY <1>1, <1>7, QuietKeeps DEF vars
<1> QED
  BY <1>2, <1>3, <1>4, <1>5, <1>6, <1>7 DEF Next

\* What polls hold and what is served was published, and a kind whose
\* repository failed has what the poll found in the file (firmware.py 125-162).
THEOREM Invariance == Spec => []IInv
<1>1. Init => IInv
  BY InitHolds
<1>2. IInv /\ [Next]_vars => IInv'
  BY StepHolds
<1> QED
  BY <1>1, <1>2, PTL DEF Spec

\* Types (firmware.py 125-171).
THEOREM TypeCorrect == Spec => []TypeOK
<1>1. IInv => TypeOK
  BY DEF IInv
<1> QED
  BY <1>1, Invariance, PTL

\* Every entry that is served is a release its repository published, neither
\* draft nor prerelease (firmware.py 75-149).
THEOREM PublishedHolds == Spec => []EntriesPublished
<1>1. IInv => EntriesPublished
  BY DEF IInv
<1> QED
  BY <1>1, Invariance, PTL

-----------------------------------------------------------------------------
(* Polls that do not overlap.                                              *)

\* What the poll found is what the file still is.
PreviousIsFile ==
    \A p \in Poller : poller[p].pc \in {"main", "community", "replace"}
                        => poller[p].previous = Usable(file)

LEMMA AloneKeeps ==
    ASSUME Poller = {Boot}, IInv, PreviousIsFile, [Next]_vars
    PROVE  PreviousIsFile'
<1>1. poller \in [Poller -> PollerState]
  BY DEF IInv, TypeOK
<1>2. CASE \/ UNCHANGED vars
           \/ \E release \in Published : Publish(release)
           \/ BootSkip
  BY <1>2 DEF vars, Publish, BootSkip, PreviousIsFile, Usable
<1>3. CASE Restart
  BY <1>3 DEF Restart, IdlePoller, PreviousIsFile
<1>4. CASE BootPoll
  BY <1>1, <1>4, FreshStates, BecomeEffect DEF BootPoll, PreviousIsFile
<1>5. ASSUME NEW p \in Poller, Poll(p)
      PROVE  PreviousIsFile'
  <2> DEFINE old == poller[p]
  <2>1. old \in PollerState /\ p = Boot
    BY <1>1
  <2>2. CASE Start(p)
    BY <1>1, <2>1, <2>2, FreshStates, BecomeEffect DEF Start, PreviousIsFile
  <2>3. CASE Replace(p) \/ Fail(p)
    BY <1>1, <2>1, <2>3, FreshStates, BecomeEffect DEF Replace, Fail, PreviousIsFile
  <2>4. CASE Load(p)
    <3>1. poller'[p] = [old EXCEPT !.pc = "main", !.previous = Usable(file)]
      BY <1>1, <2>4 DEF Load, Become
    <3>2. UNCHANGED file
      BY <2>4 DEF Load
    <3> HIDE DEF old
    <3>3. poller'[p].previous = Usable(file)
      BY <2>1, <3>1 DEF PollerState
    <3> QED
      BY <2>1, <3>2, <3>3 DEF PreviousIsFile, Usable
  <2>5. CASE \/ FetchMain(p) \/ WriteTemporary(p)
             \/ \E kind \in CommunityKind : FetchCommunity(p, kind) \/ CommunityFails(p, kind)
    <3>1. old.pc \in {"main", "community"} /\ UNCHANGED file
      BY <2>5 DEF FetchMain, WriteTemporary, FetchCommunity, CommunityFails, Done
    <3>2. poller'[p].previous = old.previous
      <4>1. CASE FetchMain(p)
        BY <1>1, <2>1, <4>1 DEF FetchMain, Become, PollerState
      <4>2. CASE WriteTemporary(p)
        BY <1>1, <2>1, <4>2 DEF WriteTemporary, Become, PollerState
      <4>3. ASSUME NEW kind \in CommunityKind,
                   FetchCommunity(p, kind) \/ CommunityFails(p, kind)
            PROVE  poller'[p].previous = old.previous
        <5>1. PICK entries, failed : Done(p, kind, entries, failed)
          BY <4>3 DEF FetchCommunity, CommunityFails
        <5> QED
          BY <1>1, <5>1 DEF Done, Become
      <4> QED
        BY <2>5, <4>1, <4>2, <4>3
    <3> QED
      BY <2>1, <3>1, <3>2 DEF PreviousIsFile, Usable
  <2> QED
    BY <1>5, <2>2, <2>3, <2>4, <2>5 DEF Poll
<1> QED
  BY <1>2, <1>3, <1>4, <1>5 DEF Next

\* When polls do not overlap, a kind whose repository failed keeps the entries
\* it had in the file (firmware.py 125-162).
THEOREM CarryHolds == ASSUME Poller = {Boot} PROVE Spec => CarriedOver
<1>1. Init => PreviousIsFile
  BY DEF Init, IdlePoller, PreviousIsFile
<1>2. IInv /\ PreviousIsFile /\ [Next]_vars => PreviousIsFile'
  BY AloneKeeps
<1>3. /\ IInv /\ PreviousIsFile /\ [Next]_vars
      => [\A p \in Poller :
            poller[p].pc = "replace" /\ poller'[p] # poller[p] /\ file' # file
              => \A kind \in poller[p].failed :
                   EntriesOf(Usable(file'), kind) = EntriesOf(Usable(file), kind)]_vars
  <2> SUFFICES ASSUME IInv, PreviousIsFile, [Next]_vars, NEW p \in Poller,
                      poller[p].pc = "replace", file' # file,
                      NEW kind \in poller[p].failed
               PROVE  EntriesOf(Usable(file'), kind) = EntriesOf(Usable(file), kind)
    OBVIOUS
  <2>1. poller \in [Poller -> PollerState]
    BY DEF IInv, TypeOK
  <2>2. Replace(p)
    <3>1. \E q \in Poller : Replace(q)
      BY DEF Next, Poll, Publish, BootPoll, BootSkip, Restart, Start, Load,
             FetchMain, FetchCommunity, CommunityFails, Done, WriteTemporary, Fail, vars
    <3> QED
      BY <3>1
  <2>3. file' = [releases |-> poller[p].draft] /\ poller[p].draft \in Entries
    BY <2>1, <2>2 DEF Replace, PollerState
  <2>4. Usable(file') = poller[p].draft
    BY <2>3 DEF Usable, Payload
  <2>5. EntriesOf(poller[p].draft, kind) = EntriesOf(poller[p].previous, kind)
    BY DEF IInv, DraftsCarry
  <2> QED
    BY <2>4, <2>5 DEF PreviousIsFile
<1> QED
  BY <1>1, <1>2, <1>3, Invariance, PTL DEF Spec, CarriedOver

-----------------------------------------------------------------------------
(* Answers.                                                                *)

\* While all of a repository fits on a page, the page has all of it.
LEMMA PageHasAll ==
    ASSUME released \in Seq(Published), OnePage, NEW repo \in Repo,
           NEW k \in DOMAIN released, released[k].repo = repo, released[k].full
    PROVE  k \in FetchReleases(repo)
<1>1. Len(released) \in Nat /\ DOMAIN released = 1..Len(released)
  OBVIOUS
<1>2. IsFiniteSet(LaterIn(repo, 0))
  <2>1. IsFiniteSet(1..Len(released))
    BY <1>1, FS_Interval
  <2>2. LaterIn(repo, 0) \in SUBSET (1..Len(released))
    BY <1>1 DEF LaterIn
  <2> QED
    BY <2>1, <2>2, FS_Subset
<1>3. k \in LaterIn(repo, 0)
  BY <1>1 DEF LaterIn
<1> DEFINE others == LaterIn(repo, 0) \ {k}
<1>4. /\ IsFiniteSet(others)
      /\ Cardinality(others) = Cardinality(LaterIn(repo, 0)) - 1
  BY <1>2, <1>3, FS_RemoveElement
<1>5. LaterIn(repo, k) \in SUBSET others
  BY <1>1 DEF LaterIn
<1>6. /\ IsFiniteSet(LaterIn(repo, k))
      /\ Cardinality(LaterIn(repo, k)) <= Cardinality(others)
  BY <1>4, <1>5, FS_Subset
<1>7. /\ Cardinality(LaterIn(repo, k)) \in Nat /\ Cardinality(others) \in Nat
      /\ Cardinality(LaterIn(repo, 0)) \in Nat
  BY <1>2, <1>4, <1>6, FS_CardinalityType
<1>8. Cardinality(LaterIn(repo, 0)) <= HistoryLimit
  BY DEF OnePage
<1> HIDE DEF others
<1>9. Cardinality(LaterIn(repo, k)) < HistoryLimit
  BY <1>4, <1>6, <1>7, <1>8
<1> QED
  BY <1>9 DEF FetchReleases

\* Releases are only added, so what fits now has always fitted.
LEMMA OnePageWasBefore ==
    ASSUME released \in Seq(Published), NEW release, release \in Published,
           released' = Append(released, release), OnePage'
    PROVE  OnePage
<1> SUFFICES ASSUME NEW repo \in Repo
             PROVE  Cardinality(LaterIn(repo, 0)) <= HistoryLimit
  BY DEF OnePage
<1>1. Len(released') = Len(released) + 1 /\ Len(released) \in Nat
  OBVIOUS
<1> DEFINE now == {j \in DOMAIN released' : released'[j].repo = repo /\ j > 0}
<1>2. now = LaterIn(repo, 0)'
  BY DEF LaterIn
<1>3. IsFiniteSet(now)
  <2>1. IsFiniteSet(1..Len(released'))
    BY <1>1, FS_Interval
  <2>2. now \in SUBSET (1..Len(released'))
    BY <1>1
  <2> QED
    BY <2>1, <2>2, FS_Subset
<1>4. LaterIn(repo, 0) \in SUBSET now
  BY <1>1 DEF LaterIn
<1>5. /\ IsFiniteSet(LaterIn(repo, 0))
      /\ Cardinality(LaterIn(repo, 0)) <= Cardinality(now)
  BY <1>3, <1>4, FS_Subset
<1>6. Cardinality(LaterIn(repo, 0)) \in Nat /\ Cardinality(now) \in Nat
  BY <1>3, <1>5, FS_CardinalityType
<1>7. Cardinality(now) <= HistoryLimit
  BY <1>2 DEF OnePage
<1> HIDE DEF now
<1> QED
  BY <1>5, <1>6, <1>7

\* An entry that is served is an entry of the page its repository answers with.
LEMMA FileOnPage ==
    ASSUME IInv, OnePage, NEW r \in Usable(file)
    PROVE  /\ r.repo = MainRepo /\ r.kinds # {} => r \in DescriptorReleases
           /\ \A kind \in CommunityKind :
                r \in EntriesOf(Usable(file), kind) => r \in CommunityReleases(kind)
           /\ r.repo # MainRepo
                => \E kind \in CommunityKind : r \in EntriesOf(Usable(file), kind)
           /\ r \in Entry /\ r.date \in DOMAIN released
<1>1. /\ released \in Seq(Published)
      /\ file \in Payload \cup NotPayload /\ Usable(file) # {}
      /\ file \notin NotPayload => \A q \in file.releases : EntryOK(q)
  BY DEF IInv, TypeOK, EntriesPublished, CacheIsCurrent
<1>2. r \in Entry /\ EntryOK(r)
  BY <1>1 DEF Usable, Payload, Entries
<1>3. /\ r.date \in DOMAIN released /\ released[r.date].repo = r.repo
      /\ released[r.date].full /\ r.repo \in Repo
      /\ \/ r.repo = MainRepo /\ r.kinds = released[r.date].descriptors
         \/ \E kind \in CommunityKind : r.repo = Source[kind] /\ r.kinds = {kind}
  BY <1>2 DEF Entry, EntryOK
<1>4. r.date \in FetchReleases(r.repo)
  BY <1>1, <1>3, PageHasAll
<1>5. \A repo, kinds : r.repo = repo /\ r.kinds = kinds
                         => r = [repo |-> repo, date |-> r.date, kinds |-> kinds]
  BY <1>2 DEF Entry
<1>6. ASSUME r.repo = MainRepo, r.kinds # {}
      PROVE  r \in DescriptorReleases
  <2>1. r.kinds = released[r.date].descriptors
    BY <1>3, <1>6
  <2> QED
    BY <1>4, <1>5, <1>6, <2>1 DEF DescriptorReleases
<1>7. ASSUME NEW kind \in CommunityKind, r \in EntriesOf(Usable(file), kind)
      PROVE  r \in CommunityReleases(kind)
  <2>1. r.repo = Source[kind] /\ kind \in r.kinds
    BY <1>7 DEF EntriesOf
  <2>2. r.kinds = {kind}
    BY <1>3, <2>1
  <2> QED
    BY <1>4, <1>5, <2>1, <2>2 DEF CommunityReleases
<1>8. ASSUME r.repo # MainRepo
      PROVE  \E kind \in CommunityKind : r \in EntriesOf(Usable(file), kind)
  <2>1. PICK kind \in CommunityKind : r.repo = Source[kind] /\ r.kinds = {kind}
    BY <1>3, <1>8
  <2> QED
    BY <2>1 DEF EntriesOf
<1> QED
  BY <1>2, <1>3, <1>6, <1>7, <1>8

\* What a poll has asked for so far leaves out nothing that is served.
Keeps(state, served) ==
    /\ state.pc \in {"community", "replace"} =>
          \A r \in served :
             /\ r.repo = MainRepo /\ r.kinds # {} => r \in state.draft
             /\ \A kind \in CommunityKind \ state.todo :
                   r \in EntriesOf(served, kind) => r \in state.draft
    /\ state.pc = "main" => state.todo = CommunityKind
    /\ state.pc = "load" => state.todo = CommunityKind
    /\ state.pc = "replace" => state.todo = {}

NothingLost == OnePage => \A p \in Poller : Keeps(poller[p], Usable(file))

LEMMA NothingLostKeeps ==
    ASSUME Poller = {Boot}, IInv, PreviousIsFile, NothingLost, [Next]_vars
    PROVE  NothingLost'
<1>1. /\ poller \in [Poller -> PollerState]
      /\ released \in Seq(Published)
  BY DEF IInv, TypeOK
<1>2. ASSUME NEW release \in Published, Publish(release)
      PROVE  NothingLost'
  <2>1. released' = Append(released, release) /\ UNCHANGED <<poller, file>>
    BY <1>2 DEF Publish
  <2>2. OnePage' => OnePage
    BY <1>1, <2>1, OnePageWasBefore
  <2> QED
    BY <2>1, <2>2 DEF NothingLost, Keeps, Usable, EntriesOf
<1>3. CASE UNCHANGED vars \/ BootSkip
  BY <1>3 DEF vars, BootSkip, NothingLost, OnePage, LaterIn, Keeps, Usable, EntriesOf
<1>4. CASE Restart
  BY <1>4 DEF Restart, IdlePoller, NothingLost, Keeps
<1>5. ASSUME NEW state, poller' = [poller EXCEPT ![Boot] = state],
             UNCHANGED released, OnePage => Keeps(state, Usable(file'))
      PROVE  NothingLost'
  <2>1. poller'[Boot] = state
    BY <1>1, <1>5
  <2>2. OnePage' <=> OnePage
    BY <1>5 DEF OnePage, LaterIn
  <2> QED
    BY <1>5, <2>1, <2>2 DEF NothingLost, Keeps
<1>6. \A served : Keeps(Begun, served) /\ Keeps(IdlePoller, served)
  BY DEF Keeps, Begun, IdlePoller
<1>7. CASE BootPoll
  BY <1>5, <1>6, <1>7 DEF BootPoll, Become
<1>8. ASSUME NEW p \in Poller, Poll(p)
      PROVE  NothingLost'
  <2> DEFINE old == poller[p]
  <2>1. old \in PollerState /\ p = Boot
    BY <1>1
  <2>2. /\ OnePage => Keeps(old, Usable(file))
        /\ old.pc \in {"main", "community", "replace"} => old.previous = Usable(file)
    BY <2>1 DEF NothingLost, PreviousIsFile
  <2>3. CASE Start(p) \/ Replace(p) \/ Fail(p)
    BY <1>5, <1>6, <2>1, <2>3 DEF Start, Replace, Fail, Become
  <2>4. CASE Load(p)
    <3> DEFINE new == [old EXCEPT !.pc = "main", !.previous = Usable(file)]
    <3>1. /\ old.pc = "load" /\ Become(p, new) /\ UNCHANGED released
      BY <2>4 DEF Load
    <3> HIDE DEF old
    <3>2. new.pc = "main" /\ new.todo = old.todo
      BY <2>1 DEF PollerState
    <3> HIDE DEF new
    <3>3. OnePage => Keeps(new, Usable(file'))
      BY <2>2, <3>1, <3>2 DEF Keeps
    <3> QED
      BY <1>5, <2>1, <3>1, <3>3 DEF Become
  <2>5. CASE FetchMain(p)
    <3> DEFINE new == [old EXCEPT !.pc = "community", !.draft = DescriptorReleases]
    <3>1. /\ old.pc = "main" /\ Become(p, new) /\ UNCHANGED <<released, file>>
      BY <2>5 DEF FetchMain
    <3> HIDE DEF old
    <3>2. new.pc = "community" /\ new.todo = old.todo /\ new.draft = DescriptorReleases
      BY <2>1 DEF PollerState
    <3> HIDE DEF new
    <3>3. ASSUME OnePage PROVE Keeps(new, Usable(file))
      BY <2>2, <3>1, <3>2, <3>3, FileOnPage DEF Keeps
    <3>4. OnePage => Keeps(new, Usable(file'))
      BY <3>1, <3>2, <3>3 DEF Keeps, Usable, EntriesOf
    <3> QED
      BY <1>5, <2>1, <3>1, <3>4 DEF Become
  <2>6. ASSUME NEW kind \in CommunityKind,
               FetchCommunity(p, kind) \/ CommunityFails(p, kind)
        PROVE  NothingLost'
    <3>1. PICK entries, failed :
            /\ Done(p, kind, entries, failed)
            /\ \/ entries = CommunityReleases(kind)
               \/ entries = EntriesOf(old.previous, kind)
      BY <2>6 DEF FetchCommunity, CommunityFails
    <3> DEFINE new == [pc |-> "community", previous |-> old.previous,
                       draft |-> old.draft \cup entries,
                       todo |-> old.todo \ {kind}, failed |-> failed]
    <3>2. /\ old.pc = "community" /\ Become(p, new) /\ UNCHANGED <<released, file>>
      BY <3>1 DEF Done
    <3>3. /\ new.pc = "community" /\ new.todo = old.todo \ {kind}
          /\ new.draft = old.draft \cup entries
      OBVIOUS
    <3> HIDE DEF old, new
    <3>4. ASSUME OnePage, NEW r \in Usable(file), r \in EntriesOf(Usable(file), kind)
          PROVE  r \in entries
      <4>1. r \in CommunityReleases(kind)
        BY <3>4, FileOnPage
      <4>2. old.previous = Usable(file)
        BY <2>2, <3>2
      <4> QED
        BY <3>1, <3>4, <4>1, <4>2
    <3>5. ASSUME OnePage PROVE Keeps(new, Usable(file))
      BY <2>2, <3>2, <3>3, <3>4, <3>5 DEF Keeps
    <3>6. OnePage => Keeps(new, Usable(file'))
      BY <3>2, <3>3, <3>5 DEF Keeps, Usable, EntriesOf
    <3> QED
      BY <1>5, <2>1, <3>2, <3>6 DEF Become
  <2>7. CASE WriteTemporary(p)
    <3> DEFINE new == [old EXCEPT !.pc = "replace"]
    <3>1. /\ old.pc = "community" /\ old.todo = {} /\ Become(p, new)
          /\ UNCHANGED <<released, file>>
      BY <2>7 DEF WriteTemporary
    <3> HIDE DEF old
    <3>2. new.pc = "replace" /\ new.todo = old.todo /\ new.draft = old.draft
      BY <2>1 DEF PollerState
    <3> HIDE DEF new
    <3>3. OnePage => Keeps(new, Usable(file'))
      BY <2>2, <3>1, <3>2 DEF Keeps, Usable, EntriesOf
    <3> QED
      BY <1>5, <2>1, <3>1, <3>3 DEF Become
  <2> QED
    BY <1>8, <2>3, <2>4, <2>5, <2>6, <2>7 DEF Poll
<1> QED
  BY <1>2, <1>3, <1>4, <1>7, <1>8 DEF Next

\* When polls do not overlap and every repository fits on a page, the answer for
\* a kind never goes back to an older release, or to none, whatever community
\* repositories fail in between (firmware.py 137-152, 174-196).
THEOREM AnswersHold == ASSUME Poller = {Boot} PROVE Spec => AnswersNeverGoBack
<1>1. Init => PreviousIsFile /\ NothingLost
  BY DEF Init, IdlePoller, PreviousIsFile, NothingLost, Keeps
<1>2. IInv /\ PreviousIsFile /\ NothingLost /\ [Next]_vars
        => PreviousIsFile' /\ NothingLost'
  BY AloneKeeps, NothingLostKeeps
<1>3. /\ IInv /\ PreviousIsFile /\ NothingLost /\ [Next]_vars
      => [CacheIsCurrent /\ OnePage =>
            /\ CacheIsCurrent'
            /\ \A kind \in Kind :
                 \A r \in Resolve(file, kind) :
                    \E q \in Resolve(file', kind) : q.date >= r.date]_vars
  <2> SUFFICES ASSUME IInv, PreviousIsFile, NothingLost, [Next]_vars,
                      CacheIsCurrent, OnePage
               PROVE  /\ CacheIsCurrent'
                      /\ \A kind \in Kind :
                           \A r \in Resolve(file, kind) :
                              \E q \in Resolve(file', kind) : q.date >= r.date
    OBVIOUS
  <2>1. /\ released \in Seq(Published)
        /\ poller \in [Poller -> PollerState]
        /\ file \in Payload /\ Usable(file) = file.releases
    BY DEF IInv, TypeOK, CacheIsCurrent, Usable
  <2>2. \A r \in file.releases : r.date \in Nat
    BY <2>1 DEF Payload, Entries, Entry
  <2>3. CASE UNCHANGED file
    <3>1. ASSUME NEW kind \in Kind, NEW r \in Resolve(file, kind)
          PROVE  \E q \in Resolve(file', kind) : q.date >= r.date
      <4>1. r.date \in Nat
        BY <2>2 DEF Resolve
      <4> QED
        BY <2>3, <4>1
    <3> QED
      BY <2>3, <3>1 DEF CacheIsCurrent
  <2>4. CASE file' # file
    <3>1. PICK p \in Poller : Replace(p)
      BY <2>4 DEF Next, Poll, Publish, BootPoll, BootSkip, Restart, Start, Load,
             FetchMain, FetchCommunity, CommunityFails, Done, WriteTemporary, Fail, vars
    <3> DEFINE draft == poller[p].draft
    <3>2. /\ poller[p].pc = "replace" /\ file' = [releases |-> draft]
          /\ draft \in Entries /\ \A r \in draft : EntryOK(r)
      BY <2>1, <3>1 DEF Replace, PollerState, IInv, DraftsPublished
    <3>3. file' \in Payload /\ file'.releases = draft
      BY <3>2 DEF Payload
    <3>4. Keeps(poller[p], Usable(file))
      BY DEF NothingLost
    <3>5. ASSUME NEW r \in file.releases, r.kinds # {}
          PROVE  r \in draft
      <4>1. CASE r.repo = MainRepo
        BY <2>1, <3>2, <3>4, <3>5, <4>1 DEF Keeps
      <4>2. CASE r.repo # MainRepo
        <5>1. PICK kind \in CommunityKind : r \in EntriesOf(Usable(file), kind)
          BY <2>1, <4>2, FileOnPage
        <5> QED
          BY <2>1, <3>2, <3>4, <5>1 DEF Keeps
      <4> QED
        BY <4>1, <4>2
    <3>6. ASSUME NEW kind \in Kind, NEW r \in Resolve(file, kind)
          PROVE  \E q \in Resolve(file', kind) : q.date >= r.date
      <4> HIDE DEF draft
      <4>1. r \in draft /\ kind \in r.kinds
        BY <3>5 DEF Resolve
      <4> DEFINE covering == {q \in draft : kind \in q.kinds}
                 dates == {q.date : q \in covering}
      <4>2. \A q \in draft : q.date \in 1..Len(released)
        BY <2>1, <3>2 DEF EntryOK
      <4>3. dates \in SUBSET Nat /\ dates # {} /\ \A d \in dates : d <= Len(released)
        BY <4>1, <4>2
      <4>4. PICK last \in dates : \A d \in dates : d <= last
        <5>1. Len(released) \in Nat
          BY <2>1
        <5> HIDE DEF dates
        <5> QED
          BY <4>3, <5>1, LargestExists
      <4>5. PICK q \in covering : q.date = last
        OBVIOUS
      <4>6. q \in Resolve(file', kind)
        BY <3>3, <4>4, <4>5 DEF Resolve
      <4>7. r.date \in dates
        BY <4>1
      <4> QED
        BY <4>2, <4>4, <4>5, <4>6, <4>7
    <3> QED
      BY <3>3, <3>6 DEF CacheIsCurrent
  <2> QED
    BY <2>3, <2>4
<1> QED
  BY <1>1, <1>2, <1>3, Invariance, PTL DEF Spec, AnswersNeverGoBack
=============================================================================
