------------------------ MODULE ArenaAvailabilityProofs ------------------------
(***************************************************************************)
(* Proofs about ArenaAvailability: the index is of its revision, for every *)
(* finite set of charts and any number of revisions, cuts and faults; and  *)
(* it changes by resets only.                                              *)
(*                                                                         *)
(* What makes the property inductive is that a transfer, on its way or     *)
(* being collected, leads from its base to its target in the history of    *)
(* the common charts (Leads), so that one that is complete when its        *)
(* commit arrives can be applied whatever has happened to the room since.  *)
(***************************************************************************)
EXTENDS ArenaAvailability, SequenceTheorems, FiniteSetTheorems, TLAPS

-----------------------------------------------------------------------------
(* The inductive invariant.                                                *)

\* A declared transfer t leads to the charts of its target, from nothing or from
\* the charts of its base.
Leads(t, cs) ==
    /\ t.mode \in {"Reset", "Delta"}
    /\ t.target \in 1..Len(cs)
    /\ t.mode = "Reset" => t.add = cs[t.target]
    /\ t.mode = "Delta" =>
          /\ t.base \in 1..Len(cs)
          /\ (cs[t.base] \ t.remove) \cup t.add = cs[t.target]

\* The index of c is of its revision, and so is what it collects.
Sound(c, cs) ==
    /\ c \in Client
    /\ c.revision \in 0..Len(cs) /\ c.selfRev \in 0..Len(cs) /\ c.roomRev \in 0..Len(cs)
    /\ c.state = "Ready" => c.revision \in 1..Len(cs) /\ c.charts = cs[c.revision]
    /\ c.transfer # NoTransfer => Leads(c.transfer, cs)

Declarations ==
    [type : {"Begin"}, id : Nat, base : Nat, target : Nat, mode : {"Reset", "Delta"},
     add : SUBSET Charts, remove : SUBSET Charts]

Pieces == [type : {"Chunk"}, id : Nat, kind : {"Add", "Remove"}, index : Nat, chart : Charts]
Commits == [type : {"Commit"}, id : Nat]
Errors == [type : {"CommandError"}, id : Nat]
Updates(n) == [type : {"MemberUpdated", "SelectionChanged"}, rev : 0..n]

\* Messages to the client, and from it.
Incoming(cs) ==
    {m \in Declarations : Leads(m, cs)} \cup Pieces \cup Commits \cup Errors
       \cup Updates(Len(cs))

Requests(n) == [type : {"Resync", "Applied"}, id : Nat, rev : 0..n]

OthersTyped ==
    /\ common \in Seq(SUBSET Charts) /\ Revision # 0
    /\ told \in 0..Revision
    /\ used \in [cuts : 0..MaxCuts, faults : 0..MaxFaults, transfers : Nat]
    /\ inbox \in Seq(Incoming(common))
    /\ outbox \in Seq(Requests(Revision))

IInv == OthersTyped /\ Sound(client, common)

-----------------------------------------------------------------------------
(* What the session and the index do to the client.                        *)

LEMMA NoTransferTyped == NoTransfer \in Transfer
  BY DEF NoTransfer, Transfer

\* A step of the client alone that ends in c.
LEMMA BecomesSound ==
    ASSUME NEW c, NEW ms \in Seq(Requests(Revision)), Sound(c, common), OthersTyped,
           Becomes(c, ms)
    PROVE  Sound(client', common) /\ outbox' \in Seq(Requests(Revision))
  <1>1. outbox \o ms \in Seq(Requests(Revision)) /\ <<>> \in Seq(Requests(Revision))
    BY DEF OthersTyped
  <1>2. QED BY <1>1 DEF Becomes

LEMMA NothingIsARequest == <<>> \in Seq(Requests(Revision))
  OBVIOUS

\* A transfer is given up, and the index waits for another.
LEMMA GivenUpSound ==
    ASSUME NEW c, NEW cs, Sound(c, cs)
    PROVE  Sound([c EXCEPT !.transfer = NoTransfer], cs)
  BY NoTransferTyped DEF Sound, Client

LEMMA SyncingSound ==
    ASSUME NEW c, NEW cs, Sound(c, cs)
    PROVE  Sound(SetSyncing(c), cs)
  BY DEF Sound, Client, SetSyncing

\* The bookkeeping of requests does not concern the index.
LEMMA RequestsSound ==
    ASSUME NEW c, NEW cs, Sound(c, cs), NEW r \in 0..Len(cs), NEW i \in Nat,
           NEW k \in Nat \ {0}, Len(cs) \in Nat
    PROVE  /\ Sound([c EXCEPT !.resync = i, !.nextId = k], cs)
           /\ Sound([c EXCEPT !.roomRev = r, !.applied = i, !.nextId = k], cs)
  <1> DEFINE d == [c EXCEPT !.resync = i, !.nextId = k]
             e == [c EXCEPT !.roomRev = r, !.applied = i, !.nextId = k]
  <1>1. c \in Client /\ r \in Nat
    BY DEF Sound
  <1>2. d \in Client /\ e \in Client
    BY <1>1 DEF Client
  <1>3. /\ d.revision = c.revision /\ d.selfRev = c.selfRev /\ d.roomRev = c.roomRev
        /\ d.state = c.state /\ d.charts = c.charts /\ d.transfer = c.transfer
    BY <1>1 DEF Client
  <1>4. /\ e.revision = c.revision /\ e.selfRev = c.selfRev /\ e.roomRev = r
        /\ e.state = c.state /\ e.charts = c.charts /\ e.transfer = c.transfer
    BY <1>1 DEF Client
  <1> HIDE DEF d, e
  <1>5. Sound(d, cs)
    BY <1>2, <1>3 DEF Sound
  <1>6. Sound(e, cs)
    BY <1>2, <1>4 DEF Sound
  <1>7. QED BY <1>5, <1>6 DEF d, e

\* The index moves to a revision with its charts.
LEMMA MovedSound ==
    ASSUME NEW c, NEW cs, Sound(c, cs), NEW r \in 1..Len(cs), Len(cs) \in Nat,
           NEW charts \in SUBSET Charts, charts = cs[r]
    PROVE  /\ Sound([c EXCEPT !.state = "Ready", !.revision = r, !.charts = charts], cs)
           /\ Sound([c EXCEPT !.revision = r, !.charts = charts], cs)
  <1> DEFINE d == [c EXCEPT !.state = "Ready", !.revision = r, !.charts = charts]
             e == [c EXCEPT !.revision = r, !.charts = charts]
  <1>1. c \in Client /\ r \in Nat /\ r \in 0..Len(cs)
    BY DEF Sound
  <1>2. d \in Client /\ e \in Client
    BY <1>1 DEF Client
  <1>3. /\ d.revision = r /\ d.selfRev = c.selfRev /\ d.roomRev = c.roomRev
        /\ d.charts = charts /\ d.transfer = c.transfer
    BY <1>1 DEF Client
  <1>4. /\ e.revision = r /\ e.selfRev = c.selfRev /\ e.roomRev = c.roomRev
        /\ e.charts = charts /\ e.transfer = c.transfer
    BY <1>1 DEF Client
  <1> HIDE DEF d, e
  <1>5. Sound(d, cs)
    BY <1>1, <1>2, <1>3 DEF Sound
  <1>6. Sound(e, cs)
    BY <1>1, <1>2, <1>4 DEF Sound
  <1>7. QED BY <1>5, <1>6 DEF d, e

LEMMA ResyncSound ==
    ASSUME NEW c, Sound(c, common), OthersTyped, RequestAvailabilityResync(c)
    PROVE  Sound(client', common) /\ outbox' \in Seq(Requests(Revision))
  <1> DEFINE stopped == SetSyncing([c EXCEPT !.transfer = NoTransfer])
             asked == [stopped EXCEPT !.resync = c.nextId, !.nextId = @ + 1]
             request == [type |-> "Resync", id |-> c.nextId, rev |-> 0]
  <1>1. Sound(stopped, common)
    BY GivenUpSound, SyncingSound
  <1>2. c \in Client /\ stopped.nextId = c.nextId
    BY <1>1 DEF Sound, SetSyncing, Client
  <1>3. /\ c.nextId \in Nat \ {0} /\ c.nextId + 1 \in Nat \ {0}
        /\ Revision \in Nat /\ Len(common) \in Nat
    BY <1>2 DEF Client, OthersTyped, Revision
  <1>4. asked = [stopped EXCEPT !.resync = c.nextId, !.nextId = c.nextId + 1]
    BY <1>2
  <1>5. <<request>> \in Seq(Requests(Revision))
    BY <1>3 DEF Requests
  <1>6. Becomes(stopped, <<>>) \/ Becomes(asked, <<request>>)
    BY DEF RequestAvailabilityResync
  <1> HIDE DEF stopped, asked, request
  <1>7. Sound(asked, common)
    <2>1. 0 \in 0..Len(common)
      BY <1>3
    <2>2. QED BY <1>1, <1>3, <1>4, <2>1, RequestsSound
  <1>8. QED BY <1>1, <1>5, <1>6, <1>7, BecomesSound, NothingIsARequest

LEMMA BeginSound ==
    ASSUME NEW c, NEW cs, Sound(c, cs), NEW m \in Declarations, Leads(m, cs)
    PROVE  Sound(HandleAvailabilityTransferBegin(c, m), cs)
  <1> DEFINE t == [id |-> m.id, mode |-> m.mode, base |-> m.base, target |-> m.target,
                   add |-> m.add, remove |-> m.remove, added |-> <<>>, removed |-> <<>>]
  <1>1. t \in Transfer
    BY DEF Transfer, Declarations
  <1>2. Leads(t, cs)
    BY DEF Leads
  <1>3. \/ HandleAvailabilityTransferBegin(c, m) = c
        \/ HandleAvailabilityTransferBegin(c, m) =
              SetSyncing([c EXCEPT !.resync = 0, !.transfer = t])
    BY DEF HandleAvailabilityTransferBegin
  <1> HIDE DEF t
  <1>4. Sound([c EXCEPT !.resync = 0, !.transfer = t], cs)
    BY <1>1, <1>2 DEF Sound, Client
  <1>5. QED BY <1>3, <1>4, SyncingSound

\* A chunk is collected.
LEMMA CollectedSound ==
    ASSUME NEW c, NEW cs, Sound(c, cs), NEW chart \in Charts, c.transfer # NoTransfer
    PROVE  /\ Sound([c EXCEPT !.transfer.added = Append(@, chart)], cs)
           /\ Sound([c EXCEPT !.transfer.removed = Append(@, chart)], cs)
  <1> DEFINE t == [c.transfer EXCEPT !.added = Append(@, chart)]
             u == [c.transfer EXCEPT !.removed = Append(@, chart)]
  <1>1. c.transfer \in Transfer /\ Leads(c.transfer, cs)
    BY DEF Sound, Client
  <1>2. t \in Transfer /\ u \in Transfer
    <2>1. /\ Append(c.transfer.added, chart) \in Seq(Charts)
          /\ Append(c.transfer.removed, chart) \in Seq(Charts)
      BY <1>1 DEF Transfer
    <2>2. \A x \in Seq(Charts) : /\ [c.transfer EXCEPT !.added = x] \in Transfer
                                 /\ [c.transfer EXCEPT !.removed = x] \in Transfer
      BY <1>1 DEF Transfer
    <2>3. QED BY <2>1, <2>2
  <1>3. Leads(t, cs) /\ Leads(u, cs)
    BY <1>1 DEF Leads, Transfer
  <1>4. /\ [c EXCEPT !.transfer.added = Append(@, chart)] = [c EXCEPT !.transfer = t]
        /\ [c EXCEPT !.transfer.removed = Append(@, chart)] = [c EXCEPT !.transfer = u]
    OBVIOUS
  <1> HIDE DEF t, u
  <1>5. Sound([c EXCEPT !.transfer = t], cs) /\ Sound([c EXCEPT !.transfer = u], cs)
    BY <1>2, <1>3 DEF Sound, Client
  <1>6. QED BY <1>4, <1>5

LEMMA BinarySound ==
    ASSUME Sound(client, common), OthersTyped, NEW m \in Pieces, HandleBinary(m)
    PROVE  Sound(client', common) /\ outbox' \in Seq(Requests(Revision))
  <1> DEFINE added == [client EXCEPT !.transfer.added = Append(@, m.chart)]
             removed == [client EXCEPT !.transfer.removed = Append(@, m.chart)]
             failed == [client EXCEPT !.room = "Failed"]
  <1>1. Sound(failed, common)
    BY DEF Sound, Client
  <1>2. client.transfer # NoTransfer => Sound(added, common) /\ Sound(removed, common)
    BY CollectedSound DEF Pieces
  <1>3. \/ Becomes(client, <<>>) \/ Becomes(failed, <<>>)
        \/ client.transfer # NoTransfer /\ (Becomes(added, <<>>) \/ Becomes(removed, <<>>))
        \/ RequestAvailabilityResync(client)
    BY DEF HandleBinary
  <1> HIDE DEF added, removed, failed
  <1>4. QED BY <1>1, <1>2, <1>3, BecomesSound, NothingIsARequest, ResyncSound

\* A transfer that is accepted leads the index to its target.
LEMMA AppliedSound ==
    ASSUME NEW c, NEW cs \in Seq(SUBSET Charts), Sound(c, cs), NEW t \in Transfer,
           Leads(t, cs), Applies(c, t)
    PROVE  Sound(Applied(c, t), cs)
  <1>1. /\ ToSet(t.added) = t.add /\ ToSet(t.removed) = t.remove
        /\ t.add \in SUBSET Charts /\ t.target \in Nat /\ t.target \in 1..Len(cs)
        /\ Len(cs) \in Nat /\ cs[t.target] \in SUBSET Charts
    BY DEF Applies, Complete, Transfer, Leads
  <1>2. CASE t.mode = "Reset"
    <2>1. Applied(c, t) = [c EXCEPT !.state = "Ready", !.revision = t.target,
                                    !.charts = cs[t.target]]
      BY <1>1, <1>2 DEF Applied, ApplyReset, Leads
    <2>2. Sound([c EXCEPT !.state = "Ready", !.revision = t.target, !.charts = cs[t.target]], cs)
      BY <1>1, MovedSound, Zenon
    <2>3. QED BY <2>1, <2>2, Zenon
  <1>3. CASE t.mode = "Delta"
    <2>1. /\ c.state = "Ready" /\ t.base = c.revision
      BY <1>3 DEF Applies, DeltaApplies
    <2>2. c.charts = cs[t.base]
      BY <2>1 DEF Sound
    <2>3. (c.charts \ ToSet(t.removed)) \cup ToSet(t.added) = cs[t.target]
      BY <1>1, <1>3, <2>2 DEF Leads
    <2>4. Applied(c, t) = [c EXCEPT !.revision = t.target, !.charts = cs[t.target]]
      BY <1>3, <2>3 DEF Applied, ApplyDelta
    <2>5. Sound([c EXCEPT !.revision = t.target, !.charts = cs[t.target]], cs)
      BY <1>1, MovedSound, Zenon
    <2>6. QED BY <2>4, <2>5, Zenon
  <1>4. QED BY <1>2, <1>3 DEF Leads

LEMMA CommitSound ==
    ASSUME Sound(client, common), OthersTyped, NEW m,
           HandleAvailabilityTransferCommit(client, m)
    PROVE  Sound(client', common) /\ outbox' \in Seq(Requests(Revision))
  <1> DEFINE t == client.transfer
             taken == [client EXCEPT !.transfer = NoTransfer]
             after == Applied(taken, t)
             reported == [after EXCEPT !.roomRev = t.target, !.applied = client.nextId,
                                       !.nextId = @ + 1]
             report == [type |-> "Applied", id |-> client.nextId, rev |-> t.target]
  <1>1. Sound(taken, common)
    BY GivenUpSound
  <1>2. \/ Becomes(client, <<>>)
        \/ RequestAvailabilityResync(taken)
        \/ t # NoTransfer /\ Applies(client, t) /\ Becomes(reported, <<report>>)
    BY DEF HandleAvailabilityTransferCommit
  <1>3. CASE t # NoTransfer /\ Applies(client, t) /\ Becomes(reported, <<report>>)
    <2>1. t \in Transfer /\ Leads(t, common) /\ common \in Seq(SUBSET Charts)
      BY <1>3 DEF Sound, Client, OthersTyped
    <2>2. /\ taken.state = client.state /\ taken.revision = client.revision
          /\ taken.charts = client.charts
      BY DEF Sound, Client
    <2>3. Applies(taken, t)
      BY <1>3, <2>2 DEF Applies, ResetApplies, DeltaApplies
    <2>4. Sound(after, common)
      BY <1>1, <2>1, <2>3, AppliedSound
    <2>5. t.target \in 1..Revision /\ Revision \in Nat /\ client.nextId \in Nat \ {0}
      BY <2>1 DEF Leads, Revision, Sound, Client
    <2>6. after.nextId = client.nextId
      BY <2>1, <2>3 DEF Applied, ApplyReset, ApplyDelta, Sound, Client
    <2>7. reported = [after EXCEPT !.roomRev = t.target, !.applied = client.nextId,
                                   !.nextId = client.nextId + 1]
      BY <2>6
    <2> HIDE DEF t, after, taken, reported
    <2>8. Sound(reported, common)
      <3>1. /\ t.target \in 0..Len(common) /\ Len(common) \in Nat
            /\ client.nextId \in Nat /\ client.nextId + 1 \in Nat \ {0}
        BY <2>5 DEF Revision
      <3>2. QED BY <2>4, <2>7, <3>1, RequestsSound
    <2>9. <<report>> \in Seq(Requests(Revision))
      BY <2>5 DEF Requests
    <2>10. QED BY <1>3, <2>8, <2>9, BecomesSound
  <1> HIDE DEF taken, reported, report, t
  <1>4. QED BY <1>1, <1>2, <1>3, BecomesSound, ResyncSound, NothingIsARequest

LEMMA SelfMemberSound ==
    ASSUME NEW c, NEW cs, Sound(c, cs), NEW m \in Updates(Len(cs))
    PROVE  Sound(ApplySelfMember(c, m), cs) /\ Sound([c EXCEPT !.roomRev = m.rev], cs)
  <1>1. m.rev \in 0..Len(cs) /\ m.rev \in Nat
    BY DEF Updates
  <1>2. QED BY <1>1 DEF Sound, Client, ApplySelfMember

LEMMA CommandErrorSound ==
    ASSUME Sound(client, common), OthersTyped, NEW m, HandleCommandError(client, m)
    PROVE  Sound(client', common) /\ outbox' \in Seq(Requests(Revision))
  <1> DEFINE shown == [client EXCEPT !.error = TRUE]
             noResync == [shown EXCEPT !.resync = 0]
             noReport == [shown EXCEPT !.applied = 0]
  <1>1. Sound(noResync, common) /\ Sound(noReport, common)
    BY DEF Sound, Client
  <1>2. \/ Becomes(client, <<>>) \/ Becomes(noResync, <<>>)
        \/ RequestAvailabilityResync(noReport)
    BY DEF HandleCommandError
  <1> HIDE DEF noResync, noReport
  <1>3. QED BY <1>1, <1>2, BecomesSound, ResyncSound, NothingIsARequest

LEMMA ClearTransfersSound ==
    ASSUME NEW c, NEW cs \in Seq(SUBSET Charts), Sound(c, cs)
    PROVE  Sound(ClearTransfers(c), cs)
  <1>1. 0 \in 0..Len(cs) /\ {} \in SUBSET Charts
    OBVIOUS
  <1>2. QED BY <1>1, NoTransferTyped DEF Sound, Client, ClearTransfers

-----------------------------------------------------------------------------
(* The steps.                                                              *)

\* A step that leaves the history of the room and the counters alone.
LEMMA ReceiveKeeps ==
    ASSUME IInv, Receive
    PROVE  IInv'
  <1> DEFINE m == Head(inbox)
  <1>1. /\ OthersTyped /\ Sound(client, common) /\ UNCHANGED <<common, told, used>>
        /\ inbox # <<>> /\ inbox \in Seq(Incoming(common)) /\ inbox' = Tail(inbox)
    BY DEF IInv, OthersTyped, Receive
  <1>2. m \in Incoming(common) /\ inbox' \in Seq(Incoming(common))
    BY <1>1
  <1>3. Sound(client', common) /\ outbox' \in Seq(Requests(Revision))
    <2>1. CASE m.type = "Begin" /\ Becomes(HandleAvailabilityTransferBegin(client, m), <<>>)
      <3>1. m \in Declarations /\ Leads(m, common)
        BY <1>2, <2>1 DEF Incoming, Pieces, Commits, Errors, Updates
      <3>2. Sound(HandleAvailabilityTransferBegin(client, m), common)
        BY <1>1, <3>1, BeginSound
      <3>3. QED BY <1>1, <2>1, <3>2, BecomesSound, NothingIsARequest
    <2>2. CASE m.type = "Chunk" /\ HandleBinary(m)
      <3>1. m \in Pieces
        BY <1>2, <2>2 DEF Incoming, Declarations, Commits, Errors, Updates
      <3>2. QED BY <1>1, <2>2, <3>1, BinarySound
    <2>3. CASE m.type = "Commit" /\ HandleAvailabilityTransferCommit(client, m)
      BY <1>1, <2>3, CommitSound
    <2>4. CASE \/ m.type = "MemberUpdated" /\ Becomes(ApplySelfMember(client, m), <<>>)
               \/ m.type = "SelectionChanged" /\ Becomes([client EXCEPT !.roomRev = m.rev], <<>>)
      <3>1. m \in Updates(Len(common))
        BY <1>2, <2>4 DEF Incoming, Declarations, Commits, Errors, Pieces
      <3>2. QED BY <1>1, <2>4, <3>1, SelfMemberSound, BecomesSound, NothingIsARequest
    <2>5. CASE m.type = "CommandError" /\ HandleCommandError(client, m)
      BY <1>1, <2>5, CommandErrorSound
    <2>6. QED BY <2>1, <2>2, <2>3, <2>4, <2>5 DEF Receive
  <1>4. QED BY <1>1, <1>2, <1>3 DEF IInv, OthersTyped, Revision

LEMMA RetryKeeps ==
    ASSUME IInv, Retry
    PROVE  IInv'
  <1> DEFINE cleared == [client EXCEPT !.error = FALSE]
  <1>1. OthersTyped /\ Sound(client, common) /\ UNCHANGED <<common, told, inbox, used>>
    BY DEF IInv, Retry
  <1>2. Sound(cleared, common)
    BY <1>1 DEF Sound, Client
  <1>3. RequestAvailabilityResync(cleared) \/ Becomes(cleared, <<>>)
    BY DEF Retry
  <1> HIDE DEF cleared
  <1>4. Sound(client', common) /\ outbox' \in Seq(Requests(Revision))
    BY <1>1, <1>2, <1>3, ResyncSound, BecomesSound, NothingIsARequest
  <1>5. QED BY <1>1, <1>4 DEF IInv, OthersTyped, Revision

\* What is true of the history stays true when it grows.
LEMMA LongerHistory ==
    ASSUME NEW cs \in Seq(SUBSET Charts), NEW charts \in SUBSET Charts
    PROVE  LET ds == Append(cs, charts)
           IN  /\ ds \in Seq(SUBSET Charts) /\ Len(ds) = Len(cs) + 1 /\ Len(cs) \in Nat
               /\ \A t : Leads(t, cs) => Leads(t, ds)
               /\ \A c : Sound(c, cs) => Sound(c, ds)
               /\ Incoming(cs) \subseteq Incoming(ds)
               /\ Requests(Len(cs)) \subseteq Requests(Len(ds))
  <1> DEFINE ds == Append(cs, charts)
  <1>1. /\ ds \in Seq(SUBSET Charts) /\ Len(ds) = Len(cs) + 1 /\ Len(cs) \in Nat
        /\ \A i \in 1..Len(cs) : ds[i] = cs[i]
    OBVIOUS
  <1>2. /\ 1..Len(cs) \subseteq 1..Len(ds) /\ 0..Len(cs) \subseteq 0..Len(ds)
    BY <1>1
  <1> HIDE DEF ds
  <1>3. ASSUME NEW t, Leads(t, cs) PROVE Leads(t, ds)
    BY <1>1, <1>2, <1>3 DEF Leads
  <1>4. ASSUME NEW c, Sound(c, cs) PROVE Sound(c, ds)
    BY <1>1, <1>2, <1>3, <1>4 DEF Sound
  <1>5. Updates(Len(cs)) \subseteq Updates(Len(ds)) /\ Requests(Len(cs)) \subseteq Requests(Len(ds))
    BY <1>2 DEF Updates, Requests
  <1>6. Incoming(cs) \subseteq Incoming(ds)
    BY <1>3, <1>5 DEF Incoming
  <1>7. QED BY <1>1, <1>3, <1>4, <1>5, <1>6 DEF ds

LEMMA CommonChangesKeeps ==
    ASSUME IInv, CommonChanges
    PROVE  IInv'
  <1>1. PICK charts \in SUBSET Charts : common' = Append(common, charts)
    BY DEF CommonChanges
  <1>2. /\ OthersTyped /\ Sound(client, common) /\ common \in Seq(SUBSET Charts)
        /\ UNCHANGED <<client, told, inbox, outbox, used>>
    BY DEF IInv, OthersTyped, CommonChanges
  <1>3. /\ common' \in Seq(SUBSET Charts) /\ Len(common') = Len(common) + 1
        /\ Len(common) \in Nat
        /\ Sound(client, common')
        /\ Incoming(common) \subseteq Incoming(common')
        /\ Requests(Len(common)) \subseteq Requests(Len(common'))
    BY <1>1, <1>2, LongerHistory
  <1>4. inbox' \in Seq(Incoming(common')) /\ outbox' \in Seq(Requests(Len(common')))
    BY <1>2, <1>3, SeqMonotonic DEF OthersTyped, Revision
  <1>5. told' \in 0..Len(common')
    BY <1>2, <1>3 DEF OthersTyped, Revision
  <1>6. QED BY <1>2, <1>3, <1>4, <1>5 DEF IInv, OthersTyped, Revision

LEMMA ChunksTyped ==
    ASSUME NEW id \in Nat, NEW kind \in {"Add", "Remove"}, NEW S \in SUBSET Charts
    PROVE  Chunks(id, kind, S) \in Seq(Pieces)
  <1> DEFINE order == SetToSeq(S)
             n == Cardinality(S)
             piece(i) == [type |-> "Chunk", id |-> id, kind |-> kind, index |-> i - 1,
                          chart |-> order[i]]
  <1>1. IsFiniteSet(S)
    BY BoundAssumption, FS_Subset
  <1>2. n \in Nat /\ ExistsBijection(1..n, S)
    BY <1>1, FS_CardinalityType
  <1>3. \E f \in [1..n -> S] : IsInjective(f)
    BY <1>2 DEF ExistsBijection, Bijection, Injection
  <1>4. order \in [1..n -> S]
    BY <1>3 DEF SetToSeq
  <1>5. Len(order) = n
    BY <1>2, <1>4
  <1> HIDE DEF order, n
  <1>6. \A i \in 1..n : piece(i) \in Pieces
    BY <1>2, <1>4 DEF Pieces
  <1>7. Chunks(id, kind, S) = [i \in 1..n |-> piece(i)]
    BY <1>5 DEF Chunks, order
  <1> HIDE DEF piece
  <1>8. QED BY <1>2, <1>6, <1>7, IsASeq

\* A transfer that the server sends leads from its base to the present.
LEMMA SendsKeeps ==
    ASSUME IInv, NEW base \in 0..Revision, Sends(base), UNCHANGED <<common, client>>,
           outbox' \in Seq(Requests(Revision))
    PROVE  IInv'
  <1> DEFINE old == IF base = 0 THEN {} ELSE common[base]
             add == common[Revision] \ old
             remove == old \ common[Revision]
             id == used.transfers + 1
             begin == [type |-> "Begin", id |-> id, base |-> base, target |-> Revision,
                       mode |-> IF base = 0 THEN "Reset" ELSE "Delta",
                       add |-> add, remove |-> remove]
             commit == [type |-> "Commit", id |-> id]
  <1>1. /\ common \in Seq(SUBSET Charts) /\ Revision \in Nat /\ Revision = Len(common)
        /\ inbox \in Seq(Incoming(common)) /\ Sound(client, common)
        /\ used \in [cuts : 0..MaxCuts, faults : 0..MaxFaults, transfers : Nat]
        /\ Revision # 0 /\ Revision' = Revision
    BY DEF IInv, OthersTyped, Revision
  <1>2. /\ old \in SUBSET Charts /\ common[Revision] \in SUBSET Charts
        /\ add \in SUBSET Charts /\ remove \in SUBSET Charts
    BY <1>1
  <1>3. id \in Nat /\ used' \in [cuts : 0..MaxCuts, faults : 0..MaxFaults, transfers : Nat]
    <2>1. id \in Nat
      BY <1>1
    <2>2. used' = [used EXCEPT !.transfers = id]
      BY DEF Sends
    <2> HIDE DEF id
    <2>3. QED BY <1>1, <2>1, <2>2
  <1>4. (old \ remove) \cup add = common[Revision]
    OBVIOUS
  <1>5. begin \in Declarations /\ Leads(begin, common)
    <2>1. base \in Nat
      BY <1>1
    <2>2. begin \in Declarations
      BY <1>1, <1>2, <1>3, <2>1 DEF Declarations
    <2>3. /\ base = 0 => begin.mode = "Reset"
          /\ base # 0 => begin.mode = "Delta"
          /\ begin.target = Revision /\ begin.base = base
          /\ begin.add = add /\ begin.remove = remove
      OBVIOUS
    <2>4. Revision \in 1..Len(common) /\ (base # 0 => base \in 1..Len(common))
      BY <1>1, <2>1
    <2>5. /\ base = 0 => add = common[Revision]
          /\ base # 0 => old = common[base]
      OBVIOUS
    <2> HIDE DEF begin, add, remove, old
    <2>6. Leads(begin, common)
      <3>1. CASE base = 0
        BY <2>3, <2>4, <2>5, <3>1 DEF Leads
      <3>2. CASE base # 0
        <4>1. (common[base] \ begin.remove) \cup begin.add = common[Revision]
          BY <1>4, <2>3, <2>5, <3>2, Zenon
        <4>2. QED BY <2>3, <2>4, <3>2, <4>1 DEF Leads
      <3>3. QED BY <3>1, <3>2
    <2>7. QED BY <2>2, <2>6
  <1>6. commit \in Commits
    BY <1>3 DEF Commits
  <1>7. TransferMessages(id, base, Revision) =
           <<begin>> \o Chunks(id, "Add", add) \o Chunks(id, "Remove", remove) \o <<commit>>
    BY DEF TransferMessages
  <1> HIDE DEF begin, commit, add, remove, old, id
  <1>8. /\ <<begin>> \in Seq(Incoming(common)) /\ <<commit>> \in Seq(Incoming(common))
        /\ Chunks(id, "Add", add) \in Seq(Incoming(common))
        /\ Chunks(id, "Remove", remove) \in Seq(Incoming(common))
    <2>1. begin \in Incoming(common) /\ commit \in Incoming(common)
      BY <1>5, <1>6 DEF Incoming
    <2>2. /\ Chunks(id, "Add", add) \in Seq(Pieces) /\ Chunks(id, "Remove", remove) \in Seq(Pieces)
      BY <1>2, <1>3, ChunksTyped
    <2>3. Pieces \subseteq Incoming(common)
      BY DEF Incoming
    <2>4. QED BY <2>1, <2>2, <2>3, SeqMonotonic
  <1>9. inbox' = inbox \o TransferMessages(id, base, Revision) /\ told' = Revision
    BY DEF Sends, id
  <1>10. inbox' \in Seq(Incoming(common))
    <2>1. <<begin>> \o Chunks(id, "Add", add) \in Seq(Incoming(common))
      BY <1>8
    <2>2. <<begin>> \o Chunks(id, "Add", add) \o Chunks(id, "Remove", remove)
             \in Seq(Incoming(common))
      BY <1>8, <2>1
    <2>3. TransferMessages(id, base, Revision) \in Seq(Incoming(common))
      BY <1>7, <1>8, <2>2
    <2>4. QED BY <1>1, <1>9, <2>3
  <1>11. QED BY <1>1, <1>3, <1>9, <1>10 DEF IInv, OthersTyped

LEMMA FaultCounted ==
    ASSUME OthersTyped, used.faults < MaxFaults
    PROVE  [used EXCEPT !.faults = @ + 1]
              \in [cuts : 0..MaxCuts, faults : 0..MaxFaults, transfers : Nat]
  <1>1. used \in [cuts : 0..MaxCuts, faults : 0..MaxFaults, transfers : Nat]
    BY DEF OthersTyped
  <1>2. used.faults + 1 \in 0..MaxFaults
    BY <1>1, BoundAssumption
  <1>3. QED BY <1>1, <1>2

LEMMA ServerKeeps ==
    ASSUME IInv, ServerTransfers \/ ServerSelects \/ ServerSkipsChunk
    PROVE  IInv'
  <1>1. /\ OthersTyped /\ Sound(client, common) /\ Revision \in Nat /\ told \in 0..Revision
        /\ inbox \in Seq(Incoming(common)) /\ outbox \in Seq(Requests(Revision))
        /\ Revision = Len(common)
    BY DEF IInv, OthersTyped, Revision
  <1>2. CASE ServerTransfers
    <2>1. UNCHANGED <<common, client, outbox>> /\ (Sends(0) \/ Sends(told))
      BY <1>2 DEF ServerTransfers
    <2>2. 0 \in 0..Revision
      BY <1>1
    <2>3. QED BY <1>1, <2>1, <2>2, SendsKeeps
  <1>3. CASE ServerSelects
    <2> DEFINE selected == [type |-> "SelectionChanged", rev |-> Revision]
    <2>1. /\ inbox' = Append(inbox, selected) /\ UNCHANGED <<common, client, told, outbox, used>>
      BY <1>3 DEF ServerSelects
    <2>2. selected \in Incoming(common)
      BY <1>1 DEF Incoming, Updates
    <2> HIDE DEF selected
    <2>3. inbox' \in Seq(Incoming(common))
      BY <1>1, <2>1, <2>2
    <2>4. QED BY <1>1, <2>1, <2>3 DEF IInv, OthersTyped, Revision
  <1>4. CASE ServerSkipsChunk
    <2>1. PICK i \in DOMAIN inbox : inbox' = RemoveAt(inbox, i)
      BY <1>4 DEF ServerSkipsChunk
    <2>2. /\ UNCHANGED <<common, client, told, outbox>> /\ used.faults < MaxFaults
          /\ used' = [used EXCEPT !.faults = @ + 1]
      BY <1>4 DEF ServerSkipsChunk
    <2>3. i \in 1..Len(inbox) /\ Len(inbox) \in Nat
      BY <1>1
    <2>4. \A j \in 1..Len(inbox) : inbox[j] \in Incoming(common)
      BY <1>1
    <2>5. /\ SubSeq(inbox, 1, i - 1) \in Seq(Incoming(common))
          /\ SubSeq(inbox, i + 1, Len(inbox)) \in Seq(Incoming(common))
      <3>1. \A j \in 1..(i - 1) : inbox[j] \in Incoming(common)
        BY <2>3, <2>4
      <3>2. \A j \in (i + 1)..Len(inbox) : inbox[j] \in Incoming(common)
        BY <2>3, <2>4
      <3>3. QED BY <2>3, <3>1, <3>2, SubSeqProperties
    <2>6. inbox' \in Seq(Incoming(common))
      BY <2>1, <2>5 DEF RemoveAt
    <2>7. QED BY <1>1, <2>2, <2>6, FaultCounted DEF IInv, OthersTyped, Revision
  <1>5. QED BY <1>2, <1>3, <1>4

LEMMA ServerHearsKeeps ==
    ASSUME IInv, ServerHears
    PROVE  IInv'
  <1> DEFINE m == Head(outbox)
             updated == [type |-> "MemberUpdated", rev |-> m.rev]
             refused == [type |-> "CommandError", id |-> m.id]
  <1>1. /\ OthersTyped /\ Sound(client, common) /\ Revision \in Nat
        /\ inbox \in Seq(Incoming(common)) /\ outbox \in Seq(Requests(Revision))
        /\ Revision = Len(common) /\ UNCHANGED <<common, client>>
        /\ outbox # <<>> /\ outbox' = Tail(outbox)
    BY DEF IInv, OthersTyped, Revision, ServerHears
  <1>2. m \in Requests(Revision) /\ outbox' \in Seq(Requests(Revision))
    BY <1>1
  <1>3. m.rev \in 0..Revision /\ m.id \in Nat
    BY <1>2 DEF Requests
  <1>4. updated \in Incoming(common) /\ refused \in Incoming(common)
    BY <1>1, <1>3 DEF Incoming, Updates, Errors
  <1>5. \/ Sends(0)
        \/ inbox' = Append(inbox, updated) /\ UNCHANGED <<told, used>>
        \/ inbox' = Append(inbox, refused) /\ UNCHANGED <<told, used>>
        \/ /\ inbox' = Append(inbox, refused) /\ told' = told
           /\ used.faults < MaxFaults /\ used' = [used EXCEPT !.faults = @ + 1]
    BY DEF ServerHears
  <1> HIDE DEF m, updated, refused
  <1>6. CASE Sends(0)
    <2>1. 0 \in 0..Revision
      BY <1>1
    <2>2. QED BY <1>1, <1>2, <1>6, <2>1, SendsKeeps
  <1>7. CASE inbox' \in {Append(inbox, updated), Append(inbox, refused)} /\ told' = told
    <2>1. inbox' \in Seq(Incoming(common))
      <3>1. /\ Append(inbox, updated) \in Seq(Incoming(common))
            /\ Append(inbox, refused) \in Seq(Incoming(common))
        BY <1>1, <1>4
      <3>2. QED BY <1>7, <3>1
    <2>2. CASE used' = used
      BY <1>1, <1>2, <1>7, <2>1, <2>2 DEF IInv, OthersTyped, Revision
    <2>3. CASE used.faults < MaxFaults /\ used' = [used EXCEPT !.faults = @ + 1]
      BY <1>1, <1>2, <1>7, <2>1, <2>3, FaultCounted DEF IInv, OthersTyped, Revision
    <2>4. QED BY <1>5, <1>6, <2>2, <2>3
  <1>8. QED BY <1>5, <1>6, <1>7

\* The link is lost, and the seat resumed: the index starts from nothing.
LEMMA LinkKeeps ==
    ASSUME IInv, Cut \/ Resume
    PROVE  IInv'
  <1>1. /\ OthersTyped /\ Sound(client, common) /\ Revision \in Nat
        /\ common \in Seq(SUBSET Charts) /\ Revision = Len(common) /\ common' = common
    BY DEF IInv, OthersTyped, Revision, Cut, Resume
  <1>2. Sound(ClearTransfers(client), common)
    BY <1>1, ClearTransfersSound
  <1>3. CASE Cut
    <2>1. Becomes(BeginReconnect(client), <<>>) /\ inbox' = <<>> /\ told' = told
          /\ used.cuts < MaxCuts /\ used' = [used EXCEPT !.cuts = @ + 1]
      BY <1>3 DEF Cut
    <2>2. Sound(BeginReconnect(client), common)
      BY <1>2 DEF BeginReconnect, Sound, Client
    <2>3. used' \in [cuts : 0..MaxCuts, faults : 0..MaxFaults, transfers : Nat]
      <3>1. used \in [cuts : 0..MaxCuts, faults : 0..MaxFaults, transfers : Nat]
        BY <1>1 DEF OthersTyped
      <3>2. used.cuts + 1 \in 0..MaxCuts
        BY <2>1, <3>1, BoundAssumption
      <3>3. QED BY <2>1, <3>1, <3>2
    <2>4. Sound(client', common) /\ outbox' \in Seq(Requests(Revision))
      BY <1>1, <2>1, <2>2, BecomesSound, NothingIsARequest
    <2>5. inbox' \in Seq(Incoming(common))
      BY <2>1
    <2>6. QED BY <1>1, <2>1, <2>3, <2>4, <2>5 DEF IInv, OthersTyped, Revision
  <1>4. CASE Resume
    <2> DEFINE c == ApplyRoomSnapshot(client, Revision, 0)
    <2>1. Becomes(c, <<>>) /\ told' = 0 /\ UNCHANGED <<inbox, used>>
      BY <1>4 DEF Resume
    <2>2. Sound(c, common)
      <3>1. Revision \in 0..Len(common) /\ 0 \in 0..Len(common)
        BY <1>1
      <3>2. QED BY <1>1, <1>2, <3>1 DEF ApplyRoomSnapshot, Sound, Client
    <2>3. Sound(client', common) /\ outbox' \in Seq(Requests(Revision))
      BY <1>1, <2>1, <2>2, BecomesSound, NothingIsARequest
    <2>4. 0 \in 0..Revision
      BY <1>1
    <2>5. QED BY <1>1, <2>1, <2>3, <2>4 DEF IInv, OthersTyped, Revision
  <1>5. QED BY <1>3, <1>4

-----------------------------------------------------------------------------
(* The theorems.                                                           *)

LEMMA InitSound == Init => IInv
  <1>1. SUFFICES ASSUME Init PROVE IInv
    OBVIOUS
  <1>2. /\ common = <<{}>> /\ told = 0 /\ inbox = <<>> /\ outbox = <<>>
        /\ used = [cuts |-> 0, faults |-> 0, transfers |-> 0]
    BY <1>1 DEF Init
  <1>3. common \in Seq(SUBSET Charts) /\ Revision = 1 /\ Len(common) = 1
    BY <1>2 DEF Revision
  <1>4. OthersTyped
    BY <1>2, <1>3, BoundAssumption DEF OthersTyped
  <1>5. /\ client \in Client /\ client.revision = 0 /\ client.selfRev = 0
        /\ client.roomRev = 1 /\ client.state = "NotApplicable"
        /\ client.transfer = NoTransfer
    BY <1>1, NoTransferTyped DEF Init, Client
  <1>6. Sound(client, common)
    BY <1>3, <1>5 DEF Sound
  <1>7. QED BY <1>4, <1>6 DEF IInv

LEMMA NextKeeps == IInv /\ [Next]_vars => IInv'
  <1>1. SUFFICES ASSUME IInv, [Next]_vars PROVE IInv'
    OBVIOUS
  <1>2. CASE UNCHANGED vars
    BY <1>1, <1>2 DEF vars, IInv, OthersTyped, Revision
  <1>3. CASE Receive \/ Retry \/ CommonChanges
    BY <1>1, <1>3, ReceiveKeeps, RetryKeeps, CommonChangesKeeps
  <1>4. CASE ServerTransfers \/ ServerSelects \/ ServerHears \/ ServerSkipsChunk
    BY <1>1, <1>4, ServerKeeps, ServerHearsKeeps
  <1>5. CASE Cut \/ Resume
    BY <1>1, <1>5, LinkKeeps
  <1>6. QED BY <1>1, <1>2, <1>3, <1>4, <1>5 DEF Next

\* The invariant holds in every reachable state.
THEOREM InvariantHolds == Spec => []IInv
  BY InitSound, NextKeeps, PTL DEF Spec

\* Every variable keeps its type, and the client speaks of no revision that the
\* room has not had.
THEOREM TypeCorrect == Spec => []TypeOK
  <1>1. IInv => TypeOK
    BY DEF IInv, OthersTyped, Sound, TypeOK, Revision
  <1>2. QED BY InvariantHolds, <1>1, PTL

\* An index that is ready has exactly the charts of the revision it claims, whatever
\* was lost, left out, refused or overtaken on the way.
THEOREM IndexIsRight == Spec => []IndexIsOfItsRevision
  <1>1. IInv => IndexIsOfItsRevision
    BY DEF IInv, Sound, IndexIsOfItsRevision
  <1>2. QED BY InvariantHolds, <1>1, PTL

-----------------------------------------------------------------------------
(* No delta is ever applied: setSyncing at the declaration of a transfer    *)
(* takes the index out of the only state in which applyDelta accepts.       *)

\* An index is not ready while a transfer is collected.
Collects(c) == c.transfer # NoTransfer => c.state # "Ready"

\* A ready index d is the ready index c, or what a reset declared to c has brought.
ByReset(c, d) ==
    d.state = "Ready" =>
      \/ /\ c.state = "Ready"
         /\ d.revision = c.revision /\ d.charts = c.charts
      \/ /\ c.transfer.mode = "Reset"
         /\ d.revision = c.transfer.target /\ d.charts = c.transfer.add

\* What every step does to a client that collects.
Goes(c, d) == Collects(d) /\ ByReset(c, d)

StepByReset == ByReset(client, client')

LEMMA ResyncGoes ==
    ASSUME NEW c \in Client, RequestAvailabilityResync(c)
    PROVE  client'.transfer = NoTransfer /\ client'.state = "Syncing"
  BY DEF RequestAvailabilityResync, Becomes, SetSyncing, Client

LEMMA BeginGoes ==
    ASSUME NEW c \in Client, NEW m, Collects(c)
    PROVE  Goes(c, HandleAvailabilityTransferBegin(c, m))
  BY DEF HandleAvailabilityTransferBegin, SetSyncing, Client, Goes, Collects, ByReset

LEMMA BinaryGoes ==
    ASSUME client \in Client, Collects(client), NEW m, HandleBinary(m)
    PROVE  Goes(client, client')
  <1>1. CASE RequestAvailabilityResync(client)
    BY <1>1, ResyncGoes DEF Goes, Collects, ByReset
  <1>2. CASE client.transfer = NoTransfer
    BY <1>2 DEF HandleBinary, Becomes, Client, Goes, Collects, ByReset
  <1>3. CASE client.transfer # NoTransfer /\ ~RequestAvailabilityResync(client)
    <2>1. /\ client'.state = client.state /\ client.state # "Ready"
      BY <1>3 DEF HandleBinary, Becomes, Client, Collects
    <2>2. QED BY <2>1 DEF Goes, Collects, ByReset
  <1>4. QED BY <1>1, <1>2, <1>3

LEMMA CommitGoes ==
    ASSUME client \in Client, Collects(client), NEW m,
           HandleAvailabilityTransferCommit(client, m)
    PROVE  Goes(client, client')
  <1> DEFINE t == client.transfer
             taken == [client EXCEPT !.transfer = NoTransfer]
  <1>1. /\ taken \in Client /\ taken.transfer = NoTransfer
        /\ taken.state = client.state
    BY NoTransferTyped DEF Client
  <1>2. CASE Becomes(client, <<>>)
    BY <1>2 DEF Becomes, Goes, Collects, ByReset
  <1>3. CASE RequestAvailabilityResync(taken)
    BY <1>1, <1>3, ResyncGoes DEF Goes, Collects, ByReset
  <1>4. CASE /\ t # NoTransfer /\ Applies(client, t)
             /\ client' = [Applied(taken, t) EXCEPT !.roomRev = t.target,
                                                    !.applied = client.nextId,
                                                    !.nextId = @ + 1]
    <2>1. client.state # "Ready"
      BY <1>4 DEF Collects
    <2>2. t.mode = "Reset" /\ ToSet(t.added) = t.add
      BY <1>4, <2>1 DEF Applies, DeltaApplies, Complete
    <2>3. /\ client'.transfer = NoTransfer
          /\ client'.revision = t.target /\ client'.charts = ToSet(t.added)
      BY <1>1, <1>4, <2>2 DEF Applied, ApplyReset, Client
    <2>4. QED BY <2>2, <2>3 DEF Goes, Collects, ByReset
  <1>5. QED BY <1>2, <1>3, <1>4 DEF HandleAvailabilityTransferCommit, Becomes

LEMMA CommandErrorGoes ==
    ASSUME client \in Client, Collects(client), NEW m, HandleCommandError(client, m)
    PROVE  Goes(client, client')
  <1> DEFINE noReport == [[client EXCEPT !.error = TRUE] EXCEPT !.applied = 0]
             noResync == [[client EXCEPT !.error = TRUE] EXCEPT !.resync = 0]
  <1>1. noReport \in Client
    BY DEF Client
  <1>2. CASE RequestAvailabilityResync(noReport)
    BY <1>1, <1>2, ResyncGoes DEF Goes, Collects, ByReset
  <1>3. CASE Becomes(client, <<>>) \/ Becomes(noResync, <<>>)
    BY <1>3 DEF Becomes, Client, Goes, Collects, ByReset
  <1>4. QED BY <1>2, <1>3 DEF HandleCommandError

LEMMA ReceiveGoes ==
    ASSUME client \in Client, Collects(client), Receive
    PROVE  Goes(client, client')
  <1> DEFINE m == Head(inbox)
  <1>1. CASE Becomes(HandleAvailabilityTransferBegin(client, m), <<>>)
    BY <1>1, BeginGoes DEF Becomes
  <1>2. CASE HandleBinary(m)
    BY <1>2, BinaryGoes
  <1>3. CASE HandleAvailabilityTransferCommit(client, m)
    BY <1>3, CommitGoes
  <1>4. CASE \/ Becomes(ApplySelfMember(client, m), <<>>)
             \/ Becomes([client EXCEPT !.roomRev = m.rev], <<>>)
    BY <1>4 DEF Becomes, ApplySelfMember, Client, Goes, Collects, ByReset
  <1>5. CASE HandleCommandError(client, m)
    BY <1>5, CommandErrorGoes
  <1>6. QED BY <1>1, <1>2, <1>3, <1>4, <1>5 DEF Receive

LEMMA RetryGoes ==
    ASSUME client \in Client, Collects(client), Retry
    PROVE  Goes(client, client')
  <1> DEFINE cleared == [client EXCEPT !.error = FALSE]
  <1>1. cleared \in Client
    BY DEF Client
  <1>2. CASE RequestAvailabilityResync(cleared)
    BY <1>1, <1>2, ResyncGoes DEF Goes, Collects, ByReset
  <1>3. CASE Becomes(cleared, <<>>)
    BY <1>3 DEF Becomes, Client, Goes, Collects, ByReset
  <1>4. QED BY <1>2, <1>3 DEF Retry

LEMMA LinkGoes ==
    ASSUME client \in Client, Cut \/ Resume
    PROVE  Goes(client, client')
  <1>1. client'.transfer = NoTransfer /\ client'.state = "NotApplicable"
    BY DEF Cut, Resume, Becomes, BeginReconnect, ApplyRoomSnapshot, ClearTransfers, Client
  <1>2. QED BY <1>1 DEF Goes, Collects, ByReset

LEMMA NextGoes ==
    IInv /\ Collects(client) /\ [Next]_vars => Goes(client, client')
  <1>1. SUFFICES ASSUME IInv, Collects(client), [Next]_vars
                 PROVE  Goes(client, client')
    OBVIOUS
  <1>2. client \in Client
    BY <1>1 DEF IInv, Sound
  <1>3. CASE client' = client
    BY <1>1, <1>3 DEF Goes, Collects, ByReset
  <1>4. CASE Receive \/ Retry \/ Cut \/ Resume
    BY <1>1, <1>2, <1>4, ReceiveGoes, RetryGoes, LinkGoes
  <1>5. client' = client \/ Receive \/ Retry \/ Cut \/ Resume
    BY <1>1 DEF Next, vars, CommonChanges, ServerTransfers, ServerSelects, ServerHears,
                ServerSkipsChunk
  <1>6. QED BY <1>3, <1>4, <1>5

\* The index becomes ready, or changes while it is ready, only by a reset: a delta
\* that has arrived complete, on the very revision the index is at, is never applied.
THEOREM OnlyResetsApply == Spec => [][StepByReset]_vars
  <1>1. Init => Collects(client)
    BY DEF Init, Collects
  <1>2. IInv /\ Collects(client) /\ [Next]_vars => Collects(client)' /\ [StepByReset]_vars
    BY NextGoes DEF Goes, Collects, StepByReset
  <1>3. Spec => []IInv
    BY InvariantHolds
  <1>4. QED BY <1>1, <1>2, <1>3, PTL DEF Spec
=============================================================================
