------------------------- MODULE ArenaAvailability -------------------------
(***************************************************************************)
(* The charts that every member of an arena room has, as the server sends  *)
(* them and as ArenaSession keeps them in its ArenaAvailabilityIndex.      *)
(*                                                                         *)
(* The server sends the common charts of a revision as a transfer: a       *)
(* declaration, binary chunks and a commit.  A transfer is a reset or a    *)
(* delta on an earlier revision.  The session collects the chunks, applies *)
(* the transfer at its commit, reports the revision it has applied, and    *)
(* asks for a resync when a transfer cannot be applied.  A chunk carries   *)
(* one chart here; a digest is compared by comparing the charts.           *)
(***************************************************************************)
EXTENDS Naturals, Sequences, FiniteSets, SequencesExt

CONSTANTS
    Charts,       \* the charts of the members' libraries
    MaxRevisions, \* bound: revisions of the common charts
    MaxCuts,      \* bound: links lost
    MaxFaults     \* bound: chunks the server leaves out, resyncs it refuses

ASSUME BoundAssumption ==
    /\ IsFiniteSet(Charts)
    /\ MaxRevisions \in Nat \ {0}
    /\ MaxCuts \in Nat
    /\ MaxFaults \in Nat

VARIABLES
    common,   \* common[r] = the charts all members have at revision r
    client,   \* the availability members of the session and the index
    told,     \* the revision the server's last transfer leads to (external)
    inbox,    \* messages on their way to the client
    outbox,   \* messages on their way to the server
    used      \* cuts and faults used up, transfers started

vars == <<common, client, told, inbox, outbox, used>>

-----------------------------------------------------------------------------
Revision == Len(common)

NoTransfer == [id |-> 0, mode |-> "None", base |-> 0, target |-> 0,
               add |-> {}, remove |-> {}, added |-> <<>>, removed |-> <<>>]

Transfer == [id : Nat, mode : {"None", "Reset", "Delta"}, base : Nat,
             target : Nat, add : SUBSET Charts, remove : SUBSET Charts,
             added : Seq(Charts), removed : Seq(Charts)]

Client ==
    [room     : {"InRoom", "Reconnecting", "Failed"},
     state    : {"NotApplicable", "Syncing", "Ready"},   \* of the index
     revision : Nat,             \* of the index
     charts   : SUBSET Charts,   \* m_packedHashes of the index
     transfer : Transfer,        \* m_pendingAvailabilityTransfer
     resync   : Nat,             \* m_availabilityResyncRequestId
     applied  : Nat,             \* m_availabilityAppliedRequestId
     roomRev  : Nat,             \* m_roomAvailabilityRevision
     selfRev  : Nat,             \* m_selfAvailabilityAppliedRevision
     nextId   : Nat \ {0},
     error    : BOOLEAN]         \* a refused request is shown

TypeOK ==
    /\ common \in Seq(SUBSET Charts)
    /\ client \in Client
    /\ client.revision <= Revision /\ client.selfRev <= Revision
    /\ told \in 0..Revision
    /\ used \in [cuts : 0..MaxCuts, faults : 0..MaxFaults, transfers : Nat]

-----------------------------------------------------------------------------
(* ArenaAvailabilityIndex.                                                 *)

\* Whether applyReset accepts, for a vector that is valid.
ResetApplies(c, t) == t.target >= c.revision

\* Fault: a reset is counted as a revision of its own.
ApplyResetNext(c, t) ==
    [c EXCEPT !.state = "Ready", !.revision = t.target + 1,
              !.charts = ToSet(t.added)]

ApplyReset(c, t) ==
    [c EXCEPT !.state = "Ready", !.revision = t.target, !.charts = ToSet(t.added)]

\* Whether applyDelta accepts: the charts to remove are there, the charts to
\* add are not.
DeltaApplies(c, t) ==
    /\ c.state = "Ready"
    /\ t.base = c.revision
    /\ t.target > t.base
    /\ ToSet(t.added) \cap ToSet(t.removed) = {}
    /\ ToSet(t.removed) \subseteq c.charts
    /\ ToSet(t.added) \cap c.charts = {}

ApplyDelta(c, t) ==
    [c EXCEPT !.revision = t.target,
              !.charts = (@ \ ToSet(t.removed)) \cup ToSet(t.added)]

SetSyncing(c) == [c EXCEPT !.state = "Syncing"]

-----------------------------------------------------------------------------
(* ArenaSession.                                                           *)

\* A step of the client's code that sends messages and ends in c.
Becomes(c, messages) ==
    /\ client' = c
    /\ outbox' = IF c.room = "InRoom" THEN outbox \o messages ELSE <<>>

RequestAvailabilityResync(c) ==
    LET stopped == SetSyncing([c EXCEPT !.transfer = NoTransfer])
    IN  IF c.resync # 0
          THEN Becomes(stopped, <<>>)
          ELSE Becomes([stopped EXCEPT !.resync = c.nextId, !.nextId = @ + 1],
                       <<[type |-> "Resync", id |-> c.nextId, rev |-> 0]>>)

\* Fault: a resync stays outstanding when a transfer begins.
HandleAvailabilityTransferBeginKeepingResync(c, m) ==
    IF \/ m.target < c.revision
       \/ c.transfer # NoTransfer /\ m.target <= c.transfer.target
      THEN c
      ELSE SetSyncing([c EXCEPT
             !.transfer = [id |-> m.id, mode |-> m.mode, base |-> m.base,
                           target |-> m.target, add |-> m.add,
                           remove |-> m.remove,
                           added |-> <<>>, removed |-> <<>>]])

HandleAvailabilityTransferBegin(c, m) ==
    IF \/ m.target < c.revision
       \/ c.transfer # NoTransfer /\ m.target <= c.transfer.target
      THEN c
      ELSE SetSyncing([c EXCEPT
             !.resync = 0,
             !.transfer = [id |-> m.id, mode |-> m.mode, base |-> m.base,
                           target |-> m.target, add |-> m.add,
                           remove |-> m.remove,
                           added |-> <<>>, removed |-> <<>>]])

\* The next chunk of its vector, and not more than was declared.
Fits(vector, m, declared) ==
    /\ m.index = Len(vector)
    /\ Len(vector) < Cardinality(declared)

HandleBinary(m) ==
    LET t == client.transfer
    IN  IF t = NoTransfer
          THEN Becomes(IF client.resync # 0
                         THEN client
                         ELSE [client EXCEPT !.room = "Failed"], <<>>)
          ELSE IF m.id # t.id
          THEN Becomes(client, <<>>)
          ELSE IF m.kind = "Add" /\ Fits(t.added, m, t.add)
          THEN Becomes([client EXCEPT !.transfer.added = Append(@, m.chart)],
                       <<>>)
          ELSE IF m.kind = "Remove" /\ Fits(t.removed, m, t.remove)
          THEN Becomes([client EXCEPT !.transfer.removed = Append(@, m.chart)],
                       <<>>)
          ELSE RequestAvailabilityResync(client)

\* Fault: neither size nor digest of a vector is compared.
CompleteUnchecked(t) == TRUE

\* The vectors are complete and have the declared digests.
Complete(t) == ToSet(t.added) = t.add /\ ToSet(t.removed) = t.remove

\* The index after the commit of a transfer it accepts.
Applied(c, t) == IF t.mode = "Reset" THEN ApplyReset(c, t) ELSE ApplyDelta(c, t)

Applies(c, t) ==
    /\ Complete(t)
    /\ IF t.mode = "Reset" THEN ResetApplies(c, t) ELSE DeltaApplies(c, t)

HandleAvailabilityTransferCommit(c, m) ==
    LET t     == c.transfer
        taken == [c EXCEPT !.transfer = NoTransfer]
    IN  IF t = NoTransfer \/ m.id # t.id
          THEN Becomes(c, <<>>)
          ELSE IF ~Applies(c, t)
          THEN RequestAvailabilityResync(taken)
          ELSE Becomes([Applied(taken, t) EXCEPT !.roomRev = t.target,
                                                 !.applied = c.nextId,
                                                 !.nextId = @ + 1],
                       <<[type |-> "Applied", id |-> c.nextId,
                          rev |-> t.target]>>)

ApplySelfMember(c, m) ==
    [c EXCEPT !.selfRev = m.rev,
              !.applied = IF m.rev >= c.roomRev THEN 0 ELSE @]

\* A refused report is stale: see ServerHears.
HandleCommandError(c, m) ==
    LET shown == [c EXCEPT !.error = TRUE]
    IN  IF c.resync # 0 /\ m.id = c.resync
          THEN Becomes([shown EXCEPT !.resync = 0], <<>>)
          ELSE IF c.applied # 0 /\ m.id = c.applied
          THEN RequestAvailabilityResync([shown EXCEPT !.applied = 0])
          ELSE Becomes(c, <<>>)

\* clearRoundTransfers, which ends with an empty index.
ClearTransfers(c) ==
    [c EXCEPT !.transfer = NoTransfer, !.resync = 0, !.applied = 0,
              !.state = "NotApplicable", !.revision = 0, !.charts = {}]

BeginReconnect(c) == [ClearTransfers(c) EXCEPT !.room = "Reconnecting"]

ApplyRoomSnapshot(c, roomRev, selfRev) ==
    [ClearTransfers(c) EXCEPT !.room = "InRoom", !.roomRev = roomRev,
                              !.selfRev = selfRev, !.error = FALSE]

Receive ==
    /\ inbox # <<>> /\ client.room = "InRoom"
    /\ inbox' = Tail(inbox)
    /\ UNCHANGED <<common, told, used>>
    /\ LET m == Head(inbox)
       IN  \/ /\ m.type = "Begin"
              /\ Becomes(HandleAvailabilityTransferBegin(client, m), <<>>)
           \/ m.type = "Chunk" /\ HandleBinary(m)
           \/ m.type = "Commit" /\ HandleAvailabilityTransferCommit(client, m)
           \/ /\ m.type = "MemberUpdated"
              /\ Becomes(ApplySelfMember(client, m), <<>>)
           \/ /\ m.type = "SelectionChanged"
              /\ Becomes([client EXCEPT !.roomRev = m.rev], <<>>)
           \/ m.type = "CommandError" /\ HandleCommandError(client, m)

\* The user asks to try again.
Retry ==
    /\ client.room = "InRoom" /\ client.error
    /\ LET cleared == [client EXCEPT !.error = FALSE]
       IN  IF client.state = "Syncing" THEN RequestAvailabilityResync(cleared)
                                       ELSE Becomes(cleared, <<>>)
    /\ UNCHANGED <<common, told, inbox, used>>

-----------------------------------------------------------------------------
(* The room server (external).                                             *)

Chunks(id, kind, charts) ==
    LET order == SetToSeq(charts)
    IN  [i \in 1..Len(order) |-> [type |-> "Chunk", id |-> id, kind |-> kind,
                                  index |-> i - 1, chart |-> order[i]]]

\* All the messages of a transfer from revision base, 0 for a reset.
TransferMessages(id, base, target) ==
    LET old    == IF base = 0 THEN {} ELSE common[base]
        add    == common[target] \ old
        remove == old \ common[target]
    IN  <<[type |-> "Begin", id |-> id, base |-> base, target |-> target,
           mode |-> IF base = 0 THEN "Reset" ELSE "Delta",
           add |-> add, remove |-> remove]>>
        \o Chunks(id, "Add", add) \o Chunks(id, "Remove", remove)
        \o <<[type |-> "Commit", id |-> id]>>

Sends(base) ==
    /\ used' = [used EXCEPT !.transfers = @ + 1]
    /\ told' = Revision
    /\ inbox' = inbox \o TransferMessages(used.transfers + 1, base, Revision)

\* A member's library or the set of members changes.
CommonChanges ==
    /\ Revision < MaxRevisions
    /\ \E charts \in SUBSET Charts : common' = Append(common, charts)
    /\ UNCHANGED <<client, told, inbox, outbox, used>>

\* The client is brought to the current revision, by a reset or by a delta on
\* the revision it was last brought to.
ServerTransfers ==
    /\ client.room = "InRoom"
    /\ told < Revision
    /\ Sends(0) \/ (told # 0 /\ Sends(told))
    /\ UNCHANGED <<common, client, outbox>>

ServerSelects ==
    /\ client.room = "InRoom" /\ told = Revision
    /\ \A i \in DOMAIN inbox : inbox[i].type # "SelectionChanged"
    /\ client.roomRev # Revision
    /\ inbox' = Append(inbox, [type |-> "SelectionChanged", rev |-> Revision])
    /\ UNCHANGED <<common, client, told, outbox, used>>

\* A resync is answered by a reset, or refused; a report of a revision that is
\* no longer the room's is refused as stale.
ServerHears ==
    /\ outbox # <<>>
    /\ outbox' = Tail(outbox)
    /\ UNCHANGED <<common, client>>
    /\ LET m == Head(outbox)
       IN  \/ m.type = "Resync" /\ Sends(0)
           \/ /\ m.type = "Applied" /\ m.rev = Revision
              /\ inbox' = Append(inbox, [type |-> "MemberUpdated", rev |-> m.rev])
              /\ UNCHANGED <<told, used>>
           \/ /\ m.type = "Applied" /\ m.rev # Revision
              /\ inbox' = Append(inbox, [type |-> "CommandError", id |-> m.id])
              /\ UNCHANGED <<told, used>>
           \/ /\ m.type = "Resync"
              /\ used.faults < MaxFaults
              /\ used' = [used EXCEPT !.faults = @ + 1]
              /\ inbox' = Append(inbox, [type |-> "CommandError", id |-> m.id])
              /\ told' = told

\* A chunk is left out of a transfer.
ServerSkipsChunk ==
    /\ used.faults < MaxFaults
    /\ used' = [used EXCEPT !.faults = @ + 1]
    /\ \E i \in DOMAIN inbox :
         inbox[i].type = "Chunk" /\ inbox' = RemoveAt(inbox, i)
    /\ UNCHANGED <<common, client, told, outbox>>

Cut ==
    /\ client.room = "InRoom"
    /\ used.cuts < MaxCuts
    /\ used' = [used EXCEPT !.cuts = @ + 1]
    /\ Becomes(BeginReconnect(client), <<>>)
    /\ inbox' = <<>>
    /\ UNCHANGED <<common, told>>

\* The seat is resumed; the new connection starts from nothing.
Resume ==
    /\ client.room = "Reconnecting"
    /\ Becomes(ApplyRoomSnapshot(client, Revision, 0), <<>>)
    /\ told' = 0
    /\ UNCHANGED <<common, inbox, used>>

-----------------------------------------------------------------------------
Init ==
    /\ common = <<{}>>
    /\ client = [room |-> "InRoom", state |-> "NotApplicable", revision |-> 0,
                 charts |-> {}, transfer |-> NoTransfer, resync |-> 0,
                 applied |-> 0, roomRev |-> 1, selfRev |-> 0, nextId |-> 1,
                 error |-> FALSE]
    /\ told = 0
    /\ inbox = <<>>
    /\ outbox = <<>>
    /\ used = [cuts |-> 0, faults |-> 0, transfers |-> 0]

Next ==
    \/ Receive \/ Retry
    \/ CommonChanges \/ ServerTransfers \/ ServerSelects \/ ServerHears
    \/ ServerSkipsChunk \/ Cut \/ Resume

Spec == Init /\ [][Next]_vars

\* What has arrived is delivered; the server brings a member up to date and
\* answers what it is asked.
FairSpec ==
    /\ Spec
    /\ WF_vars(Receive)
    /\ WF_vars(ServerTransfers)
    /\ WF_vars(ServerHears)

-----------------------------------------------------------------------------
(* Properties.                                                             *)

\* The index never offers a chart as available to all unless it is at the
\* revision the index claims.
IndexIsOfItsRevision ==
    client.state = "Ready" => client.charts = common[client.revision]

\* The player can take part in the selection again (canParticipateInSelection)
\* once the common charts stop changing.
CanTakePart ==
    /\ client.state = "Ready"
    /\ client.revision = Revision
    /\ client.roomRev = Revision
    /\ client.selfRev = Revision

\* A member who keeps the link ends up able to take part, unless an error is
\* shown.  In particular a server that sends its transfers in order is never
\* cut off for a chunk nobody waits for, which would leave the room Failed: a
\* resync that was asked for covers what is on its way.
BecomesCurrent == []<>(client.room = "Reconnecting" \/ client.error \/ CanTakePart)

\* A complete delta on the revision the index is at is applied by its commit.
GaplessDeltaApplies ==
    [][LET t == client.transfer
       IN  (/\ inbox # <<>> /\ inbox' = Tail(inbox)
            /\ client'.room = "InRoom"
            /\ Head(inbox).type = "Commit" /\ Head(inbox).id = t.id
            /\ t.mode = "Delta" /\ Complete(t)
            /\ t.base = client.revision)
           => client'.revision = t.target]_vars
=============================================================================
