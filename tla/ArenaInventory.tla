--------------------------- MODULE ArenaInventory ---------------------------
(***************************************************************************)
(* Publication of the local chart library to an arena room.                *)
(*                                                                         *)
(* SqliteArenaInventorySource builds a snapshot of the song database on a  *)
(* worker thread, one build at a time; ArenaSession asks for a snapshot,   *)
(* uploads it and has it committed by the server; a library that changes,  *)
(* a link that is lost or a seat that is left can come between any two of  *)
(* these steps.  The library is abstracted to the number of changes made   *)
(* to the database, a snapshot to the number it has seen.  The chunks of   *)
(* an upload are sent by the handler that sends the commit and arrive just *)
(* before it: they are one message here.                                   *)
(*                                                                         *)
(* Request ids, command ids and generations are numbers, 0 for none.       *)
(***************************************************************************)
EXTENDS Naturals, Sequences

CONSTANTS
    MaxChanges,   \* bound: changes made to the song database
    MaxCuts,      \* bound: links lost
    MaxSeats,     \* bound: times a room is entered
    MaxFaults     \* bound: builds that fail and uploads the server refuses

ASSUME BoundAssumption ==
    /\ MaxChanges \in Nat
    /\ MaxCuts \in Nat
    /\ MaxSeats \in Nat
    /\ MaxFaults \in Nat

VARIABLES
    disk,      \* changes written to the song database so far
    at,        \* at[g] = disk when generation g was announced
    client,    \* the inventory members of source and session
    server,    \* what the room server holds for the seat (external)
    outbox,    \* messages on their way to the server
    inbox,     \* messages on their way to the client
    used       \* cuts, seats and faults used up

vars == <<disk, at, client, server, outbox, inbox, used>>

-----------------------------------------------------------------------------
NoBuild == [req |-> 0, gen |-> 0, cancelled |-> FALSE, superseded |-> FALSE,
            done |-> FALSE, ok |-> FALSE, content |-> 0]

NoUpload == [gen |-> 0, content |-> 0, begin |-> 0, commit |-> 0]

Build == [req : Nat, gen : Nat, cancelled : BOOLEAN, superseded : BOOLEAN,
          done : BOOLEAN, ok : BOOLEAN, content : Nat]

Upload == [gen : Nat, content : Nat, begin : Nat, commit : Nat]

Client ==
    [room      : {"Out", "InRoom", "Reconnecting"},
     active    : Build,    \* m_active, with what its worker has read
     pending   : Build,    \* m_pending
     req       : Nat,      \* m_inventorySourceRequestId
     reqGen    : Nat,      \* m_inventorySourceRequestGeneration
     upload    : Upload,   \* m_pendingInventoryUpload
     published : Nat,      \* m_lastPublishedLibraryGeneration
     uncertain : Nat,      \* m_uncertainCommittedGeneration
     base      : Nat,      \* m_uncertainBaseInventoryRevision
     rev       : Nat,      \* m_selfInventoryRevision
     nextReq   : Nat \ {0},
     nextId    : Nat \ {0},
     error     : BOOLEAN]  \* an inventory error is shown

TypeOK ==
    /\ disk \in 0..MaxChanges
    /\ at \in Seq(0..MaxChanges)
    /\ client \in Client
    /\ {client.published, client.uncertain, client.reqGen} \subseteq 0..Len(at)
    /\ server \in [member : BOOLEAN, rev : Nat, gen : Nat, content : Nat]
    /\ used \in [cuts : 0..MaxCuts, seats : 0..MaxSeats, faults : 0..MaxFaults]

Generation == Len(at)

-----------------------------------------------------------------------------
(* SqliteArenaInventorySource.                                             *)

StartBuild(c, req, gen) ==
    [c EXCEPT !.active = [NoBuild EXCEPT !.req = req, !.gen = gen]]

SetPending(c, req, gen) ==
    [c EXCEPT !.pending = [NoBuild EXCEPT !.req = req, !.gen = gen]]

RequestSnapshot(c, req, gen) ==
    IF c.active = NoBuild
      THEN StartBuild(c, req, gen)
      ELSE SetPending([c EXCEPT !.active.superseded = TRUE], req, gen)

CancelSnapshot(c, req) ==
    [c EXCEPT !.active.cancelled = @ \/ (c.active # NoBuild /\ c.active.req = req),
              !.pending = IF @.req = req THEN NoBuild ELSE @]

\* The part of commitLibraryMutation that comes before generationChanged.
CommitMutation(c, gen) ==
    IF c.active = NoBuild \/ c.active.cancelled
      THEN c
      ELSE SetPending([c EXCEPT !.active.superseded = TRUE],
                      IF c.pending = NoBuild THEN c.active.req
                                             ELSE c.pending.req, gen)

\* The end of handleBuildFinished.
StartPending(c) ==
    IF c.pending = NoBuild
      THEN c
      ELSE StartBuild([c EXCEPT !.pending = NoBuild],
                      c.pending.req, c.pending.gen)

-----------------------------------------------------------------------------
(* ArenaSession.                                                           *)

\* m_roundsAvailable: negotiated with the link of the seat, reset with it.
RoundsAvailable(c) == c.room = "InRoom"

RequestInventorySnapshot(c, gen) ==
    IF \/ ~RoundsAvailable(c)
       \/ c.req # 0
       \/ c.upload # NoUpload
       \/ gen <= c.published
      THEN c
      ELSE RequestSnapshot([c EXCEPT !.req = c.nextReq, !.nextReq = @ + 1,
                                     !.reqGen = gen], c.nextReq, gen)

CancelInventorySnapshot(c) ==
    IF c.req = 0
      THEN c
      ELSE [CancelSnapshot(c, c.req) EXCEPT !.req = 0, !.reqGen = 0]

\* Fault: a running request is left to be answered with the new generation.
HandleInventoryGenerationChangedKeepingRequest(c, gen) ==
    IF gen <= c.published \/ ~RoundsAvailable(c)
      THEN c
      ELSE RequestInventorySnapshot(c, gen)

HandleInventoryGenerationChanged(c, gen) ==
    IF gen <= c.published \/ ~RoundsAvailable(c)
      THEN c
      ELSE RequestInventorySnapshot(CancelInventorySnapshot(c), gen)

\* The members of clearRoundTransfers that belong to the inventory.
ClearTransfers(c, abandonSeat) ==
    LET idle == [CancelInventorySnapshot(c) EXCEPT !.upload = NoUpload]
    IN  IF abandonSeat
          THEN [idle EXCEPT !.published = 0, !.uncertain = 0, !.base = 0]
          ELSE idle

ClearRoom(c) ==
    [ClearTransfers(c, TRUE) EXCEPT !.room = "Out", !.rev = 0]

BeginReconnect(c) ==
    [ClearTransfers(c, FALSE) EXCEPT !.room = "Reconnecting"]

\* A commit that was on the wire when the link was lost has landed when the
\* seat's inventory has a newer revision than the commit was sent on.
Reconcile(c) ==
    [c EXCEPT !.uncertain = 0, !.base = 0,
              !.published = IF /\ c.uncertain > c.published
                               /\ c.rev > c.base
                              THEN c.uncertain ELSE @]

ApplyRoomSnapshot(c, m) ==
    RequestInventorySnapshot(
      Reconcile(
        [ClearTransfers(c, c.room # "Reconnecting") EXCEPT
           !.rev = m.rev, !.error = FALSE, !.room = "InRoom"]), Generation)

-----------------------------------------------------------------------------
Message(type, id, gen, content, rev) ==
    [type |-> type, id |-> id, gen |-> gen, content |-> content, rev |-> rev]

\* A step of the client's code that sends messages and ends in c.
Becomes(c, messages) ==
    /\ client' = c
    /\ outbox' = IF c.room = "InRoom" THEN outbox \o messages ELSE <<>>

Idle == UNCHANGED <<disk, at, server, used>>

\* Fault: the commit names the generation the library has by now.
HandleInventoryUploadReadyLatest(m) ==
    IF m.id # client.upload.begin \/ client.upload.commit # 0
      THEN Becomes(client, <<>>)
      ELSE Becomes([client EXCEPT !.upload.commit = client.nextId,
                                  !.nextId = @ + 1,
                                  !.uncertain = Generation,
                                  !.base = client.rev],
                   <<Message("Commit", client.nextId, Generation,
                             client.upload.content, 0)>>)

HandleInventoryUploadReady(m) ==
    IF m.id # client.upload.begin \/ client.upload.commit # 0
      THEN Becomes(client, <<>>)
      ELSE Becomes([client EXCEPT !.upload.commit = client.nextId,
                                  !.nextId = @ + 1,
                                  !.uncertain = client.upload.gen,
                                  !.base = client.rev],
                   <<Message("Commit", client.nextId, client.upload.gen,
                             client.upload.content, 0)>>)

\* Fault: a library that changed during the upload is not asked for again.
HandleInventoryCommittedFinal(c, m) ==
    IF c.upload = NoUpload \/ m.id # c.upload.commit
      THEN c
      ELSE [c EXCEPT !.published = m.gen, !.uncertain = 0, !.base = 0,
                     !.upload = NoUpload, !.error = FALSE]

\* Fault: the generation after the committed one is taken as published.
HandleInventoryCommittedAhead(c, m) ==
    IF c.upload = NoUpload \/ m.id # c.upload.commit
      THEN c
      ELSE [c EXCEPT !.published = m.gen + 1, !.uncertain = 0, !.base = 0,
                     !.upload = NoUpload, !.error = FALSE]

HandleInventoryCommitted(c, m) ==
    IF c.upload = NoUpload \/ m.id # c.upload.commit
      THEN c
      ELSE RequestInventorySnapshot(
             [c EXCEPT !.published = m.gen, !.uncertain = 0, !.base = 0,
                       !.upload = NoUpload, !.error = FALSE], Generation)

\* handleCommandError for the command the upload is waiting on.
HandleInventoryRefused(c, m) ==
    LET waits  == IF c.upload.commit = 0 THEN c.upload.begin
                                         ELSE c.upload.commit
        failed == c.upload.gen
    IN  IF c.upload = NoUpload \/ m.id # waits
          THEN c
          ELSE LET reset == [c EXCEPT
                     !.upload = NoUpload, !.error = TRUE,
                     !.uncertain = IF @ = failed THEN 0 ELSE @,
                     !.base = IF c.uncertain = failed THEN 0 ELSE @]
               IN  IF Generation > failed
                    THEN RequestInventorySnapshot(reset, Generation)
                    ELSE reset

Receive ==
    /\ inbox # <<>>
    /\ inbox' = Tail(inbox)
    /\ Idle
    /\ LET m == Head(inbox)
       IN  \/ /\ m.type = "RoomSnapshot"
              /\ Becomes(ApplyRoomSnapshot(client, m), <<>>)
           \/ /\ m.type = "MemberUpdated"
              /\ Becomes([client EXCEPT !.rev = m.rev], <<>>)
           \/ m.type = "UploadReady" /\ HandleInventoryUploadReady(m)
           \/ /\ m.type = "Committed"
              /\ Becomes(HandleInventoryCommitted(client, m), <<>>)
           \/ /\ m.type = "Refused"
              /\ Becomes(HandleInventoryRefused(client, m), <<>>)

-----------------------------------------------------------------------------
(* The library and the worker.                                             *)

\* A scan, a removed root folder or a catalog writes to the database.
LibraryChanges ==
    /\ disk < MaxChanges
    /\ disk' = disk + 1
    /\ UNCHANGED <<at, client, server, outbox, inbox, used>>

\* commitLibraryMutation, once the scanning queue has drained.
CommitLibraryMutation ==
    /\ disk > at[Generation]
    /\ at' = Append(at, disk)
    /\ Becomes(HandleInventoryGenerationChanged(
                 CommitMutation(client, Generation + 1), Generation + 1), <<>>)
    /\ UNCHANGED <<disk, server, inbox, used>>

\* buildSnapshot on the worker: one SELECT sees one state of the database.
WorkerReads ==
    /\ client.active # NoBuild /\ ~client.active.done
    /\ \/ /\ client' = [client EXCEPT !.active.done = TRUE, !.active.ok = TRUE,
                                      !.active.content = disk]
          /\ used' = used
       \/ /\ used.faults < MaxFaults
          /\ client' = [client EXCEPT !.active.done = TRUE]
          /\ used' = [used EXCEPT !.faults = @ + 1]
    /\ UNCHANGED <<disk, at, server, outbox, inbox>>

HandleInventorySnapshotReady(c, build) ==
    IF build.req # c.req \/ ~RoundsAvailable(c)
      THEN Becomes(StartPending(c), <<>>)
      ELSE LET taken == [c EXCEPT !.req = 0, !.reqGen = 0]
           IN  IF build.gen # c.reqGen \/ build.gen <= c.published
                 THEN Becomes(StartPending(RequestInventorySnapshot(
                        [taken EXCEPT !.error = TRUE], Generation)), <<>>)
                 ELSE Becomes(StartPending(
                        [taken EXCEPT !.nextId = @ + 1,
                                      !.upload = [gen |-> build.gen,
                                                  content |-> build.content,
                                                  begin |-> c.nextId,
                                                  commit |-> 0]]),
                        <<Message("Begin", c.nextId, build.gen, 0, 0)>>)

HandleInventorySnapshotFailed(c, build) ==
    IF build.req # c.req
      THEN c
      ELSE [c EXCEPT !.req = 0, !.reqGen = 0, !.error = TRUE]

HandleBuildFinished ==
    LET build == client.active
        freed == [client EXCEPT !.active = NoBuild]
    IN  /\ build.done
        /\ inbox' = inbox
        /\ Idle
        /\ IF /\ ~build.cancelled
              /\ ~build.superseded
              /\ build.gen = Generation
             THEN IF build.ok
                    THEN HandleInventorySnapshotReady(freed, build)
                    ELSE Becomes(StartPending(
                           HandleInventorySnapshotFailed(freed, build)), <<>>)
             ELSE Becomes(StartPending(
                    IF /\ ~build.cancelled
                       /\ freed.pending = NoBuild
                       /\ build.gen # Generation
                      THEN SetPending(freed, build.req, Generation)
                      ELSE freed), <<>>)

\* The user asks to try again after an error.
Retry ==
    /\ client.room = "InRoom" /\ client.error
    /\ Becomes(RequestInventorySnapshot([client EXCEPT !.error = FALSE],
                                        Generation), <<>>)
    /\ inbox' = inbox
    /\ Idle

-----------------------------------------------------------------------------
(* The seat, as ArenaConnection has it, and the room server (external).    *)

Enter ==
    /\ client.room = "Out" /\ ~server.member
    /\ used.seats < MaxSeats
    /\ used' = [used EXCEPT !.seats = @ + 1]
    /\ server' = [member |-> TRUE, rev |-> 0, gen |-> 0, content |-> 0]
    /\ client' = ApplyRoomSnapshot(client, Message("RoomSnapshot", 0, 0, 0, 0))
    /\ inbox' = <<>> /\ outbox' = <<>>
    /\ UNCHANGED <<disk, at>>

\* The link is lost, or an event of a newer room generation makes the session
\* start over: what is in flight is lost.
Cut ==
    /\ client.room = "InRoom"
    /\ used.cuts < MaxCuts
    /\ used' = [used EXCEPT !.cuts = @ + 1]
    /\ Becomes(BeginReconnect(client), <<>>)
    /\ inbox' = <<>>
    /\ UNCHANGED <<disk, at, server>>

Resume ==
    /\ client.room = "Reconnecting" /\ server.member
    /\ Becomes(ApplyRoomSnapshot(
                 client, Message("RoomSnapshot", 0, 0, 0, server.rev)), <<>>)
    /\ UNCHANGED <<disk, at, server, inbox, used>>

Leave ==
    /\ client.room # "Out"
    /\ Becomes(ClearRoom(client), <<>>)
    /\ server' = [server EXCEPT !.member = FALSE]
    /\ inbox' = <<>>
    /\ UNCHANGED <<disk, at, used>>

\* The server takes a message, or refuses it.  It tells the member's new
\* revision before or after it acknowledges a commit.
ServerHears ==
    /\ outbox # <<>>
    /\ outbox' = Tail(outbox)
    /\ UNCHANGED <<disk, at, client>>
    /\ LET m         == Head(outbox)
           kept      == [server EXCEPT !.rev = @ + 1, !.gen = m.gen,
                                       !.content = m.content]
           committed == Message("Committed", m.id, m.gen, 0, 0)
           updated   == Message("MemberUpdated", 0, 0, 0, kept.rev)
       IN  \/ /\ m.type = "Begin"
              /\ server' = server
              /\ inbox' = Append(inbox, Message("UploadReady", m.id, m.gen, 0, 0))
              /\ used' = used
           \/ /\ m.type = "Commit"
              /\ server' = kept
              /\ inbox' \in {inbox \o <<committed, updated>>,
                             inbox \o <<updated, committed>>}
              /\ used' = used
           \/ /\ used.faults < MaxFaults
              /\ used' = [used EXCEPT !.faults = @ + 1]
              /\ server' = server
              /\ inbox' = Append(inbox, Message("Refused", m.id, 0, 0, 0))

-----------------------------------------------------------------------------
Init ==
    /\ disk = 0
    /\ at = <<0>>
    /\ client = [room |-> "Out", active |-> NoBuild, pending |-> NoBuild,
                 req |-> 0, reqGen |-> 0, upload |-> NoUpload,
                 published |-> 0, uncertain |-> 0, base |-> 0, rev |-> 0,
                 nextReq |-> 1, nextId |-> 1, error |-> FALSE]
    /\ server = [member |-> FALSE, rev |-> 0, gen |-> 0, content |-> 0]
    /\ outbox = <<>>
    /\ inbox = <<>>
    /\ used = [cuts |-> 0, seats |-> 0, faults |-> 0]

Next ==
    \/ LibraryChanges \/ CommitLibraryMutation \/ WorkerReads
    \/ HandleBuildFinished \/ Receive \/ Retry
    \/ Enter \/ Cut \/ Resume \/ Leave \/ ServerHears

Spec == Init /\ [][Next]_vars

\* The worker's query ends, the event loop delivers, a drained scanning queue
\* is announced, and a server that is asked answers.
FairSpec ==
    /\ Spec
    /\ WF_vars(CommitLibraryMutation)
    /\ WF_vars(WorkerReads)
    /\ WF_vars(HandleBuildFinished)
    /\ WF_vars(Receive)
    /\ WF_vars(ServerHears)

-----------------------------------------------------------------------------
(* Properties.                                                             *)

\* What the session believes it has published is held by the server, with every
\* change that was announced up to its generation: a commit whose acknowledgement
\* was lost is counted only if it has landed, and a snapshot that was overtaken
\* by a change is never taken for the newer one.
PublishedIsHeld ==
    /\ client.room # "Out" => client.published <= server.gen
    /\ server.gen # 0 => server.content >= at[server.gen]

\* A snapshot the session waits for is being built or queued, for the
\* generation the session expects: no request is left without an answer,
\* however builds, changes and cancellations overlap.
RequestIsServed ==
    client.req # 0 =>
        \/ /\ client.pending.req = client.req
           /\ client.pending.gen = client.reqGen
        \/ /\ client.active.req = client.req
           /\ client.active.gen = client.reqGen
           /\ client.reqGen = Generation
           /\ ~client.active.cancelled /\ ~client.active.superseded

\* While the player stays in a room the server ends up with the library as it
\* is, unless an error is shown.
Converges ==
    []<>(client.room # "InRoom" \/ client.error \/ server.content = disk)
=============================================================================
