------------------------- MODULE ArenaInventoryProofs -------------------------
(***************************************************************************)
(* Proofs about ArenaInventory, for any number of changes, cuts, seats and *)
(* faults: its type invariant, that a snapshot the session waits for is    *)
(* always being built or queued, and that the server holds what the        *)
(* session believes it has published.                                      *)
(***************************************************************************)
EXTENDS ArenaInventory, SequenceTheorems, TLAPS

-----------------------------------------------------------------------------
(* The inductive invariant.                                                *)

\* The request of c is served for generation g: by the build that waits, or by
\* one that runs and nobody has cancelled or superseded.
Served(c, g) ==
    c.req # 0 =>
       /\ c.room = "InRoom" /\ c.reqGen = g
       /\ \/ c.pending.req = c.req /\ c.pending.gen = g
          \/ /\ c.active.req = c.req /\ c.active.gen = g
             /\ ~c.active.cancelled /\ ~c.active.superseded

\* A build is of a request.
Asked(c) ==
    /\ c.active.req = 0 => c.active = NoBuild
    /\ c.pending.req = 0 => c.pending = NoBuild

\* What c says of generations is of the past of generation g.
Bounded(c, g) ==
    /\ c \in Client /\ Asked(c)
    /\ c.published \in 0..g /\ c.uncertain \in 0..g /\ c.reqGen \in 0..g
    /\ c.upload.gen \in 0..g

Fits(c, g) == Bounded(c, g) /\ Served(c, g)

Types == {"RoomSnapshot", "MemberUpdated", "UploadReady", "Committed", "Refused",
          "Begin", "Commit"}

Messages(g) == [type : Types, id : Nat, gen : 0..g, content : Nat, rev : Nat]

\* The variables other than the client.
OthersTyped ==
    /\ disk \in 0..MaxChanges
    /\ at \in Seq(0..MaxChanges)
    /\ server \in [member : BOOLEAN, rev : Nat, gen : Nat, content : Nat]
    /\ used \in [cuts : 0..MaxCuts, seats : 0..MaxSeats, faults : 0..MaxFaults]
    /\ inbox \in Seq(Messages(Generation))
    /\ outbox \in Seq(Messages(Generation))

IInv == OthersTyped /\ Fits(client, Generation)

-----------------------------------------------------------------------------
(* What the operations of source and session do to the client.             *)

LEMMA NoBuildTyped == NoBuild \in Build
  BY DEF NoBuild, Build

LEMMA NoUploadTyped == NoUpload \in Upload /\ NoUpload.gen = 0
  BY DEF NoUpload, Upload

\* A fresh build of a request.
LEMMA FreshBuild ==
    ASSUME NEW req \in Nat, NEW gen \in Nat
    PROVE  LET b == [NoBuild EXCEPT !.req = req, !.gen = gen]
           IN  /\ b \in Build /\ b.req = req /\ b.gen = gen
               /\ ~b.cancelled /\ ~b.superseded
  BY DEF NoBuild, Build

\* The fields of a client but the two builds.
SameButBuilds(d, c) ==
    /\ d.room = c.room /\ d.req = c.req /\ d.reqGen = c.reqGen /\ d.upload = c.upload
    /\ d.published = c.published /\ d.uncertain = c.uncertain /\ d.base = c.base
    /\ d.rev = c.rev /\ d.nextReq = c.nextReq /\ d.nextId = c.nextId /\ d.error = c.error

LEMMA BoundedByFields ==
    ASSUME NEW c, NEW d \in Client, NEW g \in Nat, Bounded(c, g), SameButBuilds(d, c),
           Asked(d)
    PROVE  Bounded(d, g)
  BY DEF Bounded, SameButBuilds

LEMMA StartBuildFits ==
    ASSUME NEW c \in Client, NEW req \in Nat, NEW gen \in Nat
    PROVE  /\ StartBuild(c, req, gen) \in Client
           /\ SameButBuilds(StartBuild(c, req, gen), c)
           /\ StartBuild(c, req, gen).pending = c.pending
           /\ StartBuild(c, req, gen).active.req = req
           /\ StartBuild(c, req, gen).active.gen = gen
           /\ Asked(c) /\ req # 0 => Asked(StartBuild(c, req, gen))
           /\ ~StartBuild(c, req, gen).active.cancelled
           /\ ~StartBuild(c, req, gen).active.superseded
  <1> DEFINE b == [NoBuild EXCEPT !.req = req, !.gen = gen]
  <1>1. b \in Build /\ b.req = req /\ b.gen = gen /\ ~b.cancelled /\ ~b.superseded
    BY FreshBuild
  <1>2. StartBuild(c, req, gen) = [c EXCEPT !.active = b]
    BY DEF StartBuild
  <1> HIDE DEF b
  <1>3. QED BY <1>1, <1>2 DEF Client, SameButBuilds, Asked

LEMMA SetPendingFits ==
    ASSUME NEW c \in Client, NEW req \in Nat, NEW gen \in Nat
    PROVE  /\ SetPending(c, req, gen) \in Client
           /\ SameButBuilds(SetPending(c, req, gen), c)
           /\ SetPending(c, req, gen).active = c.active
           /\ SetPending(c, req, gen).pending.req = req
           /\ SetPending(c, req, gen).pending.gen = gen
           /\ Asked(c) /\ req # 0 => Asked(SetPending(c, req, gen))
  <1> DEFINE b == [NoBuild EXCEPT !.req = req, !.gen = gen]
  <1>1. b \in Build /\ b.req = req /\ b.gen = gen
    BY FreshBuild
  <1>2. SetPending(c, req, gen) = [c EXCEPT !.pending = b]
    BY DEF SetPending
  <1> HIDE DEF b
  <1>3. QED BY <1>1, <1>2 DEF Client, SameButBuilds, Asked

LEMMA SupersedeFits ==
    ASSUME NEW c \in Client
    PROVE  /\ [c EXCEPT !.active.superseded = TRUE] \in Client
           /\ SameButBuilds([c EXCEPT !.active.superseded = TRUE], c)
           /\ [c EXCEPT !.active.superseded = TRUE].pending = c.pending
           /\ [c EXCEPT !.active.superseded = TRUE].active.req = c.active.req
           /\ Asked(c) /\ c.active # NoBuild => Asked([c EXCEPT !.active.superseded = TRUE])
  <1> DEFINE b == [c.active EXCEPT !.superseded = TRUE]
  <1>1. c.active \in Build
    BY DEF Client
  <1>2. b \in Build /\ b.req = c.active.req
    BY <1>1 DEF Build
  <1>3. [c EXCEPT !.active.superseded = TRUE] = [c EXCEPT !.active = b]
    OBVIOUS
  <1> HIDE DEF b
  <1>4. QED BY <1>2, <1>3 DEF Client, SameButBuilds, Asked

LEMMA SameTransitive ==
    ASSUME NEW c, NEW d, NEW e, SameButBuilds(d, c), SameButBuilds(e, d)
    PROVE  SameButBuilds(e, c)
  BY DEF SameButBuilds

\* A requested snapshot is served, whatever was built before.
LEMMA RequestSnapshotFits ==
    ASSUME NEW c \in Client, NEW req \in Nat, NEW gen \in Nat
    PROVE  LET d == RequestSnapshot(c, req, gen)
           IN  /\ d \in Client /\ SameButBuilds(d, c)
               /\ Asked(c) /\ req # 0 => Asked(d)
               /\ \/ d.pending.req = req /\ d.pending.gen = gen
                  \/ /\ d.active.req = req /\ d.active.gen = gen
                     /\ ~d.active.cancelled /\ ~d.active.superseded
  <1> DEFINE s == [c EXCEPT !.active.superseded = TRUE]
  <1>1. RequestSnapshot(c, req, gen) = IF c.active = NoBuild THEN StartBuild(c, req, gen)
                                       ELSE SetPending(s, req, gen)
    BY DEF RequestSnapshot
  <1>2. /\ s \in Client /\ SameButBuilds(s, c)
        /\ Asked(c) /\ c.active # NoBuild => Asked(s)
    BY SupersedeFits
  <1> HIDE DEF s
  <1>3. CASE c.active = NoBuild
    BY <1>1, <1>3, StartBuildFits
  <1>4. CASE c.active # NoBuild
    <2>1. PICK t \in Client : t = s
      BY <1>2
    <2>2. PICK d : d = SetPending(t, req, gen)
      OBVIOUS
    <2>3. /\ d \in Client /\ SameButBuilds(d, t)
          /\ d.pending.req = req /\ d.pending.gen = gen
          /\ Asked(t) /\ req # 0 => Asked(d)
      BY <2>2, SetPendingFits
    <2>4. SameButBuilds(d, c)
      BY <1>2, <2>1, <2>3, SameTransitive
    <2>5. RequestSnapshot(c, req, gen) = d
      BY <1>1, <1>4, <2>1, <2>2
    <2>6. QED BY <1>2, <1>4, <2>1, <2>3, <2>4, <2>5
  <1>5. QED BY <1>3, <1>4

LEMMA CancelSnapshotFits ==
    ASSUME NEW c \in Client, NEW req
    PROVE  /\ CancelSnapshot(c, req) \in Client /\ SameButBuilds(CancelSnapshot(c, req), c)
           /\ Asked(c) => Asked(CancelSnapshot(c, req))
  <1> DEFINE cut == c.active # NoBuild /\ c.active.req = req
             a == [c.active EXCEPT !.cancelled = @ \/ cut]
             p == IF c.pending.req = req THEN NoBuild ELSE c.pending
  <1>1. c.active \in Build /\ c.pending \in Build
    BY DEF Client
  <1>2. cut \in BOOLEAN
    OBVIOUS
  <1>3. /\ Asked(c) /\ a.req = 0 => a = NoBuild
        /\ Asked(c) /\ p.req = 0 => p = NoBuild
    BY <1>1 DEF Asked, Build, NoBuild
  <1> HIDE DEF cut
  <1>4. a \in Build /\ p \in Build
    BY <1>1, <1>2, NoBuildTyped DEF Build
  <1>5. CancelSnapshot(c, req) = [c EXCEPT !.active = a, !.pending = p]
    BY <1>1 DEF CancelSnapshot, cut
  <1> HIDE DEF a, p
  <1>6. QED BY <1>4, <1>5, <1>3 DEF Client, SameButBuilds, Asked

LEMMA ServedByFields ==
    ASSUME NEW c, NEW d, NEW g, Served(c, g), d.room = c.room, d.req = c.req,
           d.reqGen = c.reqGen, d.active = c.active, d.pending = c.pending
    PROVE  Served(d, g)
  BY DEF Served

\* requestInventorySnapshot for the newest generation leaves a request that is
\* served, or none.
LEMMA RequestInventorySnapshotFits ==
    ASSUME NEW c, NEW g \in Nat, Fits(c, g)
    PROVE  /\ Fits(RequestInventorySnapshot(c, g), g)
           /\ RequestInventorySnapshot(c, g).room = c.room
           /\ RequestInventorySnapshot(c, g).published = c.published
  <1> DEFINE n == [c EXCEPT !.req = c.nextReq, !.nextReq = @ + 1, !.reqGen = g]
             d == RequestInventorySnapshot(c, g)
  <1>1. c \in Client /\ Bounded(c, g) /\ Served(c, g)
    BY DEF Fits, Bounded
  <1>2. CASE d = c
    BY <1>1, <1>2 DEF Fits
  <1>3. CASE d # c
    <2>1. d = RequestSnapshot(n, c.nextReq, g) /\ c.room = "InRoom"
      BY <1>3 DEF RequestInventorySnapshot, RoundsAvailable
    <2>2. PICK q \in Nat \ {0} : c.nextReq = q
      BY <1>1 DEF Client
    <2>3. /\ n \in Client /\ n.room = c.room /\ n.req = q /\ n.reqGen = g
          /\ n.published = c.published /\ n.uncertain = c.uncertain /\ n.upload = c.upload
          /\ n.active = c.active /\ n.pending = c.pending
      <3>1. q + 1 \in Nat \ {0}
        OBVIOUS
      <3>2. n = [c EXCEPT !.req = q, !.nextReq = q + 1, !.reqGen = g]
        BY <2>2
      <3> HIDE DEF n
      <3>3. QED BY <1>1, <3>1, <3>2 DEF Client
    <2>4. Bounded(n, g)
      BY <1>1, <2>3 DEF Bounded, Asked
    <2> HIDE DEF n, d
    <2>5. /\ d \in Client /\ SameButBuilds(d, n) /\ (Asked(n) => Asked(d))
          /\ \/ d.pending.req = q /\ d.pending.gen = g
             \/ /\ d.active.req = q /\ d.active.gen = g
                /\ ~d.active.cancelled /\ ~d.active.superseded
      BY <2>1, <2>2, <2>3, RequestSnapshotFits
    <2>6. Bounded(d, g)
      BY <2>4, <2>5, BoundedByFields DEF Bounded
    <2>7. Served(d, g) /\ d.room = c.room /\ d.published = c.published
      BY <2>1, <2>3, <2>5 DEF Served, SameButBuilds
    <2>8. QED BY <2>6, <2>7 DEF Fits, d
  <1>4. QED BY <1>2, <1>3

LEMMA CancelInventorySnapshotFits ==
    ASSUME NEW c, NEW g \in Nat, Bounded(c, g)
    PROVE  LET d == CancelInventorySnapshot(c)
           IN  /\ Fits(d, g) /\ d.req = 0 /\ d.room = c.room /\ d.published = c.published
               /\ d.upload = c.upload
  <1> DEFINE e == CancelSnapshot(c, c.req)
             d == CancelInventorySnapshot(c)
  <1>1. c \in Client
    BY DEF Bounded
  <1>2. CASE c.req = 0
    BY <1>2 DEF CancelInventorySnapshot, Fits, Served
  <1>3. CASE c.req # 0
    <2>1. e \in Client /\ SameButBuilds(e, c) /\ Asked(e)
      BY <1>1, CancelSnapshotFits DEF Bounded
    <2>2. Bounded(e, g)
      BY <2>1, BoundedByFields
    <2>3. d = [e EXCEPT !.req = 0, !.reqGen = 0]
      BY <1>3 DEF CancelInventorySnapshot
    <2> HIDE DEF e, d
    <2>4. /\ d \in Client /\ d.req = 0 /\ d.reqGen = 0 /\ d.room = e.room
          /\ d.published = e.published /\ d.uncertain = e.uncertain /\ d.upload = e.upload
          /\ d.active = e.active /\ d.pending = e.pending
      BY <2>1, <2>3 DEF Client
    <2>5. Bounded(d, g)
      BY <2>2, <2>4 DEF Bounded, Asked
    <2>6. QED BY <2>1, <2>4, <2>5 DEF Fits, Served, SameButBuilds, d
  <1>4. QED BY <1>2, <1>3

LEMMA ClearTransfersFits ==
    ASSUME NEW c, NEW g \in Nat, Bounded(c, g), NEW abandonSeat \in BOOLEAN
    PROVE  LET d == ClearTransfers(c, abandonSeat)
           IN  Fits(d, g) /\ d.req = 0
  <1> DEFINE k == CancelInventorySnapshot(c)
             idle == [k EXCEPT !.upload = NoUpload]
  <1>1. Fits(k, g) /\ k.req = 0
    BY CancelInventorySnapshotFits
  <1>2. Bounded(k, g) /\ k \in Client
    BY <1>1 DEF Fits, Bounded
  <1>3. ClearTransfers(c, abandonSeat) =
           IF abandonSeat THEN [idle EXCEPT !.published = 0, !.uncertain = 0, !.base = 0]
           ELSE idle
    BY DEF ClearTransfers
  <1> HIDE DEF k
  <1>4. /\ idle \in Client /\ idle.req = 0 /\ idle.upload = NoUpload
        /\ idle.published = k.published /\ idle.uncertain = k.uncertain
        /\ idle.reqGen = k.reqGen /\ idle.active = k.active /\ idle.pending = k.pending
    BY <1>1, <1>2, NoUploadTyped DEF Client
  <1>5. Bounded(idle, g)
    BY <1>2, <1>4, NoUploadTyped DEF Bounded, Asked
  <1> HIDE DEF idle
  <1>6. CASE ~abandonSeat
    BY <1>3, <1>4, <1>5, <1>6 DEF Fits, Served
  <1>7. CASE abandonSeat
    <2> DEFINE d == [idle EXCEPT !.published = 0, !.uncertain = 0, !.base = 0]
    <2>1. /\ d \in Client /\ d.req = 0 /\ d.published = 0 /\ d.uncertain = 0
          /\ d.reqGen = idle.reqGen /\ d.upload = idle.upload
          /\ d.active = idle.active /\ d.pending = idle.pending
      BY <1>4 DEF Client
    <2>2. d = ClearTransfers(c, abandonSeat)
      BY <1>3, <1>7
    <2> HIDE DEF d
    <2>3. Bounded(d, g)
      BY <1>5, <2>1 DEF Bounded, Asked
    <2>4. QED BY <2>1, <2>2, <2>3 DEF Fits, Served
  <1>8. QED BY <1>6, <1>7

\* A client without a request.
LEMMA IdleFits ==
    ASSUME NEW c, NEW d \in Client, NEW g \in Nat, Bounded(c, g), d.req = 0,
           d.published = c.published, d.uncertain = c.uncertain,
           d.reqGen = c.reqGen, d.upload = c.upload,
           d.active = c.active, d.pending = c.pending
    PROVE  Fits(d, g)
  BY DEF Fits, Bounded, Served, Asked

LEMMA ReconcileFits ==
    ASSUME NEW c, NEW g \in Nat, Fits(c, g)
    PROVE  Fits(Reconcile(c), g) /\ Reconcile(c).room = c.room
  <1> DEFINE p == IF c.uncertain > c.published /\ c.rev > c.base THEN c.uncertain
                  ELSE c.published
             d == Reconcile(c)
  <1>1. c \in Client /\ Bounded(c, g) /\ Served(c, g)
    BY DEF Fits, Bounded
  <1>2. p \in 0..g /\ p \in Nat /\ 0 \in 0..g
    BY <1>1 DEF Bounded
  <1>3. d = [c EXCEPT !.uncertain = 0, !.base = 0, !.published = p]
    BY DEF Reconcile
  <1> HIDE DEF p, d
  <1>4. /\ d \in Client /\ d.room = c.room /\ d.req = c.req /\ d.reqGen = c.reqGen
        /\ d.active = c.active /\ d.pending = c.pending /\ d.upload = c.upload
        /\ d.published = p /\ d.uncertain = 0
    BY <1>1, <1>2, <1>3 DEF Client
  <1>5. Bounded(d, g)
    BY <1>1, <1>2, <1>4 DEF Bounded, Asked
  <1>6. Served(d, g)
    BY <1>1, <1>4, ServedByFields
  <1>7. QED BY <1>4, <1>5, <1>6 DEF Fits, d

LEMMA ClearRoomFits ==
    ASSUME NEW c, NEW g \in Nat, Fits(c, g)
    PROVE  /\ Fits(ClearRoom(c), g) /\ Fits(BeginReconnect(c), g)
           /\ ClearRoom(c).room = "Out" /\ BeginReconnect(c).room = "Reconnecting"
  <1>1. Bounded(c, g)
    BY DEF Fits
  <1> DEFINE a == ClearTransfers(c, TRUE)
             b == ClearTransfers(c, FALSE)
             x == ClearRoom(c)
             y == BeginReconnect(c)
  <1>2. Fits(a, g) /\ a.req = 0 /\ Fits(b, g) /\ b.req = 0
    BY <1>1, ClearTransfersFits
  <1>3. x = [a EXCEPT !.room = "Out", !.rev = 0] /\ y = [b EXCEPT !.room = "Reconnecting"]
    BY DEF ClearRoom, BeginReconnect
  <1> HIDE DEF a, b, x, y
  <1>4. Bounded(a, g) /\ Bounded(b, g) /\ a \in Client /\ b \in Client
    BY <1>2 DEF Fits, Bounded
  <1>5. /\ x \in Client /\ x.req = 0 /\ x.room = "Out"
        /\ x.published = a.published /\ x.uncertain = a.uncertain
        /\ x.reqGen = a.reqGen /\ x.upload = a.upload
        /\ x.active = a.active /\ x.pending = a.pending
    BY <1>2, <1>3, <1>4 DEF Client
  <1>6. /\ y \in Client /\ y.req = 0 /\ y.room = "Reconnecting"
        /\ y.published = b.published /\ y.uncertain = b.uncertain
        /\ y.reqGen = b.reqGen /\ y.upload = b.upload
        /\ y.active = b.active /\ y.pending = b.pending
    BY <1>2, <1>3, <1>4 DEF Client
  <1>7. Fits(x, g) /\ Fits(y, g)
    BY <1>4, <1>5, <1>6, IdleFits
  <1>8. QED BY <1>5, <1>6, <1>7 DEF x, y

\* Entering or resuming a room.
LEMMA ApplyRoomSnapshotFits ==
    ASSUME Generation \in Nat, NEW c, Fits(c, Generation), NEW m, m.rev \in Nat
    PROVE  /\ Fits(ApplyRoomSnapshot(c, m), Generation)
           /\ ApplyRoomSnapshot(c, m).room = "InRoom"
  <1> DEFINE a == ClearTransfers(c, c.room # "Reconnecting")
             b == [a EXCEPT !.rev = m.rev, !.error = FALSE, !.room = "InRoom"]
             r == Reconcile(b)
  <1>1. Fits(a, Generation) /\ a.req = 0
    BY ClearTransfersFits DEF Fits
  <1>2. ApplyRoomSnapshot(c, m) = RequestInventorySnapshot(r, Generation)
    BY DEF ApplyRoomSnapshot
  <1>3. b = [a EXCEPT !.rev = m.rev, !.error = FALSE, !.room = "InRoom"]
    OBVIOUS
  <1> HIDE DEF a, b
  <1>4. Fits(b, Generation) /\ b.room = "InRoom"
    <2>1. Bounded(a, Generation) /\ a \in Client
      BY <1>1 DEF Fits, Bounded
    <2>2. /\ b \in Client /\ b.req = 0 /\ b.room = "InRoom"
          /\ b.published = a.published /\ b.uncertain = a.uncertain
          /\ b.reqGen = a.reqGen /\ b.upload = a.upload
          /\ b.active = a.active /\ b.pending = a.pending
      BY <1>1, <1>3, <2>1 DEF Client
    <2>3. QED BY <2>1, <2>2, IdleFits
  <1>5. Fits(r, Generation) /\ r.room = "InRoom"
    BY <1>4, ReconcileFits
  <1> HIDE DEF r
  <1>6. QED BY <1>2, <1>5, RequestInventorySnapshotFits
-----------------------------------------------------------------------------
(* Messages.                                                               *)

LEMMA GenerationTyped ==
    ASSUME OthersTyped
    PROVE  Generation \in Nat
  BY DEF OthersTyped, Generation

LEMMA MessageTyped ==
    ASSUME NEW g \in Nat, NEW type \in Types, NEW id \in Nat, NEW gen \in 0..g,
           NEW content \in Nat, NEW rev \in Nat
    PROVE  Message(type, id, gen, content, rev) \in Messages(g)
  BY DEF Message, Messages

\* What is typed for a generation is typed for a later one.
LEMMA LaterMessages ==
    ASSUME NEW g \in Nat, NEW s \in Seq(Messages(g))
    PROVE  s \in Seq(Messages(g + 1))
  <1>1. Messages(g) \subseteq Messages(g + 1)
    BY DEF Messages
  <1>2. QED BY <1>1

\* The outbox keeps its type when a step adds messages that have it.
LEMMA BecomesFits ==
    ASSUME OthersTyped, NEW c, NEW added \in Seq(Messages(Generation)), Becomes(c, added)
    PROVE  client' = c /\ outbox' \in Seq(Messages(Generation))
  <1>1. outbox \o added \in Seq(Messages(Generation)) /\ <<>> \in Seq(Messages(Generation))
    BY DEF OthersTyped
  <1>2. QED BY <1>1 DEF Becomes

LEMMA NoMessages == <<>> \in Seq(Messages(Generation))
  OBVIOUS

\* A step of the session that the library does not see.
LEMMA SessionStepFits ==
    ASSUME IInv, NEW c, NEW added \in Seq(Messages(Generation)), Becomes(c, added),
           Fits(c, Generation), UNCHANGED <<disk, at, server, used>>,
           inbox' \in Seq(Messages(Generation))
    PROVE  IInv'
  <1>1. OthersTyped /\ Generation' = Generation
    BY DEF IInv, Generation
  <1>2. client' = c /\ outbox' \in Seq(Messages(Generation))
    BY <1>1, BecomesFits
  <1>3. OthersTyped'
    BY <1>1, <1>2 DEF OthersTyped
  <1>4. QED BY <1>1, <1>2, <1>3 DEF IInv

\* A step that keeps the request and its builds, and changes the rest in bounds.
LEMMA RestFits ==
    ASSUME NEW c, NEW d \in Client, NEW g \in Nat, Fits(c, g),
           d.room = c.room, d.req = c.req, d.reqGen = c.reqGen,
           d.active = c.active, d.pending = c.pending,
           d.published \in 0..g, d.uncertain \in 0..g, d.upload.gen \in 0..g
    PROVE  Fits(d, g)
  <1>1. Bounded(d, g)
    BY DEF Fits, Bounded, Asked
  <1>2. Served(d, g)
    BY ServedByFields DEF Fits
  <1>3. QED BY <1>1, <1>2 DEF Fits

-----------------------------------------------------------------------------
(* Answers of the server.                                                  *)

LEMMA UploadReadyFits ==
    ASSUME IInv, NEW m \in Messages(Generation), HandleInventoryUploadReady(m),
           UNCHANGED <<disk, at, server, used>>, inbox' \in Seq(Messages(Generation))
    PROVE  IInv'
  <1>1. /\ Generation \in Nat /\ Fits(client, Generation) /\ client \in Client
        /\ Bounded(client, Generation)
    BY GenerationTyped DEF IInv, Fits, Bounded
  <1>2. CASE Becomes(client, <<>>)
    BY <1>1, <1>2, NoMessages, SessionStepFits
  <1>3. CASE ~Becomes(client, <<>>)
    <2> DEFINE u == [client.upload EXCEPT !.commit = client.nextId]
               d == [client EXCEPT !.upload = u, !.nextId = @ + 1,
                                   !.uncertain = client.upload.gen, !.base = client.rev]
               sent == Message("Commit", client.nextId, client.upload.gen,
                               client.upload.content, 0)
    <2>1. Becomes(d, <<sent>>)
      BY <1>3 DEF HandleInventoryUploadReady
    <2>2. client.upload \in Upload /\ client.nextId \in Nat /\ client.upload.gen \in 0..Generation
          /\ client.upload.content \in Nat
      BY <1>1 DEF Client, Bounded, Upload
    <2>3. u \in Upload /\ u.gen = client.upload.gen
      BY <2>2 DEF Upload
    <2>4. /\ d \in Client /\ d.room = client.room /\ d.req = client.req
          /\ d.reqGen = client.reqGen /\ d.active = client.active
          /\ d.pending = client.pending /\ d.published = client.published
          /\ d.uncertain = client.upload.gen /\ d.upload = u
      <3>1. PICK n \in Nat \ {0} : client.nextId = n
        BY <1>1 DEF Client
      <3>2. n + 1 \in Nat \ {0}
        OBVIOUS
      <3>3. d = [client EXCEPT !.upload = u, !.nextId = n + 1,
                               !.uncertain = client.upload.gen, !.base = client.rev]
        BY <3>1
      <3>4. client.upload.gen \in Nat /\ client.rev \in Nat
        BY <1>1, <2>2 DEF Client
      <3> HIDE DEF u, d
      <3>5. QED BY <1>1, <2>3, <3>2, <3>3, <3>4 DEF Client
    <2> HIDE DEF u, d
    <2>5. Fits(d, Generation)
      BY <1>1, <2>2, <2>3, <2>4, RestFits DEF Bounded
    <2>6. sent \in Messages(Generation)
      <3>1. PICK n \in Nat : client.nextId = n
        BY <2>2
      <3>2. PICK k \in Nat : client.upload.content = k
        BY <2>2
      <3>3. PICK e \in 0..Generation : client.upload.gen = e
        BY <2>2
      <3>4. sent = [type |-> "Commit", id |-> n, gen |-> e, content |-> k, rev |-> 0]
        BY <3>1, <3>2, <3>3 DEF Message
      <3> HIDE DEF sent
      <3>5. QED BY <1>1, <3>4 DEF Messages, Types
    <2> HIDE DEF sent
    <2>7. <<sent>> \in Seq(Messages(Generation))
      BY <2>6
    <2>8. QED BY <2>1, <2>5, <2>7, SessionStepFits
  <1>4. QED BY <1>2, <1>3

LEMMA CommittedFits ==
    ASSUME NEW c, Generation \in Nat, Fits(c, Generation), NEW m \in Messages(Generation)
    PROVE  Fits(HandleInventoryCommitted(c, m), Generation)
  <1> DEFINE d == [c EXCEPT !.published = m.gen, !.uncertain = 0, !.base = 0,
                            !.upload = NoUpload, !.error = FALSE]
  <1>1. c \in Client /\ m.gen \in 0..Generation /\ m.gen \in Nat
    BY DEF Fits, Bounded, Messages
  <1>2. /\ d \in Client /\ d.room = c.room /\ d.req = c.req /\ d.reqGen = c.reqGen
        /\ d.active = c.active /\ d.pending = c.pending
        /\ d.published = m.gen /\ d.uncertain = 0 /\ d.upload = NoUpload
    BY <1>1, NoUploadTyped DEF Client
  <1>3. HandleInventoryCommitted(c, m) = IF c.upload = NoUpload \/ m.id # c.upload.commit THEN c
                                         ELSE RequestInventorySnapshot(d, Generation)
    BY DEF HandleInventoryCommitted
  <1> HIDE DEF d
  <1>4. Fits(d, Generation)
    BY <1>1, <1>2, NoUploadTyped, RestFits
  <1>5. QED BY <1>3, <1>4, RequestInventorySnapshotFits

LEMMA RefusedFits ==
    ASSUME NEW c, Generation \in Nat, Fits(c, Generation), NEW m \in Messages(Generation)
    PROVE  Fits(HandleInventoryRefused(c, m), Generation)
  <1> DEFINE u == IF c.uncertain = c.upload.gen THEN 0 ELSE c.uncertain
             b == IF c.uncertain = c.upload.gen THEN 0 ELSE c.base
             d == [c EXCEPT !.upload = NoUpload, !.error = TRUE, !.uncertain = u, !.base = b]
  <1>1. c \in Client /\ Bounded(c, Generation)
    BY DEF Fits, Bounded
  <1>2. u \in 0..Generation /\ u \in Nat /\ b \in Nat /\ c.published \in 0..Generation
    BY <1>1 DEF Bounded, Client
  <1>3. HandleInventoryRefused(c, m) \in {c, d, RequestInventorySnapshot(d, Generation)}
    BY <1>1 DEF HandleInventoryRefused, Client
  <1> HIDE DEF u, b
  <1>4. /\ d \in Client /\ d.room = c.room /\ d.req = c.req /\ d.reqGen = c.reqGen
        /\ d.active = c.active /\ d.pending = c.pending
        /\ d.published = c.published /\ d.uncertain = u /\ d.upload = NoUpload
    BY <1>1, <1>2, NoUploadTyped DEF Client
  <1> HIDE DEF d
  <1>5. Fits(d, Generation)
    BY <1>1, <1>2, <1>4, NoUploadTyped, RestFits
  <1>6. QED BY <1>3, <1>5, RequestInventorySnapshotFits

LEMMA ReceiveFits ==
    ASSUME IInv, Receive
    PROVE  IInv'
  <1> DEFINE m == Head(inbox)
  <1>1. /\ OthersTyped /\ Generation \in Nat /\ Fits(client, Generation)
        /\ client \in Client
    BY GenerationTyped DEF IInv, Fits, Bounded
  <1>2. m \in Messages(Generation) /\ inbox' \in Seq(Messages(Generation))
        /\ UNCHANGED <<disk, at, server, used>>
    BY <1>1 DEF Receive, Idle, OthersTyped
  <1>3. \/ Becomes(ApplyRoomSnapshot(client, m), <<>>)
        \/ Becomes([client EXCEPT !.rev = m.rev], <<>>)
        \/ HandleInventoryUploadReady(m)
        \/ Becomes(HandleInventoryCommitted(client, m), <<>>)
        \/ Becomes(HandleInventoryRefused(client, m), <<>>)
    BY DEF Receive
  <1> HIDE DEF m
  <1>4. m.rev \in Nat
    BY <1>2 DEF Messages
  <1>5. CASE Becomes(ApplyRoomSnapshot(client, m), <<>>)
    <2>1. Fits(ApplyRoomSnapshot(client, m), Generation)
      BY <1>1, <1>4, ApplyRoomSnapshotFits
    <2>2. QED BY <1>2, <1>5, <2>1, NoMessages, SessionStepFits
  <1>6. CASE Becomes([client EXCEPT !.rev = m.rev], <<>>)
    <2> DEFINE d == [client EXCEPT !.rev = m.rev]
    <2>1. /\ d \in Client /\ d.room = client.room /\ d.req = client.req
          /\ d.reqGen = client.reqGen /\ d.active = client.active
          /\ d.pending = client.pending /\ d.published = client.published
          /\ d.uncertain = client.uncertain /\ d.upload = client.upload
      BY <1>1, <1>4 DEF Client
    <2>2. Becomes(d, <<>>)
      BY <1>6
    <2> HIDE DEF d
    <2>3. Fits(d, Generation)
      BY <1>1, <2>1, RestFits DEF Fits, Bounded
    <2>4. QED BY <1>2, <2>2, <2>3, NoMessages, SessionStepFits
  <1>7. CASE HandleInventoryUploadReady(m)
    BY <1>2, <1>7, UploadReadyFits
  <1>8. CASE Becomes(HandleInventoryCommitted(client, m), <<>>)
    <2>1. Fits(HandleInventoryCommitted(client, m), Generation)
      BY <1>1, <1>2, CommittedFits
    <2>2. QED BY <1>2, <1>8, <2>1, NoMessages, SessionStepFits
  <1>9. CASE Becomes(HandleInventoryRefused(client, m), <<>>)
    <2>1. Fits(HandleInventoryRefused(client, m), Generation)
      BY <1>1, <1>2, RefusedFits
    <2>2. QED BY <1>2, <1>9, <2>1, NoMessages, SessionStepFits
  <1>10. QED BY <1>3, <1>5, <1>6, <1>7, <1>8, <1>9
-----------------------------------------------------------------------------
(* The library and its worker.                                             *)

LEMMA CommitMutationFits ==
    ASSUME NEW c \in Client, NEW gen \in Nat
    PROVE  /\ CommitMutation(c, gen) \in Client /\ SameButBuilds(CommitMutation(c, gen), c)
           /\ Asked(c) => Asked(CommitMutation(c, gen))
  <1> DEFINE s == [c EXCEPT !.active.superseded = TRUE]
             r == IF c.pending = NoBuild THEN c.active.req ELSE c.pending.req
             d == CommitMutation(c, gen)
  <1>1. CASE c.active = NoBuild \/ c.active.cancelled
    BY <1>1 DEF CommitMutation, SameButBuilds
  <1>2. CASE ~(c.active = NoBuild \/ c.active.cancelled)
    <2>1. s \in Client /\ SameButBuilds(s, c) /\ (Asked(c) => Asked(s))
      BY <1>2, SupersedeFits
    <2>2. r \in Nat /\ (Asked(c) => r # 0)
      BY <1>2 DEF Client, Build, Asked
    <2>3. PICK q \in Nat : r = q
      BY <2>2
    <2>4. d = SetPending(s, q, gen)
      BY <1>2, <2>3 DEF CommitMutation
    <2> HIDE DEF s, r, d
    <2>5. /\ SetPending(s, q, gen) \in Client /\ SameButBuilds(SetPending(s, q, gen), s)
          /\ Asked(s) /\ q # 0 => Asked(SetPending(s, q, gen))
      BY <2>1, SetPendingFits
    <2>6. d \in Client /\ SameButBuilds(d, c) /\ (Asked(c) => Asked(d))
      BY <2>1, <2>2, <2>3, <2>4, <2>5, SameTransitive
    <2>7. QED BY <2>6 DEF d
  <1>3. QED BY <1>1, <1>2

\* A request of the last generation is cancelled and made again for the new one.
LEMMA GenerationChangedFits ==
    ASSUME NEW c, NEW g \in Nat, Bounded(c, g), c.req # 0 => c.room = "InRoom"
    PROVE  Fits(HandleInventoryGenerationChanged(c, g + 1), g + 1)
  <1> DEFINE d == CancelInventorySnapshot(c)
  <1>1. Bounded(c, g + 1) /\ c.published <= g /\ c.published \in Nat
    BY DEF Bounded
  <1>2. Fits(d, g + 1)
    BY <1>1, CancelInventorySnapshotFits
  <1>3. CASE c.room = "InRoom"
    <2>1. ~(g + 1 <= c.published)
      BY <1>1
    <2>2. HandleInventoryGenerationChanged(c, g + 1) = RequestInventorySnapshot(d, g + 1)
      BY <1>3, <2>1 DEF HandleInventoryGenerationChanged, RoundsAvailable
    <2> HIDE DEF d
    <2>3. QED BY <1>2, <2>2, RequestInventorySnapshotFits
  <1>4. CASE c.room # "InRoom"
    <2>1. HandleInventoryGenerationChanged(c, g + 1) = c
      BY <1>4 DEF HandleInventoryGenerationChanged, RoundsAvailable
    <2>2. QED BY <1>1, <1>4, <2>1 DEF Fits, Served
  <1>5. QED BY <1>3, <1>4

LEMMA CommitLibraryMutationFits ==
    ASSUME IInv, CommitLibraryMutation
    PROVE  IInv'
  <1> DEFINE c == CommitMutation(client, Generation + 1)
             d == HandleInventoryGenerationChanged(c, Generation + 1)
  <1>1. /\ OthersTyped /\ Generation \in Nat /\ client \in Client
        /\ Bounded(client, Generation) /\ Served(client, Generation)
    BY GenerationTyped DEF IInv, Fits, Bounded
  <1>2. at' = Append(at, disk) /\ Becomes(d, <<>>) /\ UNCHANGED <<disk, server, inbox, used>>
    BY DEF CommitLibraryMutation
  <1>3. at' \in Seq(0..MaxChanges) /\ Generation' = Generation + 1
    BY <1>1, <1>2 DEF OthersTyped, Generation
  <1>4. c \in Client /\ SameButBuilds(c, client) /\ Asked(c)
    BY <1>1, CommitMutationFits DEF Bounded
  <1> HIDE DEF c
  <1>5. Bounded(c, Generation) /\ (c.req # 0 => c.room = "InRoom")
    BY <1>1, <1>4, BoundedByFields DEF SameButBuilds, Served
  <1>6. Fits(d, Generation + 1)
    BY <1>1, <1>5, GenerationChangedFits
  <1> HIDE DEF d
  <1>7. client' = d /\ outbox' \in Seq(Messages(Generation + 1))
        /\ inbox' \in Seq(Messages(Generation + 1))
    BY <1>1, <1>2, BecomesFits, NoMessages, LaterMessages DEF OthersTyped
  <1>8. QED BY <1>1, <1>2, <1>3, <1>6, <1>7 DEF IInv, OthersTyped

\* The build the worker runs learns what it has read.
LEMMA WorkerReadsFits ==
    ASSUME IInv, WorkerReads
    PROVE  IInv'
  <1>1. /\ OthersTyped /\ Generation \in Nat /\ Generation' = Generation
        /\ client \in Client /\ Bounded(client, Generation) /\ Served(client, Generation)
        /\ client.active \in Build /\ disk \in Nat
    BY GenerationTyped, BoundAssumption
       DEF IInv, Fits, Bounded, WorkerReads, Client, OthersTyped, Generation
  <1>2. PICK b \in Build :
          /\ client' = [client EXCEPT !.active = b]
          /\ b.req = client.active.req /\ b.gen = client.active.gen
          /\ b.cancelled = client.active.cancelled /\ b.superseded = client.active.superseded
    <2> DEFINE read == [client.active EXCEPT !.done = TRUE, !.ok = TRUE, !.content = disk]
               not == [client.active EXCEPT !.done = TRUE]
    <2>1. /\ read \in Build
          /\ read.req = client.active.req /\ read.gen = client.active.gen
          /\ read.cancelled = client.active.cancelled
          /\ read.superseded = client.active.superseded
      BY <1>1 DEF Build
    <2>2. /\ not \in Build
          /\ not.req = client.active.req /\ not.gen = client.active.gen
          /\ not.cancelled = client.active.cancelled
          /\ not.superseded = client.active.superseded
      BY <1>1 DEF Build
    <2>3. client' = [client EXCEPT !.active = read] \/ client' = [client EXCEPT !.active = not]
      BY <1>1 DEF WorkerReads, Client
    <2> HIDE DEF read, not
    <2>4. QED BY <2>1, <2>2, <2>3
  <1>3. /\ client' \in Client /\ client'.active = b /\ client'.pending = client.pending
        /\ SameButBuilds(client', client) /\ Asked(client')
    BY <1>1, <1>2 DEF Client, SameButBuilds, Bounded, Asked, WorkerReads
  <1>4. Bounded(client', Generation)
    BY <1>1, <1>3, BoundedByFields
  <1>5. Served(client', Generation)
    BY <1>1, <1>2, <1>3 DEF Served, SameButBuilds
  <1>6. used' \in [cuts : 0..MaxCuts, seats : 0..MaxSeats, faults : 0..MaxFaults]
    <2>1. CASE used' = used
      BY <1>1, <2>1 DEF OthersTyped
    <2>2. CASE used.faults < MaxFaults /\ used' = [used EXCEPT !.faults = @ + 1]
      <3>1. used.faults + 1 \in 0..MaxFaults
        BY SMTT(20), <1>1, <2>2, BoundAssumption DEF OthersTyped
      <3>2. QED BY <1>1, <2>2, <3>1 DEF OthersTyped
    <2>3. QED BY <2>1, <2>2 DEF WorkerReads
  <1>7. UNCHANGED <<disk, at, server, outbox, inbox>>
    BY DEF WorkerReads
  <1>8. OthersTyped'
    BY <1>1, <1>6, <1>7 DEF OthersTyped
  <1>9. QED BY <1>1, <1>4, <1>5, <1>8 DEF IInv, Fits

\* A request is served by the build that waits, once the running one is gone.
ServedByPending(c, g) ==
    c.req # 0 => /\ c.room = "InRoom" /\ c.reqGen = g
                 /\ c.pending.req = c.req /\ c.pending.gen = g

LEMMA StartPendingFits ==
    ASSUME NEW c, NEW g \in Nat, Bounded(c, g), ServedByPending(c, g)
    PROVE  Fits(StartPending(c), g)
  <1>1. c \in Client /\ c.pending.req \in Nat /\ c.pending.gen \in Nat
    BY DEF Bounded, Client, Build
  <1>2. CASE c.pending = NoBuild
    BY <1>2 DEF StartPending, ServedByPending, Fits, Served, NoBuild
  <1>3. CASE c.pending # NoBuild
    <2> DEFINE k == [c EXCEPT !.pending = NoBuild]
               d == StartPending(c)
    <2>1. k \in Client /\ SameButBuilds(k, c) /\ Asked(k)
      BY <1>1, NoBuildTyped DEF Client, SameButBuilds, Asked, Bounded
    <2>2. PICK q \in Nat, n \in Nat : c.pending.req = q /\ c.pending.gen = n
      BY <1>1
    <2>3. d = StartBuild(k, q, n)
      BY <1>3, <2>2 DEF StartPending
    <2> HIDE DEF k, d
    <2>4. /\ d \in Client /\ SameButBuilds(d, k) /\ (q # 0 => Asked(d))
          /\ d.active.req = q /\ d.active.gen = n
          /\ ~d.active.cancelled /\ ~d.active.superseded
      <3>1. /\ StartBuild(k, q, n) \in Client /\ SameButBuilds(StartBuild(k, q, n), k)
            /\ StartBuild(k, q, n).active.req = q /\ StartBuild(k, q, n).active.gen = n
            /\ ~StartBuild(k, q, n).active.cancelled
            /\ ~StartBuild(k, q, n).active.superseded
            /\ Asked(k) /\ q # 0 => Asked(StartBuild(k, q, n))
        BY <2>1, StartBuildFits
      <3>2. QED BY <2>1, <2>3, <3>1
    <2>5. SameButBuilds(d, c)
      BY <2>1, <2>4, SameTransitive
    <2>6. Bounded(d, g)
      <3>1. q # 0
        BY <1>3, <2>2 DEF Bounded, Asked
      <3>2. QED BY <2>4, <2>5, <3>1, BoundedByFields
    <2>7. Served(d, g)
      BY <2>2, <2>4, <2>5 DEF Served, ServedByPending, SameButBuilds
    <2>8. QED BY <2>6, <2>7 DEF Fits, d
  <1>4. QED BY <1>2, <1>3
\* The finished build is the answer to the request, which it ends, or to none that
\* the session still waits for.  The generation it is of is the newest, so the
\* session either uploads it or has published it already.
LEMMA SnapshotReadyFits ==
    ASSUME IInv, NEW c, Bounded(c, Generation), c.req # 0 => c.reqGen = Generation,
           NEW build, build.gen = Generation, build.req # 0, build.content \in Nat,
           build.req # c.req \/ c.room # "InRoom" => ServedByPending(c, Generation),
           HandleInventorySnapshotReady(c, build),
           UNCHANGED <<disk, at, server, used>>, inbox' \in Seq(Messages(Generation))
    PROVE  IInv'
  <1>1. Generation \in Nat /\ c \in Client
    BY GenerationTyped DEF IInv, Bounded
  <1>2. CASE build.req # c.req \/ ~RoundsAvailable(c)
    <2>1. ServedByPending(c, Generation)
      BY <1>2 DEF RoundsAvailable
    <2>2. Becomes(StartPending(c), <<>>)
      BY <1>2 DEF HandleInventorySnapshotReady
    <2>3. Fits(StartPending(c), Generation)
      BY <1>1, <2>1, StartPendingFits
    <2>4. QED BY <2>2, <2>3, NoMessages, SessionStepFits
  <1>3. CASE ~(build.req # c.req \/ ~RoundsAvailable(c))
    <2> DEFINE taken == [c EXCEPT !.req = 0, !.reqGen = 0]
    <2>1. /\ taken \in Client /\ taken.req = 0 /\ taken.reqGen = 0
          /\ taken.published = c.published /\ taken.uncertain = c.uncertain
          /\ taken.upload = c.upload /\ taken.nextId = c.nextId
          /\ taken.active = c.active /\ taken.pending = c.pending
      BY <1>1 DEF Client
    <2>2. Bounded(taken, Generation)
      BY <1>1, <2>1 DEF Bounded, Asked
    <2>3. CASE build.gen # c.reqGen \/ build.gen <= c.published
      <3> DEFINE e == [taken EXCEPT !.error = TRUE]
                 d == RequestInventorySnapshot(e, Generation)
      <3>1. Becomes(StartPending(d), <<>>)
        BY <1>3, <2>3 DEF HandleInventorySnapshotReady
      <3> HIDE DEF taken
      <3>2. /\ e \in Client /\ e.req = 0 /\ e.reqGen = taken.reqGen
            /\ e.published = taken.published /\ e.uncertain = taken.uncertain
            /\ e.upload = taken.upload /\ e.active = taken.active /\ e.pending = taken.pending
        BY <2>1 DEF Client
      <3> HIDE DEF e
      <3>3. Bounded(e, Generation)
        BY <2>2, <3>2 DEF Bounded, Asked
      <3>4. Generation <= e.published
        BY <1>3, <2>1, <2>3, <3>2
      <3>5. d = e
        BY <3>4 DEF RequestInventorySnapshot
      <3>6. Fits(StartPending(e), Generation)
        BY <1>1, <3>2, <3>3, StartPendingFits DEF ServedByPending
      <3>7. QED BY <3>1, <3>5, <3>6, NoMessages, SessionStepFits
    <2>4. CASE ~(build.gen # c.reqGen \/ build.gen <= c.published)
      <3> DEFINE u == [gen |-> build.gen, content |-> build.content,
                       begin |-> c.nextId, commit |-> 0]
                 e == [taken EXCEPT !.nextId = @ + 1, !.upload = u]
                 sent == Message("Begin", c.nextId, build.gen, 0, 0)
      <3>1. Becomes(StartPending(e), <<sent>>)
        BY <1>3, <2>4 DEF HandleInventorySnapshotReady
      <3>2. PICK n \in Nat \ {0} : c.nextId = n
        BY <1>1 DEF Client
      <3>3. /\ sent = [type |-> "Begin", id |-> n, gen |-> Generation, content |-> 0, rev |-> 0]
            /\ n + 1 \in Nat \ {0} /\ u \in Upload /\ u.gen = Generation
        BY <1>1, <3>2 DEF Message, Upload
      <3>4. e = [taken EXCEPT !.nextId = n + 1, !.upload = u]
        BY <2>1, <3>2
      <3> HIDE DEF taken, u, sent, e
      <3>5. /\ e \in Client /\ e.req = 0 /\ e.reqGen = taken.reqGen
            /\ e.published = taken.published /\ e.uncertain = taken.uncertain
            /\ e.upload = u /\ e.active = taken.active /\ e.pending = taken.pending
        BY <2>1, <3>3, <3>4 DEF Client
      <3>6. Bounded(e, Generation)
        BY <1>1, <2>2, <3>3, <3>5 DEF Bounded, Asked
      <3>7. Fits(StartPending(e), Generation)
        BY <1>1, <3>5, <3>6, StartPendingFits DEF ServedByPending
      <3>8. <<sent>> \in Seq(Messages(Generation))
        <4>1. sent \in Messages(Generation)
          BY <1>1, <3>3 DEF Messages, Types
        <4>2. QED BY <4>1
      <3>9. QED BY <3>1, <3>7, <3>8, SessionStepFits
    <2>5. QED BY <2>3, <2>4
  <1>4. QED BY <1>2, <1>3

\* A build that ends leaves the request served by the one that waits: had the running
\* one served it, it is the answer.
LEMMA HandleBuildFinishedFits ==
    ASSUME IInv, HandleBuildFinished
    PROVE  IInv'
  <1> DEFINE build == client.active
             freed == [client EXCEPT !.active = NoBuild]
  <1>1. /\ OthersTyped /\ Generation \in Nat /\ client \in Client
        /\ Bounded(client, Generation) /\ Served(client, Generation)
        /\ UNCHANGED <<disk, at, server, used>> /\ inbox' \in Seq(Messages(Generation))
    BY GenerationTyped DEF IInv, Fits, Bounded, HandleBuildFinished, Idle, OthersTyped
  <1>2. build \in Build /\ build.done /\ build.content \in Nat /\ build.req \in Nat
    BY <1>1 DEF Client, Build, HandleBuildFinished
  <1>3. build.req # 0
    BY <1>1, <1>2 DEF Bounded, Asked, NoBuild
  <1>4. /\ freed \in Client /\ SameButBuilds(freed, client) /\ freed.active = NoBuild
        /\ freed.pending = client.pending
    BY <1>1, NoBuildTyped DEF Client, SameButBuilds
  <1> DEFINE taken == ~build.cancelled /\ ~build.superseded /\ build.gen = Generation
             failed == HandleInventorySnapshotFailed(freed, build)
             again == ~build.cancelled /\ freed.pending = NoBuild /\ build.gen # Generation
             next == IF again THEN SetPending(freed, build.req, Generation) ELSE freed
  <1>5. /\ taken /\ build.ok => HandleInventorySnapshotReady(freed, build)
        /\ taken /\ ~build.ok => Becomes(StartPending(failed), <<>>)
        /\ ~taken => Becomes(StartPending(next), <<>>)
    BY <1>2 DEF HandleBuildFinished
  <1>6. Asked(freed)
    <2>1. Asked(client)
      BY <1>1 DEF Bounded
    <2> HIDE DEF freed
    <2>2. QED BY <1>4, <2>1 DEF Asked
  <1> HIDE DEF freed
  <1>7. Bounded(freed, Generation)
    BY <1>1, <1>4, <1>6, BoundedByFields
  <1>8. \/ ServedByPending(freed, Generation)
        \/ taken /\ build.req = freed.req /\ freed.room = "InRoom"
    BY <1>1, <1>4 DEF Served, ServedByPending, SameButBuilds
  <1>9. freed.req # 0 => freed.reqGen = Generation
    BY <1>1, <1>4 DEF Served, SameButBuilds
  <1>10. CASE taken /\ build.ok
    <2>1. HandleInventorySnapshotReady(freed, build) /\ build.gen = Generation
      BY <1>5, <1>10
    <2> HIDE DEF build
    <2>2. build.req # freed.req \/ freed.room # "InRoom" => ServedByPending(freed, Generation)
      BY <1>8
    <2>3. QED BY <1>1, <1>2, <1>3, <1>7, <1>9, <2>1, <2>2, SnapshotReadyFits
  <1>11. CASE taken /\ ~build.ok
    <2>1. Becomes(StartPending(failed), <<>>)
      BY <1>5, <1>11
    <2>2. Bounded(failed, Generation) /\ ServedByPending(failed, Generation)
      <3>1. CASE build.req # freed.req
        BY <1>7, <1>8, <3>1 DEF HandleInventorySnapshotFailed
      <3>2. CASE build.req = freed.req
        <4>1. failed = [freed EXCEPT !.req = 0, !.reqGen = 0, !.error = TRUE]
          BY <3>2 DEF HandleInventorySnapshotFailed
        <4> HIDE DEF failed
        <4>2. /\ failed \in Client /\ failed.req = 0 /\ failed.reqGen = 0
              /\ failed.published = freed.published /\ failed.uncertain = freed.uncertain
              /\ failed.upload = freed.upload /\ failed.active = freed.active
              /\ failed.pending = freed.pending
          BY <1>4, <4>1 DEF Client
        <4>3. QED BY <1>1, <1>7, <4>2 DEF Bounded, Asked, ServedByPending
      <3>3. QED BY <3>1, <3>2
    <2> HIDE DEF failed
    <2>3. Fits(StartPending(failed), Generation)
      BY <1>1, <2>2, StartPendingFits
    <2>4. QED BY <1>1, <2>1, <2>3, NoMessages, SessionStepFits
  <1>12. CASE ~taken
    <2>1. Becomes(StartPending(next), <<>>)
      BY <1>5, <1>12
    <2>2. ServedByPending(freed, Generation)
      BY <1>8, <1>12
    <2>3. Bounded(next, Generation) /\ ServedByPending(next, Generation)
      <3>1. CASE ~again
        BY <1>7, <2>2, <3>1
      <3>2. CASE again
        <4>1. PICK q \in Nat : build.req = q
          BY <1>2
        <4>2. /\ SetPending(freed, q, Generation) \in Client
              /\ SameButBuilds(SetPending(freed, q, Generation), freed)
              /\ Asked(freed) /\ q # 0 => Asked(SetPending(freed, q, Generation))
          BY <1>1, <1>4, SetPendingFits
        <4>3. next = SetPending(freed, q, Generation)
          BY <3>2, <4>1
        <4>4. freed.req = 0
          BY <2>2, <3>2 DEF ServedByPending, NoBuild
        <4> HIDE DEF next
        <4>5. /\ next \in Client /\ SameButBuilds(next, freed) /\ Asked(next)
          BY <1>3, <1>6, <4>1, <4>2, <4>3
        <4>6. Bounded(next, Generation)
          BY <1>1, <1>7, <4>5, BoundedByFields
        <4>7. QED BY <4>4, <4>5, <4>6 DEF ServedByPending, SameButBuilds
      <3>3. QED BY <3>1, <3>2
    <2> HIDE DEF next
    <2>4. Fits(StartPending(next), Generation)
      BY <1>1, <2>3, StartPendingFits
    <2>5. QED BY <1>1, <2>1, <2>4, NoMessages, SessionStepFits
  <1>13. QED BY <1>10, <1>11, <1>12
-----------------------------------------------------------------------------
(* The player, the seat and the server.                                    *)

LEMMA RetryFits ==
    ASSUME IInv, Retry
    PROVE  IInv'
  <1> DEFINE e == [client EXCEPT !.error = FALSE]
             d == RequestInventorySnapshot(e, Generation)
  <1>1. /\ Generation \in Nat /\ Fits(client, Generation) /\ client \in Client
        /\ UNCHANGED <<disk, at, server, used>> /\ inbox' \in Seq(Messages(Generation))
    BY GenerationTyped DEF IInv, Fits, Bounded, Retry, Idle, OthersTyped
  <1>2. Becomes(d, <<>>)
    BY DEF Retry
  <1>3. /\ e \in Client /\ e.room = client.room /\ e.req = client.req
        /\ e.reqGen = client.reqGen /\ e.active = client.active
        /\ e.pending = client.pending /\ e.published = client.published
        /\ e.uncertain = client.uncertain /\ e.upload = client.upload
    BY <1>1 DEF Client
  <1> HIDE DEF e
  <1>4. Fits(e, Generation)
    BY <1>1, <1>3, RestFits DEF Fits, Bounded
  <1>5. Fits(d, Generation)
    BY <1>1, <1>4, RequestInventorySnapshotFits
  <1> HIDE DEF d
  <1>6. QED BY <1>1, <1>2, <1>5, NoMessages, SessionStepFits

LEMMA MessageRevision ==
    ASSUME NEW rev \in Nat
    PROVE  Message("RoomSnapshot", 0, 0, 0, rev).rev = rev
  BY DEF Message

\* The seat is taken, left, cut off or resumed.
LEMMA SeatStepsFit ==
    ASSUME IInv, Enter \/ Cut \/ Resume \/ Leave
    PROVE  IInv'
  <1>1. /\ OthersTyped /\ Generation \in Nat /\ Fits(client, Generation)
        /\ server.rev \in Nat /\ disk' = disk /\ at' = at /\ Generation' = Generation
        /\ <<>> \in Seq(Messages(Generation)) /\ inbox \in Seq(Messages(Generation))
    BY GenerationTyped DEF IInv, Enter, Cut, Resume, Leave, OthersTyped, Generation
  <1>2. Fits(client', Generation) /\ outbox' \in Seq(Messages(Generation))
    <2>1. CASE Enter
      <3> DEFINE m == Message("RoomSnapshot", 0, 0, 0, 0)
      <3>1. m.rev \in Nat
        BY MessageRevision
      <3>2. client' = ApplyRoomSnapshot(client, m) /\ outbox' = <<>>
        BY <2>1 DEF Enter
      <3> HIDE DEF m
      <3>3. QED BY <1>1, <3>1, <3>2, ApplyRoomSnapshotFits
    <2>2. CASE Cut \/ Leave
      <3>1. Becomes(BeginReconnect(client), <<>>) \/ Becomes(ClearRoom(client), <<>>)
        BY <2>2 DEF Cut, Leave
      <3>2. client' \in {BeginReconnect(client), ClearRoom(client)}
            /\ outbox' \in Seq(Messages(Generation))
        BY <1>1, <3>1, BecomesFits, NoMessages
      <3>3. QED BY <1>1, <3>2, ClearRoomFits
    <2>3. CASE Resume
      <3> DEFINE m == Message("RoomSnapshot", 0, 0, 0, server.rev)
      <3>1. m.rev \in Nat
        BY <1>1, MessageRevision
      <3>2. Becomes(ApplyRoomSnapshot(client, m), <<>>)
        BY <2>3 DEF Resume
      <3> HIDE DEF m
      <3>3. client' = ApplyRoomSnapshot(client, m) /\ outbox' \in Seq(Messages(Generation))
        BY <1>1, <3>2, BecomesFits, NoMessages
      <3>4. QED BY <1>1, <3>1, <3>3, ApplyRoomSnapshotFits
    <2>4. QED BY <2>1, <2>2, <2>3
  <1>3. inbox' \in Seq(Messages(Generation))
    BY <1>1 DEF Enter, Cut, Resume, Leave
  <1>4. server' \in [member : BOOLEAN, rev : Nat, gen : Nat, content : Nat]
    <2>1. server \in [member : BOOLEAN, rev : Nat, gen : Nat, content : Nat]
      BY <1>1 DEF OthersTyped
    <2>2. server' \in {server, [server EXCEPT !.member = FALSE],
                       [member |-> TRUE, rev |-> 0, gen |-> 0, content |-> 0]}
      BY DEF Enter, Cut, Resume, Leave
    <2>3. /\ [server EXCEPT !.member = FALSE]
               \in [member : BOOLEAN, rev : Nat, gen : Nat, content : Nat]
          /\ [member |-> TRUE, rev |-> 0, gen |-> 0, content |-> 0]
               \in [member : BOOLEAN, rev : Nat, gen : Nat, content : Nat]
      BY <2>1
    <2>4. CASE server' = server
      BY <2>1, <2>4
    <2>5. CASE server' # server
      BY <2>2, <2>3, <2>5
    <2>6. QED BY <2>4, <2>5
  <1>5. used' \in [cuts : 0..MaxCuts, seats : 0..MaxSeats, faults : 0..MaxFaults]
    <2>1. CASE Enter
      <3>1. used.seats + 1 \in 0..MaxSeats /\ used' = [used EXCEPT !.seats = used.seats + 1]
        BY SMTT(20), <1>1, <2>1, BoundAssumption DEF OthersTyped, Enter
      <3>2. QED BY <1>1, <3>1 DEF OthersTyped
    <2>2. CASE Cut
      <3>1. used.cuts + 1 \in 0..MaxCuts /\ used' = [used EXCEPT !.cuts = used.cuts + 1]
        BY SMTT(20), <1>1, <2>2, BoundAssumption DEF OthersTyped, Cut
      <3>2. QED BY <1>1, <3>1 DEF OthersTyped
    <2>3. CASE Resume \/ Leave
      BY <1>1, <2>3 DEF OthersTyped, Resume, Leave
    <2>4. QED BY <2>1, <2>2, <2>3
  <1>6. QED BY <1>1, <1>2, <1>3, <1>4, <1>5 DEF IInv, OthersTyped

LEMMA ServerHearsFits ==
    ASSUME IInv, ServerHears
    PROVE  IInv'
  <1> DEFINE m == Head(outbox)
             kept == [server EXCEPT !.rev = @ + 1, !.gen = m.gen, !.content = m.content]
             ready == Message("UploadReady", m.id, m.gen, 0, 0)
             refused == Message("Refused", m.id, 0, 0, 0)
             committed == Message("Committed", m.id, m.gen, 0, 0)
             updated == Message("MemberUpdated", 0, 0, 0, kept.rev)
  <1>1. /\ OthersTyped /\ Generation \in Nat /\ Generation' = Generation
        /\ Fits(client, Generation) /\ UNCHANGED <<disk, at, client>>
        /\ m \in Messages(Generation) /\ outbox' \in Seq(Messages(Generation))
    BY GenerationTyped DEF IInv, ServerHears, OthersTyped, Generation
  <1>2. PICK i \in Nat, g \in 0..Generation, k \in Nat :
           m.id = i /\ m.gen = g /\ m.content = k
    BY <1>1 DEF Messages
  <1>3. PICK r \in Nat : server.rev = r
    BY <1>1 DEF OthersTyped
  <1>4. \/ server' = server /\ used' = used /\ inbox' = Append(inbox, ready)
        \/ /\ server' = kept /\ used' = used
           /\ inbox' \in {inbox \o <<committed, updated>>, inbox \o <<updated, committed>>}
        \/ /\ server' = server /\ inbox' = Append(inbox, refused)
           /\ used.faults < MaxFaults /\ used' = [used EXCEPT !.faults = @ + 1]
    BY DEF ServerHears
  <1>5. /\ ready = [type |-> "UploadReady", id |-> i, gen |-> g, content |-> 0, rev |-> 0]
        /\ refused = [type |-> "Refused", id |-> i, gen |-> 0, content |-> 0, rev |-> 0]
        /\ committed = [type |-> "Committed", id |-> i, gen |-> g, content |-> 0, rev |-> 0]
    BY <1>2 DEF Message
  <1>6. kept = [server EXCEPT !.rev = r + 1, !.gen = g, !.content = k]
    BY <1>2, <1>3
  <1> HIDE DEF m, kept, ready, refused, committed
  <1>7. /\ kept \in [member : BOOLEAN, rev : Nat, gen : Nat, content : Nat]
        /\ kept.rev = r + 1
    <2>1. /\ server \in [member : BOOLEAN, rev : Nat, gen : Nat, content : Nat]
          /\ r + 1 \in Nat /\ g \in Nat /\ k \in Nat
      BY <1>1 DEF OthersTyped
    <2>2. QED BY <1>6, <2>1
  <1>8. updated = [type |-> "MemberUpdated", id |-> 0, gen |-> 0, content |-> 0, rev |-> r + 1]
    BY <1>7 DEF Message
  <1> HIDE DEF updated
  <1>9. {ready, refused, committed, updated} \subseteq Messages(Generation)
    <2>1. ready \in Messages(Generation) /\ refused \in Messages(Generation)
      BY <1>1, <1>5 DEF Messages, Types
    <2>2. committed \in Messages(Generation) /\ updated \in Messages(Generation)
      BY <1>1, <1>5, <1>8 DEF Messages, Types
    <2>3. QED BY <2>1, <2>2
  <1>10. inbox' \in Seq(Messages(Generation))
    <2>1. inbox \in Seq(Messages(Generation))
      BY <1>1 DEF OthersTyped
    <2>2. /\ <<committed, updated>> \in Seq(Messages(Generation))
          /\ <<updated, committed>> \in Seq(Messages(Generation))
      BY <1>9
    <2>3. /\ Append(inbox, ready) \in Seq(Messages(Generation))
          /\ Append(inbox, refused) \in Seq(Messages(Generation))
      BY <1>9, <2>1
    <2>4. /\ inbox \o <<committed, updated>> \in Seq(Messages(Generation))
          /\ inbox \o <<updated, committed>> \in Seq(Messages(Generation))
      BY <2>1, <2>2
    <2>5. QED BY <1>4, <2>3, <2>4
  <1>11. server' \in [member : BOOLEAN, rev : Nat, gen : Nat, content : Nat]
    BY <1>1, <1>4, <1>7 DEF OthersTyped
  <1>12. used' \in [cuts : 0..MaxCuts, seats : 0..MaxSeats, faults : 0..MaxFaults]
    <2>1. CASE used' = used
      BY <1>1, <2>1 DEF OthersTyped
    <2>2. CASE used.faults < MaxFaults /\ used' = [used EXCEPT !.faults = @ + 1]
      <3>1. used \in [cuts : 0..MaxCuts, seats : 0..MaxSeats, faults : 0..MaxFaults]
        BY <1>1 DEF OthersTyped
      <3>2. used.faults \in 0..MaxFaults /\ MaxFaults \in Nat
        BY <3>1, BoundAssumption
      <3>3. used.faults + 1 \in 0..MaxFaults
        BY <2>2, <3>2
      <3>4. used' = [used EXCEPT !.faults = used.faults + 1]
        BY <2>2
      <3>5. QED BY <3>1, <3>3, <3>4
    <2>3. QED BY <1>4, <2>1, <2>2
  <1>13. QED BY <1>1, <1>10, <1>11, <1>12 DEF IInv, OthersTyped

-----------------------------------------------------------------------------
(* The theorems.                                                           *)

LEMMA InitFits == Init => IInv
  <1>1. SUFFICES ASSUME Init PROVE IInv
    OBVIOUS
  <1>2. /\ disk = 0 /\ at = <<0>> /\ outbox = <<>> /\ inbox = <<>>
        /\ server = [member |-> FALSE, rev |-> 0, gen |-> 0, content |-> 0]
        /\ used = [cuts |-> 0, seats |-> 0, faults |-> 0]
    BY <1>1 DEF Init
  <1>3. Generation = 1
    BY <1>2 DEF Generation
  <1>4. OthersTyped
    <2>1. 0 \in 0..MaxChanges /\ 0 \in 0..MaxCuts /\ 0 \in 0..MaxSeats /\ 0 \in 0..MaxFaults
      BY BoundAssumption
    <2>2. at \in Seq(0..MaxChanges)
      BY <1>2, <2>1
    <2>3. QED BY <1>2, <2>1, <2>2 DEF OthersTyped
  <1>5. /\ client \in Client /\ client.req = 0 /\ client.reqGen = 0
        /\ client.published = 0 /\ client.uncertain = 0 /\ client.upload = NoUpload
        /\ client.active = NoBuild /\ client.pending = NoBuild
    BY <1>1, NoBuildTyped, NoUploadTyped DEF Init, Client
  <1>6. Fits(client, Generation)
    BY <1>3, <1>5, NoUploadTyped DEF Fits, Bounded, Served, Asked
  <1>7. QED BY <1>4, <1>6 DEF IInv

LEMMA NextKeepsInv == IInv /\ [Next]_vars => IInv'
  <1>1. SUFFICES ASSUME IInv, [Next]_vars PROVE IInv'
    OBVIOUS
  <1>2. CASE UNCHANGED vars
    BY <1>1, <1>2 DEF vars, IInv, OthersTyped, Generation
  <1>3. CASE LibraryChanges
    <2>1. disk' \in 0..MaxChanges
      BY <1>1, <1>3, BoundAssumption DEF LibraryChanges, IInv, OthersTyped
    <2>2. UNCHANGED <<at, client, server, outbox, inbox, used>>
      BY <1>3 DEF LibraryChanges
    <2>3. QED BY <1>1, <2>1, <2>2 DEF IInv, OthersTyped, Generation
  <1>4. CASE CommitLibraryMutation \/ WorkerReads \/ HandleBuildFinished
    BY <1>1, <1>4, CommitLibraryMutationFits, WorkerReadsFits, HandleBuildFinishedFits
  <1>5. CASE Receive \/ Retry \/ ServerHears
    BY <1>1, <1>5, ReceiveFits, RetryFits, ServerHearsFits
  <1>6. CASE Enter \/ Cut \/ Resume \/ Leave
    BY <1>1, <1>6, SeatStepsFit
  <1>7. QED BY <1>1, <1>2, <1>3, <1>4, <1>5, <1>6 DEF Next

\* The invariant holds in every reachable state.
THEOREM InvariantHolds == Spec => []IInv
  BY InitFits, NextKeepsInv, PTL DEF Spec

\* Every variable keeps its type, and the client speaks of no generation that has
\* not been announced.
THEOREM TypeCorrect == Spec => []TypeOK
  <1>1. IInv => TypeOK
    BY DEF IInv, OthersTyped, Fits, Bounded, TypeOK, Generation
  <1>2. QED BY InvariantHolds, <1>1, PTL

\* A snapshot the session waits for is being built or queued, for the generation it
\* expects, however builds, changes, cuts and cancellations overlap.
THEOREM AlwaysServed == Spec => []RequestIsServed
  <1>1. IInv => RequestIsServed
    BY DEF IInv, Fits, Served, RequestIsServed
  <1>2. QED BY InvariantHolds, <1>1, PTL

-----------------------------------------------------------------------------
(* What the session has published is held by the server.                   *)

\* A build that ends as the snapshot of its generation.
Usable(c) ==
    c.active.done /\ c.active.ok /\ ~c.active.cancelled /\ ~c.active.superseded

\* A running build that can still be used has seen at least n changes.
Honest(c, n) ==
    /\ c.active.ok => c.active.done
    /\ Usable(c) => c.active.content >= n

\* What is announced is on the disk, and every snapshot has the changes that were
\* announced up to its generation.
Complete ==
    /\ Generation # 0 /\ at[Generation] <= disk
    /\ Honest(client, at[Generation])
    /\ client.upload.gen # 0 => client.upload.content >= at[client.upload.gen]
    /\ server.gen \in 0..Generation
    /\ server.gen # 0 => server.content >= at[server.gen]

\* The session asks for no snapshot while it uploads one.
Free(c) == c.req # 0 => c.upload = NoUpload

Settled(c, s) == c.uncertain = 0 /\ c.published = s.gen

Updated(s) == Message("MemberUpdated", 0, 0, 0, s.rev)

\* No upload; the revision of the last commit may be on its way.
Resting(c, s, i, o) ==
    /\ c.upload = NoUpload /\ Settled(c, s) /\ o = <<>>
    /\ \/ i = <<>> /\ c.rev = s.rev
       \/ i = <<Updated(s)>>

\* The server is asked for an upload, or has answered.
Asking(c, s, i, o) ==
    /\ c.upload # NoUpload /\ c.upload.commit = 0
    /\ c.upload.gen > c.published /\ Settled(c, s)
    /\ \/ /\ o = <<Message("Begin", c.upload.begin, c.upload.gen, 0, 0)>>
          /\ \/ i = <<>> /\ c.rev = s.rev
             \/ i = <<Updated(s)>>
       \/ /\ o = <<>>
          /\ \E r \in {Message("UploadReady", c.upload.begin, c.upload.gen, 0, 0),
                       Message("Refused", c.upload.begin, 0, 0, 0)} :
                \/ i = <<r>> /\ c.rev = s.rev
                \/ i = <<Updated(s), r>>

Committing(c) ==
    /\ c.upload # NoUpload /\ c.upload.commit # 0
    /\ c.upload.gen > c.published /\ c.uncertain = c.upload.gen

\* The commit has not been taken: it is on its way, or refused.
NotTaken(c, s, i, o) ==
    /\ Committing(c)
    /\ c.published = s.gen /\ c.base = s.rev /\ c.rev = s.rev
    /\ \/ /\ o = <<Message("Commit", c.upload.commit, c.upload.gen,
                           c.upload.content, 0)>>
          /\ i = <<>>
       \/ o = <<>> /\ i = <<Message("Refused", c.upload.commit, 0, 0, 0)>>

Done(c) == Message("Committed", c.upload.commit, c.upload.gen, 0, 0)

\* The server has taken the commit, and the session has yet to hear of it.
Taken(c, s, i, o) ==
    /\ Committing(c)
    /\ c.uncertain = s.gen /\ c.base < s.rev
    /\ o = <<>>
    /\ \/ i = <<Done(c)>> /\ c.rev = s.rev
       \/ i = <<Updated(s), Done(c)>>
       \/ i = <<Done(c), Updated(s)>>

\* Without a link nothing is in flight, and a commit that was is told apart by the
\* revision it was sent on.
Apart(c, s, i, o) ==
    /\ i = <<>> /\ o = <<>>
    /\ c.room = "Reconnecting" =>
          \/ Settled(c, s)
          \/ /\ c.uncertain > c.published
             /\ c.published = s.gen /\ c.base = s.rev
          \/ /\ c.uncertain > c.published
             /\ c.uncertain = s.gen /\ c.base < s.rev

Linked(c, s, i, o) ==
    /\ c.room = "InRoom" => \/ Resting(c, s, i, o) \/ Asking(c, s, i, o)
                            \/ NotTaken(c, s, i, o) \/ Taken(c, s, i, o)
    /\ c.room # "InRoom" => Apart(c, s, i, o)

\* The session, the server and what is between them agree.
Agree == Free(client) /\ Linked(client, server, inbox, outbox)

PInv == IInv /\ Complete /\ Agree

\* The part of the session that the server knows of.
SameSeat(d, c) ==
    /\ d.room = c.room /\ d.upload = c.upload /\ d.published = c.published
    /\ d.uncertain = c.uncertain /\ d.base = c.base /\ d.rev = c.rev

\* An operation on requests and builds.
Keeps(d, c) ==
    /\ SameSeat(d, c)
    /\ Free(c) => Free(d)
    /\ \A n : Honest(c, n) => Honest(d, n)

LEMMA KeepsTransitive ==
    ASSUME NEW c, NEW d, NEW e, Keeps(d, c), Keeps(e, d)
    PROVE  Keeps(e, c)
  BY DEF Keeps, SameSeat

LEMMA KeepsItself ==
    ASSUME NEW c
    PROVE  Keeps(c, c)
  BY DEF Keeps, SameSeat

\* A build that has just begun says nothing yet.
LEMMA FreshIsHonest ==
    ASSUME NEW c, NEW n, ~c.active.ok, ~c.active.done
    PROVE  Honest(c, n)
  BY DEF Honest, Usable

LEMMA StartBuildKeeps ==
    ASSUME NEW c \in Client, NEW req \in Nat, NEW gen \in Nat
    PROVE  Keeps(StartBuild(c, req, gen), c)
  <1> DEFINE b == [NoBuild EXCEPT !.req = req, !.gen = gen]
             d == StartBuild(c, req, gen)
  <1>1. ~b.ok /\ ~b.done
    BY DEF NoBuild
  <1>2. d = [c EXCEPT !.active = b]
    BY DEF StartBuild
  <1>3. SameButBuilds(d, c)
    BY StartBuildFits
  <1> HIDE DEF b, d
  <1>4. d.active = b
    BY <1>2 DEF Client
  <1>5. \A n : Honest(d, n)
    BY <1>1, <1>4, FreshIsHonest
  <1>6. Keeps(d, c)
    BY <1>3, <1>5 DEF Keeps, SameSeat, SameButBuilds, Free
  <1>7. QED BY <1>6 DEF d

LEMMA SetPendingKeeps ==
    ASSUME NEW c \in Client, NEW req \in Nat, NEW gen \in Nat
    PROVE  Keeps(SetPending(c, req, gen), c)
  <1> DEFINE d == SetPending(c, req, gen)
  <1>1. SameButBuilds(d, c) /\ d.active = c.active
    BY SetPendingFits
  <1> HIDE DEF d
  <1>2. Keeps(d, c)
    BY <1>1 DEF Keeps, SameSeat, SameButBuilds, Free, Honest, Usable
  <1>3. QED BY <1>2 DEF d

\* A superseded build is of no use.
LEMMA SupersedeKeeps ==
    ASSUME NEW c \in Client
    PROVE  LET d == [c EXCEPT !.active.superseded = TRUE]
           IN  /\ Keeps(d, c) /\ ~Usable(d)
               /\ d.active.ok = c.active.ok /\ d.active.done = c.active.done
  <1> DEFINE b == [c.active EXCEPT !.superseded = TRUE]
             d == [c EXCEPT !.active.superseded = TRUE]
  <1>1. c.active \in Build
    BY DEF Client
  <1>2. b.superseded /\ b.ok = c.active.ok /\ b.done = c.active.done
    BY <1>1 DEF Build
  <1>3. d = [c EXCEPT !.active = b]
    OBVIOUS
  <1>4. SameButBuilds(d, c)
    BY SupersedeFits
  <1> HIDE DEF b, d
  <1>5. d.active = b
    BY <1>3 DEF Client
  <1>6. Keeps(d, c) /\ ~Usable(d)
    BY <1>2, <1>4, <1>5 DEF Keeps, SameSeat, SameButBuilds, Free, Honest, Usable
  <1>7. QED BY <1>2, <1>5, <1>6 DEF d

LEMMA RequestSnapshotKeeps ==
    ASSUME NEW c \in Client, NEW req \in Nat, NEW gen \in Nat
    PROVE  Keeps(RequestSnapshot(c, req, gen), c)
  <1> DEFINE s == [c EXCEPT !.active.superseded = TRUE]
  <1>1. RequestSnapshot(c, req, gen) = IF c.active = NoBuild THEN StartBuild(c, req, gen)
                                       ELSE SetPending(s, req, gen)
    BY DEF RequestSnapshot
  <1>2. s \in Client /\ Keeps(s, c)
    BY SupersedeFits, SupersedeKeeps
  <1> HIDE DEF s
  <1>3. Keeps(SetPending(s, req, gen), s) /\ Keeps(StartBuild(c, req, gen), c)
    BY <1>2, SetPendingKeeps, StartBuildKeeps
  <1>4. QED BY <1>1, <1>2, <1>3, KeepsTransitive

LEMMA CancelSnapshotKeeps ==
    ASSUME NEW c \in Client, NEW req
    PROVE  Keeps(CancelSnapshot(c, req), c)
  <1> DEFINE cut == c.active # NoBuild /\ c.active.req = req
             a == [c.active EXCEPT !.cancelled = @ \/ cut]
             p == IF c.pending.req = req THEN NoBuild ELSE c.pending
             d == CancelSnapshot(c, req)
  <1>1. c.active \in Build
    BY DEF Client
  <1>2. cut \in BOOLEAN
    OBVIOUS
  <1>3. d = [c EXCEPT !.active = a, !.pending = p]
    BY <1>1 DEF CancelSnapshot
  <1>4. SameButBuilds(d, c)
    BY CancelSnapshotFits
  <1> HIDE DEF cut, p, d
  <1>5. /\ a.ok = c.active.ok /\ a.done = c.active.done /\ a.content = c.active.content
        /\ a.superseded = c.active.superseded
        /\ c.active.cancelled => a.cancelled
    BY <1>1, <1>2 DEF Build
  <1> HIDE DEF a
  <1>6. d.active = a
    BY <1>3 DEF Client
  <1>7. Keeps(d, c)
    BY <1>4, <1>5, <1>6 DEF Keeps, SameSeat, SameButBuilds, Free, Honest, Usable
  <1>8. QED BY <1>7 DEF d

LEMMA CancelInventorySnapshotKeeps ==
    ASSUME NEW c \in Client
    PROVE  Keeps(CancelInventorySnapshot(c), c)
  <1> DEFINE e == CancelSnapshot(c, c.req)
             d == CancelInventorySnapshot(c)
  <1>1. CASE c.req = 0
    BY <1>1, KeepsItself DEF CancelInventorySnapshot
  <1>2. CASE c.req # 0
    <2>1. e \in Client /\ Keeps(e, c)
      BY CancelSnapshotFits, CancelSnapshotKeeps
    <2>2. d = [e EXCEPT !.req = 0, !.reqGen = 0]
      BY <1>2 DEF CancelInventorySnapshot
    <2> HIDE DEF e, d
    <2>3. d.req = 0 /\ d.active = e.active /\ SameSeat(d, e)
      BY <2>1, <2>2 DEF Client, SameSeat
    <2>4. Keeps(d, e)
      BY <2>3 DEF Keeps, Free, Honest, Usable
    <2>5. Keeps(d, c)
      BY <2>1, <2>4, KeepsTransitive
    <2>6. QED BY <2>5 DEF d
  <1>3. QED BY <1>1, <1>2

LEMMA RequestInventorySnapshotKeeps ==
    ASSUME NEW c \in Client, NEW g \in Nat
    PROVE  Keeps(RequestInventorySnapshot(c, g), c)
  <1> DEFINE n == [c EXCEPT !.req = c.nextReq, !.nextReq = @ + 1, !.reqGen = g]
             d == RequestInventorySnapshot(c, g)
  <1>1. CASE d = c
    BY <1>1, KeepsItself
  <1>2. CASE d # c
    <2>1. d = RequestSnapshot(n, c.nextReq, g) /\ c.upload = NoUpload
      BY <1>2 DEF RequestInventorySnapshot
    <2>2. PICK q \in Nat \ {0} : c.nextReq = q
      BY DEF Client
    <2>3. q + 1 \in Nat \ {0}
      OBVIOUS
    <2>4. n = [c EXCEPT !.req = q, !.nextReq = q + 1, !.reqGen = g]
      BY <2>2
    <2> HIDE DEF n, d
    <2>5. n \in Client /\ n.active = c.active /\ SameSeat(n, c)
      BY <2>3, <2>4 DEF Client, SameSeat
    <2>6. Keeps(n, c)
      BY <2>1, <2>5 DEF Keeps, Free, Honest, Usable, SameSeat
    <2>7. Keeps(d, n)
      BY <2>1, <2>2, <2>5, RequestSnapshotKeeps
    <2>8. Keeps(d, c)
      BY <2>6, <2>7, KeepsTransitive
    <2>9. QED BY <2>8 DEF d
  <1>3. QED BY <1>1, <1>2

\* The build that waits is started on nothing it has read.
LEMMA StartPendingKeeps ==
    ASSUME NEW c \in Client
    PROVE  Keeps(StartPending(c), c)
  <1> DEFINE k == [c EXCEPT !.pending = NoBuild]
             d == StartPending(c)
  <1>1. CASE c.pending = NoBuild
    BY <1>1, KeepsItself DEF StartPending
  <1>2. CASE c.pending # NoBuild
    <2>1. /\ k \in Client /\ k.active = c.active /\ SameSeat(k, c) /\ k.req = c.req
      BY NoBuildTyped DEF Client, SameSeat
    <2>2. PICK q \in Nat, n \in Nat : c.pending.req = q /\ c.pending.gen = n
      BY DEF Client, Build
    <2>3. d = StartBuild(k, q, n)
      BY <1>2, <2>2 DEF StartPending
    <2> HIDE DEF k, d
    <2>4. Keeps(k, c)
      BY <2>1 DEF Keeps, Free, Honest, Usable, SameSeat
    <2>5. Keeps(d, k)
      BY <2>1, <2>3, StartBuildKeeps
    <2>6. Keeps(d, c)
      BY <2>4, <2>5, KeepsTransitive
    <2>7. QED BY <2>6 DEF d
  <1>3. QED BY <1>1, <1>2

\* After a mutation no running build can be used.
LEMMA CommitMutationKeeps ==
    ASSUME NEW c \in Client, NEW gen \in Nat
    PROVE  /\ Keeps(CommitMutation(c, gen), c)
           /\ \A n, e : Honest(c, n) => Honest(CommitMutation(c, gen), e)
  <1> DEFINE s == [c EXCEPT !.active.superseded = TRUE]
             r == IF c.pending = NoBuild THEN c.active.req ELSE c.pending.req
             d == CommitMutation(c, gen)
  <1>1. CASE c.active = NoBuild \/ c.active.cancelled
    BY <1>1, KeepsItself DEF CommitMutation, Honest, Usable, NoBuild
  <1>2. CASE ~(c.active = NoBuild \/ c.active.cancelled)
    <2>1. /\ s \in Client /\ Keeps(s, c) /\ ~Usable(s)
          /\ s.active.ok = c.active.ok /\ s.active.done = c.active.done
      BY SupersedeFits, SupersedeKeeps
    <2>2. PICK q \in Nat : r = q
      BY DEF Client, Build
    <2>3. d = SetPending(s, q, gen)
      BY <1>2, <2>2 DEF CommitMutation
    <2> HIDE DEF s, r, d
    <2>4. Keeps(d, s) /\ d.active = s.active
      BY <2>1, <2>3, SetPendingKeeps, SetPendingFits
    <2>5. Keeps(d, c)
      BY <2>1, <2>4, KeepsTransitive
    <2>6. \A n, e : Honest(c, n) => Honest(d, e)
      BY <2>1, <2>4 DEF Honest, Usable
    <2>7. QED BY <2>5, <2>6 DEF d
  <1>3. QED BY <1>1, <1>2

\* Server and messages see nothing of the session but its seat.
LEMMA LinkedBySeat ==
    ASSUME NEW c, NEW d, NEW s, NEW i, NEW o, SameSeat(d, c), Linked(c, s, i, o)
    PROVE  Linked(d, s, i, o)
  <1>1. Resting(c, s, i, o) => Resting(d, s, i, o)
    BY DEF Resting, SameSeat, Settled
  <1>2. Asking(c, s, i, o) => Asking(d, s, i, o)
    BY DEF Asking, SameSeat, Settled
  <1>3. NotTaken(c, s, i, o) => NotTaken(d, s, i, o)
    BY DEF NotTaken, SameSeat, Committing
  <1>4. Taken(c, s, i, o) => Taken(d, s, i, o)
    BY DEF Taken, SameSeat, Committing, Done
  <1>5. Apart(c, s, i, o) => Apart(d, s, i, o)
    BY DEF Apart, SameSeat, Settled
  <1>6. QED BY <1>1, <1>2, <1>3, <1>4, <1>5 DEF Linked, SameSeat

\* A step that sends nothing.
LEMMA BecomesQuiet ==
    ASSUME NEW s, NEW i, NEW o, Linked(client, s, i, outbox), outbox \in Seq(o),
           NEW d, d.room = client.room, Becomes(d, <<>>)
    PROVE  client' = d /\ outbox' = outbox
  <1>1. outbox \o <<>> = outbox
    OBVIOUS
  <1>2. d.room # "InRoom" => outbox = <<>>
    BY DEF Linked, Apart
  <1>3. QED BY <1>1, <1>2 DEF Becomes

LEMMA CompleteByFields ==
    ASSUME Complete, Honest(client', at[Generation]), UNCHANGED <<disk, at, server>>,
           client'.upload = client.upload \/ client'.upload = NoUpload
    PROVE  Complete'
  <1>1. Generation' = Generation
    BY DEF Generation
  <1>2. client'.upload.gen # 0 => client'.upload.content >= at[client'.upload.gen]
    BY DEF Complete, NoUpload
  <1>3. QED BY <1>1, <1>2 DEF Complete

\* A step that concerns requests and builds only.
LEMMA BuildStepHolds ==
    ASSUME PInv, NEW d, Keeps(d, client), Becomes(d, <<>>),
           UNCHANGED <<disk, at, server, inbox>>
    PROVE  Complete' /\ Agree'
  <1>1. Complete /\ Agree /\ outbox \in Seq(Messages(Generation))
    BY DEF PInv, IInv, OthersTyped
  <1>2. SameSeat(d, client) /\ Honest(d, at[Generation]) /\ Free(d)
    BY <1>1 DEF Keeps, Complete, Agree
  <1>3. client' = d /\ outbox' = outbox
    BY <1>1, <1>2, BecomesQuiet DEF Agree, SameSeat
  <1>4. Linked(d, server, inbox, outbox)
    BY <1>1, <1>2, LinkedBySeat DEF Agree
  <1>5. Complete'
    BY <1>1, <1>2, <1>3, CompleteByFields DEF SameSeat
  <1>6. QED BY <1>2, <1>3, <1>4, <1>5 DEF Agree

LEMMA LibraryChangesHolds ==
    ASSUME PInv, LibraryChanges
    PROVE  Complete' /\ Agree'
  <1>1. /\ disk' = disk + 1 /\ UNCHANGED <<at, client, server, outbox, inbox>>
        /\ Complete /\ Agree /\ disk \in Nat /\ Generation' = Generation
        /\ at \in Seq(0..MaxChanges) /\ Generation = Len(at)
    BY BoundAssumption DEF PInv, LibraryChanges, IInv, OthersTyped, Generation
  <1>2. Generation # 0 /\ at[Generation] <= disk
    BY <1>1 DEF Complete
  <1>3. at[Generation] \in Nat
    <2>1. Generation \in 1..Len(at)
      BY <1>1, <1>2
    <2>2. \A S : \A q \in Seq(S) : \A j \in 1..Len(q) : q[j] \in S
      OBVIOUS
    <2>4. at[Generation] \in 0..MaxChanges
      BY ONLY <1>1, <2>1, <2>2
    <2>3. QED BY <2>4, BoundAssumption
  <1>4. at[Generation] <= disk'
    BY <1>1, <1>2, <1>3
  <1>5. Complete'
    BY <1>1, <1>4 DEF Complete
  <1>6. Agree'
    BY <1>1 DEF Agree
  <1>7. QED BY <1>5, <1>6

LEMMA CommitLibraryMutationHolds ==
    ASSUME PInv, CommitLibraryMutation
    PROVE  Complete' /\ Agree'
  <1> DEFINE g == Generation + 1
             c == CommitMutation(client, g)
             k == CancelInventorySnapshot(c)
             d == HandleInventoryGenerationChanged(c, g)
  <1>1. /\ Complete /\ Agree /\ disk \in Nat /\ Generation \in Nat
        /\ at \in Seq(0..MaxChanges) /\ Generation = Len(at)
        /\ client \in Client /\ Bounded(client, Generation) /\ g \in Nat
        /\ outbox \in Seq(Messages(Generation))
    BY BoundAssumption, GenerationTyped
       DEF PInv, IInv, OthersTyped, Generation, Fits, Bounded
  <1>2. at' = Append(at, disk) /\ Becomes(d, <<>>) /\ UNCHANGED <<disk, server, inbox>>
    BY DEF CommitLibraryMutation
  <1>3. /\ Generation' = Generation + 1 /\ at'[Generation + 1] = disk
        /\ \A j \in 1..Generation : at'[j] = at[j]
    BY <1>1, <1>2 DEF Generation
  <1>4. /\ c \in Client /\ Keeps(c, client) /\ Asked(c) /\ SameButBuilds(c, client)
        /\ \A n, e : Honest(client, n) => Honest(c, e)
    BY <1>1, CommitMutationFits, CommitMutationKeeps DEF Bounded
  <1>5. Honest(c, disk)
    BY <1>1, <1>4 DEF Complete
  <1>6. Bounded(c, Generation)
    BY <1>1, <1>4, BoundedByFields
  <1>7. d = c \/ d = RequestInventorySnapshot(k, g)
    BY DEF HandleInventoryGenerationChanged
  <1> HIDE DEF c, d
  <1>8. k \in Client /\ Keeps(k, c)
    BY <1>1, <1>4, <1>6, CancelInventorySnapshotFits, CancelInventorySnapshotKeeps
       DEF Fits, Bounded
  <1> HIDE DEF k, g
  <1>9. Keeps(d, c)
    BY <1>1, <1>7, <1>8, RequestInventorySnapshotKeeps, KeepsTransitive, KeepsItself
  <1>10. Keeps(d, client) /\ Honest(d, disk)
    BY <1>4, <1>5, <1>9, KeepsTransitive DEF Keeps
  <1>11. SameSeat(d, client) /\ Free(d)
    BY <1>1, <1>10 DEF Keeps, Agree
  <1>12. client' = d /\ outbox' = outbox
    BY <1>1, <1>2, <1>11, BecomesQuiet DEF Agree, SameSeat
  <1>13. Linked(d, server, inbox, outbox)
    BY <1>1, <1>11, LinkedBySeat DEF Agree
  <1>14. Agree'
    BY <1>2, <1>11, <1>12, <1>13 DEF Agree
  <1>15. Complete'
    <2>1. Generation' # 0 /\ at'[Generation'] <= disk' /\ Honest(client', at'[Generation'])
      BY <1>1, <1>2, <1>3, <1>10, <1>12
    <2>2. client'.upload = client.upload /\ client.upload.gen \in 0..Generation
      BY <1>1, <1>11, <1>12 DEF SameSeat, Bounded
    <2>3. client'.upload.gen # 0 => client'.upload.content >= at'[client'.upload.gen]
      BY <1>1, <1>3, <2>2 DEF Complete
    <2>4. server.gen \in 0..Generation /\ (server.gen # 0 => server.content >= at[server.gen])
      BY <1>1 DEF Complete
    <2>5. server.gen \in 0..(Generation + 1) /\ (server.gen # 0 => server.content >= at'[server.gen])
      BY <1>1, <1>3, <2>4
    <2>6. QED BY <1>2, <1>3, <2>1, <2>3, <2>5 DEF Complete
  <1>16. QED BY <1>14, <1>15

\* What every step knows of the state before it.
LEMMA PInvFacts ==
    ASSUME PInv
    PROVE  /\ IInv /\ Complete /\ Agree /\ Free(client)
           /\ Linked(client, server, inbox, outbox)
           /\ Generation \in Nat /\ client \in Client
           /\ Bounded(client, Generation) /\ Served(client, Generation)
           /\ inbox \in Seq(Messages(Generation)) /\ outbox \in Seq(Messages(Generation))
           /\ server \in [member : BOOLEAN, rev : Nat, gen : Nat, content : Nat]
  BY GenerationTyped DEF PInv, IInv, OthersTyped, Fits, Bounded, Agree

\* A query sees what is on the disk, which is no less than what was announced.
LEMMA WorkerReadsHolds ==
    ASSUME PInv, WorkerReads
    PROVE  Complete' /\ Agree'
  <1>1. /\ Complete /\ Agree /\ client \in Client /\ client.active \in Build
        /\ ~client.active.done /\ UNCHANGED <<disk, at, server, outbox, inbox>>
    BY PInvFacts DEF WorkerReads, Client
  <1>2. disk \in Nat
    BY BoundAssumption DEF PInv, IInv, OthersTyped
  <1>3. PICK b \in Build :
          /\ client' = [client EXCEPT !.active = b]
          /\ b.done
          /\ \/ b.content = disk
             \/ b.ok = client.active.ok
    <2> DEFINE read == [client.active EXCEPT !.done = TRUE, !.ok = TRUE, !.content = disk]
               not == [client.active EXCEPT !.done = TRUE]
    <2>1. read \in Build /\ read.done /\ read.content = disk
      BY <1>1, <1>2 DEF Build
    <2>2. not \in Build /\ not.done /\ not.ok = client.active.ok
      BY <1>1 DEF Build
    <2>3. client' = [client EXCEPT !.active = read] \/ client' = [client EXCEPT !.active = not]
      BY <1>1 DEF WorkerReads, Client
    <2> HIDE DEF read, not
    <2>4. QED BY <2>1, <2>2, <2>3
  <1>4. client'.active = b /\ SameSeat(client', client) /\ client'.req = client.req
    BY <1>1, <1>3 DEF Client, SameSeat
  <1>5. ~client.active.ok /\ disk >= at[Generation]
    BY <1>1 DEF Complete, Honest
  <1>6. Honest(client', at[Generation])
    BY <1>3, <1>4, <1>5 DEF Honest, Usable
  <1>7. Complete'
    BY <1>1, <1>4, <1>6, CompleteByFields DEF SameSeat
  <1>8. Agree'
    <2>1. Linked(client', server, inbox, outbox)
      BY <1>1, <1>4, LinkedBySeat DEF Agree
    <2>2. QED BY <1>1, <1>4, <2>1 DEF Agree, Free, SameSeat
  <1>9. QED BY <1>7, <1>8

LEMMA RetryHolds ==
    ASSUME PInv, Retry
    PROVE  Complete' /\ Agree'
  <1> DEFINE e == [client EXCEPT !.error = FALSE]
             d == RequestInventorySnapshot(e, Generation)
  <1>1. /\ client \in Client /\ Generation \in Nat /\ Becomes(d, <<>>)
        /\ UNCHANGED <<disk, at, server, inbox>>
    BY PInvFacts DEF Retry, Idle
  <1>2. /\ e \in Client /\ SameSeat(e, client) /\ e.req = client.req
        /\ e.active = client.active
    BY <1>1 DEF Client, SameSeat
  <1> HIDE DEF e
  <1>3. Keeps(e, client)
    BY <1>2 DEF Keeps, Free, Honest, Usable, SameSeat
  <1>4. Keeps(d, client)
    BY <1>1, <1>2, <1>3, RequestInventorySnapshotKeeps, KeepsTransitive
  <1> HIDE DEF d
  <1>5. QED BY <1>1, <1>4, BuildStepHolds

\* A build that is of no use, or that nobody waits for.
LEMMA EndOfBuildHolds ==
    ASSUME PInv, NEW c \in Client, Keeps(c, client), Becomes(StartPending(c), <<>>),
           UNCHANGED <<disk, at, server, inbox>>
    PROVE  Complete' /\ Agree'
  BY StartPendingKeeps, KeepsTransitive, BuildStepHolds

\* A snapshot is taken up.
LEMMA UploadBegins ==
    ASSUME PInv, NEW c, NEW gen, NEW content, NEW id,
           c.upload = [gen |-> gen, content |-> content, begin |-> id, commit |-> 0],
           c.req = 0, c.room = "InRoom", client.room = "InRoom",
           \A n : Honest(c, n),
           c.published = client.published, c.uncertain = client.uncertain,
           c.base = client.base, c.rev = client.rev, c.published \in Nat,
           gen = Generation, gen > c.published, content >= at[gen], client.upload = NoUpload,
           Becomes(c, <<Message("Begin", id, gen, 0, 0)>>),
           UNCHANGED <<disk, at, server, inbox>>
    PROVE  Complete' /\ Agree'
  <1>1. /\ Complete /\ Linked(client, server, inbox, outbox)
        /\ Generation' = Generation
    BY PInvFacts DEF Generation
  <1>2. Resting(client, server, inbox, outbox)
    BY <1>1 DEF Linked, Asking, NotTaken, Taken, Committing
  <1>3. /\ Settled(client, server) /\ outbox = <<>>
        /\ \/ inbox = <<>> /\ client.rev = server.rev
           \/ inbox = <<Updated(server)>>
    BY <1>2 DEF Resting
  <1> DEFINE sent == Message("Begin", id, gen, 0, 0)
  <1>4. client' = c /\ outbox' = outbox \o <<sent>>
    BY DEF Becomes
  <1> HIDE DEF sent
  <1>5. <<>> \o <<sent>> = <<sent>>
    OBVIOUS
  <1>6. outbox' = <<sent>>
    BY <1>3, <1>4, <1>5
  <1>7. gen # 0 /\ Generation \in Nat
    BY PInvFacts
  <1>8. c.upload # NoUpload /\ c.upload.gen = gen /\ c.upload.begin = id /\ c.upload.commit = 0
        /\ c.upload.content = content
    BY <1>7 DEF NoUpload
  <1>9. Asking(c, server, inbox, <<sent>>)
    BY <1>3, <1>8 DEF Asking, Settled, sent
  <1>10. Linked(c, server, inbox, <<sent>>) /\ Free(c)
    BY <1>9 DEF Linked, Free
  <1>11. Agree'
    BY <1>4, <1>6, <1>10 DEF Agree
  <1>12. Complete'
    BY <1>1, <1>4, <1>8 DEF Complete
  <1>13. QED BY <1>11, <1>12

\* The session has no request left.
LEMMA EndRequestKeeps ==
    ASSUME NEW c \in Client, NEW error \in BOOLEAN
    PROVE  LET d == [c EXCEPT !.req = 0, !.reqGen = 0, !.error = error]
           IN  d \in Client /\ Keeps(d, c)
  <1> DEFINE d == [c EXCEPT !.req = 0, !.reqGen = 0, !.error = error]
  <1>1. d \in Client /\ d.req = 0 /\ d.active = c.active /\ SameSeat(d, c)
    BY DEF Client, SameSeat
  <1> HIDE DEF d
  <1>2. Keeps(d, c)
    BY <1>1 DEF Keeps, Free, Honest, Usable
  <1>3. QED BY <1>1, <1>2 DEF d

LEMMA RequestInventorySnapshotTyped ==
    ASSUME NEW c \in Client, NEW g \in Nat
    PROVE  RequestInventorySnapshot(c, g) \in Client
  <1> DEFINE n == [c EXCEPT !.req = c.nextReq, !.nextReq = @ + 1, !.reqGen = g]
             d == RequestInventorySnapshot(c, g)
  <1>1. CASE d # c
    <2>1. d = RequestSnapshot(n, c.nextReq, g)
      BY <1>1 DEF RequestInventorySnapshot
    <2>2. PICK q \in Nat \ {0} : c.nextReq = q
      BY DEF Client
    <2>3. q + 1 \in Nat \ {0}
      OBVIOUS
    <2>4. n = [c EXCEPT !.req = q, !.nextReq = q + 1, !.reqGen = g]
      BY <2>2
    <2> HIDE DEF n
    <2>5. n \in Client
      BY <2>3, <2>4 DEF Client
    <2>6. QED BY <2>1, <2>2, <2>5, RequestSnapshotFits
  <1>2. QED BY <1>1

LEMMA StartPendingRequest ==
    ASSUME NEW c \in Client
    PROVE  StartPending(c).req = c.req
  <1> DEFINE k == [c EXCEPT !.pending = NoBuild]
             d == StartPending(c)
  <1>1. CASE c.pending = NoBuild
    BY <1>1 DEF StartPending
  <1>2. CASE c.pending # NoBuild
    <2>1. k \in Client /\ k.req = c.req
      BY NoBuildTyped DEF Client
    <2>2. PICK q \in Nat, g \in Nat : c.pending.req = q /\ c.pending.gen = g
      BY DEF Client, Build
    <2>3. d = StartBuild(k, q, g)
      BY <1>2, <2>2 DEF StartPending
    <2> HIDE DEF k, d
    <2>4. d.req = k.req
      BY <2>1, <2>3, StartBuildFits DEF SameButBuilds
    <2>5. QED BY <2>1, <2>4 DEF d
  <1>3. QED BY <1>1, <1>2

\* The answer to the request the session waits for, with a snapshot of the newest
\* generation.
LEMMA SnapshotReadyHolds ==
    ASSUME PInv, NEW c \in Client, Keeps(c, client), ~c.active.ok, ~c.active.done,
           NEW build, build.req # 0, build.gen = Generation, build.content \in Nat,
           build.content >= at[Generation],
           HandleInventorySnapshotReady(c, build), UNCHANGED <<disk, at, server, inbox>>
    PROVE  Complete' /\ Agree'
  <1>1. /\ Generation \in Nat /\ client \in Client /\ Free(client) /\ Free(c)
        /\ SameSeat(c, client)
    BY PInvFacts DEF Keeps
  <1>2. CASE build.req # c.req \/ ~RoundsAvailable(c)
    <2>1. Becomes(StartPending(c), <<>>)
      BY <1>2 DEF HandleInventorySnapshotReady
    <2>2. QED BY <2>1, EndOfBuildHolds
  <1>3. CASE ~(build.req # c.req \/ ~RoundsAvailable(c))
    <2> DEFINE taken == [c EXCEPT !.req = 0, !.reqGen = 0]
    <2>1. /\ taken \in Client /\ taken.req = 0 /\ SameSeat(taken, c)
          /\ taken.active = c.active /\ taken.nextId = c.nextId
      BY DEF Client, SameSeat
    <2>2. CASE build.gen # c.reqGen \/ build.gen <= c.published
      <3> DEFINE e == [taken EXCEPT !.error = TRUE]
                 d == RequestInventorySnapshot(e, Generation)
      <3>1. Becomes(StartPending(d), <<>>)
        BY <1>3, <2>2 DEF HandleInventorySnapshotReady
      <3>2. e = [c EXCEPT !.req = 0, !.reqGen = 0, !.error = TRUE]
        OBVIOUS
      <3> HIDE DEF taken
      <3>3. e \in Client /\ Keeps(e, c)
        BY <3>2, EndRequestKeeps
      <3>4. d \in Client
        BY <1>1, <3>3, RequestInventorySnapshotTyped
      <3>5. Keeps(d, e)
        BY <1>1, <3>3, RequestInventorySnapshotKeeps
      <3> HIDE DEF e, d
      <3>6. Keeps(d, client)
        BY <3>3, <3>5, KeepsTransitive
      <3>7. QED BY <3>1, <3>4, <3>6, EndOfBuildHolds
    <2>3. CASE ~(build.gen # c.reqGen \/ build.gen <= c.published)
      <3> DEFINE u == [gen |-> build.gen, content |-> build.content,
                       begin |-> c.nextId, commit |-> 0]
                 e == [taken EXCEPT !.nextId = @ + 1, !.upload = u]
                 d == StartPending(e)
      <3>1. Becomes(d, <<Message("Begin", c.nextId, build.gen, 0, 0)>>)
        BY <1>3, <2>3 DEF HandleInventorySnapshotReady
      <3>2. PICK n \in Nat \ {0} : c.nextId = n
        BY DEF Client
      <3>3. n + 1 \in Nat \ {0} /\ u \in Upload
        BY <1>1, <3>2 DEF Upload
      <3>4. e = [taken EXCEPT !.nextId = n + 1, !.upload = u]
        BY <2>1, <3>2
      <3> HIDE DEF taken, u, e
      <3>5. /\ e \in Client /\ e.req = 0 /\ e.upload = u /\ e.active = c.active
            /\ e.room = c.room /\ e.published = c.published /\ e.uncertain = c.uncertain
            /\ e.base = c.base /\ e.rev = c.rev
        BY <2>1, <3>3, <3>4 DEF Client, SameSeat
      <3>6. Keeps(d, e) /\ d.req = 0
        <4>1. Keeps(d, e)
          BY <3>5, StartPendingKeeps
        <4>2. d.req = e.req
          BY <3>5, StartPendingRequest
        <4>3. QED BY <3>5, <4>1, <4>2
      <3> HIDE DEF d
      <3>7. \A k : Honest(d, k)
        BY <3>5, <3>6, FreshIsHonest DEF Keeps
      <3>8. /\ d.upload = u /\ d.room = "InRoom" /\ client.room = "InRoom"
            /\ d.published = client.published /\ d.uncertain = client.uncertain
            /\ d.base = client.base /\ d.rev = client.rev
        BY <1>1, <1>3, <3>5, <3>6 DEF Keeps, SameSeat, RoundsAvailable
      <3>9. client.upload = NoUpload
        BY <1>1, <1>3 DEF Free, SameSeat
      <3>10. d.published \in Nat /\ build.gen > d.published
        <4>1. client.published \in Nat /\ c.published = client.published
          BY <1>1 DEF Client, SameSeat
        <4>2. QED BY <1>1, <2>3, <3>8, <4>1
      <3>11. QED BY <3>1, <3>6, <3>7, <3>8, <3>9, <3>10, UploadBegins DEF u
    <2>4. QED BY <2>2, <2>3
  <1>4. QED BY <1>2, <1>3

\* A build that ends is handed over only when its generation is still the newest, and
\* then it has seen what was announced.
LEMMA HandleBuildFinishedHolds ==
    ASSUME PInv, HandleBuildFinished
    PROVE  Complete' /\ Agree'
  <1> DEFINE build == client.active
             freed == [client EXCEPT !.active = NoBuild]
             taken == ~build.cancelled /\ ~build.superseded /\ build.gen = Generation
             failed == HandleInventorySnapshotFailed(freed, build)
             again == ~build.cancelled /\ freed.pending = NoBuild /\ build.gen # Generation
             next == IF again THEN SetPending(freed, build.req, Generation) ELSE freed
  <1>1. /\ Complete /\ client \in Client /\ Generation \in Nat /\ Bounded(client, Generation)
        /\ UNCHANGED <<disk, at, server, inbox>> /\ build.done
    BY PInvFacts DEF HandleBuildFinished, Idle
  <1>2. build \in Build /\ build.content \in Nat /\ build.req \in Nat
    BY <1>1 DEF Client, Build
  <1>3. build.req # 0
    BY <1>1 DEF Bounded, Asked, NoBuild
  <1>4. freed \in Client /\ SameSeat(freed, client) /\ freed.active = NoBuild
        /\ freed.req = client.req
    BY <1>1, NoBuildTyped DEF Client, SameSeat
  <1>5. /\ taken /\ build.ok => HandleInventorySnapshotReady(freed, build)
        /\ taken /\ ~build.ok => Becomes(StartPending(failed), <<>>)
        /\ ~taken => Becomes(StartPending(next), <<>>)
    BY <1>1 DEF HandleBuildFinished
  <1> HIDE DEF freed
  <1>6. ~freed.active.ok /\ ~freed.active.done
    BY <1>4 DEF NoBuild
  <1>7. Keeps(freed, client)
    BY <1>4, <1>6, FreshIsHonest DEF Keeps, Free, SameSeat
  <1>8. CASE taken /\ build.ok
    <2>1. HandleInventorySnapshotReady(freed, build) /\ build.gen = Generation
      BY <1>5, <1>8
    <2>2. build.content >= at[Generation]
      BY <1>1, <1>8 DEF Complete, Honest, Usable
    <2> HIDE DEF build
    <2>3. QED BY <1>1, <1>2, <1>3, <1>4, <1>6, <1>7, <2>1, <2>2, SnapshotReadyHolds
  <1>9. CASE taken /\ ~build.ok
    <2>1. Becomes(StartPending(failed), <<>>)
      BY <1>5, <1>9
    <2>2. failed = freed \/ failed = [freed EXCEPT !.req = 0, !.reqGen = 0, !.error = TRUE]
      BY DEF HandleInventorySnapshotFailed
    <2> HIDE DEF failed
    <2>3. failed \in Client /\ Keeps(failed, freed)
      BY <1>4, <2>2, EndRequestKeeps, KeepsItself
    <2>4. QED BY <1>1, <1>7, <2>1, <2>3, KeepsTransitive, EndOfBuildHolds
  <1>10. CASE ~taken
    <2>1. Becomes(StartPending(next), <<>>)
      BY <1>5, <1>10
    <2>2. next = freed \/ next = SetPending(freed, build.req, Generation)
      OBVIOUS
    <2> HIDE DEF next
    <2>3. next \in Client /\ Keeps(next, freed)
      BY <1>1, <1>2, <1>4, <2>2, SetPendingFits, SetPendingKeeps, KeepsItself
    <2>4. QED BY <1>1, <1>7, <2>1, <2>3, KeepsTransitive, EndOfBuildHolds
  <1>11. QED BY <1>8, <1>9, <1>10

\* What is left of a session whose transfers are cleared.
LEMMA ClearTransfersKeeps ==
    ASSUME NEW c, NEW g \in Nat, Bounded(c, g), NEW abandonSeat \in BOOLEAN
    PROVE  LET d == ClearTransfers(c, abandonSeat)
           IN  /\ d \in Client /\ d.req = 0 /\ d.upload = NoUpload
               /\ d.room = c.room /\ d.rev = c.rev
               /\ \A n : Honest(c, n) => Honest(d, n)
               /\ abandonSeat => d.published = 0 /\ d.uncertain = 0 /\ d.base = 0
               /\ ~abandonSeat => /\ d.published = c.published
                                  /\ d.uncertain = c.uncertain /\ d.base = c.base
  <1> DEFINE k == CancelInventorySnapshot(c)
             idle == [k EXCEPT !.upload = NoUpload]
             gone == [idle EXCEPT !.published = 0, !.uncertain = 0, !.base = 0]
             d == ClearTransfers(c, abandonSeat)
  <1>1. c \in Client
    BY DEF Bounded
  <1>2. k \in Client /\ k.req = 0 /\ Keeps(k, c)
    BY <1>1, CancelInventorySnapshotFits, CancelInventorySnapshotKeeps DEF Fits, Bounded
  <1>3. d = IF abandonSeat THEN gone ELSE idle
    BY DEF ClearTransfers
  <1> HIDE DEF k
  <1>4. /\ idle \in Client /\ idle.req = 0 /\ idle.upload = NoUpload /\ idle.room = k.room
        /\ idle.published = k.published /\ idle.uncertain = k.uncertain
        /\ idle.base = k.base /\ idle.rev = k.rev /\ idle.active = k.active
    BY <1>2, NoUploadTyped DEF Client
  <1> HIDE DEF idle
  <1>5. /\ gone \in Client /\ gone.req = 0 /\ gone.upload = NoUpload /\ gone.room = idle.room
        /\ gone.published = 0 /\ gone.uncertain = 0 /\ gone.base = 0
        /\ gone.rev = idle.rev /\ gone.active = idle.active
    BY <1>4 DEF Client
  <1> HIDE DEF gone, d
  <1>6. \A n : Honest(c, n) => Honest(d, n)
    BY <1>2, <1>3, <1>4, <1>5 DEF Keeps, Honest, Usable
  <1>7. /\ d \in Client /\ d.req = 0 /\ d.upload = NoUpload
        /\ d.room = c.room /\ d.rev = c.rev
        /\ abandonSeat => d.published = 0 /\ d.uncertain = 0 /\ d.base = 0
        /\ ~abandonSeat => /\ d.published = c.published
                           /\ d.uncertain = c.uncertain /\ d.base = c.base
    BY <1>2, <1>3, <1>4, <1>5 DEF Keeps, SameSeat
  <1>8. QED BY <1>6, <1>7 DEF d

\* Entering a room, or resuming a seat that resolves a commit in doubt.
LEMMA ApplyRoomSnapshotSeats ==
    ASSUME NEW c, Generation \in Nat, Bounded(c, Generation), NEW m, m.rev \in Nat
    PROVE  LET d == ApplyRoomSnapshot(c, m)
               keep == c.room = "Reconnecting"
               landed == c.uncertain > c.published /\ m.rev > c.base
           IN  /\ d.room = "InRoom" /\ d.upload = NoUpload /\ Free(d)
               /\ d.uncertain = 0 /\ d.rev = m.rev
               /\ \A n : Honest(c, n) => Honest(d, n)
               /\ ~keep => d.published = 0
               /\ keep /\ landed => d.published = c.uncertain
               /\ keep /\ ~landed => d.published = c.published
  <1> DEFINE keep == c.room = "Reconnecting"
             landed == c.uncertain > c.published /\ m.rev > c.base
             a == ClearTransfers(c, ~keep)
             b == [a EXCEPT !.rev = m.rev, !.error = FALSE, !.room = "InRoom"]
             p == IF b.uncertain > b.published /\ b.rev > b.base THEN b.uncertain
                  ELSE b.published
             r == Reconcile(b)
             d == ApplyRoomSnapshot(c, m)
  <1>1. /\ a \in Client /\ a.req = 0 /\ a.upload = NoUpload
        /\ \A n : Honest(c, n) => Honest(a, n)
        /\ ~keep => a.published = 0 /\ a.uncertain = 0 /\ a.base = 0
        /\ keep => a.published = c.published /\ a.uncertain = c.uncertain /\ a.base = c.base
    <2>1. PICK x \in BOOLEAN : x = ~keep
      OBVIOUS
    <2>2. a = ClearTransfers(c, x)
      BY <2>1
    <2> HIDE DEF a, keep
    <2>3. QED BY <2>1, <2>2, ClearTransfersKeeps
  <1>2. d = RequestInventorySnapshot(r, Generation)
    BY DEF ApplyRoomSnapshot
  <1>3. r = [b EXCEPT !.uncertain = 0, !.base = 0, !.published = p]
    BY DEF Reconcile
  <1> HIDE DEF a, r, d
  <1>4. /\ b \in Client /\ b.req = 0 /\ b.upload = NoUpload /\ b.active = a.active
        /\ b.room = "InRoom" /\ b.rev = m.rev
        /\ b.published = a.published /\ b.uncertain = a.uncertain /\ b.base = a.base
    BY <1>1 DEF Client
  <1> HIDE DEF b
  <1>5. p \in Nat
    BY <1>4 DEF Client
  <1>6. /\ ~keep => p = 0
        /\ keep /\ landed => p = c.uncertain
        /\ keep /\ ~landed => p = c.published
    BY <1>1, <1>4
  <1> HIDE DEF p, landed
  <1>7. /\ r \in Client /\ r.req = 0 /\ r.upload = NoUpload /\ r.active = a.active
        /\ r.room = "InRoom" /\ r.rev = m.rev /\ r.published = p /\ r.uncertain = 0
    BY <1>3, <1>4, <1>5 DEF Client
  <1> HIDE DEF keep
  <1>8. Keeps(d, r)
    BY <1>2, <1>7, RequestInventorySnapshotKeeps
  <1>9. \A n : Honest(c, n) => Honest(d, n)
    BY <1>1, <1>7, <1>8 DEF Keeps, Honest, Usable
  <1>10. /\ d.room = "InRoom" /\ d.upload = NoUpload /\ d.uncertain = 0 /\ d.rev = m.rev
         /\ d.published = p /\ Free(d)
    BY <1>7, <1>8 DEF Keeps, SameSeat, Free
  <1>11. QED BY <1>6, <1>9, <1>10 DEF d, keep, landed

LEMMA EnterHolds ==
    ASSUME PInv, Enter
    PROVE  Complete' /\ Agree'
  <1> DEFINE m == Message("RoomSnapshot", 0, 0, 0, 0)
             d == ApplyRoomSnapshot(client, m)
  <1>1. /\ client.room = "Out" /\ client' = d /\ inbox' = <<>> /\ outbox' = <<>>
        /\ server' = [member |-> TRUE, rev |-> 0, gen |-> 0, content |-> 0]
        /\ UNCHANGED <<disk, at>> /\ Generation' = Generation
    BY DEF Enter, Generation
  <1>2. Complete /\ Generation \in Nat /\ Bounded(client, Generation)
    BY PInvFacts
  <1>3. m.rev = 0
    BY MessageRevision
  <1> HIDE DEF m
  <1>4. /\ d.room = "InRoom" /\ d.upload = NoUpload /\ Free(d)
        /\ d.uncertain = 0 /\ d.rev = 0 /\ d.published = 0
        /\ \A n : Honest(client, n) => Honest(d, n)
    BY <1>1, <1>2, <1>3, ApplyRoomSnapshotSeats
  <1> HIDE DEF d
  <1>5. server'.gen = 0 /\ server'.rev = 0
    BY <1>1
  <1>6. Resting(d, server', <<>>, <<>>)
    BY <1>4, <1>5 DEF Resting, Settled
  <1>7. Agree'
    BY <1>1, <1>4, <1>6 DEF Agree, Linked
  <1>8. Complete'
    BY <1>1, <1>2, <1>4, <1>5, NoUploadTyped DEF Complete
  <1>9. QED BY <1>7, <1>8

LEMMA ResumeHolds ==
    ASSUME PInv, Resume
    PROVE  Complete' /\ Agree'
  <1> DEFINE m == Message("RoomSnapshot", 0, 0, 0, server.rev)
             d == ApplyRoomSnapshot(client, m)
  <1>1. /\ client.room = "Reconnecting" /\ Becomes(d, <<>>)
        /\ UNCHANGED <<disk, at, server, inbox>> /\ Generation' = Generation
    BY DEF Resume, Generation
  <1>2. /\ Complete /\ Generation \in Nat /\ Bounded(client, Generation)
        /\ Linked(client, server, inbox, outbox) /\ client \in Client
        /\ server.rev \in Nat /\ server.gen \in Nat
    BY PInvFacts
  <1>3. m.rev = server.rev
    BY <1>2, MessageRevision
  <1> HIDE DEF m
  <1>4. /\ d.room = "InRoom" /\ d.upload = NoUpload /\ Free(d)
        /\ d.uncertain = 0 /\ d.rev = server.rev
        /\ \A n : Honest(client, n) => Honest(d, n)
        /\ client.uncertain > client.published /\ server.rev > client.base
             => d.published = client.uncertain
        /\ ~(client.uncertain > client.published /\ server.rev > client.base)
             => d.published = client.published
    BY <1>1, <1>2, <1>3, ApplyRoomSnapshotSeats
  <1> HIDE DEF d
  <1>5. Apart(client, server, inbox, outbox)
    BY <1>1, <1>2 DEF Linked
  <1>6. /\ inbox = <<>> /\ outbox = <<>>
        /\ \/ client.uncertain = 0 /\ client.published = server.gen
           \/ client.published = server.gen /\ client.base = server.rev
           \/ /\ client.uncertain > client.published
              /\ client.uncertain = server.gen /\ client.base < server.rev
    BY <1>1, <1>5 DEF Apart, Settled
  <1>7. client.published \in Nat /\ client.base \in Nat /\ client.uncertain \in Nat
    BY <1>2 DEF Client
  <1>8. d.published = server.gen
    BY <1>2, <1>4, <1>6, <1>7
  <1>9. Resting(d, server, <<>>, <<>>)
    BY <1>4, <1>8 DEF Resting, Settled
  <1>10. client' = d /\ outbox' = <<>>
    <2>1. <<>> \o <<>> = <<>>
      OBVIOUS
    <2>2. QED BY <1>1, <1>6, <2>1 DEF Becomes
  <1>11. Agree'
    BY <1>1, <1>4, <1>6, <1>9, <1>10 DEF Agree, Linked
  <1>12. Complete'
    BY <1>1, <1>2, <1>4, <1>10, CompleteByFields DEF Complete
  <1>13. QED BY <1>11, <1>12

\* When the link is lost, a commit is in doubt or there is none.
LEMMA InDoubt ==
    ASSUME NEW c, NEW s, NEW i, NEW o, Linked(c, s, i, o), c.room = "InRoom"
    PROVE  \/ Settled(c, s)
           \/ /\ c.uncertain > c.published /\ c.published = s.gen /\ c.base = s.rev
           \/ /\ c.uncertain > c.published /\ c.uncertain = s.gen /\ c.base < s.rev
  <1>1. Resting(c, s, i, o) \/ Asking(c, s, i, o) => Settled(c, s)
    BY DEF Resting, Asking
  <1>2. NotTaken(c, s, i, o) =>
          c.uncertain > c.published /\ c.published = s.gen /\ c.base = s.rev
    BY DEF NotTaken, Committing
  <1>3. Taken(c, s, i, o) =>
          c.uncertain > c.published /\ c.uncertain = s.gen /\ c.base < s.rev
    BY DEF Taken, Committing
  <1>4. QED BY <1>1, <1>2, <1>3 DEF Linked

LEMMA CutHolds ==
    ASSUME PInv, Cut
    PROVE  Complete' /\ Agree'
  <1> DEFINE k == ClearTransfers(client, FALSE)
             d == BeginReconnect(client)
  <1>1. /\ client.room = "InRoom" /\ Becomes(d, <<>>) /\ inbox' = <<>>
        /\ UNCHANGED <<disk, at, server>>
    BY DEF Cut
  <1>2. /\ Complete /\ Generation \in Nat /\ Bounded(client, Generation)
        /\ Linked(client, server, inbox, outbox)
    BY PInvFacts
  <1>3. /\ k \in Client /\ k.req = 0 /\ k.upload = NoUpload
        /\ \A n : Honest(client, n) => Honest(k, n)
        /\ k.published = client.published /\ k.uncertain = client.uncertain
        /\ k.base = client.base
    BY <1>2, ClearTransfersKeeps
  <1>4. d = [k EXCEPT !.room = "Reconnecting"]
    BY DEF BeginReconnect
  <1> HIDE DEF k, d
  <1>5. /\ d.room = "Reconnecting" /\ d.req = 0 /\ d.upload = NoUpload
        /\ d.active = k.active
        /\ d.published = client.published /\ d.uncertain = client.uncertain
        /\ d.base = client.base
    BY <1>3, <1>4 DEF Client
  <1>6. client' = d /\ outbox' = <<>>
    BY <1>1, <1>5 DEF Becomes
  <1>7. Apart(d, server, <<>>, <<>>)
    BY <1>1, <1>2, <1>5, InDoubt DEF Apart, Settled
  <1>8. Agree'
    BY <1>1, <1>5, <1>6, <1>7 DEF Agree, Linked, Free
  <1>9. Honest(d, at[Generation])
    BY <1>2, <1>3, <1>5 DEF Honest, Usable, Complete
  <1>10. Complete'
    BY <1>1, <1>2, <1>5, <1>6, <1>9, CompleteByFields
  <1>11. QED BY <1>8, <1>10

LEMMA LeaveHolds ==
    ASSUME PInv, Leave
    PROVE  Complete' /\ Agree'
  <1> DEFINE k == ClearTransfers(client, TRUE)
             d == ClearRoom(client)
  <1>1. /\ Becomes(d, <<>>) /\ inbox' = <<>>
        /\ UNCHANGED <<disk, at>> /\ server' = [server EXCEPT !.member = FALSE]
    BY DEF Leave
  <1>2. /\ Complete /\ Generation \in Nat /\ Bounded(client, Generation)
        /\ server \in [member : BOOLEAN, rev : Nat, gen : Nat, content : Nat]
        /\ Generation' = Generation
    BY <1>1, PInvFacts DEF Generation
  <1>3. /\ k \in Client /\ k.req = 0 /\ k.upload = NoUpload
        /\ \A n : Honest(client, n) => Honest(k, n)
    BY <1>2, ClearTransfersKeeps
  <1>4. d = [k EXCEPT !.room = "Out", !.rev = 0]
    BY DEF ClearRoom
  <1> HIDE DEF k, d
  <1>5. d.room = "Out" /\ d.req = 0 /\ d.upload = NoUpload /\ d.active = k.active
    BY <1>3, <1>4 DEF Client
  <1>6. client' = d /\ outbox' = <<>>
    BY <1>1, <1>5 DEF Becomes
  <1>7. Agree'
    BY <1>1, <1>5, <1>6 DEF Agree, Linked, Apart, Free
  <1>8. Honest(d, at[Generation])
    BY <1>2, <1>3, <1>5 DEF Honest, Usable, Complete
  <1>9. server'.gen = server.gen /\ server'.content = server.content
    BY <1>1, <1>2
  <1>10. Complete'
    BY <1>1, <1>2, <1>5, <1>6, <1>8, <1>9, NoUploadTyped DEF Complete
  <1>11. QED BY <1>7, <1>10

\* The first message of a sequence, and what is left of it.
LEMMA ShortSequences ==
    ASSUME NEW a, NEW b
    PROVE  /\ Head(<<a>>) = a /\ Tail(<<a>>) = <<>>
           /\ Head(<<a, b>>) = a /\ Tail(<<a, b>>) = <<b>>
           /\ Append(<<>>, a) = <<a>> /\ Append(<<a>>, b) = <<a, b>>
           /\ <<>> \o <<a, b>> = <<a, b>> /\ <<>> \o <<a>> = <<a>>
           /\ <<a>> # <<>> /\ <<a, b>> # <<>>
  <1>1. Head(<<a>>) = a /\ Head(<<a, b>>) = a
    OBVIOUS
  <1>2. Tail(<<a>>) = <<>>
    OBVIOUS
  <1>3. Tail(<<a, b>>) = <<b>>
    OBVIOUS
  <1>4. Append(<<>>, a) = <<a>>
    OBVIOUS
  <1>8. Append(<<a>>, b) = <<a, b>>
    <2>1. {a, b} # {} /\ <<a>> \in Seq({a, b}) /\ b \in {a, b}
      OBVIOUS
    <2>2. PICK q : q = Append(<<a>>, b)
      OBVIOUS
    <2>3. q \in Seq({a, b}) /\ Len(q) = 2 /\ q[1] = a /\ q[2] = b
      BY <2>1, <2>2
    <2>4. PICK t : t = <<a, b>>
      OBVIOUS
    <2>5. t \in Seq({a, b}) /\ Len(t) = 2 /\ t[1] = a /\ t[2] = b
      BY <2>4
    <2>6. Len(q) = Len(t) /\ \A j \in 1..Len(q) : q[j] = t[j]
      <3>1. \A j \in 1..2 : j = 1 \/ j = 2
        OBVIOUS
      <3>2. QED BY <2>3, <2>5, <3>1
    <2>7. q = t
      BY ONLY <2>3, <2>5, <2>6, SeqEqual
    <2>8. QED BY <2>2, <2>4, <2>7
  <1>5. <<>> \o <<a, b>> = <<a, b>> /\ <<>> \o <<a>> = <<a>>
    OBVIOUS
  <1>6. <<a>> # <<>> /\ <<a, b>> # <<>>
    OBVIOUS
  <1>7. QED BY <1>1, <1>2, <1>3, <1>4, <1>5, <1>6, <1>8

LEMMA MessageFields ==
    ASSUME NEW type, NEW id, NEW gen, NEW content, NEW rev
    PROVE  LET m == Message(type, id, gen, content, rev)
           IN  /\ m.type = type /\ m.id = id /\ m.gen = gen
               /\ m.content = content /\ m.rev = rev
  BY DEF Message

\* What is in the outbox when the server has something to hear.
LEMMA OutboxHolds ==
    ASSUME NEW c, NEW s, NEW i, NEW o, Linked(c, s, i, o), o # <<>>
    PROVE  /\ c.room = "InRoom"
           /\ Asking(c, s, i, o) \/ NotTaken(c, s, i, o)
  BY DEF Linked, Resting, Taken, Apart

LEMMA ServerHearsHolds ==
    ASSUME PInv, ServerHears
    PROVE  Complete' /\ Agree'
  <1> DEFINE m == Head(outbox)
             kept == [server EXCEPT !.rev = @ + 1, !.gen = m.gen, !.content = m.content]
             ready == Message("UploadReady", m.id, m.gen, 0, 0)
             refused == Message("Refused", m.id, 0, 0, 0)
             committed == Message("Committed", m.id, m.gen, 0, 0)
             updated == Message("MemberUpdated", 0, 0, 0, kept.rev)
             u == client.upload
  <1>1. /\ Complete /\ Agree /\ Linked(client, server, inbox, outbox)
        /\ server \in [member : BOOLEAN, rev : Nat, gen : Nat, content : Nat]
        /\ client \in Client /\ Bounded(client, Generation) /\ Generation \in Nat
    BY PInvFacts
  <1>2. /\ outbox # <<>> /\ outbox' = Tail(outbox) /\ UNCHANGED <<disk, at, client>>
        /\ Generation' = Generation
        /\ \/ m.type = "Begin" /\ server' = server /\ inbox' = Append(inbox, ready)
           \/ /\ m.type = "Commit" /\ server' = kept
              /\ inbox' \in {inbox \o <<committed, updated>>,
                             inbox \o <<updated, committed>>}
           \/ server' = server /\ inbox' = Append(inbox, refused)
    BY DEF ServerHears, Generation
  <1>3. /\ client.room = "InRoom"
        /\ Asking(client, server, inbox, outbox) \/ NotTaken(client, server, inbox, outbox)
    BY <1>1, <1>2, OutboxHolds
  <1>4. Free(client)
    BY <1>1 DEF Agree
  <1> HIDE DEF m, kept
  <1>5. CASE Asking(client, server, inbox, outbox)
    <2>1. /\ outbox = <<Message("Begin", u.begin, u.gen, 0, 0)>>
          /\ \/ inbox = <<>> /\ client.rev = server.rev
             \/ inbox = <<Updated(server)>>
      BY <1>2, <1>5 DEF Asking
    <2>2. m.type = "Begin" /\ m.id = u.begin /\ m.gen = u.gen /\ outbox' = <<>>
      BY <1>2, <2>1, ShortSequences, MessageFields DEF m
    <2>3. server' = server
      BY <1>2, <2>2
    <2>4. PICK r \in {Message("UploadReady", u.begin, u.gen, 0, 0),
                      Message("Refused", u.begin, 0, 0, 0)} : inbox' = Append(inbox, r)
      BY <1>2, <2>2
    <2>5. \/ inbox' = <<r>> /\ client.rev = server.rev
          \/ inbox' = <<Updated(server), r>>
      BY <2>1, <2>4, ShortSequences
    <2>6. Asking(client, server, inbox', <<>>)
      BY <1>5, <2>4, <2>5 DEF Asking
    <2>7. Agree'
      BY <1>2, <1>3, <1>4, <2>2, <2>3, <2>6 DEF Agree, Linked, Free
    <2>8. Complete'
      BY <1>1, <1>2, <2>3 DEF Complete
    <2>9. QED BY <2>7, <2>8
  <1>6. CASE NotTaken(client, server, inbox, outbox)
    <2>1. /\ outbox = <<Message("Commit", u.commit, u.gen, u.content, 0)>> /\ inbox = <<>>
          /\ Committing(client) /\ client.published = server.gen
          /\ client.base = server.rev /\ client.rev = server.rev
      BY <1>2, <1>6 DEF NotTaken
    <2>2. /\ m.type = "Commit" /\ m.id = u.commit /\ m.gen = u.gen
          /\ m.content = u.content /\ outbox' = <<>>
      BY <1>2, <2>1, ShortSequences, MessageFields DEF m
    <2>3. CASE server' = server /\ inbox' = Append(inbox, refused)
      <3>1. inbox' = <<Message("Refused", u.commit, 0, 0, 0)>>
        BY <2>1, <2>2, <2>3, ShortSequences
      <3>2. NotTaken(client, server, inbox', <<>>)
        BY <2>1, <3>1 DEF NotTaken
      <3>3. Agree'
        BY <1>2, <1>3, <1>4, <2>2, <2>3, <3>2 DEF Agree, Linked, Free
      <3>4. Complete'
        BY <1>1, <1>2, <2>3 DEF Complete
      <3>5. QED BY <3>3, <3>4
    <2>4. CASE /\ server' = kept
               /\ inbox' \in {inbox \o <<committed, updated>>,
                              inbox \o <<updated, committed>>}
      <3>1. kept.rev = server.rev + 1 /\ kept.gen = u.gen /\ kept.content = u.content
        BY <1>1, <2>2 DEF kept
      <3>2. committed = Done(client) /\ updated = Updated(kept)
        BY <2>2 DEF Done, Updated
      <3>3. inbox' = <<Done(client), Updated(kept)>> \/ inbox' = <<Updated(kept), Done(client)>>
        BY <2>1, <2>4, <3>2, ShortSequences
      <3>4. client.base < kept.rev /\ client.uncertain = kept.gen
        BY <1>1, <2>1, <3>1 DEF Committing
      <3>5. Taken(client, kept, inbox', <<>>)
        BY <2>1, <3>3, <3>4 DEF Taken
      <3>6. Agree'
        BY <1>2, <1>3, <1>4, <2>2, <2>4, <3>5 DEF Agree, Linked, Free
      <3>7. u.gen \in 0..Generation
        BY <1>1 DEF Bounded
      <3>8. Complete'
        BY <1>1, <1>2, <2>4, <3>1, <3>7 DEF Complete
      <3>9. QED BY <3>6, <3>8
    <2>5. QED BY <1>2, <2>2, <2>3, <2>4
  <1>7. QED BY <1>3, <1>5, <1>6

\* The answers to the request for an upload.
Answers(u) == {Message("UploadReady", u.begin, u.gen, 0, 0),
               Message("Refused", u.begin, 0, 0, 0)}

Refusal(u) == Message("Refused", u.commit, 0, 0, 0)

\* What can be in the inbox, and when.
Delivered(c, s, i, o) ==
    \/ Resting(c, s, i, o) /\ i = <<Updated(s)>>
    \/ Asking(c, s, i, o) /\ o # <<>> /\ i = <<Updated(s)>>
    \/ Asking(c, s, i, o) /\ o = <<>> /\ \E r \in Answers(c.upload) : i = <<Updated(s), r>>
    \/ /\ Asking(c, s, i, o) /\ o = <<>> /\ c.rev = s.rev
       /\ \E r \in Answers(c.upload) : i = <<r>>
    \/ NotTaken(c, s, i, o) /\ o = <<>> /\ i = <<Refusal(c.upload)>>
    \/ Taken(c, s, i, o) /\ i = <<Done(c)>> /\ c.rev = s.rev
    \/ Taken(c, s, i, o) /\ i = <<Updated(s), Done(c)>>
    \/ Taken(c, s, i, o) /\ i = <<Done(c), Updated(s)>>

LEMMA InboxHolds ==
    ASSUME NEW c, NEW s, NEW i, NEW o, Linked(c, s, i, o), i # <<>>
    PROVE  c.room = "InRoom" /\ Delivered(c, s, i, o)
  <1>1. c.room = "InRoom"
    BY DEF Linked, Apart
  <1>2. CASE Resting(c, s, i, o)
    BY <1>1, <1>2 DEF Resting, Delivered
  <1>3. CASE Asking(c, s, i, o)
    <2>1. CASE o = <<Message("Begin", c.upload.begin, c.upload.gen, 0, 0)>> /\ i = <<Updated(s)>>
      <3>1. o # <<>>
        BY <2>1, ShortSequences
      <3>2. QED BY <1>1, <1>3, <2>1, <3>1 DEF Delivered
    <2>2. CASE o = <<>> /\ \E r \in Answers(c.upload) :
                               \/ i = <<r>> /\ c.rev = s.rev
                               \/ i = <<Updated(s), r>>
      BY <1>1, <1>3, <2>2 DEF Delivered
    <2>3. QED BY <1>3, <2>1, <2>2 DEF Asking, Answers
  <1>4. CASE NotTaken(c, s, i, o)
    BY <1>1, <1>4 DEF NotTaken, Delivered, Refusal
  <1>5. CASE Taken(c, s, i, o)
    BY <1>1, <1>5 DEF Taken, Delivered
  <1>6. QED BY <1>1, <1>2, <1>3, <1>4, <1>5 DEF Linked

\* The types of the messages that are delivered.
LEMMA DeliveredTypes ==
    ASSUME NEW c, NEW s
    PROVE  /\ Updated(s).type = "MemberUpdated" /\ Updated(s).rev = s.rev
           /\ Done(c).type = "Committed" /\ Done(c).id = c.upload.commit
           /\ Done(c).gen = c.upload.gen
           /\ Refusal(c.upload).type = "Refused" /\ Refusal(c.upload).id = c.upload.commit
           /\ \A r \in Answers(c.upload) :
                 /\ r.type \in {"UploadReady", "Refused"} /\ r.id = c.upload.begin
  BY MessageFields DEF Updated, Done, Refusal, Answers

\* The member list tells the session its newest revision.
LEMMA MemberUpdatedHolds ==
    ASSUME PInv, inbox # <<>>, inbox' = Tail(inbox), NEW m, m = Head(inbox),
           m.type = "MemberUpdated", UNCHANGED <<disk, at, server>>,
           Becomes([client EXCEPT !.rev = m.rev], <<>>)
    PROVE  Complete' /\ Agree'
  <1> DEFINE d == [client EXCEPT !.rev = m.rev]
             up == Updated(server)
             u == client.upload
  <1>1. /\ Complete /\ Free(client) /\ client \in Client
        /\ Linked(client, server, inbox, outbox)
        /\ outbox \in Seq(Messages(Generation))
    BY PInvFacts
  <1>2. client.room = "InRoom" /\ Delivered(client, server, inbox, outbox)
    BY <1>1, InboxHolds
  <1>3. /\ d.room = client.room /\ d.upload = u /\ d.published = client.published
        /\ d.uncertain = client.uncertain /\ d.base = client.base /\ d.rev = m.rev
        /\ d.req = client.req /\ d.active = client.active
    BY <1>1 DEF Client
  <1>4. client' = d /\ outbox' = outbox
    BY <1>1, <1>3, BecomesQuiet
  <1> HIDE DEF d
  <1>5. \/ Resting(client, server, inbox, outbox) /\ inbox = <<up>>
        \/ Asking(client, server, inbox, outbox) /\ outbox # <<>> /\ inbox = <<up>>
        \/ /\ Asking(client, server, inbox, outbox) /\ outbox = <<>>
           /\ \E r \in Answers(u) : inbox = <<up, r>>
        \/ Taken(client, server, inbox, outbox) /\ inbox = <<up, Done(client)>>
    <2>1. \A r : r.type # "MemberUpdated" => inbox # <<r>>
      BY ShortSequences
    <2>2. \A r, e : r.type # "MemberUpdated" => inbox # <<r, e>>
      BY ShortSequences
    <2>3. QED BY <1>2, <2>1, <2>2, DeliveredTypes DEF Delivered
  <1>6. m = up
    BY <1>5, ShortSequences
  <1>7. d.rev = server.rev
    BY <1>3, <1>6, DeliveredTypes
  <1>8. Linked(d, server, inbox', outbox)
    <2>1. CASE Resting(client, server, inbox, outbox) /\ inbox = <<up>>
      <3>1. inbox' = <<>>
        BY <2>1, ShortSequences
      <3>2. Resting(d, server, inbox', outbox)
        BY <1>3, <1>7, <2>1, <3>1 DEF Resting, Settled
      <3>3. QED BY <1>2, <1>3, <3>2 DEF Linked
    <2>2. CASE Asking(client, server, inbox, outbox) /\ outbox # <<>> /\ inbox = <<up>>
      <3>1. inbox' = <<>>
        BY <2>2, ShortSequences
      <3>2. Asking(d, server, inbox', outbox)
        BY <1>3, <1>7, <2>2, <3>1 DEF Asking, Settled
      <3>3. QED BY <1>2, <1>3, <3>2 DEF Linked
    <2>3. CASE /\ Asking(client, server, inbox, outbox) /\ outbox = <<>>
               /\ \E r \in Answers(u) : inbox = <<up, r>>
      <3>1. PICK r \in Answers(u) : inbox = <<up, r>>
        BY <2>3
      <3>2. inbox' = <<r>>
        BY <3>1, ShortSequences
      <3>3. Asking(d, server, inbox', outbox)
        BY <1>3, <1>7, <2>3, <3>2 DEF Asking, Settled, Answers
      <3>4. QED BY <1>2, <1>3, <3>3 DEF Linked
    <2>4. CASE Taken(client, server, inbox, outbox) /\ inbox = <<up, Done(client)>>
      <3>1. inbox' = <<Done(client)>>
        BY <2>4, ShortSequences
      <3>2. Taken(d, server, inbox', outbox)
        BY <1>3, <1>7, <2>4, <3>1 DEF Taken, Committing, Done
      <3>3. QED BY <1>2, <1>3, <3>2 DEF Linked
    <2>5. QED BY <1>5, <2>1, <2>2, <2>3, <2>4
  <1>9. Agree'
    BY <1>1, <1>3, <1>4, <1>8 DEF Agree, Free
  <1>10. Honest(d, at[Generation])
    BY <1>1, <1>3 DEF Complete, Honest, Usable
  <1>11. QED BY <1>1, <1>3, <1>4, <1>9, <1>10, CompleteByFields

\* The server is ready: the commit is sent on the revision the session knows.
LEMMA UploadReadyHolds ==
    ASSUME PInv, inbox # <<>>, inbox' = Tail(inbox), NEW m, m = Head(inbox),
           m.type = "UploadReady", UNCHANGED <<disk, at, server>>,
           HandleInventoryUploadReady(m)
    PROVE  Complete' /\ Agree'
  <1> DEFINE v == client.upload
             u == [v EXCEPT !.commit = client.nextId]
             d == [client EXCEPT !.upload = u, !.nextId = @ + 1,
                                 !.uncertain = v.gen, !.base = client.rev]
             sent == Message("Commit", client.nextId, v.gen, v.content, 0)
  <1>1. /\ Complete /\ Free(client) /\ client \in Client
        /\ Linked(client, server, inbox, outbox) /\ Generation' = Generation
    BY PInvFacts DEF Generation
  <1>2. client.room = "InRoom" /\ Delivered(client, server, inbox, outbox)
    BY <1>1, InboxHolds
  <1>3. /\ Asking(client, server, inbox, outbox) /\ outbox = <<>> /\ client.rev = server.rev
        /\ \E r \in Answers(v) : inbox = <<r>>
    <2>1. \A r : r.type # "UploadReady" => inbox # <<r>>
      BY ShortSequences
    <2>2. \A r, e : r.type # "UploadReady" => inbox # <<r, e>>
      BY ShortSequences
    <2>3. QED BY <1>2, <2>1, <2>2, DeliveredTypes DEF Delivered
  <1>4. m.id = v.begin /\ inbox' = <<>>
    <2>1. PICK r \in Answers(v) : inbox = <<r>>
      BY <1>3
    <2>2. m = r /\ inbox' = <<>>
      BY <2>1, ShortSequences
    <2>3. QED BY <2>2, DeliveredTypes
  <1>5. v # NoUpload /\ v.commit = 0 /\ v.gen > client.published /\ Settled(client, server)
    BY <1>3 DEF Asking
  <1>6. Becomes(d, <<sent>>)
    BY <1>4, <1>5 DEF HandleInventoryUploadReady
  <1>7. PICK n \in Nat \ {0} : client.nextId = n
    BY <1>1 DEF Client
  <1>8. v \in Upload /\ v.gen \in Nat
    BY <1>1 DEF Client, Upload
  <1>9. u.gen = v.gen /\ u.content = v.content /\ u.commit = n /\ u \in Upload
    BY <1>7, <1>8 DEF Upload
  <1>10. n + 1 \in Nat \ {0} /\ d = [client EXCEPT !.upload = u, !.nextId = n + 1,
                                         !.uncertain = v.gen, !.base = client.rev]
    BY <1>7
  <1>11. sent = Message("Commit", u.commit, u.gen, u.content, 0)
    BY <1>7, <1>9
  <1> HIDE DEF u, d, sent
  <1>12. /\ d.room = client.room /\ d.req = client.req /\ d.active = client.active
         /\ d.upload = u /\ d.published = client.published /\ d.uncertain = v.gen
         /\ d.base = client.rev /\ d.rev = client.rev
    BY <1>1, <1>9, <1>10 DEF Client
  <1>13. client' = d /\ outbox' = <<sent>>
    BY <1>2, <1>3, <1>6, <1>12, ShortSequences DEF Becomes
  <1>14. u # NoUpload /\ u.commit # 0
    BY <1>9 DEF NoUpload
  <1>15. NotTaken(d, server, <<>>, <<sent>>)
    BY <1>3, <1>5, <1>9, <1>11, <1>12, <1>14 DEF NotTaken, Committing, Settled
  <1>16. Free(d)
    BY <1>1, <1>5, <1>12 DEF Free
  <1>17. Agree'
    BY <1>2, <1>4, <1>12, <1>13, <1>15, <1>16 DEF Agree, Linked
  <1>18. Honest(d, at[Generation])
    BY <1>1, <1>12 DEF Complete, Honest, Usable
  <1>19. Complete'
    BY <1>1, <1>9, <1>12, <1>13, <1>18 DEF Complete
  <1>20. QED BY <1>17, <1>19

\* The upload is over, and the session may ask for the next snapshot.
LEMMA UploadEnds ==
    ASSUME PInv, NEW c \in Client, client.room = "InRoom", c.room = "InRoom",
           c.upload = NoUpload,
           Settled(c, server), c.rev = client.rev, c.active = client.active,
           outbox = <<>>, UNCHANGED <<disk, at, server>>,
           (inbox' = <<>> /\ c.rev = server.rev) \/ inbox' = <<Updated(server)>>,
           NEW d, d = c \/ d = RequestInventorySnapshot(c, Generation),
           Becomes(d, <<>>)
    PROVE  Complete' /\ Agree'
  <1>1. Complete /\ Generation \in Nat
    BY PInvFacts
  <1>2. Keeps(d, c)
    BY <1>1, RequestInventorySnapshotKeeps, KeepsItself
  <1>3. SameSeat(d, c) /\ Free(d) /\ Honest(d, at[Generation])
    BY <1>1, <1>2 DEF Keeps, Free, Complete, Honest, Usable
  <1>4. client' = d /\ outbox' = <<>>
    <2>1. <<>> \o <<>> = <<>>
      OBVIOUS
    <2>2. QED BY <2>1 DEF Becomes
  <1>5. Resting(c, server, inbox', <<>>)
    BY DEF Resting
  <1>6. Linked(d, server, inbox', <<>>)
    BY <1>3, <1>5, LinkedBySeat DEF Linked
  <1>7. Agree'
    BY <1>3, <1>4, <1>6 DEF Agree
  <1>8. QED BY <1>1, <1>3, <1>4, <1>7, CompleteByFields DEF SameSeat

\* The server has the snapshot: what it acknowledges is what it holds.
LEMMA CommittedHolds ==
    ASSUME PInv, inbox # <<>>, inbox' = Tail(inbox), NEW m, m = Head(inbox),
           m.type = "Committed", UNCHANGED <<disk, at, server>>,
           Becomes(HandleInventoryCommitted(client, m), <<>>)
    PROVE  Complete' /\ Agree'
  <1> DEFINE v == client.upload
             e == [client EXCEPT !.published = m.gen, !.uncertain = 0, !.base = 0,
                                 !.upload = NoUpload, !.error = FALSE]
             d == RequestInventorySnapshot(e, Generation)
  <1>1. /\ client \in Client /\ Linked(client, server, inbox, outbox)
    BY PInvFacts
  <1>2. client.room = "InRoom" /\ Delivered(client, server, inbox, outbox)
    BY <1>1, InboxHolds
  <1>3. /\ Taken(client, server, inbox, outbox)
        /\ \/ inbox = <<Done(client)>> /\ client.rev = server.rev
           \/ inbox = <<Done(client), Updated(server)>>
    <2>1. \A r : r.type # "Committed" => inbox # <<r>>
      BY ShortSequences
    <2>2. \A r, x : r.type # "Committed" => inbox # <<r, x>>
      BY ShortSequences
    <2>3. QED BY <1>2, <2>1, <2>2, DeliveredTypes DEF Delivered
  <1>4. /\ m = Done(client)
        /\ \/ inbox' = <<>> /\ client.rev = server.rev
           \/ inbox' = <<Updated(server)>>
    <2>1. CASE inbox = <<Done(client)>> /\ client.rev = server.rev
      BY <2>1, ShortSequences
    <2>2. CASE inbox = <<Done(client), Updated(server)>>
      BY <2>2, ShortSequences
    <2>3. QED BY <1>3, <2>1, <2>2
  <1>5. m.id = v.commit /\ m.gen = v.gen
    BY <1>4, DeliveredTypes
  <1>6. v # NoUpload /\ v.gen = server.gen /\ outbox = <<>>
    BY <1>3 DEF Taken, Committing
  <1>7. Becomes(d, <<>>)
    BY <1>5, <1>6 DEF HandleInventoryCommitted
  <1>8. m.gen \in Nat
    BY <1>1, <1>5 DEF Client, Upload
  <1>9. /\ e \in Client /\ e.room = client.room /\ e.upload = NoUpload
        /\ e.published = m.gen /\ e.uncertain = 0 /\ e.rev = client.rev
        /\ e.active = client.active
    BY <1>1, <1>8, NoUploadTyped DEF Client
  <1> HIDE DEF e, d
  <1>10. Settled(e, server)
    BY <1>5, <1>6, <1>9 DEF Settled
  <1>11. \/ inbox' = <<>> /\ e.rev = server.rev
         \/ inbox' = <<Updated(server)>>
    BY <1>4, <1>9
  <1>12. d = e \/ d = RequestInventorySnapshot(e, Generation)
    BY DEF d
  <1>13. QED BY <1>2, <1>6, <1>7, <1>9, <1>10, <1>11, <1>12, UploadEnds

\* A refused upload or commit has left the server as it was.
LEMMA RefusedHolds ==
    ASSUME PInv, inbox # <<>>, inbox' = Tail(inbox), NEW m, m = Head(inbox),
           m.type = "Refused", UNCHANGED <<disk, at, server>>,
           Becomes(HandleInventoryRefused(client, m), <<>>)
    PROVE  Complete' /\ Agree'
  <1> DEFINE v == client.upload
             waits == IF v.commit = 0 THEN v.begin ELSE v.commit
             x == IF client.uncertain = v.gen THEN 0 ELSE client.uncertain
             b == IF client.uncertain = v.gen THEN 0 ELSE client.base
             e == [client EXCEPT !.upload = NoUpload, !.error = TRUE,
                                 !.uncertain = x, !.base = b]
             d == HandleInventoryRefused(client, m)
  <1>1. client \in Client /\ Linked(client, server, inbox, outbox)
    BY PInvFacts
  <1>2. client.room = "InRoom" /\ Delivered(client, server, inbox, outbox)
    BY <1>1, InboxHolds
  <1>3. \/ /\ Asking(client, server, inbox, outbox) /\ outbox = <<>>
           /\ client.rev = server.rev /\ \E r \in Answers(v) : inbox = <<r>>
        \/ NotTaken(client, server, inbox, outbox) /\ outbox = <<>> /\ inbox = <<Refusal(v)>>
    <2>1. \A r : r.type # "Refused" => inbox # <<r>>
      BY ShortSequences
    <2>2. \A r, y : r.type # "Refused" => inbox # <<r, y>>
      BY ShortSequences
    <2>3. QED BY <1>2, <2>1, <2>2, DeliveredTypes DEF Delivered
  <1>4. inbox' = <<>> /\ outbox = <<>> /\ client.rev = server.rev
    BY <1>3, ShortSequences DEF NotTaken
  <1>5. v # NoUpload /\ m.id = waits
    <2>1. CASE Asking(client, server, inbox, outbox) /\ \E r \in Answers(v) : inbox = <<r>>
      <3>1. PICK r \in Answers(v) : inbox = <<r>>
        BY <2>1
      <3>2. m = r
        BY <3>1, ShortSequences
      <3>3. m.id = v.begin
        BY <3>2, DeliveredTypes
      <3>4. QED BY <2>1, <3>3 DEF Asking
    <2>2. CASE NotTaken(client, server, inbox, outbox) /\ inbox = <<Refusal(v)>>
      <3>1. m = Refusal(v)
        BY <2>2, ShortSequences
      <3>2. m.id = v.commit
        BY <3>1, DeliveredTypes
      <3>3. QED BY <2>2, <3>2 DEF NotTaken, Committing
    <2>3. QED BY <1>3, <2>1, <2>2
  <1>6. x = 0 /\ client.published = server.gen
    <2>1. CASE Asking(client, server, inbox, outbox)
      BY <2>1 DEF Asking, Settled
    <2>2. CASE NotTaken(client, server, inbox, outbox)
      BY <2>2 DEF NotTaken, Committing
    <2>3. QED BY <1>3, <2>1, <2>2
  <1>7. d = e \/ d = RequestInventorySnapshot(e, Generation)
    BY <1>1, <1>5 DEF HandleInventoryRefused, Client
  <1>8. b \in Nat /\ x \in Nat
    BY <1>1 DEF Client
  <1> HIDE DEF x, b, d
  <1>9. /\ e \in Client /\ e.room = client.room /\ e.upload = NoUpload
        /\ e.published = client.published /\ e.uncertain = x /\ e.rev = client.rev
        /\ e.active = client.active
    BY <1>1, <1>8, NoUploadTyped DEF Client
  <1> HIDE DEF e
  <1>10. Settled(e, server) /\ inbox' = <<>> /\ e.rev = server.rev
    BY <1>4, <1>6, <1>9 DEF Settled
  <1>11. Becomes(d, <<>>)
    BY DEF d
  <1>12. QED BY <1>2, <1>4, <1>7, <1>9, <1>10, <1>11, UploadEnds

LEMMA ReceiveHolds ==
    ASSUME PInv, Receive
    PROVE  Complete' /\ Agree'
  <1> DEFINE m == Head(inbox)
  <1>1. /\ inbox # <<>> /\ inbox' = Tail(inbox) /\ UNCHANGED <<disk, at, server>>
        /\ \/ m.type = "RoomSnapshot"
           \/ m.type = "MemberUpdated" /\ Becomes([client EXCEPT !.rev = m.rev], <<>>)
           \/ m.type = "UploadReady" /\ HandleInventoryUploadReady(m)
           \/ m.type = "Committed" /\ Becomes(HandleInventoryCommitted(client, m), <<>>)
           \/ m.type = "Refused" /\ Becomes(HandleInventoryRefused(client, m), <<>>)
    BY DEF Receive, Idle
  <1>2. m.type # "RoomSnapshot"
    <2>1. Delivered(client, server, inbox, outbox)
      BY <1>1, PInvFacts, InboxHolds
    <2>2. \A r : Head(<<r>>) = r
      BY ShortSequences
    <2>3. \A r, y : Head(<<r, y>>) = r
      BY ShortSequences
    <2>4. QED BY <2>1, <2>2, <2>3, DeliveredTypes DEF Delivered
  <1> HIDE DEF m
  <1>3. PICK k : k = m
    OBVIOUS
  <1>4. k = Head(inbox)
    BY <1>3 DEF m
  <1>5. QED BY <1>1, <1>2, <1>3, <1>4, MemberUpdatedHolds, UploadReadyHolds,
               CommittedHolds, RefusedHolds

-----------------------------------------------------------------------------
LEMMA InitHolds == Init => Complete /\ Agree
  <1>1. SUFFICES ASSUME Init PROVE Complete /\ Agree
    OBVIOUS
  <1>2. /\ disk = 0 /\ at = <<0>> /\ outbox = <<>> /\ inbox = <<>> /\ Generation = 1
        /\ server.gen = 0 /\ client.room = "Out" /\ client.active = NoBuild
        /\ client.req = 0 /\ client.upload = NoUpload
    BY <1>1 DEF Init, Generation
  <1>3. at[Generation] = 0
    BY <1>2
  <1>4. Complete
    BY <1>2, <1>3, NoUploadTyped DEF Complete, Honest, Usable, NoBuild
  <1>5. Agree
    BY <1>2 DEF Agree, Free, Linked, Apart
  <1>6. QED BY <1>4, <1>5

LEMMA NextHolds == PInv /\ [Next]_vars => PInv'
  <1>1. SUFFICES ASSUME PInv, [Next]_vars PROVE Complete' /\ Agree'
    BY NextKeepsInv DEF PInv
  <1>2. CASE UNCHANGED vars
    BY <1>1, <1>2 DEF vars, PInv, Complete, Agree, Generation
  <1>3. CASE LibraryChanges \/ CommitLibraryMutation \/ WorkerReads \/ HandleBuildFinished
    BY <1>1, <1>3, LibraryChangesHolds, CommitLibraryMutationHolds, WorkerReadsHolds,
       HandleBuildFinishedHolds
  <1>4. CASE Receive \/ Retry \/ ServerHears
    BY <1>1, <1>4, ReceiveHolds, RetryHolds, ServerHearsHolds
  <1>5. CASE Enter \/ Cut \/ Resume \/ Leave
    BY <1>1, <1>5, EnterHolds, CutHolds, ResumeHolds, LeaveHolds
  <1>6. QED BY <1>1, <1>2, <1>3, <1>4, <1>5 DEF Next

\* Session, server and messages agree in every reachable state.
THEOREM AgreementHolds == Spec => []PInv
  <1>1. Init => PInv
    BY InitFits, InitHolds DEF PInv
  <1>2. QED BY <1>1, NextHolds, PTL DEF Spec

\* What the session believes it has published the server holds, with every change that
\* was announced up to its generation, whatever is lost, refused or overtaken.
THEOREM PublishedHeld == Spec => []PublishedIsHeld
  <1>1. PInv => PublishedIsHeld
    <2>1. SUFFICES ASSUME PInv PROVE PublishedIsHeld
      OBVIOUS
    <2>2. /\ Complete /\ Linked(client, server, inbox, outbox) /\ client \in Client
          /\ server.gen \in Nat
      BY <2>1, PInvFacts
    <2>3. client.published \in Nat /\ client.uncertain \in Nat
      BY <2>2 DEF Client
    <2>4. client.room # "Out" => client.published <= server.gen
      <3>1. CASE client.room = "InRoom"
        BY <2>2, <2>3, <3>1, InDoubt DEF Settled
      <3>2. CASE client.room = "Reconnecting"
        BY <2>2, <2>3, <3>2 DEF Linked, Apart, Settled
      <3>3. QED BY <2>2, <3>1, <3>2 DEF Client
    <2>5. QED BY <2>2, <2>4 DEF Complete, PublishedIsHeld
  <1>2. QED BY <1>1, AgreementHolds, PTL
=============================================================================
