----------------------------- MODULE ArenaRound -----------------------------
(***************************************************************************)
(* One seated player's part in the rounds of an arena room: the probe and  *)
(* the load of the chart, the shared start, the play, the one terminal     *)
(* message (a result or a DNF) and the finalization, across lost links,    *)
(* resumed seats, cancelled launches and screens the user leaves open.     *)
(*                                                                         *)
(* client holds the members of arena::ArenaSession that a round uses, the  *)
(* operations of arena::QtArenaRoundLoader and the gameplay screens of     *)
(* StandardMultiplayerFlow.  As in ArenaConnection every private helper is *)
(* an operator from client to client, and a handler is one step.  A runner *)
(* is named by the loader request that made it; 0 stands for no runner, no *)
(* request and no round.                                                   *)
(*                                                                         *)
(* The room server is external: it is modelled by what the handlers rely   *)
(* on.  What it sends queues in inbox.  What the client sends is processed *)
(* at once, or lost together with the link: a server step between sending  *)
(* and processing does not depend on the message in flight, so it can be   *)
(* moved before the sending without changing what either side sees.        *)
(***************************************************************************)
EXTENDS Naturals, Sequences, FiniteSets

CONSTANTS
    MaxRounds,   \* bound: rounds the room launches
    MaxCuts,     \* bound: links that are lost for no reason of the client's
    MaxSeats     \* bound: times the player enters the room

ASSUME BoundAssumption ==
    /\ MaxRounds \in Nat
    /\ MaxCuts \in Nat
    /\ MaxSeats \in Nat

VARIABLES
    client,   \* ArenaSession, its round loader and the gameplay screens
    server,   \* the room as the server keeps it (external)
    inbox,    \* messages on their way to the client
    link,     \* "Up", "Doomed" (it loses what the client sends) or "Down"
    cuts,     \* links lost so far
    seats     \* seats taken so far

vars == <<client, server, inbox, link, cuts, seats>>

-----------------------------------------------------------------------------
(* Types.                                                                  *)

Stage == {"None", "Probing", "Loading", "Scheduled", "Playing"}

\* ChartRunner::Status of the runner of a load, Working until it is Ready.
OpStatus == {"Working", "Ready", "Running", "Finished"}

NoRound == [id |-> 0, stage |-> "None", mine |-> FALSE]

NoTask == [round |-> 0, runner |-> 0]

NoTerminal == [kind |-> "None", round |-> 0, id |-> 0, chart |-> 0]

TerminalKind == {"None", "Result", "Dnf"}

Terminal == [kind : TerminalKind, round : Nat, id : Nat, chart : Nat]

Operation == [req : Nat \ {0}, kind : {"Probe", "Load"}, round : Nat,
              status : OpStatus, pending : BOOLEAN]

Screen == [req : Nat \ {0}, ended : BOOLEAN, done : BOOLEAN,
           leaving : BOOLEAN]

Silent == [type |-> "Silent"]

Client ==
    [state     : {"InRoom", "Reconnecting", "Out"},
     phase     : {"Selecting", "Loading", "Playing"},
     round     : [id : Nat, stage : Stage, mine : BOOLEAN],
     req       : Nat,              \* m_roundLoaderRequestId
     op        : {"None", "Probe", "Load"},
     probe     : Nat,              \* m_probeRequest
     loadRound : Nat,              \* m_loadRequestRound
     prepared  : Nat,              \* m_preparedRunner
     exposed   : BOOLEAN,          \* m_preparedGameplayExposed
     announced : BOOLEAN,          \* m_roundRunnerStartedEmitted
     start     : [round : Nat, runner : Nat],   \* m_roundStartTask
     loadSent  : BOOLEAN,          \* m_loadResultRequestId is set
     retained  : Nat,              \* m_retainedGameplayRunner
     keptReq   : Nat,              \* m_retainedGameplayLoadRequestId
     forgotten : SUBSET Nat,       \* history: requests no member names now
     source    : Nat,              \* m_arenaRunner
     guid      : Nat,              \* m_expectedScoreGuid, by its runner
     abandoned : BOOLEAN,          \* m_localRoundAbandoned
     submitted : BOOLEAN,          \* m_localTerminalSubmitted
     terminal  : Terminal,         \* m_pendingTerminal
     sampling  : BOOLEAN,          \* m_telemetryTask is armed
     ops       : SUBSET Operation, \* QtArenaRoundLoader::m_operations
     screens   : SUBSET Screen,    \* gameplay screens on the stack
     bound     : Nat,              \* gameplayScreen, by its runner
     nextReq   : Nat \ {0},
     nextId    : Nat \ {0},
     out       : {Silent}]         \* what the running handler sends

Server ==
    [phase     : {"Selecting", "Probing", "Loading", "Scheduled", "Playing"},
     round     : 0..MaxRounds,
     member    : BOOLEAN,
     mine      : BOOLEAN,
     probed    : BOOLEAN,
     loaded    : BOOLEAN,
     terminal  : TerminalKind,
     heard     : SUBSET Terminal,
     scheduled : SUBSET (1..MaxRounds)]

TypeOK ==
    /\ client \in Client
    /\ server \in Server
    /\ link \in {"Up", "Doomed", "Down"}
    /\ cuts \in 0..MaxCuts
    /\ seats \in 0..MaxSeats

-----------------------------------------------------------------------------
(* The loader and the screens.                                             *)

OpsOf(w, r) == {o \in w.ops : o.req = r}

Status(w, r) ==
    IF OpsOf(w, r) = {} THEN "Finished"
                        ELSE (CHOOSE o \in OpsOf(w, r) : TRUE).status

Pending(w, r) == \E o \in OpsOf(w, r) : o.pending

NotStarted(w, r) == OpsOf(w, r) # {} /\ Status(w, r) \in {"Working", "Ready"}

SetOp(w, r, status, pending) ==
    [w EXCEPT !.ops = {IF o.req = r
                         THEN [o EXCEPT !.status = status, !.pending = pending]
                         ELSE o : o \in w.ops}]

\* QtArenaRoundLoader::cancel: the operation and its runner are gone.  The
\* Cancelled completion it reports finds no current request in the session.
CancelOp(w, r) == [w EXCEPT !.ops = {o \in w.ops : o.req # r}]

\* Fault: request ids start at zero, which means no request.
StartOpFromZero(w, kind, round) ==
    [w EXCEPT !.req = w.nextReq - 1, !.op = kind, !.nextReq = w.nextReq + 1,
              !.ops = w.ops \cup {[req |-> w.nextReq - 1, kind |-> kind,
                                   round |-> round, status |-> "Working",
                                   pending |-> FALSE]}]

StartOp(w, kind, round) ==
    [w EXCEPT !.req = w.nextReq, !.op = kind, !.nextReq = w.nextReq + 1,
              !.ops = w.ops \cup {[req |-> w.nextReq, kind |-> kind,
                                   round |-> round, status |-> "Working",
                                   pending |-> FALSE]}]

SetScreen(w, r, s) == [w EXCEPT !.screens = {t \in w.screens : t.req # r} \cup {s}]

OnTop(w, s) == \A t \in w.screens : t.leaving \/ t.req <= s.req

\* cancelPreparedGameplay of StandardMultiplayerFlow: a gameplay that still
\* plays and is on top is closed, one behind its result is left to the user.
CloseGameplay(w) ==
    [w EXCEPT !.bound = 0,
              !.screens = {IF /\ s.req = w.bound
                              /\ OnTop(w, s)
                              /\ ~s.ended
                             THEN [s EXCEPT !.leaving = TRUE]
                             ELSE s : s \in w.screens}]

-----------------------------------------------------------------------------
(* Helpers of ArenaSession, in the order of the source.                    *)

Send(w, m) == [w EXCEPT !.out = m]

CancelRoundLoader(w) ==
    CancelOp([w EXCEPT !.req = 0, !.op = "None", !.probe = 0,
                       !.loadRound = 0], w.req)

DetachGameplaySource(w, keepGuid) ==
    [w EXCEPT !.source = 0, !.guid = IF keepGuid THEN @ ELSE 0]

StopTelemetrySampling(w) == [w EXCEPT !.sampling = FALSE]

StartTelemetrySampling(w) ==
    IF /\ w.source # 0
       /\ Status(w, w.source) = "Running"
       /\ w.terminal.kind = "None"
       /\ ~w.submitted
       /\ ~w.abandoned
       /\ w.round.id # 0
      THEN [w EXCEPT !.sampling = TRUE]
      ELSE w

CancelPreparedRound(w, keepGuid) ==
    LET stopped == DetachGameplaySource(StopTelemetrySampling(w), keepGuid)
        cleared == [stopped EXCEPT !.start = NoTask, !.prepared = 0,
                                   !.exposed = FALSE, !.announced = FALSE]
    IN  [CancelRoundLoader(IF w.exposed THEN CloseGameplay(cleared)
                                        ELSE cleared)
            EXCEPT !.loadSent = FALSE]

\* retainPreparedGameplayUntilReleased asserts that no other runner is retained
\* and overwrites the one that is: its request is forgotten.
ForgottenAfter(w) ==
    IF w.retained \in {0, w.prepared} THEN w.forgotten
                                      ELSE w.forgotten \cup {w.keptReq}

RetainPreparedGameplay(w) ==
    LET stopped == DetachGameplaySource(StopTelemetrySampling(w), FALSE)
        moved   == [stopped EXCEPT
                      !.start = NoTask, !.retained = w.prepared,
                      !.forgotten = ForgottenAfter(w),
                      !.keptReq = w.req, !.req = 0, !.op = "None",
                      !.probe = 0, !.loadRound = 0, !.prepared = 0,
                      !.exposed = FALSE, !.announced = FALSE,
                      !.loadSent = FALSE]
    IN  IF w.exposed THEN CloseGameplay(moved) ELSE moved

ClearRoundTransfers(w, keepPrepared, keepGuid) ==
    IF keepPrepared
      THEN [w EXCEPT !.start = NoTask, !.loadSent = FALSE]
      ELSE CancelPreparedRound(w, keepGuid)

ClearTerminal(w) ==
    [StopTelemetrySampling(w) EXCEPT
        !.terminal = NoTerminal, !.abandoned = FALSE, !.submitted = FALSE]

BeginCompetitionRound(w) == ClearTerminal(w)

ClearActiveCompetitionRound(w) ==
    DetachGameplaySource(ClearTerminal(w), FALSE)

ReportPreparedRound(w) ==
    IF /\ w.state = "InRoom"
       /\ w.round.id # 0
       /\ w.round.stage = "Loading"
       /\ w.loadRound = w.round.id
       /\ w.prepared # 0
       /\ w.exposed
       /\ ~w.abandoned
       /\ ~w.loadSent
       /\ Status(w, w.prepared) = "Ready"
       /\ Pending(w, w.prepared)
      THEN IF w.round.mine
             THEN Send([w EXCEPT !.loadSent = TRUE],
                       [type |-> "LoadResult", round |-> w.loadRound,
                        ok |-> TRUE])
             ELSE CancelPreparedRound(w, FALSE)
      ELSE w

\* Fault: a terminal that is sent again gets a new request id.
FlushCompetitionMessagesRenumbered(w) ==
    IF /\ w.state = "InRoom"
       /\ w.round.id # 0
       /\ w.terminal.kind # "None"
       /\ w.round.stage = "Playing" \/ w.terminal.kind = "Dnf"
      THEN LET renewed == [w EXCEPT !.terminal.id = w.nextId,
                                    !.nextId = w.nextId + 1]
           IN  Send(renewed, [type |-> "Terminal",
                              terminal |-> renewed.terminal])
      ELSE w

FlushCompetitionMessages(w) ==
    IF /\ w.state = "InRoom"
       /\ w.round.id # 0
       /\ w.terminal.kind # "None"
       /\ w.round.stage = "Playing" \/ w.terminal.kind = "Dnf"
      THEN Send(w, [type |-> "Terminal", terminal |-> w.terminal])
      ELSE w

SendTerminal(w, kind, chart) ==
    IF w.terminal.kind # "None" \/ w.submitted
      THEN w
      ELSE FlushCompetitionMessages(
             [w EXCEPT !.submitted = TRUE, !.nextId = w.nextId + 1,
                       !.terminal = [kind |-> kind, round |-> w.round.id,
                                     id |-> w.nextId, chart |-> chart]])

SendAbandon(w) ==
    IF w.round.id = 0 \/ w.terminal.kind # "None" \/ w.submitted
      THEN w
      ELSE SendTerminal([w EXCEPT !.abandoned = TRUE], "Dnf", 0)

\* Fault: giving up leaves the prepared runner and its start in place.
AbandonCurrentRoundKeepingRunner(w) ==
    IF w.round.id = 0 \/ ~w.round.mine \/ w.submitted
      THEN w
      ELSE SendAbandon(StopTelemetrySampling([w EXCEPT !.abandoned = TRUE]))

AbandonCurrentRound(w) ==
    IF w.round.id = 0 \/ ~w.round.mine \/ w.submitted
      THEN w
      ELSE CancelPreparedRound(
             SendAbandon(StopTelemetrySampling([w EXCEPT !.abandoned = TRUE])),
             TRUE)

\* attachGameplaySource where the gameplay source accepts the runner.
Attached(w, r) == [w EXCEPT !.source = r, !.guid = r]

\* submitLocalResult for the score of runner r; captured says whether the
\* gameplay source could turn the score into a result.
SubmitLocalResult(w, r, captured) ==
    IF w.round.id = 0 \/ w.guid # r \/ w.guid = 0
      THEN w
      ELSE IF w.abandoned
      THEN DetachGameplaySource(w, TRUE)
      ELSE IF \/ w.submitted
              \/ w.terminal.kind # "None"
              \/ w.source = 0
              \/ Status(w, w.source) # "Finished"
      THEN w
      ELSE DetachGameplaySource(
             LET stopped == StopTelemetrySampling(w)
             IN  IF captured
                   THEN SendTerminal(stopped, "Result",
                          (CHOOSE o \in OpsOf(w, r) : TRUE).round)
                   ELSE SendAbandon([stopped EXCEPT !.abandoned = TRUE]),
             TRUE)

ReleasePreparedGameplay(w, r) ==
    IF w.retained = r
      THEN CancelOp([w EXCEPT !.retained = 0, !.keptReq = 0], w.keptReq)
      ELSE IF w.prepared # r
      THEN w
      ELSE LET hidden == [w EXCEPT !.exposed = FALSE]
           IN  IF NotStarted(w, r) THEN AbandonCurrentRound(hidden)
                                   ELSE CancelPreparedRound(hidden, FALSE)

BeginReconnect(w) ==
    [ClearRoundTransfers(w, /\ w.prepared # 0
                            /\ w.round.id # 0
                            /\ w.loadRound = w.round.id,
                         w.round.id # 0 /\ w.guid # 0)
        EXCEPT !.state = "Reconnecting"]

ClearRoom(w) ==
    [ClearActiveCompetitionRound(
       CancelPreparedRound([w EXCEPT !.round = NoRound], FALSE))
        EXCEPT !.state = "Out", !.phase = "Selecting"]

-----------------------------------------------------------------------------
(* Handlers of the server's messages.                                      *)

\* The room phase that goes with a round's stage.
PhaseOf(stage) ==
    IF stage = "None" THEN "Selecting"
    ELSE IF stage = "Playing" THEN "Playing" ELSE "Loading"

SameRound(w, m) == w.round.id # 0 /\ w.round.id = m.round.id

SettledByServer(w, terminal) ==
    IF terminal = "None"
      THEN w
      ELSE [StopTelemetrySampling(w) EXCEPT
              !.terminal = NoTerminal, !.submitted = TRUE,
              !.abandoned = terminal = "Dnf"]

\* The end of applyRoomSnapshot: a preserved runner joins the round it finds
\* being played, or the round is given up because its start was missed.
RejoinPlay(w, attaches) ==
    IF w.prepared = 0 \/ w.round.stage # "Playing"
      THEN w
      ELSE IF ~w.exposed \/ NotStarted(w, w.prepared)
      THEN AbandonCurrentRound(w)
      ELSE IF Status(w, w.prepared) = "Finished" /\ w.source = 0
      THEN w
      ELSE IF ~attaches /\ w.source # w.prepared
      THEN CancelPreparedRound(SendAbandon(w), TRUE)
      ELSE LET attached == Attached(w, w.prepared)
           IN  IF ~w.announced /\ Status(w, w.prepared) = "Running"
                 THEN [StartTelemetrySampling(attached)
                         EXCEPT !.announced = TRUE]
                 ELSE attached

\* Fault: what waited during the outage is not sent.
ApplyRoomSnapshotUnflushed(w, m, attaches) ==
    LET sameRound    == w.state = "Reconnecting" /\ SameRound(w, m)
        samePrepared == sameRound /\ w.prepared # 0
        dropped      == IF sameRound THEN w ELSE [w EXCEPT !.round = NoRound]
        cleared      == ClearRoundTransfers(dropped, samePrepared, sameRound)
        settled      == IF sameRound THEN cleared
                                     ELSE ClearActiveCompetitionRound(cleared)
        reported     == ReportPreparedRound(SettledByServer(
                          [settled EXCEPT !.phase = PhaseOf(m.round.stage),
                                          !.round = m.round,
                                          !.state = "InRoom"], m.terminal))
    IN  IF samePrepared THEN RejoinPlay(reported, attaches) ELSE reported

ApplyRoomSnapshot(w, m, attaches) ==
    LET sameSeat     == w.state = "Reconnecting"
        sameRound    == sameSeat /\ SameRound(w, m)
        samePrepared == sameRound /\ w.prepared # 0
        dropped      == IF sameRound THEN w ELSE [w EXCEPT !.round = NoRound]
        cleared      == ClearRoundTransfers(dropped, samePrepared, sameRound)
        settled      == IF sameRound THEN cleared
                                     ELSE ClearActiveCompetitionRound(cleared)
        seated       == SettledByServer(
                          [settled EXCEPT !.phase = PhaseOf(m.round.stage),
                                          !.round = m.round,
                                          !.state = "InRoom"], m.terminal)
        reported     == ReportPreparedRound(FlushCompetitionMessages(seated))
    IN  IF samePrepared THEN RejoinPlay(reported, attaches) ELSE reported

HandleRoundLoadingStarted(w, m) ==
    IF w.phase # "Selecting" \/ w.round.id # 0
      THEN w
      ELSE CancelPreparedRound(
             BeginCompetitionRound([w EXCEPT !.phase = "Loading",
                                             !.round = m.round]), FALSE)

HandleProbeRequested(w, m) ==
    IF /\ w.phase = "Loading"
       /\ w.round.stage = "Probing"
       /\ SameRound(w, m)
       /\ w.round.mine
      THEN [StartOp(CancelRoundLoader(w), "Probe", m.round.id)
              EXCEPT !.probe = m.round.id]
      ELSE w

HandleLoadRequested(w, m) ==
    IF \/ w.phase # "Loading"
       \/ w.abandoned
       \/ ~SameRound(w, m)
       \/ w.round.stage \notin {"Probing", "Loading"}
       \/ ~w.round.mine
      THEN w
      ELSE IF w.loadRound = m.round.id /\ w.op = "Load"
      THEN ReportPreparedRound(w)
      ELSE [StartOp(CancelPreparedRound(w, FALSE), "Load", m.round.id)
              EXCEPT !.loadRound = m.round.id, !.round.stage = "Loading"]

HandleRoundStartScheduled(w, m, attaches) ==
    IF \/ w.phase # "Loading"
       \/ ~SameRound(w, m)
       \/ w.round.stage \notin {"Loading", "Scheduled"}
       \/ w.loadRound = 0
       \/ w.prepared = 0
       \/ Status(w, w.prepared) # "Ready"
       \/ ~w.exposed
       \/ ~Pending(w, w.prepared)
       \/ w.abandoned
      THEN w
      ELSE LET scheduled == [w EXCEPT !.loadSent = FALSE, !.start = NoTask,
                                      !.round.stage = "Scheduled"]
           IN  IF attaches
                 THEN [Attached(scheduled, w.prepared) EXCEPT
                         !.start = [round |-> m.round.id,
                                    runner |-> w.prepared]]
                 ELSE CancelPreparedRound(SendAbandon(scheduled), TRUE)

HandleRoundStarted(w, m) ==
    IF \/ w.phase # "Loading"
       \/ ~SameRound(w, m)
       \/ w.round.mine /\ w.round.stage # "Scheduled"
       \/ ~w.round.mine /\ w.round.stage = "Playing"
      THEN w
      ELSE FlushCompetitionMessages([w EXCEPT !.phase = "Playing",
                                              !.round.stage = "Playing"])

HandleStandings(w, m) ==
    IF SameRound(w, m) THEN SettledByServer(w, m.terminal) ELSE w

HandleTerminalAccepted(w, m) ==
    IF SameRound(w, m) /\ w.terminal.kind # "None" /\ w.terminal.id = m.id
      THEN [w EXCEPT !.terminal = NoTerminal]
      ELSE w

\* handleCommandError for the pending terminal.
HandleTerminalRefused(w, m) ==
    IF w.terminal.kind = "None" \/ w.terminal.id # m.id
      THEN w
      ELSE IF m.stale THEN BeginReconnect(w)
                      ELSE [w EXCEPT !.terminal = NoTerminal]

HandleRoundFinalized(w, m) ==
    IF SameRound(w, m)
      THEN RetainPreparedGameplay(
             [ClearTerminal(w) EXCEPT !.phase = "Selecting",
                                      !.round = NoRound])
      ELSE w

\* Fault: the prepared runner is left to the next round.
HandleRoundLaunchCancelledKeepingRunner(w, m) ==
    IF w.phase # "Loading" \/ w.round.stage = "Playing" \/ ~SameRound(w, m)
      THEN w
      ELSE ClearActiveCompetitionRound(
             [w EXCEPT !.phase = "Selecting", !.round = NoRound])

\* Fault: a launch whose start is set is taken to be past cancelling.
HandleRoundLaunchCancelledUnlessScheduled(w, m) ==
    IF \/ w.phase # "Loading"
       \/ w.round.stage \in {"Scheduled", "Playing"}
       \/ ~SameRound(w, m)
      THEN w
      ELSE CancelPreparedRound(
             ClearActiveCompetitionRound(
               [w EXCEPT !.phase = "Selecting", !.round = NoRound]), FALSE)

HandleRoundLaunchCancelled(w, m) ==
    IF w.phase # "Loading" \/ w.round.stage = "Playing" \/ ~SameRound(w, m)
      THEN w
      ELSE CancelPreparedRound(
             ClearActiveCompetitionRound(
               [w EXCEPT !.phase = "Selecting", !.round = NoRound]), FALSE)

HandleServerMessage(w, m, attaches) ==
    CASE m.type = "RoomSnapshot"    -> ApplyRoomSnapshot(w, m, attaches)
      [] m.type = "LoadingStarted"  -> HandleRoundLoadingStarted(w, m)
      [] m.type = "ProbeRequested"  -> HandleProbeRequested(w, m)
      [] m.type = "LoadRequested"   -> HandleLoadRequested(w, m)
      [] m.type = "StartScheduled"  -> HandleRoundStartScheduled(w, m, attaches)
      [] m.type = "Started"         -> HandleRoundStarted(w, m)
      [] m.type = "Standings"       -> HandleStandings(w, m)
      [] m.type = "Accepted"        -> HandleTerminalAccepted(w, m)
      [] m.type = "Refused"         -> HandleTerminalRefused(w, m)
      [] m.type = "Finalized"       -> HandleRoundFinalized(w, m)
      [] m.type = "LaunchCancelled" -> HandleRoundLaunchCancelled(w, m)
      [] m.type = "Removed"         -> ClearRoom(w)

-----------------------------------------------------------------------------
(* The room server (external).                                             *)

ServerRound(sv) ==
    IF sv.phase = "Selecting"
      THEN NoRound
      ELSE [id |-> sv.round, stage |-> sv.phase, mine |-> sv.mine]

\* What the server tells about its round in every message: its round, its own
\* verdict on the player, and for an answer the request it answers.
Message(sv, type) ==
    [type |-> type, round |-> ServerRound(sv), terminal |-> sv.terminal,
     id |-> 0, stale |-> FALSE]

\* The request the server is waiting for an answer to, asked again on resume.
PhaseRequest(sv) ==
    IF ~sv.mine
      THEN <<>>
      ELSE CASE sv.phase = "Probing"   -> <<Message(sv, "ProbeRequested")>>
             [] sv.phase = "Loading"   -> <<Message(sv, "LoadRequested")>>
             [] sv.phase = "Scheduled" -> <<Message(sv, "StartScheduled")>>
             [] OTHER                  -> <<>>

Cancelled(sv) == [sv EXCEPT !.phase = "Selecting", !.terminal = "None"]

Hear(sv, m, accepts) ==
    CASE m.type = "ProbeResult" /\ sv.phase = "Probing" /\ sv.round = m.round ->
           IF m.ok THEN [server |-> [sv EXCEPT !.probed = TRUE], says |-> <<>>]
                   ELSE [server |-> Cancelled(sv),
                         says |-> <<Message(sv, "LaunchCancelled")>>]
      [] m.type = "LoadResult" /\ sv.phase = "Loading" /\ sv.round = m.round ->
           IF m.ok THEN [server |-> [sv EXCEPT !.loaded = TRUE], says |-> <<>>]
                   ELSE [server |-> Cancelled(sv),
                         says |-> <<Message(sv, "LaunchCancelled")>>]
      [] m.type = "Terminal" ->
           LET t       == m.terminal
               current == sv.phase # "Selecting" /\ sv.round = t.round
               told    == [sv EXCEPT !.heard = @ \cup {t}]
               heard   == [told EXCEPT !.terminal = t.kind]
           IN  IF current /\ sv.terminal = "None" /\ accepts
                 THEN [server |-> heard,
                       says |-> <<[Message(heard, "Accepted")
                                     EXCEPT !.id = t.id],
                                  Message(heard, "Standings")>>]
                 ELSE [server |-> told,
                       says |-> <<[Message(sv, "Refused") EXCEPT
                                     !.id = t.id,
                                     !.stale = ~current
                                               \/ sv.terminal # "None"]>>]
      [] OTHER -> [server |-> sv, says |-> <<>>]

\* A step of the client's code that ends in w.  Its message reaches the
\* server, or is lost and the link with it; rest is what the inbox keeps.
\* Leaving the room closes the link; without a seat nothing is sent.
Becomes(w, rest) ==
    /\ client' = [w EXCEPT !.out = Silent]
    /\ IF w.state # "InRoom" /\ w.state # client.state
         THEN /\ server' = server
              /\ inbox' = <<>>
              /\ link' = "Down"
         ELSE IF w.state # "InRoom" \/ w.out = Silent
         THEN /\ server' = server
              /\ inbox' = rest
              /\ link' = link
         ELSE \/ /\ link = "Up"
                 /\ \E accepts \in BOOLEAN :
                      LET heard == Hear(server, w.out, accepts)
                      IN  /\ server' = heard.server
                          /\ inbox' = rest \o heard.says
                 /\ link' = link
              \/ /\ link = "Doomed" \/ cuts < MaxCuts
                 /\ server' = server
                 /\ inbox' = rest
                 /\ link' = "Doomed"

Moves(w) == Becomes(w, inbox) /\ UNCHANGED <<cuts, seats>>

\* The server moves to sv and says what it has to while the link stands.
Says(sv, messages) ==
    /\ server' = sv
    /\ inbox' = IF sv.member /\ link # "Down" THEN inbox \o messages ELSE inbox
    /\ UNCHANGED <<client, link, cuts, seats>>

\* The player has left the result of the last round.
ScreensSettled ==
    /\ client.retained = 0
    /\ \A i \in DOMAIN inbox : inbox[i].type # "Finalized"

\* A player who is still at the last result is not ready, and only watches the
\* round the others play.
ServerLaunches ==
    /\ server.phase = "Selecting"
    /\ server.round < MaxRounds
    /\ \E mine \in {FALSE, server.member /\ ScreensSettled} :
         LET sv == [server EXCEPT !.phase = "Probing", !.round = @ + 1,
                                  !.mine = mine, !.probed = FALSE,
                                  !.loaded = FALSE, !.terminal = "None"]
         IN  Says(sv, <<Message(sv, "LoadingStarted")>> \o PhaseRequest(sv))

\* A participant holds the launch up until it has answered or given up.
ServerLoads ==
    /\ server.phase = "Probing"
    /\ server.mine => server.probed \/ server.terminal # "None"
    /\ LET sv == [server EXCEPT !.phase = "Loading"]
       IN  Says(sv, PhaseRequest(sv))

ServerSchedules ==
    /\ server.phase = "Loading"
    /\ server.mine => server.loaded \/ server.terminal # "None"
    /\ LET sv == [server EXCEPT !.phase = "Scheduled",
                                !.scheduled = @ \cup {server.round}]
       IN  Says(sv, PhaseRequest(sv))

ServerStarts ==
    /\ server.phase = "Scheduled"
    /\ LET sv == [server EXCEPT !.phase = "Playing"]
       IN  Says(sv, <<Message(sv, "Started")>>)

ServerCancels ==
    /\ server.phase \in {"Probing", "Loading", "Scheduled"}
    /\ Says(Cancelled(server), <<Message(server, "LaunchCancelled")>>)

\* The play deadline passes.  It is the chart's length and a margin after the
\* shared start, so a connected client has started its chart by then.
ServerSettles ==
    /\ server.phase = "Playing"
    /\ server.mine /\ server.terminal = "None"
    /\ link = "Down" \/ \A o \in client.ops : o.status # "Ready"
    /\ LET sv == [server EXCEPT !.terminal = "Dnf"]
       IN  Says(sv, <<Message(sv, "Standings")>>)

\* The transition that takes a closed gameplay off the screen is shorter than
\* a round.
ServerFinalizes ==
    /\ server.phase = "Playing"
    /\ server.mine => server.terminal # "None"
    /\ \A s \in client.screens : s.leaving => s.req # client.retained
    /\ Says([server EXCEPT !.phase = "Selecting"],
            <<Message(server, "Finalized")>>)

Unseated(sv) ==
    [sv EXCEPT !.member = FALSE, !.mine = FALSE]

\* The player left, was kicked, or the server gave up waiting for it.
ServerRemoves ==
    /\ server.member
    /\ server' = Unseated(server)
    /\ inbox' = IF link = "Down" THEN inbox
                                 ELSE Append(inbox, Message(server, "Removed"))
    /\ UNCHANGED <<client, link, cuts, seats>>

-----------------------------------------------------------------------------
(* The link and the seat, as ArenaConnection has them.                     *)

Receive ==
    /\ inbox # <<>>
    /\ UNCHANGED <<cuts, seats>>
    /\ \E attaches \in BOOLEAN :
         Becomes(HandleServerMessage(client, Head(inbox), attaches), Tail(inbox))

Enter ==
    /\ client.state = "Out"
    /\ link = "Down"
    /\ ~server.member
    /\ seats < MaxSeats
    /\ seats' = seats + 1
    /\ server' = [server EXCEPT !.member = TRUE]
    /\ inbox' = <<Message(server, "RoomSnapshot")>>
    /\ link' = "Up"
    /\ UNCHANGED <<client, cuts>>

Cut ==
    /\ client.state = "InRoom"
    /\ \/ link = "Doomed"
       \/ link = "Up" /\ cuts < MaxCuts
    /\ client' = BeginReconnect(client)
    /\ cuts' = IF cuts < MaxCuts THEN cuts + 1 ELSE cuts
    /\ inbox' = <<>>
    /\ link' = "Down"
    /\ UNCHANGED <<server, seats>>

Resume ==
    /\ client.state = "Reconnecting"
    /\ link = "Down"
    /\ server.member
    /\ inbox' = <<Message(server, "RoomSnapshot")>> \o PhaseRequest(server)
    /\ link' = "Up"
    /\ UNCHANGED <<client, server, cuts, seats>>

\* The seat is gone: the grace period ended on one side or on both.
SeatLost ==
    /\ client.state = "Reconnecting"
    /\ link = "Down"
    /\ client' = ClearRoom(client)
    /\ server' = Unseated(server)
    /\ UNCHANGED <<inbox, link, cuts, seats>>

-----------------------------------------------------------------------------
(* The loader, the runners and the player.                                 *)

ProbeDone ==
    \E o \in client.ops : \E ok \in BOOLEAN :
      /\ o.kind = "Probe"
      /\ LET gone == CancelOp(client, o.req)
         IN  Moves(IF client.req = o.req /\ client.op = "Probe"
                     THEN Send([gone EXCEPT !.req = 0, !.op = "None",
                                            !.probe = 0],
                               [type |-> "ProbeResult",
                                round |-> client.probe, ok |-> ok])
                     ELSE gone)

\* openPreparedGameplay of StandardMultiplayerFlow, then the report.
ExposePrepared(w, r, opens) ==
    IF w.bound # 0
      THEN ReportPreparedRound(w)
      ELSE IF opens
      THEN ReportPreparedRound(
             SetScreen([w EXCEPT !.bound = r], r,
                       [req |-> r, ended |-> FALSE, done |-> FALSE,
                        leaving |-> FALSE]))
      ELSE AbandonCurrentRound(w)

LoadDone ==
    \E o \in client.ops : \E opens \in BOOLEAN :
      /\ o.kind = "Load" /\ o.status = "Working"
      /\ LET ready == SetOp(client, o.req, "Ready", FALSE)
         IN  Moves(IF /\ client.req = o.req
                      /\ client.op = "Load"
                      /\ client.loadRound # 0
                      /\ client.prepared = 0
                     THEN ExposePrepared([ready EXCEPT !.prepared = o.req,
                                                       !.exposed = TRUE],
                                         o.req, opens)
                     ELSE ready)

\* handleLoadFailed, also for a chart longer than the protocol carries.
LoadFails ==
    \E o \in client.ops :
      /\ o.kind = "Load" /\ o.status = "Working"
      /\ LET gone == CancelOp(client, o.req)
         IN  Moves(IF /\ client.req = o.req
                      /\ client.op = "Load"
                      /\ client.loadRound # 0
                     THEN LET failed == [gone EXCEPT !.req = 0, !.op = "None",
                                           !.loadRound = 0, !.prepared = 0]
                          IN  IF client.round.mine
                                THEN Send([failed EXCEPT !.loadSent = TRUE],
                                          [type |-> "LoadResult", ok |-> FALSE,
                                           round |-> client.loadRound])
                                ELSE failed
                     ELSE gone)

\* The theme's intro is over: the screen asks for the start.
ScreenStarts ==
    \E s \in client.screens :
      /\ ~s.leaving /\ OnTop(client, s)
      /\ Status(client, s.req) = "Ready" /\ ~Pending(client, s.req)
      /\ LET asked == SetOp(client, s.req, "Ready", TRUE)
         IN  Moves(IF client.prepared = s.req THEN ReportPreparedRound(asked)
                                              ELSE asked)

StartTaskFires ==
    LET t     == client.start
        fired == [client EXCEPT !.start = NoTask]
    IN  /\ t # NoTask
        /\ Moves(IF /\ client.round.id = t.round
                    /\ client.prepared = t.runner
                    /\ Pending(client, t.runner)
                   THEN [StartTelemetrySampling(
                           SetOp(fired, t.runner, "Running", FALSE))
                           EXCEPT !.announced = TRUE]
                   ELSE fired)

\* Runner r reaches its end; the session hears of it through the source.
Finish(w, r) ==
    LET ended == SetOp([w EXCEPT !.screens =
                          {IF s.req = r THEN [s EXCEPT !.ended = TRUE] ELSE s :
                             s \in w.screens}], r, "Finished", FALSE)
    IN  IF w.source = r THEN StopTelemetrySampling(ended) ELSE ended

RunnerEnds ==
    \E o \in client.ops :
      /\ o.kind = "Load" /\ o.status = "Running"
      /\ Moves(Finish(client, o.req))

\* GameplayContext::finishStage, after the end or because the player exits.
ScreenPresentsResult ==
    \E s \in client.screens : \E captured \in BOOLEAN :
      /\ ~s.done /\ ~s.leaving /\ OnTop(client, s)
      /\ OpsOf(client, s.req) # {}
      /\ ~NotStarted(client, s.req)
      /\ LET ended == Finish(client, s.req)
         IN  Moves(SubmitLocalResult(
                     SetScreen(ended, s.req,
                               [s EXCEPT !.ended = TRUE, !.done = TRUE]),
                     s.req, captured))

\* The exit key before the start, handled by StandardGameplayFlow.
PlayerAbandons ==
    \E s \in client.screens :
      /\ ~s.done /\ ~s.leaving /\ OnTop(client, s)
      /\ NotStarted(client, s.req)
      /\ Moves(AbandonCurrentRound(client))

\* The screen is off the stack: closed by the flow, left after its result, or
\* popped by the theme before the chart has started.
ScreenRemoved ==
    \E s \in client.screens :
      /\ s.leaving \/ (OnTop(client, s) /\ (s.done \/ NotStarted(client, s.req)))
      /\ LET gone == [client EXCEPT !.screens = @ \ {s},
                        !.bound = IF @ = s.req THEN 0 ELSE @]
         IN  Moves(IF OpsOf(client, s.req) = {}
                     THEN gone
                     ELSE ReleasePreparedGameplay(gone, s.req))

-----------------------------------------------------------------------------
Init ==
    /\ client = [state |-> "Out", phase |-> "Selecting", round |-> NoRound,
                 req |-> 0, op |-> "None", probe |-> 0, loadRound |-> 0,
                 prepared |-> 0, exposed |-> FALSE, announced |-> FALSE,
                 start |-> NoTask, loadSent |-> FALSE, retained |-> 0,
                 keptReq |-> 0, forgotten |-> {}, source |-> 0, guid |-> 0,
                 abandoned |-> FALSE, submitted |-> FALSE,
                 terminal |-> NoTerminal, sampling |-> FALSE, ops |-> {},
                 screens |-> {}, bound |-> 0, nextReq |-> 1, nextId |-> 1,
                 out |-> Silent]
    /\ server = [phase |-> "Selecting", round |-> 0, member |-> FALSE,
                 mine |-> FALSE, probed |-> FALSE, loaded |-> FALSE,
                 terminal |-> "None", heard |-> {}, scheduled |-> {}]
    /\ inbox = <<>>
    /\ link = "Down"
    /\ cuts = 0
    /\ seats = 0

ServerNext ==
    \/ ServerLaunches \/ ServerLoads \/ ServerSchedules \/ ServerStarts
    \/ ServerCancels \/ ServerSettles \/ ServerFinalizes \/ ServerRemoves

LinkNext == Receive \/ Enter \/ Cut \/ Resume \/ SeatLost

PlayerNext ==
    \/ ProbeDone \/ LoadDone \/ LoadFails \/ ScreenStarts \/ StartTaskFires
    \/ RunnerEnds \/ ScreenPresentsResult \/ PlayerAbandons \/ ScreenRemoved

Next == ServerNext \/ LinkNext \/ PlayerNext

Spec == Init /\ [][Next]_vars

\* The event loop delivers what has arrived, a doomed link is noticed, and the
\* grace period of ArenaConnection ends an outage one way or the other; a
\* scheduled round starts when the server's timer says so.  The second conjunct
\* is WF_vars(Receive): Receive is enabled exactly while something has arrived.
FairSpec ==
    /\ Spec
    /\ []<>(inbox = <<>>) \/ []<><<Receive>>_vars
    /\ WF_vars(Cut /\ link = "Doomed")
    /\ WF_vars(Resume \/ SeatLost)
    /\ WF_vars(ServerStarts)

-----------------------------------------------------------------------------
(* Properties.                                                             *)

\* Every operation the round loader keeps is one the session can still cancel:
\* the current request or the request of the retained gameplay.  A runner
\* nobody can cancel lives until the application ends; the only ones are those
\* whose retention a later finalization replaced, and none of them is loading.
LoaderOwned ==
    \A o \in client.ops :
        \/ o.req \in {client.req, client.keptReq}
        \/ o.req \in client.forgotten /\ o.status # "Working"

\* The prepared runner is alive and was loaded for the round the session is
\* in, in every state between two handlers, whatever was cancelled, resumed
\* or finalized in between.
PreparedIsCurrent ==
    client.prepared # 0 =>
        \E o \in OpsOf(client, client.prepared) :
            /\ o.req = client.req
            /\ o.status # "Working"
            /\ o.round = client.round.id
            /\ o.round = client.loadRound

\* A runner kept after its round was finalized is alive, can be cancelled and,
\* if it has been played, has a gameplay screen, whose removal is the only
\* thing that lets it go.  (A runner that was never started can be retained
\* without one, see the hazards.)
RetainedHasScreen ==
    client.retained # 0 =>
        /\ client.keptReq = client.retained
        /\ OpsOf(client, client.retained) # {}
        /\ \/ Status(client, client.retained) = "Ready"
           \/ \E s \in client.screens : s.req = client.retained

\* One terminal message of a round reaches the server, however often the link
\* is lost and the pending terminal is sent again, and a result was scored on
\* the chart loaded for that round.  A terminal that waits to be acknowledged
\* belongs to the current round, and nothing else is sent for it.
OneTerminal ==
    /\ \A a, b \in server.heard : a.round = b.round => a = b
    /\ \A t \in server.heard : t.kind = "Result" => t.chart = t.round
    /\ client.terminal.kind # "None" =>
          /\ client.terminal.round = client.round.id
          /\ client.submitted

\* Telemetry is sampled only from the running runner of a round the player
\* has neither finished nor given up.
SamplesOnlyLivePlay ==
    client.sampling =>
        /\ client.source # 0
        /\ client.source = client.prepared
        /\ Status(client, client.source) = "Running"
        /\ client.terminal.kind = "None"
        /\ ~client.abandoned

\* Every runner is owned: the loader keeps no operation the session cannot
\* cancel but the forgotten ones, the prepared one is of the current round, a
\* retained one goes with its screen, and nothing is sampled from a play that
\* is over.
RunnersAreOwned ==
    /\ LoaderOwned
    /\ PreparedIsCurrent
    /\ RetainedHasScreen
    /\ SamplesOnlyLivePlay

\* When a round is finalized no other runner than its own is retained, as
\* retainPreparedGameplayUntilReleased asserts (ArenaSession.cpp:3059).
NoOtherIsRetained == client.forgotten = {}

\* Once a player on a live link has processed everything the room has said,
\* the session is in the room's round, or in none if the room is selecting,
\* and it knows that the round is being played unless the player gave it up
\* during the launch.
AgreesWithRoom ==
    client.state = "InRoom" /\ link = "Up" /\ inbox = <<>> =>
        /\ client.round.id = ServerRound(server).id
        /\ server.phase = "Playing" =>
             client.phase = "Playing" \/ client.abandoned

\* A runner is started only for a player who sits in the room, in the round it
\* was loaded for, and who has sent no terminal for it: a start that was set
\* before the link was lost, or before the player left the intro, does not
\* fire afterwards.
StartsOnlySeated ==
    [][\A o \in client.ops : \A p \in client'.ops :
          o.req = p.req /\ o.status = "Ready" /\ p.status = "Running" =>
              /\ client.state = "InRoom"
              /\ client.round.id = o.round
              /\ client.round.stage \in {"Scheduled", "Playing"}
              /\ client.terminal.kind = "None"
              /\ \A t \in server.heard : t.round # o.round]_vars

\* A terminal message does not stay unacknowledged for ever: the server takes
\* or refuses it, its round ends, or the seat is lost.
TerminalSettles == client.terminal.kind # "None" ~> client.terminal.kind = "None"

=============================================================================
