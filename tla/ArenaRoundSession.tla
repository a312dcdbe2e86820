------------------------- MODULE ArenaRoundSession --------------------------
(***************************************************************************)
(* Proofs about ArenaRound, first part: the types, and what the handlers   *)
(* of ArenaSession and the steps of loader, screens and player do to the   *)
(* session alone.  Each keeps Local and Tidy, the parts of the inductive   *)
(* invariant that speak of the session, and those that stay in the round   *)
(* keep what the server may rely on (Sound).  ArenaRoundProofs adds the    *)
(* server and the link.                                                    *)
(***************************************************************************)
EXTENDS ArenaRound, SequenceTheorems, TLAPS

-----------------------------------------------------------------------------
(* Types.                                                                  *)

\* What the session has to send at the end of a handler.
Answer ==
    {Silent} \cup [type : {"ProbeResult", "LoadResult"}, round : Nat, ok : BOOLEAN]
             \cup [type : {"Terminal"}, terminal : Terminal]

\* A client inside a handler, whose message is not sent yet.
Session ==
    [state     : {"InRoom", "Reconnecting", "Out"},
     phase     : {"Selecting", "Loading", "Playing"},
     round     : [id : Nat, stage : Stage, mine : BOOLEAN],
     req       : Nat,
     op        : {"None", "Probe", "Load"},
     probe     : Nat,
     loadRound : Nat,
     prepared  : Nat,
     exposed   : BOOLEAN,
     announced : BOOLEAN,
     start     : [round : Nat, runner : Nat],
     loadSent  : BOOLEAN,
     retained  : Nat,
     keptReq   : Nat,
     forgotten : SUBSET Nat,
     source    : Nat,
     guid      : Nat,
     abandoned : BOOLEAN,
     submitted : BOOLEAN,
     terminal  : Terminal,
     sampling  : BOOLEAN,
     ops       : SUBSET Operation,
     screens   : SUBSET Screen,
     bound     : Nat,
     nextReq   : Nat \ {0},
     nextId    : Nat \ {0},
     out       : Answer]

\* What the server sends.
MessageType == {"RoomSnapshot", "LoadingStarted", "ProbeRequested",
                "LoadRequested", "StartScheduled", "Started", "Standings",
                "Accepted", "Refused", "Finalized", "LaunchCancelled",
                "Removed"}

RoundType == [id : Nat, stage : Stage, mine : BOOLEAN]

Messages == [type : MessageType, round : RoundType, terminal : TerminalKind,
             id : Nat, stale : BOOLEAN]

-----------------------------------------------------------------------------
(* The session inside its handlers.                                        *)

LEMMA ClientIsSession == Client \subseteq Session
BY DEF Client, Session, Answer

LEMMA SentType ==
    ASSUME NEW w \in Session
    PROVE  [w EXCEPT !.out = Silent] \in Client
BY DEF Client, Session

LEMMA NoValuesType ==
    /\ NoRound \in RoundType
    /\ NoTask \in [round : Nat, runner : Nat]
    /\ NoTerminal \in Terminal
BY DEF NoRound, NoTask, NoTerminal, RoundType, Stage, Terminal, TerminalKind

LEMMA SendType ==
    ASSUME NEW w \in Session, NEW m \in Answer
    PROVE  Send(w, m) \in Session
BY DEF Session, Send

LEMMA CancelOpType ==
    ASSUME NEW w \in Session, NEW r
    PROVE  CancelOp(w, r) \in Session
BY DEF Session, CancelOp

LEMMA SetOpType ==
    ASSUME NEW w \in Session, NEW r, NEW status \in OpStatus,
           NEW pending \in BOOLEAN
    PROVE  SetOp(w, r, status, pending) \in Session
<1> DEFINE F(o) == IF o.req = r
                     THEN [o EXCEPT !.status = status, !.pending = pending]
                     ELSE o
           q == {F(o) : o \in w.ops}
<1>1. \A o \in w.ops : F(o) \in Operation
  <2>1. w.ops \subseteq Operation
    BY DEF Session
  <2>2. \A o \in Operation : F(o) \in Operation
    BY DEF Operation
  <2>3. QED
    BY <2>1, <2>2
<1>2. q \in SUBSET Operation
  BY <1>1
<1> HIDE DEF q
<1>3. [w EXCEPT !.ops = q] \in Session
  BY SMTT(30), <1>2 DEF Session
<1>4. QED
  BY <1>3 DEF SetOp, q

LEMMA StartOpType ==
    ASSUME NEW w \in Session, NEW kind \in {"Probe", "Load"}, NEW round \in Nat
    PROVE  StartOp(w, kind, round) \in Session
<1> DEFINE new == [req |-> w.nextReq, kind |-> kind, round |-> round,
                   status |-> "Working", pending |-> FALSE]
           q == w.ops \cup {new}
<1>1. w.nextReq \in Nat \ {0} /\ w.nextReq + 1 \in Nat \ {0}
  BY DEF Session
<1>2. new \in Operation
  BY <1>1 DEF Operation, OpStatus
<1>3. q \in SUBSET Operation
  BY ZenonT(40), <1>2 DEF Session
<1> HIDE DEF q
<1>4. [w EXCEPT !.req = w.nextReq, !.op = kind, !.nextReq = w.nextReq + 1,
                !.ops = q] \in Session
  BY ZenonT(40), <1>1, <1>3 DEF Session
<1>5. QED
  BY <1>4 DEF StartOp, q

LEMMA SetScreenType ==
    ASSUME NEW w \in Session, NEW r, NEW s \in Screen
    PROVE  SetScreen(w, r, s) \in Session
BY DEF Session, SetScreen

LEMMA CloseGameplayType ==
    ASSUME NEW w \in Session
    PROVE  CloseGameplay(w) \in Session
<1> DEFINE F(s) == IF s.req = w.bound /\ OnTop(w, s) /\ ~s.ended
                     THEN [s EXCEPT !.leaving = TRUE] ELSE s
           q == {F(s) : s \in w.screens}
<1>1. w.screens \subseteq Screen
  BY DEF Session
<1>2. \A s \in Screen : F(s) \in Screen
  BY DEF Screen
<1>3. q \in SUBSET Screen
  BY <1>1, <1>2
<1> HIDE DEF q
<1>4. [w EXCEPT !.bound = 0, !.screens = q] \in Session
  BY ZenonT(40), <1>3 DEF Session
<1>5. QED
  BY <1>4 DEF CloseGameplay, q

LEMMA StopFields ==
    ASSUME NEW r \in Session, NEW g \in Nat
    PROVE  /\ [r EXCEPT !.source = 0, !.guid = g] \in Session
           /\ [r EXCEPT !.sampling = FALSE] \in Session
           /\ [r EXCEPT !.sampling = TRUE] \in Session
BY ZenonT(40) DEF Session

LEMMA DetachGameplaySourceType ==
    ASSUME NEW w \in Session, NEW keepGuid \in BOOLEAN
    PROVE  DetachGameplaySource(w, keepGuid) \in Session
<1>1. w.guid \in Nat
  BY DEF Session
<1>2. QED
  BY <1>1, StopFields DEF DetachGameplaySource

LEMMA TelemetryType ==
    ASSUME NEW w \in Session
    PROVE  /\ StopTelemetrySampling(w) \in Session
           /\ StartTelemetrySampling(w) \in Session
BY StopFields DEF StopTelemetrySampling, StartTelemetrySampling

LEMMA LoaderFields ==
    ASSUME NEW r \in Session
    PROVE  /\ [r EXCEPT !.req = 0, !.op = "None", !.probe = 0,
                        !.loadRound = 0] \in Session
           /\ [r EXCEPT !.start = NoTask, !.prepared = 0,
                        !.exposed = FALSE, !.announced = FALSE] \in Session
           /\ [r EXCEPT !.loadSent = FALSE] \in Session
           /\ [r EXCEPT !.loadSent = TRUE] \in Session
           /\ [r EXCEPT !.start = NoTask, !.loadSent = FALSE] \in Session
           /\ [r EXCEPT !.start = NoTask] \in Session
           /\ [r EXCEPT !.announced = TRUE] \in Session
           /\ [r EXCEPT !.exposed = FALSE] \in Session
BY ZenonT(40), NoValuesType DEF Session

LEMMA CancelRoundLoaderType ==
    ASSUME NEW w \in Session
    PROVE  CancelRoundLoader(w) \in Session
BY LoaderFields, CancelOpType DEF CancelRoundLoader

LEMMA CancelPreparedRoundType ==
    ASSUME NEW w \in Session, NEW keepGuid \in BOOLEAN
    PROVE  CancelPreparedRound(w, keepGuid) \in Session
BY TelemetryType, DetachGameplaySourceType, LoaderFields, CloseGameplayType,
   CancelRoundLoaderType DEF CancelPreparedRound

LEMMA RetainFields ==
    ASSUME NEW r \in Session, NEW a \in Nat, NEW b \in Nat, NEW c \in SUBSET Nat
    PROVE  [r EXCEPT
              !.start = NoTask, !.retained = a, !.forgotten = c,
              !.keptReq = b, !.req = 0, !.op = "None",
              !.probe = 0, !.loadRound = 0, !.prepared = 0,
              !.exposed = FALSE, !.announced = FALSE,
              !.loadSent = FALSE] \in Session
BY ZenonT(40), NoValuesType DEF Session

LEMMA RetainPreparedGameplayType ==
    ASSUME NEW w \in Session
    PROVE  RetainPreparedGameplay(w) \in Session
<1>1. w.prepared \in Nat /\ w.req \in Nat
  BY DEF Session
<1>2. DetachGameplaySource(StopTelemetrySampling(w), FALSE) \in Session
  BY TelemetryType, DetachGameplaySourceType
<1>3. ForgottenAfter(w) \in SUBSET Nat
  BY DEF Session, ForgottenAfter
<1>4. QED
  BY <1>1, <1>2, <1>3, RetainFields, CloseGameplayType
     DEF RetainPreparedGameplay

LEMMA ClearRoundTransfersType ==
    ASSUME NEW w \in Session, NEW keepPrepared \in BOOLEAN,
           NEW keepGuid \in BOOLEAN
    PROVE  ClearRoundTransfers(w, keepPrepared, keepGuid) \in Session
BY LoaderFields, CancelPreparedRoundType DEF ClearRoundTransfers

LEMMA VerdictFields ==
    ASSUME NEW r \in Session, NEW a \in BOOLEAN, NEW b \in BOOLEAN
    PROVE  /\ [r EXCEPT !.terminal = NoTerminal, !.abandoned = a,
                        !.submitted = b] \in Session
           /\ [r EXCEPT !.terminal = NoTerminal, !.submitted = b,
                        !.abandoned = a] \in Session
           /\ [r EXCEPT !.terminal = NoTerminal] \in Session
           /\ [r EXCEPT !.abandoned = a] \in Session
BY ZenonT(40), NoValuesType DEF Session

LEMMA ClearTerminalType ==
    ASSUME NEW w \in Session
    PROVE  /\ ClearTerminal(w) \in Session
           /\ BeginCompetitionRound(w) \in Session
           /\ ClearActiveCompetitionRound(w) \in Session
BY TelemetryType, VerdictFields, DetachGameplaySourceType
   DEF ClearTerminal, BeginCompetitionRound, ClearActiveCompetitionRound

LEMMA ReportPreparedRoundType ==
    ASSUME NEW w \in Session
    PROVE  ReportPreparedRound(w) \in Session
<1>1. [type |-> "LoadResult", round |-> w.loadRound, ok |-> TRUE] \in Answer
  <2>1. w.loadRound \in Nat
    BY DEF Session
  <2>2. QED
    BY <2>1 DEF Answer
<1>2. QED
  BY <1>1, LoaderFields, SendType, CancelPreparedRoundType
     DEF ReportPreparedRound

LEMMA FlushCompetitionMessagesType ==
    ASSUME NEW w \in Session
    PROVE  FlushCompetitionMessages(w) \in Session
<1>1. [type |-> "Terminal", terminal |-> w.terminal] \in Answer
  <2>1. w.terminal \in Terminal
    BY DEF Session
  <2>2. QED
    BY <2>1 DEF Answer
<1>2. QED
  BY <1>1, SendType DEF FlushCompetitionMessages

LEMMA SendTerminalFields ==
    ASSUME NEW r \in Session, NEW t \in Terminal, NEW n \in Nat \ {0}
    PROVE  [r EXCEPT !.submitted = TRUE, !.nextId = n, !.terminal = t]
              \in Session
BY DEF Session

LEMMA SendTerminalType ==
    ASSUME NEW w \in Session, NEW kind \in {"Result", "Dnf"}, NEW chart \in Nat
    PROVE  SendTerminal(w, kind, chart) \in Session
<1> DEFINE t == [kind |-> kind, round |-> w.round.id, id |-> w.nextId,
                 chart |-> chart]
<1>1. w.nextId \in Nat \ {0} /\ w.round.id \in Nat
  BY DEF Session
<1>2. w.nextId + 1 \in Nat \ {0}
  BY <1>1
<1>3. t \in Terminal
  BY <1>1 DEF Terminal, TerminalKind
<1> HIDE DEF t
<1>4. [w EXCEPT !.submitted = TRUE, !.nextId = w.nextId + 1, !.terminal = t]
         \in Session
  BY <1>2, <1>3, SendTerminalFields
<1>5. QED
  BY <1>4, FlushCompetitionMessagesType DEF SendTerminal, t

LEMMA SendAbandonType ==
    ASSUME NEW w \in Session
    PROVE  SendAbandon(w) \in Session
BY VerdictFields, SendTerminalType DEF SendAbandon

LEMMA AbandonCurrentRoundType ==
    ASSUME NEW w \in Session
    PROVE  AbandonCurrentRound(w) \in Session
BY VerdictFields, TelemetryType, SendAbandonType, CancelPreparedRoundType
   DEF AbandonCurrentRound

LEMMA AttachedType ==
    ASSUME NEW w \in Session, NEW r \in Nat
    PROVE  Attached(w, r) \in Session
BY DEF Session, Attached

LEMMA ChosenOp ==
    ASSUME NEW w \in Session, NEW r, OpsOf(w, r) # {}
    PROVE  /\ (CHOOSE o \in OpsOf(w, r) : TRUE) \in OpsOf(w, r)
           /\ (CHOOSE o \in OpsOf(w, r) : TRUE) \in w.ops
           /\ (CHOOSE o \in OpsOf(w, r) : TRUE) \in Operation
<1>1. (CHOOSE o \in OpsOf(w, r) : TRUE) \in OpsOf(w, r)
  OBVIOUS
<1>2. OpsOf(w, r) \subseteq w.ops
  BY DEF OpsOf
<1>3. w.ops \subseteq Operation
  BY DEF Session
<1>4. QED
  BY <1>1, <1>2, <1>3

LEMMA SubmitLocalResultType ==
    ASSUME NEW w \in Session, NEW r \in Nat, OpsOf(w, r) # {},
           NEW captured \in BOOLEAN
    PROVE  SubmitLocalResult(w, r, captured) \in Session
<1> DEFINE chart == (CHOOSE o \in OpsOf(w, r) : TRUE).round
           stopped == StopTelemetrySampling(w)
<1>1. chart \in Nat
  BY ChosenOp DEF Operation
<1>2. stopped \in Session
  BY TelemetryType
<1> HIDE DEF chart, stopped
<1>3. SendTerminal(stopped, "Result", chart) \in Session
  BY <1>1, <1>2, SendTerminalType
<1>4. SendAbandon([stopped EXCEPT !.abandoned = TRUE]) \in Session
  BY <1>2, VerdictFields, SendAbandonType
<1>5. QED
  BY <1>3, <1>4, DetachGameplaySourceType
     DEF SubmitLocalResult, chart, stopped

LEMMA ReleasePreparedGameplayType ==
    ASSUME NEW w \in Session, NEW r
    PROVE  ReleasePreparedGameplay(w, r) \in Session
<1>1. [w EXCEPT !.retained = 0, !.keptReq = 0] \in Session
  BY DEF Session
<1>2. QED
  BY <1>1, CancelOpType, LoaderFields, AbandonCurrentRoundType,
     CancelPreparedRoundType DEF ReleasePreparedGameplay

LEMMA SeatFields ==
    ASSUME NEW w \in Session, NEW st \in {"InRoom", "Reconnecting", "Out"},
           NEW ph \in {"Selecting", "Loading", "Playing"}, NEW rd \in RoundType
    PROVE  /\ [w EXCEPT !.state = st] \in Session
           /\ [w EXCEPT !.state = st, !.phase = ph] \in Session
           /\ [w EXCEPT !.round = rd] \in Session
           /\ [w EXCEPT !.phase = ph, !.round = rd] \in Session
           /\ [w EXCEPT !.phase = ph, !.round = rd, !.state = st] \in Session
           /\ [w EXCEPT !.loadSent = FALSE, !.start = NoTask,
                        !.round = rd] \in Session
<1>1. /\ [w EXCEPT !.state = st] \in Session
      /\ [w EXCEPT !.state = st, !.phase = ph] \in Session
      /\ [w EXCEPT !.round = rd] \in Session
  BY ZenonT(40) DEF Session, RoundType
<1>2. /\ [w EXCEPT !.phase = ph, !.round = rd] \in Session
      /\ [w EXCEPT !.phase = ph, !.round = rd, !.state = st] \in Session
  BY ZenonT(40) DEF Session, RoundType
<1>3. [w EXCEPT !.loadSent = FALSE, !.start = NoTask, !.round = rd]
         \in Session
  BY NoValuesType DEF Session, RoundType
<1>4. QED
  BY <1>1, <1>2, <1>3

LEMMA StageFields ==
    ASSUME NEW w \in Session, NEW ph \in {"Selecting", "Loading", "Playing"},
           NEW sg \in Stage
    PROVE  /\ [w EXCEPT !.phase = ph, !.round.stage = sg] \in Session
           /\ [w EXCEPT !.loadSent = FALSE, !.start = NoTask,
                        !.round.stage = sg] \in Session
           /\ \A n \in Nat : [w EXCEPT !.loadRound = n, !.round.stage = sg]
                                \in Session
<1> DEFINE rd == [w.round EXCEPT !.stage = sg]
<1>1. rd \in RoundType
  BY SMTT(30) DEF Session, RoundType
<1>2. [w EXCEPT !.phase = ph, !.round.stage = sg]
         = [w EXCEPT !.phase = ph, !.round = rd]
  OBVIOUS
<1>3. [w EXCEPT !.loadSent = FALSE, !.start = NoTask, !.round.stage = sg]
         = [w EXCEPT !.loadSent = FALSE, !.start = NoTask, !.round = rd]
  OBVIOUS
<1>4. \A n \in Nat : [w EXCEPT !.loadRound = n, !.round.stage = sg]
                       = [w EXCEPT !.loadRound = n, !.round = rd]
  OBVIOUS
<1> HIDE DEF rd
<1>5. \A n \in Nat : [w EXCEPT !.loadRound = n, !.round = rd] \in Session
  BY <1>1 DEF Session, RoundType
<1>6. [w EXCEPT !.phase = ph, !.round = rd] \in Session
  BY <1>1 DEF Session, RoundType
<1>7. [w EXCEPT !.loadSent = FALSE, !.start = NoTask, !.round = rd]
         \in Session
  BY <1>1, NoValuesType DEF Session, RoundType
<1>8. QED
  BY <1>2, <1>3, <1>4, <1>5, <1>6, <1>7

LEMMA BeginReconnectType ==
    ASSUME NEW w \in Session
    PROVE  BeginReconnect(w) \in Session
BY ClearRoundTransfersType, SeatFields, NoValuesType DEF BeginReconnect, Stage

LEMMA ClearRoomType ==
    ASSUME NEW w \in Session
    PROVE  ClearRoom(w) \in Session
<1>1. [w EXCEPT !.round = NoRound] \in Session
  BY NoValuesType, SeatFields DEF Stage
<1>2. CancelPreparedRound([w EXCEPT !.round = NoRound], FALSE) \in Session
  BY <1>1, CancelPreparedRoundType
<1>3. ClearActiveCompetitionRound(
        CancelPreparedRound([w EXCEPT !.round = NoRound], FALSE)) \in Session
  BY <1>2, ClearTerminalType
<1>4. QED
  BY <1>3, NoValuesType, SeatFields DEF ClearRoom, Stage

LEMMA SettledByServerType ==
    ASSUME NEW w \in Session, NEW terminal
    PROVE  SettledByServer(w, terminal) \in Session
<1>1. (terminal = "Dnf") \in BOOLEAN
  OBVIOUS
<1>2. StopTelemetrySampling(w) \in Session
  BY TelemetryType
<1>3. QED
  BY <1>1, <1>2, VerdictFields DEF SettledByServer

LEMMA RejoinPlayType ==
    ASSUME NEW w \in Session, NEW attaches
    PROVE  RejoinPlay(w, attaches) \in Session
<1>1. w.prepared \in Nat
  BY DEF Session
<1>2. Attached(w, w.prepared) \in Session
  BY <1>1, AttachedType
<1>3. QED
  BY <1>2, AbandonCurrentRoundType, SendAbandonType, CancelPreparedRoundType,
     TelemetryType, LoaderFields DEF RejoinPlay

LEMMA PhaseOfType ==
    ASSUME NEW stage
    PROVE  PhaseOf(stage) \in {"Selecting", "Loading", "Playing"}
BY DEF PhaseOf

LEMMA ApplyRoomSnapshotType ==
    ASSUME NEW w \in Session, NEW m \in Messages, NEW attaches
    PROVE  ApplyRoomSnapshot(w, m, attaches) \in Session
<1> DEFINE sameSeat     == w.state = "Reconnecting"
           sameRound    == sameSeat /\ SameRound(w, m)
           samePrepared == sameRound /\ w.prepared # 0
           dropped      == IF sameRound THEN w ELSE [w EXCEPT !.round = NoRound]
           cleared      == ClearRoundTransfers(dropped, samePrepared, sameRound)
           settled      == IF sameRound THEN cleared
                                        ELSE ClearActiveCompetitionRound(cleared)
           placed       == [settled EXCEPT !.phase = PhaseOf(m.round.stage),
                                           !.round = m.round,
                                           !.state = "InRoom"]
           reported     == ReportPreparedRound(FlushCompetitionMessages(
                             SettledByServer(placed, m.terminal)))
<1>1. sameRound \in BOOLEAN /\ samePrepared \in BOOLEAN
  BY DEF SameRound
<1>2. dropped \in Session
  BY SeatFields, NoValuesType
<1>3. cleared \in Session
  BY <1>1, <1>2, ClearRoundTransfersType
<1>4. settled \in Session
  BY <1>3, ClearTerminalType
<1>5. m.round \in RoundType
  BY DEF Messages
<1>6. placed \in Session
  BY <1>4, <1>5, PhaseOfType, SeatFields
<1>7. reported \in Session
  BY <1>6, SettledByServerType, FlushCompetitionMessagesType,
     ReportPreparedRoundType
<1> HIDE DEF reported, samePrepared
<1>8. QED
  BY <1>7, RejoinPlayType DEF ApplyRoomSnapshot, reported, samePrepared

LEMMA HandlersType ==
    ASSUME NEW w \in Session, NEW m \in Messages, NEW attaches
    PROVE  /\ HandleRoundLoadingStarted(w, m) \in Session
           /\ HandleProbeRequested(w, m) \in Session
           /\ HandleLoadRequested(w, m) \in Session
           /\ HandleRoundStartScheduled(w, m, attaches) \in Session
           /\ HandleRoundStarted(w, m) \in Session
           /\ HandleStandings(w, m) \in Session
           /\ HandleTerminalAccepted(w, m) \in Session
           /\ HandleTerminalRefused(w, m) \in Session
           /\ HandleRoundFinalized(w, m) \in Session
           /\ HandleRoundLaunchCancelled(w, m) \in Session
<1>1. m.round \in RoundType /\ m.round.id \in Nat /\ w.prepared \in Nat
  BY DEF Messages, RoundType, Session
<1>2. HandleRoundLoadingStarted(w, m) \in Session
  BY <1>1, SeatFields, ClearTerminalType, CancelPreparedRoundType
     DEF HandleRoundLoadingStarted
<1>3. HandleProbeRequested(w, m) \in Session
  <2>1. StartOp(CancelRoundLoader(w), "Probe", m.round.id) \in Session
    BY <1>1, CancelRoundLoaderType, StartOpType
  <2>2. \A r \in Session : \A n \in Nat : [r EXCEPT !.probe = n] \in Session
    BY DEF Session
  <2>3. QED
    BY <1>1, <2>1, <2>2 DEF HandleProbeRequested
<1>4. HandleLoadRequested(w, m) \in Session
  <2>1. StartOp(CancelPreparedRound(w, FALSE), "Load", m.round.id) \in Session
    BY <1>1, CancelPreparedRoundType, StartOpType
  <2>2. QED
    BY <1>1, <2>1, StageFields, ReportPreparedRoundType
       DEF HandleLoadRequested, Stage
<1>5. HandleRoundStartScheduled(w, m, attaches) \in Session
  <2> DEFINE scheduled == [w EXCEPT !.loadSent = FALSE, !.start = NoTask,
                                    !.round.stage = "Scheduled"]
  <2>1. scheduled \in Session
    BY StageFields DEF Stage
  <2> HIDE DEF scheduled
  <2>2. Attached(scheduled, w.prepared) \in Session
    BY <1>1, <2>1, AttachedType
  <2>3. \A r \in Session :
          [r EXCEPT !.start = [round |-> m.round.id, runner |-> w.prepared]]
             \in Session
    BY SMTT(30), <1>1 DEF Session
  <2>4. CancelPreparedRound(SendAbandon(scheduled), TRUE) \in Session
    BY <2>1, SendAbandonType, CancelPreparedRoundType
  <2>5. QED
    BY <2>2, <2>3, <2>4 DEF HandleRoundStartScheduled, scheduled
<1>6. HandleRoundStarted(w, m) \in Session
  BY StageFields, FlushCompetitionMessagesType DEF HandleRoundStarted, Stage
<1>7. HandleStandings(w, m) \in Session
  BY SettledByServerType DEF HandleStandings
<1>8. HandleTerminalAccepted(w, m) \in Session
  BY VerdictFields DEF HandleTerminalAccepted
<1>9. HandleTerminalRefused(w, m) \in Session
  BY VerdictFields, BeginReconnectType DEF HandleTerminalRefused
<1>10. HandleRoundFinalized(w, m) \in Session
  BY NoValuesType, SeatFields, ClearTerminalType, RetainPreparedGameplayType
     DEF HandleRoundFinalized
<1>11. HandleRoundLaunchCancelled(w, m) \in Session
  BY NoValuesType, SeatFields, ClearTerminalType, CancelPreparedRoundType
     DEF HandleRoundLaunchCancelled
<1>12. QED
  BY <1>2, <1>3, <1>4, <1>5, <1>6, <1>7, <1>8, <1>9, <1>10, <1>11

LEMMA HandleServerMessageType ==
    ASSUME NEW w \in Session, NEW m \in Messages, NEW attaches
    PROVE  HandleServerMessage(w, m, attaches) \in Session
<1>1. m.type \in MessageType
  BY DEF Messages
<1>2. QED
  BY <1>1, HandlersType, ApplyRoomSnapshotType, ClearRoomType
     DEF HandleServerMessage, MessageType

-----------------------------------------------------------------------------
(* The server and what it says.                                            *)

LEMMA ServerRoundType ==
    ASSUME NEW sv \in Server
    PROVE  ServerRound(sv) \in RoundType
BY NoValuesType, BoundAssumption DEF ServerRound, Server, RoundType, Stage

LEMMA MessageTyped ==
    ASSUME NEW sv \in Server, NEW type \in MessageType
    PROVE  /\ Message(sv, type) \in Messages
           /\ \A n \in Nat : [Message(sv, type) EXCEPT !.id = n] \in Messages
           /\ \A n \in Nat : \A b \in BOOLEAN :
                [Message(sv, type) EXCEPT !.id = n, !.stale = b] \in Messages
<1>1. sv.terminal \in TerminalKind
  BY DEF Server
<1>2. ServerRound(sv) \in RoundType
  BY ServerRoundType
<1>3. Message(sv, type) \in Messages
  BY <1>1, <1>2 DEF Message, Messages
<1>4. QED
  BY <1>3 DEF Messages

LEMMA SeqOfMessages ==
    /\ <<>> \in Seq(Messages)
    /\ \A a \in Messages : <<a>> \in Seq(Messages)
    /\ \A a, b \in Messages : <<a, b>> \in Seq(Messages)
    /\ \A p, q \in Seq(Messages) : p \o q \in Seq(Messages)
OBVIOUS

LEMMA PhaseRequestType ==
    ASSUME NEW sv \in Server
    PROVE  PhaseRequest(sv) \in Seq(Messages)
<1>1. /\ <<Message(sv, "ProbeRequested")>> \in Seq(Messages)
      /\ <<Message(sv, "LoadRequested")>> \in Seq(Messages)
      /\ <<Message(sv, "StartScheduled")>> \in Seq(Messages)
  BY MessageTyped, SeqOfMessages DEF MessageType
<1>2. <<>> \in Seq(Messages)
  BY SeqOfMessages
<1>3. QED
  BY <1>1, <1>2 DEF PhaseRequest

LEMMA CancelledType ==
    ASSUME NEW sv \in Server
    PROVE  Cancelled(sv) \in Server
BY DEF Cancelled, Server, TerminalKind

LEMMA HearTerminalType ==
    ASSUME NEW sv \in Server, NEW t \in Terminal
    PROVE  /\ [sv EXCEPT !.heard = @ \cup {t}] \in Server
           /\ [[sv EXCEPT !.heard = @ \cup {t}] EXCEPT !.terminal = t.kind]
                 \in Server
BY DEF Server, Terminal

LEMMA HearType ==
    ASSUME NEW sv \in Server, NEW m \in Answer, NEW accepts \in BOOLEAN
    PROVE  /\ Hear(sv, m, accepts).server \in Server
           /\ Hear(sv, m, accepts).says \in Seq(Messages)
<1>1. /\ [sv EXCEPT !.probed = TRUE] \in Server
      /\ [sv EXCEPT !.loaded = TRUE] \in Server
  BY DEF Server
<1>2. <<Message(sv, "LaunchCancelled")>> \in Seq(Messages)
  BY MessageTyped, SeqOfMessages DEF MessageType
<1>3. <<>> \in Seq(Messages)
  BY SeqOfMessages
<1>4. CASE m.type = "Terminal"
  <2> DEFINE t       == m.terminal
             current == sv.phase # "Selecting" /\ sv.round = t.round
             told    == [sv EXCEPT !.heard = @ \cup {t}]
             heard   == [told EXCEPT !.terminal = t.kind]
             yes     == <<[Message(heard, "Accepted") EXCEPT !.id = t.id],
                          Message(heard, "Standings")>>
             no      == <<[Message(sv, "Refused") EXCEPT
                             !.id = t.id,
                             !.stale = ~current \/ sv.terminal # "None"]>>
             taken   == current /\ sv.terminal = "None" /\ accepts
  <2>1. t \in Terminal /\ t.id \in Nat
    BY <1>4 DEF Answer, Silent, Terminal
  <2>2. told \in Server /\ heard \in Server
    BY <2>1, HearTerminalType
  <2> HIDE DEF heard
  <2>3. yes \in Seq(Messages)
    BY <2>1, <2>2, MessageTyped, SeqOfMessages DEF MessageType
  <2>4. no \in Seq(Messages)
    <3>1. (~current \/ sv.terminal # "None") \in BOOLEAN
      OBVIOUS
    <3>2. QED
      BY <2>1, <3>1, MessageTyped, SeqOfMessages DEF MessageType
  <2>5. Hear(sv, m, accepts)
          = IF taken THEN [server |-> heard, says |-> yes]
                     ELSE [server |-> told, says |-> no]
    BY <1>4 DEF Hear, heard
  <2> HIDE DEF told, yes, no, taken
  <2>6. QED
    BY <2>2, <2>3, <2>4, <2>5
<1>5. CASE m.type # "Terminal"
  BY <1>1, <1>2, <1>3, <1>5, CancelledType DEF Hear
<1>6. QED
  BY <1>4, <1>5

-----------------------------------------------------------------------------
\* The types, of the inbox too, and that a round has been opened if one is on.
TypeInv ==
    /\ TypeOK
    /\ inbox \in Seq(Messages)
    /\ server.round = 0 => server.phase = "Selecting"

LEMMA LaunchedType ==
    ASSUME NEW sv \in Server, sv.round < MaxRounds, NEW mine \in BOOLEAN
    PROVE  [sv EXCEPT !.phase = "Probing", !.round = @ + 1, !.mine = mine,
                      !.probed = FALSE, !.loaded = FALSE,
                      !.terminal = "None"] \in Server
<1>1. sv.round + 1 \in 0..MaxRounds
  BY BoundAssumption DEF Server
<1>2. \A n \in 0..MaxRounds :
        [sv EXCEPT !.phase = "Probing", !.round = n, !.mine = mine,
                   !.probed = FALSE, !.loaded = FALSE,
                   !.terminal = "None"] \in Server
  BY DEF Server, TerminalKind
<1>3. QED
  BY <1>1, <1>2

LEMMA ServerFields ==
    ASSUME NEW sv \in Server,
           NEW phase \in {"Selecting", "Probing", "Loading", "Scheduled",
                          "Playing"}
    PROVE  /\ [sv EXCEPT !.phase = phase] \in Server
           /\ [sv EXCEPT !.terminal = "Dnf"] \in Server
           /\ [sv EXCEPT !.member = TRUE] \in Server
BY DEF Server, TerminalKind

LEMMA UnseatedType ==
    ASSUME NEW sv \in Server
    PROVE  /\ Unseated(sv) \in Server
           /\ Unseated(sv).round = sv.round
           /\ Unseated(sv).phase = sv.phase
BY DEF Server, Unseated

LEMMA ScheduledFields ==
    ASSUME NEW sv \in Server, sv.round # 0
    PROVE  [sv EXCEPT !.phase = "Scheduled",
                      !.scheduled = @ \cup {sv.round}] \in Server
<1>1. sv.scheduled \cup {sv.round} \in SUBSET (1..MaxRounds)
  BY BoundAssumption DEF Server
<1>2. \A rs \in SUBSET (1..MaxRounds) :
        [sv EXCEPT !.phase = "Scheduled", !.scheduled = rs] \in Server
  BY DEF Server
<1>3. QED
  BY <1>1, <1>2

LEMMA SaysType ==
    ASSUME TypeInv, NEW sv \in Server, NEW messages \in Seq(Messages),
           sv.round = 0 => sv.phase = "Selecting", Says(sv, messages)
    PROVE  TypeInv'
BY DEF Says, TypeInv, TypeOK

LEMMA HearRound ==
    ASSUME NEW sv \in Server, NEW m \in Answer, NEW accepts \in BOOLEAN,
           sv.round = 0 => sv.phase = "Selecting"
    PROVE  LET hv == Hear(sv, m, accepts).server
           IN  hv.round = 0 => hv.phase = "Selecting"
<1>1. /\ [sv EXCEPT !.probed = TRUE].round = sv.round
      /\ [sv EXCEPT !.probed = TRUE].phase = sv.phase
      /\ [sv EXCEPT !.loaded = TRUE].round = sv.round
      /\ [sv EXCEPT !.loaded = TRUE].phase = sv.phase
      /\ Cancelled(sv).phase = "Selecting"
  BY DEF Server, Cancelled
<1>2. CASE m.type = "Terminal"
  <2> DEFINE t       == m.terminal
             told    == [sv EXCEPT !.heard = @ \cup {t}]
             heard   == [told EXCEPT !.terminal = t.kind]
  <2>1. /\ told.round = sv.round /\ told.phase = sv.phase
        /\ heard.round = sv.round /\ heard.phase = sv.phase
    BY DEF Server
  <2>2. \/ Hear(sv, m, accepts).server = told
        \/ Hear(sv, m, accepts).server = heard
    BY <1>2 DEF Hear
  <2> HIDE DEF told, heard
  <2>3. QED
    BY <2>1, <2>2
<1>3. CASE m.type # "Terminal"
  BY <1>1, <1>3 DEF Hear
<1>4. QED
  BY <1>2, <1>3

LEMMA BecomesType ==
    ASSUME TypeInv, NEW w \in Session, NEW rest \in Seq(Messages),
           Becomes(w, rest), UNCHANGED <<cuts, seats>>
    PROVE  TypeInv'
<1>1. client' \in Client
  BY SentType DEF Becomes
<1>2. w.out \in Answer
  BY DEF Session
<1>3. /\ server' \in Server
      /\ inbox' \in Seq(Messages)
      /\ link' \in {"Up", "Doomed", "Down"}
      /\ server'.round = 0 => server'.phase = "Selecting"
  <2>1. \A accepts \in BOOLEAN :
           /\ Hear(server, w.out, accepts).server \in Server
           /\ rest \o Hear(server, w.out, accepts).says \in Seq(Messages)
           /\ Hear(server, w.out, accepts).server.round = 0 =>
                Hear(server, w.out, accepts).server.phase = "Selecting"
    BY <1>2, HearType, HearRound, SeqOfMessages DEF TypeInv, TypeOK
  <2>2. <<>> \in Seq(Messages)
    BY SeqOfMessages
  <2>3. QED
    BY <2>1, <2>2 DEF Becomes, TypeInv, TypeOK
<1>4. QED
  BY <1>1, <1>3 DEF TypeInv, TypeOK

LEMMA InitTyped == Init => TypeInv
<1> SUFFICES ASSUME Init PROVE TypeInv
  OBVIOUS
<1>1. client \in Client
  <2>1. {} \in SUBSET Operation /\ {} \in SUBSET Screen
    OBVIOUS
  <2>2. NoTerminal \in Terminal /\ NoTask \in [round : Nat, runner : Nat]
    BY NoValuesType
  <2>3. NoRound \in [id : Nat, stage : Stage, mine : BOOLEAN]
    BY NoValuesType DEF RoundType
  <2>4. QED
    BY <2>1, <2>2, <2>3 DEF Init, Client
<1>2. server \in Server
  BY BoundAssumption DEF Init, Server, TerminalKind
<1>3. inbox \in Seq(Messages)
  BY SeqOfMessages DEF Init
<1>4. QED
  BY <1>1, <1>2, <1>3, BoundAssumption DEF Init, TypeInv, TypeOK

LEMMA ServerTyped ==
    ASSUME TypeInv, ServerNext
    PROVE  TypeInv'
<1>1. /\ client \in Session /\ server \in Server /\ inbox \in Seq(Messages)
      /\ server.round = 0 => server.phase = "Selecting"
  BY ClientIsSession DEF TypeInv, TypeOK
<1>2. \A sv \in Server : \A type \in MessageType :
        <<Message(sv, type)>> \in Seq(Messages)
  BY MessageTyped, SeqOfMessages
<1>3. CASE ServerLaunches
  <2>1. PICK mine \in {FALSE, server.member /\ ScreensSettled} :
          LET sv == [server EXCEPT !.phase = "Probing", !.round = @ + 1,
                                  !.mine = mine, !.probed = FALSE,
                                  !.loaded = FALSE, !.terminal = "None"]
          IN  Says(sv, <<Message(sv, "LoadingStarted")>> \o PhaseRequest(sv))
    BY <1>3 DEF ServerLaunches
  <2> DEFINE sv == [server EXCEPT !.phase = "Probing", !.round = @ + 1,
                                  !.mine = mine, !.probed = FALSE,
                                  !.loaded = FALSE, !.terminal = "None"]
  <2>2. mine \in BOOLEAN /\ server.round < MaxRounds
    BY <1>1, <1>3 DEF ServerLaunches, Server
  <2>3. sv \in Server
    BY <1>1, <2>2, LaunchedType
  <2>4. sv.round = server.round + 1 /\ server.round \in Nat
    BY <1>1, BoundAssumption DEF Server
  <2> HIDE DEF sv
  <2>5. <<Message(sv, "LoadingStarted")>> \o PhaseRequest(sv) \in Seq(Messages)
    BY <1>2, <2>3, PhaseRequestType, SeqOfMessages DEF MessageType
  <2>6. Says(sv, <<Message(sv, "LoadingStarted")>> \o PhaseRequest(sv))
    BY <2>1 DEF sv
  <2>7. sv.round # 0
    BY <2>4
  <2>8. QED
    BY <2>3, <2>5, <2>6, <2>7, SaysType
<1>4. CASE ServerLoads
  <2> DEFINE sv == [server EXCEPT !.phase = "Loading"]
  <2>1. sv \in Server /\ sv.round = server.round
    BY ZenonT(40), <1>1, ServerFields DEF Server
  <2>2. Says(sv, PhaseRequest(sv)) /\ server.round # 0
    BY <1>1, <1>4 DEF ServerLoads
  <2> HIDE DEF sv
  <2>3. QED
    BY <2>1, <2>2, PhaseRequestType, SaysType
<1>5. CASE ServerSchedules
  <2> DEFINE sv == [server EXCEPT !.phase = "Scheduled",
                                  !.scheduled = @ \cup {server.round}]
  <2>1. Says(sv, PhaseRequest(sv)) /\ server.round # 0
    BY <1>1, <1>5 DEF ServerSchedules
  <2>2. sv \in Server /\ sv.round = server.round
    BY <1>1, <2>1, ScheduledFields DEF Server
  <2> HIDE DEF sv
  <2>3. QED
    BY <2>1, <2>2, PhaseRequestType, SaysType
<1>6. CASE ServerStarts
  <2> DEFINE sv == [server EXCEPT !.phase = "Playing"]
  <2>1. sv \in Server /\ sv.round = server.round
    BY ZenonT(40), <1>1, ServerFields DEF Server
  <2>2. Says(sv, <<Message(sv, "Started")>>) /\ server.round # 0
    BY <1>1, <1>6 DEF ServerStarts
  <2> HIDE DEF sv
  <2>3. QED
    BY <1>2, <2>1, <2>2, SaysType DEF MessageType
<1>7. CASE ServerCancels
  <2>1. Cancelled(server) \in Server /\ Cancelled(server).phase = "Selecting"
    BY <1>1, CancelledType DEF Cancelled, Server
  <2>2. QED
    BY <1>1, <1>2, <1>7, <2>1, SaysType DEF MessageType, ServerCancels
<1>8. CASE ServerSettles
  <2> DEFINE sv == [server EXCEPT !.terminal = "Dnf"]
  <2>1. sv \in Server /\ sv.round = server.round
    BY ZenonT(40), <1>1, ServerFields DEF Server
  <2>2. Says(sv, <<Message(sv, "Standings")>>) /\ server.round # 0
    BY <1>1, <1>8 DEF ServerSettles
  <2> HIDE DEF sv
  <2>3. QED
    BY <1>2, <2>1, <2>2, SaysType DEF MessageType
<1>9. CASE ServerFinalizes
  <2> DEFINE sv == [server EXCEPT !.phase = "Selecting"]
  <2>1. sv \in Server /\ sv.phase = "Selecting"
    BY ZenonT(40), <1>1, ServerFields DEF Server
  <2>2. Says(sv, <<Message(server, "Finalized")>>)
    BY <1>9 DEF ServerFinalizes
  <2> HIDE DEF sv
  <2>3. QED
    BY <1>1, <1>2, <2>1, <2>2, SaysType DEF MessageType
<1>10. CASE ServerRemoves
  <2>1. /\ Unseated(server) \in Server
        /\ Unseated(server).round = server.round
        /\ Unseated(server).phase = server.phase
    BY <1>1, UnseatedType
  <2>2. Append(inbox, Message(server, "Removed")) \in Seq(Messages)
    <3>1. Message(server, "Removed") \in Messages
      BY <1>1, MessageTyped DEF MessageType
    <3>2. QED
      BY <1>1, <3>1
  <2>3. inbox' \in Seq(Messages) /\ server' = Unseated(server)
    BY <1>1, <1>10, <2>2 DEF ServerRemoves
  <2>4. QED
    BY <1>1, <1>10, <2>1, <2>3 DEF ServerRemoves, TypeInv, TypeOK
<1>11. QED
  BY <1>3, <1>4, <1>5, <1>6, <1>7, <1>8, <1>9, <1>10 DEF ServerNext

LEMMA LinkTyped ==
    ASSUME TypeInv, LinkNext
    PROVE  TypeInv'
<1>1. /\ client \in Session /\ client \in Client
      /\ server \in Server /\ inbox \in Seq(Messages)
      /\ server.round = 0 => server.phase = "Selecting"
  BY ClientIsSession DEF TypeInv, TypeOK
<1>2. <<Message(server, "RoomSnapshot")>> \in Seq(Messages)
  BY <1>1, MessageTyped, SeqOfMessages DEF MessageType
<1>3. /\ Unseated(server) \in Server
      /\ Unseated(server).round = server.round
      /\ Unseated(server).phase = server.phase
  BY <1>1, UnseatedType
<1>4. CASE Receive
  <2>1. Head(inbox) \in Messages /\ Tail(inbox) \in Seq(Messages)
    BY <1>1, <1>4 DEF Receive
  <2>2. PICK attaches \in BOOLEAN :
          Becomes(HandleServerMessage(client, Head(inbox), attaches), Tail(inbox))
    BY <1>4 DEF Receive
  <2>3. HandleServerMessage(client, Head(inbox), attaches) \in Session
    BY <1>1, <2>1, HandleServerMessageType
  <2>4. UNCHANGED <<cuts, seats>>
    BY <1>4 DEF Receive
  <2>5. QED
    BY <2>1, <2>2, <2>3, <2>4, BecomesType
<1>5. CASE Enter
  <2>1. seats' \in 0..MaxSeats
    BY <1>5, BoundAssumption DEF Enter, TypeInv, TypeOK
  <2>2. [server EXCEPT !.member = TRUE] \in Server
    BY <1>1, ServerFields
  <2>3. /\ server'.round = server.round
        /\ server'.phase = server.phase
    BY <1>1, <1>5 DEF Enter, Server
  <2>4. QED
    BY <1>1, <1>2, <1>5, <2>1, <2>2, <2>3 DEF Enter, TypeInv, TypeOK
<1>6. CASE Cut
  <2>1. cuts' \in 0..MaxCuts
    BY <1>6, BoundAssumption DEF Cut, TypeInv, TypeOK
  <2>2. BeginReconnect(client) \in Client
    <3>1. \A w \in Session : w.out = Silent => w = [w EXCEPT !.out = Silent]
      BY DEF Session
    <3>2. BeginReconnect(client) \in Session
      BY <1>1, BeginReconnectType
    <3>3. BeginReconnect(client).out = client.out
      BY <1>1, <3>2 DEF BeginReconnect, ClearRoundTransfers, CancelPreparedRound,
           CancelRoundLoader, CancelOp, CloseGameplay, DetachGameplaySource,
           StopTelemetrySampling, Client
    <3>4. client.out = Silent
      BY <1>1 DEF Client
    <3>5. QED
      BY <3>1, <3>2, <3>3, <3>4, SentType
  <2>3. <<>> \in Seq(Messages)
    BY SeqOfMessages
  <2>4. QED
    BY <1>1, <1>6, <2>1, <2>2, <2>3 DEF Cut, TypeInv, TypeOK
<1>7. CASE Resume
  <2>1. <<Message(server, "RoomSnapshot")>> \o PhaseRequest(server) \in Seq(Messages)
    BY <1>1, <1>2, PhaseRequestType, SeqOfMessages
  <2>2. QED
    BY <1>1, <1>7, <2>1 DEF Resume, TypeInv, TypeOK
<1>8. CASE SeatLost
  <2>1. ClearRoom(client) \in Client
    <3>1. \A w \in Session : w.out = Silent => w = [w EXCEPT !.out = Silent]
      BY DEF Session
    <3>2. ClearRoom(client) \in Session
      BY <1>1, ClearRoomType
    <3>3. ClearRoom(client).out = client.out
      BY <1>1 DEF ClearRoom, ClearActiveCompetitionRound, ClearTerminal,
           CancelPreparedRound, CancelRoundLoader, CancelOp, CloseGameplay,
           DetachGameplaySource, StopTelemetrySampling, Client
    <3>4. client.out = Silent
      BY <1>1 DEF Client
    <3>5. QED
      BY <3>1, <3>2, <3>3, <3>4, SentType
  <2>2. QED
    BY <1>1, <1>3, <1>8, <2>1 DEF SeatLost, TypeInv, TypeOK
<1>9. QED
  BY <1>4, <1>5, <1>6, <1>7, <1>8 DEF LinkNext

LEMMA FinishType ==
    ASSUME NEW w \in Session, NEW r
    PROVE  Finish(w, r) \in Session
<1> DEFINE F(s) == IF s.req = r THEN [s EXCEPT !.ended = TRUE] ELSE s
           q == {F(s) : s \in w.screens}
           v == [w EXCEPT !.screens = q]
<1>1. w.screens \subseteq Screen
  BY DEF Session
<1>2. \A s \in Screen : F(s) \in Screen
  BY DEF Screen
<1>3. q \in SUBSET Screen
  BY <1>1, <1>2
<1> HIDE DEF q
<1>4. v \in Session
  BY SMTT(30), <1>3 DEF Session
<1> HIDE DEF v
<1>5. SetOp(v, r, "Finished", FALSE) \in Session
  BY <1>4, SetOpType DEF OpStatus
<1>6. QED
  BY <1>5, TelemetryType DEF Finish, v, q

LEMMA ExposePreparedType ==
    ASSUME NEW w \in Session, NEW r \in Nat \ {0}, NEW opens
    PROVE  ExposePrepared(w, r, opens) \in Session
<1>1. [w EXCEPT !.bound = r] \in Session
  BY DEF Session
<1>2. [req |-> r, ended |-> FALSE, done |-> FALSE, leaving |-> FALSE]
         \in Screen
  BY DEF Screen
<1>3. QED
  BY <1>1, <1>2, SetScreenType, ReportPreparedRoundType,
     AbandonCurrentRoundType DEF ExposePrepared

LEMMA AnswerFields ==
    ASSUME NEW w \in Session, NEW n \in Nat, NEW b \in BOOLEAN,
           NEW p \in Nat
    PROVE  /\ [w EXCEPT !.req = 0, !.op = "None", !.probe = 0] \in Session
           /\ [w EXCEPT !.req = 0, !.op = "None", !.loadRound = 0,
                        !.prepared = 0] \in Session
           /\ [w EXCEPT !.prepared = p, !.exposed = b] \in Session
           /\ [type |-> "ProbeResult", round |-> n, ok |-> b] \in Answer
           /\ [type |-> "LoadResult", ok |-> b, round |-> n] \in Answer
<1>1. /\ [w EXCEPT !.req = 0, !.op = "None", !.probe = 0] \in Session
      /\ [w EXCEPT !.req = 0, !.op = "None", !.loadRound = 0,
                   !.prepared = 0] \in Session
      /\ [w EXCEPT !.prepared = p, !.exposed = b] \in Session
  BY ZenonT(40) DEF Session
<1>2. QED
  BY <1>1 DEF Answer

LEMMA PlayerTyped ==
    ASSUME TypeInv, PlayerNext
    PROVE  TypeInv'
<1>1. /\ client \in Session /\ inbox \in Seq(Messages)
      /\ \A o \in client.ops : o \in Operation
      /\ \A s \in client.screens : s \in Screen
      /\ client.probe \in Nat /\ client.loadRound \in Nat
  <2>1. client \in Session /\ inbox \in Seq(Messages)
    BY ClientIsSession DEF TypeInv, TypeOK
  <2>2. QED
    BY <2>1 DEF Session
<1> SUFFICES ASSUME NEW w \in Session, Moves(w)
             PROVE  TypeInv'
  <2>1. \A o \in client.ops : \A opens \in BOOLEAN :
          LET ready == SetOp(client, o.req, "Ready", FALSE)
          IN  (IF /\ client.req = o.req
                  /\ client.op = "Load"
                  /\ client.loadRound # 0
                  /\ client.prepared = 0
                 THEN ExposePrepared([ready EXCEPT !.prepared = o.req,
                                                   !.exposed = TRUE],
                                     o.req, opens)
                 ELSE ready) \in Session
    <3> TAKE o \in client.ops
    <3> TAKE opens \in BOOLEAN
    <3> DEFINE ready == SetOp(client, o.req, "Ready", FALSE)
    <3>1. o.req \in Nat \ {0} /\ o.req \in Nat
      BY <1>1 DEF Operation
    <3>2. ready \in Session
      BY <1>1, SetOpType DEF OpStatus
    <3> HIDE DEF ready
    <3>3. [ready EXCEPT !.prepared = o.req, !.exposed = TRUE] \in Session
      BY <3>1, <3>2, AnswerFields
    <3>4. QED
      BY <3>1, <3>2, <3>3, ExposePreparedType DEF ready
  <2>2. \A o \in client.ops : CancelOp(client, o.req) \in Session
    BY <1>1, CancelOpType
  <2>3. CASE ProbeDone
    <3>1. PICK o \in client.ops : \E ok \in BOOLEAN :
            LET gone == CancelOp(client, o.req)
            IN  Moves(IF client.req = o.req /\ client.op = "Probe"
                        THEN Send([gone EXCEPT !.req = 0, !.op = "None",
                                               !.probe = 0],
                                  [type |-> "ProbeResult",
                                   round |-> client.probe, ok |-> ok])
                        ELSE gone)
      BY <2>3 DEF ProbeDone
    <3> DEFINE gone == CancelOp(client, o.req)
    <3>2. gone \in Session
      BY <2>2
    <3> HIDE DEF gone
    <3>3. \A ok \in BOOLEAN :
            Send([gone EXCEPT !.req = 0, !.op = "None", !.probe = 0],
                 [type |-> "ProbeResult", round |-> client.probe, ok |-> ok])
               \in Session
      BY <1>1, <3>2, AnswerFields, SendType
    <3>4. QED
      BY <3>1, <3>2, <3>3 DEF gone
  <2>4. CASE LoadDone
    BY <2>1, <2>4 DEF LoadDone
  <2>5. CASE LoadFails
    <3>1. PICK o \in client.ops :
            LET gone == CancelOp(client, o.req)
            IN  Moves(IF /\ client.req = o.req
                         /\ client.op = "Load"
                         /\ client.loadRound # 0
                        THEN LET failed == [gone EXCEPT !.req = 0, !.op = "None",
                                              !.loadRound = 0, !.prepared = 0]
                             IN  IF client.round.mine
                                   THEN Send([failed EXCEPT !.loadSent = TRUE],
                                             [type |-> "LoadResult", ok |-> FALSE,
                                              round |-> client.loadRound])
                                   ELSE failed
                        ELSE gone)
      BY <2>5 DEF LoadFails
    <3> DEFINE gone == CancelOp(client, o.req)
               failed == [gone EXCEPT !.req = 0, !.op = "None",
                                      !.loadRound = 0, !.prepared = 0]
    <3>2. gone \in Session
      BY <2>2
    <3> HIDE DEF gone
    <3>3. failed \in Session
      BY <3>2, AnswerFields
    <3> HIDE DEF failed
    <3>4. Send([failed EXCEPT !.loadSent = TRUE],
               [type |-> "LoadResult", ok |-> FALSE,
                round |-> client.loadRound]) \in Session
      BY <1>1, <3>3, AnswerFields, LoaderFields, SendType
    <3>5. QED
      BY <3>1, <3>2, <3>3, <3>4 DEF gone, failed
  <2>6. CASE ScreenStarts
    <3>1. \A s \in client.screens : SetOp(client, s.req, "Ready", TRUE) \in Session
      BY <1>1, SetOpType DEF OpStatus
    <3>2. QED
      BY <2>6, <3>1, ReportPreparedRoundType DEF ScreenStarts
  <2>7. CASE StartTaskFires
    <3> DEFINE fired == [client EXCEPT !.start = NoTask]
    <3>1. fired \in Session
      BY <1>1, LoaderFields
    <3> HIDE DEF fired
    <3>2. StartTelemetrySampling(
             SetOp(fired, client.start.runner, "Running", FALSE)) \in Session
      BY <3>1, SetOpType, TelemetryType DEF OpStatus
    <3>3. QED
      BY <2>7, <3>1, <3>2, LoaderFields DEF StartTaskFires, fired
  <2>8. CASE RunnerEnds
    BY <1>1, <2>8, FinishType DEF RunnerEnds
  <2>9. CASE ScreenPresentsResult
    <3>1. PICK s \in client.screens, captured \in BOOLEAN :
            /\ OpsOf(client, s.req) # {}
            /\ Moves(SubmitLocalResult(
                       SetScreen(Finish(client, s.req), s.req,
                                 [s EXCEPT !.ended = TRUE, !.done = TRUE]),
                       s.req, captured))
      BY <2>9 DEF ScreenPresentsResult
    <3> DEFINE ended == Finish(client, s.req)
               shown == SetScreen(ended, s.req,
                                  [s EXCEPT !.ended = TRUE, !.done = TRUE])
    <3>2. s \in Screen /\ s.req \in Nat
      BY <1>1 DEF Screen
    <3>3. [s EXCEPT !.ended = TRUE, !.done = TRUE] \in Screen
      BY <3>2 DEF Screen
    <3>4. ended \in Session
      BY <1>1, FinishType
    <3>5. shown \in Session
      BY <3>3, <3>4, SetScreenType
    <3>6. OpsOf(shown, s.req) # {}
      <4>1. PICK o \in client.ops : o.req = s.req
        BY <3>1 DEF OpsOf
      <4>2. o \in Operation
        BY <1>1
      <4> DEFINE p == [o EXCEPT !.status = "Finished", !.pending = FALSE]
      <4>3. p.req = s.req
        BY <4>1, <4>2 DEF Operation
      <4>4. ended.ops = {IF x.req = s.req
                           THEN [x EXCEPT !.status = "Finished",
                                          !.pending = FALSE]
                           ELSE x : x \in client.ops}
        BY <1>1 DEF Finish, SetOp, StopTelemetrySampling, Session
      <4>5. p \in ended.ops
        BY <4>1, <4>4
      <4> HIDE DEF p, ended
      <4>6. shown.ops = ended.ops
        BY <3>4 DEF SetScreen, Session
      <4>7. QED
        BY <4>3, <4>5, <4>6 DEF OpsOf
    <3> HIDE DEF shown
    <3>7. SubmitLocalResult(shown, s.req, captured) \in Session
      BY <3>2, <3>5, <3>6, SubmitLocalResultType
    <3>8. QED
      BY <3>1, <3>7 DEF shown
  <2>10. CASE PlayerAbandons
    BY <1>1, <2>10, AbandonCurrentRoundType DEF PlayerAbandons
  <2>11. CASE ScreenRemoved
    <3>1. PICK s \in client.screens :
            LET gone == [client EXCEPT !.screens = @ \ {s},
                           !.bound = IF @ = s.req THEN 0 ELSE @]
            IN  Moves(IF OpsOf(client, s.req) = {}
                        THEN gone
                        ELSE ReleasePreparedGameplay(gone, s.req))
      BY <2>11 DEF ScreenRemoved
    <3> DEFINE gone == [client EXCEPT !.screens = @ \ {s},
                          !.bound = IF @ = s.req THEN 0 ELSE @]
    <3>2. gone \in Session
      BY ZenonT(40), <1>1 DEF Session
    <3> HIDE DEF gone
    <3>3. QED
      BY <3>1, <3>2, ReleasePreparedGameplayType DEF gone
  <2>12. QED
    BY <2>3, <2>4, <2>5, <2>6, <2>7, <2>8, <2>9, <2>10, <2>11 DEF PlayerNext
<1>2. Becomes(w, inbox) /\ UNCHANGED <<cuts, seats>>
  BY DEF Moves
<1>3. QED
  BY <1>1, <1>2, BecomesType

\* Every step keeps the types.
LEMMA TypedStep ==
    ASSUME TypeInv, [Next]_vars
    PROVE  TypeInv'
<1>1. CASE UNCHANGED vars
  BY <1>1 DEF vars, TypeInv, TypeOK
<1>2. CASE Next
  BY <1>2, ServerTyped, LinkTyped, PlayerTyped DEF Next
<1>3. QED
  BY <1>1, <1>2

LEMMA AlwaysTyped == Spec => []TypeInv
BY InitTyped, TypedStep, PTL DEF Spec

\* The session, the server, the link and every bound keep to their types
\* (the fields of ArenaSession, src/src/arena/ArenaSession.cpp:2556 and on).
THEOREM TypeCorrect == Spec => []TypeOK
<1>1. TypeInv => TypeOK
  BY DEF TypeInv
<1>2. QED
  BY <1>1, AlwaysTyped, PTL

-----------------------------------------------------------------------------
(* The inductive invariant: the part about the session alone.              *)

\* The order in which a round goes through its stages.
Rank(stage) ==
    CASE stage = "None"      -> 0
      [] stage = "Probing"   -> 1
      [] stage = "Loading"   -> 2
      [] stage = "Scheduled" -> 3
      [] stage = "Playing"   -> 4

\* No round has no stage.
WholeRound(r) == (r.id = 0 => r = NoRound) /\ (r.stage = "None" => r.id = 0)

\* A gameplay screen shows the runner of request r.
HasScreen(w, r) == \E s \in w.screens : s.req = r

\* The prepared runner waits for its start, and the server may be told.
LoadedUp(w) ==
    /\ w.prepared # 0
    /\ w.exposed
    /\ Status(w, w.prepared) = "Ready"
    /\ Pending(w, w.prepared)

\* The operations of the round loader are distinct, the session can cancel
\* each that it has not forgotten, and one that has been played has a screen.
OpsWhole(w) ==
    /\ \A o, p \in w.ops : o.req = p.req => o = p
    /\ \A o \in w.ops :
         /\ o.req < w.nextReq
         /\ o.req \in {w.req, w.keptReq} \cup w.forgotten
         /\ o.status = "Working" => o.req = w.req
         /\ o.req = w.req => o.kind = w.op
         /\ o.kind = "Probe" => o.status = "Working"
         /\ o.status \in {"Running", "Finished"} =>
              HasScreen(w, o.req) \/ o.req \notin {w.req, w.keptReq}
         /\ HasScreen(w, o.req) => o.kind = "Load"
    /\ \A s \in w.screens : s.req < w.nextReq
    /\ w.req < w.nextReq
    /\ w.keptReq < w.nextReq

\* The current request is of the current round, and what it prepared is alive.
RequestWhole(w) ==
    /\ (w.req = 0) <=> (w.op = "None")
    /\ w.op # "None" => w.round.mine
    /\ w.op = "Probe" => w.probe = w.round.id /\ w.state = "InRoom"
    /\ w.op # "Load" => w.prepared = 0 /\ w.loadRound = 0
    /\ w.op = "Load" =>
         /\ w.loadRound = w.round.id
         /\ w.round.stage # "Probing"
         /\ \E o \in w.ops : /\ o.req = w.req
                             /\ o.round = w.round.id
                             /\ (o.status = "Working") <=> (w.prepared = 0)
    /\ w.op = "Load" /\ w.prepared = 0 => w.state = "InRoom"
    /\ w.prepared \in {0, w.req}

\* A start waits only for a prepared runner of a seated player who has sent no
\* terminal, and telemetry comes only from a runner that plays.
PlayWhole(w) ==
    /\ w.exposed => w.prepared # 0
    /\ w.exposed /\ Pending(w, w.prepared) => HasScreen(w, w.prepared)
    /\ w.source # 0 => w.source = w.prepared /\ w.guid = w.source
    /\ w.prepared # 0 /\ Status(w, w.prepared) \in {"Running", "Finished"} =>
          w.round.stage \in {"Scheduled", "Playing"}
    /\ w.start # NoTask =>
          /\ w.state = "InRoom"
          /\ w.start = [round |-> w.round.id, runner |-> w.prepared]
          /\ LoadedUp(w)
          /\ w.round.stage \in {"Scheduled", "Playing"}
          /\ ~w.submitted
    /\ w.sampling => /\ w.source # 0
                     /\ Status(w, w.source) = "Running"
                     /\ ~w.submitted

\* No round, or one the player does not play.
Watched(r) == ~r.mine

\* A runner is retained only while the player plays no round, and it is loaded.
RetainedWhole(w) ==
    /\ w.keptReq = w.retained
    /\ w.retained # 0 =>
         /\ Watched(w.round)
         /\ \E o \in w.ops : o.req = w.retained /\ o.status # "Working"

\* A terminal is of the current round, and so is what the session remembers of
\* having sent one.
RoundWhole(w) ==
    /\ WholeRound(w.round)
    /\ w.phase = PhaseOf(w.round.stage)
    /\ w.state = "Out" => w.round.id = 0
    /\ w.abandoned => w.submitted
    /\ w.terminal.kind # "None" =>
         /\ w.submitted
         /\ w.round.mine
         /\ w.terminal.round = w.round.id
         /\ w.terminal.kind = "Result" => w.terminal.chart = w.round.id
    /\ w.submitted => w.round.stage # "Probing"
    /\ w.submitted /\ w.round.stage = "Loading" => w.abandoned
    /\ w.submitted /\ ~w.abandoned /\ w.round.stage = "Scheduled" =>
          Status(w, w.prepared) # "Ready"
    /\ w.abandoned \/ w.round.stage \in {"Scheduled", "Playing"} =>
          w.prepared = w.req

\* A runner has one screen.  While it waits for its start, the screen is the one
\* the session knows of, or is on its way out.
Tidy(w) ==
    /\ \A s, t \in w.screens : s.req = t.req => s = t
    /\ \A s \in w.screens : \A o \in w.ops : o.req = s.req =>
         /\ o.status # "Working"
         /\ o.status = "Ready" =>
              /\ ~s.ended
              /\ s.leaving \/ (o.req = w.req /\ s.req = w.bound /\ w.exposed)
    /\ w.req # 0 => \A s \in w.screens : s.req <= w.req

\* What holds of the session between any two handlers.
Local(w) ==
    OpsWhole(w) /\ RequestWhole(w) /\ PlayWhole(w) /\ RetainedWhole(w) /\ RoundWhole(w)

\* The player has sent its terminal, or its chart has started: a verdict of the
\* server finds nothing left to start.
Quiet(w) ==
    \/ w.submitted
    \/ /\ w.round.stage \in {"Scheduled", "Playing"}
       /\ Status(w, w.prepared) # "Ready"

\* What the server may rely on once the session has answered a load request.
Fit(w) ==
    /\ w.round.stage # "Probing"
    /\ w.round.stage = "Loading" /\ ~w.abandoned => LoadedUp(w)

\* What is sent is true when it is sent.
OutFits(w) ==
    /\ w.out.type = "Terminal" =>
         /\ w.out.terminal = w.terminal
         /\ w.terminal.kind # "None"
         /\ w.round.stage = "Playing" \/ w.terminal.kind = "Dnf"
    /\ w.out.type = "ProbeResult" => w.out.round = w.round.id /\ w.round.mine
    /\ w.out.type = "LoadResult" =>
         /\ w.out.round = w.round.id
         /\ w.round.mine
         /\ w.out.ok => w.round.stage = "Loading" /\ LoadedUp(w)

\* What a step that stays in the round keeps.
Stay(w, u) ==
    /\ u.round.id = w.round.id
    /\ u.round.mine = w.round.mine
    /\ Rank(w.round.stage) <= Rank(u.round.stage)
    /\ w.submitted => u.submitted
    /\ w.abandoned => u.abandoned \/ u.round.stage = "Playing"
    /\ w.submitted => u.terminal \in {w.terminal, NoTerminal}
    /\ Quiet(w) => Quiet(u)
    /\ Fit(w) /\ w.round.mine => Fit(u)
    /\ u.retained \in {0, w.retained}

\* No runner begins.
RunningKept(w, u) ==
    \A p \in u.ops : p.status = "Running" =>
        \E o \in w.ops : o.req = p.req /\ o.status = "Running"

\* A step that keeps the seat, the round and what the session knows.
Sound(w, u) ==
    /\ Local(u)
    /\ Stay(w, u)
    /\ u.state = w.state
    /\ OutFits(u)
    /\ RunningKept(w, u)

-----------------------------------------------------------------------------
(* Relations between the parts of two sessions.                            *)

KeepsSeat(w, u) == u.state = w.state /\ u.phase = w.phase /\ u.round = w.round

KeepsVerdict(w, u) ==
    /\ u.terminal = w.terminal
    /\ u.abandoned = w.abandoned
    /\ u.submitted = w.submitted

KeepsRetained(w, u) ==
    /\ u.retained = w.retained
    /\ u.keptReq = w.keptReq
    /\ u.forgotten = w.forgotten
    /\ u.nextReq = w.nextReq

KeepsRequest(w, u) ==
    /\ u.req = w.req
    /\ u.op = w.op
    /\ u.probe = w.probe
    /\ u.loadRound = w.loadRound
    /\ u.prepared = w.prepared

KeepsScreens(w, u) == \A r : HasScreen(u, r) <=> HasScreen(w, r)

KeepsOthers(w, u) ==
    /\ \A r : HasScreen(u, r) => HasScreen(w, r)
    /\ \A r : r # w.req /\ HasScreen(w, r) => HasScreen(u, r)

KeepsPlay(w, u) ==
    /\ u.exposed = w.exposed
    /\ u.start = w.start
    /\ u.source = w.source
    /\ u.guid = w.guid
    /\ u.sampling = w.sampling

SaysTerminal(u) == u.out.type = "Terminal" /\ u.out.terminal = u.terminal

\* Nothing is loading, prepared or sampled.
Idle(u) ==
    /\ u.req = 0
    /\ u.op = "None"
    /\ u.loadRound = 0
    /\ u.prepared = 0
    /\ u.exposed = FALSE
    /\ u.start = NoTask
    /\ u.source = 0
    /\ u.sampling = FALSE

-----------------------------------------------------------------------------
(* What the helpers do, field by field.                                    *)

LEMMA RankNat ==
    ASSUME NEW stage \in Stage
    PROVE  Rank(stage) \in 0..4
BY DEF Stage, Rank

LEMMA CloseGameplayDoes ==
    ASSUME NEW w \in Session
    PROVE  LET u == CloseGameplay(w)
           IN  /\ KeepsSeat(w, u) /\ KeepsVerdict(w, u) /\ KeepsRetained(w, u)
               /\ KeepsRequest(w, u) /\ KeepsPlay(w, u) /\ KeepsScreens(w, u)
               /\ u.ops = w.ops /\ u.out = w.out
<1> DEFINE F(s) == IF s.req = w.bound /\ OnTop(w, s) /\ ~s.ended
                     THEN [s EXCEPT !.leaving = TRUE] ELSE s
           q == {F(s) : s \in w.screens}
           u == [w EXCEPT !.bound = 0, !.screens = q]
<1>1. u = CloseGameplay(w)
  BY DEF CloseGameplay
<1>2. \A s \in w.screens : F(s).req = s.req
  <2>1. w.screens \subseteq Screen
    BY DEF Session
  <2>2. \A s \in Screen : F(s).req = s.req
    BY DEF Screen
  <2>3. QED
    BY <2>1, <2>2
<1>3. \A r : (\E t \in q : t.req = r) <=> (\E s \in w.screens : s.req = r)
  BY <1>2
<1> HIDE DEF q
<1>4. u.screens = q
  BY DEF Session
<1>5. KeepsScreens(w, u)
  BY <1>3, <1>4 DEF KeepsScreens, HasScreen
<1>6. /\ KeepsSeat(w, u) /\ KeepsVerdict(w, u) /\ KeepsRetained(w, u)
      /\ KeepsRequest(w, u) /\ KeepsPlay(w, u)
      /\ u.ops = w.ops /\ u.out = w.out
  BY DEF Session, KeepsSeat, KeepsVerdict, KeepsRetained, KeepsRequest,
         KeepsPlay
<1> HIDE DEF u
<1>7. QED
  BY <1>1, <1>5, <1>6

LEMMA CancelRoundLoaderDoes ==
    ASSUME NEW w \in Session
    PROVE  LET u == CancelRoundLoader(w)
           IN  /\ KeepsSeat(w, u) /\ KeepsVerdict(w, u) /\ KeepsRetained(w, u)
               /\ KeepsPlay(w, u) /\ KeepsScreens(w, u)
               /\ u.req = 0 /\ u.op = "None" /\ u.probe = 0 /\ u.loadRound = 0
               /\ u.prepared = w.prepared
               /\ u.ops = {o \in w.ops : o.req # w.req}
               /\ u.out = w.out
BY DEF Session, KeepsSeat, KeepsVerdict, KeepsRetained, KeepsPlay, KeepsScreens,
       HasScreen, CancelRoundLoader, CancelOp

LEMMA CancelPreparedRoundDoes ==
    ASSUME NEW w \in Session, NEW keepGuid \in BOOLEAN
    PROVE  LET u == CancelPreparedRound(w, keepGuid)
           IN  /\ KeepsSeat(w, u) /\ KeepsVerdict(w, u) /\ KeepsRetained(w, u)
               /\ Idle(u) /\ KeepsScreens(w, u)
               /\ u.ops = {o \in w.ops : o.req # w.req}
               /\ u.out = w.out
<1> DEFINE stopped == DetachGameplaySource(StopTelemetrySampling(w), keepGuid)
           cleared == [stopped EXCEPT !.start = NoTask, !.prepared = 0,
                                      !.exposed = FALSE, !.announced = FALSE]
           closed  == IF w.exposed THEN CloseGameplay(cleared) ELSE cleared
           ended   == CancelRoundLoader(closed)
           u       == [ended EXCEPT !.loadSent = FALSE]
<1>1. stopped \in Session
  BY TelemetryType, DetachGameplaySourceType
<1>2. /\ KeepsSeat(w, stopped) /\ KeepsVerdict(w, stopped)
      /\ KeepsRetained(w, stopped) /\ KeepsRequest(w, stopped)
      /\ stopped.screens = w.screens /\ stopped.ops = w.ops
      /\ stopped.source = 0 /\ stopped.sampling = FALSE
      /\ stopped.out = w.out
  BY DEF DetachGameplaySource, StopTelemetrySampling, Session, KeepsSeat,
         KeepsVerdict, KeepsRetained, KeepsRequest
<1> HIDE DEF stopped
<1>3. cleared \in Session
  BY <1>1, LoaderFields
<1>4. /\ KeepsSeat(w, cleared) /\ KeepsVerdict(w, cleared)
      /\ KeepsRetained(w, cleared)
      /\ cleared.screens = w.screens /\ cleared.ops = w.ops
      /\ cleared.source = 0 /\ cleared.sampling = FALSE
      /\ cleared.start = NoTask /\ cleared.prepared = 0
      /\ cleared.exposed = FALSE /\ cleared.req = w.req
      /\ cleared.out = w.out
  BY <1>1, <1>2 DEF Session, KeepsSeat, KeepsVerdict, KeepsRetained,
         KeepsRequest
<1> HIDE DEF cleared
<1>5. closed \in Session
  BY <1>3, CloseGameplayType
<1>6. /\ KeepsSeat(w, closed) /\ KeepsVerdict(w, closed)
      /\ KeepsRetained(w, closed)
      /\ KeepsScreens(w, closed) /\ closed.ops = w.ops
      /\ closed.source = 0 /\ closed.sampling = FALSE
      /\ closed.start = NoTask /\ closed.prepared = 0
      /\ closed.exposed = FALSE /\ closed.req = w.req
      /\ closed.out = w.out
  <2>1. CASE w.exposed
    <3>1. closed = CloseGameplay(cleared)
      BY <2>1
    <3> HIDE DEF closed
    <3>2. QED
      BY <1>3, <1>4, <3>1, CloseGameplayDoes
         DEF KeepsSeat, KeepsVerdict, KeepsRetained, KeepsRequest, KeepsPlay,
             KeepsScreens, HasScreen
  <2>2. CASE ~w.exposed
    <3>1. closed = cleared
      BY <2>2
    <3> HIDE DEF closed
    <3>2. QED
      BY <1>4, <3>1 DEF KeepsScreens, HasScreen
  <2>3. QED
    BY <2>1, <2>2
<1> HIDE DEF closed
<1>7. ended \in Session
  BY <1>5, CancelRoundLoaderType
<1>8. /\ KeepsSeat(w, ended) /\ KeepsVerdict(w, ended)
      /\ KeepsRetained(w, ended) /\ KeepsScreens(w, ended)
      /\ Idle(ended) /\ ended.ops = {o \in w.ops : o.req # w.req}
      /\ ended.out = w.out
  BY <1>5, <1>6, CancelRoundLoaderDoes
     DEF KeepsSeat, KeepsVerdict, KeepsRetained, KeepsPlay, KeepsScreens, Idle
<1> HIDE DEF ended
<1>9. /\ KeepsSeat(w, u) /\ KeepsVerdict(w, u)
      /\ KeepsRetained(w, u) /\ KeepsScreens(w, u)
      /\ Idle(u) /\ u.ops = {o \in w.ops : o.req # w.req}
      /\ u.out = w.out
  BY <1>7, <1>8 DEF Session, KeepsSeat, KeepsVerdict, KeepsRetained,
         KeepsScreens, HasScreen, Idle
<1>10. CancelPreparedRound(w, keepGuid) = u
  BY DEF CancelPreparedRound, ended, closed, cleared, stopped
<1>11. QED
  BY <1>9, <1>10

LEMMA RetainPreparedGameplayDoes ==
    ASSUME NEW w \in Session
    PROVE  LET u == RetainPreparedGameplay(w)
           IN  /\ KeepsSeat(w, u) /\ KeepsVerdict(w, u)
               /\ Idle(u) /\ KeepsScreens(w, u)
               /\ u.retained = w.prepared /\ u.keptReq = w.req
               /\ u.forgotten = ForgottenAfter(w)
               /\ u.nextReq = w.nextReq
               /\ u.ops = w.ops
               /\ u.out = w.out
<1> DEFINE stopped == DetachGameplaySource(StopTelemetrySampling(w), FALSE)
           moved   == [stopped EXCEPT
                         !.start = NoTask, !.retained = w.prepared,
                         !.forgotten = ForgottenAfter(w),
                         !.keptReq = w.req, !.req = 0, !.op = "None",
                         !.probe = 0, !.loadRound = 0, !.prepared = 0,
                         !.exposed = FALSE, !.announced = FALSE,
                         !.loadSent = FALSE]
           u == IF w.exposed THEN CloseGameplay(moved) ELSE moved
<1>1. stopped \in Session
  BY TelemetryType, DetachGameplaySourceType
<1>2. /\ KeepsSeat(w, stopped) /\ KeepsVerdict(w, stopped)
      /\ stopped.nextReq = w.nextReq
      /\ stopped.screens = w.screens /\ stopped.ops = w.ops
      /\ stopped.source = 0 /\ stopped.sampling = FALSE
      /\ stopped.out = w.out
  BY DEF DetachGameplaySource, StopTelemetrySampling, Session, KeepsSeat,
         KeepsVerdict
<1> HIDE DEF stopped
<1>3. moved \in Session
  <2>1. w.prepared \in Nat /\ w.req \in Nat
    BY DEF Session
  <2>2. ForgottenAfter(w) \in SUBSET Nat
    BY DEF Session, ForgottenAfter
  <2>3. QED
    BY <1>1, <2>1, <2>2, RetainFields
<1>4. /\ KeepsSeat(w, moved) /\ KeepsVerdict(w, moved)
      /\ Idle(moved) /\ moved.screens = w.screens
      /\ moved.retained = w.prepared /\ moved.keptReq = w.req
      /\ moved.forgotten = ForgottenAfter(w)
      /\ moved.nextReq = w.nextReq /\ moved.ops = w.ops
      /\ moved.out = w.out
  BY <1>1, <1>2 DEF Session, KeepsSeat, KeepsVerdict, Idle
<1> HIDE DEF moved
<1>5. /\ KeepsSeat(w, u) /\ KeepsVerdict(w, u)
      /\ Idle(u) /\ KeepsScreens(w, u)
      /\ u.retained = w.prepared /\ u.keptReq = w.req
      /\ u.forgotten = ForgottenAfter(w)
      /\ u.nextReq = w.nextReq /\ u.ops = w.ops
      /\ u.out = w.out
  <2>1. CASE w.exposed
    <3>1. u = CloseGameplay(moved)
      BY <2>1
    <3> HIDE DEF u
    <3>2. QED
      BY <1>3, <1>4, <3>1, CloseGameplayDoes
         DEF KeepsSeat, KeepsVerdict, KeepsRetained, KeepsRequest, KeepsPlay,
             KeepsScreens, HasScreen, Idle
  <2>2. CASE ~w.exposed
    <3>1. u = moved
      BY <2>2
    <3> HIDE DEF u
    <3>2. QED
      BY <1>4, <3>1 DEF KeepsScreens, HasScreen
  <2>3. QED
    BY <2>1, <2>2
<1>6. RetainPreparedGameplay(w) = u
  BY DEF RetainPreparedGameplay, moved, stopped
<1>7. QED
  BY <1>5, <1>6

LEMMA ClearActiveCompetitionRoundDoes ==
    ASSUME NEW w \in Session
    PROVE  /\ LET u == ClearTerminal(w)
              IN  /\ KeepsSeat(w, u) /\ KeepsRetained(w, u)
                  /\ KeepsRequest(w, u) /\ u.screens = w.screens
                  /\ u.ops = w.ops /\ u.out = w.out
                  /\ u.terminal = NoTerminal
                  /\ u.abandoned = FALSE /\ u.submitted = FALSE
                  /\ u.sampling = FALSE
                  /\ u.exposed = w.exposed /\ u.start = w.start
                  /\ u.source = w.source /\ u.guid = w.guid
           /\ LET u == ClearActiveCompetitionRound(w)
              IN  /\ KeepsSeat(w, u) /\ KeepsRetained(w, u)
                  /\ KeepsRequest(w, u) /\ u.screens = w.screens
                  /\ u.ops = w.ops /\ u.out = w.out
                  /\ u.terminal = NoTerminal
                  /\ u.abandoned = FALSE /\ u.submitted = FALSE
                  /\ u.sampling = FALSE
                  /\ u.exposed = w.exposed /\ u.start = w.start
                  /\ u.source = 0 /\ u.guid = 0
BY DEF Session, KeepsSeat, KeepsRetained, KeepsRequest, ClearTerminal,
       ClearActiveCompetitionRound, DetachGameplaySource, StopTelemetrySampling

LEMMA NoVerdict == NoTerminal.kind = "None"
BY DEF NoTerminal

LEMMA FlushCompetitionMessagesDoes ==
    ASSUME NEW w \in Session
    PROVE  LET u == FlushCompetitionMessages(w)
           IN  /\ KeepsSeat(w, u) /\ KeepsVerdict(w, u) /\ KeepsRetained(w, u)
               /\ KeepsRequest(w, u) /\ KeepsPlay(w, u)
               /\ u.screens = w.screens /\ u.ops = w.ops
               /\ \/ u.out = w.out
                  \/ /\ SaysTerminal(u)
                     /\ w.terminal.kind # "None"
                     /\ w.round.stage = "Playing" \/ w.terminal.kind = "Dnf"
BY DEF Session, KeepsSeat, KeepsVerdict, KeepsRetained, KeepsRequest, KeepsPlay,
       FlushCompetitionMessages, Send, SaysTerminal

LEMMA SendResultDoes ==
    ASSUME NEW w \in Session, NEW chart \in Nat,
           w.terminal.kind = "None", w.submitted = FALSE
    PROVE  LET u == SendTerminal(w, "Result", chart)
           IN  /\ KeepsSeat(w, u) /\ KeepsRetained(w, u)
               /\ KeepsRequest(w, u) /\ KeepsPlay(w, u)
               /\ u.screens = w.screens /\ u.ops = w.ops
               /\ u.submitted = TRUE /\ u.abandoned = w.abandoned
               /\ u.terminal.kind = "Result" /\ u.terminal.round = w.round.id
               /\ u.terminal.chart = chart
               /\ \/ u.out = w.out
                  \/ /\ SaysTerminal(u)
                     /\ w.round.stage = "Playing"
<1> DEFINE t == [kind |-> "Result", round |-> w.round.id, id |-> w.nextId,
                 chart |-> chart]
           v == [w EXCEPT !.submitted = TRUE, !.nextId = w.nextId + 1,
                          !.terminal = t]
<1>1. w.nextId \in Nat \ {0} /\ w.round.id \in Nat
  BY DEF Session
<1>2. w.nextId + 1 \in Nat \ {0}
  BY <1>1
<1>3. t \in Terminal
  BY <1>1 DEF Terminal, TerminalKind
<1>4. t.kind = "Result" /\ t.round = w.round.id /\ t.chart = chart
  OBVIOUS
<1> HIDE DEF t
<1>5. v \in Session
  BY <1>2, <1>3, SendTerminalFields
<1>6. /\ KeepsSeat(w, v) /\ KeepsRetained(w, v)
      /\ KeepsRequest(w, v) /\ KeepsPlay(w, v)
      /\ v.screens = w.screens /\ v.ops = w.ops
      /\ v.submitted = TRUE /\ v.abandoned = w.abandoned
      /\ v.terminal = t /\ v.out = w.out
  BY DEF Session, KeepsSeat, KeepsRetained, KeepsRequest, KeepsPlay
<1>7. SendTerminal(w, "Result", chart) = FlushCompetitionMessages(v)
  BY DEF SendTerminal, t, v
<1> HIDE DEF v
<1>8. QED
  BY <1>4, <1>5, <1>6, <1>7, FlushCompetitionMessagesDoes
     DEF KeepsSeat, KeepsRetained, KeepsRequest, KeepsPlay, KeepsVerdict,
         SaysTerminal

LEMMA SendAbandonDoes ==
    ASSUME NEW w \in Session, w.round.id # 0, w.terminal.kind = "None",
           ~w.submitted
    PROVE  LET u == SendAbandon(w)
           IN  /\ KeepsSeat(w, u) /\ KeepsRetained(w, u)
               /\ KeepsRequest(w, u) /\ KeepsPlay(w, u)
               /\ u.screens = w.screens /\ u.ops = w.ops
               /\ u.submitted = TRUE /\ u.abandoned = TRUE
               /\ u.terminal.kind = "Dnf" /\ u.terminal.round = w.round.id
               /\ \/ u.out = w.out
                  \/ SaysTerminal(u)
<1> DEFINE v == [w EXCEPT !.abandoned = TRUE]
<1>1. v \in Session
  BY VerdictFields
<1>2. /\ KeepsSeat(w, v) /\ KeepsRetained(w, v)
      /\ KeepsRequest(w, v) /\ KeepsPlay(w, v)
      /\ v.screens = w.screens /\ v.ops = w.ops
      /\ v.submitted = w.submitted /\ v.abandoned = TRUE
      /\ v.terminal = w.terminal /\ v.out = w.out
  BY DEF Session, KeepsSeat, KeepsRetained, KeepsRequest, KeepsPlay
<1>3. SendAbandon(w) = SendTerminal(v, "Dnf", 0)
  BY DEF SendAbandon
<1> HIDE DEF v
<1>4. v.terminal.kind = "None" /\ ~v.submitted
  BY <1>2
<1> DEFINE u == SendTerminal(v, "Dnf", 0)
           t == [kind |-> "Dnf", round |-> v.round.id, id |-> v.nextId,
                 chart |-> 0]
           y == [v EXCEPT !.submitted = TRUE, !.nextId = v.nextId + 1,
                          !.terminal = t]
<1>5. /\ KeepsSeat(v, u) /\ KeepsRetained(v, u)
      /\ KeepsRequest(v, u) /\ KeepsPlay(v, u)
      /\ u.screens = v.screens /\ u.ops = v.ops
      /\ u.submitted = TRUE /\ u.abandoned = v.abandoned
      /\ u.terminal.kind = "Dnf" /\ u.terminal.round = v.round.id
      /\ u.out = v.out \/ SaysTerminal(u)
  <2>1. v.nextId \in Nat \ {0} /\ v.round.id \in Nat
    BY SMTT(30), <1>1 DEF Session
  <2>2. v.nextId + 1 \in Nat \ {0}
    BY <2>1
  <2>3. t \in Terminal
    BY <2>1 DEF Terminal, TerminalKind
  <2>4. t.kind = "Dnf" /\ t.round = v.round.id
    OBVIOUS
  <2>5. u = FlushCompetitionMessages(y)
    BY <1>4 DEF SendTerminal
  <2> HIDE DEF t, u
  <2>6. y \in Session
    BY <1>1, <2>2, <2>3, SendTerminalFields
  <2>7. /\ KeepsSeat(v, y) /\ KeepsRetained(v, y)
        /\ KeepsRequest(v, y) /\ KeepsPlay(v, y)
        /\ y.screens = v.screens /\ y.ops = v.ops
        /\ y.submitted = TRUE /\ y.abandoned = v.abandoned
        /\ y.terminal = t /\ y.out = v.out
    BY <1>1 DEF Session, KeepsSeat, KeepsRetained, KeepsRequest, KeepsPlay
  <2> HIDE DEF y
  <2>8. QED
    BY <2>4, <2>5, <2>6, <2>7, FlushCompetitionMessagesDoes
       DEF KeepsSeat, KeepsRetained, KeepsRequest, KeepsPlay, KeepsVerdict,
           SaysTerminal
<1>6. SendAbandon(w) = u
  BY <1>3
<1> HIDE DEF u
<1>7. /\ KeepsSeat(w, u) /\ KeepsRetained(w, u)
      /\ KeepsRequest(w, u) /\ KeepsPlay(w, u)
  BY <1>2, <1>5 DEF KeepsSeat, KeepsRetained, KeepsRequest, KeepsPlay
<1>8. u.terminal.round = w.round.id
  BY <1>2, <1>5 DEF KeepsSeat
<1>9. QED
  BY <1>2, <1>5, <1>6, <1>7, <1>8

LEMMA AbandonCurrentRoundDoes ==
    ASSUME NEW w \in Session, w.terminal.kind # "None" => w.submitted
    PROVE  LET u == AbandonCurrentRound(w)
           IN  IF w.round.id = 0 \/ ~w.round.mine \/ w.submitted
                 THEN u = w
                 ELSE /\ KeepsSeat(w, u) /\ KeepsRetained(w, u)
                      /\ Idle(u) /\ KeepsScreens(w, u)
                      /\ u.ops = {o \in w.ops : o.req # w.req}
                      /\ u.submitted = TRUE /\ u.abandoned = TRUE
                      /\ u.terminal.kind = "Dnf"
                      /\ u.terminal.round = w.round.id
                      /\ \/ u.out = w.out
                         \/ SaysTerminal(u)
<1>1. CASE w.round.id = 0 \/ ~w.round.mine \/ w.submitted
  BY <1>1 DEF AbandonCurrentRound
<1>2. CASE ~(w.round.id = 0 \/ ~w.round.mine \/ w.submitted)
  <2> DEFINE v == StopTelemetrySampling([w EXCEPT !.abandoned = TRUE])
             s == SendAbandon(v)
  <2>1. v \in Session
    BY VerdictFields, TelemetryType
  <2>2. /\ KeepsSeat(w, v) /\ KeepsRetained(w, v) /\ KeepsRequest(w, v)
        /\ v.screens = w.screens /\ v.ops = w.ops
        /\ v.submitted = w.submitted
        /\ v.terminal = w.terminal /\ v.out = w.out
    BY DEF Session, KeepsSeat, KeepsRetained, KeepsRequest,
           StopTelemetrySampling
  <2>3. AbandonCurrentRound(w) = CancelPreparedRound(s, TRUE)
    BY <1>2 DEF AbandonCurrentRound
  <2> HIDE DEF v
  <2>4. v.round.id # 0 /\ v.terminal.kind = "None" /\ ~v.submitted
    BY <1>2, <2>2 DEF KeepsSeat
  <2>5. /\ KeepsSeat(w, s) /\ KeepsRetained(w, s) /\ KeepsRequest(w, s)
        /\ s.screens = w.screens /\ s.ops = w.ops
        /\ s.submitted = TRUE /\ s.abandoned = TRUE
        /\ s.terminal.kind = "Dnf" /\ s.terminal.round = w.round.id
        /\ \/ s.out = w.out
           \/ SaysTerminal(s)
    BY <2>1, <2>2, <2>4, SendAbandonDoes
       DEF KeepsSeat, KeepsRetained, KeepsRequest
  <2>6. s \in Session
    BY <2>1, SendAbandonType
  <2> HIDE DEF s
  <2> DEFINE u == CancelPreparedRound(s, TRUE)
  <2>7. /\ KeepsSeat(s, u) /\ KeepsVerdict(s, u) /\ KeepsRetained(s, u)
        /\ Idle(u) /\ KeepsScreens(s, u)
        /\ u.ops = {o \in s.ops : o.req # s.req}
        /\ u.out = s.out
    BY <2>6, CancelPreparedRoundDoes
  <2> HIDE DEF u
  <2>8. /\ KeepsSeat(w, u) /\ KeepsRetained(w, u)
        /\ Idle(u) /\ KeepsScreens(w, u)
        /\ u.ops = {o \in w.ops : o.req # w.req}
        /\ u.submitted = TRUE /\ u.abandoned = TRUE
        /\ u.terminal.kind = "Dnf"
        /\ u.terminal.round = w.round.id
        /\ \/ u.out = w.out
           \/ SaysTerminal(u)
    BY <2>5, <2>7 DEF KeepsSeat, KeepsRetained, KeepsRequest, KeepsScreens,
                      KeepsVerdict, HasScreen, SaysTerminal
  <2>9. QED
    BY <1>2, <2>3, <2>8 DEF u
<1>3. QED
  BY <1>1, <1>2

-----------------------------------------------------------------------------
(* Operations of a session.                                                *)

LEMMA OpTyped ==
    ASSUME NEW w \in Session, NEW o \in w.ops
    PROVE  /\ o \in Operation /\ o.req \in Nat /\ o.req # 0
           /\ o.status \in OpStatus /\ o.kind \in {"Probe", "Load"}
           /\ o.pending \in BOOLEAN
<1>1. o \in Operation
  BY DEF Session
<1>2. QED
  BY <1>1 DEF Operation

LEMMA StatusOf ==
    ASSUME NEW w, \A o, p \in w.ops : o.req = p.req => o = p,
           NEW o \in w.ops
    PROVE  /\ Status(w, o.req) = o.status
           /\ Pending(w, o.req) <=> o.pending
<1>1. OpsOf(w, o.req) = {o}
  BY DEF OpsOf
<1>2. (CHOOSE p \in {o} : TRUE) = o
  OBVIOUS
<1>3. QED
  BY <1>1, <1>2 DEF Status, Pending

LEMMA StatusNone ==
    ASSUME NEW w, NEW r, \A o \in w.ops : o.req # r
    PROVE  Status(w, r) = "Finished" /\ ~Pending(w, r)
<1>1. OpsOf(w, r) = {}
  BY DEF OpsOf
<1>2. QED
  BY <1>1 DEF Status, Pending

LEMMA StatusZero ==
    ASSUME NEW w \in Session
    PROVE  Status(w, 0) = "Finished" /\ ~Pending(w, 0)
BY OpTyped, StatusNone

LEMMA StatusSame ==
    ASSUME NEW w, NEW u, u.ops = w.ops, NEW r
    PROVE  /\ Status(u, r) = Status(w, r)
           /\ Pending(u, r) <=> Pending(w, r)
           /\ OpsOf(u, r) = OpsOf(w, r)
BY DEF Status, Pending, OpsOf

LEMMA NotReady ==
    ASSUME NEW w \in Session, Idle(w)
    PROVE  Status(w, w.prepared) = "Finished" /\ ~LoadedUp(w)
BY StatusZero DEF Idle, LoadedUp

LEMMA PreparedOp ==
    ASSUME NEW w \in Session, OpsWhole(w), RequestWhole(w), w.prepared # 0
    PROVE  \E o \in w.ops :
             /\ o.req = w.prepared /\ o.req = w.req
             /\ o.status # "Working" /\ o.round = w.round.id
             /\ Status(w, w.prepared) = o.status
             /\ Pending(w, w.prepared) <=> o.pending
             /\ w.op = "Load" /\ w.round.mine
<1>1. w.op = "Load" /\ w.prepared = w.req
  BY DEF RequestWhole
<1>2. PICK o \in w.ops : o.req = w.req /\ o.round = w.round.id
                         /\ o.status # "Working"
  BY <1>1 DEF RequestWhole
<1>3. /\ Status(w, o.req) = o.status
      /\ Pending(w, o.req) <=> o.pending
  BY StatusOf DEF OpsWhole
<1>4. w.round.mine
  BY <1>1 DEF RequestWhole
<1>5. QED
  BY <1>1, <1>2, <1>3, <1>4

LEMMA RetainedIsIdle ==
    ASSUME NEW w \in Session, Local(w), w.retained # 0
    PROVE  /\ Idle(w)
           /\ ~w.round.mine
           /\ w.terminal.kind = "None"
<1>1. w.terminal.kind = "None"
  BY DEF Local, RetainedWhole, Watched, RoundWhole
<1>2. ~w.round.mine
  BY DEF Local, RetainedWhole, Watched
<1>3. w.op = "None" /\ w.req = 0 /\ w.prepared = 0 /\ w.loadRound = 0
  BY <1>2 DEF Local, RequestWhole
<1>4. w.exposed = FALSE /\ w.source = 0 /\ w.sampling = FALSE
  BY <1>3 DEF Local, PlayWhole, Session
<1>5. w.start = NoTask
  BY <1>3 DEF Local, PlayWhole, LoadedUp
<1>6. QED
  BY <1>1, <1>2, <1>3, <1>4, <1>5 DEF Idle

LEMMA IdleWhole ==
    ASSUME NEW w \in Session, Local(w), NEW u \in Session, Idle(u),
           KeepsRetained(w, u), KeepsOthers(w, u),
           u.ops = {o \in w.ops : o.req # w.req}
    PROVE  /\ OpsWhole(u) /\ RequestWhole(u) /\ PlayWhole(u)
           /\ u.keptReq = u.retained
           /\ u.retained # 0 =>
                /\ Watched(w.round)
                /\ \E o \in u.ops : o.req = u.retained /\ o.status # "Working"
           /\ RunningKept(w, u)
<1>1. \A o \in w.ops : o.req # 0 /\ o.req \in Nat
  BY OpTyped
<1>2. OpsWhole(u)
  <2>0. /\ \A s \in u.screens : s.req < w.nextReq
        /\ \A o \in w.ops : HasScreen(w, o.req) => o.kind = "Load"
    BY DEF Local, OpsWhole, KeepsOthers, HasScreen
  <2>1. /\ \A o, p \in w.ops : o.req = p.req => o = p
        /\ \A o \in w.ops :
             /\ o.req < w.nextReq
             /\ o.req \in {w.req, w.keptReq} \cup w.forgotten
             /\ o.status = "Working" => o.req = w.req
             /\ o.kind = "Probe" => o.status = "Working"
             /\ o.status \in {"Running", "Finished"} =>
                  HasScreen(w, o.req) \/ o.req \notin {w.req, w.keptReq}
        /\ w.keptReq < w.nextReq
    BY DEF Local, OpsWhole
  <2>2. w.nextReq \in Nat \ {0}
    BY DEF Session
  <2>3. /\ u.req = 0 /\ u.keptReq = w.keptReq
        /\ u.forgotten = w.forgotten /\ u.nextReq = w.nextReq
        /\ \A r : HasScreen(u, r) => HasScreen(w, r)
        /\ \A r : r # w.req /\ HasScreen(w, r) => HasScreen(u, r)
    BY DEF Idle, KeepsRetained, KeepsOthers
  <2>4. QED
    BY <1>1, <2>0, <2>1, <2>2, <2>3 DEF OpsWhole
<1>3. RequestWhole(u)
  BY DEF RequestWhole, Idle
<1>4. PlayWhole(u)
  BY StatusZero DEF PlayWhole, Idle
<1>5. /\ u.keptReq = u.retained
      /\ u.retained # 0 =>
           /\ Watched(w.round)
           /\ \E o \in u.ops : o.req = u.retained /\ o.status # "Working"
  <2>1. w.retained # 0 => w.req = 0
    BY RetainedIsIdle DEF Idle
  <2>2. QED
    BY <2>1 DEF Local, RetainedWhole, KeepsRetained
<1>6. RunningKept(w, u)
  BY DEF RunningKept
<1>7. QED
  BY <1>2, <1>3, <1>4, <1>5, <1>6

LEMMA StaySeat ==
    ASSUME NEW w \in Session, NEW u \in Session, KeepsSeat(w, u)
    PROVE  /\ u.round.id = w.round.id
           /\ u.round.mine = w.round.mine
           /\ Rank(w.round.stage) <= Rank(u.round.stage)
           /\ u.state = w.state
<1>1. Rank(w.round.stage) \in 0..4
  BY RankNat DEF Session
<1>2. QED
  BY <1>1 DEF KeepsSeat

\* The current request is gone and everything that depends on it with it.
LEMMA IdleSound ==
    ASSUME NEW w \in Session, Local(w), NEW u \in Session, Idle(u),
           KeepsSeat(w, u), KeepsRetained(w, u), KeepsOthers(w, u),
           u.ops = {o \in w.ops : o.req # w.req},
           \/ /\ KeepsVerdict(w, u)
              /\ w.round.stage # "Loading" \/ w.abandoned \/ ~LoadedUp(w)
           \/ /\ w.round.mine /\ w.round.stage # "Probing"
              /\ w.submitted = FALSE
              /\ u.submitted = TRUE /\ u.abandoned = TRUE
              /\ u.terminal.kind = "Dnf"
              /\ u.terminal.round = w.round.id
    PROVE  Local(u) /\ Stay(w, u) /\ RunningKept(w, u)
<1>1. /\ OpsWhole(u) /\ RequestWhole(u) /\ PlayWhole(u)
      /\ RetainedWhole(u) /\ RunningKept(w, u)
  BY IdleWhole DEF RetainedWhole, KeepsSeat
<1>2. Status(u, u.prepared) = "Finished"
  BY NotReady
<1>3. u.round = w.round /\ u.phase = w.phase /\ u.state = w.state
  BY DEF KeepsSeat
<1>4. u.prepared = u.req
  BY DEF Idle
<1>5. CASE KeepsVerdict(w, u) /\ (w.round.stage # "Loading" \/ w.abandoned \/ ~LoadedUp(w))
  <2>1. RoundWhole(u)
    BY <1>2, <1>3, <1>4, <1>5 DEF RoundWhole, Local, KeepsVerdict
  <2>2. Quiet(w) => Quiet(u)
    BY <1>2, <1>3, <1>5 DEF Quiet, KeepsVerdict
  <2>3. Fit(w) => Fit(u)
    BY <1>3, <1>5 DEF Fit, KeepsVerdict
  <2>4. Stay(w, u)
    BY <1>5, <2>2, <2>3, StaySeat DEF Stay, KeepsVerdict, KeepsRetained
  <2>5. QED
    BY <1>1, <2>1, <2>4 DEF Local
<1>6. CASE /\ w.round.mine /\ w.round.stage # "Probing"
           /\ w.submitted = FALSE
           /\ u.submitted = TRUE /\ u.abandoned = TRUE
           /\ u.terminal.kind = "Dnf"
           /\ u.terminal.round = w.round.id
  <2>1. RoundWhole(u)
    BY <1>3, <1>4, <1>6 DEF RoundWhole, Local
  <2>2. Quiet(u) /\ Fit(u)
    BY <1>3, <1>6 DEF Quiet, Fit
  <2>3. w.abandoned = FALSE
    BY <1>6 DEF Local, RoundWhole, Session
  <2>4. Stay(w, u)
    BY <1>6, <2>2, <2>3, StaySeat DEF Stay, KeepsRetained
  <2>5. QED
    BY <1>1, <2>1, <2>4 DEF Local
<1>7. QED
  BY <1>5, <1>6

\* A prepared runner is let go where no load result is owed.
LEMMA CancelPreparedRoundSound ==
    ASSUME NEW w \in Session, Local(w), OutFits(w),
           w.out.type # "LoadResult",
           w.round.stage # "Loading" \/ w.abandoned \/ ~LoadedUp(w),
           NEW keepGuid \in BOOLEAN
    PROVE  Sound(w, CancelPreparedRound(w, keepGuid))
<1> DEFINE u == CancelPreparedRound(w, keepGuid)
<1>1. u \in Session
  BY CancelPreparedRoundType
<1>2. /\ KeepsSeat(w, u) /\ KeepsVerdict(w, u) /\ KeepsRetained(w, u)
      /\ Idle(u) /\ KeepsScreens(w, u)
      /\ u.ops = {o \in w.ops : o.req # w.req}
      /\ u.out = w.out
  BY CancelPreparedRoundDoes
<1> HIDE DEF u
<1>3. Local(u) /\ Stay(w, u) /\ RunningKept(w, u)
  <2>1. KeepsOthers(w, u)
    BY <1>2 DEF KeepsScreens, KeepsOthers
  <2>2. QED
    BY <1>1, <1>2, <2>1, IdleSound
<1>4. OutFits(u)
  BY <1>2 DEF OutFits, KeepsSeat, KeepsVerdict
<1>5. QED
  BY <1>2, <1>3, <1>4 DEF Sound, KeepsSeat, u

LEMMA SoundSame ==
    ASSUME NEW w \in Session, Local(w), OutFits(w)
    PROVE  Sound(w, w)
<1>1. KeepsSeat(w, w)
  BY DEF KeepsSeat
<1>2. Stay(w, w)
  BY <1>1, StaySeat DEF Stay
<1>3. QED
  BY <1>2 DEF Sound, RunningKept

\* abandonCurrentRound sends one terminal, or none if one was sent.
LEMMA AbandonCurrentRoundSound ==
    ASSUME NEW w \in Session, Local(w), w.out = Silent,
           w.round.stage # "Probing"
    PROVE  Sound(w, AbandonCurrentRound(w))
<1> DEFINE u == AbandonCurrentRound(w)
<1>1. u \in Session
  BY AbandonCurrentRoundType
<1>2. w.terminal.kind # "None" => w.submitted
  BY DEF Local, RoundWhole
<1>3. CASE w.round.id = 0 \/ ~w.round.mine \/ w.submitted
  <2>1. u = w
    BY <1>2, <1>3, AbandonCurrentRoundDoes
  <2>2. OutFits(w)
    BY DEF OutFits, Silent
  <2>3. QED
    BY <2>1, <2>2, SoundSame
<1>4. CASE ~(w.round.id = 0 \/ ~w.round.mine \/ w.submitted)
  <2>1. /\ KeepsSeat(w, u) /\ KeepsRetained(w, u)
        /\ Idle(u) /\ KeepsScreens(w, u)
        /\ u.ops = {o \in w.ops : o.req # w.req}
        /\ u.submitted = TRUE /\ u.abandoned = TRUE
        /\ u.terminal.kind = "Dnf"
        /\ u.terminal.round = w.round.id
        /\ \/ u.out = w.out
           \/ SaysTerminal(u)
    BY <1>2, <1>4, AbandonCurrentRoundDoes
  <2> HIDE DEF u
  <2>2. w.submitted = FALSE
    BY SMTT(30), <1>4 DEF Session
  <2>3. KeepsOthers(w, u)
    BY <2>1 DEF KeepsScreens, KeepsOthers
  <2>4. Local(u) /\ Stay(w, u) /\ RunningKept(w, u)
    BY <1>1, <1>4, <2>1, <2>2, <2>3, IdleSound
  <2>5. OutFits(u)
    BY <2>1 DEF OutFits, SaysTerminal, Silent
  <2>6. QED
    BY <2>1, <2>4, <2>5 DEF Sound, KeepsSeat, u
<1>5. QED
  BY <1>3, <1>4

\* Everything of a session but its operations, its screens and what it sends.
KeepsRest(w, u) ==
    /\ KeepsSeat(w, u)
    /\ KeepsVerdict(w, u)
    /\ KeepsRetained(w, u)
    /\ KeepsRequest(w, u)
    /\ KeepsPlay(w, u)

LEMMA SameSound ==
    ASSUME NEW w \in Session, Local(w), NEW u \in Session,
           KeepsRest(w, u), KeepsScreens(w, u), u.ops = w.ops
    PROVE  /\ Local(u) /\ Stay(w, u) /\ RunningKept(w, u)
           /\ LoadedUp(u) <=> LoadedUp(w)
<1>1. \A r : /\ Status(u, r) = Status(w, r)
             /\ Pending(u, r) <=> Pending(w, r)
  BY StatusSame
<1>2. \A r : HasScreen(u, r) <=> HasScreen(w, r)
  BY DEF KeepsScreens
<1>3. \A s \in u.screens : s.req < w.nextReq
  BY <1>2 DEF HasScreen, Local, OpsWhole
<1>4. OpsWhole(u)
  BY <1>2, <1>3 DEF OpsWhole, Local, KeepsRest, KeepsRetained, KeepsRequest
<1>5. RequestWhole(u)
  BY DEF RequestWhole, Local, KeepsRest, KeepsRequest, KeepsSeat
<1>6. LoadedUp(u) <=> LoadedUp(w)
  BY <1>1 DEF LoadedUp, KeepsRest, KeepsRequest, KeepsPlay
<1>7. PlayWhole(u)
  <2>1. /\ u.exposed = w.exposed /\ u.start = w.start /\ u.source = w.source
        /\ u.guid = w.guid /\ u.sampling = w.sampling
        /\ u.prepared = w.prepared /\ u.round = w.round /\ u.state = w.state
        /\ u.submitted = w.submitted
    BY DEF KeepsRest, KeepsRequest, KeepsPlay, KeepsSeat, KeepsVerdict
  <2>2. QED
    BY <1>1, <1>2, <1>6, <2>1 DEF PlayWhole, Local
<1>8. RetainedWhole(u)
  BY DEF RetainedWhole, Watched, Local, KeepsRest, KeepsRetained, KeepsSeat
<1>9. RoundWhole(u)
  <2>1. /\ u.prepared = w.prepared /\ u.req = w.req /\ u.round = w.round
        /\ u.state = w.state /\ u.phase = w.phase
        /\ u.submitted = w.submitted /\ u.abandoned = w.abandoned
        /\ u.terminal = w.terminal
    BY DEF KeepsRest, KeepsRequest, KeepsSeat, KeepsVerdict
  <2>2. QED
    BY <1>1, <2>1 DEF RoundWhole, Local
<1>10. Stay(w, u)
  <2>1. Quiet(w) => Quiet(u)
    BY <1>1 DEF Quiet, KeepsRest, KeepsRequest, KeepsSeat, KeepsVerdict
  <2>2. Fit(w) => Fit(u)
    BY <1>6 DEF Fit, KeepsRest, KeepsSeat, KeepsVerdict
  <2>3. KeepsSeat(w, u) /\ KeepsVerdict(w, u) /\ u.retained = w.retained
    BY DEF KeepsRest, KeepsRetained
  <2>4. QED
    BY <2>1, <2>2, <2>3, StaySeat DEF Stay, KeepsVerdict
<1>11. QED
  BY <1>4, <1>5, <1>6, <1>7, <1>8, <1>9, <1>10 DEF Local, RunningKept

LEMMA SoundThrough ==
    ASSUME NEW w \in Session, NEW v \in Session, NEW u \in Session,
           Stay(w, v), v.state = w.state, RunningKept(w, v), Sound(v, u)
    PROVE  Sound(w, u)
<1>1. Stay(w, u)
  <2>1. /\ Rank(w.round.stage) \in 0..4 /\ Rank(v.round.stage) \in 0..4
        /\ Rank(u.round.stage) \in 0..4
    BY RankNat DEF Session
  <2>2. Rank(w.round.stage) <= Rank(v.round.stage)
        /\ Rank(v.round.stage) <= Rank(u.round.stage)
    BY DEF Stay, Sound
  <2>3. v.round.stage = "Playing" => u.round.stage = "Playing"
    BY <2>2 DEF Session, Stage, Rank
  <2>4. /\ u.round.id = w.round.id
        /\ u.round.mine = w.round.mine
        /\ w.submitted => u.submitted
        /\ w.abandoned => u.abandoned \/ u.round.stage = "Playing"
        /\ w.submitted => u.terminal \in {w.terminal, NoTerminal}
        /\ Quiet(w) => Quiet(u)
        /\ Fit(w) /\ w.round.mine => Fit(u)
        /\ u.retained \in {0, w.retained}
    BY <2>3 DEF Stay, Sound
  <2>5. Rank(w.round.stage) <= Rank(u.round.stage)
    BY <2>1, <2>2
  <2>6. QED
    BY <2>4, <2>5 DEF Stay
<1>2. RunningKept(w, u)
  BY DEF RunningKept, Sound
<1>3. QED
  BY <1>1, <1>2 DEF Sound

\* reportPreparedRound sends the load result only when the runner is ready.
LEMMA ReportPreparedRoundSound ==
    ASSUME NEW w \in Session, Local(w), OutFits(w)
    PROVE  Sound(w, ReportPreparedRound(w))
<1> DEFINE m == [type |-> "LoadResult", round |-> w.loadRound, ok |-> TRUE]
           v == [w EXCEPT !.loadSent = TRUE]
           u == [v EXCEPT !.out = m]
<1>1. w.prepared # 0 => w.round.mine
  BY DEF Local, RequestWhole
<1>2. CASE ReportPreparedRound(w) = w
  BY <1>2, SoundSame
<1>3. CASE ReportPreparedRound(w) # w
  <2>1. /\ w.round.stage = "Loading"
        /\ w.loadRound = w.round.id
        /\ LoadedUp(w)
        /\ w.round.mine
        /\ ReportPreparedRound(w) = u
    BY <1>1, <1>3 DEF ReportPreparedRound, Send, LoadedUp
  <2>2. /\ m.type = "LoadResult" /\ m.round = w.loadRound
    OBVIOUS
  <2>3. u \in Session
    <3>1. w.loadRound \in Nat
      BY DEF Session
    <3>2. m \in Answer
      BY <3>1 DEF Answer
    <3> HIDE DEF m
    <3>3. QED
      BY <3>2 DEF Session
  <2> HIDE DEF m
  <2>4. /\ KeepsRest(w, u) /\ u.screens = w.screens /\ u.ops = w.ops
        /\ u.out = m
    BY DEF Session, KeepsRest, KeepsSeat, KeepsVerdict, KeepsRetained,
           KeepsRequest, KeepsPlay
  <2> HIDE DEF u
  <2>5. Local(u) /\ Stay(w, u) /\ RunningKept(w, u) /\ LoadedUp(u)
    BY <2>1, <2>3, <2>4, SameSound DEF KeepsScreens, HasScreen
  <2>6. OutFits(u)
    BY <2>1, <2>2, <2>4, <2>5 DEF OutFits, KeepsRest, KeepsSeat
  <2>7. QED
    BY <2>1, <2>4, <2>5, <2>6 DEF Sound, KeepsRest, KeepsSeat
<1>4. QED
  BY <1>2, <1>3

-----------------------------------------------------------------------------
(* One operation changes its status.                                       *)

Renewed(o, status, pending) == [o EXCEPT !.status = status, !.pending = pending]

LEMMA RenewedIs ==
    ASSUME NEW o \in Operation, NEW status \in OpStatus, NEW pending \in BOOLEAN
    PROVE  LET p == Renewed(o, status, pending)
           IN  /\ p.req = o.req /\ p.kind = o.kind /\ p.round = o.round
               /\ p.status = status /\ p.pending = pending
BY DEF Renewed, Operation

LEMMA SetOpIs ==
    ASSUME NEW w \in Session, OpsWhole(w),
           NEW o \in w.ops, NEW status \in OpStatus, NEW pending \in BOOLEAN
    PROVE  LET u == SetOp(w, o.req, status, pending)
           IN  /\ KeepsRest(w, u) /\ u.screens = w.screens /\ u.out = w.out
               /\ u.ops = (w.ops \ {o}) \cup {Renewed(o, status, pending)}
<1> DEFINE q == {IF p.req = o.req
                   THEN [p EXCEPT !.status = status, !.pending = pending]
                   ELSE p : p \in w.ops}
           u == [w EXCEPT !.ops = q]
<1>1. q = (w.ops \ {o}) \cup {Renewed(o, status, pending)}
  BY DEF Renewed, OpsWhole
<1>2. SetOp(w, o.req, status, pending) = u
  BY DEF SetOp
<1> HIDE DEF q
<1>3. /\ KeepsRest(w, u) /\ u.screens = w.screens /\ u.out = w.out
      /\ u.ops = q
  BY DEF Session, KeepsRest, KeepsSeat, KeepsVerdict, KeepsRetained,
         KeepsRequest, KeepsPlay
<1> HIDE DEF u
<1>4. QED
  BY <1>1, <1>2, <1>3

LEMMA OpsReplaced ==
    ASSUME NEW w \in Session, OpsWhole(w), NEW o \in w.ops, NEW p,
           p.req = o.req, p.pending \in BOOLEAN,
           NEW u, u.ops = (w.ops \ {o}) \cup {p}
    PROVE  /\ \A a, b \in u.ops : a.req = b.req => a = b
           /\ Status(u, o.req) = p.status
           /\ Pending(u, o.req) = p.pending
           /\ \A r : r # o.req => /\ Status(u, r) = Status(w, r)
                                  /\ Pending(u, r) <=> Pending(w, r)
<1>1. p.req = o.req
  OBVIOUS
<1>2. u.ops = (w.ops \ {o}) \cup {p}
  OBVIOUS
<1>3. \A a, b \in u.ops : a.req = b.req => a = b
  BY <1>1, <1>2 DEF OpsWhole
<1>4. Status(u, o.req) = p.status /\ (Pending(u, o.req) = p.pending)
  <2>1. p \in u.ops
    BY <1>2
  <2>2. /\ Status(u, p.req) = p.status
        /\ Pending(u, p.req) <=> p.pending
    BY <1>3, <2>1, StatusOf
  <2>3. Pending(u, p.req) \in BOOLEAN
    BY DEF Pending
  <2>4. QED
    BY <1>1, <2>2, <2>3
<1>5. \A r : r # o.req => OpsOf(u, r) = OpsOf(w, r)
  BY <1>1, <1>2 DEF OpsOf, OpsWhole
<1>6. \A r : r # o.req => /\ Status(u, r) = Status(w, r)
                          /\ Pending(u, r) <=> Pending(w, r)
  <2> SUFFICES ASSUME NEW r, r # o.req
               PROVE  /\ Status(u, r) = Status(w, r)
                      /\ Pending(u, r) <=> Pending(w, r)
    OBVIOUS
  <2>1. OpsOf(u, r) = OpsOf(w, r)
    BY <1>5
  <2>2. QED
    BY ONLY <2>1 DEF Status, Pending
<1>7. QED
  BY <1>3, <1>4, <1>6

LEMMA OpsReplacedWhole ==
    ASSUME NEW w \in Session, Local(w), NEW o \in w.ops, NEW p,
           p.req = o.req, p.kind = "Load", o.kind = "Load",
           p.status \in OpStatus \ {"Working"},
           p.status # "Ready" =>
             HasScreen(w, o.req) \/ o.req \notin {w.req, w.keptReq},
           NEW u,
           u.req = w.req, u.keptReq = w.keptReq, u.forgotten = w.forgotten,
           u.nextReq = w.nextReq,
           u.op = w.op, \A r : HasScreen(u, r) <=> HasScreen(w, r),
           u.ops = (w.ops \ {o}) \cup {p}
    PROVE  /\ OpsWhole(u)
           /\ u.retained = w.retained /\ u.round = w.round => RetainedWhole(u)
<1>1. /\ p.req = o.req /\ p.kind = o.kind
      /\ p.status \in {"Ready", "Running", "Finished"}
  BY DEF OpStatus
<1>2. u.ops = (w.ops \ {o}) \cup {p}
  OBVIOUS
<1>3. \A s \in u.screens : s.req < w.nextReq
  BY DEF Local, OpsWhole, HasScreen
<1>4. \A a, b \in u.ops : a.req = b.req => a = b
  BY <1>1, <1>2 DEF Local, OpsWhole
<1>5. \A x \in w.ops :
         /\ x.req < w.nextReq
         /\ x.req \in {w.req, w.keptReq} \cup w.forgotten
         /\ x.status = "Working" => x.req = w.req
         /\ x.req = w.req => x.kind = w.op
         /\ x.kind = "Probe" => x.status = "Working"
         /\ x.status \in {"Running", "Finished"} =>
              HasScreen(w, x.req) \/ x.req \notin {w.req, w.keptReq}
         /\ HasScreen(w, x.req) => x.kind = "Load"
  BY DEF Local, OpsWhole
<1>6. \A x \in u.ops :
         /\ x.req < u.nextReq
         /\ x.req \in {u.req, u.keptReq} \cup u.forgotten
         /\ x.status = "Working" => x.req = u.req
         /\ x.req = u.req => x.kind = u.op
         /\ x.kind = "Probe" => x.status = "Working"
         /\ x.status \in {"Running", "Finished"} =>
              HasScreen(u, x.req) \/ x.req \notin {u.req, u.keptReq}
         /\ HasScreen(u, x.req) => x.kind = "Load"
  <2> TAKE x \in u.ops
  <2>1. CASE x \in w.ops
    BY <1>5, <2>1
  <2>2. CASE x = p
    BY <1>1, <1>5, <2>2
  <2>3. QED
    BY <1>2, <2>1, <2>2
<1>7. u.req < u.nextReq /\ u.keptReq < u.nextReq
  BY DEF Local, OpsWhole
<1>8. ASSUME u.retained = w.retained, u.round = w.round
      PROVE  RetainedWhole(u)
  <2>1. w.retained # 0 => \E x \in u.ops : x.req = w.retained /\ x.status # "Working"
    BY <1>1, <1>2 DEF Local, RetainedWhole, Watched
  <2>2. QED
    BY <1>8, <2>1 DEF Local, RetainedWhole, Watched
<1>9. QED
  BY <1>3, <1>4, <1>6, <1>7, <1>8 DEF OpsWhole

LEMMA WorkingIsCurrent ==
    ASSUME NEW w \in Session, Local(w), NEW o \in w.ops, o.status = "Working"
    PROVE  /\ o.req = w.req /\ o.kind = w.op /\ w.prepared = 0
           /\ w.round.mine /\ w.round.id # 0
           /\ o.kind = "Load" => /\ o.round = w.round.id
                                 /\ w.loadRound = w.round.id
                                 /\ w.round.stage = "Loading"
                                 /\ ~w.abandoned /\ ~w.submitted
                                 /\ w.state = "InRoom"
<1>1. o.req # 0 /\ o.kind \in {"Probe", "Load"}
  BY OpTyped
<1>2. o.req \in {w.req, w.keptReq} /\ (\A p \in w.ops : p.req = o.req => p = o)
  BY DEF Local, OpsWhole
<1>3. o.req = w.req
  BY <1>1, <1>2 DEF Local, RetainedWhole, Watched
<1>4. o.kind = w.op
  BY <1>3 DEF Local, OpsWhole
<1>5. w.round.mine
  BY <1>1, <1>4 DEF Local, RequestWhole
<1>6. w.round.id # 0
  BY <1>5 DEF Local, RoundWhole, WholeRound, NoRound
<1>7. CASE w.op = "Probe"
  BY <1>3, <1>4, <1>5, <1>6, <1>7 DEF Local, RequestWhole
<1>8. CASE w.op = "Load"
  <2>1. PICK p \in w.ops : /\ p.req = w.req /\ p.round = w.round.id
                           /\ (p.status = "Working") <=> (w.prepared = 0)
    BY <1>8 DEF Local, RequestWhole
  <2>2. p = o
    BY <1>2, <1>3, <2>1
  <2>3. w.prepared = 0 /\ o.round = w.round.id
    BY <2>1, <2>2
  <2>4. /\ w.loadRound = w.round.id /\ w.round.stage # "Probing"
        /\ w.state = "InRoom"
    BY <1>8, <2>3 DEF Local, RequestWhole
  <2>5. w.prepared # w.req
    BY <1>1, <1>3, <2>3
  <2>6. ~w.abandoned /\ w.round.stage \notin {"Scheduled", "Playing"}
    BY <2>5 DEF Local, RoundWhole
  <2>7. w.round.stage = "Loading"
    BY <1>6, <2>4, <2>6 DEF Local, RoundWhole, WholeRound, Session, Stage
  <2>8. ~w.submitted
    BY <2>6, <2>7 DEF Local, RoundWhole
  <2>9. QED
    BY <1>3, <1>4, <1>5, <1>6, <2>3, <2>4, <2>6, <2>7, <2>8
<1>9. QED
  BY <1>1, <1>4, <1>7, <1>8

LEMMA ProbeIsCurrent ==
    ASSUME NEW w \in Session, Local(w), NEW o \in w.ops, o.kind = "Probe"
    PROVE  o.status = "Working"
BY DEF Local, OpsWhole

\* A step of the player's side: what it may do to the session.
Begins(w, u) ==
    \A p \in u.ops : p.status = "Running" =>
        \/ \E o \in w.ops : o.req = p.req /\ o.status = "Running"
        \/ w.start # NoTask /\ p.req = w.start.runner

Steps(w, u) ==
    /\ Local(u)
    /\ Stay(w, u)
    /\ u.state = w.state
    /\ OutFits(u)
    /\ Begins(w, u)

LEMMA SoundSteps ==
    ASSUME NEW w, NEW u, Sound(w, u)
    PROVE  Steps(w, u)
BY DEF Sound, Steps, RunningKept, Begins

-----------------------------------------------------------------------------
(* A probe or a load ends.                                                 *)

LEMMA ProbeDoneSound ==
    ASSUME NEW w \in Session, Local(w), w.out = Silent, NEW o \in w.ops,
           o.kind = "Probe", NEW ok \in BOOLEAN
    PROVE  /\ w.req = o.req /\ w.op = "Probe"
           /\ Sound(w, Send([CancelOp(w, o.req) EXCEPT
                               !.req = 0, !.op = "None", !.probe = 0],
                            [type |-> "ProbeResult", round |-> w.probe,
                             ok |-> ok]))
<1>1. /\ o.req = w.req /\ w.op = "Probe" /\ w.prepared = 0
      /\ w.round.mine /\ w.round.id # 0
  BY ProbeIsCurrent, WorkingIsCurrent
<1> DEFINE m == [type |-> "ProbeResult", round |-> w.probe, ok |-> ok]
           q == {p \in w.ops : p.req # w.req}
           u == [w EXCEPT !.ops = q, !.req = 0, !.op = "None", !.probe = 0,
                          !.out = m]
<1>2. Send([CancelOp(w, o.req) EXCEPT !.req = 0, !.op = "None", !.probe = 0],
           m) = u
  BY <1>1 DEF Send, CancelOp
<1>3. m.type = "ProbeResult" /\ m.round = w.probe
  OBVIOUS
<1>4. m \in Answer
  BY DEF Answer, Session
<1> HIDE DEF m
<1>5. q \in SUBSET Operation
  BY DEF Session
<1> HIDE DEF q
<1>6. u \in Session
  BY ZenonT(40), <1>4, <1>5 DEF Session
<1>7. /\ KeepsSeat(w, u) /\ KeepsRetained(w, u) /\ KeepsVerdict(w, u)
      /\ KeepsPlay(w, u) /\ u.screens = w.screens
      /\ u.prepared = w.prepared /\ u.loadRound = w.loadRound
      /\ u.req = 0 /\ u.op = "None" /\ u.ops = q /\ u.out = m
  BY DEF Session, KeepsSeat, KeepsRetained, KeepsVerdict, KeepsPlay
<1> HIDE DEF u
<1>8. Idle(u)
  <2>1. w.loadRound = 0
    BY <1>1 DEF Local, RequestWhole
  <2>2. w.exposed = FALSE /\ w.source = 0 /\ w.sampling = FALSE
    BY <1>1 DEF Local, PlayWhole, Session
  <2>3. w.start = NoTask
    BY <1>1 DEF Local, PlayWhole, LoadedUp
  <2>4. QED
    BY <1>1, <1>7, <2>1, <2>2, <2>3 DEF Idle, KeepsPlay
<1>9. ~LoadedUp(w)
  BY <1>1 DEF LoadedUp
<1>10. Local(u) /\ Stay(w, u) /\ RunningKept(w, u)
  <2>1. KeepsOthers(w, u)
    BY <1>7 DEF KeepsOthers, HasScreen
  <2>2. QED
    BY <1>6, <1>7, <1>8, <1>9, <2>1, IdleSound DEF q
<1>11. OutFits(u)
  <2>1. w.probe = w.round.id
    BY <1>1 DEF Local, RequestWhole
  <2>2. QED
    BY <1>1, <1>3, <1>7, <2>1 DEF OutFits, KeepsSeat
<1>12. QED
  BY <1>1, <1>2, <1>7, <1>10, <1>11 DEF Sound, KeepsSeat, m

LEMMA LoadFailsSound ==
    ASSUME NEW w \in Session, Local(w), w.out = Silent, NEW o \in w.ops,
           o.kind = "Load", o.status = "Working"
    PROVE  /\ w.req = o.req /\ w.op = "Load" /\ w.loadRound # 0 /\ w.round.mine
           /\ Sound(w, Send([[CancelOp(w, o.req) EXCEPT
                                !.req = 0, !.op = "None", !.loadRound = 0,
                                !.prepared = 0] EXCEPT !.loadSent = TRUE],
                            [type |-> "LoadResult", ok |-> FALSE,
                             round |-> w.loadRound]))
<1>1. /\ o.req = w.req /\ w.op = "Load" /\ w.prepared = 0
      /\ w.round.mine /\ w.round.id # 0 /\ w.loadRound = w.round.id
  BY WorkingIsCurrent
<1> DEFINE m == [type |-> "LoadResult", ok |-> FALSE, round |-> w.loadRound]
           q == {p \in w.ops : p.req # w.req}
           u == [w EXCEPT !.ops = q, !.req = 0, !.op = "None", !.loadRound = 0,
                          !.prepared = 0, !.loadSent = TRUE, !.out = m]
<1>2. Send([[CancelOp(w, o.req) EXCEPT
               !.req = 0, !.op = "None", !.loadRound = 0,
               !.prepared = 0] EXCEPT !.loadSent = TRUE], m) = u
  BY <1>1 DEF Send, CancelOp
<1>3. m.type = "LoadResult" /\ m.round = w.loadRound /\ m.ok = FALSE
  OBVIOUS
<1>4. m \in Answer
  BY DEF Answer, Session
<1> HIDE DEF m
<1>5. q \in SUBSET Operation
  BY DEF Session
<1> HIDE DEF q
<1>6. u \in Session
  BY ZenonT(40), <1>4, <1>5 DEF Session
<1>7. /\ KeepsSeat(w, u) /\ KeepsRetained(w, u) /\ KeepsVerdict(w, u)
      /\ KeepsPlay(w, u) /\ u.screens = w.screens
      /\ u.prepared = 0 /\ u.loadRound = 0
      /\ u.req = 0 /\ u.op = "None" /\ u.ops = q /\ u.out = m
  BY DEF Session, KeepsSeat, KeepsRetained, KeepsVerdict, KeepsPlay
<1> HIDE DEF u
<1>8. Idle(u)
  <2>2. w.exposed = FALSE /\ w.source = 0 /\ w.sampling = FALSE
    BY <1>1 DEF Local, PlayWhole, Session
  <2>3. w.start = NoTask
    BY <1>1 DEF Local, PlayWhole, LoadedUp
  <2>4. QED
    BY <1>1, <1>7, <2>2, <2>3 DEF Idle, KeepsPlay
<1>9. ~LoadedUp(w)
  BY <1>1 DEF LoadedUp
<1>10. Local(u) /\ Stay(w, u) /\ RunningKept(w, u)
  <2>1. KeepsOthers(w, u)
    BY <1>7 DEF KeepsOthers, HasScreen
  <2>2. QED
    BY <1>6, <1>7, <1>8, <1>9, <2>1, IdleSound DEF q
<1>11. OutFits(u)
  BY <1>1, <1>3, <1>7 DEF OutFits, KeepsSeat
<1>12. QED
  BY <1>1, <1>2, <1>7, <1>10, <1>11 DEF Sound, KeepsSeat, m

-----------------------------------------------------------------------------
(* The load is done: the runner is prepared and exposed.                   *)

LEMMA PreparedSound ==
    ASSUME NEW w \in Session, Local(w), w.out = Silent, NEW o \in w.ops,
           o.kind = "Load", o.status = "Working"
    PROVE  LET v == [SetOp(w, o.req, "Ready", FALSE) EXCEPT
                       !.prepared = o.req, !.exposed = TRUE]
           IN  /\ v \in Session /\ Sound(w, v) /\ v.out = Silent
               /\ v.round = w.round
<1>1. /\ o.req = w.req /\ w.op = "Load" /\ w.prepared = 0
      /\ w.round.mine /\ w.round.id # 0 /\ w.loadRound = w.round.id
      /\ o.round = w.round.id /\ w.round.stage = "Loading"
      /\ ~w.abandoned /\ ~w.submitted /\ w.state = "InRoom"
  BY WorkingIsCurrent
<1> DEFINE r == SetOp(w, o.req, "Ready", FALSE)
           v == [r EXCEPT !.prepared = o.req, !.exposed = TRUE]
           p == Renewed(o, "Ready", FALSE)
<1>2. OpsWhole(w)
  BY DEF Local
<1>3. r \in Session
  BY SetOpType DEF OpStatus
<1>4. /\ KeepsRest(w, r) /\ r.screens = w.screens /\ r.out = w.out
      /\ r.ops = (w.ops \ {o}) \cup {p}
  BY <1>2, SetOpIs DEF OpStatus
<1>5. /\ p.req = o.req /\ p.status = "Ready" /\ p.round = o.round
      /\ p.kind = "Load" /\ p.pending = FALSE
  BY OpTyped, RenewedIs DEF OpStatus
<1>6. o.req \in Nat /\ o.req # 0
  BY OpTyped
<1> HIDE DEF r, p
<1>7. v \in Session
  BY <1>3, <1>6, AnswerFields
<1>8. /\ KeepsSeat(r, v) /\ KeepsVerdict(r, v) /\ KeepsRetained(r, v)
      /\ v.req = r.req /\ v.op = r.op /\ v.probe = r.probe
      /\ v.loadRound = r.loadRound /\ v.start = r.start
      /\ v.source = r.source /\ v.guid = r.guid /\ v.sampling = r.sampling
      /\ v.prepared = o.req /\ v.exposed = TRUE
      /\ v.screens = r.screens /\ v.ops = r.ops /\ v.out = r.out
  BY <1>3 DEF Session, KeepsSeat, KeepsVerdict, KeepsRetained
<1> HIDE DEF v
<1>9. /\ v.state = w.state /\ v.phase = w.phase /\ v.round = w.round
      /\ v.terminal = w.terminal /\ v.abandoned = w.abandoned
      /\ v.submitted = w.submitted
      /\ v.retained = w.retained /\ v.keptReq = w.keptReq
      /\ v.forgotten = w.forgotten
      /\ v.nextReq = w.nextReq
      /\ v.req = w.req /\ v.op = w.op /\ v.probe = w.probe
      /\ v.loadRound = w.loadRound /\ v.start = w.start
      /\ v.source = w.source /\ v.guid = w.guid /\ v.sampling = w.sampling
      /\ v.prepared = w.req /\ v.exposed = TRUE
      /\ v.screens = w.screens /\ v.out = w.out
      /\ v.ops = (w.ops \ {o}) \cup {p}
  BY <1>1, <1>4, <1>8 DEF KeepsRest, KeepsSeat, KeepsVerdict, KeepsRetained,
                          KeepsRequest, KeepsPlay
<1>10. /\ Status(v, o.req) = "Ready" /\ ~Pending(v, o.req)
       /\ \A a, b \in v.ops : a.req = b.req => a = b
  <2>1. p.pending \in BOOLEAN /\ p.req = o.req
    BY <1>5
  <2>2. v.ops = (w.ops \ {o}) \cup {p}
    BY <1>9
  <2>3. /\ Status(v, o.req) = p.status /\ Pending(v, o.req) = p.pending
        /\ \A a, b \in v.ops : a.req = b.req => a = b
    BY ONLY <1>2, <2>1, <2>2, OpsReplaced, w \in Session, o \in w.ops
  <2>4. QED
    BY ONLY <2>3, <1>5
<1>11. OpsWhole(v) /\ RetainedWhole(v)
  <2>1. \A k : HasScreen(v, k) <=> HasScreen(w, k)
    BY <1>9 DEF HasScreen
  <2>2. "Ready" \in OpStatus \ {"Working"}
    BY DEF OpStatus
  <2>3. QED
    BY <1>5, <1>9, <2>1, <2>2, OpsReplacedWhole
<1>12. RequestWhole(v)
  <2>1. p \in v.ops
    BY <1>9
  <2>2. \E x \in v.ops : /\ x.req = v.req /\ x.round = v.round.id
                         /\ (x.status = "Working") <=> (v.prepared = 0)
    BY <1>1, <1>5, <1>6, <1>9, <2>1
  <2>3. QED
    BY <1>1, <1>6, <1>9, <2>2 DEF RequestWhole
<1>13. w.start = NoTask /\ w.sampling = FALSE /\ w.source = 0
  BY <1>1 DEF Local, PlayWhole, LoadedUp, Session
<1>14. PlayWhole(v)
  BY <1>1, <1>6, <1>9, <1>10, <1>13 DEF PlayWhole
<1>15. RoundWhole(v)
  BY <1>1, <1>9 DEF RoundWhole, Local
<1>16. Stay(w, v)
  <2>1. ~Quiet(w) /\ ~Fit(w)
    BY <1>1 DEF Quiet, Fit, LoadedUp
  <2>2. KeepsSeat(w, v)
    BY <1>9 DEF KeepsSeat
  <2>3. QED
    BY <1>7, <1>9, <2>1, <2>2, StaySeat DEF Stay
<1>17. OutFits(v)
  BY <1>9 DEF OutFits, Silent
<1>18. RunningKept(w, v)
  BY <1>5, <1>9 DEF RunningKept
<1>19. QED
  BY <1>7, <1>9, <1>11, <1>12, <1>14, <1>15, <1>16, <1>17, <1>18
     DEF Sound, Local, v, r

LEMMA ExposePreparedSound ==
    ASSUME NEW w \in Session, Local(w), w.out = Silent,
           w.round.stage # "Probing", w.prepared # 0, NEW opens \in BOOLEAN
    PROVE  Sound(w, ExposePrepared(w, w.prepared, opens))
<1> DEFINE s == [req |-> w.prepared, ended |-> FALSE, done |-> FALSE,
                 leaving |-> FALSE]
           q == {t \in w.screens : t.req # w.prepared} \cup {s}
           v == [w EXCEPT !.bound = w.prepared, !.screens = q]
           u == ReportPreparedRound(v)
<1>0. OutFits(w)
  BY DEF OutFits, Silent
<1>1. CASE w.bound # 0
  BY <1>0, <1>1, ReportPreparedRoundSound DEF ExposePrepared
<1>2. CASE w.bound = 0 /\ opens
  <2>1. w.prepared \in Nat \ {0}
    BY DEF Session
  <2>2. s \in Screen /\ s.req = w.prepared
    BY <2>1 DEF Screen
  <2>3. ExposePrepared(w, w.prepared, opens) = u
    BY <1>2 DEF ExposePrepared, SetScreen
  <2> HIDE DEF s
  <2>4. q \in SUBSET Screen
    BY <2>2 DEF Session
  <2>5. \A r : (\E t \in q : t.req = r) <=> (HasScreen(w, r) \/ r = w.prepared)
    BY <2>2 DEF HasScreen
  <2>6. \A t \in q : t.req < w.nextReq
    BY <2>2 DEF Local, OpsWhole, RequestWhole
  <2> HIDE DEF q
  <2>7. v \in Session
    BY <2>1, <2>4 DEF Session
  <2>8. KeepsRest(w, v) /\ v.ops = w.ops /\ v.screens = q /\ v.out = w.out
    BY DEF Session, KeepsRest, KeepsSeat, KeepsVerdict, KeepsRetained,
           KeepsRequest, KeepsPlay
  <2> HIDE DEF v
  <2>9. \A r : HasScreen(v, r) <=> (HasScreen(w, r) \/ r = w.prepared)
    BY <2>5, <2>8 DEF HasScreen
  <2>10. w.prepared = w.req /\ w.op = "Load"
    BY DEF Local, RequestWhole
  <2>11. OpsWhole(v)
    <3>1. /\ v.ops = w.ops /\ v.req = w.req /\ v.keptReq = w.keptReq
          /\ v.forgotten = w.forgotten
          /\ v.op = w.op /\ v.nextReq = w.nextReq
      BY <2>8 DEF KeepsRest, KeepsRetained, KeepsRequest
    <3>2. \A o \in w.ops : o.req = w.prepared => o.kind = "Load"
      BY <2>10 DEF Local, OpsWhole
    <3>3. \A o \in w.ops : HasScreen(v, o.req) => o.kind = "Load"
      BY <2>9, <3>2 DEF Local, OpsWhole
    <3>4. QED
      BY <2>6, <2>8, <2>9, <3>1, <3>3 DEF OpsWhole, Local
  <2>12. \A r : /\ Status(v, r) = Status(w, r)
                /\ Pending(v, r) <=> Pending(w, r)
    BY <2>8, StatusSame
  <2>13. RequestWhole(v) /\ RetainedWhole(v)
    BY <2>8 DEF RequestWhole, RetainedWhole, Watched, Local, KeepsRest, KeepsRequest,
                KeepsSeat, KeepsRetained
  <2>14. /\ v.exposed = w.exposed /\ v.start = w.start /\ v.source = w.source
         /\ v.guid = w.guid /\ v.sampling = w.sampling
         /\ v.prepared = w.prepared /\ v.round = w.round /\ v.state = w.state
         /\ v.submitted = w.submitted /\ v.req = w.req
         /\ v.phase = w.phase /\ v.abandoned = w.abandoned
         /\ v.terminal = w.terminal
    BY <2>8 DEF KeepsRest, KeepsRequest, KeepsPlay, KeepsSeat, KeepsVerdict
  <2>15. LoadedUp(v) <=> LoadedUp(w)
    BY <2>12, <2>14 DEF LoadedUp
  <2>16. PlayWhole(v)
    BY <2>9, <2>12, <2>14, <2>15 DEF PlayWhole, Local
  <2>17. RoundWhole(v)
    BY <2>12, <2>14 DEF RoundWhole, Local
  <2>18. Stay(w, v)
    <3>1. (Quiet(w) => Quiet(v)) /\ (Fit(w) => Fit(v))
      BY <2>12, <2>14, <2>15 DEF Quiet, Fit
    <3>2. KeepsSeat(w, v) /\ KeepsVerdict(w, v) /\ v.retained = w.retained
      BY <2>8 DEF KeepsRest, KeepsRetained
    <3>3. QED
      BY <2>7, <3>1, <3>2, StaySeat DEF Stay, KeepsVerdict
  <2>19. OutFits(v)
    BY <2>8 DEF OutFits, Silent
  <2>20. Local(v)
    BY <2>11, <2>13, <2>16, <2>17 DEF Local
  <2>21. Sound(v, u)
    BY <2>7, <2>19, <2>20, ReportPreparedRoundSound
  <2>22. u \in Session
    BY <2>7, ReportPreparedRoundType
  <2> HIDE DEF u
  <2>23. RunningKept(w, v)
    BY <2>8 DEF RunningKept
  <2>24. QED
    BY <2>3, <2>7, <2>14, <2>18, <2>21, <2>22, <2>23, SoundThrough
<1>3. CASE w.bound = 0 /\ ~opens
  BY <1>3, AbandonCurrentRoundSound DEF ExposePrepared
<1>4. QED
  BY <1>1, <1>2, <1>3

LEMMA OperationOf ==
    ASSUME NEW w \in Session, OpsWhole(w), NEW r, OpsOf(w, r) # {}
    PROVE  \E o \in w.ops : /\ o.req = r /\ o.status = Status(w, r)
                            /\ Pending(w, r) <=> o.pending
<1>1. PICK o \in w.ops : o.req = r
  BY DEF OpsOf
<1>2. /\ Status(w, o.req) = o.status
      /\ Pending(w, o.req) <=> o.pending
  BY StatusOf DEF OpsWhole
<1>3. QED
  BY <1>1, <1>2

\* A loaded operation moves on, or asks for the start.
LEMMA ReplacedSound ==
    ASSUME NEW w \in Session, Local(w), NEW o \in w.ops, NEW p \in Operation,
           p.req = o.req, p.kind = o.kind, p.round = o.round,
           o.kind = "Load", o.status # "Working", p.status # "Working",
           p.status # "Ready" \/ p.pending =>
             HasScreen(w, o.req) \/ o.req \notin {w.req, w.keptReq},
           p.status = "Ready" => o.status = "Ready",
           NEW u \in Session,
           KeepsSeat(w, u), KeepsVerdict(w, u), KeepsRetained(w, u),
           KeepsRequest(w, u), KeepsScreens(w, u),
           u.ops = (w.ops \ {o}) \cup {p},
           u.exposed = w.exposed, u.source = w.source, u.guid = w.guid,
           u.start \in {w.start, NoTask},
           o.status = "Ready" /\ (w.round.stage = "Loading" \/ u.start # NoTask)
              => p.status = "Ready" /\ p.pending,
           o.status = "Ready" /\ p.status # "Ready"
              => w.round.stage \in {"Scheduled", "Playing"},
           u.sampling => /\ u.source # 0
                         /\ Status(u, u.source) = "Running"
                         /\ ~u.submitted
    PROVE  Local(u) /\ Stay(w, u)
<1>1. /\ \A a, b \in u.ops : a.req = b.req => a = b
      /\ Status(u, o.req) = p.status
      /\ Pending(u, o.req) = p.pending
      /\ \A r : r # o.req => /\ Status(u, r) = Status(w, r)
                             /\ Pending(u, r) <=> Pending(w, r)
  <2>1. p.pending \in BOOLEAN
    BY DEF Operation
  <2>2. OpsWhole(w)
    BY DEF Local
  <2>3. QED
    BY <2>1, <2>2, OpsReplaced
<1>2. /\ Status(w, o.req) = o.status
      /\ Pending(w, o.req) <=> o.pending
  BY StatusOf DEF Local, OpsWhole
<1>3. /\ u.state = w.state /\ u.phase = w.phase /\ u.round = w.round
      /\ u.terminal = w.terminal /\ u.abandoned = w.abandoned
      /\ u.submitted = w.submitted /\ u.retained = w.retained
      /\ u.keptReq = w.keptReq
      /\ u.forgotten = w.forgotten /\ u.nextReq = w.nextReq
      /\ u.req = w.req /\ u.op = w.op /\ u.probe = w.probe
      /\ u.loadRound = w.loadRound /\ u.prepared = w.prepared
      /\ \A r : HasScreen(u, r) <=> HasScreen(w, r)
  BY DEF KeepsSeat, KeepsVerdict, KeepsRetained, KeepsRequest, KeepsScreens
<1>4. OpsWhole(u) /\ RetainedWhole(u)
  <2>1. p.status \in OpStatus \ {"Working"}
    BY DEF Operation
  <2>2. p.kind = "Load"
    OBVIOUS
  <2>3. QED
    BY <1>3, <2>1, <2>2, OpsReplacedWhole
<1>5. RequestWhole(u)
  <2>1. w.op = "Load" =>
          \E x \in u.ops : /\ x.req = w.req /\ x.round = w.round.id
                           /\ (x.status = "Working") <=> (w.prepared = 0)
    <3> SUFFICES ASSUME w.op = "Load"
                 PROVE  \E x \in u.ops :
                          /\ x.req = w.req /\ x.round = w.round.id
                          /\ (x.status = "Working") <=> (w.prepared = 0)
      OBVIOUS
    <3>1. PICK x \in w.ops : /\ x.req = w.req /\ x.round = w.round.id
                             /\ (x.status = "Working") <=> (w.prepared = 0)
      BY DEF Local, RequestWhole
    <3>2. CASE x = o
      <4>1. /\ p \in u.ops /\ p.req = w.req /\ p.round = w.round.id
            /\ (p.status = "Working") <=> (w.prepared = 0)
        BY <3>1, <3>2
      <4>2. QED
        BY <4>1
    <3>3. CASE x # o
      BY <3>1, <3>3
    <3>4. QED
      BY <3>2, <3>3
  <2>2. QED
    BY <1>3, <2>1 DEF RequestWhole, Local
<1>6. \/ w.prepared # o.req
      \/ w.prepared = o.req
  OBVIOUS
<1>7. PlayWhole(u)
  <2>1. (u.exposed => u.prepared # 0)
        /\ (u.source # 0 => u.source = u.prepared /\ u.guid = u.source)
    BY <1>3 DEF PlayWhole, Local
  <2>2. u.exposed /\ Pending(u, u.prepared) => HasScreen(u, u.prepared)
    <3>1. w.exposed => w.prepared = w.req
      BY DEF PlayWhole, RequestWhole, Local
    <3>2. CASE w.prepared # o.req
      BY <1>1, <1>3, <3>2 DEF PlayWhole, Local
    <3>3. CASE w.prepared = o.req
      BY <1>1, <1>3, <3>1, <3>3
    <3>4. QED
      BY <3>2, <3>3
  <2>3. u.prepared # 0 /\ Status(u, u.prepared) \in {"Running", "Finished"} =>
          u.round.stage \in {"Scheduled", "Playing"}
    <3>1. CASE w.prepared # o.req
      BY <1>1, <1>3, <3>1 DEF PlayWhole, Local
    <3>2. CASE w.prepared = o.req
      <4>1. o.status \in {"Ready", "Running", "Finished"}
        BY OpTyped DEF OpStatus
      <4>2. QED
        BY <1>1, <1>2, <1>3, <3>2, <4>1 DEF PlayWhole, Local
    <3>3. QED
      BY <3>1, <3>2
  <2>4. u.start # NoTask =>
          /\ u.state = "InRoom"
          /\ u.start = [round |-> u.round.id, runner |-> u.prepared]
          /\ LoadedUp(u)
          /\ u.round.stage \in {"Scheduled", "Playing"}
          /\ ~u.submitted
    <3> SUFFICES ASSUME u.start # NoTask
                 PROVE  /\ u.state = "InRoom"
                        /\ u.start = [round |-> u.round.id,
                                      runner |-> u.prepared]
                        /\ LoadedUp(u)
                        /\ u.round.stage \in {"Scheduled", "Playing"}
                        /\ ~u.submitted
      OBVIOUS
    <3>1. u.start = w.start
      OBVIOUS
    <3>2. /\ w.state = "InRoom"
          /\ w.start = [round |-> w.round.id, runner |-> w.prepared]
          /\ LoadedUp(w)
          /\ w.round.stage \in {"Scheduled", "Playing"}
          /\ ~w.submitted
      BY <3>1 DEF PlayWhole, Local
    <3>3. LoadedUp(u)
      <4>1. CASE w.prepared = o.req
        <5>1. o.status = "Ready"
          BY <1>2, <3>2, <4>1 DEF LoadedUp
        <5>2. p.status = "Ready" /\ p.pending
          BY <5>1
        <5>3. u.prepared = o.req
          BY <1>3, <4>1
        <5>4. Pending(u, o.req)
          BY ONLY <1>1, <5>2
        <5>5. Status(u, o.req) = "Ready"
          BY <1>1, <5>2
        <5>6. u.prepared # 0 /\ u.exposed
          BY <1>3, <3>2 DEF LoadedUp
        <5>7. QED
          BY ONLY <5>3, <5>4, <5>5, <5>6 DEF LoadedUp
      <4>2. CASE w.prepared # o.req
        BY <1>1, <1>3, <3>2, <4>2 DEF LoadedUp
      <4>3. QED
        BY <4>1, <4>2
    <3>4. QED
      BY <1>3, <3>1, <3>2, <3>3
  <2>5. QED
    BY <2>1, <2>2, <2>3, <2>4 DEF PlayWhole
<1>8. Status(w, w.prepared) # "Ready" => Status(u, u.prepared) # "Ready"
  BY <1>1, <1>2, <1>3
<1>9. RoundWhole(u)
  BY <1>3, <1>8 DEF RoundWhole, Local
<1>10. Stay(w, u)
  <2>1. Quiet(w) => Quiet(u)
    BY <1>3, <1>8 DEF Quiet
  <2>2. Fit(w) => Fit(u)
    <3>1. CASE w.prepared = o.req
      BY <1>1, <1>2, <1>3, <3>1 DEF Fit, LoadedUp
    <3>2. CASE w.prepared # o.req
      BY <1>1, <1>3, <3>2 DEF Fit, LoadedUp
    <3>3. QED
      BY <3>1, <3>2
  <2>3. QED
    BY <1>3, <2>1, <2>2, StaySeat DEF Stay
<1>11. QED
  BY <1>4, <1>5, <1>7, <1>9, <1>10 DEF Local

LEMMA ScreenHasLoad ==
    ASSUME NEW w \in Session, Local(w), NEW s \in w.screens,
           OpsOf(w, s.req) # {}
    PROVE  \E o \in w.ops : /\ o.req = s.req /\ o.status = Status(w, s.req)
                            /\ Pending(w, s.req) <=> o.pending
                            /\ o.kind = "Load"
<1>1. PICK o \in w.ops : /\ o.req = s.req /\ o.status = Status(w, s.req)
                         /\ Pending(w, s.req) <=> o.pending
  BY OperationOf DEF Local
<1>2. HasScreen(w, o.req)
  BY <1>1 DEF HasScreen
<1>3. o.kind = "Load"
  BY <1>2 DEF Local, OpsWhole
<1>4. QED
  BY <1>1, <1>3

LEMMA ScreenStartsSound ==
    ASSUME NEW w \in Session, Local(w), w.out = Silent, NEW s \in w.screens,
           Status(w, s.req) = "Ready"
    PROVE  LET v == SetOp(w, s.req, "Ready", TRUE)
           IN  Sound(w, v) /\ Sound(w, ReportPreparedRound(v))
<1> DEFINE v == SetOp(w, s.req, "Ready", TRUE)
<1>1. OpsOf(w, s.req) # {}
  BY DEF Status
<1>2. PICK o \in w.ops : /\ o.req = s.req /\ o.status = "Ready"
                         /\ o.kind = "Load"
  BY <1>1, ScreenHasLoad
<1>3. o \in Operation
  BY OpTyped
<1> DEFINE p == Renewed(o, "Ready", TRUE)
<1>4. /\ p.req = o.req /\ p.kind = o.kind /\ p.round = o.round
      /\ p.status = "Ready" /\ p.pending = TRUE
  BY <1>3, RenewedIs DEF OpStatus
<1>5. p \in Operation
  BY <1>3 DEF Renewed, Operation, OpStatus
<1>6. v \in Session
  BY SetOpType DEF OpStatus
<1>7. /\ KeepsRest(w, v) /\ v.screens = w.screens /\ v.out = w.out
      /\ v.ops = (w.ops \ {o}) \cup {p}
  <2>1. OpsWhole(w) /\ "Ready" \in OpStatus
    BY DEF Local, OpStatus
  <2>2. PICK b \in BOOLEAN : b = TRUE
    OBVIOUS
  <2>3. v = SetOp(w, o.req, "Ready", b) /\ p = Renewed(o, "Ready", b)
    BY <1>2, <2>2
  <2> HIDE DEF p, v
  <2>4. QED
    BY <2>1, <2>3, SetOpIs
<1> HIDE DEF p, v
<1>8. HasScreen(w, o.req)
  BY <1>2 DEF HasScreen
<1>9. v.sampling => /\ v.source # 0
                    /\ Status(v, v.source) = "Running"
                    /\ ~v.submitted
  <2>1. w.sampling => /\ w.source # 0
                      /\ Status(w, w.source) = "Running"
                      /\ ~w.submitted
    BY DEF Local, PlayWhole
  <2>2. w.source = o.req => Status(w, w.source) = "Ready"
    BY <1>2
  <2>3. \A r : r # o.req => Status(v, r) = Status(w, r)
    <3>1. p.pending \in BOOLEAN /\ p.req = o.req
      BY <1>4
    <3>2. OpsWhole(w) /\ v.ops = (w.ops \ {o}) \cup {p}
      BY <1>7 DEF Local
    <3>3. QED
      BY <1>2, <3>1, <3>2, OpsReplaced
  <2>4. /\ v.sampling = w.sampling /\ v.source = w.source
        /\ v.submitted = w.submitted
    BY <1>7 DEF KeepsRest, KeepsPlay, KeepsVerdict
  <2>5. QED
    BY <2>1, <2>2, <2>3, <2>4
<1>10. Local(v) /\ Stay(w, v)
  <2>1. /\ KeepsSeat(w, v) /\ KeepsVerdict(w, v) /\ KeepsRetained(w, v)
        /\ KeepsRequest(w, v) /\ KeepsScreens(w, v)
        /\ v.exposed = w.exposed /\ v.source = w.source /\ v.guid = w.guid
        /\ v.start \in {w.start, NoTask}
    BY <1>7 DEF KeepsRest, KeepsPlay, KeepsScreens, HasScreen
  <2>2. v.ops = (w.ops \ {o}) \cup {p}
    BY <1>7
  <2>3. /\ p.req = o.req /\ p.kind = o.kind /\ p.round = o.round
        /\ p.status = "Ready" /\ p.pending
        /\ o.kind = "Load" /\ o.status = "Ready"
    BY <1>2, <1>4
  <2>4. QED
    BY <1>2, <1>5, <1>6, <1>8, <1>9, <2>1, <2>2, <2>3, ReplacedSound
<1>11. RunningKept(w, v)
  BY <1>4, <1>7 DEF RunningKept
<1>12. OutFits(v)
  BY <1>7 DEF OutFits, Silent
<1>13. Sound(w, v)
  BY <1>7, <1>10, <1>11, <1>12 DEF Sound, KeepsRest, KeepsSeat
<1>14. Sound(v, ReportPreparedRound(v))
  BY <1>6, <1>10, <1>12, ReportPreparedRoundSound
<1>15. ReportPreparedRound(v) \in Session
  BY <1>6, ReportPreparedRoundType
<1>16. Sound(w, ReportPreparedRound(v))
  BY <1>6, <1>13, <1>14, <1>15, SoundThrough DEF Sound
<1>17. QED
  BY <1>13, <1>16 DEF v

-----------------------------------------------------------------------------
(* A runner ends.                                                          *)

LEMMA FinishDoes ==
    ASSUME NEW w \in Session, Local(w), NEW o \in w.ops
    PROVE  LET u == Finish(w, o.req)
           IN  /\ KeepsSeat(w, u) /\ KeepsVerdict(w, u) /\ KeepsRetained(w, u)
               /\ KeepsRequest(w, u) /\ KeepsScreens(w, u)
               /\ u.exposed = w.exposed /\ u.start = w.start
               /\ u.source = w.source /\ u.guid = w.guid
               /\ u.sampling \in BOOLEAN
               /\ u.sampling => w.sampling /\ w.source # o.req
               /\ u.ops = (w.ops \ {o}) \cup {Renewed(o, "Finished", FALSE)}
               /\ u.out = w.out
<1> DEFINE F(s) == IF s.req = o.req THEN [s EXCEPT !.ended = TRUE] ELSE s
           q == {F(s) : s \in w.screens}
           v == [w EXCEPT !.screens = q]
           e == SetOp(v, o.req, "Finished", FALSE)
           u == Finish(w, o.req)
<1>1. w.screens \subseteq Screen
  BY DEF Session
<1>2. \A s \in Screen : F(s) \in Screen /\ F(s).req = s.req
  BY DEF Screen
<1>3. q \in SUBSET Screen
  BY <1>1, <1>2
<1>4. \A r : (\E t \in q : t.req = r) <=> (\E s \in w.screens : s.req = r)
  BY <1>1, <1>2
<1>5. u = IF w.source = o.req THEN StopTelemetrySampling(e) ELSE e
  <2>1. e.source = w.source
    BY DEF SetOp, Session
  <2>2. QED
    BY <2>1 DEF Finish
<1> HIDE DEF q
<1>6. v \in Session
  BY SMTT(30), <1>3 DEF Session
<1>7. /\ KeepsRest(w, v) /\ v.screens = q /\ v.ops = w.ops /\ v.out = w.out
  BY DEF Session, KeepsRest, KeepsSeat, KeepsVerdict, KeepsRetained,
         KeepsRequest, KeepsPlay
<1> HIDE DEF v
<1>8. e \in Session
  BY <1>6, SetOpType DEF OpStatus
<1>9. /\ KeepsRest(v, e) /\ e.screens = v.screens /\ e.out = v.out
      /\ e.ops = (v.ops \ {o}) \cup {Renewed(o, "Finished", FALSE)}
  <2> DEFINE qq == {IF x.req = o.req
                     THEN [x EXCEPT !.status = "Finished", !.pending = FALSE]
                     ELSE x : x \in v.ops}
  <2>1. qq = (v.ops \ {o}) \cup {Renewed(o, "Finished", FALSE)}
    BY <1>7 DEF Renewed, OpsWhole, Local
  <2>2. e = [v EXCEPT !.ops = qq]
    BY DEF SetOp
  <2> HIDE DEF qq, e
  <2>3. /\ KeepsRest(v, e) /\ e.screens = v.screens /\ e.out = v.out
        /\ e.ops = qq
    BY <1>6, <2>2 DEF Session, KeepsRest, KeepsSeat, KeepsVerdict,
       KeepsRetained, KeepsRequest, KeepsPlay
  <2>4. QED
    BY <2>1, <2>3
<1> HIDE DEF e
<1>10. /\ KeepsRest(w, e) /\ e.screens = q /\ e.out = w.out
       /\ e.ops = (w.ops \ {o}) \cup {Renewed(o, "Finished", FALSE)}
  BY <1>7, <1>9 DEF KeepsRest, KeepsSeat, KeepsVerdict, KeepsRetained,
                    KeepsRequest, KeepsPlay
<1> DEFINE z == [e EXCEPT !.sampling = FALSE]
<1>11. /\ KeepsSeat(e, z) /\ KeepsVerdict(e, z) /\ KeepsRetained(e, z)
       /\ KeepsRequest(e, z) /\ z.screens = e.screens /\ z.ops = e.ops
       /\ z.exposed = e.exposed /\ z.start = e.start
       /\ z.source = e.source /\ z.guid = e.guid /\ z.sampling = FALSE
       /\ z.out = e.out
  BY <1>8 DEF Session, KeepsSeat, KeepsVerdict, KeepsRetained, KeepsRequest
<1>12. u = IF w.source = o.req THEN z ELSE e
  BY <1>5 DEF StopTelemetrySampling
<1> HIDE DEF u, z
<1>13. w.sampling \in BOOLEAN
  BY DEF Session
<1>14. \A x : x.screens = q => KeepsScreens(w, x)
  BY <1>4 DEF KeepsScreens, HasScreen
<1>15. CASE w.source = o.req
  <2>1. u = z
    BY <1>12, <1>15
  <2>2. KeepsScreens(w, u)
    BY <1>10, <1>11, <1>14, <2>1
  <2>3. QED
    BY <1>10, <1>11, <2>1, <2>2
       DEF KeepsRest, KeepsSeat, KeepsVerdict, KeepsRetained, KeepsRequest,
           KeepsPlay, u
<1>16. CASE w.source # o.req
  <2>1. u = e
    BY <1>12, <1>16
  <2>2. KeepsScreens(w, u)
    BY <1>10, <1>14, <2>1
  <2>3. QED
    BY <1>10, <1>13, <1>16, <2>1, <2>2 DEF KeepsRest, KeepsPlay, u
<1>17. QED
  BY <1>15, <1>16

LEMMA FinishSound ==
    ASSUME NEW w \in Session, Local(w), w.out = Silent, NEW o \in w.ops,
           o.kind = "Load", o.status \in {"Running", "Finished"}
    PROVE  LET u == Finish(w, o.req)
           IN  /\ Sound(w, u) /\ u.out = Silent
               /\ u \in Session /\ KeepsScreens(w, u)
               /\ u.sampling => u.source # o.req
<1> DEFINE u == Finish(w, o.req)
           p == Renewed(o, "Finished", FALSE)
<1>1. u \in Session
  BY FinishType
<1>2. /\ KeepsSeat(w, u) /\ KeepsVerdict(w, u) /\ KeepsRetained(w, u)
      /\ KeepsRequest(w, u) /\ KeepsScreens(w, u)
      /\ u.exposed = w.exposed /\ u.start = w.start
      /\ u.source = w.source /\ u.guid = w.guid
      /\ u.sampling \in BOOLEAN
      /\ u.sampling => w.sampling /\ w.source # o.req
      /\ u.ops = (w.ops \ {o}) \cup {p}
      /\ u.out = w.out
  BY FinishDoes
<1>3. o \in Operation
  BY OpTyped
<1>4. /\ p.req = o.req /\ p.kind = o.kind /\ p.round = o.round
      /\ p.status = "Finished" /\ p.pending = FALSE
  BY <1>3, RenewedIs DEF OpStatus
<1>5. p \in Operation
  BY <1>3 DEF Renewed, Operation, OpStatus
<1> HIDE DEF u, p
<1>6. HasScreen(w, o.req) \/ o.req \notin {w.req, w.keptReq}
  BY DEF Local, OpsWhole
<1>7. u.sampling => /\ u.source # 0
                    /\ Status(u, u.source) = "Running"
                    /\ ~u.submitted
  <2>1. w.sampling => /\ w.source # 0
                      /\ Status(w, w.source) = "Running"
                      /\ ~w.submitted
    BY DEF Local, PlayWhole
  <2>2. \A r : r # o.req => Status(u, r) = Status(w, r)
    <3>1. p.pending \in BOOLEAN /\ p.req = o.req
      BY <1>4
    <3>2. OpsWhole(w) /\ u.ops = (w.ops \ {o}) \cup {p}
      BY <1>2 DEF Local
    <3>3. QED
      BY <3>1, <3>2, OpsReplaced
  <2>3. QED
    BY <1>2, <2>1, <2>2 DEF KeepsVerdict
<1>8. Local(u) /\ Stay(w, u)
  <2>1. /\ p.req = o.req /\ p.kind = o.kind /\ p.round = o.round
        /\ p.status = "Finished" /\ o.status # "Ready"
        /\ o.status # "Working"
    BY <1>4
  <2>2. u.start \in {w.start, NoTask}
    BY <1>2
  <2>3. QED
    BY <1>1, <1>2, <1>5, <1>6, <1>7, <2>1, <2>2, ReplacedSound
<1>9. RunningKept(w, u)
  BY <1>2, <1>4 DEF RunningKept
<1>10. OutFits(u)
  BY <1>2 DEF OutFits, Silent
<1>11. QED
  BY <1>1, <1>2, <1>8, <1>9, <1>10 DEF Sound, KeepsSeat, u

LEMMA DetachSound ==
    ASSUME NEW w \in Session, Local(w), OutFits(w), w.sampling = FALSE
    PROVE  Sound(w, DetachGameplaySource(w, TRUE))
<1> DEFINE u == DetachGameplaySource(w, TRUE)
<1>1. u \in Session
  BY DetachGameplaySourceType
<1>2. /\ KeepsSeat(w, u) /\ KeepsVerdict(w, u) /\ KeepsRetained(w, u)
      /\ KeepsRequest(w, u) /\ u.screens = w.screens /\ u.ops = w.ops
      /\ u.exposed = w.exposed /\ u.start = w.start
      /\ u.source = 0 /\ u.sampling = w.sampling /\ u.out = w.out
  BY DEF DetachGameplaySource, Session, KeepsSeat, KeepsVerdict,
         KeepsRetained, KeepsRequest
<1> HIDE DEF u
<1>3. \A r : /\ Status(u, r) = Status(w, r)
             /\ Pending(u, r) <=> Pending(w, r)
  BY <1>2, StatusSame
<1>4. /\ u.state = w.state /\ u.phase = w.phase /\ u.round = w.round
      /\ u.terminal = w.terminal /\ u.abandoned = w.abandoned
      /\ u.submitted = w.submitted /\ u.retained = w.retained
      /\ u.keptReq = w.keptReq
      /\ u.forgotten = w.forgotten /\ u.nextReq = w.nextReq
      /\ u.req = w.req /\ u.op = w.op /\ u.probe = w.probe
      /\ u.loadRound = w.loadRound /\ u.prepared = w.prepared
      /\ \A r : HasScreen(u, r) <=> HasScreen(w, r)
  BY <1>2 DEF KeepsSeat, KeepsVerdict, KeepsRetained, KeepsRequest, HasScreen
<1>5. OpsWhole(u) /\ RequestWhole(u) /\ RetainedWhole(u)
  BY <1>2, <1>4 DEF OpsWhole, RequestWhole, RetainedWhole, Watched, Local
<1>6. LoadedUp(u) <=> LoadedUp(w)
  BY <1>2, <1>3, <1>4 DEF LoadedUp
<1>7. PlayWhole(u)
  BY <1>2, <1>3, <1>4, <1>6 DEF PlayWhole, Local
<1>8. RoundWhole(u)
  BY <1>3, <1>4 DEF RoundWhole, Local
<1>9. Stay(w, u)
  <2>1. (Quiet(w) => Quiet(u)) /\ (Fit(w) => Fit(u))
    BY <1>3, <1>4, <1>6 DEF Quiet, Fit
  <2>2. QED
    BY <1>1, <1>2, <1>4, <2>1, StaySeat DEF Stay
<1>10. OutFits(u)
  BY <1>2, <1>4, <1>6 DEF OutFits
<1>11. QED
  BY <1>2, <1>4, <1>5, <1>7, <1>8, <1>9, <1>10
     DEF Sound, Local, RunningKept, u

\* The result or the DNF of a runner that has finished.
LEMMA SettledSound ==
    ASSUME NEW w \in Session, Local(w),
           w.source # 0, Status(w, w.source) = "Finished",
           w.submitted = FALSE,
           NEW u \in Session,
           KeepsSeat(w, u), KeepsRetained(w, u), KeepsRequest(w, u),
           u.screens = w.screens, u.ops = w.ops,
           u.exposed = w.exposed, u.start = w.start,
           u.source \in {0, w.source}, u.guid = w.guid, u.sampling = FALSE,
           u.submitted = TRUE,
           u.terminal.round = w.round.id,
           \/ /\ u.terminal.kind = "Result"
              /\ u.terminal.chart = w.round.id
              /\ u.abandoned = w.abandoned
           \/ u.terminal.kind = "Dnf",
           \/ u.out = Silent
           \/ /\ SaysTerminal(u)
              /\ w.round.stage = "Playing" \/ u.terminal.kind = "Dnf"
    PROVE  Sound(w, u)
<1>1. /\ w.source = w.prepared /\ w.guid = w.source /\ w.prepared # 0
      /\ w.round.stage \in {"Scheduled", "Playing"} /\ w.start = NoTask
  BY DEF Local, PlayWhole, LoadedUp
<1>2. /\ w.prepared = w.req /\ w.op = "Load" /\ w.round.mine
  BY <1>1 DEF Local, RequestWhole
<1>3. w.abandoned = FALSE
  BY DEF Local, RoundWhole, Session
<1>4. \A r : /\ Status(u, r) = Status(w, r)
             /\ Pending(u, r) <=> Pending(w, r)
  BY StatusSame
<1>5. /\ u.state = w.state /\ u.phase = w.phase /\ u.round = w.round
      /\ u.retained = w.retained
      /\ u.keptReq = w.keptReq
      /\ u.forgotten = w.forgotten /\ u.nextReq = w.nextReq
      /\ u.req = w.req /\ u.op = w.op /\ u.probe = w.probe
      /\ u.loadRound = w.loadRound /\ u.prepared = w.prepared
      /\ \A r : HasScreen(u, r) <=> HasScreen(w, r)
  BY DEF KeepsSeat, KeepsRetained, KeepsRequest, HasScreen
<1>6. OpsWhole(u) /\ RequestWhole(u) /\ RetainedWhole(u)
  BY <1>5 DEF OpsWhole, RequestWhole, RetainedWhole, Watched, Local
<1>7. PlayWhole(u)
  BY <1>1, <1>4, <1>5 DEF PlayWhole, Local
<1>8. RoundWhole(u)
  BY <1>1, <1>2, <1>4, <1>5 DEF RoundWhole, Local
<1>9. Stay(w, u)
  <2>1. Quiet(u) /\ Fit(u)
    BY <1>1, <1>5 DEF Quiet, Fit
  <2>2. QED
    BY <1>3, <1>5, <2>1, StaySeat DEF Stay
<1>10. OutFits(u)
  BY <1>5 DEF OutFits, Silent, SaysTerminal
<1>11. QED
  BY <1>5, <1>6, <1>7, <1>8, <1>9, <1>10 DEF Sound, Local, RunningKept

\* submitLocalResult sends one terminal, with the chart of the round.
LEMMA SubmitLocalResultSound ==
    ASSUME NEW w \in Session, Local(w), w.out = Silent, NEW r \in Nat,
           OpsOf(w, r) # {}, NEW captured \in BOOLEAN
    PROVE  Sound(w, SubmitLocalResult(w, r, captured))
<1> DEFINE chart == (CHOOSE o \in OpsOf(w, r) : TRUE).round
           v == StopTelemetrySampling(w)
           x == IF captured THEN SendTerminal(v, "Result", chart)
                            ELSE SendAbandon([v EXCEPT !.abandoned = TRUE])
           u == DetachGameplaySource(x, TRUE)
<1>1. OutFits(w)
  BY DEF OutFits, Silent
<1>2. CASE w.round.id = 0 \/ w.guid # r \/ w.guid = 0
  <2>1. SubmitLocalResult(w, r, captured) = w
    BY <1>2 DEF SubmitLocalResult
  <2>2. QED
    BY <1>1, <2>1, SoundSame
<1>3. CASE /\ ~(w.round.id = 0 \/ w.guid # r \/ w.guid = 0)
           /\ w.abandoned
  <2>1. SubmitLocalResult(w, r, captured) = DetachGameplaySource(w, TRUE)
    BY <1>3 DEF SubmitLocalResult
  <2>2. w.sampling = FALSE
    BY <1>3 DEF Local, RoundWhole, PlayWhole, Session
  <2>3. QED
    BY <1>1, <2>1, <2>2, DetachSound
<1>4. CASE /\ ~(w.round.id = 0 \/ w.guid # r \/ w.guid = 0)
           /\ ~w.abandoned
           /\ \/ w.submitted
              \/ w.terminal.kind # "None"
              \/ w.source = 0
              \/ Status(w, w.source) # "Finished"
  <2>1. SubmitLocalResult(w, r, captured) = w
    BY <1>4 DEF SubmitLocalResult
  <2>2. QED
    BY <1>1, <2>1, SoundSame
<1>5. CASE /\ w.round.id # 0 /\ w.guid = r /\ w.guid # 0
           /\ ~w.abandoned
           /\ ~w.submitted
           /\ w.terminal.kind = "None"
           /\ w.source # 0
           /\ Status(w, w.source) = "Finished"
  <2>1. SubmitLocalResult(w, r, captured) = u
    BY <1>5 DEF SubmitLocalResult
  <2>2. v \in Session
    BY TelemetryType
  <2>3. /\ KeepsSeat(w, v) /\ KeepsVerdict(w, v) /\ KeepsRetained(w, v)
        /\ KeepsRequest(w, v) /\ v.screens = w.screens /\ v.ops = w.ops
        /\ v.exposed = w.exposed /\ v.start = w.start
        /\ v.source = w.source /\ v.guid = w.guid
        /\ v.sampling = FALSE /\ v.out = w.out
    BY DEF StopTelemetrySampling, Session, KeepsSeat, KeepsVerdict,
           KeepsRetained, KeepsRequest
  <2> DEFINE y == [v EXCEPT !.abandoned = TRUE]
  <2>4. y \in Session
    BY <2>2, VerdictFields
  <2>5. /\ KeepsSeat(w, y) /\ KeepsRetained(w, y)
        /\ KeepsRequest(w, y) /\ y.screens = w.screens /\ y.ops = w.ops
        /\ y.exposed = w.exposed /\ y.start = w.start
        /\ y.source = w.source /\ y.guid = w.guid
        /\ y.sampling = FALSE /\ y.out = w.out
        /\ y.terminal = w.terminal /\ y.submitted = w.submitted
    BY <2>2, <2>3 DEF Session, KeepsSeat, KeepsRetained, KeepsRequest,
                      KeepsVerdict
  <2>6. w.submitted = FALSE
    BY SMTT(30), <1>5 DEF Session
  <2>7. chart = w.round.id /\ chart \in Nat
    <3>1. r = w.prepared /\ r = w.req /\ w.op = "Load"
      BY <1>5 DEF Local, PlayWhole, RequestWhole
    <3>2. PICK o \in w.ops : o.req = w.req /\ o.round = w.round.id
      BY <3>1 DEF Local, RequestWhole
    <3>3. OpsOf(w, r) = {o}
      BY <3>1, <3>2 DEF OpsOf, Local, OpsWhole
    <3>4. w.round.id \in Nat
      BY DEF Session
    <3>5. (CHOOSE p \in {o} : TRUE) = o
      OBVIOUS
    <3>6. QED
      BY <3>2, <3>3, <3>4, <3>5
  <2> HIDE DEF chart, v, y
  <2>8. /\ x \in Session
        /\ KeepsSeat(w, x) /\ KeepsRetained(w, x)
        /\ KeepsRequest(w, x) /\ x.screens = w.screens /\ x.ops = w.ops
        /\ x.exposed = w.exposed /\ x.start = w.start
        /\ x.source = w.source /\ x.guid = w.guid
        /\ x.sampling = FALSE /\ x.submitted = TRUE
        /\ x.terminal.round = w.round.id
        /\ \/ /\ x.terminal.kind = "Result"
              /\ x.terminal.chart = w.round.id
              /\ x.abandoned = w.abandoned
           \/ x.terminal.kind = "Dnf"
        /\ \/ x.out = Silent
           \/ /\ SaysTerminal(x)
              /\ w.round.stage = "Playing" \/ x.terminal.kind = "Dnf"
    <3>1. CASE captured
      <4> DEFINE z == SendTerminal(v, "Result", chart)
      <4>1. x = z
        BY <3>1
      <4>2. v.terminal.kind = "None" /\ v.submitted = FALSE
        BY <1>5, <2>3, <2>6 DEF KeepsVerdict
      <4>3. /\ KeepsSeat(v, z) /\ KeepsRetained(v, z)
            /\ KeepsRequest(v, z) /\ KeepsPlay(v, z)
            /\ z.screens = v.screens /\ z.ops = v.ops
            /\ z.submitted = TRUE /\ z.abandoned = v.abandoned
            /\ z.terminal.kind = "Result" /\ z.terminal.round = v.round.id
            /\ z.terminal.chart = chart
            /\ \/ z.out = v.out
               \/ SaysTerminal(z) /\ v.round.stage = "Playing"
        BY ZenonT(40), <2>2, <2>7, <4>2, SendResultDoes
      <4>4. z \in Session
        BY <2>2, <2>7, SendTerminalType
      <4> HIDE DEF x, z
      <4>5. QED
        BY <2>3, <2>7, <4>1, <4>3, <4>4
           DEF KeepsSeat, KeepsRetained, KeepsRequest, KeepsPlay, KeepsVerdict
    <3>2. CASE ~captured
      <4> DEFINE z == SendAbandon(y)
      <4>1. x = z
        BY <3>2 DEF y
      <4>2. y.terminal.kind = "None" /\ ~y.submitted /\ y.round.id # 0
        BY <1>5, <2>5, <2>6 DEF KeepsSeat
      <4>3. /\ KeepsSeat(y, z) /\ KeepsRetained(y, z)
            /\ KeepsRequest(y, z) /\ KeepsPlay(y, z)
            /\ z.screens = y.screens /\ z.ops = y.ops
            /\ z.submitted = TRUE /\ z.abandoned = TRUE
            /\ z.terminal.kind = "Dnf" /\ z.terminal.round = y.round.id
            /\ \/ z.out = y.out
               \/ SaysTerminal(z)
        BY <2>4, <4>2, SendAbandonDoes
      <4>4. z \in Session
        BY <2>4, SendAbandonType
      <4> HIDE DEF x, z
      <4>5. QED
        BY <2>5, <4>1, <4>3, <4>4
           DEF KeepsSeat, KeepsRetained, KeepsRequest, KeepsPlay, KeepsVerdict
    <3>3. QED
      BY <3>1, <3>2
  <2> HIDE DEF x
  <2>9. u \in Session
    BY <2>8, DetachGameplaySourceType
  <2>10. /\ KeepsSeat(x, u) /\ KeepsVerdict(x, u) /\ KeepsRetained(x, u)
         /\ KeepsRequest(x, u) /\ u.screens = x.screens /\ u.ops = x.ops
         /\ u.exposed = x.exposed /\ u.start = x.start
         /\ u.source = 0 /\ u.guid = x.guid
         /\ u.sampling = x.sampling /\ u.out = x.out
    BY <2>8 DEF DetachGameplaySource, Session, KeepsSeat, KeepsVerdict,
           KeepsRetained, KeepsRequest
  <2> HIDE DEF u
  <2>11. /\ KeepsSeat(w, u) /\ KeepsRetained(w, u)
         /\ KeepsRequest(w, u) /\ u.screens = w.screens /\ u.ops = w.ops
         /\ u.exposed = w.exposed /\ u.start = w.start
         /\ u.source = 0 /\ u.guid = w.guid
         /\ u.sampling = FALSE /\ u.submitted = TRUE
         /\ u.terminal.round = w.round.id
         /\ \/ /\ u.terminal.kind = "Result"
               /\ u.terminal.chart = w.round.id
               /\ u.abandoned = w.abandoned
            \/ u.terminal.kind = "Dnf"
         /\ \/ u.out = Silent
            \/ /\ SaysTerminal(u)
               /\ w.round.stage = "Playing" \/ u.terminal.kind = "Dnf"
    BY <2>8, <2>10
       DEF KeepsSeat, KeepsRetained, KeepsRequest, KeepsVerdict, SaysTerminal
  <2>12. Sound(w, u)
    BY <1>5, <2>6, <2>9, <2>11, SettledSound
  <2>13. QED
    BY <2>1, <2>12
<1>6. QED
  BY <1>2, <1>3, <1>4, <1>5

LEMMA SetScreenSound ==
    ASSUME NEW w \in Session, Local(w), OutFits(w), NEW s \in Screen,
           HasScreen(w, s.req)
    PROVE  Sound(w, SetScreen(w, s.req, s))
<1> DEFINE q == {t \in w.screens : t.req # s.req} \cup {s}
           u == [w EXCEPT !.screens = q]
<1>1. SetScreen(w, s.req, s) = u
  BY DEF SetScreen
<1>2. u \in Session
  BY <1>1, SetScreenType
<1>3. \A r : (\E t \in q : t.req = r) <=> HasScreen(w, r)
  BY DEF HasScreen
<1> HIDE DEF q
<1>4. KeepsRest(w, u) /\ u.screens = q /\ u.ops = w.ops /\ u.out = w.out
  BY DEF Session, KeepsRest, KeepsSeat, KeepsVerdict, KeepsRetained,
         KeepsRequest, KeepsPlay
<1> HIDE DEF u
<1>5. KeepsScreens(w, u)
  BY <1>3, <1>4 DEF KeepsScreens, HasScreen
<1>6. /\ Local(u) /\ Stay(w, u) /\ RunningKept(w, u)
      /\ LoadedUp(u) <=> LoadedUp(w)
  BY <1>2, <1>4, <1>5, SameSound
<1>7. OutFits(u)
  BY <1>4, <1>6 DEF OutFits, KeepsRest, KeepsSeat, KeepsVerdict
<1>8. QED
  BY <1>1, <1>4, <1>6, <1>7 DEF Sound, KeepsRest, KeepsSeat

LEMMA ScreenPresentsResultSound ==
    ASSUME NEW w \in Session, Local(w), w.out = Silent, NEW s \in w.screens,
           OpsOf(w, s.req) # {}, ~NotStarted(w, s.req),
           NEW captured \in BOOLEAN
    PROVE  Sound(w, SubmitLocalResult(
                      SetScreen(Finish(w, s.req), s.req,
                                [s EXCEPT !.ended = TRUE, !.done = TRUE]),
                      s.req, captured))
<1> DEFINE ended == Finish(w, s.req)
           t     == [s EXCEPT !.ended = TRUE, !.done = TRUE]
           shown == SetScreen(ended, s.req, t)
           u     == SubmitLocalResult(shown, s.req, captured)
<1>1. s \in Screen /\ s.req \in Nat
  <2>1. s \in Screen
    BY DEF Session
  <2>2. QED
    BY <2>1 DEF Screen
<1>2. t \in Screen /\ t.req = s.req
  BY <1>1 DEF Screen
<1>3. PICK o \in w.ops : /\ o.req = s.req /\ o.kind = "Load"
                         /\ o.status = Status(w, s.req)
  BY ScreenHasLoad
<1>4. o.status \in {"Running", "Finished"}
  BY <1>3, OpTyped DEF NotStarted, OpStatus
<1> HIDE DEF t
<1>5. /\ Sound(w, ended) /\ ended.out = Silent /\ ended \in Session
      /\ KeepsScreens(w, ended)
  BY <1>3, <1>4, FinishSound
<1>6. ended.ops = (w.ops \ {o}) \cup {Renewed(o, "Finished", FALSE)}
  BY <1>3, FinishDoes
<1> HIDE DEF ended
<1>7. HasScreen(ended, s.req) /\ OutFits(ended) /\ Local(ended)
  BY <1>5 DEF KeepsScreens, HasScreen, Sound
<1>8. Sound(ended, shown)
  BY <1>2, <1>5, <1>7, SetScreenSound
<1>9. shown \in Session
  BY <1>2, <1>5, SetScreenType
<1>10. shown.ops = ended.ops /\ shown.out = ended.out
  BY <1>5 DEF SetScreen, Session
<1>11. OpsOf(shown, s.req) # {}
  <2>1. o \in Operation
    BY OpTyped
  <2>2. Renewed(o, "Finished", FALSE).req = o.req
    BY <2>1, RenewedIs DEF OpStatus
  <2>3. Renewed(o, "Finished", FALSE) \in shown.ops
    BY <1>6, <1>10
  <2>4. QED
    BY <1>3, <2>2, <2>3 DEF OpsOf
<1> HIDE DEF shown
<1>12. Sound(shown, u)
  BY <1>1, <1>5, <1>8, <1>9, <1>10, <1>11, SubmitLocalResultSound DEF Sound
<1>13. u \in Session
  BY <1>1, <1>9, <1>11, SubmitLocalResultType
<1> HIDE DEF u
<1>14. Sound(ended, u)
  BY <1>5, <1>8, <1>9, <1>12, <1>13, SoundThrough DEF Sound
<1>15. Sound(w, u)
  BY <1>5, <1>13, <1>14, SoundThrough DEF Sound
<1>16. QED
  BY <1>15 DEF u, shown, ended, t

LEMMA PlayerAbandonsSound ==
    ASSUME NEW w \in Session, Local(w), Tidy(w), w.out = Silent,
           NEW s \in w.screens, ~s.leaving, NotStarted(w, s.req)
    PROVE  Sound(w, AbandonCurrentRound(w))
<1>1. PICK o \in w.ops : /\ o.req = s.req /\ o.kind = "Load"
                         /\ o.status = Status(w, s.req)
  BY ScreenHasLoad DEF NotStarted
<1>2. o.status \in {"Working", "Ready"}
  BY <1>1 DEF NotStarted
<1>3. o.req = w.req
  BY <1>1, <1>2 DEF Local, OpsWhole, Tidy
<1>4. QED
  BY <1>1, <1>3, AbandonCurrentRoundSound DEF Local, OpsWhole, RequestWhole

-----------------------------------------------------------------------------
(* A screen is taken off the stack.                                        *)

LEMMA ScreenGoneDoes ==
    ASSUME NEW w \in Session, NEW s \in w.screens, NEW b \in Nat
    PROVE  LET u == [w EXCEPT !.screens = w.screens \ {s}, !.bound = b]
           IN  /\ u \in Session /\ KeepsRest(w, u) /\ u.ops = w.ops
               /\ u.out = w.out /\ u.screens \subseteq w.screens
               /\ \A r : HasScreen(u, r) => HasScreen(w, r)
               /\ \A r : r # s.req /\ HasScreen(w, r) => HasScreen(u, r)
<1> DEFINE q == w.screens \ {s}
           u == [w EXCEPT !.screens = q, !.bound = b]
<1>1. q \in SUBSET Screen /\ q \subseteq w.screens
  BY DEF Session
<1>2. /\ \A r : (\E t \in q : t.req = r) => HasScreen(w, r)
      /\ \A r : r # s.req /\ HasScreen(w, r) => \E t \in q : t.req = r
  BY DEF HasScreen
<1> HIDE DEF q
<1>3. /\ u \in Session /\ KeepsRest(w, u) /\ u.ops = w.ops /\ u.out = w.out
      /\ u.screens = q
  BY <1>1 DEF Session, KeepsRest, KeepsSeat, KeepsVerdict, KeepsRetained,
         KeepsRequest, KeepsPlay
<1> HIDE DEF u
<1>4. QED
  BY <1>1, <1>2, <1>3 DEF HasScreen, u, q

\* Without the runner's screen, where the runner does not need it.
LEMMA ScreenGoneSound ==
    ASSUME NEW w \in Session, Local(w), w.out = Silent, NEW r,
           \A o \in w.ops : o.req = r =>
             \/ o.status \notin {"Running", "Finished"}
             \/ o.req \notin {w.req, w.keptReq},
           NEW u \in Session, KeepsSeat(w, u), KeepsVerdict(w, u),
           KeepsRetained(w, u), KeepsRequest(w, u),
           u.source = w.source, u.guid = w.guid, u.sampling = w.sampling,
           u.start = w.start,
           u.ops = w.ops, u.out = w.out,
           \A x : HasScreen(u, x) => HasScreen(w, x),
           \A x : x # r /\ HasScreen(w, x) => HasScreen(u, x),
           \/ u.exposed = w.exposed /\ w.prepared # r
           \/ u.exposed = FALSE /\ w.submitted
    PROVE  Sound(w, u)
<1>1. \A x : /\ Status(u, x) = Status(w, x)
             /\ Pending(u, x) <=> Pending(w, x)
  BY StatusSame
<1>2. /\ u.state = w.state /\ u.phase = w.phase /\ u.round = w.round
      /\ u.terminal = w.terminal /\ u.abandoned = w.abandoned
      /\ u.submitted = w.submitted /\ u.retained = w.retained
      /\ u.keptReq = w.keptReq
      /\ u.forgotten = w.forgotten /\ u.nextReq = w.nextReq
      /\ u.req = w.req /\ u.op = w.op /\ u.probe = w.probe
      /\ u.loadRound = w.loadRound /\ u.prepared = w.prepared
  BY DEF KeepsSeat, KeepsVerdict, KeepsRetained, KeepsRequest
<1>3. OpsWhole(u)
  <2>1. \A t \in u.screens : t.req < w.nextReq
    <3>1. \A t \in u.screens : HasScreen(w, t.req)
      BY DEF HasScreen
    <3>2. QED
      BY <3>1 DEF HasScreen, Local, OpsWhole
  <2>2. QED
    BY <1>2, <2>1 DEF OpsWhole, Local
<1>4. RequestWhole(u) /\ RetainedWhole(u)
  BY <1>2 DEF RequestWhole, RetainedWhole, Watched, Local
<1>5. PlayWhole(u)
  <2>1. CASE u.exposed = w.exposed /\ w.prepared # r
    <3>1. LoadedUp(u) <=> LoadedUp(w)
      BY <1>1, <1>2, <2>1 DEF LoadedUp
    <3>2. QED
      BY <1>1, <1>2, <2>1, <3>1 DEF PlayWhole, Local
  <2>2. CASE u.exposed = FALSE /\ w.submitted
    BY <1>1, <1>2, <2>2 DEF PlayWhole, Local
  <2>3. QED
    BY <2>1, <2>2
<1>6. RoundWhole(u)
  BY <1>1, <1>2 DEF RoundWhole, Local
<1>7. Stay(w, u)
  <2>1. Quiet(w) => Quiet(u)
    BY <1>1, <1>2 DEF Quiet
  <2>2. Fit(w) => Fit(u)
    <3>1. CASE u.exposed = w.exposed /\ w.prepared # r
      BY <1>1, <1>2, <3>1 DEF Fit, LoadedUp
    <3>2. CASE u.exposed = FALSE /\ w.submitted
      BY <1>2, <3>2 DEF Fit, Local, RoundWhole
    <3>3. QED
      BY <3>1, <3>2
  <2>3. QED
    BY <1>2, <2>1, <2>2, StaySeat DEF Stay
<1>8. OutFits(u)
  BY DEF OutFits, Silent
<1>9. QED
  BY <1>2, <1>3, <1>4, <1>5, <1>6, <1>7, <1>8 DEF Sound, Local, RunningKept

LEMMA ReleaseRetainedSound ==
    ASSUME NEW w \in Session, Local(w), w.out = Silent, w.retained # 0,
           NEW v \in Session, KeepsRest(w, v), v.ops = w.ops, v.out = w.out,
           \A x : HasScreen(v, x) => HasScreen(w, x)
    PROVE  LET u == CancelOp([v EXCEPT !.retained = 0, !.keptReq = 0], v.keptReq)
           IN  u \in Session /\ Sound(w, u)
<1> DEFINE q == {o \in v.ops : o.req # v.keptReq}
           u == [v EXCEPT !.retained = 0, !.keptReq = 0, !.ops = q]
<1>1. CancelOp([v EXCEPT !.retained = 0, !.keptReq = 0], v.keptReq) = u
  BY DEF CancelOp, Session
<1>2. w.req = 0 /\ Idle(w)
  BY RetainedIsIdle DEF Idle
<1>3. q = {o \in w.ops : o.req # w.keptReq}
  BY DEF KeepsRest, KeepsRetained
<1> HIDE DEF q
<1>4. u \in Session
  BY ZenonT(40), <1>3 DEF Session
<1>5. /\ KeepsSeat(v, u) /\ KeepsVerdict(v, u) /\ KeepsRequest(v, u)
      /\ KeepsPlay(v, u) /\ u.retained = 0 /\ u.keptReq = 0
      /\ u.forgotten = v.forgotten
      /\ u.nextReq = v.nextReq /\ u.ops = q /\ u.screens = v.screens
      /\ u.out = v.out
  BY DEF Session, KeepsSeat, KeepsVerdict, KeepsRequest, KeepsPlay
<1> HIDE DEF u
<1>6. /\ u.state = w.state /\ u.phase = w.phase /\ u.round = w.round
      /\ u.terminal = w.terminal /\ u.abandoned = w.abandoned
      /\ u.submitted = w.submitted /\ u.retained = 0
      /\ u.keptReq = 0 /\ u.nextReq = w.nextReq
      /\ u.forgotten = w.forgotten
      /\ u.req = 0 /\ u.op = w.op /\ u.probe = w.probe
      /\ u.loadRound = w.loadRound /\ u.prepared = w.prepared
      /\ u.exposed = w.exposed /\ u.start = w.start /\ u.source = w.source
      /\ u.guid = w.guid /\ u.sampling = w.sampling
      /\ u.ops = q /\ u.out = Silent
  BY <1>2, <1>5 DEF KeepsRest, KeepsSeat, KeepsVerdict, KeepsRetained,
                    KeepsRequest, KeepsPlay
<1>7. OpsWhole(u)
  <2>1. \A t \in u.screens : t.req < w.nextReq
    <3>1. \A t \in u.screens : HasScreen(w, t.req)
      BY <1>5 DEF HasScreen
    <3>2. QED
      BY <3>1 DEF HasScreen, Local, OpsWhole
  <2>2. w.req < w.nextReq
    BY DEF Local, OpsWhole
  <2>3. \A o \in q : o \in w.ops /\ o.req # 0 /\ o.req # w.keptReq
    BY <1>3, OpTyped
  <2>4. \A o \in q : HasScreen(u, o.req) => o.kind = "Load"
    <3>1. \A x : HasScreen(u, x) => HasScreen(w, x)
      BY <1>5 DEF HasScreen
    <3>2. QED
      BY <2>3, <3>1 DEF Local, OpsWhole
  <2>5. \A o \in q : /\ o.req < w.nextReq
                     /\ o.req \in {w.req, w.keptReq} \cup w.forgotten
                     /\ o.status = "Working" => o.req = w.req
                     /\ o.req = w.req => o.kind = w.op
                     /\ o.kind = "Probe" => o.status = "Working"
    BY <2>3 DEF Local, OpsWhole
  <2>6. \A o, p \in q : o.req = p.req => o = p
    BY <2>3 DEF Local, OpsWhole
  <2>7. QED
    BY <1>2, <1>6, <2>1, <2>2, <2>3, <2>4, <2>5, <2>6 DEF OpsWhole
<1>8. Idle(u)
  BY <1>2, <1>6 DEF Idle
<1>9. RequestWhole(u) /\ PlayWhole(u) /\ RetainedWhole(u)
  BY <1>4, <1>6, <1>8, StatusZero
     DEF RequestWhole, PlayWhole, RetainedWhole, Watched, Idle
<1>10. w.prepared = 0 /\ Status(u, 0) = "Finished" /\ Status(w, 0) = "Finished"
  BY <1>2, <1>4, StatusZero DEF Idle
<1>11. RoundWhole(u)
  BY <1>2, <1>6, <1>10 DEF RoundWhole, Local
<1>12. Stay(w, u)
  <2>1. (Quiet(w) => Quiet(u)) /\ (Fit(w) => Fit(u))
    BY <1>6, <1>10 DEF Quiet, Fit, LoadedUp
  <2>2. KeepsSeat(w, u)
    BY <1>6 DEF KeepsSeat
  <2>3. QED
    BY <1>4, <1>6, <2>1, <2>2, StaySeat DEF Stay
<1>13. OutFits(u)
  BY <1>6 DEF OutFits, Silent
<1>14. RunningKept(w, u)
  BY <1>3, <1>6 DEF RunningKept
<1>15. QED
  BY <1>1, <1>4, <1>6, <1>7, <1>9, <1>11, <1>12, <1>13, <1>14
     DEF Sound, Local

\* releasePreparedGameplay before the end of the round gives the round up.
LEMMA ReleasePreparedSound ==
    ASSUME NEW w \in Session, Local(w), w.out = Silent, w.prepared # 0,
           NEW v \in Session, KeepsRest(w, v), v.ops = w.ops, v.out = w.out,
           \A x : HasScreen(v, x) => HasScreen(w, x),
           \A x : x # w.prepared /\ HasScreen(w, x) => HasScreen(v, x)
    PROVE  LET h == [v EXCEPT !.exposed = FALSE]
               u == IF NotStarted(v, w.prepared) THEN AbandonCurrentRound(h)
                                                 ELSE CancelPreparedRound(h, FALSE)
           IN  u \in Session /\ Sound(w, u)
<1> DEFINE h == [v EXCEPT !.exposed = FALSE]
           u == IF NotStarted(v, w.prepared) THEN AbandonCurrentRound(h)
                                             ELSE CancelPreparedRound(h, FALSE)
<1>1. h \in Session
  BY DEF Session
<1>2. /\ KeepsSeat(v, h) /\ KeepsVerdict(v, h) /\ KeepsRetained(v, h)
      /\ KeepsRequest(v, h) /\ h.exposed = FALSE
      /\ h.start = v.start /\ h.source = v.source /\ h.guid = v.guid
      /\ h.sampling = v.sampling
      /\ h.ops = v.ops /\ h.screens = v.screens /\ h.out = v.out
  BY DEF Session, KeepsSeat, KeepsVerdict, KeepsRetained, KeepsRequest
<1> HIDE DEF h
<1>3. /\ KeepsSeat(w, h) /\ KeepsVerdict(w, h) /\ KeepsRetained(w, h)
      /\ KeepsRequest(w, h) /\ h.exposed = FALSE
      /\ h.start = w.start /\ h.source = w.source /\ h.guid = w.guid
      /\ h.sampling = w.sampling
      /\ h.ops = w.ops /\ h.out = Silent
  BY <1>2 DEF KeepsRest, KeepsSeat, KeepsVerdict, KeepsRetained, KeepsRequest,
              KeepsPlay
<1>4. /\ \A x : HasScreen(h, x) => HasScreen(w, x)
      /\ \A x : x # w.prepared /\ HasScreen(w, x) => HasScreen(h, x)
  BY <1>2 DEF HasScreen
<1>5. w.round.mine /\ w.prepared = w.req /\ w.round.stage # "Probing"
  BY DEF Local, RequestWhole
<1>6. w.round.id # 0
  BY <1>5 DEF Local, RoundWhole, WholeRound, NoRound
<1>7. u \in Session
  BY <1>1, AbandonCurrentRoundType, CancelPreparedRoundType
<1>8. PICK o \in w.ops : /\ o.req = w.prepared
                         /\ o.status # "Working"
                         /\ Status(w, w.prepared) = o.status
  BY PreparedOp DEF Local
<1>9. Status(v, w.prepared) = o.status /\ OpsOf(v, w.prepared) # {}
  BY <1>8, StatusSame DEF OpsOf
<1>10. ASSUME NotStarted(v, w.prepared) /\ w.submitted
       PROVE  Sound(w, u)
  <2>1. u = AbandonCurrentRound(h)
    BY <1>10
  <2>2. AbandonCurrentRound(h) = h
    BY <1>3, <1>10 DEF AbandonCurrentRound, KeepsVerdict
  <2>3. \A p \in w.ops : p.req = w.prepared => p.status \notin {"Running", "Finished"}
    BY <1>8, <1>9, <1>10 DEF NotStarted, Local, OpsWhole
  <2>4. Sound(w, h)
    BY <1>1, <1>3, <1>4, <1>10, <2>3, ScreenGoneSound
  <2>5. QED
    BY <2>1, <2>2, <2>4
<1>11. ASSUME NotStarted(v, w.prepared) /\ ~w.submitted
       PROVE  Sound(w, u)
  <2>0. u = AbandonCurrentRound(h)
    BY <1>11
  <2> HIDE DEF u
  <2>1. w.submitted = FALSE
    BY SMTT(30), <1>11 DEF Session
  <2>2. h.terminal.kind = "None"
    BY <1>3, <1>11 DEF KeepsVerdict, Local, RoundWhole
  <2>3. ~(h.round.id = 0 \/ ~h.round.mine \/ h.submitted)
    BY <1>3, <1>5, <1>6, <1>11 DEF KeepsSeat, KeepsVerdict
  <2>4. /\ KeepsSeat(h, u) /\ KeepsRetained(h, u)
        /\ Idle(u) /\ KeepsScreens(h, u)
        /\ u.ops = {p \in h.ops : p.req # h.req}
        /\ u.submitted = TRUE /\ u.abandoned = TRUE
        /\ u.terminal.kind = "Dnf"
        /\ u.terminal.round = h.round.id
        /\ \/ u.out = h.out
           \/ SaysTerminal(u)
    BY <1>1, <2>0, <2>2, <2>3, AbandonCurrentRoundDoes
  <2>5. /\ KeepsSeat(w, u) /\ KeepsRetained(w, u)
        /\ u.ops = {p \in w.ops : p.req # w.req}
        /\ u.terminal.round = w.round.id
    BY <1>3, <2>4 DEF KeepsSeat, KeepsRetained, KeepsRequest
  <2>6. KeepsOthers(w, u)
    BY <1>4, <1>5, <2>4 DEF KeepsScreens, KeepsOthers
  <2>7. Local(u) /\ Stay(w, u) /\ RunningKept(w, u)
    BY <1>5, <1>7, <2>1, <2>4, <2>5, <2>6, IdleSound
  <2>8. OutFits(u)
    BY <1>3, <2>4 DEF OutFits, SaysTerminal, Silent
  <2>9. QED
    BY <2>5, <2>7, <2>8 DEF Sound, KeepsSeat
<1>12. ASSUME ~NotStarted(v, w.prepared)
       PROVE  Sound(w, u)
  <2>0. u = CancelPreparedRound(h, FALSE)
    BY <1>12
  <2> HIDE DEF u
  <2>1. w.round.stage \in {"Scheduled", "Playing"}
    <3>1. o.status \in {"Running", "Finished"}
      BY <1>8, <1>9, <1>12, OpTyped DEF NotStarted, OpStatus
    <3>2. QED
      BY <1>8, <3>1 DEF Local, PlayWhole
  <2>2. /\ KeepsSeat(h, u) /\ KeepsVerdict(h, u) /\ KeepsRetained(h, u)
        /\ Idle(u) /\ KeepsScreens(h, u)
        /\ u.ops = {p \in h.ops : p.req # h.req}
        /\ u.out = h.out
    <3>1. PICK k \in BOOLEAN : k = FALSE
      OBVIOUS
    <3>2. u = CancelPreparedRound(h, k)
      BY <2>0, <3>1
    <3>3. QED
      BY <1>1, <3>2, CancelPreparedRoundDoes
  <2>3. /\ KeepsSeat(w, u) /\ KeepsVerdict(w, u) /\ KeepsRetained(w, u)
        /\ u.ops = {p \in w.ops : p.req # w.req} /\ u.out = Silent
    BY <1>3, <2>2 DEF KeepsSeat, KeepsVerdict, KeepsRetained, KeepsRequest
  <2>4. KeepsOthers(w, u)
    BY <1>4, <1>5, <2>2 DEF KeepsScreens, KeepsOthers
  <2>5. Local(u) /\ Stay(w, u) /\ RunningKept(w, u)
    BY <1>7, <2>1, <2>2, <2>3, <2>4, IdleSound
  <2>6. OutFits(u)
    BY <2>3 DEF OutFits, Silent
  <2>7. QED
    BY <2>3, <2>5, <2>6 DEF Sound, KeepsSeat
<1>13. Sound(w, u)
  BY <1>10, <1>11, <1>12
<1>14. QED
  BY <1>7, <1>13 DEF h

LEMMA ScreenRemovedSound ==
    ASSUME NEW w \in Session, Local(w), w.out = Silent, NEW s \in w.screens,
           s.leaving \/ s.done \/ NotStarted(w, s.req), NEW b \in Nat
    PROVE  LET gone == [w EXCEPT !.screens = w.screens \ {s}, !.bound = b]
               u == IF OpsOf(w, s.req) = {}
                      THEN gone
                      ELSE ReleasePreparedGameplay(gone, s.req)
           IN  u \in Session /\ Sound(w, u)
<1> DEFINE gone == [w EXCEPT !.screens = w.screens \ {s}, !.bound = b]
           u == IF OpsOf(w, s.req) = {}
                  THEN gone
                  ELSE ReleasePreparedGameplay(gone, s.req)
<1>1. /\ gone \in Session /\ KeepsRest(w, gone) /\ gone.ops = w.ops
      /\ gone.out = w.out
      /\ \A r : HasScreen(gone, r) => HasScreen(w, r)
      /\ \A r : r # s.req /\ HasScreen(w, r) => HasScreen(gone, r)
  BY ScreenGoneDoes
<1> HIDE DEF gone
<1>2. /\ gone.retained = w.retained /\ gone.keptReq = w.keptReq
      /\ gone.forgotten = w.forgotten
      /\ gone.prepared = w.prepared
      /\ KeepsSeat(w, gone) /\ KeepsVerdict(w, gone) /\ KeepsRetained(w, gone)
      /\ KeepsRequest(w, gone)
      /\ gone.source = w.source /\ gone.guid = w.guid
      /\ gone.sampling = w.sampling /\ gone.start = w.start
      /\ gone.exposed = w.exposed
  BY <1>1 DEF KeepsRest, KeepsRetained, KeepsRequest, KeepsPlay
<1>3. s.req # 0
  BY DEF Session, Screen
<1>4. u \in Session
  BY <1>1, ReleasePreparedGameplayType
<1>5. CASE OpsOf(w, s.req) = {}
  <2>1. \A o \in w.ops : o.req # s.req
    BY <1>5 DEF OpsOf
  <2>2. w.prepared # s.req
    BY <1>3, <2>1, PreparedOp DEF Local
  <2>3. \A o \in w.ops : o.req = s.req => o.status \notin {"Running", "Finished"}
    BY <2>1
  <2>4. Sound(w, gone)
    BY <1>1, <1>2, <2>2, <2>3, ScreenGoneSound
  <2>5. u = gone
    BY <1>5
  <2>6. QED
    BY <1>1, <2>4, <2>5 DEF gone
<1>6. CASE OpsOf(w, s.req) # {} /\ w.retained = s.req
  <2>1. u = CancelOp([gone EXCEPT !.retained = 0, !.keptReq = 0], gone.keptReq)
    BY <1>2, <1>6 DEF ReleasePreparedGameplay
  <2>2. Sound(w, u)
    BY <1>1, <1>3, <1>6, <2>1, ReleaseRetainedSound
  <2>3. QED
    BY <1>4, <2>2 DEF gone
<1>7. CASE OpsOf(w, s.req) # {} /\ w.retained # s.req /\ w.prepared # s.req
  <2>1. u = gone
    BY <1>2, <1>7 DEF ReleasePreparedGameplay
  <2>2. PICK o \in w.ops : o.req = s.req /\ o.kind = "Load"
    BY <1>7, ScreenHasLoad
  <2>3. \A x \in w.ops : x.req = s.req =>
          x.status \notin {"Running", "Finished"} \/ x.req \notin {w.req, w.keptReq}
    <3>1. CASE o.req = w.req
      <4>1. w.op = "Load" /\ w.prepared = 0
        BY <1>7, <2>2, <3>1 DEF Local, OpsWhole, RequestWhole
      <4>2. PICK p \in w.ops : /\ p.req = w.req
                               /\ (p.status = "Working") <=> (w.prepared = 0)
        BY <4>1 DEF Local, RequestWhole
      <4>3. QED
        BY <2>2, <3>1, <4>1, <4>2 DEF Local, OpsWhole
    <3>2. CASE o.req # w.req
      BY <1>7, <2>2, <3>2 DEF Local, RetainedWhole, Watched
    <3>3. QED
      BY <3>1, <3>2
  <2>4. Sound(w, gone)
    BY <1>1, <1>2, <1>7, <2>3, ScreenGoneSound
  <2>5. QED
    BY <1>1, <2>1, <2>4 DEF gone
<1>8. CASE OpsOf(w, s.req) # {} /\ w.retained # s.req /\ w.prepared = s.req
  <2> DEFINE h == [gone EXCEPT !.exposed = FALSE]
             x == IF NotStarted(gone, w.prepared)
                    THEN AbandonCurrentRound(h)
                    ELSE CancelPreparedRound(h, FALSE)
  <2>1. NotStarted([gone EXCEPT !.exposed = FALSE], s.req)
          <=> NotStarted(gone, s.req)
    <3>1. h.ops = gone.ops
      BY SMTT(30), <1>1 DEF Session
    <3>2. QED
      BY <3>1, StatusSame DEF NotStarted
  <2>2. u = x
    BY <1>2, <1>8, <2>1 DEF ReleasePreparedGameplay
  <2>3. Sound(w, x)
    BY <1>1, <1>3, <1>8, ReleasePreparedSound
  <2>4. QED
    BY <1>4, <2>2, <2>3 DEF gone
<1>9. QED
  BY <1>5, <1>6, <1>7, <1>8

-----------------------------------------------------------------------------
(* The start that was set fires.                                           *)

LEMMA StartTaskFiresSteps ==
    ASSUME NEW w \in Session, Local(w), w.out = Silent, w.start # NoTask
    PROVE  LET v == SetOp([w EXCEPT !.start = NoTask], w.start.runner,
                          "Running", FALSE)
               u == [StartTelemetrySampling(v) EXCEPT !.announced = TRUE]
           IN  /\ w.round.id = w.start.round /\ w.prepared = w.start.runner
               /\ Pending(w, w.start.runner)
               /\ Steps(w, u)
<1>1. /\ w.state = "InRoom"
      /\ w.start = [round |-> w.round.id, runner |-> w.prepared]
      /\ LoadedUp(w)
      /\ w.round.stage \in {"Scheduled", "Playing"}
      /\ w.submitted = FALSE
  BY DEF Local, PlayWhole, Session
<1>2. w.start.round = w.round.id /\ w.start.runner = w.prepared
  BY <1>1
<1>3. PICK o \in w.ops : /\ o.req = w.prepared /\ o.status = "Ready"
                         /\ w.op = "Load" /\ o.req = w.req
  BY <1>1, PreparedOp DEF LoadedUp, Local
<1>4. o.kind = "Load" /\ o \in Operation
  BY <1>3, OpTyped DEF Local, OpsWhole
<1> DEFINE f == [w EXCEPT !.start = NoTask]
           v == SetOp(f, o.req, "Running", FALSE)
           p == Renewed(o, "Running", FALSE)
           t == StartTelemetrySampling(v)
           u == [t EXCEPT !.announced = TRUE]
<1>5. f \in Session
  BY LoaderFields
<1>6. /\ KeepsSeat(w, f) /\ KeepsVerdict(w, f) /\ KeepsRetained(w, f)
      /\ KeepsRequest(w, f) /\ f.exposed = w.exposed /\ f.start = NoTask
      /\ f.source = w.source /\ f.guid = w.guid /\ f.sampling = w.sampling
      /\ f.screens = w.screens /\ f.ops = w.ops /\ f.out = w.out
  BY DEF Session, KeepsSeat, KeepsVerdict, KeepsRetained, KeepsRequest
<1>7. /\ p.req = o.req /\ p.kind = o.kind /\ p.round = o.round
      /\ p.status = "Running" /\ p.pending = FALSE /\ p \in Operation
  <2>1. p \in Operation
    BY <1>4 DEF Renewed, Operation, OpStatus
  <2>2. QED
    BY <1>4, <2>1, RenewedIs DEF OpStatus
<1> HIDE DEF f
<1>8. v \in Session
  BY <1>5, SetOpType DEF OpStatus
<1>9. /\ KeepsRest(f, v) /\ v.screens = f.screens /\ v.out = f.out
      /\ v.ops = (f.ops \ {o}) \cup {p}
  <2> DEFINE qq == {IF x.req = o.req
                     THEN [x EXCEPT !.status = "Running", !.pending = FALSE]
                     ELSE x : x \in f.ops}
  <2>1. qq = (f.ops \ {o}) \cup {p}
    BY <1>6 DEF Renewed, OpsWhole, Local
  <2>2. v = [f EXCEPT !.ops = qq]
    BY DEF SetOp
  <2> HIDE DEF qq, v, p
  <2>3. /\ KeepsRest(f, v) /\ v.screens = f.screens /\ v.out = f.out
        /\ v.ops = qq
    BY <1>5, <2>2 DEF Session, KeepsRest, KeepsSeat, KeepsVerdict,
       KeepsRetained, KeepsRequest, KeepsPlay
  <2>4. QED
    BY <2>1, <2>3
<1> HIDE DEF v, p
<1>10. t = v \/ (/\ t = [v EXCEPT !.sampling = TRUE]
                 /\ v.source # 0 /\ Status(v, v.source) = "Running"
                 /\ ~v.submitted)
  BY DEF StartTelemetrySampling
<1>11. t \in Session
  BY <1>8, TelemetryType
<1>12. /\ KeepsSeat(v, t) /\ KeepsVerdict(v, t) /\ KeepsRetained(v, t)
       /\ KeepsRequest(v, t) /\ t.exposed = v.exposed /\ t.start = v.start
       /\ t.source = v.source /\ t.guid = v.guid
       /\ t.screens = v.screens /\ t.ops = v.ops /\ t.out = v.out
       /\ t.sampling => \/ v.sampling
                        \/ /\ v.source # 0 /\ Status(v, v.source) = "Running"
                           /\ ~v.submitted
  <2> DEFINE z == [v EXCEPT !.sampling = TRUE]
  <2>1. /\ KeepsSeat(v, z) /\ KeepsVerdict(v, z) /\ KeepsRetained(v, z)
        /\ KeepsRequest(v, z) /\ z.exposed = v.exposed /\ z.start = v.start
        /\ z.source = v.source /\ z.guid = v.guid
        /\ z.screens = v.screens /\ z.ops = v.ops /\ z.out = v.out
    BY <1>8 DEF Session, KeepsSeat, KeepsVerdict, KeepsRetained, KeepsRequest
  <2> HIDE DEF z
  <2>2. CASE t = v
    <3> HIDE DEF t
    <3>1. QED
      BY <2>2 DEF KeepsSeat, KeepsVerdict, KeepsRetained, KeepsRequest
  <2>3. CASE /\ t = z
             /\ v.source # 0 /\ Status(v, v.source) = "Running"
             /\ ~v.submitted
    <3> HIDE DEF t
    <3>1. QED
      BY <2>1, <2>3
  <2>4. QED
    BY <1>10, <2>2, <2>3 DEF z
<1> HIDE DEF t
<1>13. u \in Session
  BY <1>11, LoaderFields
<1>14. /\ KeepsSeat(t, u) /\ KeepsVerdict(t, u) /\ KeepsRetained(t, u)
       /\ KeepsRequest(t, u) /\ u.exposed = t.exposed /\ u.start = t.start
       /\ u.source = t.source /\ u.guid = t.guid /\ u.sampling = t.sampling
       /\ u.screens = t.screens /\ u.ops = t.ops /\ u.out = t.out
  BY <1>11 DEF Session, KeepsSeat, KeepsVerdict, KeepsRetained, KeepsRequest
<1> HIDE DEF u
<1>15. /\ KeepsSeat(w, u) /\ KeepsVerdict(w, u) /\ KeepsRetained(w, u)
       /\ KeepsRequest(w, u) /\ u.exposed = w.exposed /\ u.start = NoTask
       /\ u.source = w.source /\ u.guid = w.guid
       /\ u.screens = w.screens /\ u.ops = (w.ops \ {o}) \cup {p}
       /\ u.out = Silent /\ u.ops = v.ops
       /\ v.source = w.source /\ v.sampling = w.sampling
       /\ v.submitted = w.submitted /\ u.submitted = w.submitted
  BY <1>6, <1>9, <1>12, <1>14
     DEF KeepsRest, KeepsSeat, KeepsVerdict, KeepsRetained, KeepsRequest,
         KeepsPlay
<1>16. w.sampling = FALSE
  BY <1>1, <1>3, StatusOf DEF Local, PlayWhole, LoadedUp, Session
<1>17. u.sampling => /\ u.source # 0
                     /\ Status(u, u.source) = "Running"
                     /\ ~u.submitted
  <2>1. Status(u, u.source) = Status(v, u.source)
    BY <1>15, StatusSame
  <2>2. QED
    BY <1>12, <1>14, <1>15, <1>16, <2>1
<1>18. Local(u) /\ Stay(w, u)
  <2>1. /\ p.req = o.req /\ p.kind = o.kind /\ p.round = o.round
        /\ p.status = "Running" /\ p \in Operation
        /\ o.kind = "Load" /\ o.status = "Ready"
    BY <1>3, <1>4, <1>7
  <2>2. HasScreen(w, o.req)
    BY <1>1, <1>3 DEF Local, PlayWhole, LoadedUp
  <2>3. u.start \in {w.start, NoTask} /\ KeepsScreens(w, u)
    BY <1>15 DEF KeepsScreens, HasScreen
  <2>4. o.status = "Ready" /\ (w.round.stage = "Loading" \/ u.start # NoTask)
          => p.status = "Ready" /\ p.pending
    BY <1>1, <1>15
  <2>5. QED
    BY <1>1, <1>13, <1>15, <1>17, <2>1, <2>2, <2>3, <2>4, ReplacedSound
<1>19. OutFits(u)
  BY <1>15 DEF OutFits, Silent
<1>20. Begins(w, u)
  BY <1>2, <1>3, <1>7, <1>15 DEF Begins
<1>21. Steps(w, u)
  BY <1>15, <1>18, <1>19, <1>20 DEF Steps, KeepsSeat
<1>22. Pending(w, w.start.runner)
  BY <1>1, <1>2 DEF LoadedUp
<1>23. u = [StartTelemetrySampling(SetOp([w EXCEPT !.start = NoTask],
                                         w.start.runner, "Running", FALSE))
              EXCEPT !.announced = TRUE]
  BY <1>2, <1>3 DEF u, t, v, f
<1>24. QED
  BY <1>2, <1>21, <1>22, <1>23

LEMMA PresentsType ==
    ASSUME NEW w \in Session, Local(w), NEW s \in w.screens,
           OpsOf(w, s.req) # {}, NEW captured \in BOOLEAN
    PROVE  SubmitLocalResult(
             SetScreen(Finish(w, s.req), s.req,
                       [s EXCEPT !.ended = TRUE, !.done = TRUE]),
             s.req, captured) \in Session
<1> DEFINE t     == [s EXCEPT !.ended = TRUE, !.done = TRUE]
           ended == Finish(w, s.req)
           shown == SetScreen(ended, s.req, t)
<1>1. s \in Screen
  BY DEF Session
<1>2. t \in Screen /\ s.req \in Nat
  BY <1>1 DEF Screen
<1> HIDE DEF t
<1>3. ended \in Session
  BY FinishType
<1>4. PICK o \in w.ops : o.req = s.req
  BY DEF OpsOf
<1>5. Renewed(o, "Finished", FALSE) \in ended.ops
  BY <1>4, FinishDoes
<1>6. Renewed(o, "Finished", FALSE).req = s.req
  <2>1. o \in Operation
    BY OpTyped
  <2>2. PICK b \in BOOLEAN : b = FALSE
    OBVIOUS
  <2>3. "Finished" \in OpStatus
    BY DEF OpStatus
  <2>4. Renewed(o, "Finished", b).req = o.req
    BY <2>1, <2>3, RenewedIs
  <2>5. QED
    BY <1>4, <2>2, <2>4
<1> HIDE DEF ended
<1>7. shown.ops = ended.ops
  BY <1>3 DEF SetScreen, Session
<1>8. shown \in Session
  BY <1>2, <1>3, SetScreenType
<1>9. OpsOf(shown, s.req) # {}
  BY <1>5, <1>6, <1>7 DEF OpsOf
<1> HIDE DEF shown
<1>10. SubmitLocalResult(shown, s.req, captured) \in Session
  BY <1>2, <1>8, <1>9, SubmitLocalResultType
<1>11. QED
  BY <1>10 DEF shown, ended, t

\* A step of the loader, the runners or the player goes to a session that is
\* sound, but that the runner of the start that was set may begin.
LEMMA PlayerSteps ==
    ASSUME client \in Session, client.out = Silent, Local(client), Tidy(client),
           PlayerNext
    PROVE  \E u \in Session : Moves(u) /\ Steps(client, u)
<1>1. \A o \in client.ops : o \in Operation
  BY DEF Session
<1>2. \A s \in client.screens : s \in Screen
  BY DEF Session
<1>3. CASE ProbeDone
  <2>1. PICK o \in client.ops, ok \in BOOLEAN :
          /\ o.kind = "Probe"
          /\ LET gone == CancelOp(client, o.req)
             IN  Moves(IF client.req = o.req /\ client.op = "Probe"
                         THEN Send([gone EXCEPT !.req = 0, !.op = "None",
                                                !.probe = 0],
                                   [type |-> "ProbeResult",
                                    round |-> client.probe, ok |-> ok])
                         ELSE gone)
    BY <1>3 DEF ProbeDone
  <2> DEFINE gone == CancelOp(client, o.req)
             u == Send([gone EXCEPT !.req = 0, !.op = "None", !.probe = 0],
                       [type |-> "ProbeResult", round |-> client.probe,
                        ok |-> ok])
  <2>2. client.req = o.req /\ client.op = "Probe" /\ Sound(client, u)
    BY <2>1, ProbeDoneSound
  <2>3. u \in Session
    <3>1. gone \in Session
      BY CancelOpType
    <3> HIDE DEF gone
    <3>2. client.probe \in Nat
      BY DEF Session
    <3>3. QED
      BY <3>1, <3>2, AnswerFields, SendType
  <2>4. Moves(u)
    BY <2>1, <2>2
  <2> HIDE DEF u
  <2>5. QED
    BY <2>2, <2>3, <2>4, SoundSteps
<1>4. CASE LoadDone
  <2>1. PICK o \in client.ops, opens \in BOOLEAN :
          /\ o.kind = "Load" /\ o.status = "Working"
          /\ LET ready == SetOp(client, o.req, "Ready", FALSE)
             IN  Moves(IF /\ client.req = o.req
                          /\ client.op = "Load"
                          /\ client.loadRound # 0
                          /\ client.prepared = 0
                         THEN ExposePrepared([ready EXCEPT !.prepared = o.req,
                                                           !.exposed = TRUE],
                                             o.req, opens)
                         ELSE ready)
    BY <1>4 DEF LoadDone
  <2> DEFINE v == [SetOp(client, o.req, "Ready", FALSE) EXCEPT
                     !.prepared = o.req, !.exposed = TRUE]
             u == ExposePrepared(v, o.req, opens)
  <2>2. /\ client.req = o.req /\ client.op = "Load" /\ client.loadRound # 0
        /\ client.prepared = 0 /\ client.round.stage = "Loading"
    BY <2>1, WorkingIsCurrent
  <2>3. v \in Session /\ Sound(client, v) /\ v.out = Silent
        /\ v.round = client.round
    BY <2>1, PreparedSound
  <2>4. v.prepared = o.req
    <3>1. SetOp(client, o.req, "Ready", FALSE) \in Session
      BY SetOpType DEF OpStatus
    <3>2. QED
      BY <3>1 DEF Session
  <2>5. o.req \in Nat \ {0}
    BY OpTyped
  <2>6. Moves(u)
    BY <2>1, <2>2
  <2> HIDE DEF v
  <2>7. Sound(v, u)
    BY <2>2, <2>3, <2>4, <2>5, ExposePreparedSound DEF Sound
  <2>8. u \in Session
    BY <2>3, <2>5, ExposePreparedType
  <2> HIDE DEF u
  <2>9. Sound(client, u)
    BY <2>3, <2>7, <2>8, SoundThrough DEF Sound
  <2>10. QED
    BY <2>6, <2>8, <2>9, SoundSteps
<1>5. CASE LoadFails
  <2>1. PICK o \in client.ops :
          /\ o.kind = "Load" /\ o.status = "Working"
          /\ LET gone == CancelOp(client, o.req)
             IN  Moves(IF /\ client.req = o.req
                          /\ client.op = "Load"
                          /\ client.loadRound # 0
                         THEN LET failed == [gone EXCEPT !.req = 0, !.op = "None",
                                               !.loadRound = 0, !.prepared = 0]
                              IN  IF client.round.mine
                                    THEN Send([failed EXCEPT !.loadSent = TRUE],
                                              [type |-> "LoadResult", ok |-> FALSE,
                                               round |-> client.loadRound])
                                    ELSE failed
                         ELSE gone)
    BY <1>5 DEF LoadFails
  <2> DEFINE gone == CancelOp(client, o.req)
             failed == [gone EXCEPT !.req = 0, !.op = "None",
                                    !.loadRound = 0, !.prepared = 0]
             u == Send([failed EXCEPT !.loadSent = TRUE],
                       [type |-> "LoadResult", ok |-> FALSE,
                        round |-> client.loadRound])
  <2>2. /\ client.req = o.req /\ client.op = "Load" /\ client.loadRound # 0
        /\ client.round.mine /\ Sound(client, u)
    BY <2>1, LoadFailsSound
  <2>3. u \in Session
    <3>1. gone \in Session
      BY CancelOpType
    <3> HIDE DEF gone
    <3>2. client.loadRound \in Nat
      BY DEF Session
    <3>3. failed \in Session
      BY <3>1, AnswerFields
    <3> HIDE DEF failed
    <3>4. QED
      BY <3>2, <3>3, AnswerFields, LoaderFields, SendType
  <2>4. Moves(u)
    BY <2>1, <2>2
  <2> HIDE DEF u
  <2>5. QED
    BY <2>2, <2>3, <2>4, SoundSteps
<1>6. CASE ScreenStarts
  <2>1. PICK s \in client.screens :
          /\ Status(client, s.req) = "Ready"
          /\ LET asked == SetOp(client, s.req, "Ready", TRUE)
             IN  Moves(IF client.prepared = s.req
                         THEN ReportPreparedRound(asked) ELSE asked)
    BY <1>6 DEF ScreenStarts
  <2> DEFINE v == SetOp(client, s.req, "Ready", TRUE)
             u == IF client.prepared = s.req THEN ReportPreparedRound(v) ELSE v
  <2>2. Sound(client, v) /\ Sound(client, ReportPreparedRound(v))
    BY <2>1, ScreenStartsSound
  <2>3. v \in Session
    BY SetOpType DEF OpStatus
  <2>4. Moves(u)
    BY <2>1
  <2> HIDE DEF v
  <2>5. u \in Session /\ Sound(client, u)
    BY <2>2, <2>3, ReportPreparedRoundType
  <2> HIDE DEF u
  <2>6. QED
    BY <2>4, <2>5, SoundSteps
<1>7. CASE StartTaskFires
  <2> DEFINE fired == [client EXCEPT !.start = NoTask]
             v == SetOp(fired, client.start.runner, "Running", FALSE)
             u == [StartTelemetrySampling(v) EXCEPT !.announced = TRUE]
  <2>1. client.start # NoTask
    BY <1>7 DEF StartTaskFires
  <2>2. /\ client.round.id = client.start.round
        /\ client.prepared = client.start.runner
        /\ Pending(client, client.start.runner)
        /\ Steps(client, u)
    BY <2>1, StartTaskFiresSteps
  <2>3. Moves(u)
    BY <1>7, <2>2 DEF StartTaskFires
  <2>4. u \in Session
    <3>1. fired \in Session
      BY LoaderFields
    <3> HIDE DEF fired
    <3>2. StartTelemetrySampling(v) \in Session
      BY <3>1, SetOpType, TelemetryType DEF OpStatus
    <3> HIDE DEF v
    <3>3. QED
      BY <3>2, LoaderFields
  <2> HIDE DEF u
  <2>5. QED
    BY <2>2, <2>3, <2>4
<1>8. CASE RunnerEnds
  <2>1. PICK o \in client.ops : /\ o.kind = "Load" /\ o.status = "Running"
                                /\ Moves(Finish(client, o.req))
    BY <1>8 DEF RunnerEnds
  <2>2. Sound(client, Finish(client, o.req))
    BY <2>1, FinishSound
  <2>3. Finish(client, o.req) \in Session
    BY FinishType
  <2>4. QED
    BY <2>1, <2>2, <2>3, SoundSteps
<1>9. CASE ScreenPresentsResult
  <2>1. PICK s \in client.screens, captured \in BOOLEAN :
          /\ OpsOf(client, s.req) # {}
          /\ ~NotStarted(client, s.req)
          /\ LET ended == Finish(client, s.req)
             IN  Moves(SubmitLocalResult(
                         SetScreen(ended, s.req,
                                   [s EXCEPT !.ended = TRUE, !.done = TRUE]),
                         s.req, captured))
    BY <1>9 DEF ScreenPresentsResult
  <2> DEFINE shown == SetScreen(Finish(client, s.req), s.req,
                                [s EXCEPT !.ended = TRUE, !.done = TRUE])
             u == SubmitLocalResult(shown, s.req, captured)
  <2>2. Sound(client, u)
    BY <2>1, ScreenPresentsResultSound
  <2>3. u \in Session
    BY <2>1, PresentsType
  <2>4. Moves(u)
    BY <2>1
  <2> HIDE DEF u
  <2>5. QED
    BY <2>2, <2>3, <2>4, SoundSteps
<1>10. CASE PlayerAbandons
  <2>1. PICK s \in client.screens : /\ ~s.leaving /\ NotStarted(client, s.req)
                                    /\ Moves(AbandonCurrentRound(client))
    BY <1>10 DEF PlayerAbandons
  <2>2. Sound(client, AbandonCurrentRound(client))
    BY <2>1, PlayerAbandonsSound
  <2>3. AbandonCurrentRound(client) \in Session
    BY AbandonCurrentRoundType
  <2>4. QED
    BY <2>1, <2>2, <2>3, SoundSteps
<1>11. CASE ScreenRemoved
  <2>1. PICK s \in client.screens :
          /\ s.leaving \/ (OnTop(client, s) /\ (s.done \/ NotStarted(client, s.req)))
          /\ LET gone == [client EXCEPT !.screens = @ \ {s},
                            !.bound = IF @ = s.req THEN 0 ELSE @]
             IN  Moves(IF OpsOf(client, s.req) = {}
                         THEN gone
                         ELSE ReleasePreparedGameplay(gone, s.req))
    BY <1>11 DEF ScreenRemoved
  <2> DEFINE b == IF client.bound = s.req THEN 0 ELSE client.bound
             gone == [client EXCEPT !.screens = client.screens \ {s},
                                    !.bound = b]
             u == IF OpsOf(client, s.req) = {}
                    THEN gone ELSE ReleasePreparedGameplay(gone, s.req)
  <2>2. b \in Nat
    BY DEF Session
  <2>3. Moves(u)
    BY <2>1
  <2> HIDE DEF b
  <2>4. u \in Session /\ Sound(client, u)
    BY <2>1, <2>2, ScreenRemovedSound
  <2> HIDE DEF u
  <2>5. QED
    BY <2>3, <2>4, SoundSteps
<1>12. QED
  BY <1>3, <1>4, <1>5, <1>6, <1>7, <1>8, <1>9, <1>10, <1>11 DEF PlayerNext

-----------------------------------------------------------------------------
(* The handlers that leave the player in the round.                        *)

\* An operation is added to a loader that has no current request.
LEMMA NewOpWhole ==
    ASSUME NEW v \in Session, OpsWhole(v), v.req = 0,
           NEW p \in Operation, p.req = v.nextReq, p.status = "Working",
           NEW u \in Session, u.req = v.nextReq, u.op = p.kind,
           u.nextReq = v.nextReq + 1, u.keptReq = v.keptReq,
           u.forgotten = v.forgotten,
           u.screens = v.screens, u.ops = v.ops \cup {p}
    PROVE  /\ OpsWhole(u)
           /\ RunningKept(v, u)
           /\ u.retained = v.retained /\ RetainedWhole(v)
              /\ (v.retained = 0 \/ Watched(u.round)) => RetainedWhole(u)
<1>1. \A o \in v.ops : o.req # 0 /\ o.req \in Nat
  BY OpTyped
<1>2. v.nextReq \in Nat \ {0} /\ v.keptReq \in Nat
  BY DEF Session
<1>3. \A r : HasScreen(u, r) <=> HasScreen(v, r)
  BY DEF HasScreen
<1>4. ~HasScreen(v, v.nextReq)
  BY <1>2 DEF OpsWhole, HasScreen, Session, Screen
<1>5. \A s \in v.screens : s.req < v.nextReq /\ s.req \in Nat
  BY DEF OpsWhole, Session, Screen
<1>6. OpsWhole(u)
  <2>1. \A o \in v.ops : /\ o.req < v.nextReq /\ o.req # u.req
                         /\ o.req = v.keptReq \/ o.req \in v.forgotten
                         /\ o.status # "Working"
    BY <1>1 DEF OpsWhole
  <2>2. \A o, q \in u.ops : o.req = q.req => o = q
    BY <1>1, <1>2, <2>1 DEF OpsWhole
  <2>3. ASSUME NEW o \in u.ops
        PROVE  /\ o.req < u.nextReq
               /\ o.req \in {u.req, u.keptReq} \cup u.forgotten
               /\ o.status = "Working" => o.req = u.req
               /\ o.req = u.req => o.kind = u.op
               /\ o.kind = "Probe" => o.status = "Working"
               /\ o.status \in {"Running", "Finished"} =>
                    HasScreen(u, o.req) \/ o.req \notin {u.req, u.keptReq}
               /\ HasScreen(u, o.req) => o.kind = "Load"
    <3>1. CASE o = p
      BY <1>2, <1>3, <1>4, <3>1
    <3>2. CASE o \in v.ops
      BY <1>1, <1>2, <1>3, <2>1, <3>2 DEF OpsWhole
    <3>3. QED
      BY <3>1, <3>2
  <2>4. /\ \A s \in u.screens : s.req < u.nextReq
        /\ u.req < u.nextReq
        /\ u.keptReq < u.nextReq
    BY <1>2, <1>5 DEF OpsWhole
  <2>5. QED
    BY <2>2, <2>3, <2>4 DEF OpsWhole
<1>7. RunningKept(v, u)
  BY DEF RunningKept
<1>8. u.retained = v.retained /\ RetainedWhole(v)
        /\ (v.retained = 0 \/ Watched(u.round)) => RetainedWhole(u)
  BY DEF RetainedWhole
<1>9. QED
  BY <1>6, <1>7, <1>8

LEMMA StartOpDoes ==
    ASSUME NEW w \in Session, NEW kind \in {"Probe", "Load"}, NEW n \in Nat
    PROVE  LET u == StartOp(w, kind, n)
               p == [req |-> w.nextReq, kind |-> kind, round |-> n,
                     status |-> "Working", pending |-> FALSE]
           IN  /\ KeepsSeat(w, u) /\ KeepsVerdict(w, u) /\ KeepsPlay(w, u)
               /\ u.retained = w.retained /\ u.keptReq = w.keptReq
               /\ u.forgotten = w.forgotten
               /\ u.nextReq = w.nextReq + 1
               /\ u.req = w.nextReq /\ u.op = kind
               /\ u.probe = w.probe /\ u.loadRound = w.loadRound
               /\ u.prepared = w.prepared
               /\ u.screens = w.screens /\ u.out = w.out
               /\ p \in Operation /\ u.ops = w.ops \cup {p}
BY DEF Session, KeepsSeat, KeepsVerdict, KeepsPlay, StartOp, Operation, OpStatus

LEMMA ProbeRequestedSound ==
    ASSUME NEW w \in Session, Local(w), w.out = Silent, w.state = "InRoom",
           NEW m \in Messages
    PROVE  LET u == HandleProbeRequested(w, m)
           IN  Sound(w, u) /\ u.round = w.round
<1> DEFINE v == CancelRoundLoader(w)
           s == StartOp(v, "Probe", m.round.id)
           u == [s EXCEPT !.probe = m.round.id]
           p == [req |-> v.nextReq, kind |-> "Probe", round |-> m.round.id,
                 status |-> "Working", pending |-> FALSE]
<1>1. CASE /\ w.phase = "Loading" /\ w.round.stage = "Probing"
           /\ SameRound(w, m) /\ w.round.mine
  <2>1. m.round.id \in Nat /\ m.round.id = w.round.id /\ w.round.id # 0
    BY <1>1 DEF SameRound, Messages, RoundType
  <2>2. w.op # "Load" /\ w.prepared = 0 /\ w.loadRound = 0
    BY <1>1 DEF Local, RequestWhole
  <2>3. v \in Session
    BY CancelRoundLoaderType
  <2>4. /\ KeepsSeat(w, v) /\ KeepsVerdict(w, v) /\ KeepsRetained(w, v)
        /\ KeepsPlay(w, v) /\ KeepsScreens(w, v)
        /\ v.req = 0 /\ v.op = "None" /\ v.loadRound = 0
        /\ v.prepared = 0
        /\ v.ops = {o \in w.ops : o.req # w.req}
        /\ v.out = Silent
    BY <2>2, CancelRoundLoaderDoes
  <2>5. w.exposed = FALSE /\ w.start = NoTask /\ w.source = 0
        /\ w.sampling = FALSE
    BY <2>2 DEF Local, PlayWhole, LoadedUp, Session
  <2>6. Idle(v)
    BY <2>4, <2>5 DEF Idle, KeepsPlay
  <2>7. Local(v) /\ Stay(w, v) /\ RunningKept(w, v)
    BY <1>1, <2>3, <2>4, <2>6, IdleSound DEF KeepsScreens, KeepsOthers
  <2> HIDE DEF v
  <2>8. s \in Session
    BY <2>1, <2>3, StartOpType
  <2>9. /\ KeepsSeat(v, s) /\ KeepsVerdict(v, s) /\ KeepsPlay(v, s)
        /\ s.retained = v.retained /\ s.keptReq = v.keptReq
        /\ s.forgotten = v.forgotten
        /\ s.nextReq = v.nextReq + 1
        /\ s.req = v.nextReq /\ s.op = "Probe"
        /\ s.loadRound = 0 /\ s.prepared = 0
        /\ s.screens = v.screens /\ s.out = Silent
        /\ p \in Operation /\ s.ops = v.ops \cup {p}
    BY <2>1, <2>3, <2>4, StartOpDoes
  <2>10. p.req = v.nextReq /\ p.kind = "Probe" /\ p.status = "Working"
    OBVIOUS
  <2> HIDE DEF s, p
  <2>11. u \in Session
    BY <2>1, <2>8 DEF Session
  <2>12. /\ KeepsSeat(v, u) /\ KeepsVerdict(v, u) /\ KeepsPlay(v, u)
         /\ u.retained = v.retained /\ u.keptReq = v.keptReq
         /\ u.forgotten = v.forgotten
         /\ u.nextReq = v.nextReq + 1
         /\ u.req = v.nextReq /\ u.op = "Probe"
         /\ u.probe = m.round.id
         /\ u.loadRound = 0 /\ u.prepared = 0
         /\ u.screens = v.screens /\ u.out = Silent
         /\ u.ops = v.ops \cup {p}
    BY <2>8, <2>9 DEF Session, KeepsSeat, KeepsVerdict, KeepsPlay
  <2> HIDE DEF u
  <2>13. OpsWhole(u) /\ RunningKept(v, u)
    BY <2>3, <2>4, <2>7, <2>9, <2>10, <2>11, <2>12, NewOpWhole DEF Local
  <2>14. v.retained = 0
    BY <1>1, <2>4 DEF Local, RetainedWhole, Watched, KeepsRetained
  <2>15. RetainedWhole(u)
    BY <2>7, <2>12, <2>14 DEF Local, RetainedWhole, Watched
  <2>16. RequestWhole(u)
    <3>1. v.nextReq # 0
      BY <2>3 DEF Session
    <3>2. u.round = w.round /\ u.state = "InRoom"
      BY <2>4, <2>12 DEF KeepsSeat
    <3>3. QED
      BY <1>1, <2>1, <2>12, <3>1, <3>2 DEF RequestWhole
  <2>17. PlayWhole(u)
    BY <2>6, <2>11, <2>12, StatusZero DEF PlayWhole, Idle, KeepsPlay
  <2>18. u.round = w.round /\ u.state = w.state /\ u.phase = w.phase
    BY <2>4, <2>12 DEF KeepsSeat
  <2>19. ~w.submitted /\ ~w.abandoned
    BY <1>1 DEF Local, RoundWhole
  <2>20. KeepsVerdict(w, u)
    BY <2>4, <2>12 DEF KeepsVerdict
  <2>21. RoundWhole(u)
    BY <1>1, <2>18, <2>19, <2>20 DEF RoundWhole, KeepsVerdict, Local
  <2>22. Stay(w, u)
    <3>1. KeepsSeat(w, u)
      BY <2>18 DEF KeepsSeat
    <3>2. ~Quiet(w) /\ ~Fit(w)
      BY <1>1, <2>19 DEF Quiet, Fit
    <3>3. u.retained = 0
      BY <2>12, <2>14
    <3>4. QED
      BY <2>11, <2>19, <2>20, <3>1, <3>2, <3>3, StaySeat DEF Stay
  <2>23. RunningKept(w, u)
    BY <2>7, <2>13 DEF RunningKept
  <2>24. OutFits(u)
    BY <2>12 DEF OutFits, Silent
  <2>25. HandleProbeRequested(w, m) = u
    BY <1>1 DEF HandleProbeRequested, u, s, v
  <2>26. QED
    BY <2>13, <2>15, <2>16, <2>17, <2>18, <2>21, <2>22, <2>23, <2>24, <2>25
       DEF Sound, Local
<1>2. CASE ~(/\ w.phase = "Loading" /\ w.round.stage = "Probing"
             /\ SameRound(w, m) /\ w.round.mine)
  <2>1. HandleProbeRequested(w, m) = w
    BY <1>2 DEF HandleProbeRequested
  <2>2. OutFits(w)
    BY DEF OutFits, Silent
  <2>3. QED
    BY <2>1, <2>2, SoundSame
<1>3. QED
  BY <1>1, <1>2

\* The stage that a message about the client's round takes it to.
Reaches(w, u, m) ==
    \/ u.round.stage = w.round.stage
    \/ /\ u.round.stage = m.round.stage
       /\ m.round.id = w.round.id

MessageFits(m) ==
    /\ WholeRound(m.round)
    /\ m.type = "LoadingStarted" => m.round.stage = "Probing"
    /\ m.type = "LoadRequested" => m.round.stage = "Loading"
    /\ m.type = "StartScheduled" => m.round.stage = "Scheduled"
    /\ m.type \in {"Started", "Finalized"} => m.round.stage = "Playing"
    /\ m.type = "LaunchCancelled" =>
          m.round.stage \in {"Probing", "Loading", "Scheduled"}
    /\ m.terminal # "None" => m.round.stage # "Probing"
    /\ m.terminal = "Result" => m.round.stage \in {"Playing", "None"}

LEMMA LoadRequestedSound ==
    ASSUME NEW w \in Session, Local(w), w.out = Silent, w.state = "InRoom",
           NEW m \in Messages, m.type = "LoadRequested", MessageFits(m)
    PROVE  LET u == HandleLoadRequested(w, m)
           IN  Sound(w, u) /\ Reaches(w, u, m)
<1> DEFINE keep == /\ w.phase = "Loading" /\ ~w.abandoned
                   /\ SameRound(w, m)
                   /\ w.round.stage \in {"Probing", "Loading"}
                   /\ w.round.mine
           asked == w.loadRound = m.round.id /\ w.op = "Load"
           v == CancelPreparedRound(w, FALSE)
           s == StartOp(v, "Load", m.round.id)
           u == [s EXCEPT !.loadRound = m.round.id, !.round.stage = "Loading"]
           p == [req |-> v.nextReq, kind |-> "Load", round |-> m.round.id,
                 status |-> "Working", pending |-> FALSE]
<1>1. OutFits(w)
  BY DEF OutFits, Silent
<1>2. CASE ~keep
  <2>1. HandleLoadRequested(w, m) = w
    BY <1>2 DEF HandleLoadRequested
  <2>2. Reaches(w, w, m)
    BY DEF Reaches
  <2>3. Sound(w, w)
    BY <1>1, SoundSame
  <2>4. QED
    BY <2>1, <2>2, <2>3
<1>3. CASE keep /\ asked
  <2>1. HandleLoadRequested(w, m) = ReportPreparedRound(w)
    BY <1>3 DEF HandleLoadRequested
  <2>2. w.round.mine
    BY <1>3
  <2>3. ReportPreparedRound(w).round = w.round
    <3>1. \/ ReportPreparedRound(w) = w
          \/ ReportPreparedRound(w) =
               Send([w EXCEPT !.loadSent = TRUE],
                    [type |-> "LoadResult", round |-> w.loadRound, ok |-> TRUE])
      BY <2>2 DEF ReportPreparedRound
    <3>2. QED
      BY <3>1 DEF Send, Session
  <2>4. Reaches(w, ReportPreparedRound(w), m)
    BY <2>3 DEF Reaches
  <2>5. Sound(w, ReportPreparedRound(w))
    BY <1>1, ReportPreparedRoundSound
  <2>6. QED
    BY <2>1, <2>4, <2>5
<1>4. CASE keep /\ ~asked
  <2>1. /\ m.round.id \in Nat /\ m.round.id = w.round.id /\ w.round.id # 0
        /\ m.round.stage = "Loading"
    BY <1>4 DEF SameRound, Messages, RoundType, MessageFits
  <2>2. w.op # "Load"
    BY <1>4, <2>1 DEF Local, RequestWhole
  <2>3. w.prepared = 0
    BY <2>2 DEF Local, RequestWhole
  <2>4. ~LoadedUp(w) /\ ~w.submitted /\ ~w.abandoned
    BY <1>4, <2>3 DEF LoadedUp, Local, RoundWhole
  <2>5. ~Quiet(w) /\ ~Fit(w)
    BY <1>4, <2>4 DEF Quiet, Fit
  <2>6. v \in Session
    BY CancelPreparedRoundType
  <2>7. /\ KeepsSeat(w, v) /\ KeepsVerdict(w, v) /\ KeepsRetained(w, v)
        /\ Idle(v) /\ KeepsScreens(w, v)
        /\ v.ops = {o \in w.ops : o.req # w.req}
        /\ v.out = Silent
    BY CancelPreparedRoundDoes
  <2>8. Local(v) /\ RunningKept(w, v)
    BY <1>4, <2>4, <2>6, <2>7, IdleSound DEF KeepsScreens, KeepsOthers
  <2> HIDE DEF v
  <2>9. s \in Session
    BY <2>1, <2>6, StartOpType
  <2>10. /\ KeepsSeat(v, s) /\ KeepsVerdict(v, s) /\ KeepsPlay(v, s)
         /\ s.retained = v.retained /\ s.keptReq = v.keptReq
         /\ s.forgotten = v.forgotten
         /\ s.nextReq = v.nextReq + 1
         /\ s.req = v.nextReq /\ s.op = "Load"
         /\ s.prepared = 0
         /\ s.screens = v.screens /\ s.out = Silent
         /\ p \in Operation /\ s.ops = v.ops \cup {p}
    BY <2>1, <2>6, <2>7, StartOpDoes DEF Idle
  <2>11. /\ p.req = v.nextReq /\ p.kind = "Load" /\ p.status = "Working"
         /\ p.round = m.round.id
    OBVIOUS
  <2> HIDE DEF s, p
  <2>12. u \in Session
    BY <2>1, <2>9, StageFields DEF Stage
  <2>13. /\ u.state = v.state /\ u.phase = v.phase
         /\ u.round = [v.round EXCEPT !.stage = "Loading"]
         /\ KeepsVerdict(v, u) /\ KeepsPlay(v, u)
         /\ u.retained = v.retained /\ u.keptReq = v.keptReq
         /\ u.forgotten = v.forgotten
         /\ u.nextReq = v.nextReq + 1
         /\ u.req = v.nextReq /\ u.op = "Load"
         /\ u.loadRound = m.round.id /\ u.prepared = 0
         /\ u.screens = v.screens /\ u.out = Silent
         /\ u.ops = v.ops \cup {p}
    BY <2>9, <2>10 DEF Session, KeepsSeat, KeepsVerdict, KeepsPlay
  <2> HIDE DEF u
  <2>14. OpsWhole(u) /\ RunningKept(v, u)
    BY <2>6, <2>7, <2>8, <2>10, <2>11, <2>12, <2>13, NewOpWhole DEF Local, Idle
  <2>15. v.retained = 0
    BY <1>4, <2>1, <2>7 DEF Local, RetainedWhole, Watched, KeepsRetained
  <2>16. RetainedWhole(u)
    BY <2>8, <2>13, <2>15 DEF Local, RetainedWhole, Watched
  <2>17. /\ u.round.id = w.round.id /\ u.round.mine = w.round.mine
         /\ u.round.stage = "Loading" /\ u.state = "InRoom"
         /\ u.phase = "Loading"
    <3>1. v.round = w.round /\ w.round \in RoundType
      BY <2>7 DEF KeepsSeat, Session, RoundType
    <3>2. u.round = [w.round EXCEPT !.stage = "Loading"]
      BY <2>13, <3>1
    <3>3. /\ u.round.id = w.round.id /\ u.round.mine = w.round.mine
          /\ u.round.stage = "Loading"
      BY <3>1, <3>2 DEF RoundType
    <3>4. QED
      BY <1>4, <2>7, <2>13, <3>3 DEF KeepsSeat
  <2>18. RequestWhole(u)
    <3>1. v.nextReq # 0
      BY <2>6 DEF Session
    <3>2. \E o \in u.ops : /\ o.req = u.req /\ o.round = u.round.id
                           /\ (o.status = "Working") <=> (u.prepared = 0)
      BY <2>1, <2>11, <2>13, <2>17
    <3>3. QED
      BY <1>4, <2>1, <2>13, <2>17, <3>1, <3>2 DEF RequestWhole
  <2>19. PlayWhole(u)
    BY <2>7, <2>12, <2>13, StatusZero DEF PlayWhole, Idle, KeepsPlay
  <2>20. KeepsVerdict(w, u)
    BY <2>7, <2>13 DEF KeepsVerdict
  <2>21. RoundWhole(u)
    <3>1. PhaseOf("Loading") = "Loading"
      BY DEF PhaseOf
    <3>2. QED
      BY <2>1, <2>4, <2>17, <2>20, <3>1
         DEF RoundWhole, KeepsVerdict, Local, WholeRound
  <2>22. Stay(w, u)
    <3>1. Rank(w.round.stage) <= Rank(u.round.stage)
      BY <1>4, <2>17 DEF Rank
    <3>2. u.retained = 0
      BY <2>13, <2>15
    <3>3. QED
      BY <2>4, <2>5, <2>17, <3>1, <3>2 DEF Stay
  <2>23. RunningKept(w, u)
    BY <2>8, <2>14 DEF RunningKept
  <2>24. OutFits(u)
    BY <2>13 DEF OutFits, Silent
  <2>25. HandleLoadRequested(w, m) = u
    BY <1>4 DEF HandleLoadRequested, u, s, v
  <2>26. Reaches(w, u, m)
    BY <2>1, <2>17 DEF Reaches
  <2>27. QED
    BY <2>14, <2>16, <2>17, <2>18, <2>19, <2>21, <2>22, <2>23, <2>24, <2>25,
       <2>26 DEF Sound, Local
<1>5. QED
  BY <1>2, <1>3, <1>4

\* The stage of the round moves on, nothing else.
LEMMA StageDoes ==
    ASSUME NEW w \in Session, NEW stage \in Stage
    PROVE  LET rd == [w.round EXCEPT !.stage = stage]
           IN  /\ rd \in RoundType
               /\ rd.id = w.round.id /\ rd.mine = w.round.mine
               /\ rd.stage = stage
<1>1. w.round \in RoundType
  BY SMTT(30) DEF Session, RoundType
<1>2. QED
  BY <1>1 DEF RoundType

LEMMA StageSound ==
    ASSUME NEW w \in Session, Local(w), w.round.id # 0,
           NEW u \in Session, u.state = w.state,
           u.round.id = w.round.id, u.round.mine = w.round.mine,
           u.round.stage \in {"Scheduled", "Playing"},
           Rank(w.round.stage) <= Rank(u.round.stage),
           u.phase = PhaseOf(u.round.stage),
           w.prepared = w.req, w.op # "Probe",
           KeepsVerdict(w, u), KeepsRetained(w, u), KeepsRequest(w, u),
           u.screens = w.screens, u.ops = w.ops, u.exposed = w.exposed,
           u.sampling = w.sampling,
           u.source # 0 => u.source = u.prepared /\ u.guid = u.source,
           w.sampling => u.source = w.source,
           u.start # NoTask =>
             /\ u.state = "InRoom"
             /\ u.start = [round |-> u.round.id, runner |-> u.prepared]
             /\ LoadedUp(w)
             /\ ~w.submitted,
           w.submitted /\ ~w.abandoned => u.round.stage = "Playing"
    PROVE  Local(u) /\ Stay(w, u) /\ RunningKept(w, u)
<1>1. \A r : /\ Status(u, r) = Status(w, r)
             /\ Pending(u, r) <=> Pending(w, r)
             /\ HasScreen(u, r) <=> HasScreen(w, r)
  BY StatusSame DEF HasScreen
<1>2. /\ u.req = w.req /\ u.op = w.op /\ u.probe = w.probe
      /\ u.loadRound = w.loadRound /\ u.prepared = w.prepared
  BY DEF KeepsRequest
<1>3. LoadedUp(u) <=> LoadedUp(w)
  BY <1>1, <1>2 DEF LoadedUp
<1>4. /\ u.terminal = w.terminal /\ u.abandoned = w.abandoned
      /\ u.submitted = w.submitted
  BY DEF KeepsVerdict
<1>5. /\ u.retained = w.retained /\ u.keptReq = w.keptReq
      /\ u.forgotten = w.forgotten
      /\ u.nextReq = w.nextReq
  BY DEF KeepsRetained
<1>6. OpsWhole(u)
  BY <1>1, <1>2, <1>5 DEF Local, OpsWhole
<1>7. RequestWhole(u)
  BY <1>2 DEF Local, RequestWhole
<1>8. PlayWhole(u)
  <2>1. u.sampling => /\ u.source # 0
                      /\ Status(u, u.source) = "Running"
                      /\ ~u.submitted
    BY <1>1, <1>4 DEF Local, PlayWhole
  <2>2. u.start # NoTask =>
          /\ u.state = "InRoom"
          /\ u.start = [round |-> u.round.id, runner |-> u.prepared]
          /\ LoadedUp(u)
          /\ u.round.stage \in {"Scheduled", "Playing"}
          /\ ~u.submitted
    BY <1>3, <1>4
  <2>3. /\ u.exposed => u.prepared # 0
        /\ u.exposed /\ Pending(u, u.prepared) => HasScreen(u, u.prepared)
    BY <1>1, <1>2 DEF Local, PlayWhole
  <2>4. QED
    BY <2>1, <2>2, <2>3 DEF PlayWhole
<1>9. RetainedWhole(u)
  BY <1>5 DEF Local, RetainedWhole, Watched
<1>10. RoundWhole(u)
  <2>1. WholeRound(u.round)
    BY DEF WholeRound
  <2>2. u.state = "Out" => u.round.id = 0
    BY DEF Local, RoundWhole
  <2>3. u.abandoned => u.submitted
    BY <1>4 DEF Local, RoundWhole
  <2>4. u.terminal.kind # "None" =>
         /\ u.submitted
         /\ u.round.mine
         /\ u.terminal.round = u.round.id
         /\ u.terminal.kind = "Result" => u.terminal.chart = u.round.id
    BY <1>4 DEF Local, RoundWhole
  <2>5. u.submitted /\ ~u.abandoned => u.round.stage = "Playing"
    BY <1>4
  <2>6. QED
    BY <1>2, <2>1, <2>2, <2>3, <2>4, <2>5 DEF RoundWhole
<1>11. Stay(w, u)
  <2>1. Quiet(w) => Quiet(u)
    BY <1>1, <1>2, <1>4 DEF Quiet
  <2>2. Fit(u)
    BY DEF Fit
  <2>3. QED
    BY <1>4, <1>5, <2>1, <2>2 DEF Stay
<1>12. RunningKept(w, u)
  BY DEF RunningKept
<1>13. QED
  BY <1>6, <1>7, <1>8, <1>9, <1>10, <1>11, <1>12 DEF Local

LEMMA StartScheduledSound ==
    ASSUME NEW w \in Session, Local(w), w.out = Silent, w.state = "InRoom",
           NEW m \in Messages, m.type = "StartScheduled", MessageFits(m),
           NEW attaches \in BOOLEAN
    PROVE  LET u == HandleRoundStartScheduled(w, m, attaches)
           IN  /\ Sound(w, u) /\ Reaches(w, u, m)
               /\ (m.round.id = w.round.id /\ Fit(w)) =>
                     (u.abandoned \/ u.round.stage \in {"Scheduled", "Playing"})
<1> DEFINE h    == HandleRoundStartScheduled(w, m, attaches)
           skip == \/ w.phase # "Loading"
                   \/ ~SameRound(w, m)
                   \/ w.round.stage \notin {"Loading", "Scheduled"}
                   \/ w.loadRound = 0
                   \/ w.prepared = 0
                   \/ Status(w, w.prepared) # "Ready"
                   \/ ~w.exposed
                   \/ ~Pending(w, w.prepared)
                   \/ w.abandoned
           rd   == [w.round EXCEPT !.stage = "Scheduled"]
           s    == [w EXCEPT !.loadSent = FALSE, !.start = NoTask,
                             !.round = rd]
           t    == [round |-> m.round.id, runner |-> s.prepared]
           a    == [Attached(s, s.prepared) EXCEPT !.start = t]
           x    == SendAbandon(s)
           c    == CancelPreparedRound(x, TRUE)
           Out  == /\ Sound(w, h) /\ Reaches(w, h, m)
                   /\ (m.round.id = w.round.id /\ Fit(w)) =>
                         (h.abandoned \/ h.round.stage \in {"Scheduled", "Playing"})
<1>1. OutFits(w)
  BY DEF OutFits, Silent
<1>2. CASE skip
  <2>1. h = w
    BY <1>2 DEF HandleRoundStartScheduled
  <2>2. Reaches(w, w, m)
    BY DEF Reaches
  <2>3. Sound(w, w)
    BY <1>1, SoundSame
  <2> HIDE DEF h
  <2>4. ASSUME m.round.id = w.round.id, Fit(w), ~w.abandoned,
               w.round.stage \notin {"Scheduled", "Playing"}
        PROVE  FALSE
    <3>1. m.round.id # 0
      BY DEF MessageFits, WholeRound, NoRound
    <3>2. w.round.stage = "Loading"
      BY <2>4, <3>1 DEF Fit, Local, RoundWhole, WholeRound, Session, Stage
    <3>3. LoadedUp(w) /\ w.phase = "Loading"
      BY <2>4, <3>2 DEF Fit, Local, RoundWhole, PhaseOf
    <3>4. w.loadRound # 0
      <4>1. w.op = "Load"
        BY <3>3 DEF Local, RequestWhole, LoadedUp
      <4>2. QED
        BY <2>4, <3>1, <4>1 DEF Local, RequestWhole
    <3>5. QED
      BY <1>2, <2>4, <3>1, <3>2, <3>3, <3>4 DEF LoadedUp, SameRound
  <2>5. Out
    BY <2>1, <2>2, <2>3, <2>4
  <2>6. QED
    BY <2>5 DEF h
<1>3. CASE ~skip
  <2>1. /\ m.round.id = w.round.id /\ w.round.id # 0 /\ m.round.id \in Nat
        /\ m.round.stage = "Scheduled"
    BY <1>3 DEF SameRound, Messages, RoundType, MessageFits
  <2>2. LoadedUp(w) /\ w.prepared # 0 /\ w.prepared \in Nat
    BY <1>3 DEF LoadedUp, Session
  <2>3. w.round.mine /\ w.op = "Load" /\ w.prepared = w.req
    BY <2>2, PreparedOp DEF Local
  <2>4. ~w.submitted /\ w.terminal.kind = "None"
    BY <1>3 DEF Local, RoundWhole, LoadedUp
  <2>5. /\ rd \in RoundType /\ rd.id = w.round.id /\ rd.mine = w.round.mine
        /\ rd.stage = "Scheduled"
    BY StageDoes DEF Stage
  <2>6. h = IF attaches THEN a ELSE c
    <3> DEFINE raw == [w EXCEPT !.loadSent = FALSE, !.start = NoTask,
                                !.round.stage = "Scheduled"]
    <3>1. raw = s
      BY DEF Session
    <3>2. s.prepared = w.prepared
      BY DEF Session
    <3>3. h = IF attaches
                THEN [Attached(raw, w.prepared) EXCEPT
                        !.start = [round |-> m.round.id,
                                   runner |-> w.prepared]]
                ELSE CancelPreparedRound(SendAbandon(raw), TRUE)
      BY <1>3 DEF HandleRoundStartScheduled
    <3> HIDE DEF raw, s, h
    <3>4. QED
      BY <3>1, <3>2, <3>3
  <2> HIDE DEF rd, h
  <2>7. s \in Session
    BY <2>5, SeatFields
  <2>8. /\ s.state = w.state /\ s.phase = w.phase /\ s.round = rd
        /\ KeepsVerdict(w, s) /\ KeepsRetained(w, s) /\ KeepsRequest(w, s)
        /\ s.screens = w.screens /\ s.ops = w.ops /\ s.exposed = w.exposed
        /\ s.sampling = w.sampling /\ s.source = w.source /\ s.guid = w.guid
        /\ s.start = NoTask /\ s.out = Silent
    BY DEF Session, KeepsVerdict, KeepsRetained, KeepsRequest
  <2> HIDE DEF s
  <2>9. /\ PhaseOf("Scheduled") = "Loading"
        /\ Rank(w.round.stage) <= Rank("Scheduled")
    BY <1>3 DEF PhaseOf, Rank
  <2>10. w.source # 0 => w.source = w.prepared /\ w.guid = w.source
    BY DEF Local, PlayWhole
  <2>11. Reaches(w, s, m)
    BY <2>1, <2>5, <2>8 DEF Reaches
  <2>12. s.prepared = w.prepared
    BY <2>8 DEF KeepsRequest
  <2>13. CASE attaches
    <3>1. t = [round |-> w.round.id, runner |-> w.prepared]
      BY <2>1, <2>12
    <3>2. t \in [round : Nat, runner : Nat]
      BY <2>1, <2>2, <2>12
    <3> HIDE DEF t
    <3>3. a \in Session
      <4>1. Attached(s, s.prepared) \in Session
        BY <2>2, <2>7, <2>12, AttachedType
      <4>2. QED
        BY <3>2, <4>1 DEF Session
    <3>4. /\ a.state = w.state /\ a.phase = w.phase /\ a.round = rd
          /\ KeepsVerdict(w, a) /\ KeepsRetained(w, a) /\ KeepsRequest(w, a)
          /\ a.screens = w.screens /\ a.ops = w.ops /\ a.exposed = w.exposed
          /\ a.sampling = w.sampling /\ a.source = w.prepared
          /\ a.guid = w.prepared
          /\ a.start = t /\ a.out = Silent
      BY <2>7, <2>8, <2>12
         DEF Attached, Session, KeepsVerdict, KeepsRetained, KeepsRequest
    <3> HIDE DEF a
    <3>5. a.prepared = w.prepared
      BY <3>4 DEF KeepsRequest
    <3>6. w.sampling => a.source = w.source
      BY <3>4 DEF Local, PlayWhole
    <3>7. Local(a) /\ Stay(w, a) /\ RunningKept(w, a)
      <4>1. a.phase = PhaseOf(a.round.stage)
        BY <1>3, <2>5, <2>9, <3>4
      <4>2. /\ a.round.id = w.round.id /\ a.round.mine = w.round.mine
            /\ a.round.stage = "Scheduled"
        BY <2>5, <3>4
      <4>3. Rank(w.round.stage) <= Rank(a.round.stage)
        BY <2>9, <4>2
      <4>4. a.start = [round |-> a.round.id, runner |-> a.prepared]
        BY <3>1, <3>4, <3>5, <4>2
      <4>5. w.op # "Probe"
        BY <2>3
      <4>6. QED
        BY <2>1, <2>2, <2>3, <2>4, <3>3, <3>4, <3>5, <3>6, <4>1, <4>2, <4>3,
           <4>4, <4>5, StageSound
    <3>8. OutFits(a)
      BY <3>4 DEF OutFits, Silent
    <3>9. Reaches(w, a, m) /\ a.round.stage = "Scheduled"
      BY <2>1, <2>5, <3>4 DEF Reaches
    <3>10. h = a
      BY <2>6, <2>13
    <3>11. Sound(w, a)
      BY <3>4, <3>7, <3>8 DEF Sound
    <3>12. Out
      BY <3>9, <3>10, <3>11
    <3>13. QED
      BY <3>12 DEF h
  <2>14. CASE ~attaches
    <3>1. Local(s) /\ Stay(w, s) /\ RunningKept(w, s)
      <4>1. s.phase = PhaseOf(s.round.stage)
        BY <1>3, <2>5, <2>8, <2>9
      <4>2. /\ s.round.id = w.round.id /\ s.round.mine = w.round.mine
            /\ s.round.stage = "Scheduled"
        BY <2>5, <2>8
      <4>3. Rank(w.round.stage) <= Rank(s.round.stage)
        BY <2>9, <4>2
      <4>4. s.source # 0 => s.source = s.prepared /\ s.guid = s.source
        BY <2>8, <2>10, <2>12
      <4>5. w.op # "Probe"
        BY <2>3
      <4>6. QED
        BY <2>1, <2>3, <2>4, <2>7, <2>8, <4>1, <4>2, <4>3, <4>4, <4>5, StageSound
    <3>2. s.round.id # 0 /\ s.terminal.kind = "None" /\ ~s.submitted
      BY <2>1, <2>4, <2>5, <2>8 DEF KeepsVerdict
    <3>3. x \in Session
      BY <2>7, SendAbandonType
    <3>4. /\ KeepsSeat(s, x) /\ KeepsRetained(s, x)
          /\ KeepsRequest(s, x) /\ KeepsPlay(s, x)
          /\ x.screens = s.screens /\ x.ops = s.ops
          /\ x.submitted = TRUE /\ x.abandoned = TRUE
          /\ x.terminal.kind = "Dnf" /\ x.terminal.round = s.round.id
          /\ \/ x.out = s.out
             \/ SaysTerminal(x)
      BY <2>7, <3>2, SendAbandonDoes
    <3> HIDE DEF x
    <3>5. c \in Session
      BY <3>3, CancelPreparedRoundType
    <3>6. PICK b \in BOOLEAN : b = TRUE
      OBVIOUS
    <3>7. c = CancelPreparedRound(x, b)
      BY <3>6
    <3>8. /\ KeepsSeat(x, c) /\ KeepsVerdict(x, c) /\ KeepsRetained(x, c)
          /\ Idle(c) /\ KeepsScreens(x, c)
          /\ c.ops = {o \in x.ops : o.req # x.req}
          /\ c.out = x.out
      BY <3>3, <3>7, CancelPreparedRoundDoes
    <3> HIDE DEF c
    <3>9. /\ KeepsSeat(s, c) /\ KeepsRetained(s, c) /\ KeepsOthers(s, c)
          /\ c.ops = {o \in s.ops : o.req # s.req}
          /\ c.submitted = TRUE /\ c.abandoned = TRUE
          /\ c.terminal.kind = "Dnf"
          /\ c.terminal.round = s.round.id
      BY <3>4, <3>8 DEF KeepsSeat, KeepsRetained, KeepsOthers, KeepsScreens,
         HasScreen, KeepsVerdict, KeepsRequest
    <3>10. s.submitted = FALSE /\ s.round.mine /\ s.round.stage # "Probing"
      BY <2>3, <2>5, <2>7, <2>8, <3>2 DEF Session
    <3>11. Local(c) /\ Stay(s, c) /\ RunningKept(s, c)
      BY <2>7, <3>1, <3>5, <3>8, <3>9, <3>10, IdleSound
    <3>12. OutFits(c)
      BY <2>8, <3>4, <3>8, <3>9 DEF OutFits, SaysTerminal, Silent, KeepsVerdict
    <3>13. Sound(s, c)
      BY <3>9, <3>11, <3>12 DEF Sound, KeepsSeat
    <3>14. Sound(w, c)
      BY <2>7, <2>8, <3>1, <3>5, <3>13, SoundThrough
    <3>15. c.round = s.round
      BY <3>9 DEF KeepsSeat
    <3>16. Reaches(w, c, m)
      BY <2>11, <3>15 DEF Reaches
    <3>17. h = c
      BY <2>6, <2>14
    <3>18. Out
      BY <3>9, <3>14, <3>16, <3>17
    <3>19. QED
      BY <3>18 DEF h
  <2>15. QED
    BY <2>13, <2>14
<1>4. QED
  BY <1>2, <1>3

LEMMA StartedSound ==
    ASSUME NEW w \in Session, Local(w), w.out = Silent, w.state = "InRoom",
           NEW m \in Messages, m.type = "Started", MessageFits(m)
    PROVE  LET u == HandleRoundStarted(w, m)
           IN  /\ Sound(w, u) /\ Reaches(w, u, m)
               /\ (/\ m.round.id = w.round.id
                   /\ w.round.mine =>
                        (w.abandoned \/ w.round.stage \in {"Scheduled", "Playing"}))
                  => (u.round.stage = "Playing" \/ (u.round.mine /\ u.abandoned))
<1> DEFINE h    == HandleRoundStarted(w, m)
           skip == \/ w.phase # "Loading"
                   \/ ~SameRound(w, m)
                   \/ (w.round.mine /\ w.round.stage # "Scheduled")
                   \/ (~w.round.mine /\ w.round.stage = "Playing")
           rd   == [w.round EXCEPT !.stage = "Playing"]
           s    == [w EXCEPT !.phase = "Playing", !.round = rd]
           u    == FlushCompetitionMessages(s)
           Told == /\ m.round.id = w.round.id
                   /\ w.round.mine =>
                        (w.abandoned \/ w.round.stage \in {"Scheduled", "Playing"})
           Out  == /\ Sound(w, h) /\ Reaches(w, h, m)
                   /\ Told => (h.round.stage = "Playing"
                                 \/ (h.round.mine /\ h.abandoned))
<1>1. CASE skip
  <2>1. h = w
    BY <1>1 DEF HandleRoundStarted
  <2>2. OutFits(w)
    BY DEF OutFits, Silent
  <2>3. Reaches(w, w, m)
    BY DEF Reaches
  <2>4. Sound(w, w)
    BY <2>2, SoundSame
  <2> HIDE DEF h
  <2>5. ASSUME Told
        PROVE  w.round.stage = "Playing" \/ (w.round.mine /\ w.abandoned)
    <3>1. m.round.id # 0 /\ w.round.id # 0
      BY <2>5 DEF MessageFits, WholeRound, NoRound
    <3>2. w.phase # "Loading" => w.round.stage = "Playing"
      BY <3>1 DEF Local, RoundWhole, WholeRound, PhaseOf
    <3>3. QED
      BY <1>1, <2>5, <3>1, <3>2 DEF SameRound
  <2>6. Out
    BY <2>1, <2>3, <2>4, <2>5
  <2>7. QED
    BY <2>6 DEF h
<1>2. CASE ~skip
  <2>1. /\ m.round.id = w.round.id /\ w.round.id # 0
        /\ m.round.stage = "Playing"
    BY <1>2 DEF SameRound, MessageFits
  <2>2. /\ rd \in RoundType /\ rd.id = w.round.id /\ rd.mine = w.round.mine
        /\ rd.stage = "Playing"
    BY StageDoes DEF Stage
  <2>3. h = u
    <3> DEFINE raw == [w EXCEPT !.phase = "Playing", !.round.stage = "Playing"]
    <3>1. raw = s
      BY DEF Session
    <3>2. h = FlushCompetitionMessages(raw)
      BY <1>2 DEF HandleRoundStarted
    <3> HIDE DEF raw, s, h
    <3>3. QED
      BY <3>1, <3>2
  <2> HIDE DEF rd, h
  <2>4. s \in Session
    BY <2>2, SeatFields
  <2>5. /\ s.state = w.state /\ s.phase = "Playing" /\ s.round = rd
        /\ KeepsVerdict(w, s) /\ KeepsRetained(w, s) /\ KeepsRequest(w, s)
        /\ s.screens = w.screens /\ s.ops = w.ops /\ s.exposed = w.exposed
        /\ s.sampling = w.sampling /\ s.source = w.source /\ s.guid = w.guid
        /\ s.start = w.start /\ s.out = Silent
    BY DEF Session, KeepsVerdict, KeepsRetained, KeepsRequest
  <2> HIDE DEF s
  <2>6. u \in Session
    BY <2>4, FlushCompetitionMessagesType
  <2>7. /\ KeepsSeat(s, u) /\ KeepsVerdict(s, u) /\ KeepsRetained(s, u)
        /\ KeepsRequest(s, u) /\ KeepsPlay(s, u)
        /\ u.screens = s.screens /\ u.ops = s.ops
        /\ \/ u.out = s.out
           \/ /\ SaysTerminal(u)
              /\ s.terminal.kind # "None"
    BY <2>4, FlushCompetitionMessagesDoes
  <2> HIDE DEF u
  <2>8. /\ u.state = w.state /\ u.phase = "Playing" /\ u.round = rd
        /\ KeepsVerdict(w, u) /\ KeepsRetained(w, u) /\ KeepsRequest(w, u)
        /\ u.screens = w.screens /\ u.ops = w.ops /\ u.exposed = w.exposed
        /\ u.sampling = w.sampling /\ u.source = w.source /\ u.guid = w.guid
        /\ u.start = w.start
    BY <2>5, <2>7 DEF KeepsSeat, KeepsVerdict, KeepsRetained, KeepsRequest,
       KeepsPlay
  <2>9. w.prepared = w.req /\ w.op # "Probe"
    <3>1. CASE w.round.mine
      BY <1>2, <3>1 DEF Local, RoundWhole, RequestWhole
    <3>2. CASE ~w.round.mine
      BY <3>2 DEF Local, RequestWhole
    <3>3. QED
      BY <3>1, <3>2
  <2>10. Rank(w.round.stage) <= Rank(u.round.stage)
    <3>1. Rank(w.round.stage) \in 0..4
      BY RankNat DEF Session
    <3>2. Rank(u.round.stage) = 4
      BY <2>2, <2>8 DEF Rank
    <3>3. QED
      BY <3>1, <3>2
  <2>11. u.phase = PhaseOf(u.round.stage)
    BY <2>2, <2>8 DEF PhaseOf
  <2>12. u.prepared = w.prepared
    BY <2>8 DEF KeepsRequest
  <2>13. u.start # NoTask =>
             /\ u.state = "InRoom"
             /\ u.start = [round |-> u.round.id, runner |-> u.prepared]
             /\ LoadedUp(w)
             /\ ~w.submitted
    BY <2>2, <2>8, <2>12 DEF Local, PlayWhole
  <2>14. u.source # 0 => u.source = u.prepared /\ u.guid = u.source
    BY <2>8, <2>12 DEF Local, PlayWhole
  <2>15. Local(u) /\ Stay(w, u) /\ RunningKept(w, u)
    <3>1. /\ u.round.id = w.round.id /\ u.round.mine = w.round.mine
          /\ u.round.stage = "Playing"
      BY <2>2, <2>8
    <3>2. QED
      BY <2>1, <2>6, <2>8, <2>9, <2>10, <2>11, <2>13, <2>14, <3>1, StageSound
  <2>16. OutFits(u)
    <3>1. u.terminal = s.terminal
      BY <2>7 DEF KeepsVerdict
    <3>2. u.round.stage = "Playing"
      BY <2>2, <2>8
    <3>3. QED
      BY <2>5, <2>7, <3>1, <3>2 DEF OutFits, SaysTerminal, Silent
  <2>17. Sound(w, u)
    BY <2>8, <2>15, <2>16 DEF Sound
  <2>18. Reaches(w, u, m) /\ u.round.stage = "Playing"
    BY <2>1, <2>2, <2>8 DEF Reaches
  <2>19. Out
    BY <2>3, <2>17, <2>18
  <2>20. QED
    BY <2>19 DEF h
<1>3. QED
  BY <1>1, <1>2

\* The verdict of the server replaces what the player would still send.
LEMMA SettledByServerSound ==
    ASSUME NEW w \in Session, Local(w), w.out = Silent,
           NEW t \in {"Result", "Dnf"},
           w.start = NoTask, w.prepared = w.req,
           w.round.stage # "Probing",
           t = "Result" => \/ w.round.stage = "Playing"
                           \/ w.round.stage = "None" /\ ~w.abandoned
    PROVE  LET u == SettledByServer(w, t)
           IN  /\ Sound(w, u) /\ u.round = w.round /\ u.out = Silent
               /\ KeepsRequest(w, u) /\ u.submitted = TRUE
               /\ u.exposed = w.exposed /\ u.start = NoTask
               /\ u.ops = w.ops
<1> DEFINE v == StopTelemetrySampling(w)
           b == t = "Dnf"
           u == [v EXCEPT !.terminal = NoTerminal, !.submitted = TRUE,
                          !.abandoned = b]
<1>1. u = SettledByServer(w, t)
  BY DEF SettledByServer
<1>2. v \in Session
  BY TelemetryType
<1>3. b \in BOOLEAN
  OBVIOUS
<1>4. b <=> t = "Dnf"
  OBVIOUS
<1> HIDE DEF b
<1>5. u \in Session
  <2>1. PICK c \in BOOLEAN : c = TRUE
    OBVIOUS
  <2>2. [v EXCEPT !.terminal = NoTerminal, !.submitted = c,
                  !.abandoned = b] \in Session
    BY <1>2, <1>3, VerdictFields
  <2>3. QED
    BY <2>1, <2>2
<1>6. /\ KeepsSeat(w, v) /\ KeepsRetained(w, v) /\ KeepsRequest(w, v)
      /\ v.screens = w.screens /\ v.ops = w.ops /\ v.exposed = w.exposed
      /\ v.sampling = FALSE /\ v.source = w.source /\ v.guid = w.guid
      /\ v.start = w.start /\ v.out = Silent
  BY DEF StopTelemetrySampling, Session, KeepsSeat, KeepsRetained, KeepsRequest
<1> HIDE DEF v
<1>7. /\ KeepsSeat(w, u) /\ KeepsRetained(w, u) /\ KeepsRequest(w, u)
      /\ u.screens = w.screens /\ u.ops = w.ops /\ u.exposed = w.exposed
      /\ u.sampling = FALSE /\ u.source = w.source /\ u.guid = w.guid
      /\ u.start = NoTask /\ u.out = Silent
      /\ u.terminal = NoTerminal /\ u.submitted = TRUE /\ u.abandoned = b
  BY <1>2, <1>3, <1>6 DEF Session, KeepsSeat, KeepsRetained, KeepsRequest
<1> HIDE DEF u
<1>8. \A r : /\ Status(u, r) = Status(w, r)
             /\ Pending(u, r) <=> Pending(w, r)
             /\ HasScreen(u, r) <=> HasScreen(w, r)
  BY <1>7, StatusSame DEF HasScreen
<1>9. /\ u.req = w.req /\ u.op = w.op /\ u.probe = w.probe
      /\ u.loadRound = w.loadRound /\ u.prepared = w.prepared
      /\ u.state = w.state /\ u.phase = w.phase /\ u.round = w.round
      /\ u.retained = w.retained /\ u.keptReq = w.keptReq
      /\ u.forgotten = w.forgotten
      /\ u.nextReq = w.nextReq
  BY <1>7 DEF KeepsSeat, KeepsRequest, KeepsRetained
<1>10. OpsWhole(u)
  BY <1>7, <1>8, <1>9 DEF Local, OpsWhole
<1>11. RequestWhole(u)
  BY <1>7, <1>9 DEF Local, RequestWhole
<1>12. PlayWhole(u)
  BY <1>7, <1>8, <1>9 DEF Local, PlayWhole
<1>13. RetainedWhole(u)
  BY <1>7, <1>9 DEF Local, RetainedWhole, Watched
<1>14. u.submitted /\ ~u.abandoned =>
          w.round.stage = "Playing" \/ w.round.stage = "None"
  BY <1>4, <1>7
<1>15. RoundWhole(u)
  BY <1>7, <1>9, <1>14, NoVerdict DEF Local, RoundWhole
<1>16. Stay(w, u)
  <2>1. Quiet(u)
    BY <1>7 DEF Quiet
  <2>2. Fit(w) => Fit(u)
    BY <1>9, <1>14, <1>7 DEF Fit
  <2>3. w.abandoned => u.abandoned \/ u.round.stage = "Playing"
    BY <1>4, <1>7, <1>9
  <2>4. u.retained \in {0, w.retained}
    BY <1>9
  <2>5. QED
    BY <1>5, <1>7, <2>1, <2>2, <2>3, <2>4, StaySeat DEF Stay
<1>17. RunningKept(w, u)
  BY <1>7 DEF RunningKept
<1>18. OutFits(u)
  BY <1>7 DEF OutFits, Silent
<1>19. Sound(w, u)
  BY <1>9, <1>10, <1>11, <1>12, <1>13, <1>15, <1>16, <1>17, <1>18
     DEF Sound, Local
<1>20. QED
  BY <1>1, <1>7, <1>9, <1>19

LEMMA StandingsSound ==
    ASSUME NEW w \in Session, Local(w), w.out = Silent,
           NEW m \in Messages,
           SameRound(w, m) /\ m.terminal # "None" =>
             /\ Quiet(w)
             /\ m.terminal = "Result" => w.round.stage = "Playing"
    PROVE  LET u == HandleStandings(w, m)
           IN  Sound(w, u) /\ u.round = w.round
<1> DEFINE h == HandleStandings(w, m)
<1>1. CASE ~SameRound(w, m) \/ m.terminal = "None"
  <2>1. h = w
    BY <1>1 DEF HandleStandings, SettledByServer
  <2>2. OutFits(w)
    BY DEF OutFits, Silent
  <2>3. Sound(w, w)
    BY <2>2, SoundSame
  <2> HIDE DEF h
  <2>4. Sound(w, h) /\ h.round = w.round
    BY <2>1, <2>3
  <2>5. QED
    BY <2>4 DEF h
<1>2. CASE SameRound(w, m) /\ m.terminal # "None"
  <2>1. h = SettledByServer(w, m.terminal)
    BY <1>2 DEF HandleStandings
  <2>2. m.terminal \in {"Result", "Dnf"}
    BY <1>2 DEF Messages, TerminalKind
  <2>3. w.round.id # 0 /\ w.round.stage # "None"
    BY <1>2 DEF SameRound, Local, RoundWhole, WholeRound
  <2>4. w.round.stage # "Probing" /\ w.prepared = w.req
    BY <1>2, <2>3 DEF Quiet, Local, RoundWhole, Session, Stage
  <2>5. w.start = NoTask
    BY <1>2 DEF Quiet, Local, PlayWhole, LoadedUp
  <2> HIDE DEF h
  <2>6. Sound(w, h) /\ h.round = w.round
    BY <1>2, <2>1, <2>2, <2>4, <2>5, SettledByServerSound
  <2>7. QED
    BY <2>6 DEF h
<1>3. QED
  BY <1>1, <1>2

LEMMA AcknowledgedSound ==
    ASSUME NEW w \in Session, Local(w), w.out = Silent
    PROVE  Sound(w, [w EXCEPT !.terminal = NoTerminal])
<1> DEFINE u == [w EXCEPT !.terminal = NoTerminal]
<1>1. u \in Session
  <2>1. PICK b \in BOOLEAN : TRUE
    OBVIOUS
  <2>2. QED
    BY SMTT(30), NoValuesType DEF Session
<1>2. /\ KeepsSeat(w, u) /\ KeepsRetained(w, u) /\ KeepsRequest(w, u)
      /\ u.screens = w.screens /\ u.ops = w.ops /\ u.exposed = w.exposed
      /\ u.sampling = w.sampling /\ u.source = w.source /\ u.guid = w.guid
      /\ u.start = w.start /\ u.out = Silent
      /\ u.terminal = NoTerminal /\ u.submitted = w.submitted
      /\ u.abandoned = w.abandoned
  BY DEF Session, KeepsSeat, KeepsRetained, KeepsRequest
<1> HIDE DEF u
<1>3. \A r : /\ Status(u, r) = Status(w, r)
             /\ Pending(u, r) <=> Pending(w, r)
             /\ HasScreen(u, r) <=> HasScreen(w, r)
  BY <1>2, StatusSame DEF HasScreen
<1>4. /\ u.req = w.req /\ u.op = w.op /\ u.probe = w.probe
      /\ u.loadRound = w.loadRound /\ u.prepared = w.prepared
      /\ u.state = w.state /\ u.phase = w.phase /\ u.round = w.round
      /\ u.retained = w.retained /\ u.keptReq = w.keptReq
      /\ u.forgotten = w.forgotten
      /\ u.nextReq = w.nextReq
  BY <1>2 DEF KeepsSeat, KeepsRequest, KeepsRetained
<1>5. LoadedUp(u) <=> LoadedUp(w)
  BY <1>2, <1>3, <1>4 DEF LoadedUp
<1>6. OpsWhole(u)
  BY <1>2, <1>3, <1>4 DEF Local, OpsWhole
<1>7. RequestWhole(u)
  BY <1>2, <1>4 DEF Local, RequestWhole
<1>8. PlayWhole(u)
  BY <1>2, <1>3, <1>4, <1>5 DEF Local, PlayWhole
<1>9. RetainedWhole(u)
  BY <1>2, <1>4 DEF Local, RetainedWhole, Watched
<1>10. RoundWhole(u)
  BY <1>2, <1>3, <1>4, NoVerdict DEF Local, RoundWhole
<1>11. Stay(w, u)
  <2>1. Quiet(w) => Quiet(u)
    BY <1>2, <1>3, <1>4 DEF Quiet
  <2>2. Fit(w) => Fit(u)
    BY <1>2, <1>4, <1>5 DEF Fit
  <2>3. QED
    BY <1>1, <1>2, <1>4, <2>1, <2>2, StaySeat DEF Stay
<1>12. RunningKept(w, u)
  BY <1>2 DEF RunningKept
<1>13. OutFits(u)
  BY <1>2 DEF OutFits, Silent
<1>14. Sound(w, u)
  BY <1>4, <1>6, <1>7, <1>8, <1>9, <1>10, <1>11, <1>12, <1>13
     DEF Sound, Local
<1>15. QED
  BY <1>14 DEF u

-----------------------------------------------------------------------------
(* The handlers that end a round, begin one or lose the link.              *)

\* A session without request, runner or verdict.
LEMMA FreshWhole ==
    ASSUME NEW w \in Session, Local(w), NEW u \in Session, Idle(u),
           KeepsRetained(w, u), KeepsScreens(w, u),
           u.ops = {o \in w.ops : o.req # w.req},
           u.terminal = NoTerminal, u.abandoned = FALSE, u.submitted = FALSE,
           WholeRound(u.round), u.phase = PhaseOf(u.round.stage),
           u.state = "Out" => u.round.id = 0,
           u.retained = 0 \/ Watched(u.round)
    PROVE  Local(u) /\ RunningKept(w, u)
<1>1. KeepsOthers(w, u)
  BY DEF KeepsScreens, KeepsOthers
<1>2. /\ OpsWhole(u) /\ RequestWhole(u) /\ PlayWhole(u)
      /\ u.keptReq = u.retained
      /\ u.retained # 0 =>
           /\ Watched(w.round)
           /\ \E o \in u.ops : o.req = u.retained /\ o.status # "Working"
      /\ RunningKept(w, u)
  BY <1>1, IdleWhole
<1>3. RetainedWhole(u)
  BY <1>2 DEF RetainedWhole
<1>4. RoundWhole(u)
  BY NoVerdict DEF RoundWhole, Idle
<1>5. QED
  BY <1>2, <1>3, <1>4 DEF Local

\* What a session is when its round is over.
Free(u) ==
    /\ u.round = NoRound
    /\ u.terminal = NoTerminal
    /\ u.abandoned = FALSE
    /\ u.submitted = FALSE
    /\ u.out = Silent

LEMMA ClearRoomSound ==
    ASSUME NEW w \in Session, Local(w), w.out = Silent
    PROVE  LET u == ClearRoom(w)
           IN  /\ Local(u) /\ RunningKept(w, u) /\ Free(u)
               /\ u.state = "Out" /\ u.retained = w.retained
<1> DEFINE a == [w EXCEPT !.round = NoRound]
           b == CancelPreparedRound(a, FALSE)
           c == ClearActiveCompetitionRound(b)
           u == [c EXCEPT !.state = "Out", !.phase = "Selecting"]
<1>1. a \in Session
  BY SeatFields, NoValuesType
<1>2. /\ KeepsVerdict(w, a) /\ KeepsRetained(w, a) /\ KeepsRequest(w, a)
      /\ a.screens = w.screens /\ a.ops = w.ops /\ a.out = Silent
      /\ a.round = NoRound
  BY DEF Session, KeepsVerdict, KeepsRetained, KeepsRequest
<1> HIDE DEF a
<1>3. b \in Session
  BY <1>1, CancelPreparedRoundType
<1>4. /\ KeepsSeat(a, b) /\ KeepsRetained(a, b)
      /\ Idle(b) /\ KeepsScreens(a, b)
      /\ b.ops = {o \in a.ops : o.req # a.req}
      /\ b.out = a.out
  BY <1>1, CancelPreparedRoundDoes
<1> HIDE DEF b
<1>5. c \in Session
  BY <1>3, ClearTerminalType
<1>6. /\ KeepsSeat(b, c) /\ KeepsRetained(b, c)
      /\ KeepsRequest(b, c) /\ c.screens = b.screens
      /\ c.ops = b.ops /\ c.out = b.out
      /\ c.terminal = NoTerminal
      /\ c.abandoned = FALSE /\ c.submitted = FALSE
      /\ c.sampling = FALSE
      /\ c.exposed = b.exposed /\ c.start = b.start
      /\ c.source = 0
  BY <1>3, ClearActiveCompetitionRoundDoes
<1> HIDE DEF c
<1>7. u \in Session
  BY ZenonT(40), <1>5 DEF Session
<1>8. /\ u.state = "Out" /\ u.phase = "Selecting" /\ u.round = c.round
      /\ KeepsRetained(c, u)
      /\ KeepsRequest(c, u) /\ u.screens = c.screens
      /\ u.ops = c.ops /\ u.out = c.out
      /\ u.terminal = NoTerminal
      /\ u.abandoned = FALSE /\ u.submitted = FALSE
      /\ u.sampling = FALSE
      /\ u.exposed = c.exposed /\ u.start = c.start
      /\ u.source = 0
  BY <1>5, <1>6 DEF Session, KeepsRetained, KeepsRequest
<1> HIDE DEF u
<1>9. u = ClearRoom(w)
  BY DEF u, c, b, a, ClearRoom
<1>10. Idle(u)
  BY <1>4, <1>6, <1>8 DEF Idle, KeepsRequest
<1>11. KeepsRetained(w, u) /\ KeepsScreens(w, u)
  BY <1>2, <1>4, <1>6, <1>8 DEF KeepsRetained, KeepsScreens, HasScreen
<1>12. u.ops = {o \in w.ops : o.req # w.req}
  BY <1>2, <1>4, <1>6, <1>8 DEF KeepsRequest
<1>13. u.round = NoRound /\ u.out = Silent
  BY <1>2, <1>4, <1>6, <1>8 DEF KeepsSeat
<1>14. /\ WholeRound(u.round) /\ u.phase = PhaseOf(u.round.stage)
       /\ u.round.id = 0 /\ Watched(u.round)
  BY <1>8, <1>13 DEF WholeRound, NoRound, PhaseOf, Watched
<1>15. Local(u) /\ RunningKept(w, u)
  BY <1>7, <1>8, <1>10, <1>11, <1>12, <1>14, FreshWhole
<1>16. Free(u) /\ u.retained = w.retained
  BY <1>8, <1>11, <1>13 DEF Free, KeepsRetained
<1>17. QED
  BY <1>8, <1>9, <1>15, <1>16

LEMMA LaunchCancelledSound ==
    ASSUME NEW w \in Session, Local(w), w.out = Silent, w.state = "InRoom",
           NEW m \in Messages, m.type = "LaunchCancelled", MessageFits(m)
    PROVE  LET u == HandleRoundLaunchCancelled(w, m)
           IN  \/ /\ u = w
                  /\ m.round.id # w.round.id \/ w.round.stage = "Playing"
               \/ /\ Local(u) /\ RunningKept(w, u) /\ Free(u)
                  /\ u.state = "InRoom" /\ u.retained = w.retained
                  /\ m.round.id = w.round.id
<1> DEFINE h == HandleRoundLaunchCancelled(w, m)
           a == [w EXCEPT !.phase = "Selecting", !.round = NoRound]
           b == ClearActiveCompetitionRound(a)
           u == CancelPreparedRound(b, FALSE)
           skip == \/ w.phase # "Loading"
                   \/ w.round.stage = "Playing"
                   \/ ~SameRound(w, m)
<1>1. CASE skip
  <2>1. h = w
    BY <1>1 DEF HandleRoundLaunchCancelled
  <2>2. ASSUME m.round.id = w.round.id
        PROVE  w.round.stage = "Playing"
    <3>1. w.round.id # 0
      BY <2>2 DEF MessageFits, WholeRound, NoRound
    <3>2. w.phase = PhaseOf(w.round.stage) /\ w.round.stage # "None"
      BY <3>1 DEF Local, RoundWhole, WholeRound
    <3>3. QED
      BY <1>1, <2>2, <3>1, <3>2 DEF PhaseOf, SameRound
  <2> HIDE DEF h
  <2>3. QED
    BY <2>1, <2>2 DEF h
<1>2. CASE ~skip
  <2>1. h = u
    BY <1>2 DEF HandleRoundLaunchCancelled
  <2>2. a \in Session
    BY SeatFields, NoValuesType
  <2>3. /\ KeepsVerdict(w, a) /\ KeepsRetained(w, a) /\ KeepsRequest(w, a)
        /\ a.screens = w.screens /\ a.ops = w.ops /\ a.out = Silent
        /\ a.round = NoRound /\ a.phase = "Selecting" /\ a.state = w.state
    BY DEF Session, KeepsVerdict, KeepsRetained, KeepsRequest
  <2> HIDE DEF a
  <2>4. b \in Session
    BY <2>2, ClearTerminalType
  <2>5. /\ KeepsSeat(a, b) /\ KeepsRetained(a, b)
        /\ KeepsRequest(a, b) /\ b.screens = a.screens
        /\ b.ops = a.ops /\ b.out = a.out
        /\ b.terminal = NoTerminal
        /\ b.abandoned = FALSE /\ b.submitted = FALSE
    BY <2>2, ClearActiveCompetitionRoundDoes
  <2> HIDE DEF b
  <2>6. u \in Session
    BY <2>4, CancelPreparedRoundType
  <2>7. /\ KeepsSeat(b, u) /\ KeepsVerdict(b, u) /\ KeepsRetained(b, u)
        /\ Idle(u) /\ KeepsScreens(b, u)
        /\ u.ops = {o \in b.ops : o.req # b.req}
        /\ u.out = b.out
    BY <2>4, CancelPreparedRoundDoes
  <2> HIDE DEF u, h
  <2>8. KeepsRetained(w, u) /\ KeepsScreens(w, u)
    BY <2>3, <2>5, <2>7 DEF KeepsRetained, KeepsScreens, HasScreen
  <2>9. u.ops = {o \in w.ops : o.req # w.req}
    BY <2>3, <2>5, <2>7 DEF KeepsRequest
  <2>10. /\ u.round = NoRound /\ u.phase = "Selecting" /\ u.state = "InRoom"
         /\ u.terminal = NoTerminal /\ u.out = Silent
         /\ u.abandoned = FALSE /\ u.submitted = FALSE
    BY <2>3, <2>5, <2>7 DEF KeepsSeat, KeepsVerdict
  <2>11. /\ WholeRound(u.round) /\ u.phase = PhaseOf(u.round.stage)
         /\ u.round.id = 0 /\ Watched(u.round)
    BY <2>10 DEF WholeRound, NoRound, PhaseOf, Watched
  <2>12. Local(u) /\ RunningKept(w, u)
    BY <2>6, <2>7, <2>8, <2>9, <2>10, <2>11, FreshWhole
  <2>13. Free(u) /\ u.retained = w.retained
    BY <2>8, <2>10 DEF Free, KeepsRetained
  <2>14. m.round.id = w.round.id
    BY <1>2 DEF SameRound
  <2>15. QED
    BY <2>1, <2>10, <2>12, <2>13, <2>14 DEF h
<1>3. QED
  BY <1>1, <1>2

LEMMA LoadingStartedSound ==
    ASSUME NEW w \in Session, Local(w), w.out = Silent, w.state = "InRoom",
           NEW m \in Messages, m.type = "LoadingStarted", MessageFits(m),
           w.retained = 0 \/ Watched(m.round)
    PROVE  LET u == HandleRoundLoadingStarted(w, m)
           IN  \/ u = w /\ w.round.id # 0
               \/ /\ Local(u) /\ RunningKept(w, u)
                  /\ u.round = m.round /\ w.round.id = 0
                  /\ u.submitted = FALSE /\ u.terminal = NoTerminal
                  /\ u.abandoned = FALSE
                  /\ u.state = "InRoom" /\ u.retained = w.retained
                  /\ u.out = Silent
<1> DEFINE h == HandleRoundLoadingStarted(w, m)
           a == [w EXCEPT !.phase = "Loading", !.round = m.round]
           b == BeginCompetitionRound(a)
           u == CancelPreparedRound(b, FALSE)
<1>0. w.round.id = 0 => w.phase = "Selecting"
  BY DEF Local, RoundWhole, WholeRound, NoRound, PhaseOf
<1>1. CASE w.round.id # 0
  <2>1. h = w
    BY <1>1 DEF HandleRoundLoadingStarted
  <2> HIDE DEF h
  <2>2. QED
    BY <1>1, <2>1 DEF h
<1>2. CASE w.round.id = 0
  <2>1. h = u
    BY <1>0, <1>2 DEF HandleRoundLoadingStarted
  <2>0. m.round \in RoundType
    BY DEF Messages
  <2>2. a \in Session
    BY <2>0, SeatFields
  <2>3. /\ KeepsVerdict(w, a) /\ KeepsRetained(w, a) /\ KeepsRequest(w, a)
        /\ a.screens = w.screens /\ a.ops = w.ops /\ a.out = Silent
        /\ a.round = m.round /\ a.phase = "Loading" /\ a.state = w.state
    BY DEF Session, KeepsVerdict, KeepsRetained, KeepsRequest
  <2> HIDE DEF a
  <2>4. b \in Session
    BY <2>2, ClearTerminalType
  <2>5. /\ KeepsSeat(a, b) /\ KeepsRetained(a, b)
        /\ KeepsRequest(a, b) /\ b.screens = a.screens
        /\ b.ops = a.ops /\ b.out = a.out
        /\ b.terminal = NoTerminal
        /\ b.abandoned = FALSE /\ b.submitted = FALSE
    BY <2>2, ClearActiveCompetitionRoundDoes DEF BeginCompetitionRound
  <2> HIDE DEF b
  <2>6. u \in Session
    BY <2>4, CancelPreparedRoundType
  <2>7. /\ KeepsSeat(b, u) /\ KeepsVerdict(b, u) /\ KeepsRetained(b, u)
        /\ Idle(u) /\ KeepsScreens(b, u)
        /\ u.ops = {o \in b.ops : o.req # b.req}
        /\ u.out = b.out
    BY <2>4, CancelPreparedRoundDoes
  <2> HIDE DEF u, h
  <2>8. KeepsRetained(w, u) /\ KeepsScreens(w, u)
    BY <2>3, <2>5, <2>7 DEF KeepsRetained, KeepsScreens, HasScreen
  <2>9. u.ops = {o \in w.ops : o.req # w.req}
    BY <2>3, <2>5, <2>7 DEF KeepsRequest
  <2>10. /\ u.round = m.round /\ u.phase = "Loading" /\ u.state = "InRoom"
         /\ u.terminal = NoTerminal /\ u.out = Silent
         /\ u.abandoned = FALSE /\ u.submitted = FALSE
    BY <2>3, <2>5, <2>7 DEF KeepsSeat, KeepsVerdict
  <2>11. /\ WholeRound(u.round) /\ u.phase = PhaseOf(u.round.stage)
    BY <2>10 DEF MessageFits, PhaseOf
  <2>12. u.retained = w.retained /\ (u.retained = 0 \/ Watched(u.round))
    BY <2>8, <2>10 DEF KeepsRetained
  <2>13. Local(u) /\ RunningKept(w, u)
    BY <2>6, <2>7, <2>8, <2>9, <2>10, <2>11, <2>12, FreshWhole
  <2>14. QED
    BY <1>2, <2>1, <2>10, <2>12, <2>13 DEF h
<1>3. QED
  BY <1>1, <1>2

LEMMA FinalizedSound ==
    ASSUME NEW w \in Session, Local(w), w.out = Silent, w.state = "InRoom",
           NEW m \in Messages, m.type = "Finalized", MessageFits(m),
           (m.round.id = w.round.id /\ w.round.mine) => Fit(w)
    PROVE  LET u == HandleRoundFinalized(w, m)
           IN  \/ u = w /\ m.round.id # w.round.id
               \/ /\ Local(u) /\ RunningKept(w, u) /\ Free(u)
                  /\ u.state = "InRoom" /\ m.round.id = w.round.id
<1> DEFINE h == HandleRoundFinalized(w, m)
           c == ClearTerminal(w)
           a == [c EXCEPT !.phase = "Selecting", !.round = NoRound]
           u == RetainPreparedGameplay(a)
<1>1. CASE ~SameRound(w, m)
  <2>1. h = w
    BY <1>1 DEF HandleRoundFinalized
  <2>2. m.round.id # w.round.id
    BY <1>1 DEF SameRound, MessageFits, WholeRound, NoRound
  <2> HIDE DEF h
  <2>3. QED
    BY <2>1, <2>2 DEF h
<1>2. CASE SameRound(w, m)
  <2>1. h = u
    BY <1>2 DEF HandleRoundFinalized
  <2>2. m.round.id = w.round.id /\ w.round.id # 0
    BY <1>2 DEF SameRound
  <2>3. \A o \in w.ops : o.req # 0 =>
            o.req = w.req \/ o.req = w.retained \/ o.req \in w.forgotten
    BY DEF Local, RetainedWhole, OpsWhole
  <2>4. w.prepared = w.req
    <3>1. CASE ~w.round.mine
      BY <3>1 DEF Local, RequestWhole
    <3>2. CASE w.round.mine
      <4>1. Fit(w) /\ w.round.stage # "None"
        BY <2>2, <3>2 DEF Local, RoundWhole, WholeRound
      <4>2. CASE w.abandoned \/ w.round.stage \in {"Scheduled", "Playing"}
        BY <4>2 DEF Local, RoundWhole
      <4>3. CASE w.round.stage = "Loading" /\ ~w.abandoned
        BY <4>1, <4>3 DEF Fit, LoadedUp, Local, RequestWhole
      <4>4. QED
        BY <4>1, <4>2, <4>3 DEF Fit, Session, Stage
    <3>3. QED
      BY <3>1, <3>2
  <2>5. c \in Session
    BY ClearTerminalType
  <2>6. /\ KeepsSeat(w, c) /\ KeepsRetained(w, c)
        /\ KeepsRequest(w, c) /\ c.screens = w.screens
        /\ c.ops = w.ops /\ c.out = Silent
        /\ c.terminal = NoTerminal
        /\ c.abandoned = FALSE /\ c.submitted = FALSE
    BY ClearActiveCompetitionRoundDoes
  <2> HIDE DEF c
  <2>7. a \in Session
    BY <2>5, SeatFields, NoValuesType
  <2>8. /\ KeepsRetained(w, a) /\ KeepsRequest(w, a)
        /\ a.screens = w.screens /\ a.ops = w.ops /\ a.out = Silent
        /\ a.round = NoRound /\ a.phase = "Selecting" /\ a.state = w.state
        /\ a.terminal = NoTerminal
        /\ a.abandoned = FALSE /\ a.submitted = FALSE
    BY <2>5, <2>6 DEF Session, KeepsSeat, KeepsRetained, KeepsRequest
  <2> HIDE DEF a
  <2>9. u \in Session
    BY <2>7, RetainPreparedGameplayType
  <2>10. /\ KeepsSeat(a, u) /\ KeepsVerdict(a, u)
         /\ Idle(u) /\ KeepsScreens(a, u)
         /\ u.retained = a.prepared /\ u.keptReq = a.req
         /\ u.forgotten = ForgottenAfter(a)
         /\ u.nextReq = a.nextReq
         /\ u.ops = a.ops
         /\ u.out = a.out
    BY <2>7, RetainPreparedGameplayDoes
  <2> HIDE DEF u, h
  <2>11. /\ u.retained = w.prepared /\ u.keptReq = w.req
         /\ u.forgotten = ForgottenAfter(w)
         /\ u.nextReq = w.nextReq /\ u.ops = w.ops
         /\ KeepsScreens(w, u) /\ u.req = 0
    BY <2>8, <2>10
       DEF KeepsRequest, KeepsRetained, KeepsScreens, HasScreen, Idle, ForgottenAfter
  <2>12. /\ u.round = NoRound /\ u.phase = "Selecting" /\ u.state = "InRoom"
         /\ u.terminal = NoTerminal /\ u.out = Silent
         /\ u.abandoned = FALSE /\ u.submitted = FALSE
    BY <2>8, <2>10 DEF KeepsSeat, KeepsVerdict
  <2>13. OpsWhole(u)
    <3>1. \A o \in w.ops : o.req # 0
      BY OpTyped
    <3>2. \A o \in w.ops : /\ o.req = w.req \/ o.req \in ForgottenAfter(w)
                           /\ o.status # "Working"
      <4>1. ASSUME NEW o \in w.ops PROVE o.status # "Working"
        <5>1. SUFFICES ASSUME o.status = "Working" PROVE FALSE
          OBVIOUS
        <5>2. o.req = w.req /\ o.req # 0 /\ w.prepared # 0
          BY <2>4, <3>1, <5>1 DEF Local, OpsWhole
        <5>3. \E p \in w.ops : p.req = w.prepared /\ p.status # "Working"
          BY <5>2, PreparedOp DEF Local
        <5>4. QED
          BY <2>4, <5>1, <5>2, <5>3 DEF Local, OpsWhole
      <4>2. w.retained = w.keptReq
        BY DEF Local, RetainedWhole
      <4>3. ASSUME NEW o \in w.ops
            PROVE  o.req = w.req \/ o.req \in ForgottenAfter(w)
        BY <2>3, <2>4, <3>1, <4>2 DEF ForgottenAfter
      <4>4. QED
        BY <4>1, <4>3
    <3>3. \A r : HasScreen(u, r) <=> HasScreen(w, r)
      BY <2>11 DEF KeepsScreens
    <3>4. \A s \in u.screens : s.req < u.nextReq
      BY <2>11, <3>3 DEF Local, OpsWhole, HasScreen
    <3>5. w.nextReq \in Nat \ {0} /\ w.req < w.nextReq
      BY DEF Session, Local, OpsWhole
    <3>6. /\ \A o, p \in w.ops : o.req = p.req => o = p
          /\ \A o \in w.ops :
               /\ o.req < w.nextReq
               /\ o.kind = "Probe" => o.status = "Working"
               /\ o.status \in {"Running", "Finished"} =>
                    HasScreen(w, o.req) \/ o.req # w.req
               /\ HasScreen(w, o.req) => o.kind = "Load"
      BY DEF Local, OpsWhole
    <3>7. ASSUME NEW o \in u.ops
          PROVE  /\ o.req < u.nextReq
                 /\ o.req \in {u.req, u.keptReq} \cup u.forgotten
                 /\ o.status = "Working" => o.req = u.req
                 /\ o.req = u.req => o.kind = u.op
                 /\ o.kind = "Probe" => o.status = "Working"
                 /\ o.status \in {"Running", "Finished"} =>
                      HasScreen(u, o.req) \/ o.req \notin {u.req, u.keptReq}
                 /\ HasScreen(u, o.req) => o.kind = "Load"
      <4>0. o \in w.ops
        BY <2>11
      <4>1. /\ o.req # 0 /\ o.status # "Working"
            /\ o.req = w.req \/ o.req \in ForgottenAfter(w)
            /\ HasScreen(u, o.req) <=> HasScreen(w, o.req)
        <5>1. o.req # 0
          BY <3>1, <4>0
        <5>2. /\ o.status # "Working"
              /\ o.req = w.req \/ o.req \in ForgottenAfter(w)
          BY <3>2, <4>0
        <5>3. HasScreen(u, o.req) <=> HasScreen(w, o.req)
          BY <3>3
        <5>4. QED
          BY <5>1, <5>2, <5>3
      <4>2. /\ o.req < w.nextReq
            /\ o.kind = "Probe" => o.status = "Working"
            /\ o.status \in {"Running", "Finished"} =>
                 HasScreen(w, o.req) \/ o.req # w.req
            /\ HasScreen(w, o.req) => o.kind = "Load"
        BY <2>11, <3>6
      <4>3. u.req = 0 /\ u.keptReq = w.req
                      /\ u.forgotten = ForgottenAfter(w) /\ u.nextReq = w.nextReq
        BY <2>11
      <4>4. QED
        BY <4>1, <4>2, <4>3
    <3>8. u.req < u.nextReq /\ u.keptReq < u.nextReq
      BY <2>11, <3>5
    <3>9. QED
      BY <2>11, <3>4, <3>6, <3>7, <3>8 DEF OpsWhole
  <2>14. RequestWhole(u)
    BY <2>10 DEF RequestWhole, Idle
  <2>15. PlayWhole(u)
    BY <2>9, <2>10, StatusZero DEF PlayWhole, Idle
  <2>16. RetainedWhole(u)
    <3>1. w.prepared # 0 =>
            \E o \in w.ops : o.req = w.prepared /\ o.status # "Working"
      BY PreparedOp DEF Local
    <3>2. QED
      BY <2>4, <2>11, <2>12, <3>1 DEF RetainedWhole, Watched, NoRound
  <2>17. RoundWhole(u)
    BY <2>10, <2>12, NoVerdict DEF RoundWhole, Idle, WholeRound, NoRound, PhaseOf
  <2>18. RunningKept(w, u)
    BY <2>11 DEF RunningKept
  <2>19. Local(u)
    BY <2>13, <2>14, <2>15, <2>16, <2>17 DEF Local
  <2>20. Free(u)
    BY <2>12 DEF Free
  <2>21. QED
    BY <2>1, <2>2, <2>12, <2>18, <2>19, <2>20 DEF h
<1>3. QED
  BY <1>1, <1>2

\* The start that was set is forgotten.
LEMMA StartGone ==
    ASSUME NEW w \in Session, Local(w), w.out = Silent
    PROVE  LET u == [w EXCEPT !.start = NoTask, !.loadSent = FALSE]
           IN  /\ u \in Session /\ Local(u) /\ Stay(w, u) /\ RunningKept(w, u)
               /\ KeepsSeat(w, u) /\ KeepsVerdict(w, u) /\ KeepsRequest(w, u)
               /\ KeepsRetained(w, u)
               /\ u.start = NoTask /\ u.out = Silent
<1> DEFINE u == [w EXCEPT !.start = NoTask, !.loadSent = FALSE]
<1>1. u \in Session
  BY LoaderFields
<1>2. /\ KeepsSeat(w, u) /\ KeepsRetained(w, u) /\ KeepsRequest(w, u)
      /\ KeepsVerdict(w, u)
      /\ u.screens = w.screens /\ u.ops = w.ops /\ u.exposed = w.exposed
      /\ u.sampling = w.sampling /\ u.source = w.source /\ u.guid = w.guid
      /\ u.start = NoTask /\ u.out = Silent
  BY DEF Session, KeepsSeat, KeepsRetained, KeepsRequest, KeepsVerdict
<1> HIDE DEF u
<1>3. \A r : /\ Status(u, r) = Status(w, r)
             /\ Pending(u, r) <=> Pending(w, r)
             /\ HasScreen(u, r) <=> HasScreen(w, r)
  BY <1>2, StatusSame DEF HasScreen
<1>4. /\ u.req = w.req /\ u.op = w.op /\ u.probe = w.probe
      /\ u.loadRound = w.loadRound /\ u.prepared = w.prepared
      /\ u.state = w.state /\ u.phase = w.phase /\ u.round = w.round
      /\ u.retained = w.retained /\ u.keptReq = w.keptReq
      /\ u.forgotten = w.forgotten
      /\ u.nextReq = w.nextReq
      /\ u.terminal = w.terminal /\ u.abandoned = w.abandoned
      /\ u.submitted = w.submitted
  BY <1>2 DEF KeepsSeat, KeepsRequest, KeepsRetained, KeepsVerdict
<1>5. LoadedUp(u) <=> LoadedUp(w)
  BY <1>2, <1>3, <1>4 DEF LoadedUp
<1>6. OpsWhole(u)
  BY <1>2, <1>3, <1>4 DEF Local, OpsWhole
<1>7. RequestWhole(u)
  BY <1>2, <1>4 DEF Local, RequestWhole
<1>8. PlayWhole(u)
  BY <1>2, <1>3, <1>4 DEF Local, PlayWhole
<1>9. RetainedWhole(u)
  BY <1>2, <1>4 DEF Local, RetainedWhole, Watched
<1>10. RoundWhole(u)
  BY <1>3, <1>4 DEF Local, RoundWhole
<1>11. Stay(w, u)
  <2>1. Quiet(w) => Quiet(u)
    BY <1>3, <1>4 DEF Quiet
  <2>2. Fit(w) => Fit(u)
    BY <1>4, <1>5 DEF Fit
  <2>3. QED
    BY <1>1, <1>2, <1>4, <2>1, <2>2, StaySeat DEF Stay
<1>12. RunningKept(w, u)
  BY <1>2 DEF RunningKept
<1>13. Local(u)
  BY <1>6, <1>7, <1>8, <1>9, <1>10 DEF Local
<1>14. QED
  BY <1>1, <1>2, <1>11, <1>12, <1>13 DEF u

\* What is kept while the link is away: a runner that has been prepared, and
\* no start.
Settled(v) ==
    /\ v.start = NoTask
    /\ v.prepared = v.req
    /\ v.op # "Probe"

LEMMA TransfersCleared ==
    ASSUME NEW w \in Session, Local(w), w.out = Silent, NEW guid \in BOOLEAN
    PROVE  LET u == IF w.prepared # 0
                      THEN [w EXCEPT !.start = NoTask, !.loadSent = FALSE]
                      ELSE CancelPreparedRound(w, guid)
           IN  /\ u \in Session /\ Local(u) /\ Stay(w, u) /\ RunningKept(w, u)
               /\ KeepsSeat(w, u) /\ KeepsRetained(w, u) /\ Settled(u)
               /\ KeepsVerdict(w, u)
               /\ u.prepared = w.prepared
               /\ u.out = Silent
<1>1. CASE w.prepared # 0
  <2> DEFINE u == [w EXCEPT !.start = NoTask, !.loadSent = FALSE]
  <2>1. /\ u \in Session /\ Local(u) /\ Stay(w, u) /\ RunningKept(w, u)
        /\ KeepsSeat(w, u) /\ KeepsVerdict(w, u) /\ KeepsRequest(w, u)
        /\ KeepsRetained(w, u)
        /\ u.start = NoTask /\ u.out = Silent
    BY StartGone
  <2> HIDE DEF u
  <2>2. w.prepared = w.req /\ w.op = "Load"
    BY <1>1 DEF Local, RequestWhole
  <2>3. u.prepared = w.prepared /\ Settled(u)
    BY <2>1, <2>2 DEF Settled, KeepsRequest
  <2>4. QED
    BY <1>1, <2>1, <2>3 DEF u
<1>2. CASE w.prepared = 0
  <2> DEFINE u == CancelPreparedRound(w, guid)
  <2>1. u \in Session
    BY CancelPreparedRoundType
  <2>2. /\ KeepsSeat(w, u) /\ KeepsVerdict(w, u) /\ KeepsRetained(w, u)
        /\ Idle(u) /\ KeepsScreens(w, u)
        /\ u.ops = {o \in w.ops : o.req # w.req}
        /\ u.out = w.out
    BY CancelPreparedRoundDoes
  <2> HIDE DEF u
  <2>3. ~LoadedUp(w)
    BY <1>2 DEF LoadedUp
  <2>4. KeepsOthers(w, u)
    BY <2>2 DEF KeepsScreens, KeepsOthers
  <2>5. Local(u) /\ Stay(w, u) /\ RunningKept(w, u)
    BY <2>1, <2>2, <2>3, <2>4, IdleSound
  <2>6. Settled(u) /\ u.prepared = w.prepared
    BY <1>2, <2>2 DEF Settled, Idle
  <2>7. QED
    BY <1>2, <2>1, <2>2, <2>5, <2>6 DEF u
<1>3. QED
  BY <1>1, <1>2

\* A session whose start is not set may change its seat and its stage.
Seated(v, rd, state) ==
    [v EXCEPT !.phase = PhaseOf(rd.stage), !.round = rd, !.state = state]

LEMMA Reseated ==
    ASSUME NEW v \in Session, Local(v), v.out = Silent, Settled(v),
           NEW state \in {"InRoom", "Reconnecting"}, NEW rd \in RoundType,
           rd.id = v.round.id, rd.mine = v.round.mine, rd.id # 0 \/ rd = v.round,
           rd.stage # "None" \/ rd = v.round,
           Rank(v.round.stage) <= Rank(rd.stage)
    PROVE  LET u == Seated(v, rd, state)
           IN  /\ u \in Session /\ Local(u) /\ Stay(v, u) /\ RunningKept(v, u)
               /\ Settled(u) /\ u.out = Silent /\ u.prepared = v.prepared
               /\ u.round = rd /\ u.state = state /\ KeepsVerdict(v, u)
               /\ KeepsRetained(v, u)
<1> DEFINE u == Seated(v, rd, state)
<1>1. u \in Session
  BY PhaseOfType, SeatFields DEF Seated
<1>2. /\ KeepsRetained(v, u) /\ KeepsRequest(v, u) /\ KeepsVerdict(v, u)
      /\ u.screens = v.screens /\ u.ops = v.ops /\ u.exposed = v.exposed
      /\ u.sampling = v.sampling /\ u.source = v.source /\ u.guid = v.guid
      /\ u.start = v.start /\ u.out = Silent
      /\ u.phase = PhaseOf(rd.stage) /\ u.round = rd /\ u.state = state
  BY DEF Session, KeepsRetained, KeepsRequest, KeepsVerdict, Seated
<1> HIDE DEF u
<1>3. \A r : /\ Status(u, r) = Status(v, r)
             /\ Pending(u, r) <=> Pending(v, r)
             /\ HasScreen(u, r) <=> HasScreen(v, r)
  BY <1>2, StatusSame DEF HasScreen
<1>4. /\ u.req = v.req /\ u.op = v.op /\ u.probe = v.probe
      /\ u.loadRound = v.loadRound /\ u.prepared = v.prepared
      /\ u.retained = v.retained /\ u.keptReq = v.keptReq
      /\ u.forgotten = v.forgotten
      /\ u.nextReq = v.nextReq
      /\ u.terminal = v.terminal /\ u.abandoned = v.abandoned
      /\ u.submitted = v.submitted
  BY <1>2 DEF KeepsRequest, KeepsRetained, KeepsVerdict
<1>5. LoadedUp(u) <=> LoadedUp(v)
  BY <1>2, <1>3, <1>4 DEF LoadedUp
<1>6. OpsWhole(u)
  BY <1>2, <1>3, <1>4 DEF Local, OpsWhole
<1>7. v.round.stage \in Stage /\ rd.stage \in Stage
  BY SMTT(30) DEF Session, RoundType
<1>8. /\ v.round.stage = "Playing" => rd.stage = "Playing"
      /\ v.round.stage = "Scheduled" => rd.stage \in {"Scheduled", "Playing"}
      /\ v.round.stage = "Loading" => rd.stage \notin {"None", "Probing"}
      /\ v.round.stage = "Probing" => rd.stage # "None"
  BY <1>7 DEF Rank, Stage
<1>9. RequestWhole(u)
  <2>1. v.op # "None" => v.round.mine
    BY DEF Local, RequestWhole
  <2>2. v.op = "Load" => v.round.id # 0 /\ v.round.stage # "None"
    BY <2>1 DEF Local, RoundWhole, WholeRound, NoRound
  <2>3. v.op = "Load" => rd.stage # "Probing" /\ v.prepared # 0
    <3>1. v.op = "Load" => v.round.stage \notin {"None", "Probing"}
      BY <2>2 DEF Local, RequestWhole
    <3>2. v.round.stage \notin {"None", "Probing"} => rd.stage # "Probing"
      BY <1>7, <1>8 DEF Stage
    <3>3. v.op = "Load" => v.req # 0
      BY DEF Local, RequestWhole
    <3>4. QED
      BY <3>1, <3>2, <3>3 DEF Settled
  <2>4. QED
    BY <1>2, <1>4, <2>3 DEF Local, RequestWhole, Settled
<1>10. PlayWhole(u)
  BY <1>2, <1>3, <1>4, <1>7, <1>8 DEF Local, PlayWhole, Settled
<1>11. RetainedWhole(u)
  BY <1>2, <1>4 DEF Local, RetainedWhole, Watched
<1>12. RoundWhole(u)
  <2>1. WholeRound(rd)
    BY DEF WholeRound, Local, RoundWhole
  <2>2. v.submitted => rd.stage # "Probing"
    <3>1. CASE rd = v.round
      BY <3>1 DEF Local, RoundWhole
    <3>2. CASE rd # v.round
      <4>1. v.submitted => v.round.stage \notin {"None", "Probing"}
        BY <3>2 DEF Local, RoundWhole, WholeRound
      <4>2. QED
        BY <1>7, <1>8, <4>1 DEF Stage
    <3>3. QED
      BY <3>1, <3>2
  <2>3. v.submitted /\ rd.stage = "Loading" => v.abandoned
    <3>1. CASE rd = v.round
      BY <3>1 DEF Local, RoundWhole
    <3>2. CASE rd # v.round
      <4>1. v.submitted => v.round.stage \notin {"None", "Probing"}
        BY <3>2 DEF Local, RoundWhole, WholeRound
      <4>2. v.submitted /\ rd.stage = "Loading" => v.round.stage = "Loading"
        BY <1>7, <1>8, <4>1 DEF Stage
      <4>3. QED
        BY <4>2 DEF Local, RoundWhole
    <3>3. QED
      BY <3>1, <3>2
  <2>4. v.submitted /\ ~v.abandoned /\ rd.stage = "Scheduled" =>
          Status(v, v.prepared) # "Ready"
    <3>1. CASE rd = v.round
      BY <3>1 DEF Local, RoundWhole
    <3>2. CASE rd # v.round
      <4>1. v.submitted => v.round.stage \notin {"None", "Probing"}
        BY <3>2 DEF Local, RoundWhole, WholeRound
      <4>2. v.submitted /\ rd.stage = "Scheduled" =>
              v.round.stage \in {"Loading", "Scheduled"}
        BY <1>7, <1>8, <4>1 DEF Stage
      <4>3. QED
        BY <4>2 DEF Local, RoundWhole
    <3>3. QED
      BY <3>1, <3>2
  <2>5. u.state # "Out"
    BY <1>2
  <2>6. v.terminal.kind # "None" =>
         /\ v.submitted
         /\ rd.mine
         /\ v.terminal.round = rd.id
         /\ v.terminal.kind = "Result" => v.terminal.chart = rd.id
    BY DEF Local, RoundWhole
  <2>7. u.prepared = u.req
    BY <1>4 DEF Settled
  <2>8. v.abandoned => v.submitted
    BY DEF Local, RoundWhole
  <2>9. QED
    BY <1>2, <1>3, <1>4, <2>1, <2>2, <2>3, <2>4, <2>5, <2>6, <2>7, <2>8
       DEF RoundWhole
<1>13. Stay(v, u)
  <2>1. Quiet(v) => Quiet(u)
    BY <1>2, <1>3, <1>4, <1>8 DEF Quiet
  <2>2. Fit(v) /\ v.round.mine => Fit(u)
    <3>1. v.round.mine => v.round.stage # "None"
      BY DEF Local, RoundWhole, WholeRound, NoRound
    <3>2. Fit(v) /\ v.round.mine =>
            v.round.stage \notin {"None", "Probing"}
      BY <3>1 DEF Fit
    <3>3. Fit(v) /\ v.round.mine => rd.stage # "Probing"
      BY <1>7, <1>8, <3>2 DEF Stage
    <3>4. Fit(v) /\ v.round.mine /\ rd.stage = "Loading" =>
            v.round.stage = "Loading"
      BY <1>7, <1>8, <3>2 DEF Stage
    <3>5. QED
      BY <1>2, <1>4, <1>5, <3>3, <3>4 DEF Fit
  <2>3. QED
    BY <1>2, <1>4, <2>1, <2>2 DEF Stay
<1>14. RunningKept(v, u)
  BY <1>2 DEF RunningKept
<1>15. Local(u)
  BY <1>6, <1>9, <1>10, <1>11, <1>12 DEF Local
<1>16. Settled(u)
  BY <1>2, <1>4 DEF Settled
<1>17. QED
  BY <1>1, <1>2, <1>4, <1>13, <1>14, <1>15, <1>16 DEF u

LEMMA StayThrough ==
    ASSUME NEW w \in Session, NEW v \in Session, NEW u \in Session,
           Stay(w, v), RunningKept(w, v), Stay(v, u), RunningKept(v, u)
    PROVE  Stay(w, u) /\ RunningKept(w, u)
<1>1. /\ Rank(w.round.stage) \in Nat
      /\ Rank(v.round.stage) \in Nat
      /\ Rank(u.round.stage) \in Nat
  BY RankNat DEF Session
<1>2. v.round.stage = "Playing" => u.round.stage = "Playing"
  <2>1. u.round.stage \in Stage
    BY DEF Session
  <2>2. QED
    BY <2>1 DEF Stay, Rank, Stage
<1>3. /\ u.round.id = w.round.id
      /\ u.round.mine = w.round.mine
      /\ Rank(w.round.stage) <= Rank(u.round.stage)
  BY <1>1 DEF Stay
<1>4. /\ w.submitted => u.submitted
      /\ w.abandoned => u.abandoned \/ u.round.stage = "Playing"
      /\ Quiet(w) => Quiet(u)
      /\ Fit(w) /\ w.round.mine => Fit(u)
      /\ u.retained \in {0, w.retained}
  BY <1>2 DEF Stay
<1>5. w.submitted => u.terminal \in {w.terminal, NoTerminal}
  BY DEF Stay
<1>6. RunningKept(w, u)
  BY DEF RunningKept
<1>7. QED
  BY <1>3, <1>4, <1>5, <1>6 DEF Stay

LEMMA BeginReconnectSound ==
    ASSUME NEW w \in Session, Local(w), w.out = Silent, w.state = "InRoom"
    PROVE  LET u == BeginReconnect(w)
           IN  /\ u \in Session /\ Local(u) /\ Stay(w, u) /\ RunningKept(w, u)
               /\ u.state = "Reconnecting" /\ u.round = w.round
<1> DEFINE guid == w.round.id # 0 /\ w.guid # 0
           v == IF w.prepared # 0
                  THEN [w EXCEPT !.start = NoTask, !.loadSent = FALSE]
                  ELSE CancelPreparedRound(w, guid)
           u == [v EXCEPT !.state = "Reconnecting"]
<1>1. guid \in BOOLEAN
  OBVIOUS
<1> HIDE DEF guid
<1>2. w.prepared # 0 => w.round.id # 0 /\ w.loadRound = w.round.id
  <2>1. w.prepared # 0 => w.op = "Load" /\ w.round.mine
    BY DEF Local, RequestWhole
  <2>2. w.round.mine => w.round.id # 0
    BY DEF Local, RoundWhole, WholeRound, NoRound
  <2>3. QED
    BY <2>1, <2>2 DEF Local, RequestWhole
<1>3. BeginReconnect(w) = u
  BY <1>2 DEF BeginReconnect, ClearRoundTransfers, guid
<1>4. /\ v \in Session /\ Local(v) /\ Stay(w, v) /\ RunningKept(w, v)
      /\ KeepsSeat(w, v) /\ Settled(v) /\ v.out = Silent
  BY <1>1, TransfersCleared
<1> HIDE DEF v
<1>5. v.round \in RoundType /\ v.phase = PhaseOf(v.round.stage)
  BY <1>4 DEF Session, RoundType, Local, RoundWhole
<1>6. Rank(v.round.stage) <= Rank(v.round.stage)
  <2>1. Rank(v.round.stage) \in 0..4
    BY <1>5, RankNat DEF RoundType
  <2>2. QED
    BY <2>1
<1>7. u = Seated(v, v.round, "Reconnecting")
  BY <1>4, <1>5 DEF Session, Seated
<1> HIDE DEF u
<1>8. PICK state \in {"InRoom", "Reconnecting"} : state = "Reconnecting"
  OBVIOUS
<1>9. PICK rd : rd = v.round
  OBVIOUS
<1>10. /\ u \in Session /\ Local(u) /\ Stay(v, u) /\ RunningKept(v, u)
       /\ u.round = v.round /\ u.state = state
  <2>1. /\ rd \in RoundType /\ rd.id = v.round.id /\ rd.mine = v.round.mine
        /\ rd.id # 0 \/ rd = v.round
        /\ rd.stage # "None" \/ rd = v.round
        /\ Rank(v.round.stage) <= Rank(rd.stage)
    BY <1>5, <1>6, <1>9
  <2>2. u = Seated(v, rd, state)
    BY <1>7, <1>8, <1>9
  <2>3. /\ u \in Session /\ Local(u) /\ Stay(v, u) /\ RunningKept(v, u)
        /\ u.round = rd /\ u.state = state
    BY ONLY <1>4, <2>1, <2>2, Reseated
  <2>4. QED
    BY <1>9, <2>3
<1>11. Stay(w, u) /\ RunningKept(w, u)
  BY <1>4, <1>10, StayThrough
<1>12. QED
  BY <1>3, <1>4, <1>8, <1>10, <1>11 DEF KeepsSeat

LEMMA TerminalRefusedSound ==
    ASSUME NEW w \in Session, Local(w), w.out = Silent, w.state = "InRoom",
           NEW m \in Messages
    PROVE  LET u == HandleTerminalRefused(w, m)
           IN  \/ Sound(w, u) /\ u.round = w.round
               \/ u = BeginReconnect(w)
<1> DEFINE h == HandleTerminalRefused(w, m)
           a == [w EXCEPT !.terminal = NoTerminal]
<1>1. h \in {w, a, BeginReconnect(w)}
  BY DEF HandleTerminalRefused
<1>2. Sound(w, w)
  BY SoundSame DEF OutFits, Silent
<1>3. Sound(w, a)
  BY AcknowledgedSound
<1>4. a.round = w.round
  BY DEF Session
<1> HIDE DEF a, h
<1>5. \/ Sound(w, h) /\ h.round = w.round
      \/ h = BeginReconnect(w)
  BY <1>1, <1>2, <1>3, <1>4
<1>6. QED
  BY <1>5 DEF h

LEMMA TerminalAcceptedSound ==
    ASSUME NEW w \in Session, Local(w), w.out = Silent, NEW m \in Messages
    PROVE  LET u == HandleTerminalAccepted(w, m)
           IN  Sound(w, u) /\ u.round = w.round
<1> DEFINE h == HandleTerminalAccepted(w, m)
           a == [w EXCEPT !.terminal = NoTerminal]
<1>1. h \in {w, a}
  BY DEF HandleTerminalAccepted
<1>2. Sound(w, w)
  BY SoundSame DEF OutFits, Silent
<1>3. Sound(w, a)
  BY AcknowledgedSound
<1>4. a.round = w.round
  BY DEF Session
<1> HIDE DEF a, h
<1>5. Sound(w, h) /\ h.round = w.round
  BY <1>1, <1>2, <1>3, <1>4
<1>6. QED
  BY <1>5 DEF h

LEMMA FlushSound ==
    ASSUME NEW w \in Session, Local(w), w.out = Silent
    PROVE  LET u == FlushCompetitionMessages(w)
           IN  /\ Sound(w, u) /\ u.round = w.round /\ u.prepared = w.prepared
               /\ u.out.type # "LoadResult"
               /\ ~u.submitted => u.out = Silent
<1> DEFINE u == FlushCompetitionMessages(w)
<1>1. u \in Session
  BY FlushCompetitionMessagesType
<1>2. /\ KeepsSeat(w, u) /\ KeepsVerdict(w, u) /\ KeepsRetained(w, u)
      /\ KeepsRequest(w, u) /\ KeepsPlay(w, u)
      /\ u.screens = w.screens /\ u.ops = w.ops
      /\ \/ u.out = w.out
         \/ /\ SaysTerminal(u)
            /\ w.terminal.kind # "None"
            /\ w.round.stage = "Playing" \/ w.terminal.kind = "Dnf"
  BY FlushCompetitionMessagesDoes
<1> HIDE DEF u
<1>3. KeepsRest(w, u) /\ KeepsScreens(w, u)
  BY <1>2 DEF KeepsRest, KeepsScreens, HasScreen
<1>4. Local(u) /\ Stay(w, u) /\ RunningKept(w, u)
  BY <1>1, <1>2, <1>3, SameSound
<1>5. /\ u.round = w.round /\ u.state = w.state /\ u.prepared = w.prepared
      /\ u.terminal = w.terminal /\ u.submitted = w.submitted
  BY <1>2 DEF KeepsSeat, KeepsVerdict, KeepsRequest
<1>6. OutFits(u)
  BY <1>2, <1>5 DEF OutFits, SaysTerminal, Silent
<1>7. u.out.type # "LoadResult"
  BY <1>2 DEF SaysTerminal, Silent
<1>8. ~u.submitted => u.out = Silent
  BY <1>2, <1>5 DEF Local, RoundWhole
<1>9. Sound(w, u)
  BY <1>4, <1>5, <1>6 DEF Sound
<1>10. QED
  BY <1>5, <1>7, <1>8, <1>9 DEF u

\* A runner is attached again to the session that prepared it.
LEMMA AttachedSound ==
    ASSUME NEW w \in Session, Local(w), OutFits(w),
           w.prepared # 0, w.exposed,
           NEW u \in Session,
           KeepsSeat(w, u), KeepsVerdict(w, u), KeepsRetained(w, u),
           KeepsRequest(w, u), u.screens = w.screens, u.ops = w.ops,
           u.exposed = w.exposed, u.start = w.start,
           u.source = w.prepared, u.guid = w.prepared, u.out = w.out,
           u.sampling => /\ Status(w, w.prepared) = "Running"
                         /\ ~w.submitted
    PROVE  Sound(w, u)
<1>1. \A r : /\ Status(u, r) = Status(w, r)
             /\ Pending(u, r) <=> Pending(w, r)
             /\ HasScreen(u, r) <=> HasScreen(w, r)
  BY StatusSame DEF HasScreen
<1>2. /\ u.req = w.req /\ u.op = w.op /\ u.probe = w.probe
      /\ u.loadRound = w.loadRound /\ u.prepared = w.prepared
      /\ u.state = w.state /\ u.phase = w.phase /\ u.round = w.round
      /\ u.retained = w.retained /\ u.keptReq = w.keptReq
      /\ u.forgotten = w.forgotten
      /\ u.nextReq = w.nextReq
      /\ u.terminal = w.terminal /\ u.abandoned = w.abandoned
      /\ u.submitted = w.submitted
  BY DEF KeepsSeat, KeepsRequest, KeepsRetained, KeepsVerdict
<1>3. LoadedUp(u) <=> LoadedUp(w)
  BY <1>1, <1>2 DEF LoadedUp
<1>4. OpsWhole(u)
  BY <1>1, <1>2 DEF Local, OpsWhole
<1>5. RequestWhole(u)
  BY <1>2 DEF Local, RequestWhole
<1>6. PlayWhole(u)
  BY <1>1, <1>2, <1>3 DEF Local, PlayWhole
<1>7. RetainedWhole(u)
  BY <1>2 DEF Local, RetainedWhole, Watched
<1>8. RoundWhole(u)
  BY <1>1, <1>2 DEF Local, RoundWhole
<1>9. Stay(w, u)
  <2>1. Quiet(w) => Quiet(u)
    BY <1>1, <1>2 DEF Quiet
  <2>2. Fit(w) => Fit(u)
    BY <1>2, <1>3 DEF Fit
  <2>3. QED
    BY <1>2, <2>1, <2>2, StaySeat DEF Stay
<1>10. RunningKept(w, u)
  BY DEF RunningKept
<1>11. OutFits(u)
  BY <1>2, <1>3 DEF OutFits
<1>12. QED
  BY <1>2, <1>4, <1>5, <1>6, <1>7, <1>8, <1>9, <1>10, <1>11 DEF Sound, Local

LEMMA RejoinPlaySound ==
    ASSUME NEW w \in Session, Local(w), OutFits(w),
           w.out.type # "LoadResult", ~w.submitted => w.out = Silent,
           w.prepared # 0, w.round.stage = "Playing",
           NEW attaches \in BOOLEAN
    PROVE  LET u == RejoinPlay(w, attaches)
           IN  Sound(w, u) /\ u.round = w.round
<1> DEFINE h == RejoinPlay(w, attaches)
           Out == Sound(w, h) /\ h.round = w.round
<1>1. Sound(w, w)
  BY SoundSame
<1>2. w.round.mine /\ w.round.id # 0 /\ w.prepared \in Nat
  BY PreparedOp DEF Local, RoundWhole, WholeRound, NoRound, Session
<1>3. w.terminal.kind # "None" => w.submitted
  BY DEF Local, RoundWhole
<1>4. CASE ~w.exposed \/ NotStarted(w, w.prepared)
  <2>1. h = AbandonCurrentRound(w)
    BY <1>4 DEF RejoinPlay
  <2>2. CASE w.submitted
    <3>1. AbandonCurrentRound(w) = w
      BY <2>2 DEF AbandonCurrentRound
    <3> HIDE DEF h
    <3>2. Out
      BY <1>1, <2>1, <3>1
    <3>3. QED
      BY <3>2 DEF h
  <2>3. CASE ~w.submitted
    <3>1. Sound(w, AbandonCurrentRound(w))
      BY <2>3, AbandonCurrentRoundSound
    <3>2. KeepsSeat(w, AbandonCurrentRound(w))
      BY <1>2, <1>3, <2>3, AbandonCurrentRoundDoes
    <3> HIDE DEF h
    <3>3. Out
      BY <2>1, <3>1, <3>2 DEF KeepsSeat
    <3>4. QED
      BY <3>3 DEF h
  <2>4. QED
    BY <2>2, <2>3
<1>5. CASE /\ ~(~w.exposed \/ NotStarted(w, w.prepared))
           /\ Status(w, w.prepared) = "Finished" /\ w.source = 0
  <2>1. h = w
    BY <1>5 DEF RejoinPlay
  <2> HIDE DEF h
  <2>2. Out
    BY <1>1, <2>1
  <2>3. QED
    BY <2>2 DEF h
<1>6. CASE /\ ~(~w.exposed \/ NotStarted(w, w.prepared))
           /\ ~(Status(w, w.prepared) = "Finished" /\ w.source = 0)
           /\ ~attaches /\ w.source # w.prepared
  <2> DEFINE x == SendAbandon(w)
             c == CancelPreparedRound(x, TRUE)
  <2>1. h = c
    BY <1>6 DEF RejoinPlay
  <2>2. PICK b \in BOOLEAN : b = TRUE
    OBVIOUS
  <2>3. c = CancelPreparedRound(x, b)
    BY <2>2
  <2>4. x \in Session
    BY SendAbandonType
  <2>5. CASE w.submitted
    <3>1. x = w
      BY <2>5 DEF SendAbandon
    <3>2. Sound(w, CancelPreparedRound(w, b))
      BY CancelPreparedRoundSound
    <3>3. KeepsSeat(w, CancelPreparedRound(w, b))
      BY CancelPreparedRoundDoes
    <3> HIDE DEF h, c, x
    <3>4. Out
      BY <2>1, <2>3, <3>1, <3>2, <3>3 DEF KeepsSeat
    <3>5. QED
      BY <3>4 DEF h
  <2>6. CASE ~w.submitted
    <3>1. /\ KeepsSeat(w, x) /\ KeepsRetained(w, x)
          /\ KeepsRequest(w, x) /\ KeepsPlay(w, x)
          /\ x.screens = w.screens /\ x.ops = w.ops
          /\ x.submitted = TRUE /\ x.abandoned = TRUE
          /\ x.terminal.kind = "Dnf" /\ x.terminal.round = w.round.id
          /\ \/ x.out = w.out
             \/ SaysTerminal(x)
      BY <1>2, <1>3, <2>6, SendAbandonDoes
    <3> HIDE DEF x
    <3>2. c \in Session
      BY <2>3, <2>4, CancelPreparedRoundType
    <3>3. /\ KeepsSeat(x, c) /\ KeepsVerdict(x, c) /\ KeepsRetained(x, c)
          /\ Idle(c) /\ KeepsScreens(x, c)
          /\ c.ops = {o \in x.ops : o.req # x.req}
          /\ c.out = x.out
      BY <2>3, <2>4, CancelPreparedRoundDoes
    <3> HIDE DEF h, c
    <3>4. /\ KeepsSeat(w, c) /\ KeepsRetained(w, c) /\ KeepsOthers(w, c)
          /\ c.ops = {o \in w.ops : o.req # w.req}
          /\ c.submitted = TRUE /\ c.abandoned = TRUE
          /\ c.terminal.kind = "Dnf"
          /\ c.terminal.round = w.round.id
      BY <3>1, <3>3 DEF KeepsSeat, KeepsRetained, KeepsOthers, KeepsScreens,
         HasScreen, KeepsVerdict, KeepsRequest
    <3>5. w.submitted = FALSE
      BY <2>6 DEF Session
    <3>6. Local(c) /\ Stay(w, c) /\ RunningKept(w, c)
      BY <1>2, <3>2, <3>3, <3>4, <3>5, IdleSound
    <3>7. OutFits(c)
      BY <2>6, <3>1, <3>3, <3>4 DEF OutFits, SaysTerminal, Silent, KeepsVerdict
    <3>8. Out
      BY <2>1, <3>4, <3>6, <3>7 DEF Sound, KeepsSeat
    <3>9. QED
      BY <3>8 DEF h
  <2>7. QED
    BY <2>5, <2>6
<1>7. CASE /\ ~(~w.exposed \/ NotStarted(w, w.prepared))
           /\ ~(Status(w, w.prepared) = "Finished" /\ w.source = 0)
           /\ ~(~attaches /\ w.source # w.prepared)
  <2> DEFINE a == Attached(w, w.prepared)
             s == StartTelemetrySampling(a)
             e == [s EXCEPT !.announced = TRUE]
  <2>1. h = IF ~w.announced /\ Status(w, w.prepared) = "Running" THEN e ELSE a
    BY <1>7 DEF RejoinPlay
  <2>2. a \in Session
    BY <1>2, AttachedType
  <2>3. /\ KeepsSeat(w, a) /\ KeepsVerdict(w, a) /\ KeepsRetained(w, a)
        /\ KeepsRequest(w, a) /\ a.screens = w.screens /\ a.ops = w.ops
        /\ a.exposed = w.exposed /\ a.start = w.start
        /\ a.source = w.prepared /\ a.guid = w.prepared /\ a.out = w.out
        /\ a.sampling = w.sampling
    BY <1>2 DEF Attached, Session, KeepsSeat, KeepsVerdict, KeepsRetained,
       KeepsRequest
  <2>4. w.sampling => Status(w, w.prepared) = "Running" /\ ~w.submitted
    BY DEF Local, PlayWhole
  <2> HIDE DEF a
  <2>5. Sound(w, a)
    BY <1>7, <2>2, <2>3, <2>4, AttachedSound
  <2>6. s \in Session
    BY <2>2, TelemetryType
  <2>7. /\ KeepsSeat(a, s) /\ KeepsVerdict(a, s) /\ KeepsRetained(a, s)
        /\ KeepsRequest(a, s) /\ s.screens = a.screens /\ s.ops = a.ops
        /\ s.exposed = a.exposed /\ s.start = a.start
        /\ s.source = a.source /\ s.guid = a.guid /\ s.out = a.out
        /\ \/ s.sampling = a.sampling
           \/ Status(a, a.source) = "Running" /\ ~a.submitted
    BY <2>2 DEF StartTelemetrySampling, Session, KeepsSeat, KeepsVerdict,
       KeepsRetained, KeepsRequest
  <2> HIDE DEF s
  <2>8. e \in Session
    BY <2>6, LoaderFields
  <2>9. /\ KeepsSeat(s, e) /\ KeepsVerdict(s, e) /\ KeepsRetained(s, e)
        /\ KeepsRequest(s, e) /\ e.screens = s.screens /\ e.ops = s.ops
        /\ e.exposed = s.exposed /\ e.start = s.start
        /\ e.source = s.source /\ e.guid = s.guid /\ e.out = s.out
        /\ e.sampling = s.sampling
    BY <2>6 DEF Session, KeepsSeat, KeepsVerdict, KeepsRetained, KeepsRequest
  <2> HIDE DEF e, h
  <2>10. /\ KeepsSeat(w, e) /\ KeepsVerdict(w, e) /\ KeepsRetained(w, e)
         /\ KeepsRequest(w, e) /\ e.screens = w.screens /\ e.ops = w.ops
         /\ e.exposed = w.exposed /\ e.start = w.start
         /\ e.source = w.prepared /\ e.guid = w.prepared /\ e.out = w.out
    BY <2>3, <2>7, <2>9 DEF KeepsSeat, KeepsVerdict, KeepsRetained,
       KeepsRequest
  <2>11. Status(a, a.source) = Status(w, w.prepared) /\ a.submitted = w.submitted
    BY <2>3, StatusSame DEF KeepsVerdict
  <2>12. e.sampling => Status(w, w.prepared) = "Running" /\ ~w.submitted
    BY <2>3, <2>4, <2>7, <2>9, <2>11
  <2>13. Sound(w, e)
    BY <1>7, <2>8, <2>10, <2>12, AttachedSound
  <2>14. Out
    BY <2>1, <2>3, <2>5, <2>10, <2>13 DEF KeepsSeat
  <2>15. QED
    BY <2>14 DEF h
<1>8. QED
  BY <1>4, <1>5, <1>6, <1>7

LEMMA ReportKeepsSeat ==
    ASSUME NEW w \in Session
    PROVE  /\ KeepsSeat(w, ReportPreparedRound(w))
           /\ w.round.stage # "Loading" => ReportPreparedRound(w) = w
<1> DEFINE h == ReportPreparedRound(w)
           a == Send([w EXCEPT !.loadSent = TRUE],
                     [type |-> "LoadResult", round |-> w.loadRound, ok |-> TRUE])
           c == CancelPreparedRound(w, FALSE)
<1>1. h \in {w, a, c}
  BY DEF ReportPreparedRound
<1>2. KeepsSeat(w, w) /\ KeepsSeat(w, a)
  BY DEF Session, KeepsSeat, Send
<1>3. KeepsSeat(w, c)
  <2>1. PICK b \in BOOLEAN : b = FALSE
    OBVIOUS
  <2>2. KeepsSeat(w, CancelPreparedRound(w, b))
    BY CancelPreparedRoundDoes
  <2>3. QED
    BY <2>1, <2>2
<1>4. w.round.stage # "Loading" => h = w
  BY DEF ReportPreparedRound
<1> HIDE DEF a, c, h
<1>5. KeepsSeat(w, h)
  BY <1>1, <1>2, <1>3
<1>6. QED
  BY <1>4, <1>5 DEF h

\* A snapshot of the round the session was in when its link was lost.
LEMMA SnapshotSame ==
    ASSUME NEW w \in Session, Local(w), w.out = Silent,
           w.state = "Reconnecting",
           NEW m \in Messages, MessageFits(m), SameRound(w, m),
           m.round.mine = w.round.mine,
           Rank(w.round.stage) <= Rank(m.round.stage),
           NEW attaches \in BOOLEAN
    PROVE  LET u == ApplyRoomSnapshot(w, m, attaches)
           IN  /\ Local(u) /\ Stay(w, u) /\ RunningKept(w, u) /\ OutFits(u)
               /\ u.state = "InRoom" /\ u.round = m.round
<1> DEFINE c == IF w.prepared # 0
                  THEN [w EXCEPT !.start = NoTask, !.loadSent = FALSE]
                  ELSE CancelPreparedRound(w, TRUE)
           s == Seated(c, m.round, "InRoom")
           t == SettledByServer(s, m.terminal)
           f == FlushCompetitionMessages(t)
           r == ReportPreparedRound(f)
           j == RejoinPlay(r, attaches)
           h == ApplyRoomSnapshot(w, m, attaches)
           Out == /\ Local(h) /\ Stay(w, h) /\ RunningKept(w, h) /\ OutFits(h)
                  /\ h.state = "InRoom" /\ h.round = m.round
<1>1. h = IF w.prepared # 0 THEN j ELSE r
  BY DEF ApplyRoomSnapshot, ClearRoundTransfers, Seated
<1>2. /\ c \in Session /\ Local(c) /\ Stay(w, c) /\ RunningKept(w, c)
      /\ KeepsSeat(w, c) /\ Settled(c) /\ c.prepared = w.prepared
      /\ c.out = Silent
  <2>1. PICK guid \in BOOLEAN : guid = TRUE
    OBVIOUS
  <2>2. c = IF w.prepared # 0
                  THEN [w EXCEPT !.start = NoTask, !.loadSent = FALSE]
                  ELSE CancelPreparedRound(w, guid)
    BY <2>1
  <2> HIDE DEF c
  <2>3. QED
    BY <2>2, TransfersCleared
<1> HIDE DEF c
<1>3. m.round \in RoundType /\ m.terminal \in TerminalKind
  BY DEF Messages
<1>4. m.round.id # 0 /\ m.round.id = w.round.id /\ m.round.stage # "None"
  BY DEF SameRound, MessageFits, WholeRound
<1>5. /\ s \in Session /\ Local(s) /\ Stay(c, s) /\ RunningKept(c, s)
      /\ Settled(s) /\ s.out = Silent /\ s.prepared = c.prepared
      /\ s.round = m.round /\ s.state = "InRoom"
  <2>1. PICK state \in {"InRoom", "Reconnecting"} : state = "InRoom"
    OBVIOUS
  <2>2. PICK rd \in RoundType : rd = m.round
    BY <1>3
  <2>3. s = Seated(c, rd, state)
    BY <2>1, <2>2
  <2>4. /\ rd.id = c.round.id /\ rd.mine = c.round.mine /\ rd.id # 0
        /\ rd.stage # "None"
        /\ Rank(c.round.stage) <= Rank(rd.stage)
    BY <1>2, <1>4, <2>2 DEF KeepsSeat
  <2> HIDE DEF s
  <2>5. /\ s \in Session /\ Local(s) /\ Stay(c, s) /\ RunningKept(c, s)
        /\ Settled(s) /\ s.out = Silent /\ s.prepared = c.prepared
        /\ s.round = rd /\ s.state = state
    BY ONLY <1>2, <2>3, <2>4, Reseated
  <2>6. QED
    BY <2>1, <2>2, <2>5
<1> HIDE DEF s
<1>6. /\ t \in Session /\ Sound(s, t) /\ t.round = s.round /\ t.out = Silent
      /\ t.prepared = s.prepared
  <2>1. CASE m.terminal = "None"
    <3>1. t = s
      BY <2>1 DEF SettledByServer
    <3>2. OutFits(s)
      BY <1>5 DEF OutFits, Silent
    <3> HIDE DEF t
    <3>3. QED
      BY <1>5, <3>1, <3>2, SoundSame
  <2>2. CASE m.terminal # "None"
    <3>1. PICK k \in {"Result", "Dnf"} : k = m.terminal
      BY <1>3, <2>2 DEF TerminalKind
    <3>2. s.start = NoTask /\ s.prepared = s.req /\ s.round.stage # "Probing"
      BY <1>5, <2>2 DEF Settled, MessageFits
    <3>3. k = "Result" => s.round.stage = "Playing"
      BY <1>4, <1>5, <3>1 DEF MessageFits
    <3>4. t = SettledByServer(s, k)
      BY <3>1
    <3>5. t \in Session
      BY <1>5, <3>1, <3>4, SettledByServerType DEF TerminalKind
    <3> HIDE DEF t
    <3>6. Sound(s, t) /\ t.round = s.round /\ t.out = Silent /\ KeepsRequest(s, t)
      BY <1>5, <3>2, <3>3, <3>4, SettledByServerSound
    <3>7. QED
      BY <3>5, <3>6 DEF KeepsRequest
  <2>3. QED
    BY <2>1, <2>2
<1> HIDE DEF t
<1>7. Local(t) /\ t.state = "InRoom" /\ t.round = m.round /\ t.prepared = w.prepared
  BY <1>2, <1>5, <1>6 DEF Sound
<1>8. f \in Session
  BY <1>6, FlushCompetitionMessagesType
<1>9. /\ Sound(t, f) /\ f.round = t.round /\ f.prepared = t.prepared
      /\ f.out.type # "LoadResult"
      /\ ~f.submitted => f.out = Silent
  BY <1>6, <1>7, FlushSound
<1> HIDE DEF f
<1>10. /\ Local(f) /\ OutFits(f) /\ f.state = "InRoom" /\ f.round = m.round
       /\ f.prepared = w.prepared
  BY <1>7, <1>9 DEF Sound
<1>11. Stay(w, f) /\ RunningKept(w, f)
  <2>1. Stay(w, s) /\ RunningKept(w, s)
    BY <1>2, <1>5, StayThrough
  <2>2. Stay(w, t) /\ RunningKept(w, t)
    BY <1>5, <1>6, <2>1, StayThrough DEF Sound
  <2>3. QED
    BY <1>6, <1>8, <1>9, <2>2, StayThrough DEF Sound
<1>12. r \in Session
  BY <1>8, ReportPreparedRoundType
<1>13. KeepsSeat(f, r) /\ (f.round.stage # "Loading" => r = f)
  BY <1>8, ReportKeepsSeat
<1>14. Sound(f, r)
  BY <1>8, <1>10, ReportPreparedRoundSound
<1> HIDE DEF r
<1>15. CASE w.prepared # 0 /\ m.round.stage = "Playing"
  <2>1. r = f
    BY <1>10, <1>13, <1>15
  <2>2. j \in Session
    BY <1>12, RejoinPlayType
  <2>3. j = RejoinPlay(f, attaches)
    BY <2>1
  <2> HIDE DEF j, h
  <2>4. Sound(f, j) /\ j.round = f.round
    BY <1>8, <1>9, <1>10, <1>15, <2>3, RejoinPlaySound
  <2>5. Stay(w, j) /\ RunningKept(w, j)
    BY <1>8, <1>11, <2>2, <2>4, StayThrough DEF Sound
  <2>6. Out
    BY <1>1, <1>10, <1>15, <2>4, <2>5 DEF Sound
  <2>7. QED
    BY <2>6 DEF h
<1>16. CASE ~(w.prepared # 0 /\ m.round.stage = "Playing")
  <2>1. r.round = m.round /\ r.state = "InRoom"
    BY <1>10, <1>13 DEF KeepsSeat
  <2>2. h = r
    BY <1>1, <1>16, <2>1 DEF RejoinPlay
  <2>3. Stay(w, r) /\ RunningKept(w, r)
    BY <1>8, <1>11, <1>12, <1>14, StayThrough DEF Sound
  <2> HIDE DEF h
  <2>4. Out
    BY <1>14, <2>1, <2>2, <2>3 DEF Sound
  <2>5. QED
    BY <2>4 DEF h
<1>17. QED
  BY <1>15, <1>16

\* A snapshot of another round, or of a room just entered.
LEMMA SnapshotOther ==
    ASSUME NEW w \in Session, Local(w), w.out = Silent,
           NEW m \in Messages, MessageFits(m),
           ~(w.state = "Reconnecting" /\ SameRound(w, m)),
           w.retained = 0 \/ Watched(m.round),
           NEW attaches \in BOOLEAN
    PROVE  LET u == ApplyRoomSnapshot(w, m, attaches)
           IN  /\ Local(u) /\ RunningKept(w, u)
               /\ u.state = "InRoom" /\ u.round = m.round
               /\ u.terminal = NoTerminal /\ u.out = Silent
               /\ u.retained = w.retained
<1> DEFINE d == [w EXCEPT !.round = NoRound]
           c == CancelPreparedRound(d, FALSE)
           a == ClearActiveCompetitionRound(c)
           s == Seated(a, m.round, "InRoom")
           t == SettledByServer(s, m.terminal)
           f == FlushCompetitionMessages(t)
           r == ReportPreparedRound(f)
           h == ApplyRoomSnapshot(w, m, attaches)
           Out == /\ Local(h) /\ RunningKept(w, h)
                  /\ h.state = "InRoom" /\ h.round = m.round
                  /\ h.terminal = NoTerminal /\ h.out = Silent
                  /\ h.retained = w.retained
<1>1. h = r
  BY DEF ApplyRoomSnapshot, ClearRoundTransfers, Seated
<1>2. m.round \in RoundType /\ m.terminal \in TerminalKind
  BY DEF Messages
<1>3. d \in Session
  <2>1. NoRound \in RoundType
    BY DEF NoRound, RoundType, Stage
  <2>2. QED
    BY <2>1, SeatFields
<1>4. /\ KeepsRetained(w, d) /\ d.screens = w.screens /\ d.ops = w.ops
      /\ d.req = w.req /\ d.out = Silent
  BY DEF Session, KeepsRetained
<1> HIDE DEF d
<1>5. /\ c \in Session /\ KeepsRetained(d, c) /\ Idle(c) /\ KeepsScreens(d, c)
      /\ c.ops = {o \in d.ops : o.req # d.req} /\ c.out = d.out
  <2>1. PICK b \in BOOLEAN : b = FALSE
    OBVIOUS
  <2>2. c = CancelPreparedRound(d, b)
    BY <2>1
  <2> HIDE DEF c
  <2>3. c \in Session
    BY <1>3, <2>2, CancelPreparedRoundType
  <2>4. QED
    BY <1>3, <2>2, <2>3, CancelPreparedRoundDoes
<1> HIDE DEF c
<1>6. /\ a \in Session /\ KeepsRetained(c, a) /\ KeepsRequest(c, a)
      /\ a.screens = c.screens /\ a.ops = c.ops /\ a.out = c.out
      /\ a.terminal = NoTerminal /\ a.abandoned = FALSE /\ a.submitted = FALSE
      /\ a.sampling = FALSE /\ a.exposed = c.exposed /\ a.start = c.start
      /\ a.source = 0
  BY <1>5, ClearTerminalType, ClearActiveCompetitionRoundDoes
<1> HIDE DEF a
<1>7. s \in Session
  BY <1>2, <1>6, PhaseOfType, SeatFields DEF Seated
<1>8. /\ KeepsRetained(a, s) /\ KeepsRequest(a, s)
      /\ s.screens = a.screens /\ s.ops = a.ops /\ s.out = a.out
      /\ KeepsVerdict(a, s)
      /\ s.sampling = a.sampling /\ s.exposed = a.exposed
      /\ s.start = a.start /\ s.source = a.source
      /\ s.phase = PhaseOf(m.round.stage) /\ s.round = m.round
      /\ s.state = "InRoom"
  BY <1>6 DEF Session, KeepsRetained, KeepsRequest, KeepsVerdict, Seated
<1> HIDE DEF s
<1>9. Idle(s)
  BY <1>5, <1>6, <1>8 DEF Idle, KeepsRequest
<1>10. KeepsRetained(w, s) /\ s.ops = {o \in w.ops : o.req # w.req}
       /\ s.out = Silent
  BY <1>4, <1>5, <1>6, <1>8 DEF KeepsRetained
<1>11. KeepsScreens(w, s)
  BY <1>4, <1>5, <1>6, <1>8 DEF KeepsScreens, HasScreen
<1>12. s.terminal = NoTerminal /\ s.abandoned = FALSE /\ s.submitted = FALSE
  BY <1>6, <1>8 DEF KeepsVerdict
<1>13. WholeRound(s.round) /\ s.phase = PhaseOf(s.round.stage)
  BY <1>8 DEF MessageFits
<1>14. /\ s.retained = w.retained
       /\ s.retained = 0 \/ Watched(s.round)
  BY <1>8, <1>10 DEF KeepsRetained
<1>15. Local(s) /\ RunningKept(w, s)
  BY <1>7, <1>8, <1>9, <1>10, <1>11, <1>12, <1>13, <1>14, FreshWhole
<1>16. /\ t \in Session /\ Local(t) /\ RunningKept(w, t) /\ t.round = m.round
       /\ t.out = Silent /\ t.prepared = 0 /\ t.terminal = NoTerminal
       /\ t.state = "InRoom" /\ t.retained = w.retained
  <2>1. CASE m.terminal = "None"
    <3>1. t = s
      BY <2>1 DEF SettledByServer
    <3> HIDE DEF t
    <3>2. QED
      BY <1>7, <1>8, <1>9, <1>10, <1>12, <1>14, <1>15, <3>1 DEF Idle
  <2>2. CASE m.terminal # "None"
    <3>1. PICK k \in {"Result", "Dnf"} : k = m.terminal
      BY <1>2, <2>2 DEF TerminalKind
    <3>2. s.start = NoTask /\ s.prepared = s.req /\ s.round.stage # "Probing"
      BY <1>8, <1>9, <2>2 DEF Idle, MessageFits
    <3>3. k = "Result" => \/ s.round.stage = "Playing"
                          \/ s.round.stage = "None" /\ ~s.abandoned
      BY <1>8, <1>12, <3>1 DEF MessageFits
    <3>4. t = SettledByServer(s, k)
      BY <3>1
    <3>5. t \in Session
      BY <1>7, <3>1, <3>4, SettledByServerType DEF TerminalKind
    <3>6. t.terminal = NoTerminal /\ t.retained = s.retained
      BY <1>7, <2>2 DEF SettledByServer, StopTelemetrySampling, Session
    <3> HIDE DEF t
    <3>7. Sound(s, t) /\ t.round = s.round /\ t.out = Silent /\ KeepsRequest(s, t)
      BY <1>7, <1>10, <1>15, <3>2, <3>3, <3>4, SettledByServerSound
    <3>8. RunningKept(w, t)
      BY <1>15, <3>7 DEF Sound, RunningKept
    <3>9. QED
      BY <1>8, <1>9, <1>14, <3>5, <3>6, <3>7, <3>8
         DEF KeepsRequest, Idle, Sound
  <2>3. QED
    BY <2>1, <2>2
<1> HIDE DEF t
<1>17. f = t
  BY <1>16, NoVerdict DEF FlushCompetitionMessages
<1>18. r = t
  BY <1>16, <1>17 DEF ReportPreparedRound
<1> HIDE DEF r, h
<1>19. Out
  BY <1>1, <1>16, <1>18
<1>20. QED
  BY <1>19 DEF h

\* No helper of a player's step changes the round.
LEMMA LoaderKeepsRound ==
    ASSUME NEW w \in Session, NEW r, NEW status, NEW pending, NEW s, NEW m
    PROVE  /\ CancelOp(w, r).round = w.round
           /\ SetOp(w, r, status, pending).round = w.round
           /\ SetScreen(w, r, s).round = w.round
           /\ Send(w, m).round = w.round
           /\ StopTelemetrySampling(w).round = w.round
           /\ StartTelemetrySampling(w).round = w.round
           /\ DetachGameplaySource(w, TRUE).round = w.round
BY DEF CancelOp, SetOp, SetScreen, Send, StopTelemetrySampling,
   StartTelemetrySampling, DetachGameplaySource, Session

LEMMA SendAbandonKeepsRound ==
    ASSUME NEW w \in Session
    PROVE  /\ SendAbandon(w).round = w.round
           /\ \A kind \in {"Result", "Dnf"}, chart \in Nat :
                 SendTerminal(w, kind, chart).round = w.round
<1>1. ASSUME NEW v \in Session, NEW kind \in {"Result", "Dnf"}, NEW chart \in Nat
      PROVE  SendTerminal(v, kind, chart).round = v.round
  <2> DEFINE n == v.nextId + 1
             t == [kind |-> kind, round |-> v.round.id, id |-> v.nextId,
                   chart |-> chart]
             x == [v EXCEPT !.submitted = TRUE, !.nextId = n, !.terminal = t]
  <2>1. SendTerminal(v, kind, chart) \in {v, FlushCompetitionMessages(x)}
    BY DEF SendTerminal
  <2>2. t \in Terminal /\ n \in Nat \ {0}
    BY DEF Session, Terminal, TerminalKind, RoundType
  <2>3. x.round = v.round
    BY DEF Session
  <2> HIDE DEF t, n
  <2>4. x \in Session
    BY <2>2, SendTerminalFields
  <2> HIDE DEF x
  <2>5. FlushCompetitionMessages(x).round = x.round
    BY <2>4, FlushCompetitionMessagesDoes DEF KeepsSeat
  <2>6. QED
    BY <2>1, <2>3, <2>5
<1>2. SendAbandon(w).round = w.round
  <2> DEFINE x == [w EXCEPT !.abandoned = TRUE]
  <2>1. PICK kind \in {"Result", "Dnf"} : kind = "Dnf"
    OBVIOUS
  <2>2. PICK chart \in Nat : chart = 0
    OBVIOUS
  <2>3. SendAbandon(w) \in {w, SendTerminal(x, kind, chart)}
    BY <2>1, <2>2 DEF SendAbandon
  <2>4. x.round = w.round
    BY DEF Session
  <2>5. x \in Session
    BY VerdictFields
  <2> HIDE DEF x
  <2>6. SendTerminal(x, kind, chart).round = x.round
    BY <1>1, <2>5
  <2>7. QED
    BY <2>3, <2>4, <2>6
<1>3. QED
  BY <1>1, <1>2

LEMMA CancelKeepsRound ==
    ASSUME NEW w \in Session, NEW b \in BOOLEAN
    PROVE  CancelPreparedRound(w, b).round = w.round
BY CancelPreparedRoundDoes DEF KeepsSeat

LEMMA AbandonKeepsRound ==
    ASSUME NEW w \in Session
    PROVE  AbandonCurrentRound(w).round = w.round
<1> DEFINE a == [w EXCEPT !.abandoned = TRUE]
           s == StopTelemetrySampling(a)
           x == SendAbandon(s)
<1>1. PICK b \in BOOLEAN : b = TRUE
  OBVIOUS
<1>2. AbandonCurrentRound(w) \in {w, CancelPreparedRound(x, b)}
  BY <1>1 DEF AbandonCurrentRound
<1>3. a \in Session
  BY VerdictFields
<1>4. a.round = w.round
  BY DEF Session
<1> HIDE DEF a
<1>5. s \in Session
  BY <1>3, StopFields DEF StopTelemetrySampling
<1>6. s.round = a.round
  BY <1>3, LoaderKeepsRound
<1> HIDE DEF s
<1>7. x \in Session
  BY <1>5, SendAbandonType
<1>8. x.round = s.round
  BY <1>5, SendAbandonKeepsRound
<1> HIDE DEF x
<1>9. CancelPreparedRound(x, b).round = x.round
  BY <1>7, CancelKeepsRound
<1>10. QED
  BY <1>2, <1>4, <1>6, <1>8, <1>9

LEMMA ExposeKeepsRound ==
    ASSUME NEW w \in Session, NEW r \in Nat \ {0}, NEW opens \in BOOLEAN
    PROVE  ExposePrepared(w, r, opens).round = w.round
<1> DEFINE s == [req |-> r, ended |-> FALSE, done |-> FALSE, leaving |-> FALSE]
           b == [w EXCEPT !.bound = r]
           x == SetScreen(b, r, s)
<1>1. ExposePrepared(w, r, opens) \in
        {ReportPreparedRound(w), ReportPreparedRound(x), AbandonCurrentRound(w)}
  BY DEF ExposePrepared
<1>2. b \in Session
  BY DEF Session
<1>3. b.round = w.round
  BY DEF Session
<1>4. s \in Screen
  BY DEF Screen
<1> HIDE DEF b, s
<1>5. x \in Session
  BY <1>2, <1>4, SetScreenType
<1>6. x.round = b.round
  BY <1>2 DEF SetScreen, Session
<1> HIDE DEF x
<1>7. ReportPreparedRound(x).round = x.round
  BY <1>5, ReportKeepsSeat DEF KeepsSeat
<1>8. ReportPreparedRound(w).round = w.round
  BY ReportKeepsSeat DEF KeepsSeat
<1>9. AbandonCurrentRound(w).round = w.round
  BY AbandonKeepsRound
<1>10. QED
  BY <1>1, <1>3, <1>6, <1>7, <1>8, <1>9

LEMMA FinishKeepsRound ==
    ASSUME NEW w \in Session, NEW r
    PROVE  Finish(w, r).round = w.round
<1> DEFINE q == {IF s.req = r THEN [s EXCEPT !.ended = TRUE] ELSE s : s \in w.screens}
           e == [w EXCEPT !.screens = q]
           x == [e EXCEPT !.ops = {IF o.req = r
                    THEN [o EXCEPT !.status = "Finished", !.pending = FALSE]
                    ELSE o : o \in e.ops}]
<1>1. Finish(w, r) \in {x, StopTelemetrySampling(x)}
  BY DEF Finish, SetOp
<1>2. x.round = w.round
  BY DEF Session
<1>3. StopTelemetrySampling(x).round = x.round
  BY DEF StopTelemetrySampling, Session
<1> HIDE DEF x
<1>4. QED
  BY <1>1, <1>2, <1>3

LEMMA SubmitKeepsRound ==
    ASSUME NEW w \in Session, NEW r \in Nat, OpsOf(w, r) # {},
           NEW captured \in BOOLEAN
    PROVE  SubmitLocalResult(w, r, captured).round = w.round
<1> DEFINE n == (CHOOSE o \in OpsOf(w, r) : TRUE).round
           s == StopTelemetrySampling(w)
           a == [s EXCEPT !.abandoned = TRUE]
           x == SendTerminal(s, "Result", n)
           y == SendAbandon(a)
<1>1. SubmitLocalResult(w, r, captured) \in
        {w, DetachGameplaySource(w, TRUE), DetachGameplaySource(x, TRUE),
         DetachGameplaySource(y, TRUE)}
  BY DEF SubmitLocalResult
<1>2. n \in Nat
  BY ChosenOp DEF Operation
<1>3. s \in Session
  BY StopFields DEF StopTelemetrySampling
<1>4. s.round = w.round
  BY LoaderKeepsRound
<1> HIDE DEF n, s
<1>5. a \in Session
  BY <1>3, VerdictFields
<1>6. a.round = s.round
  BY SMTT(30), <1>3 DEF Session
<1> HIDE DEF a
<1>7. y \in Session /\ y.round = a.round
  BY <1>5, SendAbandonType, SendAbandonKeepsRound
<1>8. x \in Session /\ x.round = s.round
  <2>1. PICK kind \in {"Result", "Dnf"} : kind = "Result"
    OBVIOUS
  <2>2. x = SendTerminal(s, kind, n)
    BY <2>1
  <2> HIDE DEF x
  <2>3. QED
    BY <1>2, <1>3, <2>2, SendTerminalType, SendAbandonKeepsRound
<1> HIDE DEF x, y
<1>9. /\ DetachGameplaySource(w, TRUE).round = w.round
      /\ DetachGameplaySource(x, TRUE).round = x.round
      /\ DetachGameplaySource(y, TRUE).round = y.round
  BY <1>7, <1>8, LoaderKeepsRound
<1>10. QED
  BY <1>1, <1>4, <1>6, <1>7, <1>8, <1>9

LEMMA MovesKeepsRound ==
    ASSUME NEW u \in Session, u.round = client.round, Moves(u)
    PROVE  client'.round = client.round
<1>1. client' = [u EXCEPT !.out = Silent]
  BY DEF Moves, Becomes
<1>2. QED
  BY SMTT(30), <1>1 DEF Session

\* A step of the loader, the runners or the player leaves the session in its
\* round, and at the stage the server has put it.
LEMMA PlayerKeepsRound ==
    ASSUME client \in Session, client.out = Silent, Local(client), PlayerNext
    PROVE  client'.round = client.round
<1>1. \A o \in client.ops : o \in Operation
  BY DEF Session
<1>2. \A s \in client.screens : s \in Screen
  BY DEF Session
<1>3. CASE ProbeDone
  <2>1. PICK o \in client.ops, ok \in BOOLEAN :
          LET gone == CancelOp(client, o.req)
          IN  Moves(IF client.req = o.req /\ client.op = "Probe"
                      THEN Send([gone EXCEPT !.req = 0, !.op = "None",
                                             !.probe = 0],
                                [type |-> "ProbeResult",
                                 round |-> client.probe, ok |-> ok])
                      ELSE gone)
    BY <1>3 DEF ProbeDone
  <2> DEFINE gone == CancelOp(client, o.req)
             e == [gone EXCEPT !.req = 0, !.op = "None", !.probe = 0]
             a == [type |-> "ProbeResult", round |-> client.probe, ok |-> ok]
             u == Send(e, a)
  <2>2. gone \in Session
    BY CancelOpType
  <2>3. gone.round = client.round
    BY DEF CancelOp, Session
  <2>4. Moves(gone) \/ Moves(u)
    BY <2>1
  <2> HIDE DEF gone
  <2>5. a \in Answer /\ e \in Session
    <3>1. client.probe \in Nat
      BY DEF Session
    <3>2. QED
      BY <2>2, <3>1, AnswerFields
  <2>6. e.round = gone.round
    BY <2>2 DEF Session
  <2> HIDE DEF e, a
  <2>7. u \in Session
    BY <2>5, SendType
  <2>8. u.round = e.round
    BY <2>5 DEF Send, Session
  <2> HIDE DEF u
  <2>9. QED
    BY <2>2, <2>3, <2>4, <2>6, <2>7, <2>8, MovesKeepsRound
<1>4. CASE LoadDone
  <2>1. PICK o \in client.ops, opens \in BOOLEAN :
          LET ready == SetOp(client, o.req, "Ready", FALSE)
          IN  Moves(IF /\ client.req = o.req
                       /\ client.op = "Load"
                       /\ client.loadRound # 0
                       /\ client.prepared = 0
                      THEN ExposePrepared([ready EXCEPT !.prepared = o.req,
                                                        !.exposed = TRUE],
                                          o.req, opens)
                      ELSE ready)
    BY <1>4 DEF LoadDone
  <2> DEFINE ready == SetOp(client, o.req, "Ready", FALSE)
             v == [ready EXCEPT !.prepared = o.req, !.exposed = TRUE]
             u == ExposePrepared(v, o.req, opens)
  <2>2. ready \in Session
    BY SetOpType DEF OpStatus
  <2>3. ready.round = client.round
    BY DEF SetOp, Session
  <2>4. Moves(ready) \/ Moves(u)
    BY <2>1
  <2>5. o.req \in Nat \ {0}
    BY <1>1 DEF Operation
  <2> HIDE DEF ready
  <2>6. v \in Session
    BY <2>2, <2>5, AnswerFields
  <2>7. v.round = ready.round
    BY <2>2 DEF Session
  <2> HIDE DEF v
  <2>8. u \in Session
    BY <2>5, <2>6, ExposePreparedType
  <2>9. u.round = v.round
    BY <2>5, <2>6, ExposeKeepsRound
  <2> HIDE DEF u
  <2>10. QED
    BY <2>2, <2>3, <2>4, <2>7, <2>8, <2>9, MovesKeepsRound
<1>5. CASE LoadFails
  <2>1. PICK o \in client.ops :
          LET gone == CancelOp(client, o.req)
          IN  Moves(IF /\ client.req = o.req
                       /\ client.op = "Load"
                       /\ client.loadRound # 0
                      THEN LET failed == [gone EXCEPT !.req = 0, !.op = "None",
                                            !.loadRound = 0, !.prepared = 0]
                           IN  IF client.round.mine
                                 THEN Send([failed EXCEPT !.loadSent = TRUE],
                                           [type |-> "LoadResult", ok |-> FALSE,
                                            round |-> client.loadRound])
                                 ELSE failed
                      ELSE gone)
    BY <1>5 DEF LoadFails
  <2> DEFINE gone == CancelOp(client, o.req)
             e == [gone EXCEPT !.req = 0, !.op = "None",
                               !.loadRound = 0, !.prepared = 0]
             d == [e EXCEPT !.loadSent = TRUE]
             a == [type |-> "LoadResult", ok |-> FALSE,
                   round |-> client.loadRound]
             u == Send(d, a)
  <2>2. gone \in Session
    BY CancelOpType
  <2>3. gone.round = client.round
    BY DEF CancelOp, Session
  <2>4. Moves(gone) \/ Moves(e) \/ Moves(u)
    BY <2>1
  <2> HIDE DEF gone
  <2>5. client.loadRound \in Nat
    BY DEF Session
  <2>6. a \in Answer /\ e \in Session
    BY <2>2, <2>5, AnswerFields
  <2>7. e.round = gone.round
    BY <2>2 DEF Session
  <2> HIDE DEF e, a
  <2>8. d \in Session
    BY <2>6, LoaderFields
  <2>9. d.round = e.round
    BY <2>6 DEF Session
  <2> HIDE DEF d
  <2>10. u \in Session
    BY <2>6, <2>8, SendType
  <2>11. u.round = d.round
    BY <2>8 DEF Send, Session
  <2> HIDE DEF u
  <2>12. QED
    BY <2>2, <2>3, <2>4, <2>6, <2>7, <2>9, <2>10, <2>11, MovesKeepsRound
<1>6. CASE ScreenStarts
  <2>1. PICK s \in client.screens :
          LET asked == SetOp(client, s.req, "Ready", TRUE)
          IN  Moves(IF client.prepared = s.req
                      THEN ReportPreparedRound(asked) ELSE asked)
    BY <1>6 DEF ScreenStarts
  <2> DEFINE v == SetOp(client, s.req, "Ready", TRUE)
             u == ReportPreparedRound(v)
  <2>2. v \in Session
    BY SetOpType DEF OpStatus
  <2>3. v.round = client.round
    BY DEF SetOp, Session
  <2>4. Moves(v) \/ Moves(u)
    BY <2>1
  <2> HIDE DEF v
  <2>5. u \in Session
    BY <2>2, ReportPreparedRoundType
  <2>6. u.round = v.round
    BY <2>2, ReportKeepsSeat DEF KeepsSeat
  <2> HIDE DEF u
  <2>7. QED
    BY <2>2, <2>3, <2>4, <2>5, <2>6, MovesKeepsRound
<1>7. CASE StartTaskFires
  <2> DEFINE fired == [client EXCEPT !.start = NoTask]
             v == SetOp(fired, client.start.runner, "Running", FALSE)
             x == StartTelemetrySampling(v)
             u == [x EXCEPT !.announced = TRUE]
  <2>1. Moves(fired) \/ Moves(u)
    BY <1>7 DEF StartTaskFires
  <2>2. fired \in Session
    BY LoaderFields
  <2>3. fired.round = client.round
    BY DEF Session
  <2> HIDE DEF fired
  <2>4. v \in Session
    BY <2>2, SetOpType DEF OpStatus
  <2>5. v.round = fired.round
    BY <2>2 DEF SetOp, Session
  <2> HIDE DEF v
  <2>6. x \in Session
    BY <2>4, TelemetryType
  <2>7. x.round = v.round
    BY <2>4 DEF StartTelemetrySampling, Session
  <2> HIDE DEF x
  <2>8. u \in Session
    BY <2>6, LoaderFields
  <2>9. u.round = x.round
    BY <2>6 DEF Session
  <2> HIDE DEF u
  <2>10. QED
    BY <2>1, <2>2, <2>3, <2>5, <2>7, <2>8, <2>9, MovesKeepsRound
<1>8. CASE RunnerEnds
  <2>1. PICK o \in client.ops : Moves(Finish(client, o.req))
    BY <1>8 DEF RunnerEnds
  <2>2. Finish(client, o.req) \in Session
    BY FinishType
  <2>3. Finish(client, o.req).round = client.round
    BY FinishKeepsRound
  <2>4. QED
    BY <2>1, <2>2, <2>3, MovesKeepsRound
<1>9. CASE ScreenPresentsResult
  <2>1. PICK s \in client.screens, captured \in BOOLEAN :
          /\ OpsOf(client, s.req) # {}
          /\ LET ended == Finish(client, s.req)
             IN  Moves(SubmitLocalResult(
                         SetScreen(ended, s.req,
                                   [s EXCEPT !.ended = TRUE, !.done = TRUE]),
                         s.req, captured))
    BY <1>9 DEF ScreenPresentsResult
  <2> DEFINE ended == Finish(client, s.req)
             sc == [s EXCEPT !.ended = TRUE, !.done = TRUE]
             shown == SetScreen(ended, s.req, sc)
             u == SubmitLocalResult(shown, s.req, captured)
  <2>2. u \in Session
    BY <2>1, PresentsType
  <2>3. Moves(u)
    BY <2>1
  <2>4. sc \in Screen
    BY <1>2 DEF Screen
  <2>5. s.req \in Nat
    BY <1>2 DEF Screen
  <2>6. ended \in Session
    BY FinishType
  <2>7. ended.round = client.round
    BY FinishKeepsRound
  <2>8. OpsOf(ended, s.req) # {}
    <3>1. PICK o \in client.ops : o.req = s.req
      BY <2>1 DEF OpsOf
    <3>2. Renewed(o, "Finished", FALSE) \in ended.ops
      BY <3>1, FinishDoes
    <3>3. Renewed(o, "Finished", FALSE).req = s.req
      BY <1>1, <3>1 DEF Renewed, Operation
    <3>4. QED
      BY <3>2, <3>3 DEF OpsOf
  <2> HIDE DEF ended, sc
  <2>9. shown \in Session
    BY <2>4, <2>6, SetScreenType
  <2>10. shown.round = ended.round
    BY <2>6 DEF SetScreen, Session
  <2>11. OpsOf(shown, s.req) = OpsOf(ended, s.req)
    BY <2>6 DEF SetScreen, Session, OpsOf
  <2> HIDE DEF shown
  <2>12. u.round = shown.round
    BY <2>5, <2>8, <2>9, <2>11, SubmitKeepsRound
  <2> HIDE DEF u
  <2>13. QED
    BY <2>2, <2>3, <2>7, <2>10, <2>12, MovesKeepsRound
<1>10. CASE PlayerAbandons
  <2>1. Moves(AbandonCurrentRound(client))
    BY <1>10 DEF PlayerAbandons
  <2>2. AbandonCurrentRound(client) \in Session
    BY AbandonCurrentRoundType
  <2>3. AbandonCurrentRound(client).round = client.round
    BY AbandonKeepsRound
  <2>4. QED
    BY <2>1, <2>2, <2>3, MovesKeepsRound
<1>11. CASE ScreenRemoved
  <2>1. PICK s \in client.screens :
          LET gone == [client EXCEPT !.screens = @ \ {s},
                         !.bound = IF @ = s.req THEN 0 ELSE @]
          IN  Moves(IF OpsOf(client, s.req) = {}
                      THEN gone
                      ELSE ReleasePreparedGameplay(gone, s.req))
    BY <1>11 DEF ScreenRemoved
  <2> DEFINE b == IF client.bound = s.req THEN 0 ELSE client.bound
             gone == [client EXCEPT !.screens = client.screens \ {s},
                                    !.bound = b]
             h == [gone EXCEPT !.exposed = FALSE]
             k == [gone EXCEPT !.retained = 0, !.keptReq = 0]
             u == ReleasePreparedGameplay(gone, s.req)
  <2>2. Moves(gone) \/ Moves(u)
    BY <2>1
  <2>3. b \in Nat
    BY DEF Session
  <2> HIDE DEF b
  <2>4. gone \in Session
    BY <2>3, ScreenGoneDoes
  <2>5. gone.round = client.round
    BY DEF Session
  <2> HIDE DEF gone
  <2>6. u \in Session
    BY <2>4, ReleasePreparedGameplayType
  <2>7. PICK f \in BOOLEAN : f = FALSE
    OBVIOUS
  <2>8. u \in {CancelOp(k, gone.keptReq), gone, AbandonCurrentRound(h),
               CancelPreparedRound(h, f)}
    BY <2>7 DEF ReleasePreparedGameplay
  <2>9. h \in Session /\ k \in Session
    BY ZenonT(40), <2>4 DEF Session
  <2>10. h.round = gone.round /\ k.round = gone.round
    BY <2>4 DEF Session
  <2> HIDE DEF h, k
  <2>11. CancelOp(k, gone.keptReq).round = k.round
    BY <2>9 DEF CancelOp, Session
  <2>12. AbandonCurrentRound(h).round = h.round
    BY <2>9, AbandonKeepsRound
  <2>13. CancelPreparedRound(h, f).round = h.round
    BY <2>9, CancelKeepsRound
  <2> HIDE DEF u
  <2>14. u.round = gone.round
    BY <2>8, <2>10, <2>11, <2>12, <2>13
  <2>15. QED
    BY <2>2, <2>4, <2>5, <2>6, <2>14, MovesKeepsRound
<1>12. QED
  BY <1>3, <1>4, <1>5, <1>6, <1>7, <1>8, <1>9, <1>10, <1>11 DEF PlayerNext

-----------------------------------------------------------------------------
(* A runner that waits for its start is on its screen.                     *)

\* Nothing of the runners and their screens has changed.
SameBoard(w, u) ==
    /\ u.screens = w.screens
    /\ u.ops = w.ops
    /\ u.req = w.req
    /\ u.bound = w.bound
    /\ u.exposed = w.exposed

\* Screens are told to leave, at most.
Leaves(w, u) ==
    /\ (\A s, t \in w.screens : s.req = t.req => s = t) =>
          \A s, t \in u.screens : s.req = t.req => s = t
    /\ \A t \in u.screens : \E s \in w.screens :
          s.req = t.req /\ s.ended = t.ended /\ (s.leaving => t.leaving)

LEMMA SameTidy ==
    ASSUME NEW w, NEW u, SameBoard(w, u), Tidy(w)
    PROVE  Tidy(u)
BY DEF SameBoard, Tidy

LEMMA BoardThrough ==
    ASSUME NEW w, NEW v, NEW u, SameBoard(w, v), SameBoard(v, u)
    PROVE  SameBoard(w, u)
BY DEF SameBoard

LEMMA HelpersBoard ==
    ASSUME NEW w \in Session
    PROVE  /\ SameBoard(w, StopTelemetrySampling(w))
           /\ SameBoard(w, StartTelemetrySampling(w))
           /\ \A b \in BOOLEAN : SameBoard(w, DetachGameplaySource(w, b))
           /\ SameBoard(w, ClearTerminal(w))
           /\ SameBoard(w, ClearActiveCompetitionRound(w))
           /\ SameBoard(w, FlushCompetitionMessages(w))
           /\ \A r : SameBoard(w, Attached(w, r))
           /\ \A m : SameBoard(w, Send(w, m))
           /\ \A terminal : SameBoard(w, SettledByServer(w, terminal))
<1>1. /\ SameBoard(w, StopTelemetrySampling(w))
      /\ SameBoard(w, StartTelemetrySampling(w))
      /\ \A b \in BOOLEAN : SameBoard(w, DetachGameplaySource(w, b))
  BY DEF SameBoard, Session, StopTelemetrySampling, StartTelemetrySampling,
         DetachGameplaySource
<1>2. /\ SameBoard(w, ClearTerminal(w))
      /\ SameBoard(w, ClearActiveCompetitionRound(w))
  BY DEF SameBoard, Session, StopTelemetrySampling, ClearTerminal,
         ClearActiveCompetitionRound, DetachGameplaySource
<1>3. SameBoard(w, FlushCompetitionMessages(w))
  BY DEF SameBoard, Session, FlushCompetitionMessages, Send
<1>4. /\ \A r : SameBoard(w, Attached(w, r))
      /\ \A m : SameBoard(w, Send(w, m))
  BY DEF SameBoard, Session, Attached, Send
<1>5. \A terminal : SameBoard(w, SettledByServer(w, terminal))
  BY DEF SameBoard, Session, SettledByServer, StopTelemetrySampling
<1>6. QED
  BY <1>1, <1>2, <1>3, <1>4, <1>5

LEMMA SendTerminalBoard ==
    ASSUME NEW w \in Session, NEW kind \in {"Result", "Dnf"}, NEW chart \in Nat
    PROVE  SameBoard(w, SendTerminal(w, kind, chart))
<1> DEFINE n == w.nextId + 1
           t == [kind |-> kind, round |-> w.round.id, id |-> w.nextId,
                 chart |-> chart]
           x == [w EXCEPT !.submitted = TRUE, !.nextId = n, !.terminal = t]
<1>1. SendTerminal(w, kind, chart) \in {w, FlushCompetitionMessages(x)}
  BY DEF SendTerminal
<1>2. t \in Terminal /\ n \in Nat \ {0}
  BY DEF Session, Terminal, TerminalKind, RoundType
<1>3. SameBoard(w, w) /\ SameBoard(w, x)
  BY DEF Session, SameBoard
<1> HIDE DEF t, n
<1>4. x \in Session
  BY <1>2, SendTerminalFields
<1> HIDE DEF x
<1>5. SameBoard(x, FlushCompetitionMessages(x))
  BY <1>4, HelpersBoard
<1>6. QED
  BY <1>1, <1>3, <1>5, BoardThrough

LEMMA SendAbandonBoard ==
    ASSUME NEW w \in Session
    PROVE  SameBoard(w, SendAbandon(w))
<1> DEFINE x == [w EXCEPT !.abandoned = TRUE]
<1>1. PICK kind \in {"Result", "Dnf"} : kind = "Dnf"
  OBVIOUS
<1>2. PICK chart \in Nat : chart = 0
  OBVIOUS
<1>3. SendAbandon(w) \in {w, SendTerminal(x, kind, chart)}
  BY <1>1, <1>2 DEF SendAbandon
<1>4. SameBoard(w, w) /\ SameBoard(w, x)
  BY DEF Session, SameBoard
<1>5. x \in Session
  BY VerdictFields
<1> HIDE DEF x
<1>6. SameBoard(x, SendTerminal(x, kind, chart))
  BY <1>5, SendTerminalBoard
<1>7. QED
  BY <1>3, <1>4, <1>6, BoardThrough

-----------------------------------------------------------------------------
(* Closing and cancelling.                                                 *)

LEMMA CloseGameplayBoard ==
    ASSUME NEW w \in Session
    PROVE  LET u == CloseGameplay(w)
           IN  /\ Leaves(w, u)
               /\ u.ops = w.ops /\ u.req = w.req
               /\ \A t \in u.screens : \E s \in w.screens :
                    /\ s.req = t.req /\ s.ended = t.ended
                    /\ s.leaving => t.leaving
                    /\ s.req = w.bound /\ OnTop(w, s) /\ ~s.ended => t.leaving
<1> DEFINE F(s) == IF s.req = w.bound /\ OnTop(w, s) /\ ~s.ended
                     THEN [s EXCEPT !.leaving = TRUE] ELSE s
           q == {F(s) : s \in w.screens}
           u == [w EXCEPT !.bound = 0, !.screens = q]
<1>1. u = CloseGameplay(w)
  BY DEF CloseGameplay
<1>2. \A s \in w.screens :
        /\ F(s).req = s.req /\ F(s).ended = s.ended
        /\ s.leaving => F(s).leaving
        /\ s.req = w.bound /\ OnTop(w, s) /\ ~s.ended => F(s).leaving
  <2>1. w.screens \subseteq Screen
    BY DEF Session
  <2>2. \A s \in Screen :
          LET t == [s EXCEPT !.leaving = TRUE]
          IN  t.req = s.req /\ t.ended = s.ended /\ t.leaving
    BY DEF Screen
  <2>3. QED
    BY <2>1, <2>2
<1> HIDE DEF F
<1>3. \A t \in q : \E s \in w.screens : t = F(s)
  OBVIOUS
<1>4. u.screens = q /\ u.ops = w.ops /\ u.req = w.req
  BY DEF Session
<1> HIDE DEF u, q
<1>5. \A t \in u.screens : \E s \in w.screens :
        /\ s.req = t.req /\ s.ended = t.ended
        /\ s.leaving => t.leaving
        /\ s.req = w.bound /\ OnTop(w, s) /\ ~s.ended => t.leaving
  BY <1>2, <1>3, <1>4
<1>6. ASSUME \A s, t \in w.screens : s.req = t.req => s = t,
             NEW s \in u.screens, NEW t \in u.screens, s.req = t.req
      PROVE  s = t
  <2>1. PICK a \in w.screens, b \in w.screens : s = F(a) /\ t = F(b)
    BY <1>3, <1>4
  <2>2. a.req = b.req
    BY <1>2, <1>6, <2>1
  <2>3. QED
    BY <1>6, <2>1, <2>2
<1>7. Leaves(w, u)
  BY <1>5, <1>6 DEF Leaves
<1>8. QED
  BY <1>1, <1>4, <1>5, <1>7

LEMMA CancelPreparedRoundBoard ==
    ASSUME NEW w \in Session, NEW keepGuid \in BOOLEAN
    PROVE  LET u == CancelPreparedRound(w, keepGuid)
           IN  /\ Leaves(w, u)
               /\ u.req = 0
               /\ u.ops = {o \in w.ops : o.req # w.req}
<1> DEFINE stopped == DetachGameplaySource(StopTelemetrySampling(w), keepGuid)
           cleared == [stopped EXCEPT !.start = NoTask, !.prepared = 0,
                                      !.exposed = FALSE, !.announced = FALSE]
           closed  == IF w.exposed THEN CloseGameplay(cleared) ELSE cleared
           ended   == CancelRoundLoader(closed)
           u       == [ended EXCEPT !.loadSent = FALSE]
<1>1. stopped \in Session
  BY TelemetryType, DetachGameplaySourceType
<1>2. stopped.screens = w.screens
  BY DEF DetachGameplaySource, StopTelemetrySampling, Session
<1> HIDE DEF stopped
<1>3. cleared \in Session
  BY <1>1, LoaderFields
<1>4. cleared.screens = w.screens
  BY SMTT(30), <1>1, <1>2 DEF Session
<1> HIDE DEF cleared
<1>5. closed \in Session
  BY <1>3, CloseGameplayType
<1>6. Leaves(cleared, closed)
  <2>1. Leaves(cleared, cleared)
    BY DEF Leaves
  <2>2. Leaves(cleared, CloseGameplay(cleared))
    BY <1>3, CloseGameplayBoard
  <2>3. QED
    BY <2>1, <2>2
<1> HIDE DEF closed
<1>7. ended \in Session
  BY <1>5, CancelRoundLoaderType
<1>8. ended.screens = closed.screens
  BY <1>5 DEF CancelRoundLoader, CancelOp, Session
<1> HIDE DEF ended
<1>9. u.screens = ended.screens
  BY SMTT(30), <1>7 DEF Session
<1>10. CancelPreparedRound(w, keepGuid) = u
  BY DEF CancelPreparedRound, ended, closed, cleared, stopped
<1> HIDE DEF u
<1>11. u.req = 0 /\ u.ops = {o \in w.ops : o.req # w.req}
  BY <1>10, CancelPreparedRoundDoes DEF Idle
<1>12. Leaves(w, u)
  BY <1>4, <1>6, <1>8, <1>9 DEF Leaves
<1>13. QED
  BY <1>10, <1>11, <1>12

\* The current request goes, and its runner with it.
LEMMA CancelledTidy ==
    ASSUME NEW w, Tidy(w), NEW u, Leaves(w, u), u.req = 0,
           u.ops = {o \in w.ops : o.req # w.req}
    PROVE  Tidy(u)
<1>1. \A s, t \in u.screens : s.req = t.req => s = t
  BY DEF Leaves, Tidy
<1>2. ASSUME NEW t \in u.screens, NEW o \in u.ops, o.req = t.req
      PROVE  /\ o.status # "Working"
             /\ o.status = "Ready" => ~t.ended /\ t.leaving
  <2>1. PICK s \in w.screens :
          s.req = t.req /\ s.ended = t.ended /\ (s.leaving => t.leaving)
    BY DEF Leaves
  <2>2. o \in w.ops /\ o.req # w.req
    OBVIOUS
  <2>3. QED
    BY <1>2, <2>1, <2>2 DEF Tidy
<1>3. QED
  BY <1>1, <1>2 DEF Tidy

\* So does cancelPreparedRound.
LEMMA CancelPreparedRoundTidy ==
    ASSUME NEW w \in Session, Tidy(w), NEW keepGuid \in BOOLEAN
    PROVE  Tidy(CancelPreparedRound(w, keepGuid))
<1> PICK u : u = CancelPreparedRound(w, keepGuid)
  OBVIOUS
<1>1. Leaves(w, u) /\ u.req = 0 /\ u.ops = {o \in w.ops : o.req # w.req}
  BY CancelPreparedRoundBoard
<1>2. QED
  BY <1>1, CancelledTidy

LEMMA CancelRoundLoaderTidy ==
    ASSUME NEW w \in Session, Tidy(w)
    PROVE  Tidy(CancelRoundLoader(w))
<1> PICK u : u = CancelRoundLoader(w)
  OBVIOUS
<1>1. u.req = 0 /\ u.ops = {o \in w.ops : o.req # w.req}
  BY CancelRoundLoaderDoes
<1>2. u.screens = w.screens
  BY DEF CancelRoundLoader, CancelOp, Session
<1>3. Leaves(w, u)
  BY <1>2 DEF Leaves
<1>4. QED
  BY <1>1, <1>3, CancelledTidy

\* What waits for its start when the round is over leaves its screen.
LEMMA RetainPreparedGameplayTidy ==
    ASSUME NEW w \in Session, Tidy(w)
    PROVE  Tidy(RetainPreparedGameplay(w))
<1> DEFINE stopped == DetachGameplaySource(StopTelemetrySampling(w), FALSE)
           moved   == [stopped EXCEPT
                         !.start = NoTask, !.retained = w.prepared,
                         !.forgotten = ForgottenAfter(w),
                         !.keptReq = w.req, !.req = 0, !.op = "None",
                         !.probe = 0, !.loadRound = 0, !.prepared = 0,
                         !.exposed = FALSE, !.announced = FALSE,
                         !.loadSent = FALSE]
           u == IF w.exposed THEN CloseGameplay(moved) ELSE moved
<1>1. stopped \in Session
  BY TelemetryType, DetachGameplaySourceType
<1>2. /\ stopped.screens = w.screens /\ stopped.ops = w.ops
      /\ stopped.bound = w.bound
  BY DEF DetachGameplaySource, StopTelemetrySampling, Session
<1> HIDE DEF stopped
<1>3. moved \in Session
  <2>1. w.prepared \in Nat /\ w.req \in Nat
    BY DEF Session
  <2>2. ForgottenAfter(w) \in SUBSET Nat
    BY DEF Session, ForgottenAfter
  <2>3. QED
    BY <1>1, <2>1, <2>2, RetainFields
<1>4. /\ moved.screens = w.screens /\ moved.ops = w.ops
      /\ moved.bound = w.bound /\ moved.req = 0
  BY SMTT(30), <1>1, <1>2 DEF Session
<1> HIDE DEF moved
<1>5. RetainPreparedGameplay(w) = u
  BY DEF RetainPreparedGameplay, moved, stopped
<1>6. w.screens \subseteq Screen
  BY DEF Session
<1>7. ASSUME NEW s \in w.screens, NEW o \in w.ops, o.req = s.req,
             o.status = "Ready", ~s.leaving
      PROVE  w.exposed /\ s.req = moved.bound /\ OnTop(moved, s) /\ ~s.ended
  <2>1. /\ o.req = w.req /\ s.req = w.bound /\ w.exposed /\ ~s.ended
    BY <1>7 DEF Tidy
  <2>2. w.req # 0
    BY <1>7, <2>1, OpTyped
  <2>3. \A t \in w.screens : t.req <= s.req
    BY <1>7, <2>1, <2>2 DEF Tidy
  <2>4. QED
    BY <1>4, <2>1, <2>3 DEF OnTop
<1>8. CASE w.exposed
  <2>1. u = CloseGameplay(moved)
    BY <1>8
  <2> HIDE DEF u
  <2>2. /\ Leaves(moved, u) /\ u.ops = moved.ops /\ u.req = moved.req
        /\ \A t \in u.screens : \E s \in moved.screens :
             /\ s.req = t.req /\ s.ended = t.ended
             /\ s.leaving => t.leaving
             /\ s.req = moved.bound /\ OnTop(moved, s) /\ ~s.ended => t.leaving
    BY <1>3, <2>1, CloseGameplayBoard
  <2>3. \A s, t \in u.screens : s.req = t.req => s = t
    BY <1>4, <2>2 DEF Leaves, Tidy
  <2>4. ASSUME NEW t \in u.screens, NEW o \in u.ops, o.req = t.req
        PROVE  /\ o.status # "Working"
               /\ o.status = "Ready" => ~t.ended /\ t.leaving
    <3>1. PICK s \in w.screens :
            /\ s.req = t.req /\ s.ended = t.ended
            /\ s.leaving => t.leaving
            /\ s.req = moved.bound /\ OnTop(moved, s) /\ ~s.ended => t.leaving
      BY <1>4, <2>2
    <3>2. o \in w.ops /\ o.req = s.req
      BY <1>4, <2>2, <2>4, <3>1
    <3>3. o.status # "Working" /\ (o.status = "Ready" => ~s.ended)
      BY <3>2 DEF Tidy
    <3>4. QED
      BY <1>7, <3>1, <3>2, <3>3
  <2>5. u.req = 0
    BY <1>4, <2>2
  <2>6. Tidy(u)
    BY <2>3, <2>4, <2>5 DEF Tidy
  <2>7. QED
    BY <1>5, <2>6
<1>9. CASE ~w.exposed
  <2>1. u = moved
    BY <1>9
  <2> HIDE DEF u
  <2>2. Tidy(u)
    BY <1>4, <1>9, <2>1 DEF Tidy
  <2>3. QED
    BY <1>5, <2>2
<1>10. QED
  BY <1>8, <1>9

-----------------------------------------------------------------------------
(* The handlers of the server's messages.                                  *)

\* The sessions with a tidy board.
Neat == {w \in Session : Tidy(w)}

LEMMA SameNeat ==
    ASSUME NEW w \in Neat, NEW u \in Session, SameBoard(w, u)
    PROVE  u \in Neat
BY SameTidy DEF Neat

LEMMA NeatHelpers ==
    ASSUME NEW w \in Neat
    PROVE  /\ StopTelemetrySampling(w) \in Neat
           /\ StartTelemetrySampling(w) \in Neat
           /\ \A b \in BOOLEAN : DetachGameplaySource(w, b) \in Neat
           /\ ClearTerminal(w) \in Neat
           /\ BeginCompetitionRound(w) \in Neat
           /\ ClearActiveCompetitionRound(w) \in Neat
           /\ FlushCompetitionMessages(w) \in Neat
           /\ \A r \in Nat : Attached(w, r) \in Neat
           /\ \A m \in Answer : Send(w, m) \in Neat
           /\ \A terminal : SettledByServer(w, terminal) \in Neat
           /\ SendAbandon(w) \in Neat
<1>1. w \in Session
  BY DEF Neat
<1>2. /\ StopTelemetrySampling(w) \in Neat
      /\ StartTelemetrySampling(w) \in Neat
      /\ \A b \in BOOLEAN : DetachGameplaySource(w, b) \in Neat
  BY <1>1, HelpersBoard, TelemetryType, DetachGameplaySourceType, SameNeat
<1>3. /\ ClearTerminal(w) \in Neat
      /\ BeginCompetitionRound(w) \in Neat
      /\ ClearActiveCompetitionRound(w) \in Neat
  BY <1>1, HelpersBoard, ClearTerminalType, SameNeat DEF BeginCompetitionRound
<1>4. FlushCompetitionMessages(w) \in Neat
  BY <1>1, HelpersBoard, FlushCompetitionMessagesType, SameNeat
<1>5. /\ \A r \in Nat : Attached(w, r) \in Neat
      /\ \A m \in Answer : Send(w, m) \in Neat
  BY <1>1, HelpersBoard, AttachedType, SendType, SameNeat
<1>6. \A terminal : SettledByServer(w, terminal) \in Neat
  BY <1>1, HelpersBoard, SettledByServerType, SameNeat
<1>7. SendAbandon(w) \in Neat
  BY <1>1, SendAbandonBoard, SendAbandonType, SameNeat
<1>8. QED
  BY <1>2, <1>3, <1>4, <1>5, <1>6, <1>7

LEMMA NeatSeat ==
    ASSUME NEW w \in Neat, NEW st \in {"InRoom", "Reconnecting", "Out"},
           NEW ph \in {"Selecting", "Loading", "Playing"}, NEW rd \in RoundType
    PROVE  /\ [w EXCEPT !.state = st] \in Neat
           /\ [w EXCEPT !.state = st, !.phase = ph] \in Neat
           /\ [w EXCEPT !.round = rd] \in Neat
           /\ [w EXCEPT !.phase = ph, !.round = rd] \in Neat
           /\ [w EXCEPT !.phase = ph, !.round = rd, !.state = st] \in Neat
<1>1. w \in Session
  BY DEF Neat
<1>2. /\ [w EXCEPT !.state = st] \in Session
      /\ [w EXCEPT !.state = st, !.phase = ph] \in Session
      /\ [w EXCEPT !.round = rd] \in Session
      /\ [w EXCEPT !.phase = ph, !.round = rd] \in Session
      /\ [w EXCEPT !.phase = ph, !.round = rd, !.state = st] \in Session
  BY <1>1, SeatFields
<1>3. /\ SameBoard(w, [w EXCEPT !.state = st])
      /\ SameBoard(w, [w EXCEPT !.state = st, !.phase = ph])
      /\ SameBoard(w, [w EXCEPT !.round = rd])
  BY <1>1 DEF Session, SameBoard
<1>4. /\ SameBoard(w, [w EXCEPT !.phase = ph, !.round = rd])
      /\ SameBoard(w, [w EXCEPT !.phase = ph, !.round = rd, !.state = st])
  BY <1>1 DEF Session, SameBoard
<1>5. QED
  BY <1>2, <1>3, <1>4, SameNeat

LEMMA NeatStage ==
    ASSUME NEW w \in Neat, NEW ph \in {"Selecting", "Loading", "Playing"},
           NEW sg \in Stage
    PROVE  /\ [w EXCEPT !.phase = ph, !.round.stage = sg] \in Neat
           /\ [w EXCEPT !.loadSent = FALSE, !.start = NoTask,
                        !.round.stage = sg] \in Neat
           /\ \A n \in Nat : [w EXCEPT !.loadRound = n, !.round.stage = sg]
                                \in Neat
<1>1. w \in Session
  BY DEF Neat
<1>2. /\ [w EXCEPT !.phase = ph, !.round.stage = sg] \in Session
      /\ [w EXCEPT !.loadSent = FALSE, !.start = NoTask,
                   !.round.stage = sg] \in Session
      /\ \A n \in Nat : [w EXCEPT !.loadRound = n, !.round.stage = sg]
                           \in Session
  BY <1>1, StageFields
<1>3. /\ SameBoard(w, [w EXCEPT !.phase = ph, !.round.stage = sg])
      /\ SameBoard(w, [w EXCEPT !.loadSent = FALSE, !.start = NoTask,
                                !.round.stage = sg])
  BY <1>1 DEF Session, SameBoard
<1>4. \A n \in Nat : SameBoard(w, [w EXCEPT !.loadRound = n, !.round.stage = sg])
  BY <1>1 DEF Session, SameBoard
<1>5. QED
  BY <1>2, <1>3, <1>4, SameNeat

LEMMA NeatFields ==
    ASSUME NEW w \in Neat
    PROVE  /\ [w EXCEPT !.loadSent = FALSE] \in Neat
           /\ [w EXCEPT !.loadSent = TRUE] \in Neat
           /\ [w EXCEPT !.start = NoTask, !.loadSent = FALSE] \in Neat
           /\ [w EXCEPT !.start = NoTask] \in Neat
           /\ [w EXCEPT !.announced = TRUE] \in Neat
           /\ [w EXCEPT !.terminal = NoTerminal] \in Neat
           /\ \A a \in BOOLEAN : [w EXCEPT !.abandoned = a] \in Neat
           /\ \A n \in Nat : [w EXCEPT !.probe = n] \in Neat
           /\ \A n \in Nat : \A p \in Nat :
                [w EXCEPT !.start = [round |-> n, runner |-> p]] \in Neat
<1>1. w \in Session
  BY DEF Neat
<1>2. /\ [w EXCEPT !.loadSent = FALSE] \in Neat
      /\ [w EXCEPT !.loadSent = TRUE] \in Neat
  <2>1. /\ SameBoard(w, [w EXCEPT !.loadSent = FALSE])
        /\ SameBoard(w, [w EXCEPT !.loadSent = TRUE])
    BY <1>1 DEF Session, SameBoard
  <2>2. QED
    BY <1>1, <2>1, LoaderFields, SameNeat
<1>3. /\ [w EXCEPT !.start = NoTask, !.loadSent = FALSE] \in Neat
      /\ [w EXCEPT !.start = NoTask] \in Neat
      /\ [w EXCEPT !.announced = TRUE] \in Neat
  <2>1. /\ SameBoard(w, [w EXCEPT !.start = NoTask, !.loadSent = FALSE])
        /\ SameBoard(w, [w EXCEPT !.start = NoTask])
        /\ SameBoard(w, [w EXCEPT !.announced = TRUE])
    BY <1>1 DEF Session, SameBoard
  <2>2. QED
    BY <1>1, <2>1, LoaderFields, SameNeat
<1>4. /\ [w EXCEPT !.terminal = NoTerminal] \in Neat
      /\ \A a \in BOOLEAN : [w EXCEPT !.abandoned = a] \in Neat
  <2>1. /\ SameBoard(w, [w EXCEPT !.terminal = NoTerminal])
        /\ \A a \in BOOLEAN : SameBoard(w, [w EXCEPT !.abandoned = a])
    BY <1>1 DEF Session, SameBoard
  <2>2. QED
    BY <1>1, <2>1, VerdictFields, SameNeat
<1>5. ASSUME NEW n \in Nat, NEW p \in Nat
      PROVE  /\ [w EXCEPT !.probe = n] \in Neat
             /\ [w EXCEPT !.start = [round |-> n, runner |-> p]] \in Neat
  <2>1. /\ SameBoard(w, [w EXCEPT !.probe = n])
        /\ SameBoard(w, [w EXCEPT !.start = [round |-> n, runner |-> p]])
    BY <1>1 DEF Session, SameBoard
  <2>2. /\ [w EXCEPT !.probe = n] \in Session
        /\ [w EXCEPT !.start = [round |-> n, runner |-> p]] \in Session
    BY SMTT(30), <1>1 DEF Session
  <2>3. QED
    BY <2>1, <2>2, SameNeat
<1>6. QED
  BY <1>2, <1>3, <1>4, <1>5

LEMMA NeatCancels ==
    ASSUME NEW w \in Neat
    PROVE  /\ \A b \in BOOLEAN : CancelPreparedRound(w, b) \in Neat
           /\ CancelRoundLoader(w) \in Neat
           /\ RetainPreparedGameplay(w) \in Neat
           /\ \A b, k \in BOOLEAN : ClearRoundTransfers(w, b, k) \in Neat
<1>1. w \in Session /\ Tidy(w)
  BY DEF Neat
<1>2. \A b \in BOOLEAN : CancelPreparedRound(w, b) \in Neat
  BY <1>1, CancelPreparedRoundTidy, CancelPreparedRoundType DEF Neat
<1>3. CancelRoundLoader(w) \in Neat
  BY <1>1, CancelRoundLoaderTidy, CancelRoundLoaderType DEF Neat
<1>4. RetainPreparedGameplay(w) \in Neat
  BY <1>1, RetainPreparedGameplayTidy, RetainPreparedGameplayType DEF Neat
<1>5. \A b, k \in BOOLEAN : ClearRoundTransfers(w, b, k) \in Neat
  BY <1>2, NeatFields DEF ClearRoundTransfers
<1>6. QED
  BY <1>2, <1>3, <1>4, <1>5

LEMMA NeatReports ==
    ASSUME NEW w \in Neat
    PROVE  /\ ReportPreparedRound(w) \in Neat
           /\ AbandonCurrentRound(w) \in Neat
           /\ BeginReconnect(w) \in Neat
           /\ ClearRoom(w) \in Neat
<1>1. w \in Session
  BY DEF Neat
<1>2. ReportPreparedRound(w) \in Neat
  <2>1. [type |-> "LoadResult", round |-> w.loadRound, ok |-> TRUE] \in Answer
    <3>1. w.loadRound \in Nat
      BY SMTT(30), <1>1 DEF Session
    <3>2. QED
      BY <3>1 DEF Answer
  <2>2. QED
    BY <2>1, NeatFields, NeatHelpers, NeatCancels DEF ReportPreparedRound
<1>3. AbandonCurrentRound(w) \in Neat
  BY NeatFields, NeatHelpers, NeatCancels DEF AbandonCurrentRound
<1>4. BeginReconnect(w) \in Neat
  <2>1. \A b, k \in BOOLEAN : ClearRoundTransfers(w, b, k) \in Neat
    BY NeatCancels
  <2>2. \A v \in Neat : [v EXCEPT !.state = "Reconnecting"] \in Neat
    BY NeatSeat, NoValuesType
  <2>3. QED
    BY <2>1, <2>2 DEF BeginReconnect
<1>5. ClearRoom(w) \in Neat
  <2>1. [w EXCEPT !.round = NoRound] \in Neat
    BY NoValuesType, NeatSeat
  <2>2. CancelPreparedRound([w EXCEPT !.round = NoRound], FALSE) \in Neat
    BY <2>1, NeatCancels
  <2>3. ClearActiveCompetitionRound(
          CancelPreparedRound([w EXCEPT !.round = NoRound], FALSE)) \in Neat
    BY <2>2, NeatHelpers
  <2>4. QED
    BY <2>3, NoValuesType, NeatSeat DEF ClearRoom
<1>6. QED
  BY <1>2, <1>3, <1>4, <1>5

LEMMA NeatSnapshot ==
    ASSUME NEW w \in Neat, NEW m \in Messages, NEW attaches
    PROVE  ApplyRoomSnapshot(w, m, attaches) \in Neat
<1> DEFINE sameSeat     == w.state = "Reconnecting"
           sameRound    == sameSeat /\ SameRound(w, m)
           samePrepared == sameRound /\ w.prepared # 0
           dropped      == IF sameRound THEN w ELSE [w EXCEPT !.round = NoRound]
           cleared      == ClearRoundTransfers(dropped, samePrepared, sameRound)
           settled      == IF sameRound THEN cleared
                                        ELSE ClearActiveCompetitionRound(cleared)
           placed       == [settled EXCEPT !.phase = PhaseOf(m.round.stage),
                                           !.round = m.round,
                                           !.state = "InRoom"]
           reported     == ReportPreparedRound(FlushCompetitionMessages(
                             SettledByServer(placed, m.terminal)))
<1>1. sameRound \in BOOLEAN /\ samePrepared \in BOOLEAN
  BY DEF SameRound
<1>2. dropped \in Neat
  BY NeatSeat, NoValuesType
<1>3. cleared \in Neat
  BY <1>1, <1>2, NeatCancels
<1>4. settled \in Neat
  BY <1>3, NeatHelpers
<1>5. m.round \in RoundType
  BY DEF Messages
<1>6. placed \in Neat
  BY ZenonT(40), <1>4, <1>5, PhaseOfType, NeatSeat
<1>7. reported \in Neat
  BY <1>6, NeatHelpers, NeatReports
<1>8. \A v \in Neat : RejoinPlay(v, attaches) \in Neat
  <2>1. SUFFICES ASSUME NEW v \in Neat PROVE RejoinPlay(v, attaches) \in Neat
    OBVIOUS
  <2>2. v.prepared \in Nat
    BY DEF Neat, Session
  <2>3. Attached(v, v.prepared) \in Neat
    BY <2>2, NeatHelpers
  <2>4. QED
    BY <2>3, NeatReports, NeatHelpers, NeatCancels, NeatFields DEF RejoinPlay
<1> HIDE DEF reported, samePrepared
<1>9. QED
  BY <1>7, <1>8 DEF ApplyRoomSnapshot, reported, samePrepared

\* A new operation has no screen yet.
LEMMA StartOpNeat ==
    ASSUME NEW w \in Neat, w.req = 0, \A s \in w.screens : s.req < w.nextReq,
           NEW kind \in {"Probe", "Load"}, NEW round \in Nat
    PROVE  StartOp(w, kind, round) \in Neat
<1> DEFINE u == StartOp(w, kind, round)
           p == [req |-> w.nextReq, kind |-> kind, round |-> round,
                 status |-> "Working", pending |-> FALSE]
<1>1. w \in Session /\ Tidy(w)
  BY DEF Neat
<1>2. u \in Session
  BY <1>1, StartOpType
<1>3. /\ u.screens = w.screens /\ u.req = w.nextReq
      /\ u.ops = w.ops \cup {p}
  BY <1>1 DEF StartOp, Session
<1>4. w.nextReq \in Nat /\ \A s \in w.screens : s.req \in Nat
  BY <1>1 DEF Session, Screen
<1>5. p.req = w.nextReq
  OBVIOUS
<1>6. \A o \in w.ops : o.req # 0
  BY <1>1, OpTyped
<1> HIDE DEF u, p
<1>7. \A s, t \in u.screens : s.req = t.req => s = t
  BY <1>1, <1>3 DEF Tidy
<1>8. ASSUME NEW t \in u.screens, NEW o \in u.ops, o.req = t.req
      PROVE  /\ o.status # "Working"
             /\ o.status = "Ready" => ~t.ended /\ t.leaving
  <2>1. o \in w.ops /\ o.req # w.req
    BY <1>3, <1>4, <1>5, <1>6, <1>8
  <2>2. QED
    BY <1>1, <1>3, <1>8, <2>1 DEF Tidy
<1>9. \A s \in u.screens : s.req <= u.req
  BY <1>3, <1>4
<1>10. Tidy(u)
  BY <1>7, <1>8, <1>9 DEF Tidy
<1>11. QED
  BY <1>2, <1>10 DEF Neat, u

LEMMA NeatRequests ==
    ASSUME NEW w \in Neat, OpsWhole(w), NEW m \in Messages
    PROVE  /\ HandleProbeRequested(w, m) \in Neat
           /\ HandleLoadRequested(w, m) \in Neat
<1>1. w \in Session /\ m.round.id \in Nat
  BY DEF Neat, Messages, RoundType
<1>2. \A s \in w.screens : s.req < w.nextReq
  BY DEF OpsWhole
<1>3. PICK b \in BOOLEAN : b = FALSE
  OBVIOUS
<1>4. PICK probe \in {"Probe", "Load"} : probe = "Probe"
  OBVIOUS
<1>5. PICK load \in {"Probe", "Load"} : load = "Load"
  OBVIOUS
<1>6. PICK v : v = CancelRoundLoader(w)
  OBVIOUS
<1>7. PICK c : c = CancelPreparedRound(w, b)
  OBVIOUS
<1>8. v \in Neat /\ c \in Neat
  BY <1>6, <1>7, NeatCancels
<1>9. /\ v.req = 0 /\ \A s \in v.screens : s.req < v.nextReq
      /\ c.req = 0 /\ \A s \in c.screens : s.req < c.nextReq
  <2>1. v.req = 0 /\ KeepsScreens(w, v) /\ KeepsRetained(w, v)
    BY <1>1, <1>6, CancelRoundLoaderDoes
  <2>2. c.req = 0 /\ KeepsScreens(w, c) /\ KeepsRetained(w, c)
    BY <1>1, <1>7, CancelPreparedRoundDoes DEF Idle
  <2>3. QED
    BY <1>2, <2>1, <2>2 DEF KeepsScreens, KeepsRetained, HasScreen
<1>10. /\ StartOp(v, probe, m.round.id) \in Neat
       /\ StartOp(c, load, m.round.id) \in Neat
  BY <1>1, <1>8, <1>9, StartOpNeat
<1>11. HandleProbeRequested(w, m) \in Neat
  BY <1>1, <1>4, <1>6, <1>10, NeatFields DEF HandleProbeRequested
<1>12. HandleLoadRequested(w, m) \in Neat
  <2>1. PICK x : x = StartOp(c, load, m.round.id)
    OBVIOUS
  <2>2. PICK stage \in Stage : stage = "Loading"
    BY DEF Stage
  <2>3. PICK phase \in {"Selecting", "Loading", "Playing"} : phase = "Loading"
    OBVIOUS
  <2>4. [x EXCEPT !.loadRound = m.round.id, !.round.stage = stage] \in Neat
    BY <1>1, <1>10, <2>1, <2>3, NeatStage
  <2>5. ReportPreparedRound(w) \in Neat
    BY NeatReports
  <2>6. HandleLoadRequested(w, m)
          \in {w, ReportPreparedRound(w),
               [x EXCEPT !.loadRound = m.round.id, !.round.stage = stage]}
    BY <1>3, <1>5, <1>7, <2>1, <2>2 DEF HandleLoadRequested
  <2>7. QED
    BY <2>4, <2>5, <2>6
<1>13. QED
  BY <1>11, <1>12

LEMMA NeatHandlers ==
    ASSUME NEW w \in Neat, NEW m \in Messages, NEW attaches
    PROVE  /\ HandleRoundLoadingStarted(w, m) \in Neat
           /\ HandleRoundStartScheduled(w, m, attaches) \in Neat
           /\ HandleRoundStarted(w, m) \in Neat
           /\ HandleStandings(w, m) \in Neat
           /\ HandleTerminalAccepted(w, m) \in Neat
           /\ HandleTerminalRefused(w, m) \in Neat
           /\ HandleRoundFinalized(w, m) \in Neat
           /\ HandleRoundLaunchCancelled(w, m) \in Neat
<1>1. m.round \in RoundType /\ m.round.id \in Nat /\ w.prepared \in Nat
  BY DEF Messages, RoundType, Neat, Session
<1>2. HandleRoundLoadingStarted(w, m) \in Neat
  BY <1>1, NeatSeat, NeatHelpers, NeatCancels DEF HandleRoundLoadingStarted
<1>3. HandleRoundStartScheduled(w, m, attaches) \in Neat
  <2> DEFINE scheduled == [w EXCEPT !.loadSent = FALSE, !.start = NoTask,
                                    !.round.stage = "Scheduled"]
  <2>1. scheduled \in Neat
    BY NeatStage DEF Stage
  <2> HIDE DEF scheduled
  <2>2. Attached(scheduled, w.prepared) \in Neat
    BY <1>1, <2>1, NeatHelpers
  <2>3. \A r \in Neat :
          [r EXCEPT !.start = [round |-> m.round.id, runner |-> w.prepared]]
             \in Neat
    BY <1>1, NeatFields
  <2>4. CancelPreparedRound(SendAbandon(scheduled), TRUE) \in Neat
    BY <2>1, NeatHelpers, NeatCancels
  <2>5. QED
    BY <2>2, <2>3, <2>4 DEF HandleRoundStartScheduled, scheduled
<1>4. HandleRoundStarted(w, m) \in Neat
  BY NeatStage, NeatHelpers DEF HandleRoundStarted, Stage
<1>5. HandleStandings(w, m) \in Neat
  BY NeatHelpers DEF HandleStandings
<1>6. HandleTerminalAccepted(w, m) \in Neat
  BY NeatFields DEF HandleTerminalAccepted
<1>7. HandleTerminalRefused(w, m) \in Neat
  BY NeatFields, NeatReports DEF HandleTerminalRefused
<1>8. HandleRoundFinalized(w, m) \in Neat
  BY NoValuesType, NeatSeat, NeatHelpers, NeatCancels DEF HandleRoundFinalized
<1>9. HandleRoundLaunchCancelled(w, m) \in Neat
  BY NoValuesType, NeatSeat, NeatHelpers, NeatCancels
     DEF HandleRoundLaunchCancelled
<1>10. QED
  BY <1>2, <1>3, <1>4, <1>5, <1>6, <1>7, <1>8, <1>9

\* Every message leaves the board tidy,
LEMMA NeatMessage ==
    ASSUME NEW w \in Neat, OpsWhole(w), NEW m \in Messages, NEW attaches
    PROVE  HandleServerMessage(w, m, attaches) \in Neat
<1>1. m.type \in MessageType
  BY DEF Messages
<1>2. QED
  BY <1>1, NeatHandlers, NeatRequests, NeatSnapshot, NeatReports
     DEF HandleServerMessage, MessageType

-----------------------------------------------------------------------------
(* The loader, the runners and the screens keep it so.                     *)

\* Operations that are gone leave nothing behind.
LEMMA FewerNeat ==
    ASSUME NEW w \in Neat, NEW u \in Session, u.screens = w.screens,
           u.ops \subseteq w.ops,
           \/ u.req = w.req /\ u.bound = w.bound /\ u.exposed = w.exposed
           \/ u.req = 0 /\ \A o \in u.ops : o.req # w.req
    PROVE  u \in Neat
<1>1. Tidy(w) /\ w \in Session
  BY DEF Neat
<1>2. ASSUME NEW t \in u.screens, NEW o \in u.ops, o.req = t.req
      PROVE  /\ o.status # "Working"
             /\ o.status = "Ready" =>
                  /\ ~t.ended
                  /\ t.leaving \/ (o.req = u.req /\ t.req = u.bound /\ u.exposed)
  BY <1>1, <1>2 DEF Tidy
<1>3. /\ \A s, t \in u.screens : s.req = t.req => s = t
      /\ u.req # 0 => \A s \in u.screens : s.req <= u.req
  BY <1>1 DEF Tidy
<1>4. Tidy(u)
  BY <1>2, <1>3 DEF Tidy
<1>5. QED
  BY <1>4 DEF Neat

\* What the board looks like with another status for the operation r.
LEMMA SetOpBoard ==
    ASSUME NEW w \in Session, NEW r, NEW status \in OpStatus,
           NEW pending \in BOOLEAN
    PROVE  LET u == SetOp(w, r, status, pending)
           IN  /\ u.screens = w.screens /\ u.req = w.req
               /\ u.bound = w.bound /\ u.exposed = w.exposed
               /\ \A p \in u.ops : \E o \in w.ops :
                    /\ o.req = p.req
                    /\ \/ o.req = r /\ p.status = status
                       \/ o.req # r /\ p = o
<1> DEFINE F(o) == IF o.req = r
                     THEN [o EXCEPT !.status = status, !.pending = pending]
                     ELSE o
           q == {F(o) : o \in w.ops}
<1>1. \A o \in w.ops : o \in Operation
  BY DEF Session
<1>2. \A o \in Operation :
        /\ F(o).req = o.req
        /\ \/ o.req = r /\ F(o).status = status
           \/ o.req # r /\ F(o) = o
  BY DEF Operation
<1>3. \A p \in q : \E o \in w.ops :
        /\ o.req = p.req
        /\ \/ o.req = r /\ p.status = status
           \/ o.req # r /\ p = o
  BY <1>1, <1>2
<1> HIDE DEF q
<1>4. SetOp(w, r, status, pending) = [w EXCEPT !.ops = q]
  BY DEF SetOp, q
<1>5. QED
  BY SMTT(30), <1>3, <1>4 DEF Session

\* A runner goes on to its next status.
LEMMA SetOpNeat ==
    ASSUME NEW w \in Neat, NEW r, NEW status \in OpStatus \ {"Working"},
           NEW pending \in BOOLEAN,
           status = "Ready" => \A o \in w.ops : o.req = r => o.status = "Ready"
    PROVE  SetOp(w, r, status, pending) \in Neat
<1>1. w \in Session /\ status \in OpStatus /\ status # "Working"
  BY DEF Neat
<1>2. PICK u : u = SetOp(w, r, status, pending)
  OBVIOUS
<1>3. u \in Session
  BY <1>1, <1>2, SetOpType
<1>4. /\ u.screens = w.screens /\ u.req = w.req
      /\ u.bound = w.bound /\ u.exposed = w.exposed
      /\ \A p \in u.ops : \E o \in w.ops :
           /\ o.req = p.req
           /\ \/ o.req = r /\ p.status = status
              \/ o.req # r /\ p = o
  BY <1>1, <1>2, SetOpBoard
<1>5. Tidy(w)
  BY DEF Neat
<1>6. ASSUME NEW t \in u.screens, NEW p \in u.ops, p.req = t.req
      PROVE  /\ p.status # "Working"
             /\ p.status = "Ready" =>
                  /\ ~t.ended
                  /\ t.leaving \/ (p.req = u.req /\ t.req = u.bound /\ u.exposed)
  <2>1. PICK o \in w.ops : /\ o.req = p.req
                           /\ \/ o.req = r /\ p.status = status
                              \/ o.req # r /\ p = o
    BY <1>4
  <2>2. /\ p.status = "Ready" => o.status = "Ready"
        /\ p.status = "Working" => o.status = "Working"
    BY <1>1, <2>1
  <2>3. t \in w.screens /\ o.req = t.req
    BY <1>4, <1>6, <2>1
  <2>4. QED
    BY <1>4, <1>5, <1>6, <2>1, <2>2, <2>3 DEF Tidy
<1>7. /\ \A s, t \in u.screens : s.req = t.req => s = t
      /\ u.req # 0 => \A s \in u.screens : s.req <= u.req
  BY <1>4, <1>5 DEF Tidy
<1>8. u \in Neat
  BY <1>3, <1>6, <1>7 DEF Neat, Tidy
<1>9. QED
  BY <1>2, <1>8

\* A runner that is not waiting for its start comes to its end.
LEMMA FinishNeat ==
    ASSUME NEW w \in Neat, NEW r,
           \A o \in w.ops : o.req = r => o.status # "Ready"
    PROVE  Finish(w, r) \in Neat
<1> DEFINE F(s) == IF s.req = r THEN [s EXCEPT !.ended = TRUE] ELSE s
           q == {F(s) : s \in w.screens}
           v == [w EXCEPT !.screens = q]
           e == SetOp(v, r, "Finished", FALSE)
<1>1. w \in Session /\ Tidy(w) /\ w.screens \subseteq Screen
  BY DEF Neat, Session
<1>2. \A s \in Screen : /\ F(s) \in Screen /\ F(s).req = s.req
                        /\ F(s).leaving = s.leaving
                        /\ F(s).ended => s.ended \/ s.req = r
  BY DEF Screen
<1>3. q \in SUBSET Screen
  BY <1>1, <1>2
<1>4. \A t \in q : \E s \in w.screens :
        /\ s.req = t.req /\ t = F(s) /\ t.leaving = s.leaving
        /\ t.ended => s.ended \/ s.req = r
  BY <1>1, <1>2
<1> HIDE DEF q
<1>5. v \in Session /\ v.ops = w.ops /\ v.screens = q /\ v.req = w.req
      /\ v.bound = w.bound /\ v.exposed = w.exposed
  BY SMTT(30), <1>1, <1>3 DEF Session
<1> HIDE DEF v
<1>6. \A s, t \in q : s.req = t.req => s = t
  <2> TAKE s, t \in q
  <2>1. PICK a \in w.screens : a.req = s.req /\ s = F(a)
    BY <1>4
  <2>2. PICK b \in w.screens : b.req = t.req /\ t = F(b)
    BY <1>4
  <2>3. s.req = t.req => a = b
    BY <1>1, <2>1, <2>2 DEF Tidy
  <2>4. QED
    BY <2>1, <2>2, <2>3
<1>7. ASSUME NEW t \in q, NEW o \in w.ops, o.req = t.req
      PROVE  /\ o.status # "Working"
             /\ o.status = "Ready" =>
                  /\ ~t.ended
                  /\ t.leaving \/ (o.req = w.req /\ t.req = w.bound /\ w.exposed)
  <2>1. PICK s \in w.screens :
          /\ s.req = t.req /\ t.leaving = s.leaving
          /\ t.ended => s.ended \/ s.req = r
    BY <1>4
  <2>2. /\ o.status # "Working"
        /\ o.status = "Ready" =>
             /\ ~s.ended
             /\ s.leaving \/ (o.req = w.req /\ s.req = w.bound /\ w.exposed)
    BY <1>1, <1>7, <2>1 DEF Tidy
  <2>3. QED
    BY <1>7, <2>1, <2>2
<1>8. w.req # 0 => \A s \in q : s.req <= w.req
  BY <1>1, <1>4 DEF Tidy
<1>9. Tidy(v)
  BY <1>5, <1>6, <1>7, <1>8 DEF Tidy
<1>10. v \in Neat
  BY <1>5, <1>9 DEF Neat
<1>11. PICK status \in OpStatus \ {"Working"} : status = "Finished"
  BY DEF OpStatus
<1>12. PICK b \in BOOLEAN : b = FALSE
  OBVIOUS
<1>13. SetOp(v, r, status, b) \in Neat
  BY <1>10, <1>11, SetOpNeat
<1>14. e \in Neat
  BY <1>11, <1>12, <1>13
<1> HIDE DEF e
<1>15. StopTelemetrySampling(e) \in Neat
  BY <1>14, NeatHelpers
<1>16. Finish(w, r) \in {e, StopTelemetrySampling(e)}
  BY DEF Finish, e, v, q
<1>17. QED
  BY <1>14, <1>15, <1>16

\* A screen is put in the place of the one of the same runner.
LEMMA SetScreenNeat ==
    ASSUME NEW w \in Neat, NEW s \in Screen,
           \A o \in w.ops : o.req = s.req =>
              /\ o.status # "Working"
              /\ o.status = "Ready" =>
                   /\ ~s.ended
                   /\ o.req = w.req /\ s.req = w.bound /\ w.exposed,
           w.req # 0 => s.req <= w.req
    PROVE  SetScreen(w, s.req, s) \in Neat
<1>1. w \in Session /\ Tidy(w)
  BY DEF Neat
<1>2. PICK u : u = SetScreen(w, s.req, s)
  OBVIOUS
<1>3. u \in Session
  BY <1>1, <1>2, SetScreenType
<1>4. /\ u.screens = {t \in w.screens : t.req # s.req} \cup {s}
      /\ u.ops = w.ops /\ u.req = w.req /\ u.bound = w.bound
      /\ u.exposed = w.exposed
  BY <1>1, <1>2 DEF SetScreen, Session
<1>5. /\ \A x, t \in u.screens : x.req = t.req => x = t
      /\ u.req # 0 => \A t \in u.screens : t.req <= u.req
  BY <1>1, <1>4 DEF Tidy
<1>6. ASSUME NEW t \in u.screens, NEW o \in u.ops, o.req = t.req
      PROVE  /\ o.status # "Working"
             /\ o.status = "Ready" =>
                  /\ ~t.ended
                  /\ t.leaving \/ (o.req = u.req /\ t.req = u.bound /\ u.exposed)
  <2>1. CASE t = s
    BY <1>4, <1>6, <2>1
  <2>2. CASE t \in w.screens
    BY <1>1, <1>4, <1>6, <2>2 DEF Tidy
  <2>3. QED
    BY <1>4, <2>1, <2>2
<1>7. u \in Neat
  BY <1>3, <1>5, <1>6 DEF Neat, Tidy
<1>8. QED
  BY <1>2, <1>7

\* The runner that is loaded has had no screen before.
LEMMA LoadedNeat ==
    ASSUME NEW w \in Neat, Local(w), NEW o \in w.ops, o.status = "Working",
           o.req = w.req
    PROVE  LET v == [SetOp(w, o.req, "Ready", FALSE) EXCEPT
                       !.prepared = o.req, !.exposed = TRUE]
           IN  /\ v \in Neat
               /\ v.req = o.req /\ v.exposed
               /\ \A p \in v.ops : p.req = o.req => p.status = "Ready"
               /\ \A s \in v.screens : s.req # o.req
<1>1. w \in Session /\ Tidy(w) /\ o.req \in Nat
  BY OpTyped DEF Neat
<1>2. PICK ready \in OpStatus : ready = "Ready"
  BY DEF OpStatus
<1>3. PICK b \in BOOLEAN : b = FALSE
  OBVIOUS
<1>4. PICK a : a = SetOp(w, o.req, ready, b)
  OBVIOUS
<1>5. a \in Session
  BY <1>1, <1>4, SetOpType
<1>6. /\ a.screens = w.screens /\ a.req = w.req
      /\ a.bound = w.bound /\ a.exposed = w.exposed
      /\ \A p \in a.ops : \E x \in w.ops :
           /\ x.req = p.req
           /\ \/ x.req = o.req /\ p.status = "Ready"
              \/ x.req # o.req /\ p = x
  BY <1>1, <1>2, <1>4, SetOpBoard
<1>7. PICK v : v = [a EXCEPT !.prepared = o.req, !.exposed = TRUE]
  OBVIOUS
<1>8. PICK t \in BOOLEAN : t = TRUE
  OBVIOUS
<1>9. v \in Session
  BY <1>1, <1>5, <1>7, <1>8, AnswerFields
<1>10. /\ v.screens = w.screens /\ v.req = w.req /\ v.bound = w.bound
       /\ v.exposed /\ v.ops = a.ops
  BY SMTT(30), <1>5, <1>6, <1>7 DEF Session
<1>11. \A s \in w.screens : s.req # o.req
  BY <1>1 DEF Tidy
<1>12. ASSUME NEW s \in v.screens, NEW p \in v.ops, p.req = s.req
       PROVE  /\ p.status # "Working"
              /\ p.status = "Ready" =>
                   /\ ~s.ended
                   /\ s.leaving \/ (p.req = v.req /\ s.req = v.bound /\ v.exposed)
  <2>1. p \in w.ops
    BY <1>6, <1>10, <1>11, <1>12
  <2>2. QED
    BY <1>1, <1>10, <1>12, <2>1 DEF Tidy
<1>13. /\ \A x, y \in v.screens : x.req = y.req => x = y
       /\ v.req # 0 => \A s \in v.screens : s.req <= v.req
  BY <1>1, <1>10 DEF Tidy
<1>14. v \in Neat
  BY <1>9, <1>12, <1>13 DEF Neat, Tidy
<1>15. \A p \in v.ops : p.req = o.req => p.status = "Ready"
  BY <1>6, <1>10
<1>16. v = [SetOp(w, o.req, "Ready", FALSE) EXCEPT
              !.prepared = o.req, !.exposed = TRUE]
  BY <1>2, <1>3, <1>4, <1>7
<1>17. QED
  BY <1>10, <1>11, <1>14, <1>15, <1>16

LEMMA ExposeNeat ==
    ASSUME NEW v \in Neat, NEW r \in Nat \ {0}, v.req = r, v.exposed,
           \A p \in v.ops : p.req = r => p.status = "Ready",
           \A s \in v.screens : s.req # r,
           NEW opens \in BOOLEAN
    PROVE  ExposePrepared(v, r, opens) \in Neat
<1>1. v \in Session /\ Tidy(v)
  BY DEF Neat
<1>2. ReportPreparedRound(v) \in Neat /\ AbandonCurrentRound(v) \in Neat
  BY NeatReports
<1>3. ASSUME v.bound = 0
      PROVE  SetScreen([v EXCEPT !.bound = r], r,
                       [req |-> r, ended |-> FALSE, done |-> FALSE,
                        leaving |-> FALSE]) \in Neat
  <2>1. PICK s : s = [req |-> r, ended |-> FALSE, done |-> FALSE,
                      leaving |-> FALSE]
    OBVIOUS
  <2>2. s \in Screen /\ s.req = r /\ ~s.ended
    BY <2>1 DEF Screen
  <2>3. PICK u : u = [v EXCEPT !.bound = r]
    OBVIOUS
  <2>4. /\ u \in Session /\ u.screens = v.screens /\ u.ops = v.ops
        /\ u.req = v.req /\ u.exposed = v.exposed /\ u.bound = r
    BY ZenonT(40), <1>1, <2>3 DEF Session
  <2>5. ASSUME NEW t \in u.screens, NEW o \in u.ops, o.req = t.req
        PROVE  /\ o.status # "Working"
               /\ o.status = "Ready" => ~t.ended /\ t.leaving
    BY <1>1, <2>4, <2>5 DEF Tidy
  <2>6. /\ \A x, y \in u.screens : x.req = y.req => x = y
        /\ u.req # 0 => \A t \in u.screens : t.req <= u.req
    BY <1>1, <2>4 DEF Tidy
  <2>7. u \in Neat
    BY <2>4, <2>5, <2>6 DEF Neat, Tidy
  <2>8. SetScreen(u, s.req, s) \in Neat
    <3>1. \A o \in u.ops : o.req = s.req =>
             /\ o.status # "Working"
             /\ o.status = "Ready" =>
                  /\ ~s.ended
                  /\ o.req = u.req /\ s.req = u.bound /\ u.exposed
      BY <2>2, <2>4
    <3>2. u.req # 0 => s.req <= u.req
      BY <2>2, <2>4
    <3>3. s \in Screen
      BY <2>2
    <3>4. QED
      BY ONLY <2>7, <3>1, <3>2, <3>3, SetScreenNeat
  <2>9. SetScreen(u, r, s) \in Neat
    BY <2>2, <2>8
  <2>10. QED
    BY ONLY <2>1, <2>3, <2>9
<1>4. ASSUME v.bound = 0
      PROVE  ReportPreparedRound(
               SetScreen([v EXCEPT !.bound = r], r,
                         [req |-> r, ended |-> FALSE, done |-> FALSE,
                          leaving |-> FALSE])) \in Neat
  BY <1>3, <1>4, NeatReports
<1>5. QED
  BY <1>2, <1>4 DEF ExposePrepared

\* The screen that waits for its start takes its runner along.
LEMMA ScreenRemovedNeat ==
    ASSUME NEW w \in Neat, Local(w), NEW s \in w.screens, NEW b \in Nat,
           b = IF w.bound = s.req THEN 0 ELSE w.bound
    PROVE  LET gone == [w EXCEPT !.screens = w.screens \ {s}, !.bound = b]
               u == IF OpsOf(w, s.req) = {}
                      THEN gone
                      ELSE ReleasePreparedGameplay(gone, s.req)
           IN  u \in Neat
<1>1. w \in Session /\ Tidy(w) /\ s \in Screen
  BY DEF Neat, Session
<1>2. PICK gone : gone = [w EXCEPT !.screens = w.screens \ {s}, !.bound = b]
  OBVIOUS
<1>3. /\ gone \in Session
      /\ gone.screens = w.screens \ {s} /\ gone.ops = w.ops
      /\ gone.req = w.req /\ gone.bound = b /\ gone.exposed = w.exposed
      /\ gone.prepared = w.prepared
  BY ZenonT(40), <1>1, <1>2 DEF Session
<1>4. \A t \in gone.screens : t \in w.screens /\ t.req # s.req
  BY <1>1, <1>3 DEF Tidy
<1>5. ASSUME NEW t \in gone.screens, NEW o \in gone.ops, o.req = t.req
      PROVE  /\ o.status # "Working"
             /\ o.status = "Ready" =>
                  /\ ~t.ended
                  /\ t.leaving \/ (/\ o.req = gone.req /\ t.req = gone.bound
                                   /\ gone.exposed)
  BY <1>1, <1>3, <1>4, <1>5 DEF Tidy
<1>6. /\ \A x, t \in gone.screens : x.req = t.req => x = t
      /\ gone.req # 0 => \A t \in gone.screens : t.req <= gone.req
  BY <1>1, <1>3 DEF Tidy
<1>7. gone \in Neat
  BY <1>3, <1>5, <1>6 DEF Neat, Tidy
<1>8. PICK c : c = [gone EXCEPT !.retained = 0, !.keptReq = 0]
  OBVIOUS
<1>9. c \in Neat
  <2>1. c \in Session /\ SameBoard(gone, c)
    BY ZenonT(40), <1>3, <1>8 DEF Session, SameBoard
  <2>2. QED
    BY <1>7, <2>1, SameNeat
<1>10. CancelOp(c, gone.keptReq) \in Neat
  <2>1. PICK u : u = CancelOp(c, gone.keptReq)
    OBVIOUS
  <2>2. c \in Session
    BY <1>9 DEF Neat
  <2>3. u \in Session
    BY <2>1, <2>2, CancelOpType
  <2>4. /\ u.screens = c.screens /\ u.ops \subseteq c.ops
        /\ u.req = c.req /\ u.bound = c.bound /\ u.exposed = c.exposed
    BY <2>1, <2>2 DEF CancelOp, Session
  <2>5. QED
    BY <1>9, <2>1, <2>3, <2>4, FewerNeat
<1>11. ASSUME w.prepared = s.req
       PROVE  [gone EXCEPT !.exposed = FALSE] \in Neat
  <2>1. PICK h : h = [gone EXCEPT !.exposed = FALSE]
    OBVIOUS
  <2>2. /\ h \in Session /\ h.screens = gone.screens /\ h.ops = gone.ops
        /\ h.req = gone.req
    BY ZenonT(40), <1>3, <2>1 DEF Session
  <2>3. w.req = s.req
    BY <1>1, <1>11 DEF Local, RequestWhole, Screen
  <2>4. ASSUME NEW t \in h.screens, NEW o \in h.ops, o.req = t.req
        PROVE  /\ o.status # "Working"
               /\ o.status = "Ready" => ~t.ended /\ t.leaving
    BY <1>3, <1>4, <1>5, <2>2, <2>3, <2>4
  <2>5. h \in Neat
    BY <1>6, <2>2, <2>4 DEF Neat, Tidy
  <2>6. QED
    BY <2>1, <2>5
<1>12. ASSUME w.prepared = s.req
       PROVE  /\ AbandonCurrentRound([gone EXCEPT !.exposed = FALSE]) \in Neat
              /\ CancelPreparedRound([gone EXCEPT !.exposed = FALSE], FALSE)
                   \in Neat
  BY <1>11, <1>12, NeatReports, NeatCancels
<1>13. ReleasePreparedGameplay(gone, s.req) \in Neat
  BY <1>3, <1>7, <1>8, <1>10, <1>12 DEF ReleasePreparedGameplay
<1>14. QED
  BY <1>2, <1>7, <1>13

LEMMA AnswerNeat ==
    ASSUME NEW w \in Neat, Local(w), NEW o \in w.ops, o.req = w.req,
           NEW n \in Nat, NEW ok \in BOOLEAN, NEW m \in Answer
    PROVE  /\ Send([CancelOp(w, o.req) EXCEPT !.req = 0, !.op = "None",
                                              !.probe = 0], m) \in Neat
           /\ Send([[CancelOp(w, o.req) EXCEPT !.req = 0, !.op = "None",
                       !.loadRound = 0, !.prepared = 0] EXCEPT
                       !.loadSent = TRUE], m) \in Neat
<1>1. w \in Session
  BY DEF Neat
<1>2. PICK gone : gone = CancelOp(w, o.req)
  OBVIOUS
<1>3. /\ gone \in Session /\ gone.screens = w.screens
      /\ gone.ops = {p \in w.ops : p.req # o.req}
  <2>1. gone \in Session
    BY <1>1, <1>2, CancelOpType
  <2>2. QED
    BY <1>1, <1>2, <2>1 DEF CancelOp, Session
<1>4. PICK a : a = [gone EXCEPT !.req = 0, !.op = "None", !.probe = 0]
  OBVIOUS
<1>5. PICK b : b = [gone EXCEPT !.req = 0, !.op = "None", !.loadRound = 0,
                                !.prepared = 0]
  OBVIOUS
<1>6. a \in Session /\ b \in Session
  BY <1>3, <1>4, <1>5, AnswerFields
<1>7. /\ a.screens = w.screens /\ a.ops = gone.ops /\ a.req = 0
      /\ b.screens = w.screens /\ b.ops = gone.ops /\ b.req = 0
  BY SMTT(30), <1>3, <1>4, <1>5 DEF Session
<1>8. a \in Neat /\ b \in Neat
  <2>1. gone.ops \subseteq w.ops /\ \A p \in gone.ops : p.req # w.req
    BY <1>3
  <2>2. QED
    BY <1>6, <1>7, <2>1, FewerNeat
<1>9. [b EXCEPT !.loadSent = TRUE] \in Neat
  BY <1>8, NeatFields
<1>10. Send(a, m) \in Neat /\ Send([b EXCEPT !.loadSent = TRUE], m) \in Neat
  BY <1>8, <1>9, NeatHelpers
<1>11. QED
  BY <1>2, <1>4, <1>5, <1>10

LEMMA PresentsNeat ==
    ASSUME NEW w \in Neat, Local(w), NEW s \in w.screens,
           OpsOf(w, s.req) # {}, ~NotStarted(w, s.req), NEW captured \in BOOLEAN
    PROVE  SubmitLocalResult(
             SetScreen(Finish(w, s.req), s.req,
                       [s EXCEPT !.ended = TRUE, !.done = TRUE]),
             s.req, captured) \in Neat
<1>1. w \in Session /\ Tidy(w) /\ s \in Screen /\ OpsWhole(w)
  BY DEF Neat, Session, Local
<1>2. \A o \in w.ops : o.req = s.req => o.status \notin {"Ready", "Working"}
  <2> TAKE o \in w.ops
  <2>1. Status(w, o.req) = o.status
    BY <1>1, StatusOf DEF OpsWhole
  <2>2. QED
    BY <2>1 DEF NotStarted
<1>3. PICK t : t = [s EXCEPT !.ended = TRUE, !.done = TRUE]
  OBVIOUS
<1>4. t \in Screen /\ t.req = s.req /\ s.req \in Nat
  BY <1>1, <1>3 DEF Screen
<1>5. PICK f : f = Finish(w, s.req)
  OBVIOUS
<1>6. f \in Neat
  BY <1>2, <1>5, FinishNeat
<1>7. PICK o \in w.ops : o.req = s.req
  BY DEF OpsOf
<1>8. /\ f.ops = (w.ops \ {o}) \cup {Renewed(o, "Finished", FALSE)}
      /\ f.req = w.req
  <2>1. PICK y : y = Finish(w, o.req)
    OBVIOUS
  <2>2. /\ y.ops = (w.ops \ {o}) \cup {Renewed(o, "Finished", FALSE)}
        /\ KeepsRequest(w, y)
    BY <1>1, <2>1, FinishDoes
  <2>3. y = f
    BY <1>5, <1>7, <2>1
  <2>4. QED
    BY <2>2, <2>3 DEF KeepsRequest
<1>9. /\ Renewed(o, "Finished", FALSE).req = s.req
      /\ Renewed(o, "Finished", FALSE).status = "Finished"
  <2>1. o \in Operation
    BY <1>1, OpTyped
  <2>2. PICK b \in BOOLEAN : b = FALSE
    OBVIOUS
  <2>3. PICK status \in OpStatus : status = "Finished"
    BY DEF OpStatus
  <2>4. /\ Renewed(o, status, b).req = o.req
        /\ Renewed(o, status, b).status = status
    BY <2>1, RenewedIs
  <2>5. QED
    BY <1>7, <2>2, <2>3, <2>4
<1>10. \A p \in f.ops : p.req = t.req => p.status = "Finished"
  BY <1>1, <1>4, <1>7, <1>8, <1>9 DEF OpsWhole
<1>11. f.req # 0 => t.req <= f.req
  BY <1>1, <1>4, <1>8 DEF Tidy
<1>12. PICK x : x = SetScreen(f, t.req, t)
  OBVIOUS
<1>13. x \in Neat
  <2>1. \A p \in f.ops : p.req = t.req =>
           /\ p.status # "Working"
           /\ p.status = "Ready" =>
                /\ ~t.ended
                /\ p.req = f.req /\ t.req = f.bound /\ f.exposed
    BY <1>10
  <2>2. SetScreen(f, t.req, t) \in Neat
    BY ONLY <1>4, <1>6, <1>11, <2>1, SetScreenNeat
  <2>3. QED
    BY <1>12, <2>2
<1>14. x \in Session /\ x.ops = f.ops
  BY <1>6, <1>12, <1>13 DEF Neat, Session, SetScreen
<1>15. OpsOf(x, s.req) # {}
  BY <1>8, <1>9, <1>14 DEF OpsOf
<1>16. PICK u : u = SubmitLocalResult(x, s.req, captured)
  OBVIOUS
<1>17. u \in Neat
  <2> DEFINE chart == (CHOOSE p \in OpsOf(x, s.req) : TRUE).round
             stopped == StopTelemetrySampling(x)
  <2>1. chart \in Nat
    BY <1>14, <1>15, ChosenOp DEF Operation
  <2> HIDE DEF chart
  <2>2. stopped \in Neat
    BY <1>13, NeatHelpers
  <2> HIDE DEF stopped
  <2>3. PICK kind \in {"Result", "Dnf"} : kind = "Result"
    OBVIOUS
  <2>4. SendTerminal(stopped, kind, chart) \in Neat
    <3>1. stopped \in Session
      BY <2>2 DEF Neat
    <3>2. SendTerminal(stopped, kind, chart) \in Session
      BY <2>1, <3>1, SendTerminalType
    <3>3. SameBoard(stopped, SendTerminal(stopped, kind, chart))
      BY <2>1, <3>1, SendTerminalBoard
    <3>4. QED
      BY <2>2, <3>2, <3>3, SameNeat
  <2>5. SendAbandon([stopped EXCEPT !.abandoned = TRUE]) \in Neat
    BY <2>2, NeatFields, NeatHelpers
  <2>6. /\ DetachGameplaySource(x, TRUE) \in Neat
        /\ DetachGameplaySource(SendTerminal(stopped, kind, chart), TRUE) \in Neat
        /\ DetachGameplaySource(SendAbandon([stopped EXCEPT !.abandoned = TRUE]),
                                TRUE) \in Neat
    BY <1>13, <2>4, <2>5, NeatHelpers
  <2>7. u \in {x, DetachGameplaySource(x, TRUE),
               DetachGameplaySource(SendTerminal(stopped, kind, chart), TRUE),
               DetachGameplaySource(SendAbandon([stopped EXCEPT !.abandoned = TRUE]),
                                    TRUE)}
    BY <1>16, <2>3 DEF SubmitLocalResult, stopped, chart
  <2>8. QED
    BY <1>13, <2>6, <2>7
<1>18. QED
  BY <1>3, <1>4, <1>5, <1>12, <1>16, <1>17

\* and so does every step of the loader, a runner, a screen or the player.
LEMMA PlayerNeat ==
    ASSUME client \in Neat, client.out = Silent, Local(client), PlayerNext
    PROVE  \E u \in Neat : Moves(u)
<1>1. client \in Session /\ Tidy(client) /\ OpsWhole(client)
  BY DEF Neat, Local
<1>2. PICK b \in BOOLEAN : b = FALSE
  OBVIOUS
<1>3. CASE ProbeDone
  <2>1. PICK o \in client.ops, ok \in BOOLEAN :
          /\ o.kind = "Probe"
          /\ LET gone == CancelOp(client, o.req)
             IN  Moves(IF client.req = o.req /\ client.op = "Probe"
                         THEN Send([gone EXCEPT !.req = 0, !.op = "None",
                                                !.probe = 0],
                                   [type |-> "ProbeResult",
                                    round |-> client.probe, ok |-> ok])
                         ELSE gone)
    BY <1>3 DEF ProbeDone
  <2>2. client.req = o.req /\ client.op = "Probe"
    BY <1>1, <2>1, ProbeDoneSound
  <2>3. PICK m : m = [type |-> "ProbeResult", round |-> client.probe, ok |-> ok]
    OBVIOUS
  <2>4. client.probe \in Nat
    BY SMTT(30), <1>1 DEF Session
  <2>5. m \in Answer
    BY <1>1, <2>3, <2>4, AnswerFields
  <2>6. Send([CancelOp(client, o.req) EXCEPT !.req = 0, !.op = "None",
                                             !.probe = 0], m) \in Neat
    BY <2>2, <2>5, AnswerNeat
  <2>7. QED
    BY <2>1, <2>2, <2>3, <2>6
<1>4. CASE LoadDone
  <2>1. PICK o \in client.ops, opens \in BOOLEAN :
          /\ o.kind = "Load" /\ o.status = "Working"
          /\ LET ready == SetOp(client, o.req, "Ready", FALSE)
             IN  Moves(IF /\ client.req = o.req
                          /\ client.op = "Load"
                          /\ client.loadRound # 0
                          /\ client.prepared = 0
                         THEN ExposePrepared([ready EXCEPT !.prepared = o.req,
                                                           !.exposed = TRUE],
                                             o.req, opens)
                         ELSE ready)
    BY <1>4 DEF LoadDone
  <2>2. PICK v : v = [SetOp(client, o.req, "Ready", FALSE) EXCEPT
                        !.prepared = o.req, !.exposed = TRUE]
    OBVIOUS
  <2>3. /\ client.req = o.req /\ client.op = "Load" /\ client.loadRound # 0
        /\ client.prepared = 0
    BY <1>1, <2>1, WorkingIsCurrent DEF WholeRound, NoRound, Local, RoundWhole
  <2>4. Moves(ExposePrepared(v, o.req, opens))
    BY <2>1, <2>2, <2>3
  <2>5. /\ v \in Neat /\ v.req = o.req /\ v.exposed
        /\ \A p \in v.ops : p.req = o.req => p.status = "Ready"
        /\ \A s \in v.screens : s.req # o.req
    BY <2>1, <2>2, <2>3, LoadedNeat
  <2>6. o.req \in Nat \ {0}
    BY <1>1, OpTyped
  <2>7. ExposePrepared(v, o.req, opens) \in Neat
    BY ONLY <2>5, <2>6, opens \in BOOLEAN, ExposeNeat
  <2>8. QED
    BY <2>4, <2>7
<1>5. CASE LoadFails
  <2>1. PICK o \in client.ops :
          /\ o.kind = "Load" /\ o.status = "Working"
          /\ LET gone == CancelOp(client, o.req)
             IN  Moves(IF /\ client.req = o.req
                          /\ client.op = "Load"
                          /\ client.loadRound # 0
                         THEN LET failed == [gone EXCEPT !.req = 0, !.op = "None",
                                               !.loadRound = 0, !.prepared = 0]
                              IN  IF client.round.mine
                                    THEN Send([failed EXCEPT !.loadSent = TRUE],
                                              [type |-> "LoadResult", ok |-> FALSE,
                                               round |-> client.loadRound])
                                    ELSE failed
                         ELSE gone)
    BY <1>5 DEF LoadFails
  <2>2. /\ client.req = o.req /\ client.op = "Load" /\ client.loadRound # 0
        /\ client.round.mine
    BY <1>1, <2>1, LoadFailsSound
  <2>3. PICK m : m = [type |-> "LoadResult", ok |-> FALSE,
                      round |-> client.loadRound]
    OBVIOUS
  <2>4. client.loadRound \in Nat
    BY SMTT(30), <1>1 DEF Session
  <2>5. m \in Answer
    <3>1. [type |-> "LoadResult", ok |-> b, round |-> client.loadRound] \in Answer
      BY <1>1, <2>4, AnswerFields
    <3>2. QED
      BY <1>2, <2>3, <3>1
  <2>6. Send([[CancelOp(client, o.req) EXCEPT !.req = 0, !.op = "None",
                !.loadRound = 0, !.prepared = 0] EXCEPT !.loadSent = TRUE], m)
          \in Neat
    BY <2>2, <2>5, AnswerNeat
  <2>7. QED
    BY <2>1, <2>2, <2>3, <2>6
<1>6. CASE ScreenStarts
  <2>1. PICK s \in client.screens :
          /\ Status(client, s.req) = "Ready"
          /\ LET asked == SetOp(client, s.req, "Ready", TRUE)
             IN  Moves(IF client.prepared = s.req
                         THEN ReportPreparedRound(asked) ELSE asked)
    BY <1>6 DEF ScreenStarts
  <2>2. PICK status \in OpStatus \ {"Working"} : status = "Ready"
    BY DEF OpStatus
  <2>3. PICK yes \in BOOLEAN : yes = TRUE
    OBVIOUS
  <2>4. PICK v : v = SetOp(client, s.req, status, yes)
    OBVIOUS
  <2>5. \A o \in client.ops : o.req = s.req => o.status = "Ready"
    <3> TAKE o \in client.ops
    <3>1. Status(client, o.req) = o.status
      BY <1>1, StatusOf DEF OpsWhole
    <3>2. QED
      BY <2>1, <3>1
  <2>6. v \in Neat
    BY <2>4, <2>5, SetOpNeat
  <2>7. ReportPreparedRound(v) \in Neat
    BY <2>6, NeatReports
  <2>8. Moves(v) \/ Moves(ReportPreparedRound(v))
    BY <2>1, <2>2, <2>3, <2>4
  <2>9. QED
    BY <2>6, <2>7, <2>8
<1>7. CASE StartTaskFires
  <2> DEFINE fired == [client EXCEPT !.start = NoTask]
  <2>1. client.start # NoTask
    BY <1>7 DEF StartTaskFires
  <2>2. PICK status \in OpStatus \ {"Working"} : status = "Running"
    BY DEF OpStatus
  <2>3. PICK v : v = SetOp(fired, client.start.runner, status, b)
    OBVIOUS
  <2>4. fired \in Neat
    BY NeatFields
  <2> HIDE DEF fired
  <2>5. v \in Neat
    BY <2>2, <2>3, <2>4, SetOpNeat
  <2>6. [StartTelemetrySampling(v) EXCEPT !.announced = TRUE] \in Neat
    BY <2>5, NeatHelpers, NeatFields
  <2>7. \/ Moves(fired)
        \/ Moves([StartTelemetrySampling(v) EXCEPT !.announced = TRUE])
    BY <1>2, <1>7, <2>2, <2>3 DEF StartTaskFires, fired
  <2>8. QED
    BY <2>4, <2>6, <2>7
<1>8. CASE RunnerEnds
  <2>1. PICK o \in client.ops : /\ o.status = "Running"
                                /\ Moves(Finish(client, o.req))
    BY <1>8 DEF RunnerEnds
  <2>2. \A p \in client.ops : p.req = o.req => p.status # "Ready"
    BY <1>1, <2>1 DEF OpsWhole
  <2>3. Finish(client, o.req) \in Neat
    BY <2>2, FinishNeat
  <2>4. QED
    BY <2>1, <2>3
<1>9. CASE ScreenPresentsResult
  <2>1. PICK s \in client.screens, captured \in BOOLEAN :
          /\ OpsOf(client, s.req) # {}
          /\ ~NotStarted(client, s.req)
          /\ LET ended == Finish(client, s.req)
             IN  Moves(SubmitLocalResult(
                         SetScreen(ended, s.req,
                                   [s EXCEPT !.ended = TRUE, !.done = TRUE]),
                         s.req, captured))
    BY <1>9 DEF ScreenPresentsResult
  <2>2. SubmitLocalResult(
          SetScreen(Finish(client, s.req), s.req,
                    [s EXCEPT !.ended = TRUE, !.done = TRUE]),
          s.req, captured) \in Neat
    BY <2>1, PresentsNeat
  <2>3. QED
    BY <2>1, <2>2
<1>10. CASE PlayerAbandons
  BY <1>10, NeatReports DEF PlayerAbandons
<1>11. CASE ScreenRemoved
  <2>1. PICK s \in client.screens :
          LET gone == [client EXCEPT !.screens = @ \ {s},
                         !.bound = IF @ = s.req THEN 0 ELSE @]
          IN  Moves(IF OpsOf(client, s.req) = {}
                      THEN gone
                      ELSE ReleasePreparedGameplay(gone, s.req))
    BY <1>11 DEF ScreenRemoved
  <2>2. PICK n : n = IF client.bound = s.req THEN 0 ELSE client.bound
    OBVIOUS
  <2>3. n \in Nat
    BY SMTT(30), <1>1, <2>2 DEF Session
  <2>4. PICK gone : gone = [client EXCEPT !.screens = client.screens \ {s},
                                          !.bound = n]
    OBVIOUS
  <2>5. PICK u : u = IF OpsOf(client, s.req) = {}
                       THEN gone ELSE ReleasePreparedGameplay(gone, s.req)
    OBVIOUS
  <2>6. u \in Neat
    BY <2>2, <2>3, <2>4, <2>5, ScreenRemovedNeat
  <2>7. Moves(u)
    BY <2>1, <2>2, <2>4, <2>5
  <2>8. QED
    BY <2>6, <2>7
<1>12. QED
  BY <1>3, <1>4, <1>5, <1>6, <1>7, <1>8, <1>9, <1>10, <1>11 DEF PlayerNext

=============================================================================
