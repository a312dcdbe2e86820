--------------------------- MODULE ArenaConnection ---------------------------
(***************************************************************************)
(* The connection life cycle of arena::ArenaSession: anonymous browsing of *)
(* the room directory, authenticated admission to a room, loss of the link *)
(* while seated and the bounded attempt to resume the seat.                *)
(*                                                                         *)
(* The members of ArenaSession that take part are the fields of the record *)
(* variable session.  Every private helper of the class is an operator     *)
(* that maps a session to the session it leaves behind, so that a handler  *)
(* is written, as in the code, as the composition of the helpers it calls. *)
(* A handler runs to completion on the GUI thread: it is one step.         *)
(*                                                                         *)
(* Clock readings are abstracted to countdowns: a timer holds the number   *)
(* of ticks left, and it may fire any time after they have elapsed (a      *)
(* QTimer is never early and may be late).                                 *)
(***************************************************************************)
EXTENDS Integers, FiniteSets

CONSTANTS
    Profiles,         \* user profiles that can be the active one
    Nobody,           \* no profile: no ticket, no seat, nothing sent
    Anonymous,        \* the sender of a hello that carries no ticket
    ReconnectGrace,   \* ReconnectGraceMs, in ticks
    AttemptTimeout,   \* AttemptTimeoutMs, in ticks
    InitialBackoff,   \* InitialBackoffMs, in ticks
    MaximumBackoff,   \* MaximumBackoffMs, in ticks
    MaxDisruptions,   \* bound: commands, faults and identity changes in a run
    MaxGenerations    \* bound: sockets after which browsing stops retrying

ASSUME ProfilesAssumption ==
    /\ Nobody \notin Profiles
    /\ Anonymous \notin Profiles
    /\ Nobody # Anonymous

ASSUME DelayAssumption ==
    /\ ReconnectGrace \in Nat \ {0}
    /\ AttemptTimeout \in Nat \ {0}
    /\ InitialBackoff \in Nat \ {0}
    /\ MaximumBackoff \in Nat \ {0}
    /\ InitialBackoff <= MaximumBackoff

ASSUME BoundAssumption == MaxDisruptions \in Nat /\ MaxGenerations \in Nat

VARIABLES
    session,      \* the members of ArenaSession
    identity,     \* the active profile and whether it is logged in
    tickets,      \* ticket requests the identity provider has still to answer
    disruptions   \* what is left of MaxDisruptions

vars == <<session, identity, tickets, disruptions>>

-----------------------------------------------------------------------------
(* Types.                                                                  *)

State == {"Disconnected", "Browsing", "ConnectingAuthenticated", "InRoom",
          "Reconnecting", "Error"}

HandshakeKind == {"None", "AnonymousBrowse", "AuthenticatedAdmission",
                  "Resume"}

\* m_pendingAdmission with m_pendingAdmissionRequestId: a create or join the
\* user asked for, and whether it is already on the wire.
AdmissionState == {"none", "wanted", "sent"}

CommandKind == {"admission", "leave"}

ReconnectTasks == {"grace", "attempt", "retry"}

BrowseTasks == {"browseAttempt", "browseRetry"}

TaskNames == ReconnectTasks \cup BrowseTasks

\* A timer of the scheduler with what its callback captured.
Task == [armed : BOOLEAN, left : Nat, life : Nat, gen : Nat]

Off == [armed |-> FALSE, left |-> 0, life |-> 0, gen |-> 0]

NoGeneration == 0

NoTicket == 0

NoDeadline == -1

Session ==
    [active         : BOOLEAN,
     state          : State,
     authenticated  : BOOLEAN,
     loginRequired  : BOOLEAN,
     directoryReady : BOOLEAN,
     competition    : BOOLEAN,
     admission      : AdmissionState,
     seat           : Profiles \cup {Nobody},
     gen            : Nat,
     nextGen        : Nat \ {0},
     handshake      : HandshakeKind,
     greeting       : Profiles \cup {Nobody, Anonymous},
     ready          : BOOLEAN,
     life           : Nat,
     ticketReq      : Nat,
     nextTicket     : Nat \ {0},
     ticket         : Profiles \cup {Nobody},
     commands       : SUBSET [kind : CommandKind, life : Nat],
     tasks          : [TaskNames -> Task],
     deadline       : Nat \cup {NoDeadline},
     backoff        : Nat \ {0},
     browseBackoff  : Nat \ {0},
     fallback       : BOOLEAN,
     legacyOnly     : BOOLEAN,
     lastLoggedIn   : BOOLEAN]

\* Requests ProfileArenaIdentityProvider answers later; a refused one was made
\* while nobody was logged in and its failure is already queued.
Ticket == [req : Nat \ {0}, profile : Profiles, refused : BOOLEAN]

TypeOK ==
    /\ session \in Session
    /\ identity \in [profile : Profiles, loggedIn : BOOLEAN]
    /\ tickets \in SUBSET Ticket
    /\ disruptions \in 0..MaxDisruptions

-----------------------------------------------------------------------------
(* Helpers of ArenaSession, in the order of the source.                    *)

MinOf(a, b) == IF a <= b THEN a ELSE b

Cancel(s, names) ==
    [s EXCEPT !.tasks =
        [t \in TaskNames |-> IF t \in names THEN Off ELSE s.tasks[t]]]

ScheduleOnce(s, name, delay) ==
    [s EXCEPT !.tasks[name] = [armed |-> TRUE, left |-> delay,
                               life |-> s.life, gen |-> s.gen]]

HasRoom(s) == s.seat # Nobody

ClearPendingAdmission(s) ==
    [s EXCEPT !.admission = "none", !.loginRequired = FALSE]

InvalidateTransport(s) ==
    [s EXCEPT !.gen = NoGeneration, !.greeting = Nobody, !.ready = FALSE,
              !.handshake = "None", !.competition = FALSE]

StartTransport(s, kind) ==
    [InvalidateTransport(s) EXCEPT !.handshake = kind,
                                   !.directoryReady = FALSE,
                                   !.gen = s.nextGen,
                                   !.nextGen = s.nextGen + 1]

CancelReconnectTasks(s) ==
    [Cancel(s, ReconnectTasks) EXCEPT !.deadline = NoDeadline]

IsAnonymousBrowsing(s) ==
    /\ s.active
    /\ ~s.authenticated
    /\ s.admission = "none"
    /\ ~HasRoom(s)
    /\ s.state \in {"Disconnected", "Browsing"}

StartAnonymousBrowseAttempt(s) ==
    IF IsAnonymousBrowsing(s)
    THEN ScheduleOnce(StartTransport(Cancel(s, BrowseTasks), "AnonymousBrowse"),
                      "browseAttempt", AttemptTimeout)
    ELSE s

OpenAnonymousBrowsing(s) ==
    IF s.active
    THEN StartAnonymousBrowseAttempt(
            [Cancel(s, BrowseTasks) EXCEPT !.browseBackoff = InitialBackoff,
                                           !.authenticated = FALSE,
                                           !.state = "Disconnected"])
    ELSE s

ScheduleAnonymousBrowseRetry(s) ==
    LET quiet == [InvalidateTransport(Cancel(s, {"browseAttempt"}))
                    EXCEPT !.directoryReady = FALSE,
                           !.authenticated = FALSE,
                           !.state = "Disconnected"]
    IN  IF ~IsAnonymousBrowsing(s) THEN s
        ELSE IF s.tasks["browseRetry"].armed THEN quiet
        ELSE ScheduleOnce(
                [quiet EXCEPT !.browseBackoff =
                                  MinOf(MaximumBackoff, 2 * s.browseBackoff)],
                "browseRetry", s.browseBackoff)

\* clearRoom drops the seat, its resume token and every pending command.
ClearRoom(s) == [s EXCEPT !.seat = Nobody, !.commands = {}]

InvalidateAsyncWork(s) ==
    [CancelReconnectTasks(Cancel(s, BrowseTasks))
        EXCEPT !.life = s.life + 1, !.ticketReq = NoTicket,
               !.ticket = Nobody, !.commands = {}]

RestoreAnonymousAfterAdmissionFailure(s) ==
    OpenAnonymousBrowsing(
        ClearRoom(InvalidateTransport(
            ClearPendingAdmission(InvalidateAsyncWork(s)))))

FailProtocol(s) ==
    [ClearRoom(InvalidateTransport(ClearPendingAdmission(
        CancelReconnectTasks(Cancel(s, BrowseTasks)))))
        EXCEPT !.ticketReq = NoTicket, !.ticket = Nobody,
               !.authenticated = FALSE, !.state = "Error"]

RequestTicket(s) ==
    [s EXCEPT !.ticketReq = s.nextTicket, !.nextTicket = s.nextTicket + 1]

BeginAuthenticatedAdmission(s, loggedIn) ==
    IF s.active /\ s.admission # "none" /\ loggedIn
    THEN RequestTicket(InvalidateTransport(
            [Cancel(s, BrowseTasks) EXCEPT !.loginRequired = FALSE,
                                           !.authenticated = FALSE,
                                           !.state = "ConnectingAuthenticated"]))
    ELSE s

SendPendingAdmission(s) ==
    IF s.ready /\ s.authenticated /\ s.admission = "wanted" /\ s.competition
    THEN [s EXCEPT !.admission = "sent",
                   !.commands = @ \cup {[kind |-> "admission", life |-> s.life]}]
    ELSE s

\* A snapshot accepted as an admission or a resumed seat: the seat is held
\* under the identity whose ticket opened the current socket.
ApplyRoomSnapshot(s) ==
    [ClearPendingAdmission(CancelReconnectTasks(s))
        EXCEPT !.commands = {}, !.seat = s.greeting,
               !.authenticated = TRUE, !.state = "InRoom"]

ReturnToAuthenticatedBrowser(s) ==
    [ClearPendingAdmission(ClearRoom(s)) EXCEPT !.state = "Browsing"]

-----------------------------------------------------------------------------
(* Reconnecting.                                                           *)

ResumeDeadlineReached(s) == s.state = "Reconnecting" /\ s.deadline = 0

\* Fault: the lifecycle moves on after browsing has been reopened.
FailResumeAtDeadlineLateBump(s) ==
    IF s.active
    THEN LET browsing == OpenAnonymousBrowsing(
                [ClearRoom(ClearPendingAdmission(InvalidateTransport(
                    CancelReconnectTasks(s))))
                    EXCEPT !.ticketReq = NoTicket, !.ticket = Nobody,
                           !.authenticated = FALSE])
         IN  [browsing EXCEPT !.life = s.life + 1]
    ELSE s

FailResumeAtDeadline(s) ==
    IF s.active
    THEN OpenAnonymousBrowsing(
            [ClearRoom(ClearPendingAdmission(InvalidateTransport(
                CancelReconnectTasks(s))))
                EXCEPT !.life = s.life + 1, !.ticketReq = NoTicket,
                       !.ticket = Nobody, !.authenticated = FALSE])
    ELSE s

StartResumeAttempt(s) ==
    IF ~s.active \/ s.state # "Reconnecting" THEN s
    ELSE IF s.deadline <= 0 THEN FailResumeAtDeadline(s)
    ELSE RequestTicket(ScheduleOnce(
            InvalidateTransport(Cancel(s, {"retry", "attempt"})),
            "attempt", MinOf(AttemptTimeout, s.deadline)))

ScheduleReconnect(s) ==
    LET quiet == [InvalidateTransport(Cancel(s, {"attempt"}))
                    EXCEPT !.ticketReq = NoTicket, !.ticket = Nobody]
    IN  IF ~s.active \/ s.state # "Reconnecting" THEN s
        ELSE IF s.tasks["retry"].armed THEN quiet
        ELSE IF s.deadline <= 0 THEN FailResumeAtDeadline(quiet)
        ELSE IF s.backoff >= s.deadline THEN quiet
        ELSE ScheduleOnce(
                [quiet EXCEPT !.backoff = MinOf(MaximumBackoff, 2 * s.backoff)],
                "retry", s.backoff)

\* Fault: the grace timer captures the lifecycle that is just ending.
BeginReconnectStaleGrace(s) ==
    LET armed == ScheduleOnce(CancelReconnectTasks(s), "grace", ReconnectGrace)
    IN  IF s.active /\ HasRoom(s)
        THEN StartResumeAttempt(
                [InvalidateTransport(ClearPendingAdmission(armed))
                    EXCEPT !.life = s.life + 1, !.ticketReq = NoTicket,
                           !.ticket = Nobody, !.commands = {},
                           !.authenticated = FALSE, !.state = "Reconnecting",
                           !.backoff = InitialBackoff,
                           !.deadline = ReconnectGrace])
        ELSE s

BeginReconnect(s) ==
    IF s.active /\ HasRoom(s)
    THEN StartResumeAttempt(ScheduleOnce(
            [InvalidateTransport(ClearPendingAdmission(CancelReconnectTasks(s)))
                EXCEPT !.life = s.life + 1, !.ticketReq = NoTicket,
                       !.ticket = Nobody, !.commands = {},
                       !.authenticated = FALSE, !.state = "Reconnecting",
                       !.backoff = InitialBackoff, !.deadline = ReconnectGrace],
            "grace", ReconnectGrace))
    ELSE s

\* Fault: nothing is cleaned up while no connection is ready.
CleanupForIdentityChangeIfReady(s) ==
    IF ~s.active \/ ~s.ready THEN s
    ELSE OpenAnonymousBrowsing(InvalidateTransport(
            [ClearRoom(ClearPendingAdmission(InvalidateAsyncWork(s)))
                EXCEPT !.authenticated = FALSE]))

CleanupForIdentityChange(s) ==
    LET keepAnonymous == /\ s.state = "Browsing"
                         /\ ~s.authenticated
                         /\ ~HasRoom(s)
                         /\ s.ready
                         /\ s.directoryReady
        released == [ClearRoom(ClearPendingAdmission(InvalidateAsyncWork(s)))
                        EXCEPT !.authenticated = FALSE]
    IN  IF ~s.active THEN s
        ELSE IF keepAnonymous THEN released
        ELSE OpenAnonymousBrowsing(InvalidateTransport(released))

-----------------------------------------------------------------------------
(* Handlers of the transport.                                              *)

Connected(s, g) ==
    IF ~s.active \/ g # s.gen THEN s
    ELSE IF s.handshake = "Resume" /\ ResumeDeadlineReached(s)
    THEN FailResumeAtDeadline(s)
    ELSE IF s.handshake \in {"AuthenticatedAdmission", "Resume"}
            /\ s.ticket = Nobody
    THEN FailProtocol(s)
    ELSE IF s.handshake = "Resume" /\ ~HasRoom(s)
    THEN FailResumeAtDeadline(s)
    ELSE [s EXCEPT !.greeting = IF s.handshake = "AnonymousBrowse"
                                THEN Anonymous ELSE s.ticket,
                   !.ticket = Nobody]

\* Fault: an answer to a resume counts however late it is.
ServerHelloAnyTime(s, competition, resumed) ==
    LET offered == [s EXCEPT !.competition = competition]
        open == [Cancel(offered, {"attempt"}) EXCEPT !.ready = TRUE,
                                                     !.handshake = "None"]
        browsing == [open EXCEPT !.authenticated = TRUE,
                                 !.loginRequired = FALSE,
                                 !.state = "Browsing"]
    IN  CASE s.handshake = "None" -> FailProtocol(s)
          [] s.handshake = "AnonymousBrowse" ->
                [open EXCEPT !.fallback = FALSE, !.authenticated = FALSE,
                             !.state = "Browsing"]
          [] s.handshake = "AuthenticatedAdmission" ->
                IF competition THEN SendPendingAdmission(browsing)
                ELSE ClearPendingAdmission(browsing)
          [] s.handshake = "Resume" ->
                IF competition /\ resumed THEN ApplyRoomSnapshot(open)
                ELSE [ClearRoom(CancelReconnectTasks(open))
                        EXCEPT !.authenticated = TRUE, !.state = "Browsing"]

\* competition: the capability is offered; resumed: the seat was kept.
ServerHello(s, competition, resumed) ==
    LET offered == [s EXCEPT !.competition = competition]
        open == [Cancel(offered, {"attempt"}) EXCEPT !.ready = TRUE,
                                                     !.handshake = "None"]
        browsing == [open EXCEPT !.authenticated = TRUE,
                                 !.loginRequired = FALSE,
                                 !.state = "Browsing"]
    IN  CASE s.ready \/ s.handshake = "None" -> FailProtocol(s)
          [] ~s.ready /\ s.handshake = "AnonymousBrowse" ->
                [open EXCEPT !.fallback = FALSE, !.authenticated = FALSE,
                             !.state = "Browsing"]
          [] ~s.ready /\ s.handshake = "AuthenticatedAdmission" ->
                IF competition THEN SendPendingAdmission(browsing)
                ELSE ClearPendingAdmission(browsing)
          [] ~s.ready /\ s.handshake = "Resume" ->
                IF ResumeDeadlineReached(s) THEN FailResumeAtDeadline(offered)
                ELSE IF competition /\ resumed THEN ApplyRoomSnapshot(open)
                ELSE [ClearRoom(CancelReconnectTasks(open))
                        EXCEPT !.authenticated = TRUE, !.state = "Browsing"]

\* FatalError ProtocolIncompatible: an old server gets one more, plainer hello.
Incompatible(s) ==
    IF ~s.ready /\ s.handshake = "AnonymousBrowse" /\ s.fallback /\ ~s.legacyOnly
    THEN StartAnonymousBrowseAttempt([s EXCEPT !.fallback = FALSE,
                                               !.legacyOnly = TRUE])
    ELSE FailProtocol(s)

DirectorySnapshot(s) ==
    IF s.ready
    THEN [Cancel(s, BrowseTasks) EXCEPT !.browseBackoff = InitialBackoff,
                                        !.directoryReady = TRUE]
    ELSE FailProtocol(s)

\* Fault: any room snapshot is taken for the answer to an admission.
RoomSnapshotEventUnsolicited(s) == ApplyRoomSnapshot(s)

RoomSnapshotEvent(s) ==
    IF s.admission = "sent"
       /\ [kind |-> "admission", life |-> s.life] \in s.commands
    THEN ApplyRoomSnapshot(s)
    ELSE s

\* stale: RoomGenerationStale or ConnectionGenerationStale.
CommandError(s, c, stale) ==
    LET answered == [s EXCEPT !.commands = @ \ {c}]
        settled == IF c.kind = "admission"
                   THEN [ClearPendingAdmission(answered)
                            EXCEPT !.state = "Browsing"]
                   ELSE answered
    IN  IF c.life # s.life THEN s
        ELSE IF stale /\ HasRoom(s) THEN BeginReconnect(settled)
        ELSE settled

ServerGoingAway(s) ==
    [ClearRoom(ClearPendingAdmission(InvalidateTransport(
        CancelReconnectTasks(Cancel(s, BrowseTasks)))))
        EXCEPT !.authenticated = FALSE, !.state = "Error"]

LinkLost(s, otherwise) ==
    IF s.state = "InRoom" THEN BeginReconnect(s)
    ELSE IF s.state = "Reconnecting" THEN ScheduleReconnect(s)
    ELSE IF s.state = "ConnectingAuthenticated" \/ s.admission # "none"
    THEN RestoreAnonymousAfterAdmissionFailure(s)
    ELSE IF IsAnonymousBrowsing(s) THEN ScheduleAnonymousBrowseRetry(s)
    ELSE [ClearPendingAdmission(otherwise) EXCEPT !.authenticated = FALSE,
                                                  !.state = "Error"]

Disconnected(s, g) ==
    LET dropped == [s EXCEPT !.gen = NoGeneration, !.greeting = Nobody,
                             !.ready = FALSE, !.handshake = "None"]
    IN  IF ~s.active \/ g # s.gen THEN s ELSE LinkLost(dropped, dropped)

TransportError(s, g) ==
    IF ~s.active \/ g # s.gen THEN s
    ELSE LinkLost(s, InvalidateTransport(s))

-----------------------------------------------------------------------------
(* Handlers of the identity provider.                                      *)

TicketReady(s, req, profile) ==
    LET taken == [s EXCEPT !.ticketReq = NoTicket]
        held == [taken EXCEPT !.ticket = profile]
    IN  IF ~s.active \/ req # s.ticketReq THEN s
        ELSE IF ResumeDeadlineReached(s) THEN FailResumeAtDeadline(taken)
        ELSE IF s.state = "ConnectingAuthenticated"
        THEN StartTransport(held, "AuthenticatedAdmission")
        ELSE IF s.state = "Reconnecting" THEN StartTransport(held, "Resume")
        ELSE [taken EXCEPT !.ticket = Nobody]

\* network: TicketFailure::Network, the only failure worth another attempt.
TicketFailed(s, req, network) ==
    LET taken == [s EXCEPT !.ticketReq = NoTicket, !.ticket = Nobody]
        unseated == IF s.state = "Reconnecting"
                    THEN ClearRoom(CancelReconnectTasks(taken)) ELSE taken
    IN  IF ~s.active \/ req # s.ticketReq THEN s
        ELSE IF ResumeDeadlineReached(s) THEN FailResumeAtDeadline(taken)
        ELSE IF s.state = "Reconnecting" /\ network THEN ScheduleReconnect(taken)
        ELSE OpenAnonymousBrowsing(ClearPendingAdmission(unseated))

ActiveProfileChanged(s, loggedIn) ==
    CleanupForIdentityChange([s EXCEPT !.lastLoggedIn = loggedIn])

LoginStateChanged(s, loggedIn) ==
    LET t == [s EXCEPT !.lastLoggedIn = loggedIn]
    IN  IF ~s.active THEN t
        ELSE IF ~s.lastLoggedIn /\ loggedIn /\ s.admission # "none"
        THEN BeginAuthenticatedAdmission(t, loggedIn)
        ELSE IF s.lastLoggedIn /\ ~loggedIn THEN CleanupForIdentityChange(t)
        ELSE t

-----------------------------------------------------------------------------
(* Commands of the user.                                                   *)

ConnectForBrowsing(s) ==
    IF s.active THEN s
    ELSE OpenAnonymousBrowsing([s EXCEPT !.active = TRUE, !.fallback = TRUE,
                                         !.legacyOnly = FALSE])

\* createRoom and joinRoom differ in the admission they send only.
JoinRoom(s, loggedIn) ==
    LET wanted == [ClearPendingAdmission(s) EXCEPT !.admission = "wanted"]
    IN  IF ~s.active \/ s.state # "Browsing" \/ ~s.competition
           \/ s.admission = "sent"
        THEN s
        ELSE IF ~loggedIn THEN [wanted EXCEPT !.loginRequired = TRUE]
        ELSE IF s.authenticated /\ s.ready THEN SendPendingAdmission(wanted)
        ELSE BeginAuthenticatedAdmission(wanted, loggedIn)

LeaveRoom(s) ==
    IF s.state = "Reconnecting"
    THEN OpenAnonymousBrowsing(ClearRoom(InvalidateTransport(
            [CancelReconnectTasks(s) EXCEPT !.life = s.life + 1,
                                            !.ticketReq = NoTicket])))
    ELSE IF s.state = "InRoom" /\ s.ready
    THEN [s EXCEPT !.commands = @ \cup {[kind |-> "leave", life |-> s.life]}]
    ELSE s

Retry(s) ==
    IF ~s.active THEN s
    ELSE IF s.state = "Reconnecting" THEN StartResumeAttempt(Cancel(s, {"retry"}))
    ELSE IF s.state = "Error" THEN OpenAnonymousBrowsing(InvalidateTransport(s))
    ELSE s

ExitArena(s) ==
    IF ~s.active THEN s
    ELSE [ClearRoom(InvalidateTransport(ClearPendingAdmission(
            InvalidateAsyncWork(s))))
            EXCEPT !.fallback = FALSE, !.legacyOnly = FALSE,
                   !.directoryReady = FALSE, !.authenticated = FALSE,
                   !.active = FALSE, !.state = "Disconnected"]

-----------------------------------------------------------------------------
(* Callbacks of the scheduler.                                             *)

TimerFired(s, name) ==
    LET fired == Cancel(s, {name})
        task == s.tasks[name]
        current == s.active /\ task.life = s.life
    IN  CASE name = "grace" ->
                IF current /\ s.state = "Reconnecting"
                THEN FailResumeAtDeadline(fired) ELSE fired
          [] name = "attempt" ->
                IF current /\ s.state = "Reconnecting"
                THEN ScheduleReconnect(fired) ELSE fired
          [] name = "retry" ->
                IF current /\ s.state = "Reconnecting"
                THEN StartResumeAttempt(fired) ELSE fired
          [] name = "browseAttempt" ->
                IF task.life = s.life /\ task.gen = s.gen
                   /\ IsAnonymousBrowsing(s) /\ ~s.directoryReady
                THEN ScheduleAnonymousBrowseRetry(fired) ELSE fired
          [] name = "browseRetry" ->
                IF task.life = s.life /\ IsAnonymousBrowsing(s)
                THEN StartAnonymousBrowseAttempt(fired) ELSE fired

-----------------------------------------------------------------------------
(* The specification.                                                      *)

Init ==
    /\ identity \in [profile : Profiles, loggedIn : BOOLEAN]
    /\ session = [active |-> FALSE, state |-> "Disconnected",
                  authenticated |-> FALSE, loginRequired |-> FALSE,
                  directoryReady |-> FALSE, competition |-> FALSE,
                  admission |-> "none", seat |-> Nobody,
                  gen |-> NoGeneration, nextGen |-> 1, handshake |-> "None",
                  greeting |-> Nobody, ready |-> FALSE, life |-> 1,
                  ticketReq |-> NoTicket, nextTicket |-> 1, ticket |-> Nobody,
                  commands |-> {}, tasks |-> [t \in TaskNames |-> Off],
                  deadline |-> NoDeadline, backoff |-> InitialBackoff,
                  browseBackoff |-> InitialBackoff, fallback |-> FALSE,
                  legacyOnly |-> FALSE, lastLoggedIn |-> identity.loggedIn]
    /\ tickets = {}
    /\ disruptions = MaxDisruptions

\* ProfileArenaIdentityProvider::requestTicket, reached when a handler drew a
\* new request id: one operation at a time, the older one is cancelled.
Requested(pool, after, who) ==
    LET new == [req |-> session.nextTicket, profile |-> who.profile,
                refused |-> ~who.loggedIn]
    IN  IF after.nextTicket = session.nextTicket THEN pool
        ELSE IF who.loggedIn THEN {t \in pool : t.refused} \cup {new}
        ELSE pool \cup {new}

Becomes(after) ==
    /\ session' = after
    /\ tickets' = Requested(tickets, after, identity)
    /\ identity' = identity

Free == disruptions' = disruptions

Disrupt == disruptions > 0 /\ disruptions' = disruptions - 1

\* Events carry the generation of the socket they come from, open or retired.
Generations == 1..(session.nextGen - 1)

UserConnects == ~session.active /\ Becomes(ConnectForBrowsing(session)) /\ Disrupt

UserJoins ==
    /\ session.state = "Browsing"
    /\ Becomes(JoinRoom(session, identity.loggedIn))
    /\ Disrupt

UserLeaves ==
    /\ session.state \in {"InRoom", "Reconnecting"}
    /\ Becomes(LeaveRoom(session))
    /\ Disrupt

UserRetries ==
    /\ session.state \in {"Reconnecting", "Error"}
    /\ Becomes(Retry(session))
    /\ Disrupt

UserExits == session.active /\ Becomes(ExitArena(session)) /\ Disrupt

\* The server answers a hello it has received.
HelloArrives ==
    /\ session.greeting # Nobody
    /\ ~session.ready
    /\ \E competition, resumed \in BOOLEAN :
           Becomes(ServerHello(session, competition, resumed))
    /\ Free

SocketConnects ==
    /\ session.greeting = Nobody
    /\ \E g \in Generations : Becomes(Connected(session, g))
    /\ Free

DirectoryArrives ==
    /\ session.ready
    /\ Becomes(DirectorySnapshot(session))
    /\ Free

RoomSnapshotArrives ==
    /\ session.ready
    /\ Becomes(RoomSnapshotEvent(session))
    /\ Free

CommandRefused ==
    /\ session.ready
    /\ \E c \in session.commands, stale \in BOOLEAN :
           Becomes(CommandError(session, c, stale))
    /\ Disrupt

\* RoomMemberLeft names this member: it left, or was kicked.
SelfLeaves ==
    /\ session.ready
    /\ HasRoom(session)
    /\ Becomes(ReturnToAuthenticatedBrowser(session))
    /\ Disrupt

\* acceptsRoomEvent sees a room generation newer than the one it follows.
NewerRoomGeneration ==
    /\ session.ready
    /\ HasRoom(session)
    /\ Becomes(BeginReconnect(session))
    /\ Disrupt

\* A second hello, a message before the hello, or one that does not decode.
ProtocolBreaks ==
    /\ session.gen # NoGeneration
    /\ Becomes(FailProtocol(session))
    /\ Disrupt

ServerTooOld ==
    /\ session.gen # NoGeneration
    /\ Becomes(Incompatible(session))
    /\ Disrupt

ServerLeaves ==
    /\ session.ready
    /\ Becomes(ServerGoingAway(session))
    /\ Disrupt

SocketCloses ==
    /\ \E g \in Generations : Becomes(Disconnected(session, g))
    /\ Disrupt

SocketFails ==
    /\ \E g \in Generations : Becomes(TransportError(session, g))
    /\ Disrupt

Answered(t, after) ==
    /\ session' = after
    /\ tickets' = Requested(tickets \ {t}, after, identity)
    /\ identity' = identity

\* The provider drops the answer of a profile that is no longer the active one.
TicketGranted ==
    /\ \E t \in tickets :
          /\ ~t.refused
          /\ Answered(t, IF t.profile = identity.profile
                         THEN TicketReady(session, t.req, t.profile)
                         ELSE session)
    /\ Free

TicketDenied ==
    /\ \E t \in tickets, network \in BOOLEAN :
          Answered(t, IF t.refused \/ t.profile = identity.profile
                      THEN TicketFailed(session, t.req, network /\ ~t.refused)
                      ELSE session)
    /\ Disrupt

ProfileChanges ==
    /\ \E who \in [profile : Profiles \ {identity.profile}, loggedIn : BOOLEAN] :
          LET after == ActiveProfileChanged(session, who.loggedIn)
          IN  /\ identity' = who
              /\ session' = after
              /\ tickets' = Requested({t \in tickets : t.refused}, after, who)
    /\ Disrupt

LoginChanges ==
    /\ LET who == [identity EXCEPT !.loggedIn = ~@]
           after == LoginStateChanged(session, who.loggedIn)
       IN  /\ identity' = who
           /\ session' = after
           /\ tickets' = Requested(tickets, after, who)
    /\ Disrupt

Due(t) == session.tasks[t].armed /\ session.tasks[t].left = 0

TimerFires(t) ==
    /\ Due(t)
    /\ t = "browseRetry" => session.nextGen <= MaxGenerations
    /\ Becomes(TimerFired(session, t))
    /\ Free

Tick ==
    /\ \E t \in TaskNames : session.tasks[t].left > 0
    /\ Becomes([session EXCEPT
            !.tasks = [t \in TaskNames |->
                        [session.tasks[t] EXCEPT !.left = IF @ > 0 THEN @ - 1
                                                          ELSE 0]],
            !.deadline = IF @ > 0 THEN @ - 1 ELSE @])
    /\ Free

Next ==
    \/ UserConnects \/ UserJoins \/ UserLeaves \/ UserRetries \/ UserExits
    \/ SocketConnects \/ SocketCloses \/ SocketFails
    \/ HelloArrives \/ DirectoryArrives \/ RoomSnapshotArrives \/ CommandRefused
    \/ SelfLeaves \/ NewerRoomGeneration
    \/ ProtocolBreaks \/ ServerTooOld \/ ServerLeaves
    \/ TicketGranted \/ TicketDenied
    \/ ProfileChanges \/ LoginChanges
    \/ \E t \in TaskNames : TimerFires(t)
    \/ Tick

Spec == Init /\ [][Next]_vars

\* Time passes and the event loop runs the timers that are due.
Fairness == WF_vars(Tick) /\ \A t \in TaskNames : WF_vars(TimerFires(t))

FairSpec == Spec /\ Fairness

-----------------------------------------------------------------------------
(* Properties.                                                             *)

\* Whoever the user is now, a seat held in a room (also one the session is
\* trying to get back) is held under that identity: changing the profile or
\* signing out anywhere in an admission or a resume never leaves the old
\* identity's seat behind (cleanupForIdentityChange).
SeatBelongsToActiveIdentity ==
    HasRoom(session) => /\ identity.loggedIn
                        /\ session.seat = identity.profile

\* The room screen is shown on a live, authenticated connection opened with
\* the ticket of the seat's holder, and no timer of an earlier reconnection
\* is left that could tear it down (applyRoomSnapshot, cancelReconnectTasks).
InRoomIsConnected ==
    session.state = "InRoom" =>
        /\ session.ready
        /\ session.authenticated
        /\ session.greeting = session.seat
        /\ HasRoom(session)
        /\ session.deadline = NoDeadline
        /\ \A t \in TaskNames : ~session.tasks[t].armed

\* A session that is resuming always has something under way: an attempt with
\* its timeout, or a retry, obeyed when they fire; unless what is left of the
\* grace period is too short for another attempt (scheduleReconnect).
ReconnectNeverIdle ==
    session.state = "Reconnecting" =>
        \/ \E t \in {"attempt", "retry"} : /\ session.tasks[t].armed
                                           /\ session.tasks[t].life = session.life
        \/ /\ session.backoff >= session.deadline
           /\ session.gen = NoGeneration
           /\ session.ticketReq = NoTicket

\* An anonymous browser without a directory has a timer that will bring it
\* one: the attempt's timeout for the very socket in use, or a retry, that its
\* callback obeys (startAnonymousBrowseAttempt, scheduleAnonymousBrowseRetry).
BrowseNeverStranded ==
    IsAnonymousBrowsing(session) /\ ~session.directoryReady =>
        LET attempt == session.tasks["browseAttempt"]
            retry == session.tasks["browseRetry"]
        IN  \/ attempt.armed /\ attempt.life = session.life
                             /\ attempt.gen = session.gen
            \/ retry.armed /\ retry.life = session.life

\* An admission on the wire can still be answered: its command is registered
\* under the present lifecycle on an authenticated connection. Were it not, the
\* answer would be dropped and every later create or join refused as busy.
AdmissionAnswerable ==
    session.admission = "sent" =>
        /\ session.state = "Browsing"
        /\ session.authenticated
        /\ session.ready
        /\ [kind |-> "admission", life |-> session.life] \in session.commands

\* A session that waits for a ticket waits for a request the provider has not
\* cancelled and whose answer it will not drop; one that connects to be
\* admitted waits for such a ticket or for a socket (requestTicket).
TicketWaitIsAnswered ==
    /\ session.ticketReq # NoTicket =>
          /\ session.state \in {"ConnectingAuthenticated", "Reconnecting"}
          /\ \E t \in tickets : /\ t.req = session.ticketReq
                                /\ t.refused \/ t.profile = identity.profile
    /\ session.state = "ConnectingAuthenticated" =>
          session.ticketReq # NoTicket \/ session.gen # NoGeneration

\* Whatever the session waits for can still come: an attempt, a retry, a
\* directory, a ticket or the answer to an admission; and in the room it waits
\* for nothing that is over.
NeverStranded ==
    /\ InRoomIsConnected
    /\ ReconnectNeverIdle
    /\ BrowseNeverStranded
    /\ AdmissionAnswerable
    /\ TicketWaitIsAnswered

\* A lost seat is settled: the reconnection ends, in the room or out of it,
\* however the server, the network and the ticket service behave.
ReconnectingEnds == session.state = "Reconnecting" ~> session.state # "Reconnecting"

\* The session keeps the promise of ArenaSeat.
Standing ==
    CASE session.state = "Reconnecting" -> "lost"
      [] session.state # "Reconnecting" /\ HasRoom(session) -> "seated"
      [] session.state # "Reconnecting" /\ ~HasRoom(session) -> "out"

Seat == INSTANCE ArenaSeat WITH
            Grace <- ReconnectGrace, who <- identity, holder <- session.seat,
            standing <- Standing, left <- session.deadline

\* A seat is admitted, lost, regained within the grace period and given up as
\* ArenaSeat allows, and a lost one is given up when the period is over.
SeatKept == Seat!Spec

=============================================================================
