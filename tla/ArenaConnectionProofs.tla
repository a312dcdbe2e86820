------------------------ MODULE ArenaConnectionProofs ------------------------
(***************************************************************************)
(* Type correctness of ArenaConnection, the proof that a seat never        *)
(* outlives the identity it was taken under, that nothing the session      *)
(* waits for is out of reach, and that the session implements ArenaSeat    *)
(* (the last two in the second half, with an invariant of their own).      *)
(*                                                                         *)
(* A session is a record with many fields, and a helper replaces a few of  *)
(* them in the result of another helper.  Each such replacement is typed   *)
(* by a lemma about an arbitrary session r (names ending in Fields), and   *)
(* the helper by one that composes them (names ending in Type).            *)
(***************************************************************************)
EXTENDS ArenaConnection, TLAPS

-----------------------------------------------------------------------------
(* The helpers keep a session a session.                                   *)

LEMMA CancelType ==
    ASSUME NEW s \in Session, NEW names
    PROVE  Cancel(s, names) \in Session
BY DEF Session, Cancel, Task, Off

LEMMA ScheduleOnceType ==
    ASSUME NEW s \in Session, NEW name \in TaskNames, NEW delay \in Nat
    PROVE  ScheduleOnce(s, name, delay) \in Session
BY DEF Session, ScheduleOnce, Task

LEMMA ClearPendingAdmissionType ==
    ASSUME NEW s \in Session
    PROVE  ClearPendingAdmission(s) \in Session
BY DEF Session, ClearPendingAdmission, AdmissionState

LEMMA InvalidateTransportType ==
    ASSUME NEW s \in Session
    PROVE  InvalidateTransport(s) \in Session
BY ZenonT(30) DEF Session, InvalidateTransport, HandshakeKind, NoGeneration

LEMMA StartTransportFields ==
    ASSUME NEW r \in Session, NEW kind \in HandshakeKind,
           NEW g \in Nat, NEW next \in Nat \ {0}
    PROVE  [r EXCEPT !.handshake = kind, !.directoryReady = FALSE,
                     !.gen = g, !.nextGen = next] \in Session
BY DEF Session

LEMMA StartTransportType ==
    ASSUME NEW s \in Session, NEW kind \in HandshakeKind
    PROVE  StartTransport(s, kind) \in Session
<1>1. InvalidateTransport(s) \in Session
  BY InvalidateTransportType
<1>2. s.nextGen \in Nat /\ s.nextGen + 1 \in Nat \ {0}
  BY DEF Session
<1>3. QED
  BY <1>1, <1>2, StartTransportFields DEF StartTransport

LEMMA CancelReconnectTasksFields ==
    ASSUME NEW r \in Session
    PROVE  [r EXCEPT !.deadline = NoDeadline] \in Session
BY DEF Session

LEMMA CancelReconnectTasksType ==
    ASSUME NEW s \in Session
    PROVE  CancelReconnectTasks(s) \in Session
BY CancelType, CancelReconnectTasksFields DEF CancelReconnectTasks

LEMMA StartAnonymousBrowseAttemptType ==
    ASSUME NEW s \in Session
    PROVE  StartAnonymousBrowseAttempt(s) \in Session
<1>1. StartTransport(Cancel(s, BrowseTasks), "AnonymousBrowse") \in Session
  BY CancelType, StartTransportType DEF HandshakeKind
<1>2. QED
  BY <1>1, ScheduleOnceType, DelayAssumption
     DEF StartAnonymousBrowseAttempt, TaskNames, BrowseTasks

LEMMA OpenAnonymousBrowsingFields ==
    ASSUME NEW r \in Session
    PROVE  [r EXCEPT !.browseBackoff = InitialBackoff,
                     !.authenticated = FALSE,
                     !.state = "Disconnected"] \in Session
BY DelayAssumption DEF Session, State

LEMMA OpenAnonymousBrowsingType ==
    ASSUME NEW s \in Session
    PROVE  OpenAnonymousBrowsing(s) \in Session
BY CancelType, OpenAnonymousBrowsingFields, StartAnonymousBrowseAttemptType
   DEF OpenAnonymousBrowsing

LEMMA MinOfType ==
    ASSUME NEW a \in Nat \ {0}, NEW b \in Nat \ {0}
    PROVE  MinOf(a, b) \in Nat \ {0}
BY DEF MinOf

LEMMA QuietBrowsingFields ==
    ASSUME NEW r \in Session
    PROVE  [r EXCEPT !.directoryReady = FALSE,
                     !.authenticated = FALSE,
                     !.state = "Disconnected"] \in Session
BY ZenonT(30) DEF Session, State

LEMMA BrowseBackoffFields ==
    ASSUME NEW r \in Session, NEW b \in Nat \ {0}
    PROVE  [r EXCEPT !.browseBackoff = b] \in Session
BY DEF Session

LEMMA ScheduleAnonymousBrowseRetryType ==
    ASSUME NEW s \in Session
    PROVE  ScheduleAnonymousBrowseRetry(s) \in Session
<1> DEFINE b == MinOf(MaximumBackoff, 2 * s.browseBackoff)
           quiet == [InvalidateTransport(Cancel(s, {"browseAttempt"}))
                       EXCEPT !.directoryReady = FALSE,
                              !.authenticated = FALSE,
                              !.state = "Disconnected"]
<1>1. b \in Nat \ {0} /\ s.browseBackoff \in Nat
  <2>1. s.browseBackoff \in Nat \ {0}
    BY DEF Session
  <2>2. 2 * s.browseBackoff \in Nat \ {0}
    BY <2>1
  <2>3. QED
    BY <2>1, <2>2, MinOfType, DelayAssumption
<1>2. quiet \in Session
  BY <1>1, CancelType, InvalidateTransportType,
     QuietBrowsingFields
<1> HIDE DEF b, quiet
<1>3. [quiet EXCEPT !.browseBackoff = b] \in Session
  BY <1>1, <1>2, BrowseBackoffFields
<1>4. ScheduleOnce([quiet EXCEPT !.browseBackoff = b], "browseRetry",
                   s.browseBackoff) \in Session
  BY <1>1, <1>3, ScheduleOnceType DEF TaskNames, BrowseTasks
<1>5. QED
  BY <1>2, <1>4 DEF ScheduleAnonymousBrowseRetry, b, quiet

LEMMA ClearRoomType ==
    ASSUME NEW s \in Session
    PROVE  ClearRoom(s) \in Session
BY DEF Session, ClearRoom

LEMMA InvalidateAsyncWorkFields ==
    ASSUME NEW r \in Session, NEW n \in Nat
    PROVE  [r EXCEPT !.life = n, !.ticketReq = NoTicket,
                     !.ticket = Nobody, !.commands = {}] \in Session
BY DEF Session, NoTicket

LEMMA InvalidateAsyncWorkType ==
    ASSUME NEW s \in Session
    PROVE  InvalidateAsyncWork(s) \in Session
<1>1. CancelReconnectTasks(Cancel(s, BrowseTasks)) \in Session
  BY CancelType, CancelReconnectTasksType
<1>2. s.life + 1 \in Nat
  BY DEF Session
<1>3. QED
  BY <1>1, <1>2, InvalidateAsyncWorkFields DEF InvalidateAsyncWork

LEMMA RestoreAnonymousType ==
    ASSUME NEW s \in Session
    PROVE  RestoreAnonymousAfterAdmissionFailure(s) \in Session
<1>1. InvalidateTransport(ClearPendingAdmission(InvalidateAsyncWork(s)))
        \in Session
  BY InvalidateAsyncWorkType, ClearPendingAdmissionType,
     InvalidateTransportType
<1>2. QED
  BY <1>1, ClearRoomType, OpenAnonymousBrowsingType
     DEF RestoreAnonymousAfterAdmissionFailure

LEMMA FailProtocolFields ==
    ASSUME NEW r \in Session
    PROVE  [r EXCEPT !.ticketReq = NoTicket, !.ticket = Nobody,
                     !.authenticated = FALSE, !.state = "Error"] \in Session
BY DEF Session, State, NoTicket

LEMMA FailProtocolType ==
    ASSUME NEW s \in Session
    PROVE  FailProtocol(s) \in Session
<1>1. CancelReconnectTasks(Cancel(s, BrowseTasks)) \in Session
  BY CancelType, CancelReconnectTasksType
<1>2. ClearRoom(InvalidateTransport(ClearPendingAdmission(
        CancelReconnectTasks(Cancel(s, BrowseTasks))))) \in Session
  BY <1>1, ClearPendingAdmissionType, InvalidateTransportType, ClearRoomType
<1>3. QED
  BY <1>2, FailProtocolFields DEF FailProtocol

LEMMA RequestTicketType ==
    ASSUME NEW s \in Session
    PROVE  RequestTicket(s) \in Session
<1>1. \A q \in Nat, n \in Nat \ {0} :
        [s EXCEPT !.ticketReq = q, !.nextTicket = n] \in Session
  BY DEF Session
<1>2. s.nextTicket \in Nat /\ s.nextTicket + 1 \in Nat \ {0}
  BY DEF Session
<1>3. QED
  BY <1>1, <1>2 DEF RequestTicket

LEMMA BeginAuthenticatedAdmissionFields ==
    ASSUME NEW r \in Session
    PROVE  [r EXCEPT !.loginRequired = FALSE, !.authenticated = FALSE,
                     !.state = "ConnectingAuthenticated"] \in Session
BY ZenonT(30) DEF Session, State

LEMMA BeginAuthenticatedAdmissionType ==
    ASSUME NEW s \in Session, NEW loggedIn
    PROVE  BeginAuthenticatedAdmission(s, loggedIn) \in Session
BY CancelType, BeginAuthenticatedAdmissionFields, InvalidateTransportType,
   RequestTicketType DEF BeginAuthenticatedAdmission

LEMMA SendPendingAdmissionType ==
    ASSUME NEW s \in Session
    PROVE  SendPendingAdmission(s) \in Session
<1>1. s.commands \cup {[kind |-> "admission", life |-> s.life]}
        \in SUBSET [kind : CommandKind, life : Nat]
  BY DEF Session, CommandKind
<1>2. \A c \in SUBSET [kind : CommandKind, life : Nat] :
        [s EXCEPT !.admission = "sent", !.commands = c] \in Session
  BY DEF Session, AdmissionState
<1>3. QED
  BY <1>1, <1>2 DEF SendPendingAdmission

LEMMA ApplyRoomSnapshotFields ==
    ASSUME NEW r \in Session, NEW holder \in Profiles \cup {Nobody}
    PROVE  [r EXCEPT !.commands = {}, !.seat = holder,
                     !.authenticated = TRUE, !.state = "InRoom"] \in Session
BY DEF Session, State

LEMMA ApplyRoomSnapshotType ==
    ASSUME NEW s \in Session, s.greeting # Anonymous
    PROVE  ApplyRoomSnapshot(s) \in Session
<1>1. s.greeting \in Profiles \cup {Nobody}
  BY DEF Session
<1>2. ClearPendingAdmission(CancelReconnectTasks(s)) \in Session
  BY CancelReconnectTasksType, ClearPendingAdmissionType
<1>3. QED
  BY <1>1, <1>2, ApplyRoomSnapshotFields DEF ApplyRoomSnapshot

LEMMA StateFields ==
    ASSUME NEW r \in Session, NEW state \in State
    PROVE  [r EXCEPT !.state = state] \in Session
BY DEF Session

LEMMA ReturnToAuthenticatedBrowserType ==
    ASSUME NEW s \in Session
    PROVE  ReturnToAuthenticatedBrowser(s) \in Session
BY ClearRoomType, ClearPendingAdmissionType, StateFields
   DEF ReturnToAuthenticatedBrowser, State

LEMMA FailResumeAtDeadlineFields ==
    ASSUME NEW r \in Session, NEW n \in Nat
    PROVE  [r EXCEPT !.life = n, !.ticketReq = NoTicket,
                     !.ticket = Nobody, !.authenticated = FALSE] \in Session
BY DEF Session, NoTicket

LEMMA FailResumeAtDeadlineType ==
    ASSUME NEW s \in Session
    PROVE  FailResumeAtDeadline(s) \in Session
<1>1. ClearRoom(ClearPendingAdmission(InvalidateTransport(
        CancelReconnectTasks(s)))) \in Session
  BY CancelReconnectTasksType, InvalidateTransportType,
     ClearPendingAdmissionType, ClearRoomType
<1>2. s.life + 1 \in Nat
  BY DEF Session
<1>3. QED
  BY <1>1, <1>2, FailResumeAtDeadlineFields, OpenAnonymousBrowsingType
     DEF FailResumeAtDeadline

LEMMA StartResumeAttemptType ==
    ASSUME NEW s \in Session
    PROVE  StartResumeAttempt(s) \in Session
<1>1. InvalidateTransport(Cancel(s, {"retry", "attempt"})) \in Session
  BY CancelType, InvalidateTransportType
<1>2. s.deadline \in Nat \cup {-1}
  BY DEF Session, NoDeadline
<1>3. ASSUME ~(s.deadline <= 0)
      PROVE  MinOf(AttemptTimeout, s.deadline) \in Nat
  BY <1>2, <1>3, DelayAssumption DEF MinOf
<1>4. ASSUME ~(s.deadline <= 0)
      PROVE  RequestTicket(ScheduleOnce(
                InvalidateTransport(Cancel(s, {"retry", "attempt"})),
                "attempt", MinOf(AttemptTimeout, s.deadline))) \in Session
  BY <1>1, <1>3, <1>4, ScheduleOnceType, RequestTicketType
     DEF TaskNames, ReconnectTasks
<1>5. QED
  BY <1>4, FailResumeAtDeadlineType DEF StartResumeAttempt

LEMMA NoTicketFields ==
    ASSUME NEW r \in Session
    PROVE  [r EXCEPT !.ticketReq = NoTicket, !.ticket = Nobody] \in Session
BY DEF Session, NoTicket

LEMMA BackoffFields ==
    ASSUME NEW r \in Session, NEW b \in Nat \ {0}
    PROVE  [r EXCEPT !.backoff = b] \in Session
BY DEF Session

LEMMA ScheduleReconnectType ==
    ASSUME NEW s \in Session
    PROVE  ScheduleReconnect(s) \in Session
<1> DEFINE b == MinOf(MaximumBackoff, 2 * s.backoff)
           quiet == [InvalidateTransport(Cancel(s, {"attempt"}))
                       EXCEPT !.ticketReq = NoTicket, !.ticket = Nobody]
<1>1. b \in Nat \ {0} /\ s.backoff \in Nat
  <2>1. s.backoff \in Nat \ {0}
    BY DEF Session
  <2>2. 2 * s.backoff \in Nat \ {0}
    BY <2>1
  <2>3. QED
    BY <2>1, <2>2, MinOfType, DelayAssumption
<1>2. quiet \in Session
  BY CancelType, InvalidateTransportType, NoTicketFields
<1> HIDE DEF b, quiet
<1>3. [quiet EXCEPT !.backoff = b] \in Session
  BY <1>1, <1>2, BackoffFields
<1>4. ScheduleOnce([quiet EXCEPT !.backoff = b], "retry", s.backoff) \in Session
  BY <1>1, <1>3, ScheduleOnceType DEF TaskNames, ReconnectTasks
<1>5. QED
  BY <1>2, <1>4, FailResumeAtDeadlineType DEF ScheduleReconnect, b, quiet

LEMMA BeginReconnectFields ==
    ASSUME NEW r \in Session, NEW n \in Nat
    PROVE  [r EXCEPT !.life = n, !.ticketReq = NoTicket,
                     !.ticket = Nobody, !.commands = {},
                     !.authenticated = FALSE, !.state = "Reconnecting",
                     !.backoff = InitialBackoff, !.deadline = ReconnectGrace]
             \in Session
BY ZenonT(30), DelayAssumption DEF Session, State, NoTicket

LEMMA BeginReconnectType ==
    ASSUME NEW s \in Session
    PROVE  BeginReconnect(s) \in Session
<1> DEFINE q == InvalidateTransport(ClearPendingAdmission(CancelReconnectTasks(s)))
           r == [q EXCEPT !.life = s.life + 1, !.ticketReq = NoTicket,
                          !.ticket = Nobody, !.commands = {},
                          !.authenticated = FALSE, !.state = "Reconnecting",
                          !.backoff = InitialBackoff, !.deadline = ReconnectGrace]
<1>1. q \in Session
  BY CancelReconnectTasksType, ClearPendingAdmissionType, InvalidateTransportType
<1>2. s.life + 1 \in Nat
  BY DEF Session
<1>3. r \in Session
  BY <1>1, <1>2, BeginReconnectFields
<1> HIDE DEF r
<1>4. StartResumeAttempt(ScheduleOnce(r, "grace", ReconnectGrace)) \in Session
  BY <1>3, ScheduleOnceType, StartResumeAttemptType, DelayAssumption
     DEF TaskNames, ReconnectTasks
<1>5. QED
  BY <1>4 DEF BeginReconnect, r, q

LEMMA AuthenticatedFields ==
    ASSUME NEW r \in Session, NEW b \in BOOLEAN
    PROVE  [r EXCEPT !.authenticated = b] \in Session
BY DEF Session

LEMMA CleanupForIdentityChangeType ==
    ASSUME NEW s \in Session
    PROVE  CleanupForIdentityChange(s) \in Session
<1> DEFINE released == [ClearRoom(ClearPendingAdmission(InvalidateAsyncWork(s)))
                          EXCEPT !.authenticated = FALSE]
<1>1. released \in Session
  BY InvalidateAsyncWorkType, ClearPendingAdmissionType, ClearRoomType,
     AuthenticatedFields
<1>2. OpenAnonymousBrowsing(InvalidateTransport(released)) \in Session
  BY <1>1, InvalidateTransportType, OpenAnonymousBrowsingType
<1>3. QED
  BY <1>1, <1>2 DEF CleanupForIdentityChange

-----------------------------------------------------------------------------
(* The strengthening of SeatBelongsToActiveIdentity.                        *)

\* Whatever the session holds, sent or waits for in somebody's name is in the
\* name of the active identity.
OwnsWhatItHolds(s, id) ==
    /\ s.lastLoggedIn = id.loggedIn
    /\ s.seat # Nobody => id.loggedIn /\ s.seat = id.profile
    /\ s.greeting \notin {Nobody, Anonymous} =>
          id.loggedIn /\ s.greeting = id.profile
    /\ s.ticket # Nobody => id.loggedIn /\ s.ticket = id.profile
    /\ s.ticketReq # NoTicket => id.loggedIn

\* Only a connection opened with a ticket is authenticated and admits.
TicketAuthenticates(s) ==
    /\ s.authenticated => s.greeting \notin {Nobody, Anonymous}
    /\ s.ready /\ s.greeting # Anonymous => s.authenticated
    /\ s.admission = "sent" => s.authenticated
    /\ s.handshake \in {"AuthenticatedAdmission", "Resume"} =>
          s.greeting # Anonymous
    /\ s.handshake = "AnonymousBrowse" => s.greeting \in {Nobody, Anonymous}
    /\ s.handshake = "AnonymousBrowse" => s.state \in {"Disconnected", "Browsing"}
    /\ s.handshake = "AuthenticatedAdmission" =>
          s.state = "ConnectingAuthenticated"
    /\ s.handshake = "Resume" => s.state = "Reconnecting"
    /\ \A c \in s.commands : c.kind = "admission" =>
          s.admission = "sent" /\ c.life = s.life

\* A seat is shown or being resumed, a session that waits for a ticket has no
\* socket, and an inactive session holds nothing.
SeatIsReal(s) ==
    /\ s.seat # Nobody <=> s.state \in {"InRoom", "Reconnecting"}
    /\ s.admission # "none" =>
          s.state \in {"Browsing", "ConnectingAuthenticated"}
    /\ s.state \in {"ConnectingAuthenticated", "Reconnecting"} =>
          ~s.authenticated
    /\ s.ticketReq # NoTicket =>
          /\ s.state \in {"ConnectingAuthenticated", "Reconnecting"}
          /\ s.gen = NoGeneration
          /\ s.greeting = Nobody
          /\ s.handshake = "None"
          /\ ~s.ready
    /\ ~s.active => /\ s.state = "Disconnected"
                    /\ s.gen = NoGeneration
                    /\ s.greeting = Nobody
                    /\ s.ticket = Nobody
                    /\ ~s.ready

SeatInv(s, id) ==
    /\ OwnsWhatItHolds(s, id)
    /\ TicketAuthenticates(s)
    /\ SeatIsReal(s)

IInv == TypeOK /\ SeatInv(session, identity)

-----------------------------------------------------------------------------
(* Helpers and handlers keep the strengthened invariant.                    *)

\* Browsing anonymously is safe from any session that holds nothing.
LEMMA OpenAnonymousBrowsingSafe ==
    ASSUME NEW s \in Session, NEW id, s.active, OwnsWhatItHolds(s, id),
           s.seat = Nobody, s.greeting = Nobody, s.admission = "none",
           s.ticketReq = NoTicket,
           \A c \in s.commands : c.kind # "admission"
    PROVE  SeatInv(OpenAnonymousBrowsing(s), id)
BY DEF SeatInv, OwnsWhatItHolds, TicketAuthenticates, SeatIsReal, Session,
       OpenAnonymousBrowsing, StartAnonymousBrowseAttempt, StartTransport,
       InvalidateTransport, ScheduleOnce, IsAnonymousBrowsing, HasRoom, Cancel

LEMMA StartAnonymousBrowseAttemptSafe ==
    ASSUME NEW s \in Session, NEW id, SeatInv(s, id)
    PROVE  SeatInv(StartAnonymousBrowseAttempt(s), id)
BY DEF SeatInv, OwnsWhatItHolds, TicketAuthenticates, SeatIsReal, Session,
       StartAnonymousBrowseAttempt, StartTransport,
       InvalidateTransport, ScheduleOnce, IsAnonymousBrowsing, HasRoom, Cancel

LEMMA ScheduleAnonymousBrowseRetrySafe ==
    ASSUME NEW s \in Session, NEW id, SeatInv(s, id)
    PROVE  SeatInv(ScheduleAnonymousBrowseRetry(s), id)
BY DEF SeatInv, OwnsWhatItHolds, TicketAuthenticates, SeatIsReal, Session,
       ScheduleAnonymousBrowseRetry,
       InvalidateTransport, ScheduleOnce, IsAnonymousBrowsing, HasRoom, Cancel

LEMMA FailProtocolSafe ==
    ASSUME NEW s \in Session, NEW id, SeatInv(s, id), s.active
    PROVE  SeatInv(FailProtocol(s), id)
BY DEF SeatInv, OwnsWhatItHolds, TicketAuthenticates, SeatIsReal, Session,
       FailProtocol, ClearRoom, InvalidateTransport, ClearPendingAdmission,
       CancelReconnectTasks, Cancel

LEMMA FailResumeAtDeadlineSafe ==
    ASSUME NEW s \in Session, NEW id, OwnsWhatItHolds(s, id), s.active
    PROVE  SeatInv(FailResumeAtDeadline(s), id)
<1> DEFINE r == [ClearRoom(ClearPendingAdmission(InvalidateTransport(
                CancelReconnectTasks(s))))
                EXCEPT !.life = s.life + 1, !.ticketReq = NoTicket,
                       !.ticket = Nobody, !.authenticated = FALSE]
<1>1. r \in Session
  <2>1. ClearRoom(ClearPendingAdmission(InvalidateTransport(
          CancelReconnectTasks(s)))) \in Session
    BY CancelReconnectTasksType, InvalidateTransportType,
       ClearPendingAdmissionType, ClearRoomType
  <2>2. s.life + 1 \in Nat
    BY DEF Session
  <2>3. QED
    BY <2>1, <2>2, FailResumeAtDeadlineFields
<1>2. /\ r.active
      /\ OwnsWhatItHolds(r, id)
      /\ r.seat = Nobody /\ r.greeting = Nobody /\ r.admission = "none"
      /\ r.ticketReq = NoTicket /\ r.commands = {}
  BY DEF OwnsWhatItHolds, ClearRoom, ClearPendingAdmission,
         InvalidateTransport, CancelReconnectTasks, Cancel, Session
<1> HIDE DEF r
<1>3. SeatInv(OpenAnonymousBrowsing(r), id)
  BY <1>1, <1>2, OpenAnonymousBrowsingSafe
<1>4. QED
  BY <1>3 DEF FailResumeAtDeadline, r

LEMMA StartResumeAttemptSafe ==
    ASSUME NEW s \in Session, NEW id, s.active, OwnsWhatItHolds(s, id),
           s.state = "Reconnecting", s.seat # Nobody, s.admission = "none",
           ~s.authenticated, \A c \in s.commands : c.kind # "admission"
    PROVE  SeatInv(StartResumeAttempt(s), id)
<1>1. CASE s.deadline <= 0
  BY <1>1, FailResumeAtDeadlineSafe DEF StartResumeAttempt
<1>2. CASE ~(s.deadline <= 0)
  BY <1>2 DEF StartResumeAttempt, SeatInv, OwnsWhatItHolds,
     TicketAuthenticates, SeatIsReal, Session, InvalidateTransport, Cancel,
     ScheduleOnce, RequestTicket
<1>3. QED
  BY <1>1, <1>2

LEMMA ScheduleReconnectSafe ==
    ASSUME NEW s \in Session, NEW id, s.active, OwnsWhatItHolds(s, id),
           s.state = "Reconnecting", s.seat # Nobody, s.admission = "none",
           ~s.authenticated, \A c \in s.commands : c.kind # "admission"
    PROVE  SeatInv(ScheduleReconnect(s), id)
<1> DEFINE quiet == [InvalidateTransport(Cancel(s, {"attempt"}))
                       EXCEPT !.ticketReq = NoTicket, !.ticket = Nobody]
<1>1. quiet \in Session
  BY CancelType, InvalidateTransportType, NoTicketFields
<1>2. /\ SeatInv(quiet, id)
      /\ quiet.active
      /\ OwnsWhatItHolds(quiet, id)
  BY DEF SeatInv, OwnsWhatItHolds, TicketAuthenticates, SeatIsReal, Session,
         InvalidateTransport, Cancel
<1> HIDE DEF quiet
<1>3. \A b, d : SeatInv(ScheduleOnce([quiet EXCEPT !.backoff = b], "retry", d), id)
  BY <1>1, <1>2 DEF SeatInv, OwnsWhatItHolds, TicketAuthenticates, SeatIsReal,
     Session, ScheduleOnce
<1>4. SeatInv(FailResumeAtDeadline(quiet), id)
  BY <1>1, <1>2, FailResumeAtDeadlineSafe
<1>5. QED
  BY <1>2, <1>3, <1>4 DEF ScheduleReconnect, quiet

LEMMA BeginReconnectSafe ==
    ASSUME NEW s \in Session, NEW id, s.active, OwnsWhatItHolds(s, id),
           s.seat # Nobody
    PROVE  SeatInv(BeginReconnect(s), id)
<1> DEFINE q == InvalidateTransport(ClearPendingAdmission(CancelReconnectTasks(s)))
           r == [q EXCEPT !.life = s.life + 1, !.ticketReq = NoTicket,
                          !.ticket = Nobody, !.commands = {},
                          !.authenticated = FALSE, !.state = "Reconnecting",
                          !.backoff = InitialBackoff, !.deadline = ReconnectGrace]
           armed == ScheduleOnce(r, "grace", ReconnectGrace)
<1>1. armed \in Session
  <2>1. q \in Session
    BY CancelReconnectTasksType, ClearPendingAdmissionType,
       InvalidateTransportType
  <2>2. s.life + 1 \in Nat
    BY DEF Session
  <2>3. r \in Session
    BY <2>1, <2>2, BeginReconnectFields
  <2> HIDE DEF r
  <2>4. QED
    BY <2>3, ScheduleOnceType, DelayAssumption DEF TaskNames, ReconnectTasks
<1>2. /\ armed.active
      /\ armed.state = "Reconnecting"
      /\ armed.seat # Nobody
      /\ armed.admission = "none"
      /\ armed.commands = {}
      /\ ~armed.authenticated
      /\ OwnsWhatItHolds(armed, id)
  BY DEF OwnsWhatItHolds, ScheduleOnce, InvalidateTransport,
         ClearPendingAdmission, CancelReconnectTasks, Cancel, Session
<1>3. BeginReconnect(s) = StartResumeAttempt(armed)
  BY DEF BeginReconnect, HasRoom
<1> HIDE DEF armed
<1>4. QED
  BY <1>1, <1>2, <1>3, StartResumeAttemptSafe

LEMMA RestoreAnonymousSafe ==
    ASSUME NEW s \in Session, NEW id, s.active, OwnsWhatItHolds(s, id)
    PROVE  SeatInv(RestoreAnonymousAfterAdmissionFailure(s), id)
<1> DEFINE r == ClearRoom(InvalidateTransport(
                    ClearPendingAdmission(InvalidateAsyncWork(s))))
<1>1. r \in Session
  BY InvalidateAsyncWorkType, ClearPendingAdmissionType,
     InvalidateTransportType, ClearRoomType
<1>2. /\ r.active
      /\ OwnsWhatItHolds(r, id)
      /\ r.seat = Nobody /\ r.greeting = Nobody /\ r.admission = "none"
      /\ r.ticketReq = NoTicket /\ r.commands = {}
  BY DEF OwnsWhatItHolds, ClearRoom, InvalidateTransport,
         ClearPendingAdmission, InvalidateAsyncWork, CancelReconnectTasks,
         Cancel, Session
<1> HIDE DEF r
<1>3. SeatInv(OpenAnonymousBrowsing(r), id)
  BY <1>1, <1>2, OpenAnonymousBrowsingSafe
<1>4. QED
  BY <1>3 DEF RestoreAnonymousAfterAdmissionFailure, r

\* The identity may have changed: s is what the session held under the old one.
LEMMA CleanupForIdentityChangeSafe ==
    ASSUME NEW s \in Session, NEW old, SeatInv(s, old), NEW id,
           NEW r, r = [s EXCEPT !.lastLoggedIn = id.loggedIn],
           id.loggedIn \in BOOLEAN
    PROVE  SeatInv(CleanupForIdentityChange(r), id)
<1> DEFINE released == [ClearRoom(ClearPendingAdmission(InvalidateAsyncWork(r)))
                          EXCEPT !.authenticated = FALSE]
           closed == InvalidateTransport(released)
<1>1. r \in Session
  BY DEF Session
<1>2. CASE ~s.active
  BY <1>2 DEF CleanupForIdentityChange, SeatInv, OwnsWhatItHolds,
     TicketAuthenticates, SeatIsReal, Session
<1>3. CASE s.active /\ s.state = "Browsing" /\ ~s.authenticated /\ s.ready
  <2>1. SeatInv(released, id)
    BY <1>3 DEF SeatInv, OwnsWhatItHolds, TicketAuthenticates, SeatIsReal,
       ClearRoom, ClearPendingAdmission, InvalidateAsyncWork,
       CancelReconnectTasks, Cancel, Session
  <2>2. CleanupForIdentityChange(r) \in
          {released, OpenAnonymousBrowsing(closed)}
    BY <1>3 DEF CleanupForIdentityChange, Session
  <2>3. SeatInv(OpenAnonymousBrowsing(closed), id)
    <3>1. closed \in Session
      BY <1>1, InvalidateAsyncWorkType, ClearPendingAdmissionType,
         ClearRoomType, AuthenticatedFields, InvalidateTransportType
    <3>2. /\ closed.active
          /\ OwnsWhatItHolds(closed, id)
          /\ closed.seat = Nobody /\ closed.greeting = Nobody
          /\ closed.admission = "none" /\ closed.ticketReq = NoTicket
          /\ closed.commands = {}
      BY <1>3 DEF OwnsWhatItHolds, ClearRoom, InvalidateTransport,
             ClearPendingAdmission, InvalidateAsyncWork, CancelReconnectTasks,
             Cancel, Session
    <3> HIDE DEF closed
    <3>3. QED
      BY <3>1, <3>2, OpenAnonymousBrowsingSafe
  <2>4. QED
    BY <2>1, <2>2, <2>3
<1>4. CASE s.active /\ ~(s.state = "Browsing" /\ ~s.authenticated /\ s.ready)
  <2>1. CleanupForIdentityChange(r) = OpenAnonymousBrowsing(closed)
    BY <1>4 DEF CleanupForIdentityChange, Session
  <2>2. closed \in Session
    BY <1>1, InvalidateAsyncWorkType, ClearPendingAdmissionType,
       ClearRoomType, AuthenticatedFields, InvalidateTransportType
  <2>3. /\ closed.active
        /\ OwnsWhatItHolds(closed, id)
        /\ closed.seat = Nobody /\ closed.greeting = Nobody
        /\ closed.admission = "none" /\ closed.ticketReq = NoTicket
        /\ closed.commands = {}
    BY <1>4 DEF OwnsWhatItHolds, ClearRoom, InvalidateTransport,
           ClearPendingAdmission, InvalidateAsyncWork, CancelReconnectTasks,
           Cancel, Session
  <2> HIDE DEF closed
  <2>4. QED
    BY <2>1, <2>2, <2>3, OpenAnonymousBrowsingSafe
<1>5. QED
  BY <1>2, <1>3, <1>4

LEMMA BeginAuthenticatedAdmissionSafe ==
    ASSUME NEW s \in Session, NEW id, id.loggedIn, OwnsWhatItHolds(s, id),
           s.active, s.admission = "wanted", s.seat = Nobody,
           \A c \in s.commands : c.kind # "admission"
    PROVE  SeatInv(BeginAuthenticatedAdmission(s, id.loggedIn), id)
<1> DEFINE r == InvalidateTransport(
                  [Cancel(s, BrowseTasks) EXCEPT !.loginRequired = FALSE,
                      !.authenticated = FALSE,
                      !.state = "ConnectingAuthenticated"])
<1>1. r \in Session
  BY CancelType, BeginAuthenticatedAdmissionFields, InvalidateTransportType
<1>2. /\ r.active /\ r.state = "ConnectingAuthenticated" /\ r.seat = Nobody
      /\ r.gen = NoGeneration /\ r.greeting = Nobody /\ r.handshake = "None"
      /\ ~r.ready /\ ~r.authenticated /\ r.admission = "wanted"
      /\ \A c \in r.commands : c.kind # "admission"
      /\ OwnsWhatItHolds(r, id)
  BY DEF OwnsWhatItHolds, InvalidateTransport, Cancel, Session
<1>3. BeginAuthenticatedAdmission(s, id.loggedIn) = RequestTicket(r)
  BY DEF BeginAuthenticatedAdmission
<1> HIDE DEF r
<1>4. SeatInv(RequestTicket(r), id)
  BY <1>1, <1>2 DEF RequestTicket, SeatInv, OwnsWhatItHolds,
     TicketAuthenticates, SeatIsReal, Session
<1>5. QED
  BY <1>3, <1>4

LEMMA SendPendingAdmissionSafe ==
    ASSUME NEW s \in Session, NEW id, SeatInv(s, id)
    PROVE  SeatInv(SendPendingAdmission(s), id)
BY DEF SendPendingAdmission, SeatInv, OwnsWhatItHolds, TicketAuthenticates,
       SeatIsReal, Session

-----------------------------------------------------------------------------
(* Handlers.                                                                *)

Good(s, id) == s \in Session /\ SeatInv(s, id)

LEMMA GreetingFields ==
    ASSUME NEW s \in Session,
           NEW from \in Profiles \cup {Nobody, Anonymous}
    PROVE  [s EXCEPT !.greeting = from, !.ticket = Nobody] \in Session
BY DEF Session

LEMMA ConnectedGood ==
    ASSUME NEW s, NEW id, Good(s, id), s.greeting = Nobody,
           NEW g \in Nat \ {0}
    PROVE  Good(Connected(s, g), id)
<1> DEFINE from == IF s.handshake = "AnonymousBrowse" THEN Anonymous
                   ELSE s.ticket
           greeted == [s EXCEPT !.greeting = from, !.ticket = Nobody]
<1> USE DEF Good
<1>1. greeted \in Session
  <2>1. from \in Profiles \cup {Nobody, Anonymous}
    BY DEF Session
  <2>2. QED
    BY <2>1, GreetingFields
<1>2. ASSUME s.active, s.gen = g,
             ~(s.handshake \in {"AuthenticatedAdmission", "Resume"}
                 /\ s.ticket = Nobody)
      PROVE  SeatInv(greeted, id)
  BY <1>2, ProfilesAssumption DEF SeatInv, OwnsWhatItHolds,
     TicketAuthenticates, SeatIsReal, Session, HandshakeKind, NoGeneration
<1>3. s.active => Good(FailResumeAtDeadline(s), id)
  BY FailResumeAtDeadlineType, FailResumeAtDeadlineSafe DEF SeatInv
<1>4. s.active => Good(FailProtocol(s), id)
  BY FailProtocolType, FailProtocolSafe
<1> HIDE DEF greeted
<1>5. \/ Connected(s, g) = s
      \/ /\ s.active
         /\ Connected(s, g) \in {FailProtocol(s), FailResumeAtDeadline(s)}
      \/ /\ s.active /\ s.gen = g
         /\ ~(s.handshake \in {"AuthenticatedAdmission", "Resume"}
                 /\ s.ticket = Nobody)
         /\ Connected(s, g) = greeted
  BY DEF Connected, greeted
<1>6. QED
  BY <1>1, <1>2, <1>3, <1>4, <1>5

LEMMA OfferedFields ==
    ASSUME NEW r \in Session, NEW b \in BOOLEAN
    PROVE  [r EXCEPT !.competition = b] \in Session
BY DEF Session

LEMMA OpenFields ==
    ASSUME NEW r \in Session
    PROVE  [r EXCEPT !.ready = TRUE, !.handshake = "None"] \in Session
BY DEF Session, HandshakeKind

LEMMA BrowsingFields ==
    ASSUME NEW r \in Session
    PROVE  [r EXCEPT !.authenticated = TRUE, !.loginRequired = FALSE,
                     !.state = "Browsing"] \in Session
BY DEF Session, State

LEMMA AnonymousBrowsingFields ==
    ASSUME NEW r \in Session
    PROVE  [r EXCEPT !.fallback = FALSE, !.authenticated = FALSE,
                     !.state = "Browsing"] \in Session
BY ZenonT(30) DEF Session, State

LEMMA UnseatedBrowsingFields ==
    ASSUME NEW r \in Session
    PROVE  [r EXCEPT !.authenticated = TRUE, !.state = "Browsing"] \in Session
BY DEF Session, State

LEMMA ApplyRoomSnapshotSafe ==
    ASSUME NEW s \in Session, NEW id, OwnsWhatItHolds(s, id), s.active,
           s.greeting \notin {Nobody, Anonymous}, s.handshake = "None",
           s.ticketReq = NoTicket
    PROVE  SeatInv(ApplyRoomSnapshot(s), id)
BY DEF ApplyRoomSnapshot, SeatInv, OwnsWhatItHolds, TicketAuthenticates,
       SeatIsReal, Session, ClearPendingAdmission, CancelReconnectTasks, Cancel

LEMMA ServerHelloGood ==
    ASSUME NEW s, NEW id, Good(s, id), s.greeting # Nobody, ~s.ready,
           NEW competition \in BOOLEAN, NEW resumed \in BOOLEAN
    PROVE  Good(ServerHello(s, competition, resumed), id)
<1> DEFINE offered == [s EXCEPT !.competition = competition]
           open == [Cancel(offered, {"attempt"}) EXCEPT !.ready = TRUE,
                                                        !.handshake = "None"]
           browsing == [open EXCEPT !.authenticated = TRUE,
                                    !.loginRequired = FALSE,
                                    !.state = "Browsing"]
           unseated == [ClearRoom(CancelReconnectTasks(open))
                          EXCEPT !.authenticated = TRUE, !.state = "Browsing"]
           anonymous == [open EXCEPT !.fallback = FALSE,
                                     !.authenticated = FALSE,
                                     !.state = "Browsing"]
<1>1. s \in Session /\ SeatInv(s, id) /\ s.active
  BY DEF Good, SeatInv, SeatIsReal
<1>2. offered \in Session
  BY <1>1, OfferedFields
<1>3. open \in Session
  BY <1>2, CancelType, OpenFields
<1>4. CASE s.handshake = "None"
  BY <1>1, <1>4, FailProtocolType, FailProtocolSafe DEF ServerHello, Good
<1>5. CASE s.handshake = "AnonymousBrowse"
  <2>1. ServerHello(s, competition, resumed) = anonymous
    BY <1>5 DEF ServerHello
  <2>2. CASE s.greeting = Anonymous
    <3>1. /\ s.seat = Nobody /\ s.ticketReq = NoTicket
          /\ s.admission # "sent"
          /\ \A c \in s.commands : c.kind # "admission"
      BY <1>1, <1>5, <2>2 DEF SeatInv, TicketAuthenticates, SeatIsReal
    <3>2. /\ OwnsWhatItHolds(anonymous, id)
          /\ anonymous.active /\ anonymous.state = "Browsing"
          /\ anonymous.seat = Nobody /\ anonymous.ticketReq = NoTicket
          /\ anonymous.admission = s.admission
          /\ anonymous.handshake = "None" /\ anonymous.greeting = Anonymous
          /\ ~anonymous.authenticated
          /\ \A c \in anonymous.commands : c.kind # "admission"
      BY <1>1, <2>2, <3>1 DEF SeatInv, OwnsWhatItHolds, Session, Cancel
    <3>3. anonymous \in Session
      BY <1>3, AnonymousBrowsingFields
    <3> HIDE DEF anonymous
    <3>4. SeatInv(anonymous, id)
      BY <3>1, <3>2, <3>3 DEF SeatInv, OwnsWhatItHolds, TicketAuthenticates,
         SeatIsReal
    <3>5. QED
      BY <2>1, <3>3, <3>4 DEF Good
  <2>3. QED
    BY <1>1, <1>5, <2>2 DEF SeatInv, TicketAuthenticates
<1>6. CASE s.handshake = "AuthenticatedAdmission"
  <2>1. browsing \in Session
    BY <1>3, BrowsingFields
  <2>2. SeatInv(browsing, id)
    BY <1>1, <1>6 DEF SeatInv, OwnsWhatItHolds, TicketAuthenticates,
       SeatIsReal, Session, Cancel
  <2>3. Good(SendPendingAdmission(browsing), id)
    <3> HIDE DEF browsing
    <3>1. QED
      BY <2>1, <2>2, SendPendingAdmissionType, SendPendingAdmissionSafe DEF Good
  <2>4. Good(ClearPendingAdmission(browsing), id)
    <3>1. \A c \in browsing.commands : c.kind # "admission"
      BY <1>1, <1>6 DEF SeatInv, TicketAuthenticates, SeatIsReal, Session,
         Cancel
    <3> HIDE DEF browsing
    <3>2. SeatInv(ClearPendingAdmission(browsing), id)
      BY <2>1, <2>2, <3>1 DEF SeatInv, OwnsWhatItHolds, TicketAuthenticates,
         SeatIsReal, Session, ClearPendingAdmission
    <3>3. QED
      BY <2>1, <3>2, ClearPendingAdmissionType DEF Good
  <2>5. ServerHello(s, competition, resumed) \in
          {SendPendingAdmission(browsing), ClearPendingAdmission(browsing)}
    BY <1>1, <1>6 DEF ServerHello
  <2>6. QED
    BY <2>3, <2>4, <2>5
<1>7. CASE s.handshake = "Resume"
  <2>1. s.greeting \notin {Nobody, Anonymous}
    BY <1>1, <1>7 DEF SeatInv, TicketAuthenticates
  <2>2. Good(FailResumeAtDeadline(offered), id)
    <3>1. OwnsWhatItHolds(offered, id) /\ offered.active
      BY <1>1 DEF SeatInv, OwnsWhatItHolds, Session
    <3>2. QED
      BY <1>2, <3>1, FailResumeAtDeadlineType, FailResumeAtDeadlineSafe DEF Good
  <2>3. Good(ApplyRoomSnapshot(open), id)
    <3>1. /\ OwnsWhatItHolds(open, id)
          /\ open.active
          /\ open.greeting \notin {Nobody, Anonymous}
          /\ open.handshake = "None"
          /\ open.ticketReq = NoTicket
      BY <1>1, <2>1 DEF SeatInv, OwnsWhatItHolds, SeatIsReal, Session, Cancel
    <3> HIDE DEF open
    <3>2. QED
      BY <1>3, <3>1, ApplyRoomSnapshotType, ApplyRoomSnapshotSafe DEF Good
  <2>4. Good(unseated, id)
    <3>1. SeatInv(unseated, id)
      BY <1>1, <1>7, <2>1 DEF SeatInv, OwnsWhatItHolds, TicketAuthenticates,
         SeatIsReal, Session, ClearRoom, CancelReconnectTasks, Cancel
    <3>2. ClearRoom(CancelReconnectTasks(open)) \in Session
      BY <1>3, CancelReconnectTasksType, ClearRoomType
    <3>3. QED
      BY <3>1, <3>2, UnseatedBrowsingFields DEF Good
  <2>5. ServerHello(s, competition, resumed) \in
          {FailResumeAtDeadline(offered), ApplyRoomSnapshot(open), unseated}
    BY <1>7 DEF ServerHello
  <2>6. QED
    BY <2>2, <2>3, <2>4, <2>5
<1>8. QED
  BY <1>1, <1>4, <1>5, <1>6, <1>7 DEF Session, HandshakeKind

LEMMA IncompatibleGood ==
    ASSUME NEW s, NEW id, Good(s, id), s.gen # NoGeneration
    PROVE  Good(Incompatible(s), id)
<1> DEFINE r == [s EXCEPT !.fallback = FALSE, !.legacyOnly = TRUE]
<1>1. r \in Session
  BY DEF Good, Session
<1>2. SeatInv(r, id)
  BY DEF Good, SeatInv, OwnsWhatItHolds, TicketAuthenticates, SeatIsReal, Session
<1> HIDE DEF r
<1>3. Good(StartAnonymousBrowseAttempt(r), id)
  BY <1>1, <1>2, StartAnonymousBrowseAttemptType,
     StartAnonymousBrowseAttemptSafe DEF Good
<1>4. Good(FailProtocol(s), id)
  BY FailProtocolType, FailProtocolSafe DEF Good, SeatInv, SeatIsReal
<1>5. QED
  BY <1>3, <1>4 DEF Incompatible, r

LEMMA DirectoryFields ==
    ASSUME NEW r \in Session
    PROVE  [r EXCEPT !.browseBackoff = InitialBackoff,
                     !.directoryReady = TRUE] \in Session
BY DelayAssumption DEF Session

LEMMA DirectorySnapshotGood ==
    ASSUME NEW s, NEW id, Good(s, id), s.ready
    PROVE  Good(DirectorySnapshot(s), id)
<1> DEFINE r == [Cancel(s, BrowseTasks) EXCEPT !.browseBackoff = InitialBackoff,
                                               !.directoryReady = TRUE]
<1>1. r \in Session
  BY CancelType, DirectoryFields DEF Good
<1>2. SeatInv(r, id)
  BY DEF Good, SeatInv, OwnsWhatItHolds, TicketAuthenticates, SeatIsReal,
         Session, Cancel
<1>3. QED
  BY <1>1, <1>2 DEF DirectorySnapshot, Good

LEMMA RoomSnapshotEventGood ==
    ASSUME NEW s, NEW id, Good(s, id), s.ready
    PROVE  Good(RoomSnapshotEvent(s), id)
<1>1. s \in Session /\ SeatInv(s, id)
  BY DEF Good
<1>2. CASE s.admission = "sent"
  <2>1. s.greeting \notin {Nobody, Anonymous} /\ s.active
    BY <1>1, <1>2 DEF SeatInv, TicketAuthenticates, SeatIsReal
  <2>2. ApplyRoomSnapshot(s) \in Session
    BY <1>1, <2>1, ApplyRoomSnapshotType
  <2>3. SeatInv(ApplyRoomSnapshot(s), id)
    BY <1>1, <2>1 DEF ApplyRoomSnapshot, SeatInv, OwnsWhatItHolds,
       TicketAuthenticates, SeatIsReal, Session, ClearPendingAdmission,
       CancelReconnectTasks, Cancel
  <2>4. QED
    BY <1>1, <2>2, <2>3 DEF RoomSnapshotEvent, Good
<1>3. QED
  BY <1>2 DEF RoomSnapshotEvent

LEMMA CommandsFields ==
    ASSUME NEW r \in Session, NEW c \in SUBSET [kind : CommandKind, life : Nat]
    PROVE  [r EXCEPT !.commands = c] \in Session
BY DEF Session

LEMMA CommandErrorGood ==
    ASSUME NEW s, NEW id, Good(s, id), NEW c \in s.commands, NEW stale
    PROVE  Good(CommandError(s, c, stale), id)
<1> DEFINE answered == [s EXCEPT !.commands = @ \ {c}]
           refused == [ClearPendingAdmission(answered)
                         EXCEPT !.state = "Browsing"]
           settled == IF c.kind = "admission" THEN refused ELSE answered
<1>1. s \in Session /\ SeatInv(s, id)
  BY DEF Good
<1>2. answered \in Session
  <2>1. s.commands \ {c} \in SUBSET [kind : CommandKind, life : Nat]
    BY <1>1 DEF Session
  <2>2. QED
    BY <1>1, <2>1, CommandsFields
<1>3. refused \in Session
  BY <1>2, ClearPendingAdmissionType, StateFields DEF State
<1>4. settled \in Session /\ settled.seat = s.seat /\ settled.active = s.active
  BY <1>1, <1>2, <1>3 DEF Session, ClearPendingAdmission
<1>5. ASSUME c.life = s.life
      PROVE  SeatInv(settled, id)
  <2>1. CASE c.kind = "admission"
    <3>1. /\ s.state = "Browsing"
          /\ s.authenticated
          /\ \A d \in s.commands \ {c} : d.kind # "admission"
      <4>1. s.state = "Browsing" /\ s.authenticated
        BY <1>1, <2>1 DEF SeatInv, TicketAuthenticates, SeatIsReal
      <4>2. ASSUME NEW d \in s.commands, d.kind = "admission"
            PROVE  d = c
        <5>1. d.life = s.life
          BY <1>1, <4>2 DEF SeatInv, TicketAuthenticates
        <5>2. /\ c \in [kind : CommandKind, life : Nat]
              /\ d \in [kind : CommandKind, life : Nat]
          BY <1>1 DEF Session
        <5>3. QED
          BY <1>5, <2>1, <4>2, <5>1, <5>2
      <4>3. QED
        BY <4>1, <4>2
    <3>2. QED
      BY <1>1, <2>1, <3>1 DEF SeatInv, OwnsWhatItHolds, TicketAuthenticates,
         SeatIsReal, Session, ClearPendingAdmission
  <2>2. CASE c.kind # "admission"
    BY <1>1, <2>2 DEF SeatInv, OwnsWhatItHolds, TicketAuthenticates,
       SeatIsReal, Session
  <2>3. QED
    BY <2>1, <2>2
<1> HIDE DEF settled
<1>6. ASSUME s.seat # Nobody, c.life = s.life
      PROVE  Good(BeginReconnect(settled), id)
  <2>1. /\ settled.active
        /\ settled.seat # Nobody
        /\ OwnsWhatItHolds(settled, id)
    BY <1>1, <1>4, <1>5, <1>6 DEF SeatInv, SeatIsReal
  <2>2. QED
    BY <1>4, <2>1, BeginReconnectType, BeginReconnectSafe DEF Good
<1>7. \/ CommandError(s, c, stale) = s
      \/ c.life = s.life /\ CommandError(s, c, stale) = settled
      \/ /\ c.life = s.life /\ s.seat # Nobody
         /\ CommandError(s, c, stale) = BeginReconnect(settled)
  BY DEF CommandError, HasRoom, settled
<1>8. QED
  BY <1>1, <1>4, <1>5, <1>6, <1>7 DEF Good

LEMMA ServerGoingAwayFields ==
    ASSUME NEW r \in Session
    PROVE  [r EXCEPT !.authenticated = FALSE, !.state = "Error"] \in Session
BY ZenonT(30) DEF Session, State

LEMMA ServerGoingAwayGood ==
    ASSUME NEW s, NEW id, Good(s, id), s.ready
    PROVE  Good(ServerGoingAway(s), id)
<1>1. CancelReconnectTasks(Cancel(s, BrowseTasks)) \in Session
  BY CancelType, CancelReconnectTasksType DEF Good
<1>2. ClearRoom(ClearPendingAdmission(InvalidateTransport(
        CancelReconnectTasks(Cancel(s, BrowseTasks))))) \in Session
  BY <1>1, InvalidateTransportType, ClearPendingAdmissionType, ClearRoomType
<1>3. ServerGoingAway(s) \in Session
  BY <1>2, ServerGoingAwayFields DEF ServerGoingAway
<1>4. SeatInv(ServerGoingAway(s), id)
  BY DEF Good, ServerGoingAway, SeatInv, OwnsWhatItHolds,
     TicketAuthenticates, SeatIsReal, Session, ClearRoom,
     ClearPendingAdmission, InvalidateTransport, CancelReconnectTasks, Cancel
<1>5. QED
  BY <1>3, <1>4 DEF Good

LEMMA ReturnToAuthenticatedBrowserGood ==
    ASSUME NEW s, NEW id, Good(s, id), s.ready
    PROVE  Good(ReturnToAuthenticatedBrowser(s), id)
<1>1. SeatInv(ReturnToAuthenticatedBrowser(s), id)
  BY DEF Good, ReturnToAuthenticatedBrowser, SeatInv, OwnsWhatItHolds,
     TicketAuthenticates, SeatIsReal, Session, ClearRoom, ClearPendingAdmission
<1>2. QED
  BY <1>1, ReturnToAuthenticatedBrowserType DEF Good

LEMMA BeginReconnectGood ==
    ASSUME NEW s, NEW id, Good(s, id), HasRoom(s)
    PROVE  Good(BeginReconnect(s), id)
<1>1. s.active /\ s.seat # Nobody /\ OwnsWhatItHolds(s, id) /\ s \in Session
  BY DEF Good, HasRoom, SeatInv, SeatIsReal, Session
<1>2. QED
  BY <1>1, BeginReconnectType, BeginReconnectSafe DEF Good

LEMMA DroppedFields ==
    ASSUME NEW r \in Session
    PROVE  [r EXCEPT !.gen = NoGeneration, !.greeting = Nobody,
                     !.ready = FALSE, !.handshake = "None"] \in Session
BY DEF Session, HandshakeKind, NoGeneration

LEMMA LinkLostGood ==
    ASSUME NEW s \in Session, NEW id, NEW otherwise \in Session, s.active,
           OwnsWhatItHolds(s, id), SeatIsReal(s),
           \A c \in s.commands : c.kind = "admission" => s.admission = "sent",
           ~s.authenticated => SeatInv(s, id),
           OwnsWhatItHolds(otherwise, id), SeatIsReal(otherwise),
           otherwise.handshake = "None", ~otherwise.ready,
           otherwise.commands = s.commands, otherwise.seat = s.seat,
           otherwise.active, otherwise.state = s.state
    PROVE  Good(LinkLost(s, otherwise), id)
<1> DEFINE failed == [ClearPendingAdmission(otherwise)
                        EXCEPT !.authenticated = FALSE, !.state = "Error"]
<1>1. CASE s.state = "InRoom"
  <2>1. s.seat # Nobody
    BY <1>1 DEF SeatIsReal
  <2>2. QED
    BY <1>1, <2>1, BeginReconnectType, BeginReconnectSafe DEF LinkLost, Good
<1>2. CASE s.state = "Reconnecting"
  <2>1. s.seat # Nobody /\ s.admission = "none" /\ ~s.authenticated
    BY <1>2 DEF SeatIsReal
  <2>2. QED
    BY <1>2, <2>1, ScheduleReconnectType, ScheduleReconnectSafe
       DEF LinkLost, Good
<1>3. CASE s.state = "ConnectingAuthenticated" \/ s.admission # "none"
  BY <1>1, <1>2, <1>3, RestoreAnonymousType, RestoreAnonymousSafe
     DEF LinkLost, Good
<1>4. CASE IsAnonymousBrowsing(s)
  <2>1. Good(ScheduleAnonymousBrowseRetry(s), id)
    BY <1>4, ScheduleAnonymousBrowseRetryType,
       ScheduleAnonymousBrowseRetrySafe DEF Good, IsAnonymousBrowsing
  <2>2. QED
    BY <1>1, <1>2, <1>3, <1>4, <2>1 DEF LinkLost
<1>5. CASE /\ s.state \notin {"InRoom", "Reconnecting",
                              "ConnectingAuthenticated"}
           /\ s.admission = "none"
           /\ ~IsAnonymousBrowsing(s)
  <2>1. failed \in Session
    BY ClearPendingAdmissionType, ServerGoingAwayFields
  <2>2. SeatInv(failed, id)
    BY <1>5 DEF SeatInv, OwnsWhatItHolds, TicketAuthenticates, SeatIsReal,
           Session, ClearPendingAdmission
  <2>3. QED
    BY <1>5, <2>1, <2>2 DEF LinkLost, Good
<1>6. QED
  BY <1>1, <1>2, <1>3, <1>4, <1>5

LEMMA DisconnectedGood ==
    ASSUME NEW s, NEW id, Good(s, id), NEW g
    PROVE  Good(Disconnected(s, g), id)
<1> DEFINE r == [s EXCEPT !.gen = NoGeneration, !.greeting = Nobody,
                          !.ready = FALSE, !.handshake = "None"]
<1>1. s \in Session /\ SeatInv(s, id) /\ r \in Session
  BY DroppedFields DEF Good
<1>2. ASSUME s.active
      PROVE  Good(LinkLost(r, r), id)
  <2>1. /\ r.active
        /\ OwnsWhatItHolds(r, id)
        /\ SeatIsReal(r)
        /\ \A c \in r.commands : c.kind = "admission" => r.admission = "sent"
        /\ ~r.authenticated => SeatInv(r, id)
        /\ r.handshake = "None"
        /\ ~r.ready
    BY <1>1, <1>2 DEF SeatInv, OwnsWhatItHolds, TicketAuthenticates,
       SeatIsReal, Session
  <2> HIDE DEF r
  <2>2. QED
    BY <1>1, <2>1, LinkLostGood
<1>3. QED
  BY <1>2 DEF Disconnected

LEMMA TransportErrorGood ==
    ASSUME NEW s, NEW id, Good(s, id), NEW g
    PROVE  Good(TransportError(s, g), id)
<1> DEFINE r == InvalidateTransport(s)
<1>1. s \in Session /\ SeatInv(s, id) /\ r \in Session
  BY InvalidateTransportType DEF Good
<1>2. ASSUME s.active
      PROVE  Good(LinkLost(s, r), id)
  <2>1. /\ OwnsWhatItHolds(s, id)
        /\ SeatIsReal(s)
        /\ \A c \in s.commands : c.kind = "admission" => s.admission = "sent"
        /\ r.commands = s.commands /\ r.seat = s.seat
        /\ r.active /\ r.state = s.state
        /\ OwnsWhatItHolds(r, id)
        /\ SeatIsReal(r)
        /\ r.handshake = "None"
        /\ ~r.ready
    BY <1>1, <1>2 DEF SeatInv, OwnsWhatItHolds, TicketAuthenticates,
       SeatIsReal, Session, InvalidateTransport
  <2> HIDE DEF r
  <2>2. QED
    BY <1>1, <1>2, <2>1, LinkLostGood
<1>3. QED
  BY <1>2 DEF TransportError

LEMMA TicketFields ==
    ASSUME NEW r \in Session, NEW p \in Profiles \cup {Nobody}
    PROVE  [r EXCEPT !.ticket = p] \in Session
BY DEF Session

LEMMA TakenFields ==
    ASSUME NEW r \in Session
    PROVE  [r EXCEPT !.ticketReq = NoTicket] \in Session
BY DEF Session, NoTicket

LEMMA StartTransportSafe ==
    ASSUME NEW s \in Session, NEW id, s.active, OwnsWhatItHolds(s, id),
           SeatIsReal(s), s.admission # "sent", ~s.authenticated,
           \A c \in s.commands : c.kind # "admission",
           s.ticketReq = NoTicket,
           NEW kind, \/ s.state = "ConnectingAuthenticated" /\ kind = "AuthenticatedAdmission"
                     \/ s.state = "Reconnecting" /\ kind = "Resume"
    PROVE  SeatInv(StartTransport(s, kind), id)
BY ProfilesAssumption
   DEF SeatInv, OwnsWhatItHolds, TicketAuthenticates, SeatIsReal, Session,
       StartTransport, InvalidateTransport

\* A ticket reaches the session only if its profile is still the active one.
LEMMA TicketReadyGood ==
    ASSUME NEW s, NEW id, Good(s, id), NEW req \in Nat \ {0},
           id.profile \in Profiles
    PROVE  Good(TicketReady(s, req, id.profile), id)
<1> DEFINE taken == [s EXCEPT !.ticketReq = NoTicket]
           held == [taken EXCEPT !.ticket = id.profile]
           dropped == [taken EXCEPT !.ticket = Nobody]
<1>1. s \in Session /\ SeatInv(s, id) /\ taken \in Session
  BY TakenFields DEF Good
<1>2. held \in Session /\ dropped \in Session
  BY <1>1, TicketFields
<1>3. CASE s.active /\ req = s.ticketReq
  <2>1. id.loggedIn
    BY <1>1, <1>3 DEF SeatInv, OwnsWhatItHolds, NoTicket
  <2>2. SeatInv(dropped, id)
    BY <1>1 DEF SeatInv, OwnsWhatItHolds, TicketAuthenticates, SeatIsReal,
       Session
  <2>3. OwnsWhatItHolds(taken, id) /\ taken.active
    BY <1>1, <1>3 DEF SeatInv, OwnsWhatItHolds, Session
  <2>4. Good(FailResumeAtDeadline(taken), id)
    BY <1>1, <2>3, FailResumeAtDeadlineType, FailResumeAtDeadlineSafe DEF Good
  <2>5. ASSUME NEW kind \in HandshakeKind,
               \/ /\ s.state = "ConnectingAuthenticated"
                  /\ kind = "AuthenticatedAdmission"
               \/ s.state = "Reconnecting" /\ kind = "Resume"
        PROVE  Good(StartTransport(held, kind), id)
    <3>1. /\ held.active
          /\ OwnsWhatItHolds(held, id)
          /\ SeatIsReal(held)
          /\ held.admission # "sent"
          /\ ~held.authenticated
          /\ \A c \in held.commands : c.kind # "admission"
          /\ held.ticketReq = NoTicket
          /\ held.state = s.state
      BY <1>1, <1>3, <2>1, <2>5 DEF SeatInv, OwnsWhatItHolds,
         TicketAuthenticates, SeatIsReal, Session
    <3> HIDE DEF held
    <3>2. QED
      BY <1>2, <2>5, <3>1, StartTransportType, StartTransportSafe DEF Good
  <2>6. CASE ResumeDeadlineReached(s)
    BY <1>3, <2>4, <2>6 DEF TicketReady
  <2>7. CASE ~ResumeDeadlineReached(s) /\ s.state = "ConnectingAuthenticated"
    <3>1. TicketReady(s, req, id.profile) =
            StartTransport(held, "AuthenticatedAdmission")
      BY <1>3, <2>7 DEF TicketReady
    <3>2. QED
      BY <2>5, <2>7, <3>1 DEF HandshakeKind
  <2>8. CASE ~ResumeDeadlineReached(s) /\ s.state = "Reconnecting"
    <3>1. TicketReady(s, req, id.profile) = StartTransport(held, "Resume")
      BY <1>3, <2>8 DEF TicketReady
    <3>2. QED
      BY <2>5, <2>8, <3>1 DEF HandshakeKind
  <2>9. CASE /\ ~ResumeDeadlineReached(s)
             /\ s.state \notin {"ConnectingAuthenticated", "Reconnecting"}
    <3>1. TicketReady(s, req, id.profile) = dropped
      BY <1>3, <2>9 DEF TicketReady
    <3>2. QED
      BY <1>2, <2>2, <3>1 DEF Good
  <2>10. QED
    BY <2>6, <2>7, <2>8, <2>9
<1>4. CASE ~(s.active /\ req = s.ticketReq)
  BY <1>4 DEF TicketReady
<1>5. QED
  BY <1>3, <1>4

LEMMA TicketFailedGood ==
    ASSUME NEW s, NEW id, Good(s, id), NEW req \in Nat \ {0},
           NEW network
    PROVE  Good(TicketFailed(s, req, network), id)
<1> DEFINE taken == [s EXCEPT !.ticketReq = NoTicket, !.ticket = Nobody]
           unseated == IF s.state = "Reconnecting"
                       THEN ClearRoom(CancelReconnectTasks(taken)) ELSE taken
           cleared == ClearPendingAdmission(unseated)
<1>1. s \in Session /\ SeatInv(s, id) /\ taken \in Session
  BY NoTicketFields DEF Good
<1>2. cleared \in Session
  BY <1>1, CancelReconnectTasksType, ClearRoomType, ClearPendingAdmissionType
<1>3. SeatInv(taken, id) /\ taken.active = s.active /\ taken.state = s.state
  BY <1>1 DEF SeatInv, OwnsWhatItHolds, TicketAuthenticates, SeatIsReal, Session
<1>4. CASE s.active /\ req = s.ticketReq
  <2> HIDE DEF taken
  <2>1. Good(FailResumeAtDeadline(taken), id)
    BY <1>1, <1>3, <1>4, FailResumeAtDeadlineType, FailResumeAtDeadlineSafe
       DEF Good, SeatInv
  <2>2. ASSUME s.state = "Reconnecting"
        PROVE  Good(ScheduleReconnect(taken), id)
    BY <1>1, <1>3, <1>4, <2>2, ScheduleReconnectType, ScheduleReconnectSafe
       DEF Good, SeatInv, SeatIsReal, TicketAuthenticates
  <2>3. Good(OpenAnonymousBrowsing(cleared), id)
    <3>1. /\ cleared.active
          /\ OwnsWhatItHolds(cleared, id)
          /\ cleared.seat = Nobody /\ cleared.greeting = Nobody
          /\ cleared.admission = "none" /\ cleared.ticketReq = NoTicket
          /\ \A c \in cleared.commands : c.kind # "admission"
      <4>1. s.state \in {"ConnectingAuthenticated", "Reconnecting"}
        BY <1>1, <1>4 DEF SeatInv, SeatIsReal, NoTicket
      <4>2. CASE s.state = "Reconnecting"
        <5> DEFINE calm == CancelReconnectTasks(taken)
        <5>1. /\ calm \in Session
              /\ calm.active /\ calm.admission = "none"
              /\ calm.ticketReq = NoTicket /\ calm.greeting = Nobody
              /\ OwnsWhatItHolds(calm, id)
          <6>1. /\ taken.active /\ taken.ticketReq = NoTicket
                /\ taken.admission = "none" /\ taken.greeting = Nobody
                /\ OwnsWhatItHolds(taken, id)
            BY <1>1, <1>3, <1>4, <4>2 DEF taken, SeatInv, SeatIsReal, Session,
               NoTicket
          <6>2. calm \in Session
            BY <1>1, CancelReconnectTasksType
          <6>3. /\ calm.active /\ calm.admission = "none"
                /\ calm.ticketReq = NoTicket /\ calm.greeting = Nobody
            BY <1>1, <6>1 DEF CancelReconnectTasks, Cancel, Session
          <6>4. OwnsWhatItHolds(calm, id)
            BY <1>1, <6>1
               DEF CancelReconnectTasks, Cancel, OwnsWhatItHolds, Session
          <6>5. QED
            BY <6>2, <6>3, <6>4
        <5>2. cleared = ClearPendingAdmission(ClearRoom(calm))
          BY <4>2
        <5> HIDE DEF calm, cleared
        <5>3. QED
          BY <5>1, <5>2 DEF ClearPendingAdmission, ClearRoom, OwnsWhatItHolds,
             Session
      <4>3. CASE s.state = "ConnectingAuthenticated"
        BY <1>1, <1>4, <4>3 DEF taken, SeatInv, OwnsWhatItHolds, SeatIsReal,
           TicketAuthenticates, ClearPendingAdmission, NoTicket, Session
      <4>4. QED
        BY <4>1, <4>2, <4>3
    <3> HIDE DEF cleared
    <3>2. QED
      BY <1>2, <3>1, OpenAnonymousBrowsingType, OpenAnonymousBrowsingSafe
         DEF Good
  <2>4. QED
    BY <1>4, <2>1, <2>2, <2>3 DEF TicketFailed, ResumeDeadlineReached, taken
<1>5. CASE ~(s.active /\ req = s.ticketReq)
  BY <1>5 DEF TicketFailed
<1>6. QED
  BY <1>4, <1>5

LEMMA LastLoggedInFields ==
    ASSUME NEW r \in Session, NEW b \in BOOLEAN
    PROVE  [r EXCEPT !.lastLoggedIn = b] \in Session
BY DEF Session

LEMMA ActiveProfileChangedGood ==
    ASSUME NEW s, NEW old, Good(s, old), NEW id, id.loggedIn \in BOOLEAN
    PROVE  Good(ActiveProfileChanged(s, id.loggedIn), id)
<1> DEFINE r == [s EXCEPT !.lastLoggedIn = id.loggedIn]
<1>1. r \in Session
  BY LastLoggedInFields DEF Good
<1>2. CleanupForIdentityChange(r) \in Session
  BY <1>1, CleanupForIdentityChangeType
<1>3. SeatInv(CleanupForIdentityChange(r), id)
  BY CleanupForIdentityChangeSafe DEF Good
<1>4. QED
  BY <1>2, <1>3 DEF ActiveProfileChanged, Good

LEMMA LoginStateChangedGood ==
    ASSUME NEW s, NEW old, old.loggedIn \in BOOLEAN, Good(s, old),
           NEW id, id.profile = old.profile, id.loggedIn = ~old.loggedIn
    PROVE  Good(LoginStateChanged(s, id.loggedIn), id)
<1> DEFINE t == [s EXCEPT !.lastLoggedIn = id.loggedIn]
<1>1. s \in Session /\ SeatInv(s, old) /\ t \in Session
  BY LastLoggedInFields DEF Good
<1>2. s.lastLoggedIn = ~id.loggedIn /\ id.loggedIn \in BOOLEAN
  BY <1>1 DEF SeatInv, OwnsWhatItHolds
<1>3. CASE ~s.active
  <2>1. SeatInv(t, id)
    BY <1>1, <1>3 DEF SeatInv, OwnsWhatItHolds, TicketAuthenticates,
       SeatIsReal, Session
  <2>2. QED
    BY <1>1, <1>3, <2>1 DEF LoginStateChanged, Good
<1>4. CASE s.active /\ id.loggedIn
  <2>1. /\ OwnsWhatItHolds(t, id) /\ t.seat = Nobody /\ ~s.authenticated
        /\ s.admission # "sent"
    BY <1>1, <1>2, <1>4 DEF SeatInv, OwnsWhatItHolds, TicketAuthenticates,
       Session
  <2>2. \A c \in t.commands : c.kind # "admission"
    BY <1>1, <2>1 DEF SeatInv, TicketAuthenticates, Session
  <2>3. CASE s.admission # "none"
    <3>1. t.admission = "wanted" /\ t.active
      BY <1>1, <1>4, <2>1, <2>3 DEF Session, AdmissionState
    <3>2. LoginStateChanged(s, id.loggedIn) =
            BeginAuthenticatedAdmission(t, id.loggedIn)
      BY <1>2, <1>4, <2>3 DEF LoginStateChanged
    <3> HIDE DEF t
    <3>3. SeatInv(BeginAuthenticatedAdmission(t, id.loggedIn), id)
      BY <1>1, <1>4, <2>1, <2>2, <3>1, BeginAuthenticatedAdmissionSafe
    <3>4. QED
      BY <1>1, <3>2, <3>3, BeginAuthenticatedAdmissionType DEF Good
  <2>4. CASE s.admission = "none"
    <3>1. SeatInv(t, id)
      BY <1>1, <2>1, <2>2 DEF SeatInv, OwnsWhatItHolds, TicketAuthenticates,
         SeatIsReal, Session
    <3>2. QED
      BY <1>1, <1>2, <1>4, <2>4, <3>1 DEF LoginStateChanged, Good
  <2>5. QED
    BY <2>3, <2>4
<1>5. CASE s.active /\ ~id.loggedIn
  <2>1. LoginStateChanged(s, id.loggedIn) = CleanupForIdentityChange(t)
    BY <1>2, <1>5 DEF LoginStateChanged
  <2>2. QED
    BY <1>1, <1>2, <2>1, CleanupForIdentityChangeType,
       CleanupForIdentityChangeSafe DEF Good
<1>6. QED
  BY <1>2, <1>3, <1>4, <1>5

LEMMA ConnectForBrowsingFields ==
    ASSUME NEW r \in Session
    PROVE  [r EXCEPT !.active = TRUE, !.fallback = TRUE,
                     !.legacyOnly = FALSE] \in Session
BY DEF Session

LEMMA ConnectForBrowsingGood ==
    ASSUME NEW s, NEW id, Good(s, id)
    PROVE  Good(ConnectForBrowsing(s), id)
<1> DEFINE r == [s EXCEPT !.active = TRUE, !.fallback = TRUE,
                          !.legacyOnly = FALSE]
<1>1. r \in Session
  BY ConnectForBrowsingFields DEF Good
<1>2. CASE ~s.active
  <2>1. /\ r.active /\ OwnsWhatItHolds(r, id)
        /\ r.seat = Nobody /\ r.greeting = Nobody
        /\ r.admission = "none" /\ r.ticketReq = NoTicket
        /\ \A c \in r.commands : c.kind # "admission"
    BY <1>2 DEF Good, SeatInv, OwnsWhatItHolds, TicketAuthenticates,
       SeatIsReal, Session
  <2> HIDE DEF r
  <2>2. Good(OpenAnonymousBrowsing(r), id)
    BY <1>1, <2>1, OpenAnonymousBrowsingType, OpenAnonymousBrowsingSafe
       DEF Good
  <2>3. QED
    BY <1>2, <2>2 DEF ConnectForBrowsing, r
<1>3. QED
  BY <1>2 DEF ConnectForBrowsing

LEMMA JoinFields ==
    ASSUME NEW r \in Session, NEW a \in AdmissionState, NEW b \in BOOLEAN
    PROVE  /\ [r EXCEPT !.admission = a] \in Session
           /\ [r EXCEPT !.loginRequired = b] \in Session
BY DEF Session

LEMMA JoinRoomGood ==
    ASSUME NEW s, NEW id, Good(s, id), id.loggedIn \in BOOLEAN
    PROVE  Good(JoinRoom(s, id.loggedIn), id)
<1> DEFINE wanted == [ClearPendingAdmission(s) EXCEPT !.admission = "wanted"]
           asked == [wanted EXCEPT !.loginRequired = TRUE]
<1>1. s \in Session /\ SeatInv(s, id)
  BY DEF Good
<1>2. wanted \in Session /\ asked \in Session
  BY <1>1, ClearPendingAdmissionType, JoinFields DEF AdmissionState
<1>3. CASE s.active /\ s.state = "Browsing" /\ s.admission # "sent"
  <2>1. SeatInv(wanted, id) /\ SeatInv(asked, id)
    BY <1>1, <1>3 DEF SeatInv, OwnsWhatItHolds, TicketAuthenticates,
       SeatIsReal, Session, ClearPendingAdmission
  <2>2. /\ wanted.active /\ wanted.admission = "wanted"
        /\ wanted.seat = Nobody
        /\ \A c \in wanted.commands : c.kind # "admission"
    BY <1>1, <1>3 DEF SeatInv, TicketAuthenticates, SeatIsReal, Session,
       ClearPendingAdmission
  <2> HIDE DEF wanted, asked
  <2>3. Good(SendPendingAdmission(wanted), id)
    BY <1>2, <2>1, SendPendingAdmissionType, SendPendingAdmissionSafe DEF Good
  <2>4. ASSUME id.loggedIn
        PROVE  Good(BeginAuthenticatedAdmission(wanted, id.loggedIn), id)
    BY <1>2, <2>1, <2>2, <2>4, BeginAuthenticatedAdmissionType,
       BeginAuthenticatedAdmissionSafe DEF Good, SeatInv
  <2>5. QED
    BY <1>2, <2>1, <2>3, <2>4 DEF JoinRoom, Good, wanted, asked
<1>4. CASE ~(s.active /\ s.state = "Browsing" /\ s.admission # "sent")
  BY <1>4 DEF JoinRoom
<1>5. QED
  BY <1>3, <1>4

LEMMA LeaveFields ==
    ASSUME NEW r \in Session, NEW n \in Nat
    PROVE  [r EXCEPT !.life = n, !.ticketReq = NoTicket] \in Session
BY DEF Session, NoTicket

LEMMA LeaveRoomGood ==
    ASSUME NEW s, NEW id, Good(s, id)
    PROVE  Good(LeaveRoom(s), id)
<1> DEFINE calm == CancelReconnectTasks(s)
           left == [calm EXCEPT !.life = s.life + 1, !.ticketReq = NoTicket]
           out == ClearRoom(InvalidateTransport(left))
           command == [kind |-> "leave", life |-> s.life]
           leaving == [s EXCEPT !.commands = @ \cup {command}]
<1>1. s \in Session /\ SeatInv(s, id)
  BY DEF Good
<1>2. CASE s.state = "Reconnecting"
  <2>1. out \in Session
    <3>1. calm \in Session /\ s.life + 1 \in Nat
      BY <1>1, CancelReconnectTasksType DEF Session
    <3> HIDE DEF calm
    <3>2. left \in Session
      BY <3>1, LeaveFields
    <3> HIDE DEF left
    <3>3. QED
      BY <3>2, InvalidateTransportType, ClearRoomType
  <2>2. /\ s.active /\ s.admission = "none"
    BY <1>1, <1>2 DEF SeatInv, SeatIsReal
  <2>3. /\ out.active /\ out.seat = Nobody /\ out.greeting = Nobody
        /\ out.admission = "none" /\ out.ticketReq = NoTicket
        /\ out.commands = {}
        /\ OwnsWhatItHolds(out, id)
    BY <1>1, <2>2 DEF SeatInv, OwnsWhatItHolds, Session, ClearRoom,
       InvalidateTransport, CancelReconnectTasks, Cancel
  <2> HIDE DEF out
  <2>4. Good(OpenAnonymousBrowsing(out), id)
    BY <2>1, <2>3, OpenAnonymousBrowsingType, OpenAnonymousBrowsingSafe
       DEF Good
  <2>5. QED
    BY <1>2, <2>4 DEF LeaveRoom, out
<1>3. CASE s.state = "InRoom" /\ s.ready
  <2>1. s.commands \cup {command} \in SUBSET [kind : CommandKind, life : Nat]
    BY <1>1 DEF Session, CommandKind
  <2>2. leaving \in Session
    BY <1>1, <2>1, CommandsFields
  <2>3. SeatInv(leaving, id)
    BY <1>1 DEF SeatInv, OwnsWhatItHolds, TicketAuthenticates, SeatIsReal,
       Session
  <2>4. QED
    BY <1>3, <2>2, <2>3 DEF LeaveRoom, Good
<1>4. QED
  BY <1>2, <1>3 DEF LeaveRoom

\* A session that is resuming can start an attempt, or wait for the next one.
LEMMA ReconnectingGood ==
    ASSUME NEW s, NEW id, Good(s, id), s.state = "Reconnecting", s.active,
           NEW names
    PROVE  /\ Good(StartResumeAttempt(Cancel(s, names)), id)
           /\ Good(ScheduleReconnect(Cancel(s, names)), id)
           /\ Good(FailResumeAtDeadline(Cancel(s, names)), id)
<1> DEFINE r == Cancel(s, names)
<1>1. r \in Session
  BY CancelType DEF Good
<1>2. /\ r.active /\ r.state = "Reconnecting" /\ r.seat # Nobody
      /\ r.admission = "none" /\ ~r.authenticated
      /\ \A c \in r.commands : c.kind # "admission"
      /\ OwnsWhatItHolds(r, id)
  BY DEF Good, SeatInv, OwnsWhatItHolds, TicketAuthenticates, SeatIsReal,
     Session, Cancel
<1> HIDE DEF r
<1>3. Good(StartResumeAttempt(r), id)
  BY <1>1, <1>2, StartResumeAttemptType, StartResumeAttemptSafe DEF Good
<1>4. Good(ScheduleReconnect(r), id)
  BY <1>1, <1>2, ScheduleReconnectType, ScheduleReconnectSafe DEF Good
<1>5. Good(FailResumeAtDeadline(r), id)
  BY <1>1, <1>2, FailResumeAtDeadlineType, FailResumeAtDeadlineSafe DEF Good
<1>6. QED
  BY <1>3, <1>4, <1>5 DEF r

LEMMA RetryGood ==
    ASSUME NEW s, NEW id, Good(s, id)
    PROVE  Good(Retry(s), id)
<1>1. CASE s.active /\ s.state = "Reconnecting"
  BY <1>1, ReconnectingGood DEF Retry
<1>2. CASE s.active /\ s.state = "Error"
  <2> DEFINE r == InvalidateTransport(s)
  <2>1. r \in Session
    BY InvalidateTransportType DEF Good
  <2>2. /\ r.active /\ r.seat = Nobody /\ r.greeting = Nobody
        /\ r.admission = "none" /\ r.ticketReq = NoTicket
        /\ \A c \in r.commands : c.kind # "admission"
        /\ OwnsWhatItHolds(r, id)
    BY <1>2 DEF Good, SeatInv, OwnsWhatItHolds, TicketAuthenticates,
       SeatIsReal, Session, InvalidateTransport
  <2> HIDE DEF r
  <2>3. Good(OpenAnonymousBrowsing(r), id)
    BY <2>1, <2>2, OpenAnonymousBrowsingType, OpenAnonymousBrowsingSafe
       DEF Good
  <2>4. QED
    BY <1>2, <2>3 DEF Retry, r
<1>3. QED
  BY <1>1, <1>2 DEF Retry

LEMMA ExitFields ==
    ASSUME NEW r \in Session
    PROVE  [r EXCEPT !.fallback = FALSE, !.legacyOnly = FALSE,
                     !.directoryReady = FALSE, !.authenticated = FALSE,
                     !.active = FALSE, !.state = "Disconnected"] \in Session
BY ZenonT(30) DEF Session, State

LEMMA ExitArenaGood ==
    ASSUME NEW s, NEW id, Good(s, id)
    PROVE  Good(ExitArena(s), id)
<1>1. CASE s.active
  <2>1. ClearRoom(InvalidateTransport(ClearPendingAdmission(
            InvalidateAsyncWork(s)))) \in Session
    BY InvalidateAsyncWorkType, ClearPendingAdmissionType,
       InvalidateTransportType, ClearRoomType DEF Good
  <2>2. ExitArena(s) \in Session
    BY <1>1, <2>1, ExitFields DEF ExitArena
  <2>3. SeatInv(ExitArena(s), id)
    BY <1>1 DEF Good, ExitArena, SeatInv, OwnsWhatItHolds,
       TicketAuthenticates, SeatIsReal, Session, ClearRoom,
       InvalidateTransport, ClearPendingAdmission, InvalidateAsyncWork,
       CancelReconnectTasks, Cancel
  <2>4. QED
    BY <2>2, <2>3 DEF Good
<1>2. QED
  BY <1>1 DEF ExitArena

LEMMA TimerFiredGood ==
    ASSUME NEW s, NEW id, Good(s, id), NEW name \in TaskNames
    PROVE  Good(TimerFired(s, name), id)
<1> DEFINE fired == Cancel(s, {name})
<1>1. fired \in Session
  BY CancelType DEF Good
<1>2. SeatInv(fired, id)
  BY DEF Good, SeatInv, OwnsWhatItHolds, TicketAuthenticates, SeatIsReal,
     Session, Cancel
<1>3. CASE s.active /\ s.state = "Reconnecting"
  <2>1. /\ Good(StartResumeAttempt(fired), id)
        /\ Good(ScheduleReconnect(fired), id)
        /\ Good(FailResumeAtDeadline(fired), id)
    BY <1>3, ReconnectingGood
  <2>2. ~IsAnonymousBrowsing(s)
    BY <1>3 DEF IsAnonymousBrowsing
  <2> HIDE DEF fired
  <2>3. Good(fired, id)
    BY <1>1, <1>2 DEF Good
  <2>4. TimerFired(s, name) \in {StartResumeAttempt(fired), fired,
            ScheduleReconnect(fired), FailResumeAtDeadline(fired)}
    BY <2>2 DEF TimerFired, fired, TaskNames, ReconnectTasks, BrowseTasks
  <2>5. QED
    BY <2>1, <2>3, <2>4
<1>4. CASE ~(s.active /\ s.state = "Reconnecting")
  <2> HIDE DEF fired
  <2>1. /\ Good(fired, id)
        /\ Good(ScheduleAnonymousBrowseRetry(fired), id)
        /\ Good(StartAnonymousBrowseAttempt(fired), id)
    BY <1>1, <1>2, ScheduleAnonymousBrowseRetryType,
       ScheduleAnonymousBrowseRetrySafe, StartAnonymousBrowseAttemptType,
       StartAnonymousBrowseAttemptSafe DEF Good
  <2>2. TimerFired(s, name) \in {fired, ScheduleAnonymousBrowseRetry(fired),
            StartAnonymousBrowseAttempt(fired)}
    BY <1>4 DEF TimerFired, fired, TaskNames, ReconnectTasks, BrowseTasks
  <2>3. QED
    BY <2>1, <2>2
<1>5. QED
  BY <1>3, <1>4

LEMMA TickGood ==
    ASSUME NEW s, NEW id, Good(s, id), NEW tasks \in [TaskNames -> Task],
           NEW d \in Nat \cup {NoDeadline}
    PROVE  Good([s EXCEPT !.tasks = tasks, !.deadline = d], id)
<1>1. s \in Session /\ SeatInv(s, id)
  BY DEF Good
<1>2. [s EXCEPT !.tasks = tasks, !.deadline = d] \in Session
  BY <1>1 DEF Session
<1>3. SeatInv([s EXCEPT !.tasks = tasks, !.deadline = d], id)
  BY <1>1 DEF SeatInv, OwnsWhatItHolds, TicketAuthenticates, SeatIsReal,
     Session
<1>4. QED
  BY <1>2, <1>3 DEF Good

-----------------------------------------------------------------------------
(* Steps.                                                                   *)

LEMMA RequestedType ==
    ASSUME session \in Session, NEW pool \in SUBSET Ticket, NEW after,
           NEW who \in [profile : Profiles, loggedIn : BOOLEAN]
    PROVE  Requested(pool, after, who) \in SUBSET Ticket
<1>1. [req |-> session.nextTicket, profile |-> who.profile,
       refused |-> ~who.loggedIn] \in Ticket
  BY DEF Session, Ticket
<1>2. QED
  BY <1>1 DEF Requested

LEMMA CountdownType ==
    ASSUME TypeOK, Free \/ Disrupt
    PROVE  disruptions' \in 0..MaxDisruptions
BY BoundAssumption DEF TypeOK, Free, Disrupt

\* A handler that leaves a good session behind keeps the invariant.
LEMMA BecomesKeeps ==
    ASSUME IInv, NEW after, Good(after, identity), Becomes(after),
           Free \/ Disrupt
    PROVE  IInv'
<1>1. tickets' \in SUBSET Ticket
  BY RequestedType DEF IInv, TypeOK, Becomes
<1>2. disruptions' \in 0..MaxDisruptions
  BY CountdownType DEF IInv
<1>3. QED
  BY <1>1, <1>2 DEF IInv, TypeOK, Becomes, Good

LEMMA AnsweredKeeps ==
    ASSUME IInv, NEW t, NEW after, Good(after, identity), Answered(t, after),
           Free \/ Disrupt
    PROVE  IInv'
<1>1. tickets' \in SUBSET Ticket
  BY RequestedType DEF IInv, TypeOK, Answered
<1>2. disruptions' \in 0..MaxDisruptions
  BY CountdownType DEF IInv
<1>3. QED
  BY <1>1, <1>2 DEF IInv, TypeOK, Answered, Good

LEMMA InitKeeps == Init => IInv
<1> SUFFICES ASSUME Init PROVE IInv
  OBVIOUS
<1>1. session \in Session
  BY DelayAssumption DEF Init, Session, State, AdmissionState, HandshakeKind,
     Task, Off, NoGeneration, NoTicket
<1>2. SeatInv(session, identity)
  BY ProfilesAssumption DEF Init, SeatInv, OwnsWhatItHolds,
     TicketAuthenticates, SeatIsReal, NoGeneration, NoTicket
<1>3. identity \in [profile : Profiles, loggedIn : BOOLEAN] /\ tickets = {}
  BY DEF Init
<1>4. disruptions \in 0..MaxDisruptions
  BY BoundAssumption DEF Init
<1>5. QED
  BY <1>1, <1>2, <1>3, <1>4 DEF IInv, TypeOK

LEMMA UserKeeps ==
    ASSUME IInv,
           UserConnects \/ UserJoins \/ UserLeaves \/ UserRetries \/ UserExits
    PROVE  IInv'
<1>1. Good(session, identity) /\ identity.loggedIn \in BOOLEAN
  BY DEF IInv, TypeOK, Good
<1>2. CASE UserConnects
  BY <1>1, <1>2, ConnectForBrowsingGood, BecomesKeeps DEF UserConnects
<1>3. CASE UserJoins
  BY <1>1, <1>3, JoinRoomGood, BecomesKeeps DEF UserJoins
<1>4. CASE UserLeaves
  BY <1>1, <1>4, LeaveRoomGood, BecomesKeeps DEF UserLeaves
<1>5. CASE UserRetries
  BY <1>1, <1>5, RetryGood, BecomesKeeps DEF UserRetries
<1>6. CASE UserExits
  BY <1>1, <1>6, ExitArenaGood, BecomesKeeps DEF UserExits
<1>7. QED
  BY <1>2, <1>3, <1>4, <1>5, <1>6

LEMMA SocketKeeps ==
    ASSUME IInv, SocketConnects \/ SocketCloses \/ SocketFails
    PROVE  IInv'
<1>1. Good(session, identity) /\ Generations \subseteq Nat \ {0}
  BY DEF IInv, TypeOK, Good, Generations, Session
<1>2. CASE SocketConnects
  <2>1. PICK g \in Generations : Becomes(Connected(session, g))
    BY <1>2 DEF SocketConnects
  <2>2. Good(Connected(session, g), identity)
    BY <1>1, <1>2, ConnectedGood DEF SocketConnects
  <2>3. QED
    BY <1>2, <2>1, <2>2, BecomesKeeps DEF SocketConnects
<1>3. CASE SocketCloses
  <2>1. PICK g \in Generations : Becomes(Disconnected(session, g))
    BY <1>3 DEF SocketCloses
  <2>2. Good(Disconnected(session, g), identity)
    BY <1>1, DisconnectedGood
  <2>3. QED
    BY <1>3, <2>1, <2>2, BecomesKeeps DEF SocketCloses
<1>4. CASE SocketFails
  <2>1. PICK g \in Generations : Becomes(TransportError(session, g))
    BY <1>4 DEF SocketFails
  <2>2. Good(TransportError(session, g), identity)
    BY <1>1, TransportErrorGood
  <2>3. QED
    BY <1>4, <2>1, <2>2, BecomesKeeps DEF SocketFails
<1>5. QED
  BY <1>2, <1>3, <1>4

LEMMA ServerKeeps ==
    ASSUME IInv,
           \/ HelloArrives \/ DirectoryArrives \/ RoomSnapshotArrives
           \/ CommandRefused \/ SelfLeaves \/ NewerRoomGeneration
           \/ ProtocolBreaks \/ ServerTooOld \/ ServerLeaves
    PROVE  IInv'
<1>1. Good(session, identity)
  BY DEF IInv, TypeOK, Good
<1>2. CASE HelloArrives
  <2>1. PICK competition \in BOOLEAN, resumed \in BOOLEAN :
            Becomes(ServerHello(session, competition, resumed))
    BY <1>2 DEF HelloArrives
  <2>2. Good(ServerHello(session, competition, resumed), identity)
    BY <1>1, <1>2, ServerHelloGood DEF HelloArrives
  <2>3. QED
    BY <1>2, <2>1, <2>2, BecomesKeeps DEF HelloArrives
<1>3. CASE DirectoryArrives
  BY <1>1, <1>3, DirectorySnapshotGood, BecomesKeeps DEF DirectoryArrives
<1>4. CASE RoomSnapshotArrives
  BY <1>1, <1>4, RoomSnapshotEventGood, BecomesKeeps DEF RoomSnapshotArrives
<1>5. CASE CommandRefused
  <2>1. PICK c \in session.commands, stale \in BOOLEAN :
            Becomes(CommandError(session, c, stale))
    BY <1>5 DEF CommandRefused
  <2>2. Good(CommandError(session, c, stale), identity)
    BY <1>1, CommandErrorGood
  <2>3. QED
    BY <1>5, <2>1, <2>2, BecomesKeeps DEF CommandRefused
<1>6. CASE SelfLeaves
  BY <1>1, <1>6, ReturnToAuthenticatedBrowserGood, BecomesKeeps
     DEF SelfLeaves
<1>7. CASE NewerRoomGeneration
  BY <1>1, <1>7, BeginReconnectGood, BecomesKeeps DEF NewerRoomGeneration
<1>8. CASE ProtocolBreaks
  <2>1. session.active
    BY <1>1, <1>8 DEF ProtocolBreaks, Good, SeatInv, SeatIsReal
  <2>2. Good(FailProtocol(session), identity)
    BY <1>1, <2>1, FailProtocolType, FailProtocolSafe DEF Good
  <2>3. QED
    BY <1>8, <2>2, BecomesKeeps DEF ProtocolBreaks
<1>9. CASE ServerTooOld
  BY <1>1, <1>9, IncompatibleGood, BecomesKeeps DEF ServerTooOld
<1>10. CASE ServerLeaves
  BY <1>1, <1>10, ServerGoingAwayGood, BecomesKeeps DEF ServerLeaves
<1>11. QED
  BY <1>2, <1>3, <1>4, <1>5, <1>6, <1>7, <1>8, <1>9, <1>10

LEMMA TicketKeeps ==
    ASSUME IInv, TicketGranted \/ TicketDenied
    PROVE  IInv'
<1>1. Good(session, identity) /\ tickets \subseteq Ticket
  BY DEF IInv, TypeOK, Good
<1>2. CASE TicketGranted
  <2> DEFINE after(t) == IF t.profile = identity.profile
                         THEN TicketReady(session, t.req, t.profile)
                         ELSE session
  <2>1. PICK t \in tickets : ~t.refused /\ Answered(t, after(t))
    BY <1>2 DEF TicketGranted
  <2>2. t.req \in Nat \ {0}
    BY <1>1 DEF Ticket
  <2>3. Good(after(t), identity)
    <3>1. CASE t.profile = identity.profile
      <4>1. Good(TicketReady(session, t.req, identity.profile), identity)
        <5>1. identity.profile \in Profiles
          BY DEF IInv, TypeOK
        <5>2. QED
          BY <1>1, <2>2, <5>1, TicketReadyGood
      <4>2. QED
        BY <3>1, <4>1
    <3>2. CASE t.profile # identity.profile
      BY <1>1, <3>2
    <3>3. QED
      BY <3>1, <3>2
  <2> HIDE DEF after
  <2>4. QED
    BY <1>2, <2>1, <2>3, AnsweredKeeps DEF TicketGranted
<1>3. CASE TicketDenied
  <2> DEFINE after(t, network) ==
                IF t.refused \/ t.profile = identity.profile
                THEN TicketFailed(session, t.req, network /\ ~t.refused)
                ELSE session
  <2>1. PICK t \in tickets, network \in BOOLEAN :
            Answered(t, after(t, network))
    BY <1>3 DEF TicketDenied
  <2>2. t.req \in Nat \ {0}
    BY <1>1 DEF Ticket
  <2>3. Good(after(t, network), identity)
    BY <1>1, <2>2, TicketFailedGood
  <2> HIDE DEF after
  <2>4. QED
    BY <1>3, <2>1, <2>3, AnsweredKeeps DEF TicketDenied
<1>4. QED
  BY <1>2, <1>3

LEMMA IdentityKeeps ==
    ASSUME IInv, ProfileChanges \/ LoginChanges
    PROVE  IInv'
<1>1. Good(session, identity) /\ session \in Session /\ tickets \subseteq Ticket
  BY DEF IInv, TypeOK, Good
<1>2. identity \in [profile : Profiles, loggedIn : BOOLEAN]
  BY DEF IInv, TypeOK
<1>3. CASE ProfileChanges
  <2>1. PICK who \in [profile : Profiles \ {identity.profile},
                      loggedIn : BOOLEAN] :
            LET after == ActiveProfileChanged(session, who.loggedIn)
            IN  /\ identity' = who
                /\ session' = after
                /\ tickets' = Requested({t \in tickets : t.refused}, after, who)
    BY <1>3 DEF ProfileChanges
  <2>2. who \in [profile : Profiles, loggedIn : BOOLEAN]
    OBVIOUS
  <2>3. Good(ActiveProfileChanged(session, who.loggedIn), who)
    BY <1>1, <2>2, ActiveProfileChangedGood
  <2>4. tickets' \in SUBSET Ticket
    BY <1>1, <2>1, <2>2, RequestedType
  <2>5. disruptions' \in 0..MaxDisruptions
    BY <1>3, CountdownType DEF ProfileChanges, IInv
  <2>6. QED
    BY <2>1, <2>2, <2>3, <2>4, <2>5 DEF Good, IInv, TypeOK
<1>4. CASE LoginChanges
  <2> DEFINE who == [identity EXCEPT !.loggedIn = ~@]
             after == LoginStateChanged(session, who.loggedIn)
  <2>1. /\ identity' = who
        /\ session' = after
        /\ tickets' = Requested(tickets, after, who)
    BY <1>4 DEF LoginChanges
  <2>2. /\ who \in [profile : Profiles, loggedIn : BOOLEAN]
        /\ who.profile = identity.profile
        /\ who.loggedIn = ~identity.loggedIn
        /\ identity.loggedIn \in BOOLEAN
    BY <1>2
  <2> HIDE DEF who
  <2>3. Good(after, who)
    BY <1>1, <2>2, LoginStateChangedGood
  <2> HIDE DEF after
  <2>4. tickets' \in SUBSET Ticket
    BY <1>1, <2>1, <2>2, RequestedType
  <2>5. disruptions' \in 0..MaxDisruptions
    BY <1>4, CountdownType DEF LoginChanges, IInv
  <2>6. QED
    BY <2>1, <2>2, <2>3, <2>4, <2>5 DEF Good, IInv, TypeOK
<1>5. QED
  BY <1>3, <1>4

LEMMA ClockKeeps ==
    ASSUME IInv, Tick \/ \E t \in TaskNames : TimerFires(t)
    PROVE  IInv'
<1>1. Good(session, identity) /\ session \in Session
  BY DEF IInv, TypeOK, Good
<1>2. ASSUME NEW t \in TaskNames, TimerFires(t)
      PROVE  IInv'
  BY <1>1, <1>2, TimerFiredGood, BecomesKeeps DEF TimerFires
<1>3. CASE Tick
  <2> DEFINE tasks == [t \in TaskNames |->
                        [session.tasks[t] EXCEPT !.left = IF @ > 0 THEN @ - 1
                                                          ELSE 0]]
             d == IF session.deadline > 0 THEN session.deadline - 1
                  ELSE session.deadline
  <2>1. tasks \in [TaskNames -> Task]
    <3>1. ASSUME NEW t \in TaskNames
          PROVE  session.tasks[t] \in Task
      BY <1>1 DEF Session
    <3>2. ASSUME NEW k \in Task
          PROVE  [k EXCEPT !.left = IF @ > 0 THEN @ - 1 ELSE 0] \in Task
      BY DEF Task
    <3>3. QED
      BY <3>1, <3>2
  <2>2. d \in Nat \cup {NoDeadline}
    BY <1>1 DEF Session, NoDeadline
  <2>3. Becomes([session EXCEPT !.tasks = tasks, !.deadline = d]) /\ Free
    BY <1>3 DEF Tick
  <2> HIDE DEF tasks, d
  <2>4. Good([session EXCEPT !.tasks = tasks, !.deadline = d], identity)
    BY <1>1, <2>1, <2>2, TickGood
  <2>5. QED
    BY <2>3, <2>4, BecomesKeeps
<1>4. QED
  BY <1>2, <1>3

LEMMA StepKeeps == IInv /\ [Next]_vars => IInv'
<1> SUFFICES ASSUME IInv, [Next]_vars PROVE IInv'
  OBVIOUS
<1>1. CASE UNCHANGED vars
  BY <1>1 DEF vars, IInv, TypeOK, SeatInv, OwnsWhatItHolds,
     TicketAuthenticates, SeatIsReal
<1>2. CASE Next
  BY <1>2, UserKeeps, SocketKeeps, ServerKeeps, TicketKeeps, IdentityKeeps,
     ClockKeeps DEF Next
<1>3. QED
  BY <1>1, <1>2

-----------------------------------------------------------------------------
(* Theorems.                                                                *)

\* The strengthened invariant holds in every reachable state.
LEMMA Inductive == Spec => []IInv
<1>1. QED
  BY InitKeeps, StepKeeps, PTL DEF Spec

\* Every handler of ArenaSession leaves its members, the provider's requests
\* and the identity in the sets TypeOK names, whatever profiles and delays.
THEOREM TypeCorrect == Spec => []TypeOK
<1>1. IInv => TypeOK
  BY DEF IInv
<1>2. QED
  BY <1>1, Inductive, PTL

\* A seat, also one being resumed, is always held under the active identity:
\* changing the profile or signing out at any point of an admission or of a
\* resume leaves no seat of the former identity (cleanupForIdentityChange).
THEOREM SeatIdentity == Spec => []SeatBelongsToActiveIdentity
<1>1. IInv => SeatBelongsToActiveIdentity
  BY DEF IInv, SeatInv, OwnsWhatItHolds, SeatBelongsToActiveIdentity, HasRoom
<1>2. QED
  BY <1>1, Inductive, PTL

-----------------------------------------------------------------------------
(* The strengthening of NeverStranded.                                      *)

\* A timer that is armed was set in the present lifecycle, those of a
\* reconnection only run during one, and those of browsing only while browsing.
TimersBelong(s) ==
    /\ \A t \in TaskNames : s.tasks[t].armed => s.tasks[t].life = s.life
    /\ s.state # "Reconnecting" =>
          /\ s.deadline = NoDeadline
          /\ \A t \in ReconnectTasks : ~s.tasks[t].armed
    /\ s.state = "Reconnecting" => s.deadline # NoDeadline
    /\ \/ s.authenticated
       \/ s.state \in {"ConnectingAuthenticated", "InRoom", "Reconnecting"}
       => \A t \in BrowseTasks : ~s.tasks[t].armed

\* A connection is ready in the browser or in the room, and the room is shown
\* on one that was opened with its seat holder's ticket.
RoomIsLive(s) ==
    /\ s.ready => s.state \notin {"ConnectingAuthenticated", "Reconnecting"}
    /\ s.state = "InRoom" => s.ready /\ s.authenticated /\ s.greeting = s.seat
    /\ s.admission = "sent" =>
          /\ s.state = "Browsing"
          /\ s.ready
          /\ [kind |-> "admission", life |-> s.life] \in s.commands

\* What a session that resumes, browses or is being admitted waits for.
Awaits(s) ==
    /\ s.state = "Reconnecting" =>
          \/ \E t \in {"attempt", "retry"} : s.tasks[t].armed
          \/ /\ s.backoff >= s.deadline
             /\ s.gen = NoGeneration
             /\ s.ticketReq = NoTicket
    /\ IsAnonymousBrowsing(s) /\ ~s.directoryReady =>
          \/ s.tasks["browseAttempt"].armed /\ s.tasks["browseAttempt"].gen = s.gen
          \/ s.tasks["browseRetry"].armed
    /\ s.state = "ConnectingAuthenticated" =>
          s.ticketReq # NoTicket \/ s.gen # NoGeneration

Alive(s) == TimersBelong(s) /\ RoomIsLive(s) /\ Awaits(s)

\* A handler draws at most one ticket, and then waits for that one.
DrawsTicket(s, r) ==
    \/ r.nextTicket = s.nextTicket /\ r.ticketReq \in {NoTicket, s.ticketReq}
    \/ r.nextTicket # s.nextTicket /\ r.ticketReq = s.nextTicket

-----------------------------------------------------------------------------
(* What the timers are after the helpers that touch them.                   *)

\* r differs from s in its timers only.
OnlyTimers(s, r) ==
    /\ r.active = s.active /\ r.state = s.state /\ r.authenticated = s.authenticated
    /\ r.loginRequired = s.loginRequired /\ r.directoryReady = s.directoryReady /\ r.competition = s.competition
    /\ r.admission = s.admission /\ r.seat = s.seat /\ r.gen = s.gen
    /\ r.nextGen = s.nextGen /\ r.handshake = s.handshake /\ r.greeting = s.greeting
    /\ r.ready = s.ready /\ r.life = s.life /\ r.ticketReq = s.ticketReq
    /\ r.nextTicket = s.nextTicket /\ r.ticket = s.ticket /\ r.commands = s.commands
    /\ r.deadline = s.deadline /\ r.backoff = s.backoff /\ r.browseBackoff = s.browseBackoff
    /\ r.fallback = s.fallback /\ r.legacyOnly = s.legacyOnly /\ r.lastLoggedIn = s.lastLoggedIn

LEMMA CancelTasks ==
    ASSUME NEW s \in Session, NEW names, NEW r, r = Cancel(s, names)
    PROVE  /\ r \in Session
           /\ OnlyTimers(s, r)
           /\ \A t \in TaskNames :
                 r.tasks[t] = IF t \in names THEN Off ELSE s.tasks[t]
<1> DEFINE tasks == [t \in TaskNames |-> IF t \in names THEN Off ELSE s.tasks[t]]
<1>1. r \in Session
  BY CancelType
<1>2. r = [s EXCEPT !.tasks = tasks]
  BY DEF Cancel
<1>3. \A t \in TaskNames : tasks[t] = IF t \in names THEN Off ELSE s.tasks[t]
  OBVIOUS
<1> HIDE DEF tasks
<1>4. OnlyTimers(s, r) /\ r.tasks = tasks
  BY <1>2 DEF OnlyTimers, Session
<1>5. QED
  BY <1>1, <1>3, <1>4

LEMMA ScheduleOnceTasks ==
    ASSUME NEW s \in Session, NEW name \in TaskNames, NEW delay \in Nat,
           NEW r, r = ScheduleOnce(s, name, delay)
    PROVE  /\ r \in Session
           /\ OnlyTimers(s, r)
           /\ \A t \in TaskNames \ {name} : r.tasks[t] = s.tasks[t]
           /\ r.tasks[name].armed
           /\ r.tasks[name].life = s.life
           /\ r.tasks[name].gen = s.gen
<1> DEFINE set == [armed |-> TRUE, left |-> delay, life |-> s.life, gen |-> s.gen]
           tasks == [s.tasks EXCEPT ![name] = set]
<1>1. r \in Session
  BY ScheduleOnceType
<1>2. s.tasks \in [TaskNames -> Task]
  BY DEF Session
<1>3. r = [s EXCEPT !.tasks = tasks]
  BY DEF ScheduleOnce
<1>4. set.armed /\ set.life = s.life /\ set.gen = s.gen
  OBVIOUS
<1> HIDE DEF set
<1>5. tasks[name] = set /\ \A t \in TaskNames \ {name} : tasks[t] = s.tasks[t]
  BY <1>2
<1> HIDE DEF tasks
<1>6. OnlyTimers(s, r) /\ r.tasks = tasks
  BY <1>3 DEF OnlyTimers, Session
<1>7. QED
  BY <1>1, <1>4, <1>5, <1>6

LEMMA InvalidateTransportLeaves ==
    ASSUME NEW s \in Session
    PROVE  LET r == InvalidateTransport(s) IN
           /\ r \in Session /\ r.active = s.active /\ r.state = s.state
           /\ r.authenticated = s.authenticated /\ r.directoryReady = s.directoryReady /\ r.admission = s.admission
           /\ r.seat = s.seat /\ r.gen = NoGeneration /\ r.greeting = Nobody
           /\ r.ready = FALSE /\ r.handshake = "None" /\ r.life = s.life
           /\ r.ticketReq = s.ticketReq /\ r.nextTicket = s.nextTicket /\ r.commands = s.commands
           /\ r.tasks = s.tasks /\ r.deadline = s.deadline /\ r.backoff = s.backoff
           /\ r.competition = FALSE
<1>1. InvalidateTransport(s) \in Session
  BY InvalidateTransportType
<1>2. ASSUME NEW r, r = InvalidateTransport(s)
      PROVE  /\ r.active = s.active /\ r.state = s.state /\ r.authenticated = s.authenticated
             /\ r.directoryReady = s.directoryReady /\ r.admission = s.admission /\ r.seat = s.seat
             /\ r.gen = NoGeneration /\ r.greeting = Nobody /\ r.ready = FALSE
             /\ r.handshake = "None" /\ r.life = s.life /\ r.ticketReq = s.ticketReq
             /\ r.nextTicket = s.nextTicket /\ r.commands = s.commands /\ r.tasks = s.tasks
             /\ r.deadline = s.deadline /\ r.backoff = s.backoff /\ r.competition = FALSE
  BY <1>2 DEF InvalidateTransport, Session
<1>3. QED
  BY <1>1, <1>2

LEMMA StartTransportLeaves ==
    ASSUME NEW s \in Session, NEW kind \in HandshakeKind
    PROVE  LET r == StartTransport(s, kind) IN
           /\ r \in Session /\ r.active = s.active /\ r.state = s.state
           /\ r.authenticated = s.authenticated /\ r.directoryReady = FALSE /\ r.admission = s.admission
           /\ r.seat = s.seat /\ r.gen = s.nextGen /\ r.greeting = Nobody
           /\ r.ready = FALSE /\ r.handshake = kind /\ r.life = s.life
           /\ r.ticketReq = s.ticketReq /\ r.nextTicket = s.nextTicket /\ r.commands = s.commands
           /\ r.tasks = s.tasks /\ r.deadline = s.deadline /\ r.backoff = s.backoff
           /\ r.competition = FALSE
<1>1. StartTransport(s, kind) \in Session
  BY StartTransportType
<1>2. ASSUME NEW r, r = StartTransport(s, kind)
      PROVE  /\ r.active = s.active /\ r.state = s.state /\ r.authenticated = s.authenticated
             /\ r.directoryReady = FALSE /\ r.admission = s.admission /\ r.seat = s.seat
             /\ r.gen = s.nextGen /\ r.greeting = Nobody /\ r.ready = FALSE
             /\ r.handshake = kind /\ r.life = s.life /\ r.ticketReq = s.ticketReq
             /\ r.nextTicket = s.nextTicket /\ r.commands = s.commands /\ r.tasks = s.tasks
             /\ r.deadline = s.deadline /\ r.backoff = s.backoff /\ r.competition = FALSE
  BY <1>2 DEF StartTransport, InvalidateTransport, Session
<1>3. QED
  BY <1>1, <1>2

LEMMA ClearPendingAdmissionLeaves ==
    ASSUME NEW s \in Session
    PROVE  LET r == ClearPendingAdmission(s) IN
           /\ r \in Session /\ r.active = s.active /\ r.state = s.state
           /\ r.authenticated = s.authenticated /\ r.directoryReady = s.directoryReady /\ r.admission = "none"
           /\ r.seat = s.seat /\ r.gen = s.gen /\ r.greeting = s.greeting
           /\ r.ready = s.ready /\ r.handshake = s.handshake /\ r.life = s.life
           /\ r.ticketReq = s.ticketReq /\ r.nextTicket = s.nextTicket /\ r.commands = s.commands
           /\ r.tasks = s.tasks /\ r.deadline = s.deadline /\ r.backoff = s.backoff
           /\ r.competition = s.competition
<1>1. ClearPendingAdmission(s) \in Session
  BY ClearPendingAdmissionType
<1>2. ASSUME NEW r, r = ClearPendingAdmission(s)
      PROVE  /\ r.active = s.active /\ r.state = s.state /\ r.authenticated = s.authenticated
             /\ r.directoryReady = s.directoryReady /\ r.admission = "none" /\ r.seat = s.seat
             /\ r.gen = s.gen /\ r.greeting = s.greeting /\ r.ready = s.ready
             /\ r.handshake = s.handshake /\ r.life = s.life /\ r.ticketReq = s.ticketReq
             /\ r.nextTicket = s.nextTicket /\ r.commands = s.commands /\ r.tasks = s.tasks
             /\ r.deadline = s.deadline /\ r.backoff = s.backoff /\ r.competition = s.competition
  BY <1>2 DEF ClearPendingAdmission, Session
<1>3. QED
  BY <1>1, <1>2

LEMMA ClearRoomLeaves ==
    ASSUME NEW s \in Session
    PROVE  LET r == ClearRoom(s) IN
           /\ r \in Session /\ r.active = s.active /\ r.state = s.state
           /\ r.authenticated = s.authenticated /\ r.directoryReady = s.directoryReady /\ r.admission = s.admission
           /\ r.seat = Nobody /\ r.gen = s.gen /\ r.greeting = s.greeting
           /\ r.ready = s.ready /\ r.handshake = s.handshake /\ r.life = s.life
           /\ r.ticketReq = s.ticketReq /\ r.nextTicket = s.nextTicket /\ r.commands = {}
           /\ r.tasks = s.tasks /\ r.deadline = s.deadline /\ r.backoff = s.backoff
           /\ r.competition = s.competition
<1>1. ClearRoom(s) \in Session
  BY ClearRoomType
<1>2. ASSUME NEW r, r = ClearRoom(s)
      PROVE  /\ r.active = s.active /\ r.state = s.state /\ r.authenticated = s.authenticated
             /\ r.directoryReady = s.directoryReady /\ r.admission = s.admission /\ r.seat = Nobody
             /\ r.gen = s.gen /\ r.greeting = s.greeting /\ r.ready = s.ready
             /\ r.handshake = s.handshake /\ r.life = s.life /\ r.ticketReq = s.ticketReq
             /\ r.nextTicket = s.nextTicket /\ r.commands = {} /\ r.tasks = s.tasks
             /\ r.deadline = s.deadline /\ r.backoff = s.backoff /\ r.competition = s.competition
  BY <1>2 DEF ClearRoom, Session
<1>3. QED
  BY <1>1, <1>2

LEMMA RequestTicketLeaves ==
    ASSUME NEW s \in Session
    PROVE  LET r == RequestTicket(s) IN
           /\ r \in Session /\ r.active = s.active /\ r.state = s.state
           /\ r.authenticated = s.authenticated /\ r.directoryReady = s.directoryReady /\ r.admission = s.admission
           /\ r.seat = s.seat /\ r.gen = s.gen /\ r.greeting = s.greeting
           /\ r.ready = s.ready /\ r.handshake = s.handshake /\ r.life = s.life
           /\ r.ticketReq = s.nextTicket /\ r.nextTicket = s.nextTicket + 1 /\ r.commands = s.commands
           /\ r.tasks = s.tasks /\ r.deadline = s.deadline /\ r.backoff = s.backoff
           /\ r.competition = s.competition
<1>1. RequestTicket(s) \in Session
  BY RequestTicketType
<1>2. ASSUME NEW r, r = RequestTicket(s)
      PROVE  /\ r.active = s.active /\ r.state = s.state /\ r.authenticated = s.authenticated
             /\ r.directoryReady = s.directoryReady /\ r.admission = s.admission /\ r.seat = s.seat
             /\ r.gen = s.gen /\ r.greeting = s.greeting /\ r.ready = s.ready
             /\ r.handshake = s.handshake /\ r.life = s.life /\ r.ticketReq = s.nextTicket
             /\ r.nextTicket = s.nextTicket + 1 /\ r.commands = s.commands /\ r.tasks = s.tasks
             /\ r.deadline = s.deadline /\ r.backoff = s.backoff /\ r.competition = s.competition
  BY <1>2 DEF RequestTicket, Session
<1>3. QED
  BY <1>1, <1>2

LEMMA TimersAndDelays ==
    /\ "grace" \in TaskNames /\ "attempt" \in TaskNames
    /\ "retry" \in TaskNames /\ "browseAttempt" \in TaskNames
    /\ "browseRetry" \in TaskNames
    /\ \A t \in TaskNames : t \in ReconnectTasks \/ t \in BrowseTasks
    /\ ReconnectTasks = {"grace", "attempt", "retry"}
    /\ BrowseTasks = {"browseAttempt", "browseRetry"}
    /\ AttemptTimeout \in Nat /\ ReconnectGrace \in Nat
BY DelayAssumption DEF TaskNames, ReconnectTasks, BrowseTasks

LEMMA CancelReconnectTasksLeaves ==
    ASSUME NEW s \in Session, NEW r, r = CancelReconnectTasks(s)
    PROVE  /\ r \in Session
           /\ OnlyTimers([s EXCEPT !.deadline = NoDeadline], r)
           /\ r.deadline = NoDeadline
           /\ \A t \in ReconnectTasks : ~r.tasks[t].armed
           /\ \A t \in BrowseTasks : r.tasks[t] = s.tasks[t]
<1> DEFINE c == Cancel(s, ReconnectTasks)
<1>1. /\ c \in Session /\ OnlyTimers(s, c)
      /\ \A t \in ReconnectTasks : ~c.tasks[t].armed
      /\ \A t \in BrowseTasks : c.tasks[t] = s.tasks[t]
  <2>1. /\ c \in Session /\ OnlyTimers(s, c)
        /\ \A t \in TaskNames :
              c.tasks[t] = IF t \in ReconnectTasks THEN Off ELSE s.tasks[t]
    BY CancelTasks
  <2>2. ReconnectTasks \cap BrowseTasks = {}
    BY DEF ReconnectTasks, BrowseTasks
  <2> HIDE DEF c
  <2>3. QED
    BY <2>1, <2>2 DEF TaskNames, Off
<1>2. r = [c EXCEPT !.deadline = NoDeadline]
  BY DEF CancelReconnectTasks
<1> HIDE DEF c
<1>3. r \in Session
  BY CancelReconnectTasksType
<1>4. r.tasks = c.tasks /\ r.deadline = NoDeadline
  BY <1>1, <1>2 DEF Session
<1>5. OnlyTimers([s EXCEPT !.deadline = NoDeadline], r)
  BY <1>1, <1>2 DEF OnlyTimers, Session
<1>6. QED
  BY <1>1, <1>3, <1>4, <1>5

LEMMA OpenAnonymousBrowsingAlive ==
    ASSUME NEW s \in Session, s.active, s.seat = Nobody, s.admission = "none",
           s.deadline = NoDeadline,
           \A t \in ReconnectTasks : ~s.tasks[t].armed,
           NEW r, r = OpenAnonymousBrowsing(s)
    PROVE  /\ Alive(r) /\ r.state = "Disconnected" /\ r.seat = Nobody
           /\ r.deadline = NoDeadline
           /\ r.ticketReq = s.ticketReq /\ r.nextTicket = s.nextTicket
<1> DEFINE c == Cancel(s, BrowseTasks)
           d == [c EXCEPT !.browseBackoff = InitialBackoff,
                          !.authenticated = FALSE, !.state = "Disconnected"]
           e == Cancel(d, BrowseTasks)
           f == StartTransport(e, "AnonymousBrowse")
           g == ScheduleOnce(f, "browseAttempt", AttemptTimeout)
<1>c. c = Cancel(s, BrowseTasks)
  OBVIOUS
<1>d. d = [c EXCEPT !.browseBackoff = InitialBackoff,
                    !.authenticated = FALSE, !.state = "Disconnected"]
  OBVIOUS
<1>e. e = Cancel(d, BrowseTasks)
  OBVIOUS
<1>f. f = StartTransport(e, "AnonymousBrowse")
  OBVIOUS
<1>g. g = ScheduleOnce(f, "browseAttempt", AttemptTimeout)
  OBVIOUS
<1> HIDE DEF c, d, e, f, g
<1>2. /\ c \in Session /\ OnlyTimers(s, c)
      /\ \A t \in TaskNames : ~c.tasks[t].armed
  BY <1>c, CancelTasks DEF TaskNames, Off
<1>3. d \in Session
  BY <1>d, <1>2, OpenAnonymousBrowsingFields
<1>4. /\ d.tasks = c.tasks /\ d.deadline = NoDeadline
      /\ d.active /\ d.seat = Nobody /\ d.admission = "none"
      /\ d.state = "Disconnected" /\ ~d.authenticated
      /\ d.ticketReq = s.ticketReq /\ d.nextTicket = s.nextTicket
  BY ZenonT(30), <1>d, <1>2 DEF OnlyTimers, Session
<1>5. /\ e \in Session /\ OnlyTimers(d, e)
      /\ \A t \in TaskNames : ~e.tasks[t].armed
  BY <1>e, <1>2, <1>3, <1>4, CancelTasks DEF Off
<1>6. /\ f \in Session /\ f.tasks = e.tasks /\ f.deadline = NoDeadline
      /\ f.active /\ f.seat = Nobody /\ f.admission = "none"
      /\ f.state = "Disconnected" /\ ~f.authenticated /\ ~f.ready
      /\ f.ticketReq = s.ticketReq /\ f.nextTicket = s.nextTicket
  <2>1. "AnonymousBrowse" \in HandshakeKind
    BY DEF HandshakeKind
  <2>2. /\ f \in Session /\ f.tasks = e.tasks /\ f.deadline = e.deadline
        /\ f.active = e.active /\ f.seat = e.seat /\ f.admission = e.admission
        /\ f.state = e.state /\ f.authenticated = e.authenticated
        /\ f.ready = FALSE
        /\ f.ticketReq = e.ticketReq /\ f.nextTicket = e.nextTicket
    <3>1. e \in Session
      BY <1>5
    <3>2. QED
      BY ZenonT(30), <1>f, <2>1, <3>1, StartTransportLeaves
  <2>3. QED
    BY <1>4, <1>5, <2>2 DEF OnlyTimers
<1>7. /\ g \in Session /\ OnlyTimers(f, g)
      /\ \A t \in TaskNames \ {"browseAttempt"} : g.tasks[t] = f.tasks[t]
      /\ g.tasks["browseAttempt"].armed
      /\ g.tasks["browseAttempt"].life = f.life
      /\ g.tasks["browseAttempt"].gen = f.gen
  <2>1. f \in Session /\ "browseAttempt" \in TaskNames /\ AttemptTimeout \in Nat
    BY <1>6, TimersAndDelays
  <2>2. QED
    BY <1>g, <2>1, ScheduleOnceTasks
<1>8. \A t \in TaskNames : g.tasks[t].armed => t = "browseAttempt"
  BY <1>5, <1>6, <1>7
<1>9. r = g
  <2>1. IsAnonymousBrowsing(d)
    BY <1>4 DEF IsAnonymousBrowsing, HasRoom
  <2>2. QED
    BY <1>c, <1>d, <1>e, <1>f, <1>g, <2>1 DEF OpenAnonymousBrowsing, StartAnonymousBrowseAttempt
<1>10. /\ g.deadline = NoDeadline /\ g.life = f.life /\ g.gen = f.gen
       /\ g.active /\ g.seat = Nobody /\ g.admission = "none"
       /\ g.state = "Disconnected" /\ ~g.authenticated /\ ~g.ready
       /\ g.ticketReq = s.ticketReq /\ g.nextTicket = s.nextTicket
  BY <1>6, <1>7 DEF OnlyTimers
<1>11. TimersBelong(g)
  BY <1>7, <1>8, <1>10 DEF TimersBelong, ReconnectTasks, TaskNames, BrowseTasks
<1>12. RoomIsLive(g) /\ Awaits(g)
  BY <1>7, <1>10 DEF RoomIsLive, Awaits
<1>13. QED
  BY <1>9, <1>10, <1>11, <1>12 DEF Alive

\* The seat is settled: nobody holds one and no grace period is running.
Out(r) == r.seat = Nobody /\ r.state # "Reconnecting" /\ r.deadline = NoDeadline

KeepsSeat(s, r) ==
    /\ r.seat = s.seat
    /\ r.deadline = s.deadline
    /\ r.state = "Reconnecting" <=> s.state = "Reconnecting"

LEMMA FailProtocolAlive ==
    ASSUME NEW s \in Session, NEW r, r = FailProtocol(s)
    PROVE  Alive(r) /\ Out(r) /\ DrawsTicket(s, r)
<1>1. /\ r.state = "Error" /\ ~r.authenticated /\ r.deadline = NoDeadline
      /\ ~r.ready /\ r.admission = "none" /\ r.seat = Nobody
      /\ r.ticketReq = NoTicket /\ r.nextTicket = s.nextTicket
  BY DEF FailProtocol, ClearRoom, InvalidateTransport, ClearPendingAdmission,
         CancelReconnectTasks, Cancel, Session
<1>2. \A t \in TaskNames : r.tasks[t] = Off
  BY DEF FailProtocol, ClearRoom, InvalidateTransport, ClearPendingAdmission,
         CancelReconnectTasks, Cancel, Session, TaskNames
<1>3. TimersBelong(r)
  BY <1>1, <1>2 DEF TimersBelong, TaskNames, Off
<1>4. RoomIsLive(r) /\ Awaits(r)
  BY <1>1 DEF RoomIsLive, Awaits, IsAnonymousBrowsing
<1>5. QED
  BY <1>1, <1>3, <1>4 DEF Alive, Out, DrawsTicket

LEMMA FailResumeAtDeadlineAlive ==
    ASSUME NEW s \in Session, s.active, NEW r, r = FailResumeAtDeadline(s)
    PROVE  Alive(r) /\ Out(r) /\ DrawsTicket(s, r)
<1> DEFINE closed == [ClearRoom(ClearPendingAdmission(InvalidateTransport(
                CancelReconnectTasks(s))))
                EXCEPT !.life = s.life + 1, !.ticketReq = NoTicket,
                       !.ticket = Nobody, !.authenticated = FALSE]
<1>1. r = OpenAnonymousBrowsing(closed)
  BY DEF FailResumeAtDeadline
<1>2. PICK c : c = closed
  OBVIOUS
<1>3. c \in Session
  <2>1. ClearRoom(ClearPendingAdmission(InvalidateTransport(
          CancelReconnectTasks(s)))) \in Session
    BY CancelReconnectTasksType, InvalidateTransportType,
       ClearPendingAdmissionType, ClearRoomType
  <2>2. s.life + 1 \in Nat
    BY DEF Session
  <2>3. QED
    BY <1>2, <2>1, <2>2, FailResumeAtDeadlineFields
<1>4. /\ c.active /\ c.seat = Nobody /\ c.admission = "none"
      /\ c.deadline = NoDeadline /\ c.ticketReq = NoTicket
      /\ c.nextTicket = s.nextTicket
  BY <1>2 DEF ClearRoom, InvalidateTransport, ClearPendingAdmission,
         CancelReconnectTasks, Cancel, Session
<1>5. \A t \in ReconnectTasks : ~c.tasks[t].armed
  BY <1>2 DEF ClearRoom, InvalidateTransport, ClearPendingAdmission,
         CancelReconnectTasks, Cancel, Session, TaskNames, Off
<1> HIDE DEF closed
<1>6. QED
  BY <1>1, <1>2, <1>3, <1>4, <1>5, OpenAnonymousBrowsingAlive DEF Out, DrawsTicket

\* A seat that is lost stays lost, with what is left of its grace period, or
\* is given up.
Resumes(s, r) == Alive(r) /\ DrawsTicket(s, r) /\ (Out(r) \/ KeepsSeat(s, r))

LEMMA StartResumeAttemptAlive ==
    ASSUME NEW s \in Session, s.active, s.state = "Reconnecting",
           s.admission = "none", TimersBelong(s),
           NEW r, r = StartResumeAttempt(s)
    PROVE  /\ Resumes(s, r)
           /\ s.deadline > 0 => KeepsSeat(s, r)
<1>1. CASE s.deadline <= 0
  <2>1. r = FailResumeAtDeadline(s)
    BY <1>1 DEF StartResumeAttempt
  <2>2. ~(s.deadline > 0)
    BY <1>1 DEF Session, NoDeadline
  <2>3. QED
    BY <2>1, <2>2, FailResumeAtDeadlineAlive DEF Resumes
<1>2. CASE ~(s.deadline <= 0)
  <2> DEFINE delay == MinOf(AttemptTimeout, s.deadline)
  <2>1. r = RequestTicket(ScheduleOnce(
              InvalidateTransport(Cancel(s, {"retry", "attempt"})),
              "attempt", delay))
    BY <1>2 DEF StartResumeAttempt
  <2> HIDE DEF delay
  <2>2. /\ r.state = "Reconnecting" /\ r.admission = "none" /\ r.life = s.life
        /\ r.deadline = s.deadline /\ r.seat = s.seat
        /\ r.ticketReq = s.nextTicket /\ r.nextTicket = s.nextTicket + 1
        /\ ~r.ready
    BY <2>1 DEF RequestTicket, ScheduleOnce, InvalidateTransport, Cancel, Session
  <2>3. /\ \A t \in {"grace", "browseAttempt", "browseRetry"} : r.tasks[t] = s.tasks[t]
        /\ r.tasks["retry"] = Off
        /\ r.tasks["attempt"].armed
        /\ r.tasks["attempt"].life = s.life
    BY <2>1 DEF RequestTicket, ScheduleOnce, InvalidateTransport, Cancel, Session,
                TaskNames, ReconnectTasks, BrowseTasks
  <2>4. TimersBelong(r)
    BY <2>2, <2>3 DEF TimersBelong, TaskNames, ReconnectTasks, BrowseTasks, Off
  <2>5. RoomIsLive(r) /\ Awaits(r)
    BY <2>2, <2>3 DEF RoomIsLive, Awaits, IsAnonymousBrowsing
  <2>6. DrawsTicket(s, r)
    BY <2>2 DEF DrawsTicket, Session
  <2>7. QED
    BY <2>2, <2>4, <2>5, <2>6 DEF Resumes, KeepsSeat, Alive
<1>3. QED
  BY <1>1, <1>2

LEMMA ScheduleReconnectAlive ==
    ASSUME NEW s \in Session, s.active, s.state = "Reconnecting",
           s.admission = "none", TimersBelong(s),
           NEW r, r = ScheduleReconnect(s)
    PROVE  Resumes(s, r)
<1> DEFINE silent == [InvalidateTransport(Cancel(s, {"attempt"}))
                        EXCEPT !.ticketReq = NoTicket, !.ticket = Nobody]
<1>1. PICK q : q = silent
  OBVIOUS
<1>2. q \in Session
  BY <1>1, CancelType, InvalidateTransportType, NoTicketFields
<1>3. /\ q.active /\ q.state = "Reconnecting" /\ q.admission = "none"
      /\ q.life = s.life /\ q.deadline = s.deadline /\ q.seat = s.seat
      /\ q.ticketReq = NoTicket /\ q.nextTicket = s.nextTicket
      /\ q.backoff = s.backoff /\ q.gen = NoGeneration /\ ~q.ready
  BY <1>1 DEF InvalidateTransport, Cancel, Session
<1>4. /\ \A t \in TaskNames \ {"attempt"} : q.tasks[t] = s.tasks[t]
      /\ q.tasks["attempt"] = Off
  BY <1>1 DEF InvalidateTransport, Cancel, Session, TaskNames, ReconnectTasks
<1>5. TimersBelong(q) /\ RoomIsLive(q)
  BY <1>3, <1>4 DEF TimersBelong, RoomIsLive, TaskNames, ReconnectTasks,
                    BrowseTasks, Off
<1>6. DrawsTicket(s, q) /\ KeepsSeat(s, q)
  BY <1>3 DEF DrawsTicket, KeepsSeat
<1> HIDE DEF silent
<1>7. CASE s.tasks["retry"].armed
  <2>1. r = q
    BY <1>1, <1>7 DEF ScheduleReconnect, silent
  <2>2. Awaits(q)
    BY <1>3, <1>4, <1>7 DEF Awaits, IsAnonymousBrowsing, TaskNames, ReconnectTasks
  <2>3. QED
    BY <1>5, <1>6, <2>1, <2>2 DEF Resumes, Alive
<1>8. CASE ~s.tasks["retry"].armed /\ s.deadline <= 0
  <2>1. r = FailResumeAtDeadline(q)
    BY <1>1, <1>8 DEF ScheduleReconnect, silent
  <2>2. DrawsTicket(q, r) => DrawsTicket(s, r)
    BY <1>3 DEF DrawsTicket
  <2>3. QED
    BY <1>2, <1>3, <2>1, <2>2, FailResumeAtDeadlineAlive DEF Resumes
<1>9. CASE ~s.tasks["retry"].armed /\ ~(s.deadline <= 0) /\ s.backoff >= s.deadline
  <2>1. r = q
    BY <1>1, <1>9 DEF ScheduleReconnect, silent
  <2>2. Awaits(q)
    BY <1>3, <1>9 DEF Awaits, IsAnonymousBrowsing
  <2>3. QED
    BY <1>5, <1>6, <2>1, <2>2 DEF Resumes, Alive
<1>10. CASE /\ ~s.tasks["retry"].armed
            /\ ~(s.deadline <= 0) /\ ~(s.backoff >= s.deadline)
  <2> DEFINE twice == MinOf(MaximumBackoff, 2 * s.backoff)
  <2>1. r = ScheduleOnce([q EXCEPT !.backoff = twice], "retry", s.backoff)
    BY <1>1, <1>10 DEF ScheduleReconnect, silent
  <2> HIDE DEF twice
  <2>2. /\ r.state = "Reconnecting" /\ r.admission = "none" /\ r.life = s.life
        /\ r.deadline = s.deadline /\ r.seat = s.seat
        /\ r.ticketReq = NoTicket /\ r.nextTicket = s.nextTicket
        /\ ~r.ready
    BY <1>2, <1>3, <2>1 DEF ScheduleOnce, Session
  <2>3. /\ \A t \in TaskNames \ {"retry"} : r.tasks[t] = q.tasks[t]
        /\ r.tasks["retry"].armed
        /\ r.tasks["retry"].life = s.life
    BY <1>2, <1>3, <2>1 DEF ScheduleOnce, Session, TaskNames, ReconnectTasks
  <2>4. TimersBelong(r)
    BY <1>3, <1>5, <2>2, <2>3 DEF TimersBelong, TaskNames, ReconnectTasks, BrowseTasks, Off
  <2>5. RoomIsLive(r) /\ Awaits(r)
    BY <2>2, <2>3 DEF RoomIsLive, Awaits, IsAnonymousBrowsing
  <2>6. QED
    BY <2>2, <2>4, <2>5 DEF Resumes, KeepsSeat, Alive, DrawsTicket
<1>11. QED
  BY <1>7, <1>8, <1>9, <1>10

LEMMA BeginReconnectAlive ==
    ASSUME NEW s \in Session, s.active, s.seat # Nobody,
           \A t \in BrowseTasks : ~s.tasks[t].armed,
           NEW r, r = BeginReconnect(s)
    PROVE  /\ Alive(r) /\ DrawsTicket(s, r)
           /\ r.state = "Reconnecting" /\ r.seat = s.seat
           /\ r.deadline = ReconnectGrace
<1> DEFINE q == InvalidateTransport(ClearPendingAdmission(CancelReconnectTasks(s)))
           lost == [q EXCEPT !.life = s.life + 1, !.ticketReq = NoTicket,
                             !.ticket = Nobody, !.commands = {},
                             !.authenticated = FALSE, !.state = "Reconnecting",
                             !.backoff = InitialBackoff,
                             !.deadline = ReconnectGrace]
<1>1. PICK l : l = lost
  OBVIOUS
<1>2. l \in Session
  <2>1. q \in Session
    BY CancelReconnectTasksType, ClearPendingAdmissionType,
       InvalidateTransportType
  <2>2. s.life + 1 \in Nat
    BY DEF Session
  <2>3. QED
    BY <1>1, <2>1, <2>2, BeginReconnectFields
<1>3. /\ l.active /\ l.state = "Reconnecting" /\ l.admission = "none"
      /\ l.deadline = ReconnectGrace /\ l.seat = s.seat
      /\ l.ticketReq = NoTicket /\ l.nextTicket = s.nextTicket
      /\ ~l.ready /\ ~l.authenticated
  BY <1>1 DEF InvalidateTransport, ClearPendingAdmission, CancelReconnectTasks,
              Cancel, Session
<1>4. \A t \in TaskNames : ~l.tasks[t].armed
  BY <1>1 DEF InvalidateTransport, ClearPendingAdmission, CancelReconnectTasks,
              Cancel, Session, TaskNames, Off
<1>5. r = StartResumeAttempt(ScheduleOnce(l, "grace", ReconnectGrace))
  BY <1>1 DEF BeginReconnect, HasRoom
<1> HIDE DEF q, lost
<1>6. PICK g : g = ScheduleOnce(l, "grace", ReconnectGrace)
  OBVIOUS
<1>7. g \in Session
  <2>1. "grace" \in TaskNames /\ ReconnectGrace \in Nat
    BY TimersAndDelays
  <2>2. QED
    BY <1>2, <1>6, <2>1, ScheduleOnceType
<1>8. /\ g.active /\ g.state = "Reconnecting" /\ g.admission = "none"
      /\ g.deadline = ReconnectGrace /\ g.seat = s.seat /\ g.life = l.life
      /\ g.ticketReq = NoTicket /\ g.nextTicket = s.nextTicket
      /\ ~g.ready /\ ~g.authenticated
  BY <1>2, <1>3, <1>6 DEF ScheduleOnce, Session
<1>9. /\ \A t \in TaskNames \ {"grace"} : g.tasks[t] = l.tasks[t]
      /\ g.tasks["grace"].life = l.life
  BY <1>2, <1>6 DEF ScheduleOnce, Session, TaskNames, ReconnectTasks
<1>10. ReconnectGrace # NoDeadline /\ ReconnectGrace > 0
  BY DelayAssumption DEF NoDeadline
<1>11. TimersBelong(g)
  BY <1>4, <1>8, <1>9, <1>10 DEF TimersBelong, TaskNames, ReconnectTasks, BrowseTasks
<1>12. Resumes(g, r) /\ KeepsSeat(g, r)
  BY <1>5, <1>6, <1>7, <1>8, <1>10, <1>11, StartResumeAttemptAlive
<1>13. QED
  BY <1>8, <1>12 DEF Resumes, KeepsSeat, DrawsTicket

LEMMA RestoreAnonymousAlive ==
    ASSUME NEW s \in Session, s.active,
           NEW r, r = RestoreAnonymousAfterAdmissionFailure(s)
    PROVE  Alive(r) /\ Out(r) /\ DrawsTicket(s, r)
<1>1. PICK c : c = ClearRoom(InvalidateTransport(
                       ClearPendingAdmission(InvalidateAsyncWork(s))))
  OBVIOUS
<1>2. c \in Session
  BY <1>1, InvalidateAsyncWorkType, ClearPendingAdmissionType,
     InvalidateTransportType, ClearRoomType
<1>3. /\ c.active /\ c.seat = Nobody /\ c.admission = "none"
      /\ c.deadline = NoDeadline /\ c.ticketReq = NoTicket
      /\ c.nextTicket = s.nextTicket
  BY <1>1 DEF ClearRoom, InvalidateTransport, ClearPendingAdmission,
         InvalidateAsyncWork, CancelReconnectTasks, Cancel, Session
<1>4. \A t \in ReconnectTasks : ~c.tasks[t].armed
  BY <1>1 DEF ClearRoom, InvalidateTransport, ClearPendingAdmission,
         InvalidateAsyncWork, CancelReconnectTasks, Cancel, Session, TaskNames, Off
<1>5. r = OpenAnonymousBrowsing(c)
  BY <1>1 DEF RestoreAnonymousAfterAdmissionFailure
<1>6. QED
  BY <1>2, <1>3, <1>4, <1>5, OpenAnonymousBrowsingAlive DEF Out, DrawsTicket

LEMMA BeginAuthenticatedAdmissionAlive ==
    ASSUME NEW s \in Session, s.active, s.admission = "wanted",
           s.state # "Reconnecting", TimersBelong(s),
           NEW r, r = BeginAuthenticatedAdmission(s, TRUE)
    PROVE  Alive(r) /\ KeepsSeat(s, r) /\ DrawsTicket(s, r)
<1>1. PICK c : c = [Cancel(s, BrowseTasks)
                       EXCEPT !.loginRequired = FALSE, !.authenticated = FALSE,
                              !.state = "ConnectingAuthenticated"]
  OBVIOUS
<1>c. c \in Session
  BY <1>1, CancelType, BeginAuthenticatedAdmissionFields
<1>d. /\ c.state = "ConnectingAuthenticated" /\ c.admission = "wanted"
      /\ c.life = s.life /\ c.deadline = s.deadline /\ c.seat = s.seat
      /\ c.nextTicket = s.nextTicket
  BY <1>1 DEF Cancel, Session
<1>e. \A t \in TaskNames : c.tasks[t] = IF t \in BrowseTasks THEN Off ELSE s.tasks[t]
  BY <1>1 DEF Cancel, Session
<1>f. r = RequestTicket(InvalidateTransport(c))
  BY <1>1 DEF BeginAuthenticatedAdmission
<1>2. /\ r.state = "ConnectingAuthenticated" /\ r.admission = "wanted"
      /\ r.life = s.life /\ r.deadline = s.deadline /\ r.seat = s.seat
      /\ r.ticketReq = s.nextTicket /\ r.nextTicket = s.nextTicket + 1
      /\ ~r.ready /\ r.tasks = c.tasks
  <2>1. PICK k : k = InvalidateTransport(c)
    OBVIOUS
  <2>2. /\ k.state = c.state /\ k.admission = c.admission /\ k.life = c.life
        /\ k.deadline = c.deadline /\ k.seat = c.seat /\ ~k.ready
        /\ k.nextTicket = c.nextTicket /\ k.tasks = c.tasks /\ k \in Session
    BY <1>c, <2>1, InvalidateTransportLeaves
  <2>3. /\ r.state = k.state /\ r.admission = k.admission /\ r.life = k.life
        /\ r.deadline = k.deadline /\ r.seat = k.seat /\ r.ready = k.ready
        /\ r.ticketReq = k.nextTicket /\ r.nextTicket = k.nextTicket + 1
        /\ r.tasks = k.tasks
    <3>1. r = RequestTicket(k) /\ k \in Session
      BY <1>f, <2>1, <2>2
    <3>2. PICK q : q = RequestTicket(k)
      OBVIOUS
    <3>3. /\ q.state = k.state /\ q.admission = k.admission
          /\ q.life = k.life /\ q.deadline = k.deadline /\ q.seat = k.seat
          /\ q.ready = k.ready /\ q.ticketReq = k.nextTicket
          /\ q.nextTicket = k.nextTicket + 1 /\ q.tasks = k.tasks
      BY <2>2, <3>2, RequestTicketLeaves
    <3>4. q = r
      BY <3>1, <3>2
    <3>5. QED
      BY <3>3, <3>4
  <2>4. QED
    BY <1>d, <2>2, <2>3
<1>3. /\ \A t \in ReconnectTasks : r.tasks[t] = s.tasks[t]
      /\ \A t \in BrowseTasks : ~r.tasks[t].armed
  <2>1. \A t \in TaskNames : r.tasks[t] = IF t \in BrowseTasks THEN Off ELSE s.tasks[t]
    BY <1>e, <1>2
  <2>2. \A t \in ReconnectTasks : t \in TaskNames /\ t \notin BrowseTasks
    BY DEF TaskNames, ReconnectTasks, BrowseTasks
  <2>3. \A t \in BrowseTasks : t \in TaskNames
    BY DEF TaskNames
  <2>4. ~Off.armed
    BY DEF Off
  <2>5. \A t \in ReconnectTasks : r.tasks[t] = s.tasks[t]
    BY <2>1, <2>2
  <2>6. \A t \in BrowseTasks : r.tasks[t] = Off
    BY <2>1, <2>3
  <2>7. QED
    BY <2>4, <2>5, <2>6
<1>4. TimersBelong(r)
  <2>1. \A t \in TaskNames : ~r.tasks[t].armed
    <3>1. \A t \in ReconnectTasks : ~s.tasks[t].armed
      BY DEF TimersBelong
    <3>2. QED
      BY <1>3, <3>1 DEF TaskNames
  <2>2. s.deadline = NoDeadline
    BY DEF TimersBelong
  <2>3. QED
    BY <1>2, <1>3, <2>1, <2>2 DEF TimersBelong, TaskNames
<1>5. s.nextTicket # NoTicket /\ s.nextTicket + 1 # s.nextTicket
  BY DEF Session, NoTicket
<1>6. RoomIsLive(r) /\ Awaits(r)
  BY <1>2, <1>5 DEF RoomIsLive, Awaits, IsAnonymousBrowsing
<1>7. QED
  BY <1>2, <1>4, <1>5, <1>6 DEF KeepsSeat, Alive, DrawsTicket

LEMMA ApplyRoomSnapshotAlive ==
    ASSUME NEW s \in Session, s.ready, TimersBelong(s),
           \A t \in BrowseTasks : ~s.tasks[t].armed,
           NEW r, r = ApplyRoomSnapshot(s)
    PROVE  /\ Alive(r) /\ DrawsTicket(s, r)
           /\ r.state = "InRoom" /\ r.seat = s.greeting
           /\ r.deadline = NoDeadline
<1>1. /\ r.state = "InRoom" /\ r.admission = "none" /\ r.life = s.life
      /\ r.deadline = NoDeadline /\ r.seat = s.greeting
      /\ r.greeting = s.greeting /\ r.ticketReq = s.ticketReq
      /\ r.nextTicket = s.nextTicket /\ r.ready /\ r.authenticated
  BY DEF ApplyRoomSnapshot, ClearPendingAdmission, CancelReconnectTasks, Cancel,
         Session
<1>2. \A t \in TaskNames : ~r.tasks[t].armed
  BY DEF ApplyRoomSnapshot, ClearPendingAdmission, CancelReconnectTasks, Cancel,
         Session, TaskNames, Off
<1>3. TimersBelong(r)
  BY <1>1, <1>2 DEF TimersBelong, TaskNames, ReconnectTasks, BrowseTasks
<1>4. RoomIsLive(r) /\ Awaits(r)
  BY <1>1 DEF RoomIsLive, Awaits, IsAnonymousBrowsing
<1>5. QED
  BY <1>1, <1>3, <1>4 DEF Alive, DrawsTicket

LEMMA StartAnonymousBrowseAttemptAlive ==
    ASSUME NEW s \in Session, IsAnonymousBrowsing(s), TimersBelong(s),
           NEW r, r = StartAnonymousBrowseAttempt(s)
    PROVE  Alive(r) /\ KeepsSeat(s, r) /\ DrawsTicket(s, r)
<1>1. r = ScheduleOnce(StartTransport(Cancel(s, BrowseTasks), "AnonymousBrowse"),
                       "browseAttempt", AttemptTimeout)
  BY DEF StartAnonymousBrowseAttempt
<1>2. /\ r.state = s.state /\ r.admission = "none" /\ r.life = s.life
      /\ r.deadline = s.deadline /\ r.seat = s.seat /\ ~r.authenticated
      /\ r.ticketReq = s.ticketReq /\ r.nextTicket = s.nextTicket /\ ~r.ready
  BY <1>1 DEF ScheduleOnce, StartTransport, InvalidateTransport, Cancel, Session,
              IsAnonymousBrowsing
<1>3. /\ \A t \in ReconnectTasks : r.tasks[t] = s.tasks[t]
      /\ r.tasks["browseRetry"] = Off
      /\ r.tasks["browseAttempt"].armed
      /\ r.tasks["browseAttempt"].life = s.life
      /\ r.tasks["browseAttempt"].gen = r.gen
  BY <1>1 DEF ScheduleOnce, StartTransport, InvalidateTransport, Cancel, Session,
              TaskNames, ReconnectTasks, BrowseTasks
<1>4. s.state \in {"Disconnected", "Browsing"}
  BY DEF IsAnonymousBrowsing
<1>5. TimersBelong(r)
  BY <1>2, <1>3, <1>4 DEF TimersBelong, TaskNames, ReconnectTasks, BrowseTasks, Off
<1>6. RoomIsLive(r) /\ Awaits(r)
  BY <1>2, <1>3, <1>4 DEF RoomIsLive, Awaits
<1>7. QED
  BY <1>2, <1>5, <1>6 DEF Alive, KeepsSeat, DrawsTicket

LEMMA ScheduleAnonymousBrowseRetryAlive ==
    ASSUME NEW s \in Session, IsAnonymousBrowsing(s), TimersBelong(s),
           NEW r, r = ScheduleAnonymousBrowseRetry(s)
    PROVE  Alive(r) /\ KeepsSeat(s, r) /\ DrawsTicket(s, r)
<1> DEFINE silent == [InvalidateTransport(Cancel(s, {"browseAttempt"}))
                        EXCEPT !.directoryReady = FALSE,
                               !.authenticated = FALSE,
                               !.state = "Disconnected"]
<1>1. PICK q : q = silent
  OBVIOUS
<1>2. q \in Session
  BY <1>1, CancelType, InvalidateTransportType, QuietBrowsingFields
<1>3. /\ q.state = "Disconnected" /\ q.admission = "none" /\ q.life = s.life
      /\ q.deadline = s.deadline /\ q.seat = s.seat /\ ~q.authenticated
      /\ q.ticketReq = s.ticketReq /\ q.nextTicket = s.nextTicket /\ ~q.ready
  BY <1>1 DEF InvalidateTransport, Cancel, Session, IsAnonymousBrowsing
<1>4. /\ \A t \in TaskNames \ {"browseAttempt"} : q.tasks[t] = s.tasks[t]
      /\ q.tasks["browseAttempt"] = Off
  BY <1>1 DEF InvalidateTransport, Cancel, Session, TaskNames, BrowseTasks
<1>5. s.state \in {"Disconnected", "Browsing"}
  BY DEF IsAnonymousBrowsing
<1>6. TimersBelong(q)
  BY <1>3, <1>4, <1>5 DEF TimersBelong, TaskNames, ReconnectTasks, BrowseTasks, Off
<1>7. CASE s.tasks["browseRetry"].armed
  <2>1. r = q
    BY <1>1, <1>7 DEF ScheduleAnonymousBrowseRetry
  <2>2. q.tasks["browseRetry"].armed
    BY <1>4, <1>7 DEF TaskNames, BrowseTasks
  <2>3. RoomIsLive(q) /\ Awaits(q)
    BY <1>3, <2>2 DEF RoomIsLive, Awaits
  <2>4. QED
    BY <1>3, <1>5, <1>6, <2>1, <2>3 DEF Alive, KeepsSeat, DrawsTicket
<1>8. CASE ~s.tasks["browseRetry"].armed
  <2> DEFINE twice == MinOf(MaximumBackoff, 2 * s.browseBackoff)
  <2>1. r = ScheduleOnce([q EXCEPT !.browseBackoff = twice], "browseRetry",
                         s.browseBackoff)
    BY <1>1, <1>8 DEF ScheduleAnonymousBrowseRetry
  <2> HIDE DEF twice, silent
  <2>2. /\ r.state = "Disconnected" /\ r.admission = "none" /\ r.life = s.life
        /\ r.deadline = s.deadline /\ r.seat = s.seat /\ ~r.authenticated
        /\ r.ticketReq = s.ticketReq /\ r.nextTicket = s.nextTicket /\ ~r.ready
    BY <1>2, <1>3, <2>1 DEF ScheduleOnce, Session
  <2>3. /\ \A t \in TaskNames \ {"browseRetry"} : r.tasks[t] = q.tasks[t]
        /\ r.tasks["browseRetry"].armed
        /\ r.tasks["browseRetry"].life = s.life
    BY <1>2, <1>3, <2>1 DEF ScheduleOnce, Session, TaskNames, BrowseTasks
  <2>4. TimersBelong(r)
    BY <1>3, <1>6, <2>2, <2>3 DEF TimersBelong, TaskNames, ReconnectTasks, BrowseTasks
  <2>5. RoomIsLive(r) /\ Awaits(r)
    BY <2>2, <2>3 DEF RoomIsLive, Awaits
  <2>6. QED
    BY <1>5, <2>2, <2>4, <2>5 DEF Alive, KeepsSeat, DrawsTicket
<1>9. QED
  BY <1>7, <1>8

-----------------------------------------------------------------------------
(* Every handler keeps the session alive and moves its seat as ArenaSeat    *)
(* allows.                                                                  *)

SeatMoves(s, r, id) ==
    \/ KeepsSeat(s, r)
    \/ Out(r)
    \/ /\ s.seat = Nobody /\ s.state # "Reconnecting"
       /\ r.state = "InRoom" /\ id.loggedIn /\ r.seat = id.profile
       /\ r.deadline = s.deadline
    \/ /\ s.state # "Reconnecting" /\ s.seat # Nobody
       /\ r.state = "Reconnecting" /\ r.seat = s.seat
       /\ r.deadline = ReconnectGrace
    \/ /\ s.state = "Reconnecting" /\ s.deadline > 0
       /\ r.state = "InRoom" /\ r.seat = s.seat
       /\ r.deadline = NoDeadline
    \/ /\ s.state = "Reconnecting" /\ s.deadline > 0
       /\ r.state = "Reconnecting" /\ r.seat = s.seat
       /\ r.deadline = s.deadline - 1

Well(s, r, id) == Alive(r) /\ DrawsTicket(s, r) /\ SeatMoves(s, r, id)

LEMMA UnchangedWell ==
    ASSUME NEW s, NEW id, Alive(s)
    PROVE  Well(s, s, id)
BY DEF Well, DrawsTicket, SeatMoves, KeepsSeat

LEMMA CleanupForIdentityChangeAlive ==
    ASSUME NEW s \in Session, NEW id, Alive(s), s.active,
           NEW r, r = CleanupForIdentityChange(s)
    PROVE  Alive(r) /\ Out(r) /\ r.ticketReq = NoTicket
           /\ r.nextTicket = s.nextTicket
<1>1. PICK c : c = [ClearRoom(ClearPendingAdmission(InvalidateAsyncWork(s)))
                      EXCEPT !.authenticated = FALSE]
  OBVIOUS
<1>2. c \in Session
  BY <1>1, InvalidateAsyncWorkType, ClearPendingAdmissionType, ClearRoomType,
     AuthenticatedFields
<1>3. /\ c.active /\ c.seat = Nobody /\ c.admission = "none"
      /\ c.deadline = NoDeadline /\ c.ticketReq = NoTicket
      /\ c.nextTicket = s.nextTicket /\ c.state = s.state /\ c.ready = s.ready
      /\ c.directoryReady = s.directoryReady /\ ~c.authenticated
  BY <1>1 DEF ClearRoom, ClearPendingAdmission, InvalidateAsyncWork,
              CancelReconnectTasks, Cancel, Session
<1>4. \A t \in TaskNames : ~c.tasks[t].armed
  BY <1>1 DEF ClearRoom, ClearPendingAdmission, InvalidateAsyncWork,
              CancelReconnectTasks, Cancel, Session, TaskNames, Off
<1>5. CASE /\ s.state = "Browsing" /\ ~s.authenticated /\ ~HasRoom(s)
           /\ s.ready /\ s.directoryReady
  <2>1. r = c
    BY <1>1, <1>5 DEF CleanupForIdentityChange
  <2>2. TimersBelong(c)
    BY <1>3, <1>4, <1>5 DEF TimersBelong, TaskNames
  <2>3. RoomIsLive(c) /\ Awaits(c)
    BY <1>3, <1>5 DEF RoomIsLive, Awaits
  <2>4. QED
    BY <1>3, <1>5, <2>1, <2>2, <2>3 DEF Alive, Out
<1>6. CASE ~(/\ s.state = "Browsing" /\ ~s.authenticated /\ ~HasRoom(s)
             /\ s.ready /\ s.directoryReady)
  <2>1. PICK k : k = InvalidateTransport(c)
    OBVIOUS
  <2>2. /\ k.active /\ k.seat = Nobody /\ k.admission = "none"
        /\ k.deadline = NoDeadline /\ k.ticketReq = NoTicket
        /\ k.nextTicket = s.nextTicket /\ k.tasks = c.tasks /\ k \in Session
    BY <1>2, <1>3, <2>1, InvalidateTransportLeaves
  <2>3. r = OpenAnonymousBrowsing(k)
    BY <1>1, <1>6, <2>1 DEF CleanupForIdentityChange
  <2>4. \A t \in ReconnectTasks : ~k.tasks[t].armed
    BY <1>4, <2>2 DEF TaskNames
  <2>5. QED
    BY <2>2, <2>3, <2>4, OpenAnonymousBrowsingAlive DEF Out
<1>7. QED
  BY <1>5, <1>6

LEMMA ConnectedAlive ==
    ASSUME NEW s, NEW id, Good(s, id), Alive(s), s.greeting = Nobody,
           NEW g \in Nat \ {0}, NEW r, r = Connected(s, g)
    PROVE  Well(s, r, id)
<1>1. s \in Session
  BY DEF Good
<1>2. CASE r = s
  BY <1>2, UnchangedWell
<1>3. CASE s.active /\ r = FailResumeAtDeadline(s)
  BY <1>1, <1>3, FailResumeAtDeadlineAlive DEF Well, SeatMoves
<1>4. CASE s.active /\ r = FailProtocol(s)
  BY <1>1, <1>4, FailProtocolAlive DEF Well, SeatMoves
<1>5. ASSUME NEW from, r = [s EXCEPT !.greeting = from, !.ticket = Nobody],
             s.active, s.gen = g
      PROVE  Well(s, r, id)
  <2>a. /\ r.state = s.state /\ r.admission = s.admission /\ r.life = s.life
        /\ r.deadline = s.deadline /\ r.seat = s.seat /\ r.gen = s.gen
        /\ r.ticketReq = s.ticketReq /\ r.nextTicket = s.nextTicket
    BY <1>1, <1>5 DEF Session
  <2>b. /\ r.ready = s.ready /\ r.authenticated = s.authenticated
        /\ r.tasks = s.tasks /\ r.commands = s.commands /\ r.backoff = s.backoff
        /\ r.directoryReady = s.directoryReady /\ r.active = s.active
    BY <1>1, <1>5 DEF Session
  <2>1. /\ r.state = s.state /\ r.admission = s.admission /\ r.life = s.life
        /\ r.deadline = s.deadline /\ r.seat = s.seat /\ r.gen = s.gen
        /\ r.ticketReq = s.ticketReq /\ r.nextTicket = s.nextTicket
        /\ r.ready = s.ready /\ r.authenticated = s.authenticated
        /\ r.tasks = s.tasks /\ r.commands = s.commands /\ r.backoff = s.backoff
        /\ r.directoryReady = s.directoryReady /\ r.active = s.active
    BY <2>a, <2>b
  <2>2. s.state # "InRoom"
    BY ProfilesAssumption DEF Good, SeatInv, SeatIsReal, Alive, RoomIsLive
  <2>3. TimersBelong(r)
    BY <2>1 DEF Alive, TimersBelong
  <2>4. RoomIsLive(r)
    BY <2>1, <2>2 DEF Alive, RoomIsLive
  <2>5. Awaits(r)
    BY <2>1 DEF Alive, Awaits, IsAnonymousBrowsing, HasRoom
  <2>6. QED
    BY <2>1, <2>3, <2>4, <2>5 DEF Well, Alive, DrawsTicket, SeatMoves, KeepsSeat
<1>6. QED
  BY <1>2, <1>3, <1>4, <1>5 DEF Connected

LEMMA DirectorySnapshotAlive ==
    ASSUME NEW s, NEW id, Good(s, id), Alive(s), s.ready,
           NEW r, r = DirectorySnapshot(s)
    PROVE  Well(s, r, id)
<1>1. s \in Session
  BY DEF Good
<1>2. r = [Cancel(s, BrowseTasks) EXCEPT !.browseBackoff = InitialBackoff,
                                         !.directoryReady = TRUE]
  BY DEF DirectorySnapshot
<1>3. /\ r.state = s.state /\ r.admission = s.admission /\ r.life = s.life
      /\ r.deadline = s.deadline /\ r.seat = s.seat /\ r.gen = s.gen
      /\ r.ticketReq = s.ticketReq /\ r.nextTicket = s.nextTicket
      /\ r.ready = s.ready /\ r.authenticated = s.authenticated
      /\ r.commands = s.commands /\ r.backoff = s.backoff
      /\ r.greeting = s.greeting /\ r.directoryReady
  BY ZenonT(30), <1>1, <1>2 DEF Cancel, Session
<1>4. \A t \in TaskNames : r.tasks[t] = IF t \in BrowseTasks THEN Off ELSE s.tasks[t]
  BY <1>1, <1>2 DEF Cancel, Session
<1>5. \A t \in ReconnectTasks : r.tasks[t] = s.tasks[t]
  <2>1. \A t \in ReconnectTasks : t \in TaskNames /\ t \notin BrowseTasks
    BY DEF TaskNames, ReconnectTasks, BrowseTasks
  <2>2. QED
    BY <1>4, <2>1
<1>6. \A t \in BrowseTasks : ~r.tasks[t].armed
  <2>1. \A t \in BrowseTasks : t \in TaskNames
    BY DEF TaskNames
  <2>2. \A t \in BrowseTasks : r.tasks[t] = Off
    BY <1>4, <2>1
  <2>3. QED
    BY <2>2 DEF Off
<1>7. TimersBelong(r)
  BY <1>3, <1>5, <1>6 DEF Alive, TimersBelong, TaskNames
<1>8. RoomIsLive(r)
  BY <1>3 DEF Alive, RoomIsLive
<1>9. Awaits(r)
  BY <1>3, <1>5 DEF Alive, Awaits, RoomIsLive
<1>10. QED
  BY <1>3, <1>7, <1>8, <1>9 DEF Well, Alive, DrawsTicket, SeatMoves, KeepsSeat

LEMMA RoomSnapshotEventAlive ==
    ASSUME NEW s, NEW id, Good(s, id), Alive(s), s.ready,
           NEW r, r = RoomSnapshotEvent(s)
    PROVE  Well(s, r, id)
<1>1. s \in Session
  BY DEF Good
<1>2. CASE r = s
  BY <1>2, UnchangedWell
<1>3. CASE s.admission = "sent" /\ r = ApplyRoomSnapshot(s)
  <2>1. s.state = "Browsing" /\ s.authenticated /\ s.seat = Nobody
    BY <1>3 DEF Good, SeatInv, SeatIsReal, TicketAuthenticates, Alive, RoomIsLive
  <2>2. id.loggedIn /\ s.greeting = id.profile
    BY <2>1 DEF Good, SeatInv, TicketAuthenticates, OwnsWhatItHolds
  <2>3. /\ TimersBelong(s)
        /\ \A t \in BrowseTasks : ~s.tasks[t].armed
        /\ s.deadline = NoDeadline
    BY <2>1 DEF Alive, TimersBelong
  <2>4. /\ Alive(r) /\ DrawsTicket(s, r)
        /\ r.state = "InRoom" /\ r.seat = s.greeting
        /\ r.deadline = NoDeadline
    BY <1>1, <1>3, <2>3, ApplyRoomSnapshotAlive
  <2>5. QED
    BY <2>1, <2>2, <2>3, <2>4 DEF Well, SeatMoves
<1>4. QED
  BY <1>2, <1>3 DEF RoomSnapshotEvent

\* Where a handler ends depends on what these members were when it began.
LEMMA WellFrom ==
    ASSUME NEW s, NEW q, NEW r, NEW id, Well(q, r, id),
           q.seat = s.seat, q.state = s.state, q.deadline = s.deadline,
           q.ticketReq = s.ticketReq, q.nextTicket = s.nextTicket
    PROVE  Well(s, r, id)
BY DEF Well, DrawsTicket, SeatMoves, KeepsSeat

LEMMA ResumesIsWell ==
    ASSUME NEW s, NEW r, NEW id, Resumes(s, r)
    PROVE  Well(s, r, id)
BY DEF Well, Resumes, SeatMoves

LEMMA SendPendingAdmissionAlive ==
    ASSUME NEW s \in Session, s.state = "Browsing", s.authenticated,
           TimersBelong(s), s.admission # "sent",
           NEW r, r = SendPendingAdmission(s)
    PROVE  Alive(r) /\ KeepsSeat(s, r) /\ DrawsTicket(s, r)
<1>1. ASSUME r.state = "Browsing", r.authenticated, r.life = s.life,
             r.tasks = s.tasks, r.deadline = s.deadline, r.seat = s.seat,
             r.ticketReq = s.ticketReq, r.nextTicket = s.nextTicket,
             RoomIsLive(r)
      PROVE  Alive(r) /\ KeepsSeat(s, r) /\ DrawsTicket(s, r)
  BY <1>1 DEF Alive, TimersBelong, Awaits, IsAnonymousBrowsing, KeepsSeat,
     DrawsTicket
<1>2. CASE r = s
  BY <1>1, <1>2 DEF RoomIsLive
<1>3. CASE r # s
  <2>1. s.ready /\
        r = [s EXCEPT !.admission = "sent",
                      !.commands = s.commands \cup
                          {[kind |-> "admission", life |-> s.life]}]
    BY <1>3 DEF SendPendingAdmission
  <2>2. /\ r.state = "Browsing" /\ r.authenticated /\ r.life = s.life
        /\ r.tasks = s.tasks /\ r.deadline = s.deadline /\ r.seat = s.seat
        /\ r.ticketReq = s.ticketReq /\ r.nextTicket = s.nextTicket
        /\ r.ready
        /\ [kind |-> "admission", life |-> s.life] \in r.commands
    BY <2>1 DEF Session
  <2>3. RoomIsLive(r)
    BY <2>2 DEF RoomIsLive
  <2>4. QED
    BY <1>1, <2>2, <2>3
<1>4. QED
  BY <1>2, <1>3

LEMMA ServerHelloAlive ==
    ASSUME NEW s, NEW id, Good(s, id), Alive(s), s.greeting # Nobody, ~s.ready,
           NEW competition \in BOOLEAN, NEW resumed \in BOOLEAN,
           NEW r, r = ServerHello(s, competition, resumed)
    PROVE  Well(s, r, id)
<1>1. s \in Session /\ s.active
  BY DEF Good, SeatInv, SeatIsReal
<1>2. PICK offered : offered = [s EXCEPT !.competition = competition]
  OBVIOUS
<1>3. PICK open : open = [Cancel(offered, {"attempt"})
                            EXCEPT !.ready = TRUE, !.handshake = "None"]
  OBVIOUS
<1>4. offered \in Session
  BY <1>1, <1>2, OfferedFields
<1>5. open \in Session
  BY <1>3, <1>4, CancelType, OpenFields
<1>6. /\ offered.state = s.state /\ offered.seat = s.seat
      /\ offered.deadline = s.deadline /\ offered.ticketReq = s.ticketReq
      /\ offered.nextTicket = s.nextTicket /\ offered.active
  BY <1>1, <1>2 DEF Session
<1>7. /\ open.state = s.state /\ open.seat = s.seat /\ open.life = s.life
      /\ open.deadline = s.deadline /\ open.ticketReq = s.ticketReq
      /\ open.nextTicket = s.nextTicket /\ open.active
      /\ open.admission = s.admission /\ open.gen = s.gen
      /\ open.directoryReady = s.directoryReady /\ open.greeting = s.greeting
      /\ open.ready
  BY <1>1, <1>2, <1>3 DEF Cancel, Session
<1>8. \A t \in TaskNames : open.tasks[t] = IF t = "attempt" THEN Off ELSE s.tasks[t]
  <2>1. \A t \in TaskNames : t \in {"attempt"} <=> t = "attempt"
    OBVIOUS
  <2>2. \A t \in TaskNames : open.tasks[t] = IF t \in {"attempt"} THEN Off ELSE s.tasks[t]
    BY <1>1, <1>2, <1>3 DEF Cancel, Session
  <2>3. QED
    BY <2>1, <2>2
<1>9. TimersBelong(s) /\ TimersBelong(open)
  <2>1. TimersBelong(s)
    BY DEF Alive
  <2>2. \A t \in TaskNames : open.tasks[t].armed => open.tasks[t] = s.tasks[t]
    BY <1>8 DEF Off
  <2>3. open.authenticated = s.authenticated
    BY <1>1, <1>2, <1>3 DEF Cancel, Session
  <2>4. QED
    BY <1>7, <2>1, <2>2, <2>3 DEF TimersBelong, TaskNames
<1>10. CASE s.handshake = "None"
  <2>1. r = FailProtocol(s)
    BY <1>10 DEF ServerHello
  <2>2. QED
    BY <1>1, <2>1, FailProtocolAlive DEF Well, SeatMoves
<1>11. CASE s.handshake = "AnonymousBrowse"
  <2>1. r = [open EXCEPT !.fallback = FALSE, !.authenticated = FALSE,
                         !.state = "Browsing"]
    BY <1>2, <1>3, <1>11 DEF ServerHello
  <2>2. /\ r.state = "Browsing" /\ r.seat = s.seat /\ r.life = s.life
        /\ r.deadline = s.deadline /\ r.ticketReq = s.ticketReq
        /\ r.nextTicket = s.nextTicket /\ r.active
        /\ r.admission = s.admission /\ r.gen = s.gen
        /\ r.directoryReady = s.directoryReady /\ ~r.authenticated
        /\ r.tasks = open.tasks /\ r.ready
    BY <1>5, <1>7, <2>1 DEF Session
  <2>3. /\ s.state \in {"Disconnected", "Browsing"} /\ ~s.authenticated
        /\ s.admission # "sent" /\ s.seat = Nobody
    BY <1>11 DEF Good, SeatInv, TicketAuthenticates, SeatIsReal
  <2>4. TimersBelong(r)
    BY <1>7, <1>9, <2>2, <2>3 DEF TimersBelong
  <2>5. RoomIsLive(r)
    BY <2>2, <2>3 DEF RoomIsLive
  <2>6. Awaits(r)
    <3>1. ASSUME IsAnonymousBrowsing(r), ~r.directoryReady
          PROVE  IsAnonymousBrowsing(s) /\ ~s.directoryReady
      BY <1>1, <2>2, <2>3, <3>1 DEF IsAnonymousBrowsing, HasRoom
    <3>2. \A t \in {"browseAttempt", "browseRetry"} : r.tasks[t] = s.tasks[t]
      BY <1>8, <2>2 DEF TaskNames, BrowseTasks
    <3>3. QED
      BY <2>2, <3>1, <3>2 DEF Alive, Awaits
  <2>7. QED
    BY <2>2, <2>3, <2>4, <2>5, <2>6 DEF Well, Alive, DrawsTicket, SeatMoves,
       KeepsSeat
<1>12. CASE s.handshake = "AuthenticatedAdmission"
  <2>1. PICK b : b = [open EXCEPT !.authenticated = TRUE,
                                  !.loginRequired = FALSE,
                                  !.state = "Browsing"]
    OBVIOUS
  <2>2. b \in Session
    BY <1>5, <2>1, BrowsingFields
  <2>3. /\ b.state = "Browsing" /\ b.seat = s.seat /\ b.life = s.life
        /\ b.deadline = s.deadline /\ b.ticketReq = s.ticketReq
        /\ b.nextTicket = s.nextTicket /\ b.admission = s.admission
        /\ b.authenticated /\ b.tasks = open.tasks /\ b.ready
    BY <1>5, <1>7, <2>1 DEF Session
  <2>4. s.state = "ConnectingAuthenticated" /\ s.admission # "sent"
    BY <1>12 DEF Good, SeatInv, TicketAuthenticates, Alive, RoomIsLive
  <2>5. TimersBelong(b)
    BY <1>7, <1>9, <2>3, <2>4 DEF TimersBelong
  <2>6. CASE competition
    <3>1. r = SendPendingAdmission(b)
      BY <1>2, <1>3, <1>12, <2>1, <2>6 DEF ServerHello
    <3>2. Alive(r) /\ KeepsSeat(b, r) /\ DrawsTicket(b, r)
      BY <2>2, <2>3, <2>4, <2>5, <3>1, SendPendingAdmissionAlive
    <3>3. QED
      BY <2>3, <2>4, <3>2 DEF Well, SeatMoves, KeepsSeat, DrawsTicket
  <2>7. CASE ~competition
    <3>1. r = ClearPendingAdmission(b)
      BY <1>2, <1>3, <1>12, <2>1, <2>7 DEF ServerHello
    <3>2. /\ r.state = b.state /\ r.seat = b.seat /\ r.life = b.life
          /\ r.deadline = b.deadline /\ r.ticketReq = b.ticketReq
          /\ r.nextTicket = b.nextTicket /\ r.admission = "none"
          /\ r.authenticated = b.authenticated /\ r.tasks = b.tasks
      BY <2>2, <3>1, ClearPendingAdmissionLeaves
    <3>3. TimersBelong(r) /\ RoomIsLive(r) /\ Awaits(r)
      BY <2>3, <2>5, <3>2 DEF TimersBelong, RoomIsLive, Awaits, IsAnonymousBrowsing
    <3>4. QED
      BY <2>3, <2>4, <3>2, <3>3 DEF Well, Alive, SeatMoves, KeepsSeat, DrawsTicket
  <2>8. QED
    BY <2>6, <2>7
<1>13. CASE s.handshake = "Resume"
  <2>1. s.state = "Reconnecting" /\ s.greeting \notin {Nobody, Anonymous}
        /\ s.seat # Nobody
    BY <1>13 DEF Good, SeatInv, TicketAuthenticates, SeatIsReal
  <2>2. s.seat = id.profile /\ s.greeting = id.profile
    BY <2>1 DEF Good, SeatInv, OwnsWhatItHolds
  <2>3. CASE r = FailResumeAtDeadline(offered)
    <3>1. Alive(r) /\ Out(r) /\ DrawsTicket(offered, r)
      BY <1>4, <1>6, <2>3, FailResumeAtDeadlineAlive
    <3>2. QED
      BY <1>6, <3>1 DEF Well, SeatMoves, DrawsTicket
  <2>4. CASE r = ApplyRoomSnapshot(open) /\ ~ResumeDeadlineReached(s)
    <3>1. s.deadline > 0
      BY <1>1, <1>9, <2>1, <2>4 DEF ResumeDeadlineReached, TimersBelong, Session, NoDeadline
    <3>2. \A t \in BrowseTasks : ~open.tasks[t].armed
      BY <1>7, <1>9, <2>1 DEF TimersBelong
    <3>3. /\ Alive(r) /\ DrawsTicket(open, r)
          /\ r.state = "InRoom" /\ r.seat = open.greeting
          /\ r.deadline = NoDeadline
      BY <1>5, <1>7, <1>9, <2>4, <3>2, ApplyRoomSnapshotAlive
    <3>4. QED
      BY <1>7, <2>1, <2>2, <3>1, <3>3 DEF Well, SeatMoves, DrawsTicket
  <2>5. CASE r = [ClearRoom(CancelReconnectTasks(open))
                    EXCEPT !.authenticated = TRUE, !.state = "Browsing"]
    <3>1. /\ r.state = "Browsing" /\ r.seat = Nobody /\ r.life = s.life
          /\ r.deadline = NoDeadline /\ r.ticketReq = s.ticketReq
          /\ r.nextTicket = s.nextTicket /\ r.admission = s.admission
          /\ r.authenticated
      BY <1>5, <1>7, <2>5 DEF ClearRoom, CancelReconnectTasks, Cancel, Session
    <3>2. /\ \A t \in ReconnectTasks : ~r.tasks[t].armed
          /\ \A t \in BrowseTasks : r.tasks[t] = open.tasks[t]
      <4>1. PICK c : c = CancelReconnectTasks(open)
        OBVIOUS
      <4>2. /\ c \in Session
            /\ \A t \in ReconnectTasks : ~c.tasks[t].armed
            /\ \A t \in BrowseTasks : c.tasks[t] = open.tasks[t]
        BY <1>5, <4>1, CancelReconnectTasksLeaves
      <4>3. r.tasks = c.tasks
        BY <2>5, <4>1, <4>2 DEF ClearRoom, Session
      <4>4. QED
        BY <4>2, <4>3
    <3>3. s.admission = "none"
      BY <2>1 DEF Good, SeatInv, SeatIsReal
    <3>4. TimersBelong(r)
      BY <1>7, <1>9, <2>1, <3>1, <3>2 DEF TimersBelong, TaskNames
    <3>5. RoomIsLive(r) /\ Awaits(r)
      BY <3>1, <3>3 DEF RoomIsLive, Awaits, IsAnonymousBrowsing
    <3>6. QED
      BY <3>1, <3>4, <3>5 DEF Well, Alive, DrawsTicket, SeatMoves, Out
  <2>6. QED
    BY <1>2, <1>3, <1>13, <2>3, <2>4, <2>5 DEF ServerHello
<1>14. QED
  BY <1>1, <1>10, <1>11, <1>12, <1>13 DEF Session, HandshakeKind

LEMMA IncompatibleAlive ==
    ASSUME NEW s, NEW id, Good(s, id), Alive(s), NEW r, r = Incompatible(s)
    PROVE  Well(s, r, id)
<1>1. s \in Session
  BY DEF Good
<1>2. CASE r = FailProtocol(s)
  BY <1>1, <1>2, FailProtocolAlive DEF Well, SeatMoves
<1>3. CASE ~s.ready /\ r = StartAnonymousBrowseAttempt(
                              [s EXCEPT !.fallback = FALSE, !.legacyOnly = TRUE])
  <2>1. PICK q : q = [s EXCEPT !.fallback = FALSE, !.legacyOnly = TRUE]
    OBVIOUS
  <2>2. q \in Session
    BY <1>1, <2>1 DEF Session
  <2>3. /\ q.state = s.state /\ q.seat = s.seat /\ q.life = s.life
        /\ q.deadline = s.deadline /\ q.ticketReq = s.ticketReq
        /\ q.nextTicket = s.nextTicket /\ q.active = s.active
        /\ q.admission = s.admission /\ q.gen = s.gen /\ q.ready = s.ready
        /\ q.directoryReady = s.directoryReady /\ q.tasks = s.tasks
        /\ q.authenticated = s.authenticated /\ q.greeting = s.greeting
        /\ q.commands = s.commands /\ q.backoff = s.backoff
    BY <1>1, <2>1 DEF Session
  <2>4. Alive(q)
    <3>1. TimersBelong(q)
      BY <2>3 DEF Alive, TimersBelong
    <3>2. RoomIsLive(q)
      BY <2>3 DEF Alive, RoomIsLive
    <3>3. Awaits(q)
      BY <2>3 DEF Alive, Awaits, IsAnonymousBrowsing, HasRoom
    <3>4. QED
      BY <3>1, <3>2, <3>3 DEF Alive
  <2>5. Well(q, r, id)
    <3>1. CASE IsAnonymousBrowsing(q)
      BY <1>3, <2>1, <2>2, <2>4, <3>1, StartAnonymousBrowseAttemptAlive
         DEF Well, SeatMoves, Alive
    <3>2. CASE ~IsAnonymousBrowsing(q)
      BY <1>3, <2>1, <2>4, <3>2, UnchangedWell DEF StartAnonymousBrowseAttempt
    <3>3. QED
      BY <3>1, <3>2
  <2>6. QED
    BY <2>3, <2>5, WellFrom
<1>4. QED
  BY <1>2, <1>3 DEF Incompatible

\* A seat whose link is lost while its room is shown.
LEMMA LinkOfSeatLost ==
    ASSUME NEW s \in Session, NEW id, s.active, s.state = "InRoom",
           s.seat # Nobody, TimersBelong(s),
           NEW r, r = BeginReconnect(s)
    PROVE  Well(s, r, id)
<1>1. \A t \in BrowseTasks : ~s.tasks[t].armed
  BY DEF TimersBelong
<1>2. QED
  BY <1>1, BeginReconnectAlive DEF Well, SeatMoves

LEMMA NewerRoomGenerationAlive ==
    ASSUME NEW s, NEW id, Good(s, id), Alive(s), s.ready, HasRoom(s),
           NEW r, r = BeginReconnect(s)
    PROVE  Well(s, r, id)
<1>1. s \in Session /\ s.active /\ s.state = "InRoom" /\ s.seat # Nobody
  BY DEF Good, SeatInv, SeatIsReal, Alive, RoomIsLive, HasRoom
<1>2. QED
  BY <1>1, LinkOfSeatLost DEF Alive

LEMMA CommandErrorAlive ==
    ASSUME NEW s, NEW id, Good(s, id), Alive(s), s.ready,
           NEW c \in s.commands, NEW stale, NEW r, r = CommandError(s, c, stale)
    PROVE  Well(s, r, id)
<1>1. s \in Session /\ s.active
  BY DEF Good, SeatInv, SeatIsReal
<1>2. PICK answered : answered = [s EXCEPT !.commands = s.commands \ {c}]
  OBVIOUS
<1>3. answered \in Session
  BY <1>1, <1>2 DEF Session
<1>4. /\ answered.state = s.state /\ answered.seat = s.seat
      /\ answered.life = s.life /\ answered.deadline = s.deadline
      /\ answered.ticketReq = s.ticketReq /\ answered.nextTicket = s.nextTicket
      /\ answered.active = s.active /\ answered.admission = s.admission
      /\ answered.gen = s.gen /\ answered.ready = s.ready
      /\ answered.directoryReady = s.directoryReady
      /\ answered.tasks = s.tasks /\ answered.authenticated = s.authenticated
      /\ answered.greeting = s.greeting /\ answered.backoff = s.backoff
      /\ answered.commands = s.commands \ {c}
  BY <1>1, <1>2 DEF Session
<1>5. CASE r = s
  BY <1>5, UnchangedWell
<1>6. CASE c.life = s.life /\ c.kind = "admission"
  <2>1. /\ s.admission = "sent" /\ s.state = "Browsing" /\ s.seat = Nobody
        /\ s.authenticated
    BY <1>6 DEF Good, SeatInv, SeatIsReal, TicketAuthenticates, Alive, RoomIsLive
  <2>2. r = [ClearPendingAdmission(answered) EXCEPT !.state = "Browsing"]
    BY <1>1, <1>2, <1>6, <2>1 DEF CommandError, HasRoom, ClearPendingAdmission, Session
  <2>3. /\ r.state = "Browsing" /\ r.seat = s.seat /\ r.life = s.life
        /\ r.deadline = s.deadline /\ r.ticketReq = s.ticketReq
        /\ r.nextTicket = s.nextTicket /\ r.admission = "none"
        /\ r.tasks = s.tasks /\ r.authenticated
    <3>1. PICK k : k = ClearPendingAdmission(answered)
      OBVIOUS
    <3>2. /\ k \in Session /\ k.seat = answered.seat /\ k.life = answered.life
          /\ k.deadline = answered.deadline /\ k.ticketReq = answered.ticketReq
          /\ k.nextTicket = answered.nextTicket /\ k.admission = "none"
          /\ k.tasks = answered.tasks /\ k.authenticated = answered.authenticated
      BY <1>3, <3>1, ClearPendingAdmissionLeaves
    <3>3. /\ r.state = "Browsing" /\ r.seat = k.seat /\ r.life = k.life
          /\ r.deadline = k.deadline /\ r.ticketReq = k.ticketReq
          /\ r.nextTicket = k.nextTicket /\ r.admission = k.admission
          /\ r.tasks = k.tasks /\ r.authenticated = k.authenticated
      BY <2>2, <3>1, <3>2 DEF Session
    <3>4. QED
      BY <1>4, <2>1, <3>2, <3>3
  <2>4. TimersBelong(r)
    BY <2>1, <2>3 DEF Alive, TimersBelong
  <2>5. RoomIsLive(r) /\ Awaits(r)
    BY <2>3 DEF RoomIsLive, Awaits, IsAnonymousBrowsing
  <2>6. QED
    BY <2>1, <2>3, <2>4, <2>5 DEF Well, Alive, DrawsTicket, SeatMoves, KeepsSeat
<1>7. CASE c.life = s.life /\ c.kind # "admission"
  <2>1. Alive(answered)
    <3>1. TimersBelong(answered)
      BY <1>4 DEF Alive, TimersBelong
    <3>2. RoomIsLive(answered)
      <4>1. [kind |-> "admission", life |-> s.life] # c
        BY <1>7
      <4>2. QED
        BY <1>4, <4>1 DEF Alive, RoomIsLive
    <3>3. Awaits(answered)
      BY <1>4 DEF Alive, Awaits, IsAnonymousBrowsing, HasRoom
    <3>4. QED
      BY <3>1, <3>2, <3>3 DEF Alive
  <2>2. CASE r = answered
    BY <1>4, <2>1, <2>2 DEF Well, DrawsTicket, SeatMoves, KeepsSeat
  <2>3. CASE HasRoom(s) /\ r = BeginReconnect(answered)
    <3>1. answered.state = "InRoom" /\ answered.seat # Nobody
      BY <1>4, <2>3 DEF Good, SeatInv, SeatIsReal, Alive, RoomIsLive, HasRoom
    <3>2. Well(answered, r, id)
      BY <1>1, <1>3, <1>4, <2>1, <2>3, <3>1, LinkOfSeatLost DEF Alive
    <3>3. QED
      BY <1>4, <3>2, WellFrom
  <2>4. QED
    BY <1>2, <1>7, <2>2, <2>3 DEF CommandError
<1>8. QED
  BY <1>5, <1>6, <1>7 DEF CommandError

LEMMA ReturnToAuthenticatedBrowserAlive ==
    ASSUME NEW s, NEW id, Good(s, id), Alive(s), s.ready, HasRoom(s),
           NEW r, r = ReturnToAuthenticatedBrowser(s)
    PROVE  Well(s, r, id)
<1>1. s \in Session /\ s.state = "InRoom"
  BY DEF Good, SeatInv, SeatIsReal, Alive, RoomIsLive, HasRoom
<1>2. s.authenticated /\ s.deadline = NoDeadline
  BY <1>1 DEF Alive, RoomIsLive, TimersBelong
<1>3. /\ r.state = "Browsing" /\ r.seat = Nobody /\ r.life = s.life
      /\ r.deadline = s.deadline /\ r.ticketReq = s.ticketReq
      /\ r.nextTicket = s.nextTicket /\ r.admission = "none"
      /\ r.authenticated = s.authenticated /\ r.tasks = s.tasks
  BY <1>1 DEF ReturnToAuthenticatedBrowser, ClearPendingAdmission, ClearRoom, Session
<1>4. TimersBelong(r)
  BY <1>1, <1>2, <1>3 DEF Alive, TimersBelong
<1>5. RoomIsLive(r) /\ Awaits(r)
  BY <1>2, <1>3 DEF RoomIsLive, Awaits, IsAnonymousBrowsing
<1>6. QED
  BY <1>2, <1>3, <1>4, <1>5 DEF Well, Alive, DrawsTicket, SeatMoves, Out

LEMMA ServerGoingAwayAlive ==
    ASSUME NEW s, NEW id, Good(s, id), Alive(s), s.ready,
           NEW r, r = ServerGoingAway(s)
    PROVE  Well(s, r, id)
<1>1. s \in Session
  BY DEF Good
<1>2. /\ r.state = "Error" /\ ~r.authenticated /\ r.deadline = NoDeadline
      /\ ~r.ready /\ r.admission = "none" /\ r.seat = Nobody
      /\ r.ticketReq = s.ticketReq /\ r.nextTicket = s.nextTicket
  BY <1>1 DEF ServerGoingAway, ClearRoom, InvalidateTransport,
     ClearPendingAdmission, CancelReconnectTasks, Cancel, Session
<1>3. \A t \in TaskNames : r.tasks[t] = Off
  BY <1>1 DEF ServerGoingAway, ClearRoom, InvalidateTransport,
     ClearPendingAdmission, CancelReconnectTasks, Cancel, Session, TaskNames
<1>4. TimersBelong(r)
  BY <1>2, <1>3 DEF TimersBelong, TaskNames, Off
<1>5. RoomIsLive(r) /\ Awaits(r)
  BY <1>2 DEF RoomIsLive, Awaits, IsAnonymousBrowsing
<1>6. QED
  BY <1>2, <1>4, <1>5 DEF Well, Alive, Out, DrawsTicket, SeatMoves

LEMMA LinkLostAlive ==
    ASSUME NEW s \in Session, NEW id, NEW otherwise \in Session, s.active,
           SeatIsReal(s), TimersBelong(s),
           otherwise.state = s.state, otherwise.seat = s.seat,
           otherwise.life = s.life, otherwise.deadline = s.deadline,
           otherwise.ticketReq = s.ticketReq,
           otherwise.nextTicket = s.nextTicket, otherwise.tasks = s.tasks,
           ~otherwise.ready,
           NEW r, r = LinkLost(s, otherwise)
    PROVE  Well(s, r, id)
<1>1. CASE s.state = "InRoom"
  <2>1. r = BeginReconnect(s) /\ s.seat # Nobody
    BY <1>1 DEF LinkLost, SeatIsReal
  <2>2. QED
    BY <1>1, <2>1, LinkOfSeatLost
<1>2. CASE s.state = "Reconnecting"
  <2>1. r = ScheduleReconnect(s) /\ s.admission = "none"
    BY <1>2 DEF LinkLost, SeatIsReal
  <2>2. QED
    BY <1>2, <2>1, ScheduleReconnectAlive, ResumesIsWell
<1>3. CASE /\ s.state \notin {"InRoom", "Reconnecting"}
           /\ s.state = "ConnectingAuthenticated" \/ s.admission # "none"
  BY <1>3, RestoreAnonymousAlive DEF LinkLost, Well, SeatMoves
<1>4. CASE /\ s.state \notin {"InRoom", "Reconnecting", "ConnectingAuthenticated"}
           /\ s.admission = "none" /\ IsAnonymousBrowsing(s)
  BY <1>4, ScheduleAnonymousBrowseRetryAlive DEF LinkLost, Well, SeatMoves
<1>5. CASE /\ s.state \notin {"InRoom", "Reconnecting", "ConnectingAuthenticated"}
           /\ s.admission = "none" /\ ~IsAnonymousBrowsing(s)
  <2>1. r = [ClearPendingAdmission(otherwise) EXCEPT !.authenticated = FALSE,
                                                     !.state = "Error"]
    BY <1>5 DEF LinkLost
  <2>2. /\ r.state = "Error" /\ r.seat = s.seat /\ r.life = s.life
        /\ r.deadline = s.deadline /\ r.ticketReq = s.ticketReq
        /\ r.nextTicket = s.nextTicket /\ r.admission = "none"
        /\ ~r.authenticated /\ r.tasks = s.tasks /\ ~r.ready
    BY <2>1 DEF ClearPendingAdmission, Session
  <2>3. TimersBelong(r)
    BY <1>5, <2>2 DEF TimersBelong
  <2>4. RoomIsLive(r) /\ Awaits(r)
    BY <2>2 DEF RoomIsLive, Awaits, IsAnonymousBrowsing
  <2>5. QED
    BY <1>5, <2>2, <2>3, <2>4 DEF Well, Alive, DrawsTicket, SeatMoves, KeepsSeat
<1>6. QED
  BY <1>1, <1>2, <1>3, <1>4, <1>5

LEMMA DisconnectedAlive ==
    ASSUME NEW s, NEW id, Good(s, id), Alive(s), NEW g,
           NEW r, r = Disconnected(s, g)
    PROVE  Well(s, r, id)
<1>1. s \in Session
  BY DEF Good
<1>2. PICK q : q = [s EXCEPT !.gen = NoGeneration, !.greeting = Nobody,
                             !.ready = FALSE, !.handshake = "None"]
  OBVIOUS
<1>3. q \in Session
  BY <1>1, <1>2, DroppedFields
<1>4. /\ q.state = s.state /\ q.seat = s.seat /\ q.life = s.life
      /\ q.deadline = s.deadline /\ q.ticketReq = s.ticketReq
      /\ q.nextTicket = s.nextTicket /\ q.active = s.active
      /\ q.admission = s.admission /\ q.tasks = s.tasks
      /\ q.authenticated = s.authenticated /\ q.ticket = s.ticket
      /\ q.gen = NoGeneration /\ q.greeting = Nobody /\ ~q.ready
      /\ q.handshake = "None"
  BY <1>1, <1>2 DEF Session
<1>5. SeatIsReal(q)
  BY <1>4 DEF Good, SeatInv, SeatIsReal
<1>6. TimersBelong(q)
  BY <1>4 DEF Alive, TimersBelong
<1>7. CASE r = s
  BY <1>7, UnchangedWell
<1>8. CASE s.active /\ r = LinkLost(q, q)
  <2>1. Well(q, r, id)
    BY <1>3, <1>4, <1>5, <1>6, <1>8, LinkLostAlive
  <2>2. QED
    BY <1>4, <2>1, WellFrom
<1>9. QED
  BY <1>2, <1>7, <1>8 DEF Disconnected

LEMMA TransportErrorAlive ==
    ASSUME NEW s, NEW id, Good(s, id), Alive(s), NEW g,
           NEW r, r = TransportError(s, g)
    PROVE  Well(s, r, id)
<1>1. s \in Session
  BY DEF Good
<1>2. PICK q : q = InvalidateTransport(s)
  OBVIOUS
<1>3. /\ q \in Session /\ q.state = s.state /\ q.seat = s.seat
      /\ q.life = s.life /\ q.deadline = s.deadline
      /\ q.ticketReq = s.ticketReq /\ q.nextTicket = s.nextTicket
      /\ q.tasks = s.tasks /\ ~q.ready
  BY <1>1, <1>2, InvalidateTransportLeaves
<1>4. CASE r = s
  BY <1>4, UnchangedWell
<1>5. CASE s.active /\ r = LinkLost(s, q)
  BY <1>1, <1>3, <1>5, LinkLostAlive DEF Good, SeatInv, Alive
<1>6. QED
  BY <1>2, <1>4, <1>5 DEF TransportError

\* The session no longer waits for the ticket it waited for.
StopsWaiting(s, r) == r.ticketReq = NoTicket \/ r.nextTicket # s.nextTicket

LEMMA TicketReadyAlive ==
    ASSUME NEW s, NEW id, Good(s, id), Alive(s), NEW req \in Nat \ {0},
           NEW profile \in Profiles, NEW r, r = TicketReady(s, req, profile)
    PROVE  /\ Well(s, r, id)
           /\ req = s.ticketReq => StopsWaiting(s, r)
<1>1. s \in Session /\ NoTicket \notin Nat \ {0}
  BY DEF Good, NoTicket
<1>2. PICK taken : taken = [s EXCEPT !.ticketReq = NoTicket]
  OBVIOUS
<1>3. PICK held : held = [taken EXCEPT !.ticket = profile]
  OBVIOUS
<1>4. taken \in Session /\ held \in Session
  BY ZenonT(30), <1>1, <1>2, <1>3 DEF Session, NoTicket
<1>5. /\ taken.active = s.active /\ taken.nextTicket = s.nextTicket
      /\ taken.ticketReq = NoTicket
  BY <1>1, <1>2 DEF Session
<1>6. /\ held.state = s.state /\ held.seat = s.seat /\ held.life = s.life
      /\ held.deadline = s.deadline /\ held.ticketReq = NoTicket
      /\ held.nextTicket = s.nextTicket /\ held.active = s.active
      /\ held.admission = s.admission /\ held.nextGen = s.nextGen
      /\ held.tasks = s.tasks /\ held.authenticated = s.authenticated
  BY <1>1, <1>2, <1>3 DEF Session
<1>7. CASE ~s.active \/ req # s.ticketReq
  <2>1. r = s /\ req # s.ticketReq
    <3>1. ~s.active => s.ticketReq = NoTicket
      BY DEF Good, SeatInv, SeatIsReal
    <3>2. QED
      BY <1>1, <1>7, <3>1 DEF TicketReady
  <2>2. QED
    BY <2>1, UnchangedWell
<1>8. CASE s.active /\ req = s.ticketReq
  <2>1. /\ s.state \in {"ConnectingAuthenticated", "Reconnecting"}
        /\ ~s.authenticated
    BY <1>1, <1>8 DEF Good, SeatInv, SeatIsReal
  <2>2. CASE r = FailResumeAtDeadline(taken)
    BY ZenonT(30), <1>4, <1>5, <1>8, <2>2, FailResumeAtDeadlineAlive
       DEF Well, SeatMoves, DrawsTicket, StopsWaiting
  <2>3. ASSUME NEW kind \in HandshakeKind, r = StartTransport(held, kind)
        PROVE  Well(s, r, id) /\ StopsWaiting(s, r)
    <3>1. /\ r.active = held.active /\ r.state = held.state
          /\ r.authenticated = held.authenticated
          /\ r.admission = held.admission /\ r.seat = held.seat
          /\ r.gen = held.nextGen /\ ~r.ready /\ r.life = held.life
          /\ r.ticketReq = held.ticketReq /\ r.nextTicket = held.nextTicket
          /\ r.tasks = held.tasks /\ r.deadline = held.deadline
      <4>1. held \in Session /\ kind \in HandshakeKind
        BY <1>4
      <4>2. PICK k : k = StartTransport(held, kind)
        OBVIOUS
      <4>3. /\ k.active = held.active /\ k.state = held.state
            /\ k.authenticated = held.authenticated
            /\ k.admission = held.admission /\ k.seat = held.seat
            /\ k.gen = held.nextGen /\ k.ready = FALSE /\ k.life = held.life
            /\ k.ticketReq = held.ticketReq
            /\ k.nextTicket = held.nextTicket
            /\ k.tasks = held.tasks /\ k.deadline = held.deadline
        BY <4>1, <4>2, StartTransportLeaves
      <4>4. QED
        BY <2>3, <4>2, <4>3
    <3>2. TimersBelong(r)
      BY <1>6, <2>1, <3>1 DEF Alive, TimersBelong
    <3>3. RoomIsLive(r)
      BY <1>6, <2>1, <3>1 DEF Alive, RoomIsLive
    <3>4. s.nextGen # NoGeneration
      BY <1>1 DEF Session, NoGeneration
    <3>5. s.state = "Reconnecting" =>
            \E t \in {"attempt", "retry"} : s.tasks[t].armed
      BY <1>1, <1>8 DEF Alive, Awaits
    <3>6. Awaits(r)
      BY <1>6, <2>1, <3>1, <3>4, <3>5 DEF Awaits, IsAnonymousBrowsing
    <3>7. QED
      BY <1>6, <3>1, <3>2, <3>3, <3>6
         DEF Well, Alive, DrawsTicket, SeatMoves, KeepsSeat, StopsWaiting
  <2>4. "AuthenticatedAdmission" \in HandshakeKind /\ "Resume" \in HandshakeKind
    BY DEF HandshakeKind
  <2>5. \/ r = FailResumeAtDeadline(taken)
        \/ r = StartTransport(held, "AuthenticatedAdmission")
        \/ r = StartTransport(held, "Resume")
    BY <1>2, <1>3, <1>8, <2>1 DEF TicketReady
  <2>6. QED
    BY <2>2, <2>3, <2>4, <2>5
<1>9. QED
  BY <1>7, <1>8

LEMMA TicketFailedAlive ==
    ASSUME NEW s, NEW id, Good(s, id), Alive(s), NEW req \in Nat \ {0},
           NEW network, NEW r, r = TicketFailed(s, req, network)
    PROVE  /\ Well(s, r, id)
           /\ req = s.ticketReq => StopsWaiting(s, r)
<1>1. s \in Session /\ NoTicket \notin Nat \ {0}
  BY DEF Good, NoTicket
<1>2. PICK taken : taken = [s EXCEPT !.ticketReq = NoTicket, !.ticket = Nobody]
  OBVIOUS
<1>3. taken \in Session
  BY <1>1, <1>2, NoTicketFields
<1>4. /\ taken.state = s.state /\ taken.seat = s.seat /\ taken.life = s.life
      /\ taken.deadline = s.deadline /\ taken.ticketReq = NoTicket
      /\ taken.nextTicket = s.nextTicket /\ taken.active = s.active
      /\ taken.admission = s.admission
      /\ taken.tasks = s.tasks /\ taken.authenticated = s.authenticated
  BY <1>1, <1>2 DEF Session
<1>5. CASE ~s.active \/ req # s.ticketReq
  <2>1. r = s /\ req # s.ticketReq
    <3>1. ~s.active => s.ticketReq = NoTicket
      BY DEF Good, SeatInv, SeatIsReal
    <3>2. QED
      BY <1>1, <1>5, <3>1 DEF TicketFailed
  <2>2. QED
    BY <2>1, UnchangedWell
<1>6. CASE s.active /\ req = s.ticketReq
  <2>1. s.state \in {"ConnectingAuthenticated", "Reconnecting"}
    BY <1>1, <1>6 DEF Good, SeatInv, SeatIsReal
  <2>2. TimersBelong(s) /\ TimersBelong(taken)
    BY <1>4 DEF Alive, TimersBelong
  <2>3. CASE r = FailResumeAtDeadline(taken)
    BY <1>3, <1>4, <1>6, <2>3, FailResumeAtDeadlineAlive
       DEF Well, SeatMoves, DrawsTicket, StopsWaiting
  <2>4. CASE s.state = "Reconnecting" /\ r = ScheduleReconnect(taken)
    <3>1. taken.admission = "none"
      BY <1>4, <2>4 DEF Good, SeatInv, SeatIsReal
    <3>2. Resumes(taken, r)
      BY <1>3, <1>4, <1>6, <2>2, <2>4, <3>1, ScheduleReconnectAlive
    <3>3. QED
      BY <1>4, <3>2 DEF Well, Resumes, SeatMoves, KeepsSeat, DrawsTicket, StopsWaiting
  <2>5. ASSUME NEW unseated \in Session, unseated.seat = Nobody,
               unseated.active, unseated.deadline = NoDeadline,
               unseated.ticketReq = NoTicket,
               unseated.nextTicket = s.nextTicket,
               \A t \in ReconnectTasks : ~unseated.tasks[t].armed,
               r = OpenAnonymousBrowsing(ClearPendingAdmission(unseated))
        PROVE  Well(s, r, id) /\ StopsWaiting(s, r)
    <3>1. PICK k : k = ClearPendingAdmission(unseated)
      OBVIOUS
    <3>2. /\ k \in Session /\ k.active /\ k.seat = Nobody
          /\ k.admission = "none" /\ k.deadline = NoDeadline
          /\ k.ticketReq = NoTicket /\ k.nextTicket = s.nextTicket
          /\ k.tasks = unseated.tasks
      BY <2>5, <3>1, ClearPendingAdmissionLeaves
    <3>3. \A t \in ReconnectTasks : ~k.tasks[t].armed
      BY <2>5, <3>2
    <3>4. /\ Alive(r) /\ r.state = "Disconnected" /\ r.seat = Nobody
          /\ r.deadline = NoDeadline
          /\ r.ticketReq = k.ticketReq /\ r.nextTicket = k.nextTicket
      BY <2>5, <3>1, <3>2, <3>3, OpenAnonymousBrowsingAlive
    <3>5. QED
      BY <3>2, <3>4 DEF Well, SeatMoves, Out, DrawsTicket, StopsWaiting
  <2>6. CASE /\ s.state = "Reconnecting"
             /\ r = OpenAnonymousBrowsing(ClearPendingAdmission(
                        ClearRoom(CancelReconnectTasks(taken))))
    <3>1. PICK c : c = CancelReconnectTasks(taken)
      OBVIOUS
    <3>2. PICK u : u = ClearRoom(c)
      OBVIOUS
    <3>3. /\ c \in Session
          /\ OnlyTimers([taken EXCEPT !.deadline = NoDeadline], c)
          /\ c.deadline = NoDeadline
          /\ \A t \in ReconnectTasks : ~c.tasks[t].armed
      BY <1>3, <3>1, CancelReconnectTasksLeaves
    <3>4. /\ c.active /\ c.ticketReq = NoTicket
          /\ c.nextTicket = s.nextTicket
      <4>1. PICK d : d = [taken EXCEPT !.deadline = NoDeadline]
        OBVIOUS
      <4>2. /\ d.active = taken.active /\ d.ticketReq = taken.ticketReq
            /\ d.nextTicket = taken.nextTicket
        BY <1>3, <4>1 DEF Session
      <4>3. OnlyTimers(d, c)
        BY <3>3, <4>1
      <4>4. c.active = d.active /\ c.ticketReq = d.ticketReq /\ c.nextTicket = d.nextTicket
        BY <4>3 DEF OnlyTimers
      <4>5. QED
        BY <1>3, <1>4, <1>6, <4>2, <4>4
    <3>5. /\ u \in Session /\ u.active = c.active /\ u.seat = Nobody
          /\ u.deadline = c.deadline /\ u.ticketReq = c.ticketReq
          /\ u.nextTicket = c.nextTicket /\ u.tasks = c.tasks
      BY <3>2, <3>3, ClearRoomLeaves
    <3>6. \A t \in ReconnectTasks : ~u.tasks[t].armed
      BY <3>3, <3>5
    <3>7. r = OpenAnonymousBrowsing(ClearPendingAdmission(u))
      BY <2>6, <3>1, <3>2
    <3>8. QED
      BY <2>5, <3>3, <3>4, <3>5, <3>6, <3>7
  <2>7. CASE /\ s.state # "Reconnecting"
             /\ r = OpenAnonymousBrowsing(ClearPendingAdmission(taken))
    <3>1. taken.seat = Nobody
      BY <1>4, <2>1, <2>7 DEF Good, SeatInv, SeatIsReal
    <3>2. /\ taken.deadline = NoDeadline
          /\ \A t \in ReconnectTasks : ~taken.tasks[t].armed
      BY <1>4, <2>2, <2>7 DEF TimersBelong
    <3>3. QED
      BY <1>3, <1>4, <1>6, <2>5, <2>7, <3>1, <3>2
  <2>8. QED
    BY <1>2, <1>6, <2>3, <2>4, <2>6, <2>7 DEF TicketFailed
<1>7. QED
  BY <1>5, <1>6

\* The identity changed: nothing is held under the old one any more.
LEMMA LastLoggedInAlive ==
    ASSUME NEW s \in Session, Alive(s), NEW b \in BOOLEAN,
           NEW t, t = [s EXCEPT !.lastLoggedIn = b]
    PROVE  /\ t \in Session /\ Alive(t)
           /\ t.state = s.state /\ t.seat = s.seat /\ t.deadline = s.deadline
           /\ t.ticketReq = s.ticketReq /\ t.nextTicket = s.nextTicket
           /\ t.active = s.active /\ t.admission = s.admission
<1>1. t \in Session
  BY LastLoggedInFields
<1>2. /\ t.state = s.state /\ t.seat = s.seat /\ t.life = s.life
      /\ t.deadline = s.deadline /\ t.ticketReq = s.ticketReq
      /\ t.nextTicket = s.nextTicket /\ t.active = s.active
      /\ t.admission = s.admission /\ t.gen = s.gen /\ t.ready = s.ready
      /\ t.directoryReady = s.directoryReady /\ t.tasks = s.tasks
      /\ t.authenticated = s.authenticated /\ t.greeting = s.greeting
      /\ t.commands = s.commands /\ t.backoff = s.backoff
  BY DEF Session
<1>3. TimersBelong(t)
  BY <1>2 DEF Alive, TimersBelong
<1>4. RoomIsLive(t)
  BY <1>2 DEF Alive, RoomIsLive
<1>5. Awaits(t)
  BY <1>2 DEF Alive, Awaits, IsAnonymousBrowsing, HasRoom
<1>6. QED
  BY <1>1, <1>2, <1>3, <1>4, <1>5 DEF Alive

LEMMA ActiveProfileChangedAlive ==
    ASSUME NEW s, NEW old, Good(s, old), Alive(s), NEW loggedIn \in BOOLEAN,
           NEW r, r = ActiveProfileChanged(s, loggedIn)
    PROVE  Alive(r) /\ Out(r) /\ r.ticketReq = NoTicket
           /\ r.nextTicket = s.nextTicket
<1>1. s \in Session
  BY DEF Good
<1>2. PICK t : t = [s EXCEPT !.lastLoggedIn = loggedIn]
  OBVIOUS
<1>3. /\ t \in Session /\ Alive(t)
      /\ t.state = s.state /\ t.seat = s.seat /\ t.deadline = s.deadline
      /\ t.ticketReq = s.ticketReq /\ t.nextTicket = s.nextTicket
      /\ t.active = s.active
  BY <1>1, <1>2, LastLoggedInAlive
<1>4. r = CleanupForIdentityChange(t)
  BY <1>2 DEF ActiveProfileChanged
<1>5. CASE s.active
  BY <1>3, <1>4, <1>5, CleanupForIdentityChangeAlive
<1>6. CASE ~s.active
  <2>1. r = t
    BY <1>3, <1>4, <1>6 DEF CleanupForIdentityChange
  <2>2. s.state = "Disconnected" /\ s.seat = Nobody /\ s.ticketReq = NoTicket
    BY <1>6 DEF Good, SeatInv, SeatIsReal
  <2>3. s.deadline = NoDeadline
    BY <2>2 DEF Alive, TimersBelong
  <2>4. QED
    BY <1>3, <2>1, <2>2, <2>3 DEF Out
<1>7. QED
  BY <1>5, <1>6

LEMMA LoginStateChangedAlive ==
    ASSUME NEW s, NEW old, Good(s, old), Alive(s), old.loggedIn \in BOOLEAN,
           NEW loggedIn, loggedIn = ~old.loggedIn,
           NEW r, r = LoginStateChanged(s, loggedIn)
    PROVE  Alive(r) /\ Out(r) /\ DrawsTicket(s, r) /\ StopsWaiting(s, r)
<1>1. s \in Session /\ s.lastLoggedIn = old.loggedIn /\ loggedIn \in BOOLEAN
  BY DEF Good, SeatInv, OwnsWhatItHolds
<1>2. PICK t : t = [s EXCEPT !.lastLoggedIn = loggedIn]
  OBVIOUS
<1>3. /\ t \in Session /\ Alive(t)
      /\ t.state = s.state /\ t.seat = s.seat /\ t.deadline = s.deadline
      /\ t.ticketReq = s.ticketReq /\ t.nextTicket = s.nextTicket
      /\ t.active = s.active /\ t.admission = s.admission
  BY ZenonT(30), <1>1, <1>2, LastLoggedInAlive
<1>4. ASSUME ~old.loggedIn \/ ~s.active
      PROVE  /\ s.seat = Nobody /\ s.state # "Reconnecting"
             /\ s.deadline = NoDeadline /\ s.ticketReq = NoTicket
             /\ s.admission # "sent"
  <2>1. s.seat = Nobody /\ s.ticketReq = NoTicket
    BY <1>4 DEF Good, SeatInv, OwnsWhatItHolds, SeatIsReal
  <2>2. s.state # "Reconnecting"
    BY <2>1 DEF Good, SeatInv, SeatIsReal
  <2>3. s.admission # "sent"
    BY <1>4 DEF Good, SeatInv, OwnsWhatItHolds, TicketAuthenticates, SeatIsReal
  <2>4. QED
    BY <2>1, <2>2, <2>3 DEF Alive, TimersBelong
<1>5. CASE r = t /\ (~old.loggedIn \/ ~s.active)
  BY <1>3, <1>4, <1>5 DEF Out, DrawsTicket, StopsWaiting
<1>6. CASE s.active /\ r = CleanupForIdentityChange(t)
  BY <1>3, <1>6, CleanupForIdentityChangeAlive DEF DrawsTicket, StopsWaiting
<1>7. CASE /\ ~old.loggedIn /\ s.active /\ s.admission # "none"
           /\ r = BeginAuthenticatedAdmission(t, loggedIn)
  <2>1. t.admission = "wanted" /\ t.state # "Reconnecting" /\ loggedIn = TRUE
    BY <1>1, <1>3, <1>4, <1>7 DEF Session, AdmissionState
  <2>2. r = BeginAuthenticatedAdmission(t, TRUE)
    BY <1>7, <2>1
  <2>3. Alive(r) /\ KeepsSeat(t, r) /\ DrawsTicket(t, r)
    BY <1>3, <1>7, <2>1, <2>2, BeginAuthenticatedAdmissionAlive DEF Alive
  <2>4. QED
    BY <1>3, <1>4, <1>7, <2>1, <2>3 DEF KeepsSeat, Out, DrawsTicket, StopsWaiting
<1>8. QED
  BY <1>1, <1>2, <1>5, <1>6, <1>7 DEF LoginStateChanged

LEMMA ConnectForBrowsingAlive ==
    ASSUME NEW s, NEW id, Good(s, id), Alive(s), ~s.active,
           NEW r, r = ConnectForBrowsing(s)
    PROVE  Well(s, r, id)
<1>1. s \in Session
  BY DEF Good
<1>2. PICK q : q = [s EXCEPT !.active = TRUE, !.fallback = TRUE,
                             !.legacyOnly = FALSE]
  OBVIOUS
<1>3. q \in Session
  BY <1>1, <1>2, ConnectForBrowsingFields
<1>4. /\ q.active /\ q.seat = s.seat /\ q.admission = s.admission
      /\ q.deadline = s.deadline /\ q.tasks = s.tasks
      /\ q.ticketReq = s.ticketReq /\ q.nextTicket = s.nextTicket
  BY <1>1, <1>2 DEF Session
<1>5. /\ s.state = "Disconnected" /\ s.seat = Nobody /\ s.admission = "none"
  BY DEF Good, SeatInv, SeatIsReal
<1>6. s.deadline = NoDeadline /\ \A t \in ReconnectTasks : ~s.tasks[t].armed
  BY <1>5 DEF Alive, TimersBelong
<1>7. r = OpenAnonymousBrowsing(q)
  BY <1>2 DEF ConnectForBrowsing
<1>8. QED
  BY <1>3, <1>4, <1>5, <1>6, <1>7, OpenAnonymousBrowsingAlive
     DEF Well, SeatMoves, Out, DrawsTicket

LEMMA JoinRoomAlive ==
    ASSUME NEW s, NEW id, Good(s, id), Alive(s), NEW loggedIn \in BOOLEAN,
           NEW r, r = JoinRoom(s, loggedIn)
    PROVE  Well(s, r, id)
<1>1. s \in Session
  BY DEF Good
<1>2. PICK k : k = ClearPendingAdmission(s)
  OBVIOUS
<1>3. /\ k \in Session /\ k.active = s.active /\ k.state = s.state
      /\ k.authenticated = s.authenticated
      /\ k.directoryReady = s.directoryReady
      /\ k.seat = s.seat /\ k.gen = s.gen /\ k.ready = s.ready
      /\ k.life = s.life /\ k.ticketReq = s.ticketReq
      /\ k.nextTicket = s.nextTicket /\ k.tasks = s.tasks
      /\ k.deadline = s.deadline
  BY <1>1, <1>2, ClearPendingAdmissionLeaves
<1>4. PICK w : w = [k EXCEPT !.admission = "wanted"]
  OBVIOUS
<1>5. w \in Session
  BY <1>3, <1>4, JoinFields DEF AdmissionState
<1>6. /\ w.active = s.active /\ w.state = s.state
      /\ w.authenticated = s.authenticated
      /\ w.seat = s.seat /\ w.life = s.life /\ w.ticketReq = s.ticketReq
      /\ w.nextTicket = s.nextTicket /\ w.tasks = s.tasks
      /\ w.deadline = s.deadline /\ w.admission = "wanted"
  BY <1>3, <1>4 DEF Session
<1>7. TimersBelong(w)
  BY <1>6 DEF Alive, TimersBelong
<1>8. CASE r = s
  BY <1>8, UnchangedWell
<1>9. CASE s.state = "Browsing" /\ r = [w EXCEPT !.loginRequired = TRUE]
  <2>1. /\ r.active = w.active /\ r.state = w.state
        /\ r.authenticated = w.authenticated
        /\ r.seat = w.seat /\ r.life = w.life /\ r.ticketReq = w.ticketReq
        /\ r.nextTicket = w.nextTicket /\ r.tasks = w.tasks
        /\ r.deadline = w.deadline /\ r.admission = w.admission
    BY <1>5, <1>9 DEF Session
  <2>2. TimersBelong(r)
    BY <1>7, <2>1 DEF TimersBelong
  <2>3. RoomIsLive(r) /\ Awaits(r)
    BY <1>6, <1>9, <2>1 DEF RoomIsLive, Awaits, IsAnonymousBrowsing
  <2>4. QED
    BY <1>6, <2>1, <2>2, <2>3 DEF Well, Alive, SeatMoves, KeepsSeat, DrawsTicket
<1>10. CASE /\ s.state = "Browsing" /\ s.authenticated
            /\ r = SendPendingAdmission(w)
  <2>1. Alive(r) /\ KeepsSeat(w, r) /\ DrawsTicket(w, r)
    BY <1>5, <1>6, <1>7, <1>10, SendPendingAdmissionAlive
  <2>2. QED
    BY <1>6, <2>1 DEF Well, SeatMoves, KeepsSeat, DrawsTicket
<1>11. CASE /\ s.active /\ s.state = "Browsing"
            /\ r = BeginAuthenticatedAdmission(w, TRUE)
  <2>1. Alive(r) /\ KeepsSeat(w, r) /\ DrawsTicket(w, r)
    BY <1>5, <1>6, <1>7, <1>11, BeginAuthenticatedAdmissionAlive
  <2>2. QED
    BY <1>6, <2>1 DEF Well, SeatMoves, KeepsSeat, DrawsTicket
<1>12. QED
  BY <1>2, <1>4, <1>8, <1>9, <1>10, <1>11 DEF JoinRoom

LEMMA LeaveRoomAlive ==
    ASSUME NEW s, NEW id, Good(s, id), Alive(s), NEW r, r = LeaveRoom(s)
    PROVE  Well(s, r, id)
<1>1. s \in Session
  BY DEF Good
<1>2. CASE r = s
  BY <1>2, UnchangedWell
<1>3. CASE s.state = "Reconnecting"
  <2>1. PICK c : c = CancelReconnectTasks(s)
    OBVIOUS
  <2>2. PICK l : l = [c EXCEPT !.life = s.life + 1, !.ticketReq = NoTicket]
    OBVIOUS
  <2>3. /\ c \in Session
        /\ OnlyTimers([s EXCEPT !.deadline = NoDeadline], c)
        /\ c.deadline = NoDeadline
        /\ \A t \in ReconnectTasks : ~c.tasks[t].armed
    BY <1>1, <2>1, CancelReconnectTasksLeaves
  <2>4. c.active = s.active /\ c.nextTicket = s.nextTicket /\ c.admission = s.admission
    BY <1>1, <2>3 DEF OnlyTimers, Session
  <2>5. s.active /\ s.admission = "none" /\ s.life + 1 \in Nat
    BY <1>1, <1>3 DEF Good, SeatInv, SeatIsReal, Session
  <2>6. l \in Session
    BY <2>2, <2>3, <2>5, LeaveFields
  <2>7. /\ l.active /\ l.nextTicket = s.nextTicket /\ l.admission = "none"
        /\ l.ticketReq = NoTicket /\ l.deadline = NoDeadline /\ l.tasks = c.tasks
    BY <2>2, <2>3, <2>4, <2>5 DEF Session
  <2>8. PICK i : i = InvalidateTransport(l)
    OBVIOUS
  <2>9. /\ i \in Session /\ i.active = l.active /\ i.nextTicket = l.nextTicket
        /\ i.admission = l.admission /\ i.ticketReq = l.ticketReq
        /\ i.deadline = l.deadline /\ i.tasks = l.tasks
    BY <2>6, <2>8, InvalidateTransportLeaves
  <2>10. PICK o : o = ClearRoom(i)
    OBVIOUS
  <2>11. /\ o \in Session /\ o.active = i.active /\ o.nextTicket = i.nextTicket
         /\ o.admission = i.admission /\ o.ticketReq = i.ticketReq
         /\ o.deadline = i.deadline /\ o.tasks = i.tasks /\ o.seat = Nobody
    BY <2>9, <2>10, ClearRoomLeaves
  <2>12. r = OpenAnonymousBrowsing(o)
    BY <1>3, <2>1, <2>2, <2>8, <2>10 DEF LeaveRoom
  <2>13. /\ Alive(r) /\ r.state = "Disconnected" /\ r.seat = Nobody
         /\ r.deadline = NoDeadline
         /\ r.ticketReq = o.ticketReq /\ r.nextTicket = o.nextTicket
    <3>1. \A t \in ReconnectTasks : ~o.tasks[t].armed
      BY <2>3, <2>7, <2>9, <2>11
    <3>2. QED
      BY <2>7, <2>9, <2>11, <2>12, <3>1, OpenAnonymousBrowsingAlive
  <2>14. QED
    BY <2>7, <2>9, <2>11, <2>13 DEF Well, SeatMoves, Out, DrawsTicket
<1>4. ASSUME NEW c, r = [s EXCEPT !.commands = s.commands \cup {c}]
      PROVE  Well(s, r, id)
  <2>1. /\ r.state = s.state /\ r.seat = s.seat /\ r.life = s.life
        /\ r.deadline = s.deadline /\ r.ticketReq = s.ticketReq
        /\ r.nextTicket = s.nextTicket /\ r.active = s.active
        /\ r.admission = s.admission /\ r.gen = s.gen /\ r.ready = s.ready
        /\ r.directoryReady = s.directoryReady /\ r.tasks = s.tasks
        /\ r.authenticated = s.authenticated /\ r.greeting = s.greeting
        /\ r.commands = s.commands \cup {c} /\ r.backoff = s.backoff
    BY <1>1, <1>4 DEF Session
  <2>2. TimersBelong(r)
    BY <2>1 DEF Alive, TimersBelong
  <2>3. RoomIsLive(r)
    BY <2>1 DEF Alive, RoomIsLive
  <2>4. Awaits(r)
    BY <2>1 DEF Alive, Awaits, IsAnonymousBrowsing, HasRoom
  <2>5. QED
    BY <2>1, <2>2, <2>3, <2>4 DEF Well, Alive, SeatMoves, KeepsSeat, DrawsTicket
<1>5. QED
  BY <1>2, <1>3, <1>4 DEF LeaveRoom

\* A session without the timers named, when what it waits for is elsewhere.
LEMMA CancelledTimers ==
    ASSUME NEW s \in Session, TimersBelong(s), RoomIsLive(s), NEW names,
           NEW r, r = Cancel(s, names)
    PROVE  /\ r \in Session /\ TimersBelong(r) /\ RoomIsLive(r)
           /\ OnlyTimers(s, r) /\ KeepsSeat(s, r) /\ DrawsTicket(s, r)
           /\ \A t \in TaskNames : t \notin names => r.tasks[t] = s.tasks[t]
<1>1. /\ r \in Session
      /\ OnlyTimers(s, r)
      /\ \A t \in TaskNames :
            r.tasks[t] = IF t \in names THEN Off ELSE s.tasks[t]
  BY CancelTasks
<1>2. \A t \in TaskNames : r.tasks[t].armed => r.tasks[t] = s.tasks[t]
  BY <1>1 DEF Off
<1>3. /\ r.state = s.state /\ r.deadline = s.deadline /\ r.life = s.life
      /\ r.authenticated = s.authenticated /\ r.seat = s.seat
      /\ r.ready = s.ready /\ r.greeting = s.greeting
      /\ r.admission = s.admission /\ r.commands = s.commands
      /\ r.ticketReq = s.ticketReq /\ r.nextTicket = s.nextTicket
  BY <1>1 DEF OnlyTimers
<1>4. TimersBelong(r)
  BY <1>2, <1>3 DEF TimersBelong, TaskNames
<1>5. RoomIsLive(r)
  BY <1>3 DEF RoomIsLive
<1>6. QED
  BY <1>1, <1>3, <1>4, <1>5 DEF KeepsSeat, DrawsTicket

LEMMA RetryAlive ==
    ASSUME NEW s, NEW id, Good(s, id), Alive(s), NEW r, r = Retry(s)
    PROVE  Well(s, r, id)
<1>1. s \in Session
  BY DEF Good
<1>2. CASE r = s
  BY <1>2, UnchangedWell
<1>3. CASE /\ s.active /\ s.state = "Reconnecting"
           /\ r = StartResumeAttempt(Cancel(s, {"retry"}))
  <2>1. PICK c : c = Cancel(s, {"retry"})
    OBVIOUS
  <2>2. c \in Session /\ TimersBelong(c) /\ OnlyTimers(s, c)
    BY <1>1, <2>1, CancelledTimers DEF Alive
  <2>3. /\ c.active /\ c.state = s.state /\ c.admission = s.admission
        /\ c.seat = s.seat /\ c.deadline = s.deadline
        /\ c.ticketReq = s.ticketReq /\ c.nextTicket = s.nextTicket
    BY <1>3, <2>2 DEF OnlyTimers
  <2>4. s.admission = "none"
    BY <1>3 DEF Good, SeatInv, SeatIsReal
  <2>5. Resumes(c, r)
    BY <1>3, <2>1, <2>2, <2>3, <2>4, StartResumeAttemptAlive
  <2>6. QED
    BY <2>3, <2>5, ResumesIsWell, WellFrom
<1>4. CASE /\ s.active /\ s.state = "Error"
           /\ r = OpenAnonymousBrowsing(InvalidateTransport(s))
  <2>1. PICK i : i = InvalidateTransport(s)
    OBVIOUS
  <2>2. /\ i \in Session /\ i.active = s.active /\ i.seat = s.seat
        /\ i.admission = s.admission /\ i.deadline = s.deadline
        /\ i.tasks = s.tasks /\ i.ticketReq = s.ticketReq
        /\ i.nextTicket = s.nextTicket
    BY <1>1, <2>1, InvalidateTransportLeaves
  <2>3. s.seat = Nobody /\ s.admission = "none"
    BY <1>4 DEF Good, SeatInv, SeatIsReal
  <2>4. s.deadline = NoDeadline /\ \A t \in ReconnectTasks : ~s.tasks[t].armed
    BY <1>4 DEF Alive, TimersBelong
  <2>5. /\ Alive(r) /\ r.state = "Disconnected" /\ r.seat = Nobody
        /\ r.deadline = NoDeadline
        /\ r.ticketReq = i.ticketReq /\ r.nextTicket = i.nextTicket
    BY <1>4, <2>1, <2>2, <2>3, <2>4, OpenAnonymousBrowsingAlive
  <2>6. QED
    BY <2>2, <2>5 DEF Well, SeatMoves, Out, DrawsTicket
<1>5. QED
  BY <1>2, <1>3, <1>4 DEF Retry

LEMMA ExitArenaAlive ==
    ASSUME NEW s, NEW id, Good(s, id), Alive(s), NEW r, r = ExitArena(s)
    PROVE  Well(s, r, id)
<1>1. s \in Session
  BY DEF Good
<1>2. CASE r = s
  BY <1>2, UnchangedWell
<1>3. CASE s.active
  <2>1. /\ r.state = "Disconnected" /\ ~r.authenticated
        /\ r.deadline = NoDeadline /\ ~r.ready /\ r.admission = "none"
        /\ r.seat = Nobody /\ r.ticketReq = NoTicket
        /\ r.nextTicket = s.nextTicket /\ ~r.active
    BY <1>1, <1>3 DEF ExitArena, ClearRoom, InvalidateTransport,
       ClearPendingAdmission, InvalidateAsyncWork, CancelReconnectTasks, Cancel,
       Session
  <2>2. \A t \in TaskNames : ~r.tasks[t].armed
    BY <1>1, <1>3 DEF ExitArena, ClearRoom, InvalidateTransport,
       ClearPendingAdmission, InvalidateAsyncWork, CancelReconnectTasks, Cancel,
       Session, TaskNames, Off
  <2>3. TimersBelong(r)
    BY <2>1, <2>2 DEF TimersBelong, TaskNames
  <2>4. RoomIsLive(r) /\ Awaits(r)
    BY <2>1 DEF RoomIsLive, Awaits, IsAnonymousBrowsing
  <2>5. QED
    BY <2>1, <2>3, <2>4 DEF Well, Alive, SeatMoves, Out, DrawsTicket
<1>4. QED
  BY <1>2, <1>3 DEF ExitArena

LEMMA TimerFiredAlive ==
    ASSUME NEW s, NEW id, Good(s, id), Alive(s), NEW name \in TaskNames,
           s.tasks[name].armed, NEW r, r = TimerFired(s, name)
    PROVE  Well(s, r, id)
<1>1. s \in Session /\ TimersBelong(s) /\ RoomIsLive(s) /\ Awaits(s)
  BY DEF Good, Alive
<1>2. s.tasks[name].life = s.life
  BY <1>1 DEF TimersBelong
<1>3. PICK fired : fired = Cancel(s, {name})
  OBVIOUS
<1>4. /\ fired \in Session /\ TimersBelong(fired) /\ RoomIsLive(fired)
      /\ OnlyTimers(s, fired) /\ KeepsSeat(s, fired) /\ DrawsTicket(s, fired)
      /\ \A t \in TaskNames : t # name => fired.tasks[t] = s.tasks[t]
  <2>1. /\ fired \in Session /\ TimersBelong(fired) /\ RoomIsLive(fired)
        /\ OnlyTimers(s, fired) /\ KeepsSeat(s, fired) /\ DrawsTicket(s, fired)
        /\ \A t \in TaskNames : t \notin {name} => fired.tasks[t] = s.tasks[t]
    BY <1>1, <1>3, CancelledTimers
  <2>2. QED
    BY <2>1
<1>5. /\ fired.active = s.active /\ fired.state = s.state
      /\ fired.authenticated = s.authenticated
      /\ fired.directoryReady = s.directoryReady
      /\ fired.admission = s.admission /\ fired.seat = s.seat
      /\ fired.gen = s.gen /\ fired.ticketReq = s.ticketReq
      /\ fired.nextTicket = s.nextTicket /\ fired.deadline = s.deadline
      /\ fired.backoff = s.backoff
  BY <1>4 DEF OnlyTimers
<1>6. IsAnonymousBrowsing(fired) <=> IsAnonymousBrowsing(s)
  BY <1>5 DEF IsAnonymousBrowsing, HasRoom
<1>7. CASE name \in ReconnectTasks
  <2>1. s.state = "Reconnecting"
    BY <1>1, <1>7 DEF TimersBelong
  <2>2. s.active /\ s.admission = "none"
    BY <2>1 DEF Good, SeatInv, SeatIsReal
  <2>3. \/ r = FailResumeAtDeadline(fired)
        \/ r = ScheduleReconnect(fired)
        \/ r = StartResumeAttempt(fired)
    BY <1>2, <1>3, <1>7, <2>1, <2>2 DEF TimerFired, ReconnectTasks
  <2>4. CASE r = FailResumeAtDeadline(fired)
    <3>1. Alive(r) /\ Out(r) /\ DrawsTicket(fired, r)
      BY <1>4, <1>5, <2>2, <2>4, FailResumeAtDeadlineAlive
    <3>2. QED
      BY <1>5, <3>1 DEF Well, SeatMoves, DrawsTicket
  <2>5. CASE r = ScheduleReconnect(fired)
    <3>1. Resumes(fired, r)
      BY <1>4, <1>5, <2>1, <2>2, <2>5, ScheduleReconnectAlive
    <3>2. QED
      BY <1>5, <3>1, ResumesIsWell, WellFrom
  <2>6. CASE r = StartResumeAttempt(fired)
    <3>1. Resumes(fired, r)
      BY <1>4, <1>5, <2>1, <2>2, <2>6, StartResumeAttemptAlive
    <3>2. QED
      BY <1>5, <3>1, ResumesIsWell, WellFrom
  <2>7. QED
    BY <2>3, <2>4, <2>5, <2>6
<1>8. CASE name = "browseAttempt"
  <2>1. CASE /\ IsAnonymousBrowsing(s)
             /\ r = ScheduleAnonymousBrowseRetry(fired)
    <3>1. Alive(r) /\ KeepsSeat(fired, r) /\ DrawsTicket(fired, r)
      BY <1>4, <1>6, <2>1, ScheduleAnonymousBrowseRetryAlive
    <3>2. Well(fired, r, id)
      BY <3>1 DEF Well, SeatMoves
    <3>3. QED
      BY <1>5, <3>2, WellFrom
  <2>2. CASE /\ r = fired
             /\ \/ s.tasks["browseAttempt"].gen # s.gen
                \/ ~IsAnonymousBrowsing(s) \/ s.directoryReady
    <3>1. \A t \in {"attempt", "retry", "browseRetry"} :
              fired.tasks[t] = s.tasks[t]
      BY <1>4, <1>8 DEF TaskNames, ReconnectTasks, BrowseTasks
    <3>2. Awaits(fired)
      BY <1>1, <1>5, <1>6, <2>2, <3>1 DEF Awaits
    <3>3. QED
      BY <1>4, <2>2, <3>2 DEF Well, Alive, SeatMoves
  <2>3. QED
    BY <1>2, <1>3, <1>8, <2>1, <2>2 DEF TimerFired
<1>9. CASE name = "browseRetry"
  <2>1. CASE /\ IsAnonymousBrowsing(s)
             /\ r = StartAnonymousBrowseAttempt(fired)
    <3>1. Alive(r) /\ KeepsSeat(fired, r) /\ DrawsTicket(fired, r)
      BY <1>4, <1>6, <2>1, StartAnonymousBrowseAttemptAlive
    <3>2. Well(fired, r, id)
      BY <3>1 DEF Well, SeatMoves
    <3>3. QED
      BY <1>5, <3>2, WellFrom
  <2>2. CASE r = fired /\ ~IsAnonymousBrowsing(s)
    <3>1. \A t \in {"attempt", "retry"} : fired.tasks[t] = s.tasks[t]
      BY <1>4, <1>9 DEF TaskNames, ReconnectTasks
    <3>2. Awaits(fired)
      BY <1>1, <1>5, <1>6, <2>2, <3>1 DEF Awaits
    <3>3. QED
      BY <1>4, <2>2, <3>2 DEF Well, Alive, SeatMoves
  <2>3. QED
    BY <1>2, <1>3, <1>9, <2>1, <2>2 DEF TimerFired
<1>10. QED
  BY <1>7, <1>8, <1>9 DEF TaskNames, BrowseTasks

\* Time passes: the timers keep what they captured.
LEMMA TickAlive ==
    ASSUME NEW s, NEW id, Good(s, id), Alive(s),
           NEW tasks \in [TaskNames -> Task],
           \A t \in TaskNames : /\ tasks[t].armed = s.tasks[t].armed
                                /\ tasks[t].life = s.tasks[t].life
                                /\ tasks[t].gen = s.tasks[t].gen,
           NEW d, d = IF s.deadline > 0 THEN s.deadline - 1 ELSE s.deadline,
           NEW r, r = [s EXCEPT !.tasks = tasks, !.deadline = d]
    PROVE  Well(s, r, id)
<1>1. s \in Session /\ TimersBelong(s) /\ RoomIsLive(s) /\ Awaits(s)
  BY DEF Good, Alive
<1>2. s.deadline \in Nat \cup {-1} /\ s.backoff \in Nat
  BY <1>1 DEF Session, NoDeadline
<1>3. /\ r.state = s.state /\ r.seat = s.seat /\ r.life = s.life
      /\ r.ticketReq = s.ticketReq
      /\ r.nextTicket = s.nextTicket /\ r.active = s.active
      /\ r.admission = s.admission /\ r.gen = s.gen /\ r.ready = s.ready
      /\ r.directoryReady = s.directoryReady
      /\ r.authenticated = s.authenticated /\ r.greeting = s.greeting
      /\ r.commands = s.commands /\ r.backoff = s.backoff
      /\ r.tasks = tasks /\ r.deadline = d
  BY <1>1 DEF Session
<1>4. /\ d = s.deadline \/ (s.deadline > 0 /\ d = s.deadline - 1)
      /\ d = NoDeadline <=> s.deadline = NoDeadline
      /\ d <= s.deadline
  BY <1>2 DEF NoDeadline
<1>5. \A t \in TaskNames : /\ r.tasks[t].armed = s.tasks[t].armed
                           /\ r.tasks[t].life = s.tasks[t].life
                           /\ r.tasks[t].gen = s.tasks[t].gen
  BY <1>3
<1>6. TimersBelong(r)
  BY <1>1, <1>3, <1>4, <1>5 DEF TimersBelong, TaskNames
<1>7. RoomIsLive(r)
  BY <1>1, <1>3 DEF RoomIsLive
<1>8. Awaits(r)
  <2>1. s.backoff >= s.deadline => r.backoff >= r.deadline
    BY <1>2, <1>3, <1>4
  <2>2. "attempt" \in TaskNames /\ "retry" \in TaskNames
        /\ "browseAttempt" \in TaskNames /\ "browseRetry" \in TaskNames
    BY TimersAndDelays
  <2>3. \A t \in {"attempt", "retry", "browseAttempt", "browseRetry"} :
            /\ r.tasks[t].armed = s.tasks[t].armed
            /\ r.tasks[t].gen = s.tasks[t].gen
    BY <1>5, <2>2
  <2>4. IsAnonymousBrowsing(r) <=> IsAnonymousBrowsing(s)
    BY <1>3 DEF IsAnonymousBrowsing, HasRoom
  <2>5. QED
    BY <1>1, <1>3, <2>1, <2>3, <2>4 DEF Awaits
<1>9. SeatMoves(s, r, id)
  <2>1. CASE d = s.deadline
    BY <1>3, <2>1 DEF SeatMoves, KeepsSeat
  <2>2. CASE s.deadline > 0 /\ d = s.deadline - 1
    <3>1. s.state = "Reconnecting"
      BY <1>1, <1>2, <2>2 DEF TimersBelong, NoDeadline
    <3>2. QED
      BY <1>3, <2>2, <3>1 DEF SeatMoves
  <2>3. QED
    BY <1>4, <2>1, <2>2
<1>10. QED
  BY <1>3, <1>6, <1>7, <1>8, <1>9 DEF Well, Alive, DrawsTicket

-----------------------------------------------------------------------------
(* Steps: nothing is stranded, and the seat moves as ArenaSeat allows.      *)

\* The ticket a session waits for is with the provider, and its answer will
\* be passed on.
TicketIsAwaited ==
    session.ticketReq # NoTicket =>
        \E t \in tickets : /\ t.req = session.ticketReq
                           /\ t.refused \/ t.profile = identity.profile

LInv == IInv /\ Alive(session) /\ TicketIsAwaited

\* What a step does to the seat.
SeatStep ==
    \/ UNCHANGED identity /\ SeatMoves(session, session', identity)
    \/ identity' # identity /\ Out(session')

LEMMA RequestedIsAwaited ==
    ASSUME session \in Session, NEW pool, NEW after, NEW who,
           DrawsTicket(session, after),
           after.nextTicket = session.nextTicket /\ after.ticketReq # NoTicket =>
               \E t \in pool : /\ t.req = session.ticketReq
                               /\ t.refused \/ t.profile = who.profile
    PROVE  after.ticketReq # NoTicket =>
               \E t \in Requested(pool, after, who) :
                   /\ t.req = after.ticketReq
                   /\ t.refused \/ t.profile = who.profile
<1> SUFFICES ASSUME after.ticketReq # NoTicket
             PROVE  \E t \in Requested(pool, after, who) :
                       /\ t.req = after.ticketReq
                       /\ t.refused \/ t.profile = who.profile
  OBVIOUS
<1>1. CASE after.nextTicket = session.nextTicket
  BY <1>1 DEF Requested, DrawsTicket
<1>2. CASE after.nextTicket # session.nextTicket
  <2>1. PICK new : new = [req |-> session.nextTicket, profile |-> who.profile,
                          refused |-> ~who.loggedIn]
    OBVIOUS
  <2>2. new \in Requested(pool, after, who)
    BY <1>2, <2>1 DEF Requested
  <2>3. new.req = session.nextTicket /\ new.profile = who.profile
    BY <2>1
  <2>4. after.ticketReq = session.nextTicket
    BY <1>2 DEF DrawsTicket
  <2>5. QED
    BY <2>2, <2>3, <2>4
<1>3. QED
  BY <1>1, <1>2

\* A handler that does not touch the identity.
LEMMA BecomesLives ==
    ASSUME LInv, NEW after, Well(session, after, identity), Becomes(after)
    PROVE  Alive(session)' /\ TicketIsAwaited' /\ SeatStep
<1>1. session' = after /\ identity' = identity
  BY DEF Becomes
<1>2. DrawsTicket(session, after) /\ session \in Session
  BY DEF Well, LInv, IInv, TypeOK
<1>3. after.nextTicket = session.nextTicket /\ after.ticketReq # NoTicket =>
          \E t \in tickets : /\ t.req = session.ticketReq
                             /\ t.refused \/ t.profile = identity.profile
  BY <1>2 DEF DrawsTicket, LInv, TicketIsAwaited
<1>4. after.ticketReq # NoTicket =>
          \E t \in Requested(tickets, after, identity) :
              /\ t.req = after.ticketReq
              /\ t.refused \/ t.profile = identity.profile
  BY <1>2, <1>3, RequestedIsAwaited
<1>5. TicketIsAwaited'
  BY <1>1, <1>4 DEF TicketIsAwaited, Becomes
<1>6. Alive(after) /\ SeatMoves(session, after, identity)
  BY DEF Well
<1>7. QED
  BY <1>1, <1>5, <1>6 DEF SeatStep

\* The answer to a ticket request.
LEMMA AnsweredLives ==
    ASSUME LInv, NEW t \in tickets, NEW after, Well(session, after, identity),
           Answered(t, after),
           \/ t.req = session.ticketReq => StopsWaiting(session, after)
           \/ ~t.refused /\ t.profile # identity.profile
    PROVE  Alive(session)' /\ TicketIsAwaited' /\ SeatStep
<1>1. session' = after /\ identity' = identity
  BY DEF Answered
<1>2. DrawsTicket(session, after) /\ session \in Session
  BY DEF Well, LInv, IInv, TypeOK
<1>3. ASSUME after.nextTicket = session.nextTicket, after.ticketReq # NoTicket
      PROVE  \E u \in tickets \ {t} :
                /\ u.req = session.ticketReq
                /\ u.refused \/ u.profile = identity.profile
  <2>1. session.ticketReq # NoTicket
    BY <1>2, <1>3 DEF DrawsTicket
  <2>2. PICK u \in tickets : /\ u.req = session.ticketReq
                             /\ u.refused \/ u.profile = identity.profile
    BY <2>1 DEF LInv, TicketIsAwaited
  <2>3. ~StopsWaiting(session, after)
    BY <1>3 DEF StopsWaiting
  <2>4. u # t
    BY <2>2, <2>3
  <2>5. QED
    BY <2>2, <2>4
<1>4. after.ticketReq # NoTicket =>
          \E u \in Requested(tickets \ {t}, after, identity) :
              /\ u.req = after.ticketReq
              /\ u.refused \/ u.profile = identity.profile
  BY <1>2, <1>3, RequestedIsAwaited
<1>5. TicketIsAwaited'
  BY <1>1, <1>4 DEF TicketIsAwaited, Answered
<1>6. Alive(after) /\ SeatMoves(session, after, identity)
  BY DEF Well
<1>7. QED
  BY <1>1, <1>5, <1>6 DEF SeatStep

LEMMA UserLives ==
    ASSUME LInv,
           UserConnects \/ UserJoins \/ UserLeaves \/ UserRetries \/ UserExits
    PROVE  Alive(session)' /\ TicketIsAwaited' /\ SeatStep
<1>1. /\ Good(session, identity) /\ Alive(session)
      /\ identity.loggedIn \in BOOLEAN
  BY DEF LInv, IInv, TypeOK, Good
<1>2. CASE UserConnects
  BY <1>1, <1>2, ConnectForBrowsingAlive, BecomesLives DEF UserConnects
<1>3. CASE UserJoins
  BY <1>1, <1>3, JoinRoomAlive, BecomesLives DEF UserJoins
<1>4. CASE UserLeaves
  BY <1>1, <1>4, LeaveRoomAlive, BecomesLives DEF UserLeaves
<1>5. CASE UserRetries
  BY <1>1, <1>5, RetryAlive, BecomesLives DEF UserRetries
<1>6. CASE UserExits
  BY <1>1, <1>6, ExitArenaAlive, BecomesLives DEF UserExits
<1>7. QED
  BY <1>2, <1>3, <1>4, <1>5, <1>6

LEMMA SocketLives ==
    ASSUME LInv, SocketConnects \/ SocketCloses \/ SocketFails
    PROVE  Alive(session)' /\ TicketIsAwaited' /\ SeatStep
<1>1. /\ Good(session, identity) /\ Alive(session)
      /\ Generations \subseteq Nat \ {0}
  BY DEF LInv, IInv, TypeOK, Good, Generations, Session
<1>2. CASE SocketConnects
  <2>1. PICK g \in Generations : Becomes(Connected(session, g))
    BY <1>2 DEF SocketConnects
  <2>2. g \in Nat \ {0} /\ session.greeting = Nobody
    BY <1>1, <1>2 DEF SocketConnects
  <2>3. Well(session, Connected(session, g), identity)
    BY <1>1, <2>2, ConnectedAlive
  <2>4. QED
    BY <2>1, <2>3, BecomesLives
<1>3. CASE SocketCloses
  <2>1. PICK g \in Generations : Becomes(Disconnected(session, g))
    BY <1>3 DEF SocketCloses
  <2>2. Well(session, Disconnected(session, g), identity)
    BY <1>1, DisconnectedAlive
  <2>3. QED
    BY <2>1, <2>2, BecomesLives
<1>4. CASE SocketFails
  <2>1. PICK g \in Generations : Becomes(TransportError(session, g))
    BY <1>4 DEF SocketFails
  <2>2. Well(session, TransportError(session, g), identity)
    BY <1>1, TransportErrorAlive
  <2>3. QED
    BY <2>1, <2>2, BecomesLives
<1>5. QED
  BY <1>2, <1>3, <1>4

LEMMA ServerLives ==
    ASSUME LInv,
           \/ HelloArrives \/ DirectoryArrives \/ RoomSnapshotArrives
           \/ CommandRefused \/ SelfLeaves \/ NewerRoomGeneration
           \/ ProtocolBreaks \/ ServerTooOld \/ ServerLeaves
    PROVE  Alive(session)' /\ TicketIsAwaited' /\ SeatStep
<1>1. Good(session, identity) /\ Alive(session) /\ session \in Session
  BY DEF LInv, IInv, TypeOK, Good
<1>2. CASE HelloArrives
  <2>1. PICK competition \in BOOLEAN, resumed \in BOOLEAN :
            Becomes(ServerHello(session, competition, resumed))
    BY <1>2 DEF HelloArrives
  <2>2. session.greeting # Nobody /\ ~session.ready
    BY <1>2 DEF HelloArrives
  <2>3. Well(session, ServerHello(session, competition, resumed), identity)
    BY <1>1, <2>2, ServerHelloAlive
  <2>4. QED
    BY <2>1, <2>3, BecomesLives
<1>3. CASE DirectoryArrives
  BY <1>1, <1>3, DirectorySnapshotAlive, BecomesLives DEF DirectoryArrives
<1>4. CASE RoomSnapshotArrives
  BY <1>1, <1>4, RoomSnapshotEventAlive, BecomesLives DEF RoomSnapshotArrives
<1>5. CASE CommandRefused
  <2>1. PICK c \in session.commands, stale \in BOOLEAN :
            Becomes(CommandError(session, c, stale))
    BY <1>5 DEF CommandRefused
  <2>2. session.ready
    BY <1>5 DEF CommandRefused
  <2>3. Well(session, CommandError(session, c, stale), identity)
    BY <1>1, <2>2, CommandErrorAlive
  <2>4. QED
    BY <2>1, <2>3, BecomesLives
<1>6. CASE SelfLeaves
  BY <1>1, <1>6, ReturnToAuthenticatedBrowserAlive, BecomesLives DEF SelfLeaves
<1>7. CASE NewerRoomGeneration
  BY <1>1, <1>7, NewerRoomGenerationAlive, BecomesLives DEF NewerRoomGeneration
<1>8. CASE ProtocolBreaks
  <2>1. Well(session, FailProtocol(session), identity)
    BY <1>1, FailProtocolAlive DEF Well, SeatMoves
  <2>2. QED
    BY <1>8, <2>1, BecomesLives DEF ProtocolBreaks
<1>9. CASE ServerTooOld
  BY <1>1, <1>9, IncompatibleAlive, BecomesLives DEF ServerTooOld
<1>10. CASE ServerLeaves
  BY <1>1, <1>10, ServerGoingAwayAlive, BecomesLives DEF ServerLeaves
<1>11. QED
  BY <1>2, <1>3, <1>4, <1>5, <1>6, <1>7, <1>8, <1>9, <1>10

LEMMA TicketLives ==
    ASSUME LInv, TicketGranted \/ TicketDenied
    PROVE  Alive(session)' /\ TicketIsAwaited' /\ SeatStep
<1>1. /\ Good(session, identity) /\ Alive(session) /\ tickets \subseteq Ticket
      /\ identity.profile \in Profiles
  BY DEF LInv, IInv, TypeOK, Good
<1>2. CASE TicketGranted
  <2>1. PICK t \in tickets :
            /\ ~t.refused
            /\ Answered(t, IF t.profile = identity.profile
                           THEN TicketReady(session, t.req, t.profile)
                           ELSE session)
    BY <1>2 DEF TicketGranted
  <2>2. t.req \in Nat \ {0} /\ t.profile \in Profiles
    BY <1>1 DEF Ticket
  <2>3. CASE t.profile = identity.profile
    <3>1. Answered(t, TicketReady(session, t.req, t.profile))
      BY <2>1, <2>3
    <3>2. /\ Well(session, TicketReady(session, t.req, t.profile), identity)
          /\ t.req = session.ticketReq =>
                StopsWaiting(session, TicketReady(session, t.req, t.profile))
      BY <1>1, <2>2, TicketReadyAlive
    <3>3. QED
      BY <3>1, <3>2, AnsweredLives
  <2>4. CASE t.profile # identity.profile
    <3>1. Answered(t, session)
      BY <2>1, <2>4
    <3>2. Well(session, session, identity)
      BY <1>1, UnchangedWell
    <3>3. QED
      BY <2>1, <2>4, <3>1, <3>2, AnsweredLives
  <2>5. QED
    BY <2>3, <2>4
<1>3. CASE TicketDenied
  <2>1. PICK t \in tickets, network \in BOOLEAN :
            Answered(t, IF t.refused \/ t.profile = identity.profile
                        THEN TicketFailed(session, t.req, network /\ ~t.refused)
                        ELSE session)
    BY <1>3 DEF TicketDenied
  <2>2. t.req \in Nat \ {0}
    BY <1>1 DEF Ticket
  <2>3. CASE t.refused \/ t.profile = identity.profile
    <3>1. PICK n : n = (network /\ ~t.refused)
      OBVIOUS
    <3>2. Answered(t, TicketFailed(session, t.req, n))
      BY <2>1, <2>3, <3>1
    <3>3. /\ Well(session, TicketFailed(session, t.req, n), identity)
          /\ t.req = session.ticketReq =>
                StopsWaiting(session, TicketFailed(session, t.req, n))
      BY <1>1, <2>2, TicketFailedAlive
    <3>4. QED
      BY <3>2, <3>3, AnsweredLives
  <2>4. CASE ~t.refused /\ t.profile # identity.profile
    <3>1. Answered(t, session)
      BY <2>1, <2>4
    <3>2. Well(session, session, identity)
      BY <1>1, UnchangedWell
    <3>3. QED
      BY <2>4, <3>1, <3>2, AnsweredLives
  <2>5. QED
    BY <2>3, <2>4
<1>4. QED
  BY <1>2, <1>3

LEMMA IdentityLives ==
    ASSUME LInv, ProfileChanges \/ LoginChanges
    PROVE  Alive(session)' /\ TicketIsAwaited' /\ SeatStep
<1>1. /\ Good(session, identity) /\ Alive(session) /\ session \in Session
      /\ identity \in [profile : Profiles, loggedIn : BOOLEAN]
  BY DEF LInv, IInv, TypeOK, Good
<1>2. CASE ProfileChanges
  <2>1. PICK who \in [profile : Profiles \ {identity.profile},
                      loggedIn : BOOLEAN] :
            LET after == ActiveProfileChanged(session, who.loggedIn)
            IN  /\ identity' = who
                /\ session' = after
                /\ tickets' = Requested({t \in tickets : t.refused}, after, who)
    BY <1>2 DEF ProfileChanges
  <2>2. who # identity /\ who.loggedIn \in BOOLEAN
    BY <1>1
  <2>3. PICK after : after = ActiveProfileChanged(session, who.loggedIn)
    OBVIOUS
  <2>4. Alive(after) /\ Out(after) /\ after.ticketReq = NoTicket
    BY <1>1, <2>2, <2>3, ActiveProfileChangedAlive
  <2>5. session' = after /\ identity' # identity
    BY <2>1, <2>2, <2>3
  <2>6. TicketIsAwaited'
    BY <2>4, <2>5 DEF TicketIsAwaited
  <2>7. QED
    BY <2>4, <2>5, <2>6 DEF SeatStep
<1>3. CASE LoginChanges
  <2> DEFINE who == [identity EXCEPT !.loggedIn = ~@]
             changed == LoginStateChanged(session, who.loggedIn)
  <2>1. /\ identity' = who
        /\ session' = changed
        /\ tickets' = Requested(tickets, changed, who)
    BY <1>3 DEF LoginChanges
  <2>2. /\ who.loggedIn = ~identity.loggedIn
        /\ identity.loggedIn \in BOOLEAN
        /\ who # identity
    BY <1>1
  <2> HIDE DEF who
  <2>3. PICK after : after = changed
    OBVIOUS
  <2>4. /\ Alive(after) /\ Out(after) /\ DrawsTicket(session, after)
        /\ StopsWaiting(session, after)
    BY <1>1, <2>2, <2>3, LoginStateChangedAlive
  <2>5. session' = after /\ identity' # identity
    BY <2>1, <2>2, <2>3
  <2>6. after.ticketReq # NoTicket =>
            \E t \in Requested(tickets, after, who) :
                /\ t.req = after.ticketReq
                /\ t.refused \/ t.profile = who.profile
    <3>1. ~(after.nextTicket = session.nextTicket /\ after.ticketReq # NoTicket)
      BY <2>4 DEF StopsWaiting
    <3>2. QED
      BY <1>1, <2>4, <3>1, RequestedIsAwaited
  <2>7. TicketIsAwaited'
    BY <2>1, <2>3, <2>6 DEF TicketIsAwaited
  <2>8. QED
    BY <2>4, <2>5, <2>7 DEF SeatStep
<1>4. QED
  BY <1>2, <1>3

LEMMA ClockLives ==
    ASSUME LInv, Tick \/ \E t \in TaskNames : TimerFires(t)
    PROVE  Alive(session)' /\ TicketIsAwaited' /\ SeatStep
<1>1. Good(session, identity) /\ Alive(session) /\ session \in Session
  BY DEF LInv, IInv, TypeOK, Good
<1>2. ASSUME NEW t \in TaskNames, TimerFires(t)
      PROVE  Alive(session)' /\ TicketIsAwaited' /\ SeatStep
  <2>1. session.tasks[t].armed /\ Becomes(TimerFired(session, t))
    BY <1>2 DEF TimerFires, Due
  <2>2. Well(session, TimerFired(session, t), identity)
    BY <1>1, <2>1, TimerFiredAlive
  <2>3. QED
    BY <2>1, <2>2, BecomesLives
<1>3. CASE Tick
  <2> DEFINE left(n) == IF n > 0 THEN n - 1 ELSE 0
             tasks == [t \in TaskNames |->
                        [session.tasks[t] EXCEPT !.left = IF @ > 0 THEN @ - 1
                                                          ELSE 0]]
             d == IF session.deadline > 0 THEN session.deadline - 1
                  ELSE session.deadline
  <2>1. ASSUME NEW t \in TaskNames
        PROVE  /\ tasks[t] \in Task
               /\ tasks[t].armed = session.tasks[t].armed
               /\ tasks[t].life = session.tasks[t].life
               /\ tasks[t].gen = session.tasks[t].gen
    <3>1. PICK k \in Task : k = session.tasks[t]
      BY <1>1 DEF Session
    <3>2. tasks[t] = [k EXCEPT !.left = IF k.left > 0 THEN k.left - 1 ELSE 0]
      BY <3>1
    <3>3. QED
      BY <3>1, <3>2 DEF Task
  <2>2. tasks \in [TaskNames -> Task]
    BY <2>1
  <2>3. Becomes([session EXCEPT !.tasks = tasks, !.deadline = d])
    BY <1>3 DEF Tick
  <2>4. d = IF session.deadline > 0 THEN session.deadline - 1
            ELSE session.deadline
    OBVIOUS
  <2> HIDE DEF tasks, d
  <2>5. Well(session, [session EXCEPT !.tasks = tasks, !.deadline = d], identity)
    BY <1>1, <2>1, <2>2, <2>4, TickAlive
  <2>6. QED
    BY <2>3, <2>5, BecomesLives
<1>4. QED
  BY <1>2, <1>3

LEMMA StepLives == LInv /\ Next => LInv' /\ SeatStep
<1> SUFFICES ASSUME LInv, Next PROVE LInv' /\ SeatStep
  OBVIOUS
<1>1. IInv'
  BY StepKeeps DEF LInv
<1>2. Alive(session)' /\ TicketIsAwaited' /\ SeatStep
  BY UserLives, SocketLives, ServerLives, TicketLives, IdentityLives,
     ClockLives DEF Next
<1>3. QED
  BY <1>1, <1>2 DEF LInv

LEMMA InitLives == Init => LInv
<1> SUFFICES ASSUME Init PROVE LInv
  OBVIOUS
<1>1. IInv
  BY InitKeeps
<1>2. /\ ~session.active /\ session.state = "Disconnected"
      /\ ~session.authenticated /\ session.admission = "none"
      /\ ~session.ready /\ session.deadline = NoDeadline
      /\ session.ticketReq = NoTicket
  BY DEF Init
<1>3. \A t \in TaskNames : ~session.tasks[t].armed
  BY DEF Init, Off
<1>4. TimersBelong(session)
  BY <1>2, <1>3 DEF TimersBelong, TaskNames
<1>5. RoomIsLive(session) /\ Awaits(session)
  BY <1>2 DEF RoomIsLive, Awaits, IsAnonymousBrowsing
<1>6. TicketIsAwaited
  BY <1>2 DEF TicketIsAwaited
<1>7. QED
  BY <1>1, <1>4, <1>5, <1>6 DEF LInv, Alive

LEMMA UnchangedLives == LInv /\ UNCHANGED vars => LInv'
<1> SUFFICES ASSUME LInv, UNCHANGED vars PROVE LInv'
  OBVIOUS
<1>1. IInv'
  BY StepKeeps DEF LInv
<1>2. session' = session /\ identity' = identity /\ tickets' = tickets
  BY DEF vars
<1>3. Alive(session)'
  BY <1>2 DEF LInv
<1>4. TicketIsAwaited'
  BY <1>2 DEF LInv, TicketIsAwaited
<1>5. QED
  BY <1>1, <1>3, <1>4 DEF LInv

LEMMA AlwaysLive == Spec => []LInv
<1>1. LInv /\ [Next]_vars => LInv'
  BY StepLives, UnchangedLives
<1>2. QED
  BY <1>1, InitLives, PTL DEF Spec

\* Whatever the session waits for can still come: an attempt, a retry, a
\* directory, a ticket or the answer to an admission; and in the room no timer
\* of an earlier reconnection is left.
THEOREM NothingIsStranded == Spec => []NeverStranded
<1>1. ASSUME LInv PROVE NeverStranded
  <2>1. /\ session \in Session /\ SeatInv(session, identity)
        /\ TimersBelong(session) /\ RoomIsLive(session) /\ Awaits(session)
        /\ TicketIsAwaited
    BY <1>1 DEF LInv, IInv, TypeOK, Alive
  <2>2. InRoomIsConnected
    <3>1. ASSUME session.state = "InRoom"
          PROVE  \A t \in TaskNames : ~session.tasks[t].armed
      BY <2>1, <3>1 DEF TimersBelong, TaskNames
    <3>2. QED
      BY <2>1, <3>1 DEF InRoomIsConnected, HasRoom, RoomIsLive, TimersBelong,
         SeatInv, SeatIsReal
  <2>3. ReconnectNeverIdle
    <3>1. \A t \in {"attempt", "retry"} :
              session.tasks[t].armed => session.tasks[t].life = session.life
      BY <2>1 DEF TimersBelong, TaskNames, ReconnectTasks
    <3>2. QED
      BY <2>1, <3>1 DEF ReconnectNeverIdle, Awaits
  <2>4. BrowseNeverStranded
    <3>1. \A t \in {"browseAttempt", "browseRetry"} :
              session.tasks[t].armed => session.tasks[t].life = session.life
      BY <2>1 DEF TimersBelong, TaskNames, BrowseTasks
    <3>2. QED
      BY <2>1, <3>1 DEF BrowseNeverStranded, Awaits
  <2>5. AdmissionAnswerable
    BY <2>1 DEF AdmissionAnswerable, RoomIsLive, SeatInv, TicketAuthenticates
  <2>6. TicketWaitIsAnswered
    BY <2>1 DEF TicketWaitIsAnswered, TicketIsAwaited, Awaits, SeatInv,
       SeatIsReal
  <2>7. QED
    BY <2>2, <2>3, <2>4, <2>5, <2>6 DEF NeverStranded
<1>2. QED
  BY <1>1, AlwaysLive, PTL

-----------------------------------------------------------------------------
(* The session implements ArenaSeat.                                        *)

\* Standing, read off the two members it depends on.
LEMMA StandingIs ==
    /\ session.state = "Reconnecting" => Standing = "lost"
    /\ session.state # "Reconnecting" /\ session.seat # Nobody =>
           Standing = "seated"
    /\ session.state # "Reconnecting" /\ session.seat = Nobody =>
           Standing = "out"
BY DEF Standing, HasRoom

LEMMA StandingIsNext ==
    /\ session'.state = "Reconnecting" => Standing' = "lost"
    /\ session'.state # "Reconnecting" /\ session'.seat # Nobody =>
           Standing' = "seated"
    /\ session'.state # "Reconnecting" /\ session'.seat = Nobody =>
           Standing' = "out"
BY DEF Standing, HasRoom

LEMMA InitIsSeatInit == Init => Seat!Init
<1> SUFFICES ASSUME Init PROVE Seat!Init
  OBVIOUS
<1>1. /\ identity \in [profile : Profiles, loggedIn : BOOLEAN]
      /\ session.seat = Nobody /\ session.deadline = -1
      /\ session.state = "Disconnected"
  BY DEF Init, NoDeadline
<1>2. Standing = "out"
  BY <1>1, StandingIs
<1>3. QED
  BY <1>1, <1>2 DEF Seat!Init, Seat!NoGrace

LEMMA StepIsSeatStep ==
    ASSUME LInv, LInv', SeatStep
    PROVE  [Seat!Next]_(Seat!seatVars)
<1>1. /\ SeatIsReal(session) /\ TimersBelong(session)
      /\ SeatIsReal(session') /\ TimersBelong(session')
      /\ identity' \in [profile : Profiles, loggedIn : BOOLEAN]
      /\ identity.profile \in Profiles
  BY DEF LInv, IInv, TypeOK, SeatInv, Alive
<1>2. /\ session.state = "Reconnecting" => session.seat # Nobody
      /\ session'.state = "Reconnecting" => session'.seat # Nobody
      /\ session.state # "Reconnecting" => session.deadline = NoDeadline
      /\ identity.profile # Nobody
  BY <1>1, ProfilesAssumption DEF SeatIsReal, TimersBelong
<1>3. CASE identity' # identity
  <2>1. Out(session')
    BY <1>3 DEF SeatStep
  <2>2. Standing' = "out" /\ session'.seat = Nobody /\ session'.deadline = -1
    BY <2>1, StandingIsNext DEF Out, NoDeadline
  <2>3. Seat!ChangeIdentity
    BY <1>1, <1>3, <2>2 DEF Seat!ChangeIdentity, Seat!NoGrace
  <2>4. QED
    BY <2>3 DEF Seat!Next
<1>4. CASE identity' = identity
  <2>1. SeatMoves(session, session', identity)
    BY <1>4 DEF SeatStep
  <2>2. CASE KeepsSeat(session, session')
    <3>1. /\ session'.seat = session.seat
          /\ session'.deadline = session.deadline
          /\ session'.state = "Reconnecting" <=> session.state = "Reconnecting"
      BY <2>2 DEF KeepsSeat
    <3>2. Standing' = Standing
      BY <3>1, StandingIs, StandingIsNext
    <3>3. QED
      BY <1>4, <3>1, <3>2 DEF Seat!seatVars
  <2>3. CASE Out(session')
    <3>1. /\ Standing' = "out" /\ session'.seat = Nobody
          /\ session'.deadline = -1
      BY <2>3, StandingIsNext DEF Out, NoDeadline
    <3>2. CASE Standing # "out"
      <4>1. Seat!GiveUp
        BY <1>4, <3>1, <3>2 DEF Seat!GiveUp, Seat!NoGrace
      <4>2. QED
        BY <4>1 DEF Seat!Next
    <3>3. CASE Standing = "out"
      <4>1. session.state # "Reconnecting" /\ session.seat = Nobody
        BY <3>3, StandingIs
      <4>2. session.deadline = -1
        BY <1>2, <4>1 DEF NoDeadline
      <4>3. QED
        BY <1>4, <3>1, <3>3, <4>1, <4>2 DEF Seat!seatVars
    <3>4. QED
      BY <3>2, <3>3
  <2>4. CASE /\ session.seat = Nobody /\ session.state # "Reconnecting"
             /\ session'.state = "InRoom" /\ identity.loggedIn
             /\ session'.seat = identity.profile
             /\ session'.deadline = session.deadline
    <3>1. Standing = "out" /\ Standing' = "seated"
      BY <1>2, <2>4, StandingIs, StandingIsNext
    <3>2. Seat!Admit
      BY <1>4, <2>4, <3>1 DEF Seat!Admit
    <3>3. QED
      BY <3>2 DEF Seat!Next
  <2>5. CASE /\ session.state # "Reconnecting" /\ session.seat # Nobody
             /\ session'.state = "Reconnecting"
             /\ session'.seat = session.seat
             /\ session'.deadline = ReconnectGrace
    <3>1. Standing = "seated" /\ Standing' = "lost"
      BY <2>5, StandingIs, StandingIsNext
    <3>2. Seat!Lose
      BY <1>4, <2>5, <3>1 DEF Seat!Lose
    <3>3. QED
      BY <3>2 DEF Seat!Next
  <2>6. CASE /\ session.state = "Reconnecting" /\ session.deadline > 0
             /\ session'.state = "InRoom"
             /\ session'.seat = session.seat
             /\ session'.deadline = NoDeadline
    <3>1. Standing = "lost" /\ Standing' = "seated"
      BY <1>2, <2>6, StandingIs, StandingIsNext
    <3>2. Seat!Regain
      BY <1>4, <2>6, <3>1 DEF Seat!Regain, Seat!NoGrace, NoDeadline
    <3>3. QED
      BY <3>2 DEF Seat!Next
  <2>7. CASE /\ session.state = "Reconnecting" /\ session.deadline > 0
             /\ session'.state = "Reconnecting"
             /\ session'.seat = session.seat
             /\ session'.deadline = session.deadline - 1
    <3>1. Standing = "lost" /\ Standing' = "lost"
      BY <2>7, StandingIs, StandingIsNext
    <3>2. Seat!Elapse
      BY <1>4, <2>7, <3>1 DEF Seat!Elapse
    <3>3. QED
      BY <3>2 DEF Seat!Next
  <2>8. QED
    BY <2>1, <2>2, <2>3, <2>4, <2>5, <2>6, <2>7 DEF SeatMoves
<1>5. QED
  BY <1>3, <1>4

\* The session keeps the safety part of the promise of ArenaSeat (SeatKept
\* without its fairness): it starts without a seat, and every step admits,
\* loses, regains within the grace period or gives up the seat as ArenaSeat
\* allows, or leaves it alone.
THEOREM SeatRefinement == Spec => Seat!Init /\ [][Seat!Next]_(Seat!seatVars)
<1>1. LInv /\ LInv' /\ [Next]_vars => [Seat!Next]_(Seat!seatVars)
  <2> SUFFICES ASSUME LInv, LInv', [Next]_vars
               PROVE  [Seat!Next]_(Seat!seatVars)
    OBVIOUS
  <2>1. CASE Next
    BY <2>1, StepLives, StepIsSeatStep
  <2>2. CASE UNCHANGED vars
    BY <2>2 DEF vars, Seat!seatVars, Standing, HasRoom
  <2>3. QED
    BY <2>1, <2>2
<1>2. QED
  BY <1>1, AlwaysLive, InitIsSeatInit, PTL DEF Spec

=============================================================================
