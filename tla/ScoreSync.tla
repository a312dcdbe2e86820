------------------------------ MODULE ScoreSync ------------------------------
(***************************************************************************)
(* The online account of a profile and the operations that copy scores:    *)
(* Profile's session (sign-in, the token in the keychain, the user's data, *)
(* the linked Tachi account) and ScoreSyncOperation with the uploads,      *)
(* downloads and imports that run on it.                                   *)
(*                                                                         *)
(* Everything happens on the main thread, except the jobs of the thread    *)
(* pool, which read and write the score database and post their results    *)
(* back.  The player signs in and out at any time: whatever was asked for  *)
(* the old account is still under way then, in the pool, in the queue of   *)
(* the event loop or on the network.                                       *)
(*                                                                         *)
(* External are the server, Tachi, the keychain, which runs its jobs one   *)
(* after the other, and plays, which save a score and submit it.           *)
(***************************************************************************)
EXTENDS Naturals, Sequences, FiniteSets

CONSTANTS
    Users,        \* accounts on the server
    NoUser,
    Linked,       \* the users with a Tachi account
    Ops,          \* the ScoreSyncOperations of a run, each used once
    KindsOf,      \* what each of them may be used for
    Scores,       \* guids of scores
    Games,        \* the games of Tachi that are imported
    Concurrency,  \* ScoreSyncOperation::concurrency
    StartStates,  \* what is stored in the keychain, the database and the server
    MaxSessions,  \* bound: sign-ins and sign-outs
    MaxErrors     \* bound: answers, jobs and writes that fail

Items == Scores \cup Games

ASSUME SyncAssumption ==
    /\ NoUser \notin Users
    /\ IsFiniteSet(Scores) /\ IsFiniteSet(Games) /\ Games # {}
    /\ Scores \cap Games = {}
    /\ KindsOf \in [Ops -> SUBSET {"Upload", "Download", "Bokutachi"}]
    /\ Concurrency \in Nat \ {0}
    /\ StartStates \subseteq [stored : Users \cup {NoUser}, local : SUBSET Scores,
                              server : [Users -> SUBSET Scores]]
    /\ Linked \subseteq Users
    /\ MaxSessions \in Nat /\ MaxErrors \in Nat

VARIABLES
    account,   \* the session: its number, states, user data and bearer token
    requests,  \* accountReplies: requests of the session that are under way
    keychain,  \* the stored token, and the jobs that wait
    ops,       \* the ScoreSyncOperations
    work,      \* where each item of an operation is, and the token it was sent with
    local,     \* scores in the database of the profile
    server,    \* scores of each account
    submitted, \* scores that were submitted after a play and are under way
    errors     \* counter of the bound

vars == <<account, requests, keychain, ops, work, local, server, submitted, errors>>

-----------------------------------------------------------------------------
Tokens == Users \cup {NoUser}

LoginStates == {"NotLoggedIn", "LoggingIn", "LoggedIn", "LoginFailed"}

Requests == [kind : {"SignIn", "Me", "Tachi"}, user : Users, generation : Nat]

KeychainJobs == [kind : {"Read", "Write", "Delete"}, user : Tokens, generation : Nat]

OpStates ==
    [kind : {"None", "Upload", "Download", "Bokutachi"}, user : Tokens,
     stage : {"Local", "LocalRead", "LocalFailed", "Server", "Transfer", "Over"},
     snapshot : SUBSET Scores,  \* the local guids
     wanted : SUBSET Items,     \* what is to be transferred: their number is the total
     pending : SUBSET Items, active : Nat, done : Nat, errors : Nat,
     finished : BOOLEAN, cancelled : BOOLEAN]

\* "Pool": a job waits for a thread; "Working": it runs; "Posted", "Failed": its
\* result waits in the event loop; "Asked": a request is on the network.
Places == [at : {"Nowhere", "Pool", "Working", "Posted", "Failed", "Asked"}, token : Tokens]

TypeOK ==
    /\ account \in [generation : 0..MaxSessions, login : LoginStates, tachi : LoginStates,
                    user : Tokens, token : Tokens]
    /\ requests \subseteq Requests
    /\ keychain \in [stored : Tokens, jobs : Seq(KeychainJobs)]
    /\ ops \in [Ops -> OpStates]
    /\ work \in [Ops -> [Items -> Places]]
    /\ local \subseteq Scores
    /\ server \in [Users -> SUBSET Scores]
    /\ submitted \subseteq Users \X Scores
    /\ errors \in 0..MaxErrors

SignedOut(generation) ==
    [generation |-> generation, login |-> "NotLoggedIn", tachi |-> "NotLoggedIn",
     user |-> NoUser, token |-> NoUser]

NewOp == [kind |-> "None", user |-> NoUser, stage |-> "Local", snapshot |-> {},
          wanted |-> {}, pending |-> {}, active |-> 0, done |-> 0, errors |-> 0,
          finished |-> FALSE, cancelled |-> FALSE]

Nowhere == [at |-> "Nowhere", token |-> NoUser]

\* loadBearerToken is the last thing the constructor does to the session.
Init ==
    /\ account = SignedOut(0)
    /\ requests = {}
    /\ ops = [o \in Ops |-> NewOp]
    /\ work = [o \in Ops |-> [i \in Items |-> Nowhere]]
    /\ submitted = {}
    /\ errors = 0
    /\ \E start \in StartStates :
          /\ keychain = [stored |-> start.stored,
                         jobs |-> <<[kind |-> "Read", user |-> NoUser, generation |-> 0]>>]
          /\ local = start.local
          /\ server = start.server

\* An external step succeeds, or fails within the bound.
Outcome(ok) ==
    /\ ~ok => errors < MaxErrors
    /\ errors' = errors + (IF ok THEN 0 ELSE 1)

-----------------------------------------------------------------------------
(* ScoreSyncOperation.                                                     *)

Finish(op) == IF op.finished THEN op ELSE [op EXCEPT !.finished = TRUE, !.pending = {}]

ReportError(op) == IF op.finished THEN op ELSE [op EXCEPT !.errors = @ + 1]

CancelOp(op) == IF op.finished \/ op.kind = "None" THEN op
                ELSE [Finish(op) EXCEPT !.cancelled = TRUE]

\* Its requests are aborted; what is in the pool or posted goes on.
AbortReplies(row) == [i \in Items |-> IF row[i].at = "Asked" THEN Nowhere ELSE row[i]]

\* dispatchUpload starts a job, dispatchDownload sends a request.
Dispatched(op) ==
    IF op.kind = "Upload" THEN [at |-> "Pool", token |-> NoUser]
    ELSE [at |-> "Asked", token |-> account.token]

\* Fault: one item more is dispatched.
SlotsInclusive(op) == Concurrency + 1 - op.active

Slots(op) == Concurrency - op.active

\* startNext, of operation o in state op: the list has the items in any order.
StartNext(o, op, row) ==
    \E next \in SUBSET op.pending :
        /\ Cardinality(next) <= Slots(op)
        /\ Cardinality(next) < Slots(op) => next = op.pending
        /\ ops' = [ops EXCEPT ![o] = [op EXCEPT !.pending = @ \ next,
                                                !.active = @ + Cardinality(next)]]
        /\ work' = [work EXCEPT ![o] =
                        [i \in Items |-> IF i \in next THEN Dispatched(op) ELSE row[i]]]

\* Fault: an import, which was not dispatched, gives back a place too.
CountedAlways(op) == [op EXCEPT !.done = @ + 1, !.active = @ - 1]

Counted(op) == [op EXCEPT !.done = @ + 1, !.active = IF @ > 0 THEN @ - 1 ELSE 0]

Ended(op) == IF op.done = Cardinality(op.wanted) THEN Finish(op) ELSE op

\* Fault: the place of an item is not given to another one.
IncrementOnly(o, op, row) ==
    /\ ops' = [ops EXCEPT ![o] = IF op.finished THEN op ELSE Ended(Counted(op))]
    /\ work' = [work EXCEPT ![o] = row]

Increment(o, op, row) ==
    IF op.finished
    THEN /\ ops' = [ops EXCEPT ![o] = op]
         /\ work' = [work EXCEPT ![o] = row]
    ELSE StartNext(o, Ended(Counted(op)), row)

\* start, once the difference to the server is known.
StartTransfer(o, difference) ==
    StartNext(o, Ended([ops[o] EXCEPT !.stage = "Transfer", !.wanted = difference,
                                      !.pending = difference]), work[o])

-----------------------------------------------------------------------------
(* The session of the profile.                                             *)

CancelOps ==
    /\ ops' = [o \in Ops |-> CancelOp(ops[o])]
    /\ work' = [o \in Ops |-> AbortReplies(work[o])]

\* invalidateSession; what comes next finds the session signed out.
InvalidateSession(session) ==
    /\ account.generation < MaxSessions
    /\ account' = session
    /\ CancelOps

\* fetchOnlineData, of the session s.
FetchOnlineData(s, others) ==
    /\ account' = [s EXCEPT !.login = "LoggingIn"]
    /\ requests' = others \cup {[kind |-> "Me", user |-> s.token, generation |-> s.generation]}

Login(user) ==
    LET generation == account.generation + 1
    IN  /\ InvalidateSession([SignedOut(generation) EXCEPT !.login = "LoggingIn"])
        /\ requests' = {[kind |-> "SignIn", user |-> user, generation |-> generation]}
        /\ UNCHANGED <<keychain, local, server, submitted, errors>>

\* Also when the address of the website changes.
Logout ==
    /\ InvalidateSession(SignedOut(account.generation + 1))
    /\ requests' = {}
    /\ keychain' = [keychain EXCEPT !.jobs = Append(@, [kind |-> "Delete", user |-> NoUser,
                                                       generation |-> account.generation])]
    /\ UNCHANGED <<local, server, submitted, errors>>

\* The server answers the sign-in, with a token or not.
SignInAnswered(r) ==
    /\ r \in requests /\ r.kind = "SignIn" /\ r.generation = account.generation
    /\ \E ok \in BOOLEAN :
          /\ Outcome(ok)
          /\ IF ok
             THEN /\ FetchOnlineData([account EXCEPT !.token = r.user], requests \ {r})
                  /\ keychain' = [keychain EXCEPT !.jobs =
                        Append(@, [kind |-> "Write", user |-> r.user,
                                   generation |-> account.generation])]
             ELSE /\ account' = [account EXCEPT !.login = "LoginFailed"]
                  /\ requests' = requests \ {r}
                  /\ UNCHANGED keychain
    /\ UNCHANGED <<ops, work, local, server, submitted>>

\* The user's data come; a user may have linked a Tachi account.
MeAnswered(r) ==
    /\ r \in requests /\ r.kind = "Me" /\ r.generation = account.generation
    /\ \E ok \in BOOLEAN :
          /\ Outcome(ok)
          /\ LET tachi == ok /\ r.user \in Linked
             IN  /\ account' = IF ok THEN [account EXCEPT !.login = "LoggedIn", !.user = r.user,
                                                !.tachi = IF tachi THEN "LoggingIn" ELSE @]
                               ELSE [account EXCEPT !.login = "LoginFailed"]
                 /\ requests' = (requests \ {r})
                       \cup (IF tachi THEN {[r EXCEPT !.kind = "Tachi"]} ELSE {})
    /\ UNCHANGED <<keychain, ops, work, local, server, submitted>>

TachiAnswered(r) ==
    /\ r \in requests /\ r.kind = "Tachi" /\ r.generation = account.generation
    /\ \E ok \in BOOLEAN :
          /\ Outcome(ok)
          /\ account' = [account EXCEPT !.tachi = IF ok THEN "LoggedIn" ELSE "LoginFailed"]
    /\ requests' = requests \ {r}
    /\ UNCHANGED <<keychain, ops, work, local, server, submitted>>

ReadInTime(job) == job.generation = account.generation /\ keychain.stored # NoUser

\* The next job of the keychain ends.
KeychainJobDone ==
    /\ keychain.jobs # <<>>
    /\ LET job == Head(keychain.jobs)
           stored == CASE job.kind = "Write" -> job.user
                       [] job.kind = "Delete" -> NoUser
                       [] OTHER -> keychain.stored
       IN  \E ok \in BOOLEAN :
              /\ Outcome(ok)
              /\ keychain' = [stored |-> IF ok THEN stored ELSE keychain.stored,
                              jobs |-> Tail(keychain.jobs)]
              /\ IF ok /\ job.kind = "Read" /\ ReadInTime(job)
                 THEN FetchOnlineData([account EXCEPT !.token = keychain.stored], requests)
                 ELSE UNCHANGED <<account, requests>>
    /\ UNCHANGED <<ops, work, local, server, submitted>>

-----------------------------------------------------------------------------
(* uploadScores, downloadScores, importBokutachiScores.                    *)

Elsewhere == UNCHANGED <<account, requests, keychain, submitted>>

SetOp(o, op) == ops' = [ops EXCEPT ![o] = op] /\ UNCHANGED work

SyncScores(o, kind) ==
    /\ ops[o].kind = "None"
    /\ kind \in KindsOf[o]
    /\ LET op == [ops[o] EXCEPT !.kind = kind, !.user = account.user]
       IN  SetOp(o, IF account.user = NoUser THEN Finish(op) ELSE op)
    /\ Elsewhere /\ UNCHANGED <<local, server, errors>>

ImportBokutachiScores(o) ==
    /\ ops[o].kind = "None" /\ "Bokutachi" \in KindsOf[o]
    /\ LET op == [ops[o] EXCEPT !.kind = "Bokutachi", !.user = account.user, !.stage = "Transfer"]
       IN  IF account.tachi # "LoggedIn" THEN SetOp(o, Finish(op))
           ELSE /\ ops' = [ops EXCEPT ![o] = [op EXCEPT !.wanted = Games]]
                /\ work' = [work EXCEPT ![o] =
                               [i \in Items |-> [at |-> IF i \in Games THEN "Asked" ELSE "Nowhere",
                                                token |-> NoUser]]]
    /\ Elsewhere /\ UNCHANGED <<local, server, errors>>

\* A thread reads the guids of the database: it does not ask whether it should.
FetchLocalGuids(o) ==
    /\ ops[o].kind \in {"Upload", "Download"} /\ ops[o].user # NoUser
    /\ ops[o].stage = "Local"
    /\ \E ok \in BOOLEAN :
          /\ Outcome(ok)
          /\ SetOp(o, [ops[o] EXCEPT !.stage = IF ok THEN "LocalRead" ELSE "LocalFailed",
                                     !.snapshot = IF ok THEN local ELSE {}])
    /\ Elsewhere /\ UNCHANGED <<local, server>>

\* The event loop hands them on: the server is asked, unless the operation is over.
LocalGuidsHandled(o) ==
    /\ ops[o].stage \in {"LocalRead", "LocalFailed"}
    /\ SetOp(o, IF ops[o].stage = "LocalFailed" \/ ops[o].finished
                THEN [Finish(ReportError(ops[o])) EXCEPT !.stage = "Over"]
                ELSE [ops[o] EXCEPT !.stage = "Server"])
    /\ Elsewhere /\ UNCHANGED <<local, server, errors>>

\* The guids of the user's scores on the server come, or do not.
ServerGuidsAnswered(o) ==
    /\ ops[o].stage = "Server" /\ ~ops[o].finished
    /\ \E ok \in BOOLEAN :
          /\ Outcome(ok)
          /\ IF ok THEN StartTransfer(o, IF ops[o].kind = "Upload"
                                         THEN ops[o].snapshot \ server[ops[o].user]
                                         ELSE server[ops[o].user] \ ops[o].snapshot)
                   ELSE SetOp(o, Finish(ReportError(ops[o])))
    /\ Elsewhere /\ UNCHANGED <<local, server>>

\* An answer comes: an upload is done, a download goes to the pool.
Answered(o, i) ==
    /\ work[o][i].at = "Asked"
    /\ \E ok \in BOOLEAN :
          /\ Outcome(ok)
          /\ IF ok /\ ops[o].kind # "Upload"
             THEN /\ work' = [work EXCEPT ![o][i] = [at |-> "Pool", token |-> NoUser]]
                  /\ UNCHANGED ops
             ELSE Increment(o, IF ok THEN ops[o] ELSE ReportError(ops[o]),
                            [work[o] EXCEPT ![i] = Nowhere])
          /\ server' = IF ok /\ ops[o].kind = "Upload" /\ work[o][i].token # NoUser
                       THEN [server EXCEPT ![work[o][i].token] = @ \cup {i}] ELSE server
    /\ Elsewhere /\ UNCHANGED local

\* A thread takes the job up, unless the operation was cancelled.
JobBegins(o, i) ==
    /\ work[o][i].at = "Pool"
    /\ work' = [work EXCEPT ![o][i] = IF ops[o].cancelled THEN Nowhere
                                      ELSE [@ EXCEPT !.at = "Working"]]
    /\ UNCHANGED ops
    /\ Elsewhere /\ UNCHANGED <<local, server, errors>>

\* It ends: a payload was built, or a score saved, which fails if it is there.
JobEnds(o, i) ==
    /\ work[o][i].at = "Working"
    /\ \E ok \in BOOLEAN :
          /\ Outcome(ok)
          /\ LET saved == ok /\ ~(ops[o].kind = "Download" /\ i \in local)
             IN  /\ work' = [work EXCEPT ![o][i].at = IF saved THEN "Posted" ELSE "Failed"]
                 /\ local' = IF saved /\ ops[o].kind = "Download" THEN local \cup {i} ELSE local
    /\ UNCHANGED ops
    /\ Elsewhere /\ UNCHANGED server

\* Fault: an upload is sent although its operation is over.
MaySendAlways(op) == op.kind = "Upload"

MaySend(op) == op.kind = "Upload" /\ ~op.finished

\* The main thread handles it: the payload of an upload is sent.
JobHandled(o, i) ==
    /\ work[o][i].at \in {"Posted", "Failed"}
    /\ IF work[o][i].at = "Posted" /\ MaySend(ops[o])
       THEN /\ work' = [work EXCEPT ![o][i] = [at |-> "Asked", token |-> account.token]]
            /\ UNCHANGED ops
       ELSE Increment(o, IF work[o][i].at = "Failed" THEN ReportError(ops[o]) ELSE ops[o],
                      [work[o] EXCEPT ![i] = Nowhere])
    /\ Elsewhere /\ UNCHANGED <<local, server, errors>>

\* The player closes the operation.
Cancel(o) ==
    /\ ops[o].kind # "None" /\ ~ops[o].finished
    /\ ops' = [ops EXCEPT ![o] = CancelOp(@)]
    /\ work' = [work EXCEPT ![o] = AbortReplies(@)]
    /\ Elsewhere /\ UNCHANGED <<local, server, errors>>

\* A chart is played to its end: the score is saved, and submitted if the user is
\* logged in.
Play(i) ==
    /\ i \notin local /\ \A u \in Users : i \notin server[u]
    /\ local' = local \cup {i}
    /\ submitted' = submitted \cup
          (IF account.login = "LoggedIn" THEN {<<account.token, i>>} ELSE {})
    /\ UNCHANGED <<account, requests, keychain, ops, work, server, errors>>

SubmissionArrives(u, i) ==
    /\ <<u, i>> \in submitted
    /\ submitted' = submitted \ {<<u, i>>}
    /\ server' = [server EXCEPT ![u] = @ \cup {i}]
    /\ UNCHANGED <<account, requests, keychain, ops, work, local, errors>>

-----------------------------------------------------------------------------
Discovery(o) == FetchLocalGuids(o) \/ LocalGuidsHandled(o) \/ ServerGuidsAnswered(o)

Transfer(o, i) == Answered(o, i) \/ JobBegins(o, i) \/ JobEnds(o, i) \/ JobHandled(o, i)

Next ==
    \/ \E u \in Users : Login(u)
    \/ Logout
    \/ \E r \in requests : SignInAnswered(r) \/ MeAnswered(r) \/ TachiAnswered(r)
    \/ KeychainJobDone
    \/ \E o \in Ops : \/ \E kind \in {"Upload", "Download"} : SyncScores(o, kind)
                      \/ ImportBokutachiScores(o)
                      \/ Discovery(o)
                      \/ \E i \in Items : Transfer(o, i)
                      \/ Cancel(o)
    \/ \E i \in Scores : Play(i) \/ \E u \in Users : SubmissionArrives(u, i)

Spec == Init /\ [][Next]_vars

\* The pool and the event loop run, and a request of an operation is answered or
\* ended by its timeout.  Requests of the session have none.
FairSpec ==
    /\ Spec
    /\ \A o \in Ops : WF_vars(Discovery(o) \/ \E i \in Items : Transfer(o, i))

-----------------------------------------------------------------------------
(* Properties.                                                             *)

\* The session is of one account: the data shown, the token and the requests under
\* way are of the same user, whatever answers of earlier sessions are still to
\* come; an operation that runs was begun by that user, and no score is asked for
\* or sent with the token of another.
SessionIsOneAccount ==
    /\ account.user # NoUser <=> account.login = "LoggedIn"
    /\ account.user # NoUser => account.token = account.user
    /\ \A r \in requests : r.generation = account.generation
    /\ \A r \in requests : r.kind # "SignIn" => r.user = account.token
    /\ \A o \in Ops : ops[o].kind # "None" /\ ~ops[o].finished => ops[o].user = account.user
    /\ \A o \in Ops, i \in Scores : work[o][i].at = "Asked" => work[o][i].token = ops[o].user

Busy(o) == {i \in Items : work[o][i].at # "Nowhere"}

\* The items of a transfer are done, pending or busy, at most so many at once and
\* none twice; one that is over asks for nothing more, and one that ended by itself
\* without an error has transferred all.
TransfersAddUp ==
    \A o \in Ops : LET op == ops[o] IN
        /\ op.stage = "Transfer" /\ ~op.finished =>
              /\ Cardinality(Busy(o)) + Cardinality(op.pending) + op.done = Cardinality(op.wanted)
              /\ op.kind # "Bokutachi" =>
                    op.active = Cardinality(Busy(o)) /\ op.active <= Concurrency
        /\ op.finished =>
              /\ op.pending = {} /\ \A i \in Items : work[o][i].at # "Asked"
              /\ op.cancelled \/ Busy(o) = {}
        /\ op.finished /\ ~op.cancelled /\ op.errors = 0 =>
              op.wanted \cap Scores \subseteq
                 (IF op.kind = "Upload" /\ op.user # NoUser THEN server[op.user] ELSE local)

\* An operation ends: no failure, cancellation or sign-out leaves it running.
SyncEnds == \A o \in Ops : ops[o].kind # "None" ~> ops[o].finished
=============================================================================
