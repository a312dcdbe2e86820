# RhythmGame in TLA+

RhythmGame is a BMS rhythm game written in C++ with Qt and QML. This directory
holds TLA+ specifications of the parts of it whose correctness depends on the
order in which things happen, the TLC configurations that check them on small
instances, and theorems checked by TLAPS. `PROJECT.json` lists components, runs,
mutants, the source lines behind every definition, findings, hazards and theorems.

Paths below are relative to the root of the repository.

## 1. Inventory of the system

| Part | State it keeps | Operations | Interacts through |
|---|---|---|---|
| Arena session, connection (`src/arena/ArenaSession.cpp`) | state machine, transport generation, ticket and admission in flight, seat, deadline, timers | connect, join, leave, retry, exit; socket, ticket, identity and timer callbacks | `ArenaTransport`, `ArenaIdentityProvider`, `ArenaScheduler` |
| Arena session, rounds | current round, loader requests, prepared and retained runner, pending terminal, schedule | probe, load, ready, start, play, finish, abandon, finalize | `ArenaRoundLoader`, `ArenaGameplaySource`, the gameplay screens |
| Arena session, inventory | published and uncertain revisions, upload in flight, request of the source | build, upload, commit, invalidate | `ArenaInventorySource`, database listeners |
| Arena session, availability (`ArenaAvailabilityIndex`) | index of charts everybody has, transfer in flight, resync | reset, delta, chunks, commit, applied report | binary frames |
| Song library (`src/qml_components/RootSongFoldersConfig.cpp`, `src/resource_managers/SongDbScanner.cpp`) | root folders and their status, scan queue, stop flag, charts in the database | add, remove, rescan, cancel; worker | main thread, worker thread, SQLite, inventory and tables as listeners |
| Note judging (`src/gameplay_logic/rules/HitRules.cpp`, `BmsGameReferee`, `BmsLiveScore`) | hit notes, cursor, long note begun, keys down, event log | press, release, update, finish | called by `Player`; replayed by `RePlayer` |
| Chart and course runner (`src/gameplay_logic/ChartRunner.cpp`, `CourseRunner`, `ChartStartGate`, `RhythmGameQml/ScreenContexts.cpp`, `GameplaySession.qml`, `StandardGameplayFlow.qml`) | status of the runner, parts loaded, held and pending start, stage, results, state of the screen | load, start, hold, release, finish, exit, retry, next stage | worker futures, the screen stack, functions QML defers, an Arena session |
| Input (`src/input/InputTranslator.cpp`) | pressed state and debounce timer of every button, direction of the scratch, key configuration, button being bound | key, axis and wheel events, timeouts, bind, reset, change of settings, device removed | queued events of other threads, `Player` |
| Online scores (`src/resource_managers/Profile.cpp`, `ScoreSyncOperation.cpp`) | login state, bearer token and stored token, requests under way, items of each operation | log in, log out, upload, download, import, cancel, submit | HTTP, keychain, thread pool, SQLite |
| Scores, rankings, tables, imports of other players' scores | database rows, replies | save, query, import | SQLite, HTTP |
| Sound, skins, themes, settings, chart parsing | buffers, parsed files, properties | decode, parse | - |

Everything of the first four rows runs on the GUI thread: a handler runs to its
end before the next begins, so a handler is one step of a model. Concurrency comes
from what happens *between* handlers: messages in flight, timers, worker results,
the user, outages. The song library, the runner and the online scores also have real
worker threads, and input events come from threads of their own.

What is hard in this code:

* **Stale answers.** Tickets, admissions, loads, builds and socket events arrive
  after what they were asked for is gone. The code guards with generations,
  request ids and lifecycle counters; one comparison missing is a seat for the
  wrong user or a runner nobody owns.
* **Outages.** A link can die between any two messages. The session resumes within
  a deadline and has to find out what the server has heard.
* **Cancellation that takes time.** A scan, a build or a load that is told to stop
  goes on until it notices. What is asked for meanwhile must not be lost.
* **Crashes.** Only the database survives; scans must be made again and what is
  called scanned must be complete.
* **Order.** Chunks and commits, the event log of a play, listeners told last.
* **Late time.** An input event says when it happened and is handled later, when a timer
  may have run out that it should have stopped.
* **Deferred work.** QML posts functions to run later; the state they find may not be the
  one they were posted in.
* **One of several.** An operation on many items, some of which fail, are cancelled, or
  belong to an account that has signed out.

The hazards in `PROJECT.json` name the line of each and the properties that would
catch it, or why none does yet.

## 2. Modules

| Module | Models | Proofs |
|---|---|---|
| `ArenaConnection` | connection life cycle of `ArenaSession`; refines `ArenaSeat` (`SeatKept`) | `ArenaConnectionProofs` |
| `ArenaSeat` | what the server and the user see: nobody, a seat, a seat kept through an outage | - |
| `ArenaRound` | one player's rounds: loader, runner, terminal message, screens, a server that settles | `ArenaRoundSession`, `ArenaRoundProofs` |
| `ArenaInventory` | publication of the library to the room | `ArenaInventoryProofs` |
| `ArenaAvailability` | reception of the charts everybody has | `ArenaAvailabilityProofs` |
| `SongLibrary` | roots, scans, removal, restarts and crashes | `SongLibraryProofs` |
| `NoteJudging` | the judging of one column, live and in the replay | `PlayProofs` |
| `InputTranslator` | keys and wheels to buttons, with debouncing | `PlayProofs` |
| `ChartPlay` | one visit to the gameplay screen, from loading to the last result | `PlayProofs` |
| `ScoreSync` | the online account and the operations that copy scores | `ScoreSyncProofs` |

A module `MC...` names the model values of the runs of a module. The modules meet at
narrow interfaces, and each has the other side as its environment: the start an Arena
round holds and the cancellation of a runner are actions of `ChartPlay`; a change of the
library is a step of `ArenaInventory`; a play that ends is a score submitted in
`ScoreSync`; a press and a release of a button are the events of `NoteJudging`.

### How state and actions correspond to the code

**ArenaConnection.** The record `session` has one field per member of
`ArenaSession` that takes part. Each private helper (`invalidateTransport`,
`clearRoom`, `beginReconnect`, `scheduleReconnect`, ...) is an operator from
session to session with the name of the helper, and a handler is their
composition in the order of the code. `identity` is the provider, `net` the socket
and the tickets. A timer is a countdown: it may fire any time after it has elapsed,
as a `QTimer` may be late and is never early.

**ArenaRound.** As above, with `client` for the members of the session a round uses
and the loader's operations. A runner is named by the request that made it. What
the server sends queues in `inbox`; what the client sends is processed at once, or
lost with the link, which is `Doomed` from then on. (A server step between the
sending and the processing does not depend on the message under way and can be
moved in front of the sending.) A client step sends at most one message of a round.
The server settles a round when the link is down or no runner is ready to play
(the play deadline of the server is longer than a chart), finalizes it after
a screen that is being left has gone, and starts a scheduled round by its timer. A
player who is still on the result of a round only watches the next one. `forgotten`, a field of
`client`, is history: the requests of runners that were retained when the end of a watched round
replaced them by none.
Telemetry, chat and the result already presented are not modelled.

**ArenaInventory.** The library is the number of changes made to it and a snapshot
is the number it has seen. The chunks of an upload are folded into its commit.
The server tells of a revision before or after it acknowledges the commit, and
a commit that landed may lose its acknowledgement.

**ArenaAvailability.** A chunk is a chart and a digest is a comparison of sets. The
server sends each transfer contiguously, may leave a chunk out, and may refuse a
resync (`MaxFaults`).

**SongLibrary.** `db` is the database (rows of roots, charts), `folders` what the
settings show, `queue` and `worker` the scan queue and the scan, `main` the main
thread in the middle of a removal, which the code does in two transactions
with events between. An item of the queue is a root and whether that root was
removed since, which stands for the identity of the folder object. A root may lie in
another. Files do not change, but a chart may fail to be parsed or saved (`ChartFails`), and an
archive or a directory to be read (`WalkFails`): the code logs it and goes on, and so do the
actions. `missed`, a history variable in the record `history`, has the charts a scan lost that way
until its root is cleared again. An exit is a shutdown, which winds
down first, or a crash, which keeps only `db`; the program starts again after either.

**NoteJudging.** The rules are operators on the record of a column
(`judged` for the hit flags, `current`, `lnBegin` for `lnBeginPoints`, `lnKey` for
`lnPressedKeys`, `pressed`, `empties`), used alike by the live player and by
the replay, as both call the same `BmsGameReferee`. `GradeOf` keeps two grades better
than Bad, enough to tell the grade of one long note from another's. `Press` merges
the loop of `HitRules::press` into three cases by the *set* of notes in reach:
one better than Bad (it is taken, earlier notes in the Bad window are judged with
it), only Bad ones, none (an empty poor). `log` has the key events with the offset the
code logs; events that are not key events are ignored by a replay and left out.
Offsets are ticks; the sort of the log may order equal offsets either way, since
`std::ranges::sort` is not stable.

**InputTranslator.** `raw` are the events on their way to the translator, each with its
time; `pad` has the `ButtonState` of a button with the time its release timer is due,
`scratch` the `Scratch` of the axis. A press, a release, the timeout of a button and that
of the axis are one action each, and the helpers (`PressButton`, `ReleaseButton`,
`ReleaseNow`, ...) are operators on the record of a button. The
clock counts milliseconds of a small scale. The program gives no bound on the delay of
an event; `MaxDelay` is one. `known` is history: keys whose press the translator has
handled, and keys whose device went before their events were.

**ChartPlay.** A record for each object: `runner` for `ChartRunner` and its start gate,
`course` for `CourseRunner`, `context` for `GameplayContext`, `session` and `flow` for the two
QML state machines, `screen` for the screen stack and the retry gesture. `posted` holds
the functions given to `Qt.callLater`, which runs each once however often it was
posted. A change of a watched property posts `synchronize` again, so every helper that
writes one also posts. A file that cannot be loaded, a screen that does not open
and an animation that fails are faults; saving a score succeeds.

**ScoreSync.** `account` is the session of `Profile`, with the generation by which it
tells late answers; `requests` are the replies it holds, `keychain` the stored token and
its jobs, which run in order. `ops` has a record per `ScoreSyncOperation`, and `work[o]`
where each item of it is: waiting, in a job of the pool, posted back, on the
network with the token it was sent with, done. The server keeps a set of scores for
each account. An import is one request per game.

## 3. Runs

All runs switch the deadlock check off: the user may stop, and every counter is
bounded, so behaviours of the models end.

| Run | Question | Bounds |
|---|---|---|
| `connection` | Do seat, connection and timers agree through identity changes, faults and late timers? Does every reconnection end? Does the session refine `ArenaSeat`? | 2 profiles, 5 disruptions, 4 transport generations, grace of 3 ticks with attempts of 2 and back-offs of 1 and 2 |
| `round` | Do loader, round, terminal and screens agree over 2 rounds, played or watched, with lost links? Is a terminal that is pending settled? | 2 rounds, 2 cuts, 1 seat |
| `round_retained` | Is no other runner retained when a round is finalized? (violated) | 2 rounds, no cuts, 1 seat |
| `inventory` | Is what was announced what is held, and does the server converge to the library? | 2 changes, 2 cuts, 2 seats, 1 fault |
| `availability` | Is the index of its revision, does the member become current? | 2 charts, 2 revisions, 2 cuts, 2 faults |
| `availability_delta` | Is a complete delta applied? (violated) | no cuts, no faults |
| `library` | Does scanned mean complete, and gone mean gone? Are listeners told last? Is a scan cut short made again, and does the queue end? | 3 roots, one nested in another and one without charts, 2 charts, the outer root added twice, 1 rescan, 1 cancel, 1 fault, 1 exit |
| `judging` | Is every note judged once; does a replay reproduce a punctual play? | 4 charts of 3 or 4 notes, 2 keys, 4 key events, 1 stall |
| `judging_replay` | Does a replay reproduce every play without a stall? (violated) | as above, no stalls |
| `input` | Does a button follow its keys; is a release held back as long as asked and no longer; is no hit taken for chatter? | 1 key, an axis, a pitch bend, 3 events, 1 bind, 1 change, intervals of 0 to 2, clock to 5 |
| `chart_play` | Is a score saved once and only for what was played; does a play start as asked; does the screen always get somewhere? | 2 sides, a course of 3 stages, 3 faults, 2 covers, 1 retry gesture |
| `score_sync` | Are accounts kept apart; does the count of an operation add up; does every operation end? | 2 users, 3 scores, 2 operations, 2 transfers at a time, 1 change of session, 1 error |

**Why the bounds are enough for the cases that matter.** Five disruptions of a
connection give an identity change in a resume in an outage after an admission, with
a retry behind it; the delays keep the order of the real ones (an attempt is shorter
than the grace period, a back-off doubles up to its maximum) and leave room for two
attempts before the deadline. Two rounds are the least that shows state of one
leaking into the next; with two cuts a terminal is lost, sent again and lost again. One seat
suffices there, for a player who leaves the room keeps nothing of it but screens; the
theorems are about any number of seats. Two changes of the library
let one overtake a build and one overtake an upload. Two revisions give a delta on
a reset. Three roots give nesting and an unrelated root, and one exit and one fault are
put at every step of a scan and of a removal. Four key
events are two long notes, or a long note and a note behind it; the charts hold a jack
within the Bad window, a note right behind a long note, two long notes, and a note
right before one. The keys of a scratch are symmetric. Three input events on one key are
a hit, a chatter and the hit it might hide, and the axis brings a reversal; intervals
of 0, 1 and 2 are no debouncing, one shorter than the delay and one longer. A third stage
is the first that has a stage before and behind it, and three faults let a result
screen fail for each. Three items with two at a time leave one waiting; two operations of
different kinds run beside each other, on the same account or across a sign-out, and
there is one start with all to upload, one with all to download and one with a play.

The largest runs are `input` (4.1 million states), `round` (1.1 million), `library`
(0.9 million) and `score_sync` (0.5 million); each takes two to three minutes, most of it for
liveness, the others less.

**Fairness.** `connection`: time passes and due timers fire (the event loop); the
network, the server and the user are not fair, so `ReconnectingEnds` rests on the
deadline alone. `round`: messages that arrived are handled, a dead link is
noticed, an outage ends one way or the other (what `connection` shows), a scheduled
round starts. `inventory`, `availability`: worker, event loop and a server that
answers. `library`: the worker and the main thread run on, and the program
is started again. `chart_play`: workers, event loop, timers, the outro of a theme and the
shared start. `score_sync`: pool and event loop, and requests of an operation are
answered or end by their transfer timeout of 30 seconds; the requests of a session have
no timeout and are not fair. The user is never fair, and nothing is assumed about the
success of an operation. `input` and `judging` need none.

**Every property has a mutant** in its module: a mapped definition with a plausible
bug (a dropped guard, a missing reset, a stale comparison) for which TLC finds the
property violated under the run's own configuration. They sit before the
definition they change and are marked `Fault`.

## 4. Findings

* `availability_delta`: a delta is never applied. The handler marks the index
  as syncing when the transfer is declared, and the index applies deltas only
  when it is ready; each delta costs a resync.
* `judging_replay`: a long note let go a little before its end is logged at the time of
  its end. A press of the same key in between is sorted before the release; in the
  replay the key is still down, the press is dropped and the note it hit is missed.

* `round_retained`: `retainPreparedGameplayUntilReleased` asserts that no other runner is retained.
  A player who stays on the result of a round watches the next one without a runner of
  its own; when that round is finalized the assertion fails. Where it is compiled out,
  the retained runner is replaced by none: the removal of its screen finds nothing to
  release, and nobody can cancel it any more. `RunnersAreOwned` says that these are the only
  runners without an owner.

Each one is quoted against the code in `PROJECT.json`.

Seen while modelling, without a run, each at its line; the properties that run say where
they stop short because of one:

* `RhythmGameQml/ScreenContexts.cpp:246`, `StandardGameplayFlow.qml:138`: an Arena session may destroy the
  runner between the natural finish of a play and its presentation. `finishStage` then
  returns null, no score is saved, and `exit` offers a retry that has no runner for ever: the
  player cannot leave the screen. `FlowNeverStalls` counts a screen that offers the retry as a
  point where the player has to act.
* `src/resource_managers/SongDbScanner.cpp:110`, `:644`, `:716`: a chart that cannot be parsed or saved, an
  archive and a directory that cannot be read are only logged; their root is called
  scanned without them. `ScannedIsComplete` exempts exactly the charts that the last scan missed.
* `src/qml_components/RootSongFoldersConfig.cpp:145`: a rescan of a root whose cancelled scan is still winding down
  returns true, and nothing is scanned. A root removed and added again during
  its scan, or an exit within a removal, leaves charts without a root or a root called
  scanned without its charts.
* `src/gameplay_logic/rules/HitRules.cpp:469`: a release that meets an earlier long note not yet judged is
  ignored, so the long note held is judged as held to its end.
* `src/gameplay_logic/BmsResult.cpp:346`: a score downloaded by two operations counts as an error of the
  second.
* `src/resource_managers/Profile.cpp:320`: a session whose request is never answered goes on logging in until
  the player does something.

## 5. Proofs

`ArenaConnectionProofs` proves, for every set of profiles, all delays and all
bounds that satisfy the assumptions of `ArenaConnection`:

* `TypeCorrect`: `Spec => []TypeOK`.
* `SeatIdentity`: `Spec => []SeatBelongsToActiveIdentity`. A seat, also one the session
  is trying to get back, belongs to the profile that is active and logged in.

* `NothingIsStranded`: `Spec => []NeverStranded`. Whatever the session waits for can still come:
  an attempt, a retry, a directory, a ticket or the answer to an admission.
* `SeatRefinement`: `Spec => Seat!Init /\ [][Seat!Next]_Seat!seatVars`. Every step of the session
  is one of the seat or leaves it alone.

`SeatBelongsToActiveIdentity` is not inductive: that a seat is the active profile's follows from the
ticket with which the socket authenticated, and that from the ticket's request. The
invariant that is, `IInv`, is the conjunction of

* `TypeOK`;
* `OwnsWhatItHolds`: the seat, the hello of the current socket and the ticket in
  hand are in the name of the active profile, and it is logged in; the session's
  copy of the login flag agrees with the provider;
* `TicketAuthenticates`: only a connection opened with a ticket is authenticated, only
  an authenticated one has an admission on the wire, and each kind of handshake
  belongs to its states;
* `SeatIsReal`: there is a seat exactly in the states that show or resume one, a session that
  waits for a ticket has no socket, and an inactive session holds nothing.

`NothingIsStranded` and `SeatRefinement` rest on `LInv`: `IInv`, that every timer belongs to a state
that waits for it and every state that waits has something that can come (`Alive`), and that a
ticket drawn is awaited (`TicketIsAwaited`).

`Inductive` shows `Spec => []IInv`: `Init` establishes it and every action preserves it, one
step per action. The record has some 25 fields, so each helper first gets a lemma
on the fields it leaves alone and one on its type, and the steps cite those
lemmas instead of the helpers' definitions.

`PlayProofs` proves of `NoteJudging`, for every set of charts that satisfies
`IsChart`, every width of the windows and every number of key events and stalls:

* `JudgingTypeCorrect`: `Spec => []TypeOK`;
* `EveryNoteIsJudged`: `Spec => []AllNotesJudged`;
* `NoNoteIsJudgedTwice`: `Spec => JudgedForGood`.

The invariant, again `IInv`, says of the live and of the replayed column (`ColumnInv`)

* `Cursor`: every note before `current` is judged, so moving the cursor hides nothing;
* `Pair`: the end of a long note is not judged before its begin, so missing or
  badly hitting a begin may judge its end with it;
* `Begun`: the end that is left of a long note whose begin was hit has a grade to get.

There is one lemma per rule (`MissesSound`, `TakeFirstSound`, `TakeBadsSound`,
`ReleaseSound`): it keeps `ColumnInv` and every judgement given. The delicate parts are that
a begin passed by `processMisses` takes its end along (`PassedInPairs`), that a
begin is never among the notes marked Bad in front of a good one (in
`TakeFirstSound`: the chart is ordered by time and a late Bad begin cannot be
taken), and that the end a key lets go had its begin hit (`ReleasedFacts`). That a set of
notes has a first one comes from the well-foundedness of the naturals
(`FirstIsLeast`).

* `PunctualIsReproduced`: `JudgingSpec => []PunctualPlayIsReproduced`.

The last relates two runs of the rules through a sorted log. The play passes misses at its
updates and its keys, the replay at its frames and its events, so their columns are
seldom equal. The invariant `ReplayInv` therefore says that there is a history (`IsHistory`): the
columns a replay goes through, one for each recorded event, each the one before after a pass
of `processMisses` to the time of the event and the event itself. The live column is level with
the last of them (`LevelWith`) once both are passed to the same time, and so is the replayed
column with that of the events it has taken (`Recorded`, `Replayed`, `Catches`). What carries it:

* a pass swallows the passes before it (`MissesAbsorb`), and columns that differ only in passes
  are alike after one (`MissesAlike`), so it does not matter when an update or a frame comes;
* a release is logged at the time of its end, which may lie ahead: nothing is missed between
  the release and that time in a punctual play (`NothingMissed`, `ReleaseInTime`);
* in a log in order an event added is the last, so the history only grows (`HistoryGrows`) and the
  next event due in the replay is the next of the history.

At the end both have passed everything, and level columns are equal. A history as a variable of
the model would need a recursive definition; quantified in the invariant it needs none.

It proves of `InputTranslator`, for every set of keys and buttons, every configuration with
one key per button and every choice of intervals:

* `InputTypeCorrect`: `InputSpec => []InputTypeOK`;
* `NoReleaseIsEarly`: `InputSpec => []ReleaseOutlastsItsInterval`. A release that is reported
  comes no earlier than the interval after the last press of the button, also when the
  interval was changed in between;
* `ButtonsFollow`: `InputSpec => []ButtonsFollowKeys`. A button reported as pressed has its key
  down or a release that waits, and a key that is down has its button pressed;
* `HitsAreHeard`: `InputSpec => NoHitIsSwallowed`. A press that comes the interval after
  the release or later is a new hit, also when both are handled late.

`InputInv` is `InputTypeOK`, `EventsArePast` (events are handled after they happened) and, of every
button, `Punctual`: a release that waits is of the past, its timer is due no earlier than the
interval after it, its deadline, if there is one, is exactly there, the button is not
physically down, and what was reported of other releases is over. That a timer ends no earlier
than the deadline is what makes it harmless by which of the two a release is settled.
`FInv` (theorem `FollowsHolds`) adds what joins keys and buttons: the events of a key that are
on their way alternate and end where the key is (`QueueFits`), a key whose press was heard has
its button down and its release coming (`KnownIsDown`), and a button that is down has a key
that is down or events to come (`KeyHolds`, `AxisFollows`, `BendFollows`).

And of `ChartPlay`, for every set of players and any number of stages, faults, covers
and retries:

* `InvariantHolds`: `Spec => []IInv`, and from it `TypeCorrect`: `Spec => []TypeOK`;
* `SavedOnce`: `Spec => []SavedOnceIfPlayed`. A score is in the database at most once for
  every stage and side, and only when that stage was played;
* `StartsRight`: `Spec => StartsAsAsked`. A stage begins only when all of it is loaded and the
  session has announced and started this stage, a held start only when it is pending, and
  no stage twice; what is finished stays finished until the next stage takes its place.

`IInv` is `TypeOK` with `RunnerFits` (what is loaded, held and pending agrees with the status of
the runner), `StagesFit` (what was saved is of stages up to the present one, and of that one
exactly when it is scored) and `CourseFits` (the phase of the session agrees with the
results it has shown). The last is what excludes that a result screen that fails to
open leads back to `finishStage`.

`ArenaInventoryProofs` proves, for any number of changes, cuts, seats and faults:

* `InvariantHolds`: `Spec => []IInv`, and `TypeCorrect`: `Spec => []TypeOK`;
* `AlwaysServed`: `Spec => []RequestIsServed`. A snapshot the session waits for is that of the build
  that is pending, or of the one that runs for the generation expected and has been
  neither cancelled nor superseded.

The part of `IInv` about the client, `Fits`, is `Bounded` (the generations the client and the
messages speak of have been announced, and a build is of a request, `Asked`) and `Served`, the
property itself with the generation the session expects tied to the present one.

* `AgreementHolds`: the same for `Agree`, and from it `PublishedHeld`: `Spec => []PublishedIsHeld`.
  What a session that has read everything takes for published is what the server holds.

`Agree` says where session, server and the messages between them can stand while the player is
in the room: nothing under way (`Resting`), an upload asked for or answered (`Asking`), a commit
that the server has yet to take or has refused (`NotTaken`), one it has taken (`Taken`), each
with the messages that can be under way in it; and without a link (`Apart`), that the revision
a commit was sent on tells whether it was taken. `Complete` adds that every snapshot has
the changes announced up to its generation. Every handler and every step of the server leads from
one of these to another.

`ArenaAvailabilityProofs` proves, for every finite set of charts and any number of revisions,
cuts and faults:

* `InvariantHolds`: `Spec => []IInv`, and `TypeCorrect`: `Spec => []TypeOK`;
* `IndexIsRight`: `Spec => []IndexIsOfItsRevision`. An index that is ready has exactly the charts
  of the revision it claims;
* `OnlyResetsApply`: `Spec => [][StepByReset]_vars`. The index becomes ready, or changes while it is
  ready, only by a reset. This is the finding of `availability_delta` for every value of the
  constants: no delta is ever applied, because an index is not ready while a transfer
  is collected (`Collects`) and a delta is accepted only by one that is.

A transfer is applied long after the server computed it, when the room may have moved on. What
is inductive is `Leads`: every transfer that was declared, on its way in `inbox` or being
collected by the client, leads from the charts of its base to those of its target in the
history of the room, which only grows.

`SongLibraryProofs` proves, for every finite tree of roots, any charts and any number of
additions, scans, cancels, faults, shutdowns and crashes:

* `InvariantHolds`: `Spec => []IInv`, and `TypeCorrect`: `Spec => []TypeOK`;
* `ScannedComplete`: `Spec => []ScannedIsComplete`. A root called scanned has every chart of it but
  those its last scan missed, whatever was cancelled, cut short or failed elsewhere; the row of
  a root that was added again during its own scan is exempt, with what a later start shows of it;
* `NothingOutlives`: `Spec => []NothingOutlivesItsRoot`;
* `ToldLast`: `Spec => []ToldOfEveryChange`;
* `NoneForgotten`: `Spec => []NothingIsForgotten`.

None of the four is inductive. `IInv` adds

* `QueueFits`: the worker scans the head of the queue, no item is there twice, and only the head can
  be of a root that was removed;
* `RootsFit`: settings and database know the same roots, and no two of them overlap;
* `ScanFits`: while a listed root is scanned its row does not say `Scanned`, and what its charts lack
  and no failure has lost (`Missing`) is still to be loaded, unless the scan is to stop;
* `GoneFits`: the scan of a removed root is to stop, and a root that was added in its place
  waits in the queue with nothing shown for it;
* `StopIsWanted`: a scan of a listed root that is to stop was given up by the player, or the program is
  shutting down;
* `ChartsFit`: a chart in the database is of a listed root, of the one `remove()` is about to clear, or of
  the removed one whose scan has yet to clear it.

A lemma per action keeps all of them; the steps of the worker share `WorkerStepFits`, what any
step owes that touches no chart but those of the root it scans, and the two ways to ask
for a scan share `ScanFolderKeeps`. That a start queues every root that is left needs a fact on
`SetToSeqs`: an injection between finite sets of the same size is onto (`SetToSeqsFacts`).

`ScoreSyncProofs` proves, for every set of users, scores, games and operations and
every concurrency:

* `TypeCorrect`: `Spec => []TypeOK`;
* `OneAccount`: `Spec => []SessionIsOneAccount`. Data shown, token and requests are of one user, and
  no score is sent with the token of another.

* `TransfersSum`: `Spec => []TransfersAddUp`. The items of a transfer are done, pending or busy,
  at most so many at once and none twice, and one that ended by itself without an error
  has transferred all of them.

The invariant adds that a request of the present generation is of the user being signed
in and only one is under way (`OneRequestAtATime`), that the keychain is read before anything
is written (`ReadIsFirst`), and that an operation that runs was begun by somebody who
was signed in (`BegunBySomebody`). `TransfersAreWhole` proves the other, `AllWhole`: for every
operation that what it wants is partitioned into the three (`Sums`), that an item is in one
place, and that what has left them has arrived (`Reached`).

`ArenaRoundSession` and `ArenaRoundProofs` prove of `ArenaRound`, for any number of rounds, cuts
and seats:

* `TypeCorrect`: `Spec => []TypeOK`;
* `RunnersOwned`: `Spec => []RunnersAreOwned`. No runner is left that nobody can cancel but the
  forgotten ones of `round_retained`, none of which is loading; the prepared one is of the
  current round, and a retained one goes with its screen;
* `TerminalOnce`: `Spec => []OneTerminal`. A round hears one terminal of the player;
* `RoomAgrees`: `Spec => []AgreesWithRoom`. A session that has read everything is in
  the round of the room and plays when the room does, unless it gave the round up;
* `StartsSeated`: `Spec => StartsOnlySeated`. A chart starts only for a player who
  sits in its round.

The invariant `RInv` is `TypeOK` with `Tidy(client)`, which says that a runner waiting for its start is
on the screen the session knows of or on one on its way out, and `InvOf(client, server, inbox, link)`:

* `Local`, of the session alone: each of the loader's operations is the one asked for, the one
  retained or one forgotten (`OpsWhole`), a request belongs to a round (`RequestWhole`), what plays, started or
  was given up agrees with the stage of the round (`PlayWhole`, `RoundWhole`), and a retained
  runner has its screen (`RetainedWhole`), and is there during a round only when the player
  takes no part in it (`Watched`);
* `ServerWhole`, of the server alone;
* `Room`, of both: whatever is on its way, the session is at most as far as the server, and a
  round it knows it takes part in as the server has it;
* `Queue`: every message on its way fits the session it will find and the server it left
  (`Fits`), and any two of them are in the order of their rounds and stages (`Ordered`);
* `Linked`, by which the messages of a live link lead, one after the other (`Chain`), from the
  round of the session to that of the server; `Told` and `ToldPlay`, by which a start or a play that
  the session does not know of is in the queue.

`ArenaRoundSession` shows what every helper, handler and callback keeps of `Local`;
`ArenaRoundProofs` what a handler may do with the rest of the queue, and that each step of the
server adds messages which fit behind it. For `StartsOnlySeated` there is in addition a lemma
on every handler: a runner that begins to play is that of the session's request, and the
session has sent no terminal.

**Only model-checked.** Liveness (`ReconnectingEnds`, `TerminalSettles`, `Converges`,
`BecomesCurrent`, `QueueDrains`, `FlowNeverStalls`, `SyncEnds`, and the fairness in `SeatKept`), which
needs fairness and is out of reach of the prover. Every invariant and every action property of a
passing run is a theorem.

## 6. Not modelled

The modules cover the parts of the program that have control: state that outlives a call
and is changed from several sides. The greater part of the source has none. The codec of
the Arena messages, the parser and the state of LR2 skins, the operands of skins, chart
parsing, gauges, the select screen's models and the decoders are functions of data: a
model of them would restate the code, and what could go wrong in them (a field
read wrongly, a note misplaced) is what tests are good at. Therefore the modules stand for a
small share of the lines of the repository.

Within the modelled parts:

* Arena session: probes' results, telemetry, standings, chat, kicks and the host role. The
  contents of messages are reduced to what decides the next step. Selection and ready are
  given: a request of either is completed by the next update that shows the wanted value,
  which says little without the server behind it.
* Song library: parsing of charts, archives, checks of paths.
* Judging: mines, combo, gauges, and charts whose long notes are malformed (the parser
  can produce them, see the hazards). One column is enough because columns share
  nothing but the order of the log.
* Gameplay screen: positions of players, suppression of input, a profile deleted meanwhile,
  saves that fail.
* Input: decoding of events of devices, filters in front of the translator, and
  `setKeyConfig` while buttons are down: a whole configuration is given at the start (the
  settings page only reads `keyConfig`; nothing but the tests sets it later).
* Online scores: rankings, tables, Arena tickets, the contents of requests.
* Sound runs on a real time thread behind a lock-free queue of a library; imports of
  other players' scores are a worker with progress.

## 7. Where it could go on

`ArenaLobby`, selection and ready with a model of the server, composed with
`ArenaAvailability` and `ArenaRound`; a history of holds in `NoteJudging` for long notes
judged as held, and mines.
