------------------------------ MODULE ChartPlay ------------------------------
(***************************************************************************)
(* One visit to the gameplay screen: a chart, a battle, a course or an     *)
(* Arena round, from loading to its result screens.                        *)
(*                                                                         *)
(* The parts all live on the main thread and call each other.  ChartRunner *)
(* holds the play of the current stage, CourseRunner the scores of the     *)
(* stages, GameplayContext gives both to QML, GameplaySession and          *)
(* StandardGameplayFlow move the player from start to result.  What makes  *)
(* it hard is that QML defers its work (Qt.callLater): a function posted   *)
(* now runs after whatever else happens first, and only a change of a      *)
(* watched property posts it again.                                        *)
(*                                                                         *)
(* The environment loads (workers), opens and closes screens, leaves the   *)
(* theme its outro, plays, exits and retries; an Arena session holds the   *)
(* start and may destroy the runner.  A save that reaches the database is  *)
(* taken to succeed, and the profile stays.                                *)
(***************************************************************************)
EXTENDS Naturals, FiniteSets

CONSTANTS
    Players,    \* the sides of a battle
    Kinds,      \* the kinds of play: "Chart", "Battle", "Course", "Arena"
    Stages,     \* stages of a course
    MaxFaults,  \* bound: screens, stages and animations that cannot be loaded
    MaxCovers,  \* bound: screens opened above the gameplay
    MaxChoices  \* bound: retry gestures

ASSUME PlayAssumption ==
    /\ Players # {} /\ IsFiniteSet(Players)
    /\ Kinds \subseteq {"Chart", "Battle", "Course", "Arena"}
    /\ Stages \in Nat \ {0}
    /\ {MaxFaults, MaxCovers, MaxChoices} \subseteq Nat

VARIABLES
    kind,     \* what is played
    runner,   \* the ChartRunner of the current stage
    course,   \* CourseRunner, and the stage index for a single chart
    context,  \* GameplayContext
    session,  \* GameplaySession's state
    flow,     \* StandardGameplayFlow: startup, attempt and the theme's outro
    screen,   \* the top of the screen stack and the retry gesture
    posted,   \* functions Qt.callLater will run
    saved,    \* scores written to the database (for the properties)
    used      \* the bounded events used up

vars == <<kind, runner, course, context, session, flow, screen, posted, saved, used>>

-----------------------------------------------------------------------------
Sides == IF kind \in {"Battle", "Course"} THEN Players ELSE {CHOOSE p \in Players : TRUE}

StageCount == IF kind = "Course" THEN Stages ELSE 1

Bga == "bga"
Parts == Sides \cup {Bga}

Runners == [status : {"Loading", "Ready", "Running", "Finished"},
            loaded : SUBSET (Players \cup {Bga}), bga : BOOLEAN,
            held : BOOLEAN, pending : BOOLEAN, alive : BOOLEAN]

Sessions == [phase : {"playing", "finishing", "stageResult", "courseResult", "leaving"},
             announced : 0..Stages, started : BOOLEAN, returned : BOOLEAN,
             waitForFinish : BOOLEAN, blocked : BOOLEAN,
             stageResult : BOOLEAN, courseResult : BOOLEAN]

TypeOK ==
    /\ kind \in Kinds
    /\ runner \in Runners
    /\ course \in [index : 1..Stages, scored : BOOLEAN, kept : SUBSET (1..Stages),
                   finished : BOOLEAN]
    /\ context \in [stageResult : BOOLEAN, courseResult : BOOLEAN]
    /\ session \in Sessions
    /\ flow \in [armed : BOOLEAN, complete : BOOLEAN, attempted : BOOLEAN, outro : BOOLEAN]
    /\ screen \in [top : {"Gameplay", "Cover", "Result", "CourseResult", "Gone"},
                   choosing : BOOLEAN]
    /\ posted \subseteq {"synchronize", "begin"}
    /\ saved \in [stages : [1..Stages -> 0..2], course : 0..2, ran : SUBSET (1..Stages)]
    /\ used \in [faults : 0..MaxFaults, covers : 0..MaxCovers, choices : 0..MaxChoices]

NewRunner(held) ==
    [status |-> "Loading", loaded |-> {}, bga |-> FALSE,
     held |-> held, pending |-> FALSE, alive |-> TRUE]

\* The Arena session shows its runner when it is ready, held by the loader.
ArenaRunner == [NewRunner(TRUE) EXCEPT !.status = "Ready", !.bga = TRUE,
                    !.loaded = Parts]

Init ==
    /\ kind \in Kinds
    /\ runner = IF kind = "Arena" THEN ArenaRunner ELSE NewRunner(FALSE)
    /\ course = [index |-> 1, scored |-> FALSE, kept |-> {}, finished |-> FALSE]
    /\ context = [stageResult |-> FALSE, courseResult |-> FALSE]
    /\ session = [phase |-> "playing", announced |-> 0, started |-> FALSE,
                  returned |-> FALSE, waitForFinish |-> TRUE, blocked |-> FALSE,
                  stageResult |-> FALSE, courseResult |-> FALSE]
    /\ flow = [armed |-> FALSE, complete |-> FALSE, attempted |-> FALSE, outro |-> FALSE]
    /\ screen = [top |-> "Gameplay", choosing |-> FALSE]
    /\ posted = {"synchronize", "begin"}
    /\ saved = [stages |-> [s \in 1..Stages |-> 0], course |-> 0, ran |-> {}]
    /\ used = [faults |-> 0, covers |-> 0, choices |-> 0]

-----------------------------------------------------------------------------
(* What the bindings of QML see.                                           *)

\* GameplayContext::status: a runner that was destroyed counts as finished.
Status == IF runner.alive THEN runner.status ELSE "Finished"

Ready == Status = "Ready"
Finished == Status = "Finished"
Enabled == screen.top = "Gameplay"
Active == Enabled /\ ~screen.choosing
Playing == session.phase = "playing"

\* Fault: the end of the outro is not watched.
WatchedButOutro == <<Ready, Finished, Active, flow.complete>>

\* A change of one of these posts synchronize, or StandardGameplayFlow's begin.
Watched == <<Ready, Finished, Active, flow.complete, flow.outro>>

BeginWatched == <<Ready, Playing>>

\* What is called later once a step has run "ran" and called for "added".
Posts(ran, added) ==
    posted' = (posted \ ran) \cup added
        \cup (IF Watched' # Watched THEN {"synchronize"} ELSE {})
        \cup (IF BeginWatched' # BeginWatched \/ (Enabled' /\ ~Enabled)
                 \/ session'.announced # session.announced
              THEN {"begin"} ELSE {})

\* The flow forgets its startup when it is disabled, closes or a stage begins.
ResetStartup(f) == [f EXCEPT !.armed = FALSE, !.complete = FALSE]

-----------------------------------------------------------------------------
(* ChartRunner and its ChartStartGate.                                     *)

StartNow(r) == [r EXCEPT !.status = "Running", !.pending = FALSE]

Start(r) ==
    CASE r.status \in {"Running", "Finished"} -> r
      [] r.held \/ r.status = "Loading" -> [r EXCEPT !.pending = TRUE]
      [] OTHER -> StartNow(r)

\* Fault: readiness starts a play that nobody asked for.
OnReadyAlways(r) == IF r.held THEN r ELSE StartNow(r)

OnReady(r) == IF r.held \/ ~r.pending THEN r ELSE StartNow(r)

ReleaseStart(r) == OnReady([r EXCEPT !.held = FALSE])

\* setup is called once for the animation and once for each side; without an
\* animation it ends before the runner is ready, and is never called again.
Setup(r, part) ==
    LET q == [r EXCEPT !.loaded = @ \cup {part}]
    IN  IF q.loaded # Parts \/ q.status # "Loading" \/ ~q.bga THEN q
        ELSE OnReady([q EXCEPT !.status = "Ready"])

FinishRunner(r) ==
    [r EXCEPT !.status = "Finished", !.held = FALSE, !.pending = FALSE]

\* Of the scores: the stage has been running.
Ran == [saved EXCEPT !.ran = IF runner'.status = "Running" THEN @ \cup {course.index} ELSE @]

\* A worker has built the referee of a side.
RefereeLoaded(p) ==
    /\ runner.alive
    /\ p \in Sides \ runner.loaded
    /\ runner' = Setup(runner, p)
    /\ saved' = Ran
    /\ UNCHANGED <<kind, course, context, session, flow, screen, used>>
    /\ Posts({}, {})

\* A worker has loaded the animation, or has not.
BgaLoaded ==
    /\ runner.alive
    /\ Bga \notin runner.loaded
    /\ \E found \in BOOLEAN :
          /\ ~found => used.faults < MaxFaults
          /\ used' = [used EXCEPT !.faults = @ + (IF found THEN 0 ELSE 1)]
          /\ runner' = Setup([runner EXCEPT !.bga = found], Bga)
    /\ saved' = Ran
    /\ UNCHANGED <<kind, course, context, session, flow, screen>>
    /\ Posts({}, {})

\* The shared start of an Arena round has come.
StartReleased ==
    /\ kind = "Arena" /\ runner.alive
    /\ runner.held /\ runner.pending
    /\ runner' = ReleaseStart(runner)
    /\ saved' = Ran
    /\ UNCHANGED <<kind, course, context, session, flow, screen, used>>
    /\ Posts({}, {})

\* updateElapsed: the sides have the same chart and end in the same update.
UpdateElapsed ==
    /\ Status = "Running"
    /\ runner' = [runner EXCEPT !.status = "Finished"]
    /\ UNCHANGED <<kind, course, context, session, flow, screen, saved, used>>
    /\ Posts({}, {})

\* A note is hit: the stage counts as attempted.
Hit ==
    /\ Status = "Running"
    /\ ~flow.attempted
    /\ flow' = [flow EXCEPT !.attempted = TRUE]
    /\ UNCHANGED <<kind, runner, course, context, session, screen, posted, saved, used>>

-----------------------------------------------------------------------------
(* Screens: what synchronize opens and closes.                             *)

\* The gameplay screen is removed, and everything it owns with it.
Leave ==
    /\ session' = [session EXCEPT !.phase = "leaving"]
    /\ screen' = [top |-> "Gone", choosing |-> FALSE]
    /\ posted' = {}
    /\ UNCHANGED <<kind, runner, course, context, flow, saved>>

\* A screen is pushed, or creating it fails.
Opens(opened, top) ==
    /\ ~opened => used.faults < MaxFaults
    /\ used' = [used EXCEPT !.faults = @ + (IF opened THEN 0 ELSE 1)]
    /\ screen' = IF opened THEN [screen EXCEPT !.top = top] ELSE screen

\* CourseRunner and GameplayContext both keep the scores of the stage.
SavesStage(s) ==
    /\ ~s.stageResult /\ ~context.stageResult
    /\ kind = "Course" => ~course.scored

\* GameplayContext::finishStage has a result to give.
StageHasResult(s) ==
    \/ s.stageResult
    \/ context.stageResult
    \/ runner.alive /\ Status # "Loading"

\* Player::finish: a row for each side, one for the stage here.
SaveScores == [saved EXCEPT !.stages[course.index] = @ + 1]

\* What is left to do of it: the runner ends and its scores are kept.
FinishStage(s) ==
    IF SavesStage(s)
    THEN /\ runner' = FinishRunner(runner)
         /\ course' = [course EXCEPT !.scored = TRUE, !.kept = @ \cup {course.index}]
         /\ saved' = SaveScores
    ELSE UNCHANGED <<runner, course, saved>>

\* presentStageResult, of a session that is in state s.  Opening the result
\* disables the gameplay, which counts as the player having gone there.
PresentStage(s) ==
    /\ flow' = ResetStartup(flow)
    /\ IF StageHasResult(s)
       THEN /\ FinishStage(s)
            /\ context' = [context EXCEPT !.stageResult = TRUE]
            /\ \E opened \in BOOLEAN :
                  /\ Opens(opened, "Result")
                  /\ session' = [s EXCEPT !.stageResult = TRUE,
                                     !.phase = IF opened THEN "stageResult" ELSE "finishing",
                                     !.returned = opened, !.blocked = ~opened]
       ELSE /\ session' = [s EXCEPT !.blocked = TRUE]
            /\ UNCHANGED <<runner, course, context, saved, screen, used>>

\* GameplayContext::finishCourse and CourseRunner::finish: every stage has been
\* kept, and the course is saved once.
CourseHasResult == context.courseResult \/ course.finished \/ course.kept = 1..StageCount

SavesCourse == ~session.courseResult /\ ~context.courseResult /\ ~course.finished

FinishCourse ==
    IF SavesCourse
    THEN /\ course' = [course EXCEPT !.finished = TRUE]
         /\ saved' = [saved EXCEPT !.course = @ + 1]
    ELSE UNCHANGED <<course, saved>>

PresentCourse ==
    /\ CourseHasResult
    /\ FinishCourse
    /\ context' = [context EXCEPT !.courseResult = TRUE]
    /\ \E opened \in BOOLEAN :
          /\ Opens(opened, "CourseResult")
          /\ session' = [session EXCEPT !.courseResult = TRUE, !.returned = TRUE,
                             !.phase = IF opened THEN "courseResult" ELSE "stageResult",
                             !.blocked = ~opened]
    /\ UNCHANGED <<runner, flow>>

\* Fault: a course has a stage more.
HasNextStageAlways == kind = "Course"

HasNextStage == kind = "Course" /\ course.index < StageCount

\* Fault: the flow takes the hits of the last stage for hits of this one.
NextFlowAttempted == ResetStartup(flow)

NextFlow == [ResetStartup(flow) EXCEPT !.attempted = FALSE]

\* CourseRunner::nextStage, and the rest of synchronize for the new stage.
NextStage ==
    /\ context.stageResult /\ course.scored
    /\ runner' = NewRunner(FALSE)
    /\ course' = [course EXCEPT !.index = @ + 1, !.scored = FALSE]
    /\ context' = [context EXCEPT !.stageResult = FALSE]
    /\ session' = [session EXCEPT !.phase = "playing", !.started = FALSE,
                       !.waitForFinish = TRUE, !.stageResult = FALSE,
                       !.announced = course'.index]
    /\ flow' = NextFlow
    /\ UNCHANGED <<screen, saved, used>>

-----------------------------------------------------------------------------
(* GameplaySession::synchronize.                                           *)

\* The player is back from a result.
Returned(phase) == session.returned /\ session.phase = phase

AfterResult ==
    \/ /\ Returned("stageResult") /\ HasNextStage
       /\ \/ NextStage /\ Posts({"synchronize"}, {})
          \/ \* the next chart cannot be loaded
             /\ used.faults < MaxFaults
             /\ used' = [used EXCEPT !.faults = @ + 1]
             /\ Leave
    \/ /\ Returned("stageResult") /\ kind = "Course" /\ ~HasNextStage
       /\ PresentCourse /\ Posts({"synchronize"}, {})
    \/ /\ \/ Returned("stageResult") /\ kind # "Course"
          \/ Returned("courseResult")
       /\ Leave /\ UNCHANGED used

\* A theme may begin its outro when it is told that play has finished.
PlayFinished ==
    /\ Playing /\ Finished
    /\ LET s == [session EXCEPT !.phase = "finishing"]
       IN  \/ /\ flow' = [flow EXCEPT !.outro = TRUE]
             /\ session' = s
             /\ UNCHANGED <<runner, course, context, saved, screen, used>>
          \/ PresentStage(s)
    /\ Posts({"synchronize"}, {})

\* GameplayContext::start does start the runner.
Starts == Ready /\ flow.complete /\ ~session.started /\ ~context.stageResult

AnnounceOrStart ==
    /\ Playing /\ ~Finished
    /\ IF session.announced # course.index
       THEN /\ session' = [session EXCEPT !.announced = course.index]
            /\ flow' = ResetStartup(flow)
            /\ UNCHANGED <<runner, saved>>
       ELSE /\ session' = [session EXCEPT !.started = @ \/ Starts]
            /\ runner' = IF Starts THEN Start(runner) ELSE runner
            /\ saved' = Ran
            /\ UNCHANGED flow
    /\ UNCHANGED <<course, context, screen, used>>
    /\ Posts({"synchronize"}, {})

FinishStageNow ==
    /\ session.phase = "finishing"
    /\ ~session.waitForFinish \/ ~flow.outro
    /\ PresentStage(session)
    /\ Posts({"synchronize"}, {})

NothingToDo ==
    /\ \/ ~Active \/ session.blocked
       \/ session.phase = "finishing" /\ session.waitForFinish /\ flow.outro
       \/ session.phase \in {"stageResult", "courseResult"} /\ ~session.returned
    /\ posted' = posted \ {"synchronize"}
    /\ UNCHANGED <<runner, course, context, session, flow, screen, saved, used>>

Synchronize ==
    /\ "synchronize" \in posted
    /\ \/ NothingToDo
       \/ /\ Active /\ ~session.blocked
          /\ AfterResult \/ PlayFinished \/ AnnounceOrStart \/ FinishStageNow
    /\ UNCHANGED kind

-----------------------------------------------------------------------------
(* StandardGameplayFlow and the player.                                    *)

\* startup.begin: the ready sound and the delay after it.
Begin ==
    /\ "begin" \in posted
    /\ flow' = IF Enabled /\ ~session.started /\ Playing /\ Ready /\ ~flow.complete
               THEN [flow EXCEPT !.armed = TRUE] ELSE flow
    /\ UNCHANGED <<kind, runner, course, context, session, screen, saved, used>>
    /\ Posts({"begin"}, {})

StartupCompletes ==
    /\ flow.armed /\ ~flow.complete
    /\ Enabled /\ Playing /\ Ready
    /\ flow' = [flow EXCEPT !.complete = TRUE]
    /\ UNCHANGED <<kind, runner, course, context, session, screen, saved, used>>
    /\ Posts({}, {})

\* The theme has shown its outro: finishReady.
OutroEnds ==
    /\ flow.outro
    /\ screen.top # "Gone"
    /\ flow' = [flow EXCEPT !.outro = FALSE]
    /\ UNCHANGED <<kind, runner, course, context, session, screen, saved, used>>
    /\ Posts({}, {})

\* exit(): opens a result that failed to open, gives an Arena round up, leaves a
\* chart nobody has tried, or else ends the stage with what was played.
Exit ==
    /\ Active
    /\ \/ /\ session.blocked
          /\ session' = [session EXCEPT !.blocked = FALSE]
          /\ UNCHANGED <<runner, course, context, flow, screen, saved>>
          /\ Posts({}, {"synchronize"})
       \/ /\ ~session.blocked
          /\ \/ kind = "Arena" /\ Ready
             \/ kind # "Arena" /\ ~flow.attempted /\ ~Finished
          /\ Leave
       \/ /\ ~session.blocked
          /\ IF kind = "Arena" THEN ~Ready ELSE flow.attempted \/ Finished
          /\ session.phase \in {"playing", "finishing"}
          /\ session' = [session EXCEPT !.phase = "finishing", !.waitForFinish = FALSE]
          /\ UNCHANGED <<runner, course, context, flow, screen, saved>>
          /\ Posts({}, {"synchronize"})
    /\ UNCHANGED <<kind, used>>

\* Start and Select are held: nothing moves until one is let go.
ChooseRetry ==
    /\ kind = "Chart"
    /\ Active /\ ~Finished
    /\ used.choices < MaxChoices
    /\ used' = [used EXCEPT !.choices = @ + 1]
    /\ screen' = [screen EXCEPT !.choosing = TRUE]
    /\ UNCHANGED <<kind, runner, course, context, session, flow, saved>>
    /\ Posts({}, {})

\* The choice is cancelled, or the chart cannot be loaded again.
CancelRetry ==
    /\ Enabled /\ screen.choosing
    /\ screen' = [screen EXCEPT !.choosing = FALSE]
    /\ UNCHANGED <<kind, runner, course, context, session, flow, saved, used>>
    /\ Posts({}, {})

\* Another play takes the place of this one, also from its result.
Retry ==
    /\ kind = "Chart"
    /\ Enabled \/ screen.top = "Result"
    /\ Leave
    /\ UNCHANGED used

\* Settings or another screen is opened above the gameplay.
Cover ==
    /\ Enabled
    /\ used.covers < MaxCovers
    /\ used' = [used EXCEPT !.covers = @ + 1]
    /\ screen' = [top |-> "Cover", choosing |-> FALSE]
    /\ flow' = ResetStartup(flow)
    /\ UNCHANGED <<kind, runner, course, context, session, saved>>
    /\ Posts({}, {})

\* The screen above the gameplay is closed.
CloseScreen ==
    /\ screen.top \in {"Cover", "Result", "CourseResult"}
    /\ screen' = [screen EXCEPT !.top = "Gameplay"]
    /\ UNCHANGED <<kind, runner, course, context, session, flow, saved, used>>
    /\ Posts({}, {})

\* The Arena session gives the round up: the screen of a play that is not over
\* is removed, any other loses its runner.
ArenaCancels ==
    /\ kind = "Arena" /\ runner.alive
    /\ screen.top # "Gone"
    /\ \/ Enabled /\ ~Finished /\ Leave
       \/ /\ ~Enabled \/ Finished
          /\ runner' = [runner EXCEPT !.alive = FALSE]
          /\ UNCHANGED <<kind, course, context, session, flow, screen, saved>>
          /\ Posts({}, {})
    /\ UNCHANGED used

-----------------------------------------------------------------------------
Next ==
    \/ \E p \in Players : RefereeLoaded(p)
    \/ BgaLoaded \/ StartReleased \/ UpdateElapsed \/ Hit
    \/ Synchronize \/ Begin \/ StartupCompletes \/ OutroEnds
    \/ Exit \/ ChooseRetry \/ CancelRetry \/ Retry
    \/ Cover \/ CloseScreen \/ ArenaCancels

Spec == Init /\ [][Next]_vars

\* What runs by itself runs: the event loop, the workers, timers and sounds,
\* and the shared start.  The player need not do anything.
FairSpec ==
    /\ Spec
    /\ \A p \in Players : WF_vars(RefereeLoaded(p))
    /\ WF_vars(BgaLoaded) /\ WF_vars(StartReleased) /\ WF_vars(UpdateElapsed)
    /\ WF_vars(Synchronize) /\ WF_vars(Begin)
    /\ WF_vars(StartupCompletes) /\ WF_vars(OutroEnds)

-----------------------------------------------------------------------------
(* Properties.                                                             *)

\* However often a result screen fails to open, is closed or asked for again, a
\* stage is saved once, and only if it was played; the course is saved once and
\* after all of its stages.  What a result screen shows has been saved.
SavedOnceIfPlayed ==
    /\ \A s \in 1..Stages : saved.stages[s] <= (IF s \in saved.ran THEN 1 ELSE 0)
    /\ saved.course <= 1
    /\ saved.course = 1 => \A s \in 1..StageCount : saved.stages[s] = 1
    /\ screen.top = "Result" => saved.stages[course.index] = 1
    /\ screen.top = "CourseResult" => saved.course = 1

\* A stage begins to run only when everything of it is loaded, on the player's
\* side of the ready sound, not before the shared start and not twice; and what
\* is finished stays finished until another stage takes its place.
StartsAsAsked ==
    [][/\ runner'.status = "Running" /\ runner.status # "Running" =>
            /\ runner.status = "Ready"
            /\ session'.started /\ session'.announced = course.index
            /\ runner.held => runner.pending
            /\ course.index \notin saved.ran
       /\ runner.status = "Finished" /\ runner'.status # "Finished" =>
            course'.index > course.index]_vars

\* The screen waits for nobody but the player: whatever is loaded, deferred,
\* covered or cancelled, it comes to a result, to its end, or to a point where
\* the player has to act.
Resting ==
    \/ ~Active
    \/ session.blocked
    \/ runner.status = "Loading" /\ runner.loaded = Parts

FlowNeverStalls == []<>Resting
=============================================================================
