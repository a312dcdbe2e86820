----------------------------- MODULE PlayProofs -----------------------------
(***************************************************************************)
(* Proofs about a play: of its screen and its stages (ChartPlay), of the   *)
(* judging of its notes and their replay (NoteJudging), and of the events  *)
(* that make its key presses (InputTranslator).                            *)
(*                                                                         *)
(* ChartPlay, for any players, courses of any length and any number of     *)
(* failures, covers and retries: its type invariant, that a stage and a    *)
(* course are saved once and only if they were played, and that a stage    *)
(* starts when it should.                                                  *)
(*                                                                         *)
(* NoteJudging, for every chart, every width of the windows and every      *)
(* number of key events: a column stays a column, no note is judged twice, *)
(* and a play or a replay that is over has judged every note.  Each rule   *)
(* (HitPress, Release, ProcessMisses) has one lemma: it keeps ColumnInv,   *)
(* and it keeps the judgements that were given.  The steps of the live     *)
(* player and of the replaying player are compositions of them.            *)
(* That a punctual play is reproduced is proved along a history: the       *)
(* columns a replay goes through, one for each recorded event.  A pass of  *)
(* processMisses swallows the passes before it (MissesAbsorb), so the      *)
(* updates of the player and the frames of the replay, which come at       *)
(* different times, lead to the same columns.                              *)
(*                                                                         *)
(* InputTranslator, for any keys, buttons and intervals: its type          *)
(* invariant, that no debounced release is reported before its interval is *)
(* over, that buttons follow their keys, and that a press after the        *)
(* interval is a hit of its own.                                           *)
(***************************************************************************)
EXTENDS ChartPlay, NoteJudging, InputTranslator, SequenceTheorems,
        WellFoundedInduction, TLAPS

-----------------------------------------------------------------------------
(* ChartPlay: the inductive invariant.                                     *)

\* How far the stage has come is the same to the runner, the flow and the session.
RunnerFits ==
    /\ runner.status \in {"Running", "Finished"} <=> course.index \in saved.ran
    /\ runner.pending =>
          /\ runner.status = "Ready" /\ runner.held
          /\ session.started /\ session.announced = course.index
    /\ flow.attempted => course.index \in saved.ran
    /\ session.phase = "finishing" /\ ~context.stageResult /\ runner.alive =>
          course.index \in saved.ran
    /\ kind = "Arena" => runner.status # "Loading"
    /\ kind # "Arena" => runner.alive

\* The scores in the database are those of the stages behind the player, and of
\* this one once there is a result of it.
StagesFit ==
    /\ \A s \in 1..Stages :
          saved.stages[s] =
             IF s < course.index \/ (s = course.index /\ context.stageResult) THEN 1 ELSE 0
    /\ \A s \in 1..Stages : saved.stages[s] = 1 => s \in saved.ran
    /\ \A s \in saved.ran : s <= course.index
    /\ course.kept = {s \in 1..Stages : saved.stages[s] = 1}
    /\ course.scored <=> context.stageResult
    /\ session.stageResult => context.stageResult
    /\ course.index <= StageCount
    /\ screen.top = "Result" => context.stageResult

\* The course is saved when, and only when, all its stages are.
CourseFits ==
    /\ saved.course = IF course.finished THEN 1 ELSE 0
    /\ course.finished <=> context.courseResult
    /\ session.courseResult => context.courseResult
    /\ course.finished => \A s \in 1..StageCount : saved.stages[s] = 1
    /\ screen.top = "CourseResult" => course.finished

IInv ==
    /\ TypeOK
    /\ RunnerFits
    /\ StagesFit
    /\ CourseFits

\* The body of StartsAsAsked.
StepAsAsked ==
    /\ runner'.status = "Running" /\ runner.status # "Running" =>
          /\ runner.status = "Ready"
          /\ session'.started /\ session'.announced = course.index
          /\ runner.held => runner.pending
          /\ course.index \notin saved.ran
    /\ runner.status = "Finished" /\ runner'.status # "Finished" =>
          course'.index > course.index

-----------------------------------------------------------------------------
(* Types.                                                                  *)

LEMMA SideIsPlayer == \A p \in Sides : p \in Players
  BY PlayAssumption DEF Sides

LEMMA InitFits == Init => IInv
  <1>1. SUFFICES ASSUME Init PROVE IInv
    OBVIOUS
  <1>2. /\ kind \in Kinds
        /\ runner = IF kind = "Arena" THEN ArenaRunner ELSE NewRunner(FALSE)
        /\ course = [index |-> 1, scored |-> FALSE, kept |-> {}, finished |-> FALSE]
        /\ context = [stageResult |-> FALSE, courseResult |-> FALSE]
        /\ session = [phase |-> "playing", announced |-> 0, started |-> FALSE,
                      returned |-> FALSE, waitForFinish |-> TRUE, blocked |-> FALSE,
                      stageResult |-> FALSE, courseResult |-> FALSE]
        /\ flow = [armed |-> FALSE, complete |-> FALSE, attempted |-> FALSE, outro |-> FALSE]
        /\ screen = [top |-> "Gameplay", choosing |-> FALSE]
        /\ posted = {"synchronize", "begin"}
        /\ saved = [stages |-> [s \in 1..Stages |-> 0], course |-> 0, ran |-> {}]
        /\ used = [faults |-> 0, covers |-> 0, choices |-> 0]
    BY <1>1 DEF Init
  <1>3. Stages \in Nat /\ 1 \in 1..Stages /\ 0 \in 0..Stages
        /\ 0 \in 0..MaxFaults /\ 0 \in 0..MaxCovers /\ 0 \in 0..MaxChoices
    BY PlayAssumption
  <1>4. NewRunner(FALSE) \in Runners /\ ArenaRunner \in Runners
    BY SideIsPlayer DEF NewRunner, ArenaRunner, Runners, Parts
  <1>5. TypeOK
    <2>1. runner \in Runners
      BY <1>2, <1>4
    <2>2. course \in [index : 1..Stages, scored : BOOLEAN, kept : SUBSET (1..Stages),
                      finished : BOOLEAN]
      BY <1>2, <1>3
    <2>3. session \in Sessions
      BY <1>2, <1>3 DEF Sessions
    <2>4. saved \in [stages : [1..Stages -> 0..2], course : 0..2, ran : SUBSET (1..Stages)]
      BY <1>2
    <2>5. used \in [faults : 0..MaxFaults, covers : 0..MaxCovers, choices : 0..MaxChoices]
      BY <1>2, <1>3
    <2>6. QED BY <1>2, <2>1, <2>2, <2>3, <2>4, <2>5 DEF TypeOK
  <1>6. RunnerFits
    BY <1>2 DEF RunnerFits, NewRunner, ArenaRunner
  <1>7. StagesFit
    <2>1. 1 <= StageCount
      BY <1>3 DEF StageCount
    <2>2. QED BY <1>2, <1>3, <2>1 DEF StagesFit
  <1>8. CourseFits
    BY <1>2 DEF CourseFits
  <1>9. QED BY <1>5, <1>6, <1>7, <1>8 DEF IInv

LEMMA PostsTyped ==
    ASSUME posted \subseteq {"synchronize", "begin"}, NEW ran,
           NEW added \in SUBSET {"synchronize", "begin"}, Posts(ran, added)
    PROVE  posted' \subseteq {"synchronize", "begin"}
  BY DEF Posts

LEMMA FaultCounted ==
    ASSUME used \in [faults : 0..MaxFaults, covers : 0..MaxCovers, choices : 0..MaxChoices],
           NEW works \in BOOLEAN, ~works => used.faults < MaxFaults,
           used' = [used EXCEPT !.faults = @ + (IF works THEN 0 ELSE 1)]
    PROVE  used' \in [faults : 0..MaxFaults, covers : 0..MaxCovers, choices : 0..MaxChoices]
  <1>1. used.faults \in 0..MaxFaults /\ MaxFaults \in Nat
    BY PlayAssumption
  <1>2. CASE works
    <2>1. used.faults + 0 = used.faults
      BY <1>1
    <2>2. QED BY <1>2, <2>1
  <1>3. CASE ~works
    <2>1. used.faults + 1 \in 0..MaxFaults
      BY <1>1, <1>3
    <2>2. used' = [used EXCEPT !.faults = used.faults + 1]
      BY <1>3
    <2>3. QED BY <2>1, <2>2
  <1>4. QED BY <1>2, <1>3

-----------------------------------------------------------------------------
(* Steps that save nothing.                                                *)

\* Neither the stage, nor the results, nor the scores change; a result is not opened.
LEMMA NothingSaved ==
    ASSUME TypeOK, StagesFit, CourseFits,
           kind' = kind, course' = course, context' = context,
           saved'.stages = saved.stages, saved'.course = saved.course,
           saved.ran \subseteq saved'.ran, saved'.ran \subseteq saved.ran \cup {course.index},
           session'.stageResult = session.stageResult,
           session'.courseResult = session.courseResult,
           screen'.top \in {screen.top, "Gameplay", "Cover", "Gone"}
    PROVE  StagesFit' /\ CourseFits'
  <1>1. course.index \in 1..Stages /\ StageCount' = StageCount
    BY DEF TypeOK, StageCount
  <1>2. StagesFit'
    <2>1. \A s \in saved'.ran : s <= course'.index
      BY <1>1, PlayAssumption DEF StagesFit
    <2>2. \A s \in 1..Stages : saved'.stages[s] = 1 => s \in saved'.ran
      BY DEF StagesFit
    <2>3. screen'.top = "Result" => context'.stageResult
      BY DEF StagesFit
    <2>4. \A s \in 1..Stages :
             saved'.stages[s] = IF s < course'.index \/ (s = course'.index /\ context'.stageResult)
                                THEN 1 ELSE 0
      BY DEF StagesFit
    <2>5. course'.kept = {s \in 1..Stages : saved'.stages[s] = 1}
      BY DEF StagesFit
    <2>6. /\ course'.scored <=> context'.stageResult
          /\ session'.stageResult => context'.stageResult
          /\ course'.index <= StageCount'
      BY <1>1 DEF StagesFit
    <2>7. QED BY <2>1, <2>2, <2>3, <2>4, <2>5, <2>6 DEF StagesFit
  <1>3. CourseFits'
    BY <1>1 DEF CourseFits
  <1>4. QED BY <1>2, <1>3

\* Nor does the runner.
LEMMA RunnerKept ==
    ASSUME RunnerFits, kind' = kind, runner' = runner, course' = course, context' = context,
           saved' = saved,
           session'.started = session.started, session'.announced = session.announced,
           session'.phase = "finishing" =>
              \/ session.phase = "finishing" \/ context.stageResult \/ ~runner.alive
              \/ course.index \in saved.ran,
           flow'.attempted => flow.attempted \/ course.index \in saved.ran
    PROVE  RunnerFits' /\ StepAsAsked
  BY DEF RunnerFits, StepAsAsked

\* Of the scores, Ran changes only which stages have been running.
LEMMA RanFits ==
    ASSUME TypeOK, saved' = Ran
    PROVE  /\ saved' \in [stages : [1..Stages -> 0..2], course : 0..2, ran : SUBSET (1..Stages)]
           /\ saved'.stages = saved.stages /\ saved'.course = saved.course
           /\ saved'.ran = IF runner'.status = "Running" THEN saved.ran \cup {course.index}
                           ELSE saved.ran
  BY DEF TypeOK, Ran

\* Loading a part makes a runner Ready that nobody has asked to start.
LEMMA SetupFits ==
    ASSUME NEW r \in Runners, NEW part \in Players \cup {Bga},
           r.pending => r.status = "Ready"
    PROVE  /\ Setup(r, part) \in Runners
           /\ \/ Setup(r, part).status = r.status
              \/ r.status = "Loading" /\ Setup(r, part).status = "Ready"
           /\ Setup(r, part).pending = r.pending /\ Setup(r, part).held = r.held
           /\ Setup(r, part).alive = r.alive
  <1> DEFINE q == [r EXCEPT !.loaded = @ \cup {part}]
  <1>1. /\ q \in Runners /\ q.status = r.status /\ q.pending = r.pending
        /\ q.held = r.held /\ q.alive = r.alive
    BY DEF Runners
  <1>2. Setup(r, part) = IF q.loaded # Parts \/ q.status # "Loading" \/ ~q.bga THEN q
                         ELSE OnReady([q EXCEPT !.status = "Ready"])
    BY DEF Setup
  <1> HIDE DEF q
  <1>3. CASE q.status = "Loading"
    <2>1. ~q.pending
      BY <1>1, <1>3
    <2>2. OnReady([q EXCEPT !.status = "Ready"]) = [q EXCEPT !.status = "Ready"]
      BY <1>1, <2>1 DEF OnReady, Runners
    <2>3. QED BY <1>1, <1>2, <1>3, <2>2 DEF Runners
  <1>4. CASE q.status # "Loading"
    BY <1>1, <1>2, <1>4
  <1>5. QED BY <1>3, <1>4

\* Steps of the loading.
LEMMA LoadedFits ==
    ASSUME IInv, NEW r \in Runners, NEW part \in Players \cup {Bga},
           r.status = runner.status, r.pending = runner.pending, r.held = runner.held,
           r.alive = runner.alive, runner' = Setup(r, part), saved' = Ran,
           UNCHANGED <<kind, course, context, session, flow, screen>>
    PROVE  RunnerFits' /\ StagesFit' /\ CourseFits' /\ StepAsAsked
  <1>1. r.pending => r.status = "Ready"
    BY DEF IInv, RunnerFits
  <1>2. /\ \/ runner'.status = runner.status
           \/ runner.status = "Loading" /\ runner'.status = "Ready"
        /\ runner'.pending = runner.pending /\ runner'.held = runner.held
        /\ runner'.alive = runner.alive
    BY <1>1, SetupFits
  <1>3. /\ saved'.stages = saved.stages /\ saved'.course = saved.course
        /\ saved'.ran = saved.ran
    <2>1. TypeOK /\ RunnerFits
      BY DEF IInv
    <2>2. /\ saved'.stages = saved.stages /\ saved'.course = saved.course
          /\ saved'.ran = IF runner'.status = "Running" THEN saved.ran \cup {course.index}
                          ELSE saved.ran
      BY <2>1, RanFits
    <2>3. runner'.status = "Running" => course.index \in saved.ran
      BY <1>2, <2>1 DEF RunnerFits
    <2>4. QED BY <2>2, <2>3
  <1>4. RunnerFits' /\ StepAsAsked
    BY <1>2, <1>3 DEF IInv, RunnerFits, StepAsAsked
  <1>5. StagesFit' /\ CourseFits'
    BY <1>3, NothingSaved DEF IInv
  <1>6. QED BY <1>4, <1>5

LEMMA RefereeLoadedFits ==
    ASSUME IInv, NEW p \in Players, RefereeLoaded(p)
    PROVE  IInv' /\ StepAsAsked
  <1>1. /\ runner' = Setup(runner, p) /\ saved' = Ran /\ Posts({}, {})
        /\ UNCHANGED <<kind, course, context, session, flow, screen, used>>
    BY DEF RefereeLoaded
  <1>2. runner \in Runners
    BY DEF IInv, TypeOK
  <1>3. RunnerFits' /\ StagesFit' /\ CourseFits' /\ StepAsAsked
    BY <1>1, <1>2, LoadedFits
  <1>4. TypeOK'
    <2>1. runner' \in Runners
      BY <1>1, <1>2, SetupFits DEF IInv, RunnerFits
    <2>2. saved' \in [stages : [1..Stages -> 0..2], course : 0..2, ran : SUBSET (1..Stages)]
      BY <1>1, RanFits DEF IInv
    <2>3. posted' \subseteq {"synchronize", "begin"}
      BY <1>1, PostsTyped DEF IInv, TypeOK
    <2>4. QED BY <1>1, <2>1, <2>2, <2>3 DEF IInv, TypeOK
  <1>5. QED BY <1>3, <1>4 DEF IInv

LEMMA BgaLoadedFits ==
    ASSUME IInv, BgaLoaded
    PROVE  IInv' /\ StepAsAsked
  <1>1. PICK found \in BOOLEAN :
          /\ ~found => used.faults < MaxFaults
          /\ used' = [used EXCEPT !.faults = @ + (IF found THEN 0 ELSE 1)]
          /\ runner' = Setup([runner EXCEPT !.bga = found], Bga)
    BY DEF BgaLoaded
  <1>2. /\ saved' = Ran /\ Posts({}, {})
        /\ UNCHANGED <<kind, course, context, session, flow, screen>>
    BY DEF BgaLoaded
  <1> DEFINE r == [runner EXCEPT !.bga = found]
  <1>3. /\ r \in Runners /\ r.status = runner.status /\ r.pending = runner.pending
        /\ r.held = runner.held /\ r.alive = runner.alive
    BY DEF IInv, TypeOK, Runners
  <1>4. runner' = Setup(r, Bga)
    BY <1>1
  <1> HIDE DEF r
  <1>5. RunnerFits' /\ StagesFit' /\ CourseFits' /\ StepAsAsked
    BY <1>2, <1>3, <1>4, LoadedFits
  <1>6. TypeOK'
    <2>1. runner' \in Runners
      BY <1>3, <1>4, SetupFits DEF IInv, RunnerFits
    <2>2. saved' \in [stages : [1..Stages -> 0..2], course : 0..2, ran : SUBSET (1..Stages)]
      BY <1>2, RanFits DEF IInv
    <2>3. posted' \subseteq {"synchronize", "begin"}
      BY <1>2, PostsTyped DEF IInv, TypeOK
    <2>4. used' \in [faults : 0..MaxFaults, covers : 0..MaxCovers, choices : 0..MaxChoices]
      BY <1>1, FaultCounted DEF IInv, TypeOK
    <2>5. QED BY <1>2, <2>1, <2>2, <2>3, <2>4 DEF IInv, TypeOK
  <1>7. QED BY <1>5, <1>6 DEF IInv

LEMMA StartReleasedFits ==
    ASSUME IInv, StartReleased
    PROVE  IInv' /\ StepAsAsked
  <1>1. /\ runner' = ReleaseStart(runner) /\ saved' = Ran /\ Posts({}, {})
        /\ runner.held /\ runner.pending /\ runner \in Runners
        /\ UNCHANGED <<kind, course, context, session, flow, screen, used>>
    BY DEF StartReleased, IInv, TypeOK
  <1>2. /\ runner.status = "Ready" /\ session.started /\ session.announced = course.index
        /\ course.index \notin saved.ran
    BY <1>1 DEF IInv, RunnerFits
  <1>3. /\ runner' \in Runners /\ runner'.status = "Running" /\ ~runner'.pending
        /\ runner'.alive = runner.alive
    BY <1>1 DEF ReleaseStart, OnReady, StartNow, Runners
  <1>4. /\ saved'.stages = saved.stages /\ saved'.course = saved.course
        /\ saved'.ran = saved.ran \cup {course.index}
        /\ saved' \in [stages : [1..Stages -> 0..2], course : 0..2, ran : SUBSET (1..Stages)]
    BY <1>1, <1>3, RanFits DEF IInv
  <1>5. RunnerFits' /\ StepAsAsked
    BY <1>1, <1>2, <1>3, <1>4 DEF IInv, RunnerFits, StepAsAsked
  <1>6. StagesFit' /\ CourseFits'
    BY <1>1, <1>4, NothingSaved DEF IInv
  <1>7. TypeOK'
    <2>1. posted' \subseteq {"synchronize", "begin"}
      BY <1>1, PostsTyped DEF IInv, TypeOK
    <2>2. QED BY <1>1, <1>3, <1>4, <2>1 DEF IInv, TypeOK
  <1>8. QED BY <1>5, <1>6, <1>7 DEF IInv

LEMMA UpdateElapsedFits ==
    ASSUME IInv, UpdateElapsed
    PROVE  IInv' /\ StepAsAsked
  <1>1. /\ runner' = [runner EXCEPT !.status = "Finished"] /\ Posts({}, {})
        /\ UNCHANGED <<kind, course, context, session, flow, screen, saved, used>>
    BY DEF UpdateElapsed
  <1>2. runner.status = "Running" /\ runner \in Runners
    BY DEF UpdateElapsed, Status, IInv, TypeOK
  <1>3. /\ runner' \in Runners /\ runner'.status = "Finished"
        /\ runner'.pending = runner.pending /\ runner'.alive = runner.alive
    BY <1>1, <1>2 DEF Runners
  <1>4. RunnerFits' /\ StepAsAsked
    BY <1>1, <1>2, <1>3 DEF IInv, RunnerFits, StepAsAsked
  <1>5. StagesFit' /\ CourseFits'
    BY <1>1, NothingSaved DEF IInv
  <1>6. TypeOK'
    <2>1. posted' \subseteq {"synchronize", "begin"}
      BY <1>1, PostsTyped DEF IInv, TypeOK
    <2>2. QED BY <1>1, <1>3, <2>1 DEF IInv, TypeOK
  <1>7. QED BY <1>4, <1>5, <1>6 DEF IInv

\* A step that moves only what the player and the theme do: the flow, the screen and
\* the phase of the session.
LEMMA PlayerStepFits ==
    ASSUME IInv, TypeOK', UNCHANGED <<kind, runner, course, context, saved>>,
           session'.started = session.started, session'.announced = session.announced,
           session'.stageResult = session.stageResult,
           session'.courseResult = session.courseResult,
           screen'.top \in {screen.top, "Gameplay", "Cover", "Gone"},
           session'.phase = "finishing" =>
              \/ session.phase = "finishing" \/ context.stageResult \/ ~runner.alive
              \/ course.index \in saved.ran,
           flow'.attempted => flow.attempted \/ course.index \in saved.ran
    PROVE  IInv' /\ StepAsAsked
  <1>1. RunnerFits' /\ StepAsAsked
    BY RunnerKept DEF IInv
  <1>2. StagesFit' /\ CourseFits'
    BY NothingSaved DEF IInv
  <1>3. QED BY <1>1, <1>2 DEF IInv

LEMMA HitFits ==
    ASSUME IInv, Hit
    PROVE  IInv' /\ StepAsAsked
  <1>1. /\ flow' = [flow EXCEPT !.attempted = TRUE]
        /\ UNCHANGED <<kind, runner, course, context, session, screen, posted, saved, used>>
    BY DEF Hit
  <1>2. course.index \in saved.ran
    BY DEF Hit, Status, IInv, RunnerFits
  <1>3. TypeOK'
    BY <1>1 DEF IInv, TypeOK
  <1>4. QED BY <1>1, <1>2, <1>3, PlayerStepFits

LEMMA ResetStartupFits ==
    ASSUME NEW f \in [armed : BOOLEAN, complete : BOOLEAN, attempted : BOOLEAN,
                      outro : BOOLEAN]
    PROVE  /\ ResetStartup(f) \in [armed : BOOLEAN, complete : BOOLEAN, attempted : BOOLEAN,
                                   outro : BOOLEAN]
           /\ ResetStartup(f).attempted = f.attempted
  BY DEF ResetStartup

LEMMA LeaveFits ==
    ASSUME IInv, Leave,
           used' \in [faults : 0..MaxFaults, covers : 0..MaxCovers, choices : 0..MaxChoices]
    PROVE  IInv' /\ StepAsAsked
  <1>1. /\ session' = [session EXCEPT !.phase = "leaving"]
        /\ screen' = [top |-> "Gone", choosing |-> FALSE]
        /\ posted' = {}
        /\ UNCHANGED <<kind, runner, course, context, flow, saved>>
    BY DEF Leave
  <1>2. /\ session' \in Sessions /\ session'.phase = "leaving"
        /\ session'.started = session.started /\ session'.announced = session.announced
        /\ session'.stageResult = session.stageResult
        /\ session'.courseResult = session.courseResult
    BY <1>1 DEF IInv, TypeOK, Sessions
  <1>3. TypeOK'
    BY <1>1, <1>2 DEF IInv, TypeOK
  <1>4. QED BY <1>1, <1>2, <1>3, PlayerStepFits

LEMMA FlowStepsFit ==
    ASSUME IInv, Begin \/ StartupCompletes \/ OutroEnds
    PROVE  IInv' /\ StepAsAsked
  <1>1. /\ flow' \in {flow, [flow EXCEPT !.armed = TRUE], [flow EXCEPT !.complete = TRUE],
                      [flow EXCEPT !.outro = FALSE]}
        /\ UNCHANGED <<kind, runner, course, context, session, screen, saved, used>>
    BY DEF Begin, StartupCompletes, OutroEnds
  <1>2. Posts({"begin"}, {}) \/ Posts({}, {})
    BY DEF Begin, StartupCompletes, OutroEnds
  <1>3. flow' \in [armed : BOOLEAN, complete : BOOLEAN, attempted : BOOLEAN, outro : BOOLEAN]
        /\ flow'.attempted = flow.attempted
    BY <1>1 DEF IInv, TypeOK
  <1>4. posted' \subseteq {"synchronize", "begin"}
    BY <1>2, PostsTyped DEF IInv, TypeOK
  <1>5. TypeOK'
    BY <1>1, <1>3, <1>4 DEF IInv, TypeOK
  <1>6. QED BY <1>1, <1>3, <1>5, PlayerStepFits

\* The player ends a stage only when it has been played.
LEMMA ExitFits ==
    ASSUME IInv, Exit
    PROVE  IInv' /\ StepAsAsked
  <1>1. CASE Leave
    BY <1>1, LeaveFits DEF Exit, IInv, TypeOK
  <1>2. CASE /\ session.blocked
             /\ session' = [session EXCEPT !.blocked = FALSE]
             /\ UNCHANGED <<runner, course, context, flow, screen, saved>>
             /\ Posts({}, {"synchronize"})
    <2>1. /\ session' \in Sessions /\ session'.phase = session.phase
          /\ session'.started = session.started /\ session'.announced = session.announced
          /\ session'.stageResult = session.stageResult
          /\ session'.courseResult = session.courseResult
      BY <1>2 DEF IInv, TypeOK, Sessions
    <2>2. posted' \subseteq {"synchronize", "begin"}
      BY <1>2, PostsTyped DEF IInv, TypeOK
    <2>3. UNCHANGED <<kind, used>>
      BY DEF Exit
    <2>4. TypeOK'
      BY <1>2, <2>1, <2>2, <2>3 DEF IInv, TypeOK
    <2>5. QED BY <1>2, <2>1, <2>3, <2>4, PlayerStepFits
  <1>3. CASE /\ IF kind = "Arena" THEN ~Ready ELSE flow.attempted \/ Finished
             /\ session' = [session EXCEPT !.phase = "finishing", !.waitForFinish = FALSE]
             /\ UNCHANGED <<runner, course, context, flow, screen, saved>>
             /\ Posts({}, {"synchronize"})
    <2>1. /\ session' \in Sessions
          /\ session'.started = session.started /\ session'.announced = session.announced
          /\ session'.stageResult = session.stageResult
          /\ session'.courseResult = session.courseResult
      BY <1>3 DEF IInv, TypeOK, Sessions
    <2>2. ~runner.alive \/ course.index \in saved.ran
      <3>1. runner \in Runners
        BY DEF IInv, TypeOK
      <3>2. QED BY <1>3, <3>1 DEF IInv, RunnerFits, Runners, Ready, Finished, Status
    <2>3. posted' \subseteq {"synchronize", "begin"}
      BY <1>3, PostsTyped DEF IInv, TypeOK
    <2>4. UNCHANGED <<kind, used>>
      BY DEF Exit
    <2>5. TypeOK'
      BY <1>3, <2>1, <2>3, <2>4 DEF IInv, TypeOK
    <2>6. QED BY <1>3, <2>1, <2>2, <2>4, <2>5, PlayerStepFits
  <1>4. QED BY <1>1, <1>2, <1>3 DEF Exit

LEMMA RetryStepsFit ==
    ASSUME IInv, ChooseRetry \/ CancelRetry \/ Retry
    PROVE  IInv' /\ StepAsAsked
  <1>1. CASE Retry
    BY <1>1, LeaveFits DEF Retry, IInv, TypeOK
  <1>2. CASE ChooseRetry \/ CancelRetry
    <2>1. /\ screen' \in {[screen EXCEPT !.choosing = TRUE], [screen EXCEPT !.choosing = FALSE]}
          /\ Posts({}, {})
          /\ UNCHANGED <<kind, runner, course, context, session, flow, saved>>
      BY <1>2 DEF ChooseRetry, CancelRetry
    <2>2. screen' \in [top : {"Gameplay", "Cover", "Result", "CourseResult", "Gone"},
                       choosing : BOOLEAN] /\ screen'.top = screen.top
      BY <2>1 DEF IInv, TypeOK
    <2>3. used' \in [faults : 0..MaxFaults, covers : 0..MaxCovers, choices : 0..MaxChoices]
      <3>1. CASE ChooseRetry
        <4>1. used.choices + 1 \in 0..MaxChoices
          BY <3>1, PlayAssumption DEF ChooseRetry, IInv, TypeOK
        <4>2. used' = [used EXCEPT !.choices = used.choices + 1]
          BY <3>1 DEF ChooseRetry
        <4>3. QED BY <4>1, <4>2 DEF IInv, TypeOK
      <3>2. CASE CancelRetry
        BY <3>2 DEF CancelRetry, IInv, TypeOK
      <3>3. QED BY <1>2, <3>1, <3>2
    <2>4. posted' \subseteq {"synchronize", "begin"}
      BY <2>1, PostsTyped DEF IInv, TypeOK
    <2>5. TypeOK'
      BY <2>1, <2>2, <2>3, <2>4 DEF IInv, TypeOK
    <2>6. QED BY <2>1, <2>2, <2>5, PlayerStepFits
  <1>3. QED BY <1>1, <1>2

LEMMA ScreenStepsFit ==
    ASSUME IInv, Cover \/ CloseScreen
    PROVE  IInv' /\ StepAsAsked
  <1>1. /\ Posts({}, {}) /\ flow' \in {flow, ResetStartup(flow)}
        /\ screen' \in {[top |-> "Cover", choosing |-> FALSE], [screen EXCEPT !.top = "Gameplay"]}
        /\ UNCHANGED <<kind, runner, course, context, session, saved>>
    BY DEF Cover, CloseScreen
  <1>2. /\ screen' \in [top : {"Gameplay", "Cover", "Result", "CourseResult", "Gone"},
                        choosing : BOOLEAN]
        /\ screen'.top \in {"Gameplay", "Cover"}
    <2>1. CASE screen' = [top |-> "Cover", choosing |-> FALSE]
      BY <2>1
    <2>2. CASE screen' = [screen EXCEPT !.top = "Gameplay"]
      BY <2>2 DEF IInv, TypeOK
    <2>3. QED BY <1>1, <2>1, <2>2
  <1>3. flow' \in [armed : BOOLEAN, complete : BOOLEAN, attempted : BOOLEAN, outro : BOOLEAN]
        /\ flow'.attempted = flow.attempted
    BY <1>1, ResetStartupFits DEF IInv, TypeOK
  <1>4. used' \in [faults : 0..MaxFaults, covers : 0..MaxCovers, choices : 0..MaxChoices]
    <2>1. CASE Cover
      <3>1. used.covers + 1 \in 0..MaxCovers
        BY <2>1, PlayAssumption DEF Cover, IInv, TypeOK
      <3>2. used' = [used EXCEPT !.covers = used.covers + 1]
        BY <2>1 DEF Cover
      <3>3. QED BY <3>1, <3>2 DEF IInv, TypeOK
    <2>2. CASE CloseScreen
      BY <2>2 DEF CloseScreen, IInv, TypeOK
    <2>3. QED BY <2>1, <2>2
  <1>5. posted' \subseteq {"synchronize", "begin"}
    BY <1>1, PostsTyped DEF IInv, TypeOK
  <1>6. TypeOK'
    BY <1>1, <1>2, <1>3, <1>4, <1>5 DEF IInv, TypeOK
  <1>7. QED BY <1>1, <1>2, <1>3, <1>6, PlayerStepFits

LEMMA ArenaCancelsFits ==
    ASSUME IInv, ArenaCancels
    PROVE  IInv' /\ StepAsAsked
  <1>1. CASE Leave
    BY <1>1, LeaveFits DEF ArenaCancels, IInv, TypeOK
  <1>2. CASE /\ runner' = [runner EXCEPT !.alive = FALSE]
             /\ UNCHANGED <<kind, course, context, session, flow, screen, saved>>
             /\ Posts({}, {})
    <2>1. /\ runner' \in Runners /\ runner'.status = runner.status /\ ~runner'.alive
          /\ runner'.pending = runner.pending /\ runner'.held = runner.held
      BY <1>2 DEF IInv, TypeOK, Runners
    <2>2. RunnerFits' /\ StepAsAsked
      BY <1>2, <2>1 DEF IInv, RunnerFits, StepAsAsked, ArenaCancels
    <2>3. StagesFit' /\ CourseFits'
      BY <1>2, NothingSaved DEF IInv
    <2>4. posted' \subseteq {"synchronize", "begin"}
      BY <1>2, PostsTyped DEF IInv, TypeOK
    <2>5. TypeOK'
      BY <1>2, <2>1, <2>4 DEF IInv, TypeOK, ArenaCancels
    <2>6. QED BY <2>2, <2>3, <2>5 DEF IInv
  <1>3. QED BY <1>1, <1>2 DEF ArenaCancels

-----------------------------------------------------------------------------
(* The results.                                                            *)

\* The presentation of a result screen, or its failure.
LEMMA OpensFits ==
    ASSUME TypeOK, NEW opened \in BOOLEAN, NEW top \in {"Result", "CourseResult"},
           Opens(opened, top)
    PROVE  /\ screen' \in [top : {"Gameplay", "Cover", "Result", "CourseResult", "Gone"},
                           choosing : BOOLEAN]
           /\ screen'.top \in {screen.top, top}
           /\ used' \in [faults : 0..MaxFaults, covers : 0..MaxCovers, choices : 0..MaxChoices]
  <1>1. /\ ~opened => used.faults < MaxFaults
        /\ used' = [used EXCEPT !.faults = @ + (IF opened THEN 0 ELSE 1)]
        /\ screen' = IF opened THEN [screen EXCEPT !.top = top] ELSE screen
    BY DEF Opens
  <1>2. used' \in [faults : 0..MaxFaults, covers : 0..MaxCovers, choices : 0..MaxChoices]
    BY <1>1, FaultCounted DEF TypeOK
  <1>3. CASE opened
    BY <1>1, <1>2, <1>3 DEF TypeOK
  <1>4. CASE ~opened
    BY <1>1, <1>2, <1>4 DEF TypeOK
  <1>5. QED BY <1>3, <1>4

\* What FinishStage does to the runner and the scores: nothing once there is a result,
\* and else it saves the stage.
LEMMA FinishStageFits ==
    ASSUME IInv, NEW s, s.stageResult = session.stageResult, StageHasResult(s),
           context.stageResult \/ ~runner.alive \/ course.index \in saved.ran,
           FinishStage(s)
    PROVE  /\ runner' \in Runners
           /\ runner' = runner \/ (runner'.status = "Finished" /\ ~runner'.pending)
           /\ runner'.alive = runner.alive
           /\ course' \in [index : 1..Stages, scored : BOOLEAN, kept : SUBSET (1..Stages),
                           finished : BOOLEAN]
           /\ course'.index = course.index /\ course'.finished = course.finished
           /\ course'.scored
           /\ course'.kept = course.kept \cup {course.index}
           /\ saved' \in [stages : [1..Stages -> 0..2], course : 0..2, ran : SUBSET (1..Stages)]
           /\ saved'.stages = [saved.stages EXCEPT ![course.index] = 1]
           /\ saved'.course = saved.course /\ saved'.ran = saved.ran
           /\ course.index \in saved.ran
  <1>1. /\ TypeOK /\ StagesFit /\ course.index \in 1..Stages
    BY DEF IInv, TypeOK
  <1>2. saved.stages[course.index] = IF context.stageResult THEN 1 ELSE 0
    BY <1>1, PlayAssumption DEF StagesFit
  <1>3. CASE context.stageResult
    <2>1. UNCHANGED <<runner, course, saved>>
      BY <1>3 DEF FinishStage, SavesStage
    <2>2. saved.stages[course.index] = 1 /\ course.index \in course.kept
      BY <1>1, <1>2, <1>3 DEF StagesFit
    <2>3. course.index \in saved.ran /\ course.scored
      BY <1>1, <1>3, <2>2 DEF StagesFit
    <2>4. saved.stages = [saved.stages EXCEPT ![course.index] = 1]
      BY <1>1, <2>2 DEF TypeOK
    <2>5. /\ runner \in Runners
          /\ course \in [index : 1..Stages, scored : BOOLEAN, kept : SUBSET (1..Stages),
                         finished : BOOLEAN]
          /\ saved \in [stages : [1..Stages -> 0..2], course : 0..2, ran : SUBSET (1..Stages)]
      BY <1>1 DEF TypeOK
    <2>6. course.kept = course.kept \cup {course.index}
      BY <2>2
    <2>7. QED BY <2>1, <2>3, <2>4, <2>5, <2>6
  <1>4. CASE ~context.stageResult
    <2>1. SavesStage(s)
      BY <1>1, <1>4 DEF StagesFit, SavesStage
    <2>2. runner.alive
      BY <1>1, <1>4, <2>1 DEF StageHasResult, SavesStage
    <2>3. course.index \in saved.ran
      BY <1>4, <2>2
    <2>4. /\ runner' = FinishRunner(runner)
          /\ course' = [course EXCEPT !.scored = TRUE, !.kept = @ \cup {course.index}]
          /\ saved' = [saved EXCEPT !.stages[course.index] = @ + 1]
      BY <2>1 DEF FinishStage, SaveScores
    <2>5. /\ runner' \in Runners /\ runner'.status = "Finished" /\ ~runner'.pending
          /\ runner'.alive = runner.alive
      BY <1>1, <2>4 DEF TypeOK, FinishRunner, Runners
    <2>6. /\ course' \in [index : 1..Stages, scored : BOOLEAN, kept : SUBSET (1..Stages),
                          finished : BOOLEAN]
          /\ course'.index = course.index /\ course'.finished = course.finished
          /\ course'.scored /\ course'.kept = course.kept \cup {course.index}
      BY <1>1, <2>4 DEF TypeOK
    <2>7. saved' = [saved EXCEPT !.stages = [saved.stages EXCEPT ![course.index] = 1]]
      <3>1. saved.stages[course.index] + 1 = 1
        BY <1>2, <1>4
      <3>2. QED BY <1>1, <2>4, <3>1 DEF TypeOK
    <2>8. /\ saved' \in [stages : [1..Stages -> 0..2], course : 0..2, ran : SUBSET (1..Stages)]
          /\ saved'.stages = [saved.stages EXCEPT ![course.index] = 1]
          /\ saved'.course = saved.course /\ saved'.ran = saved.ran
      <3> DEFINE f == [saved.stages EXCEPT ![course.index] = 1]
      <3>1. saved \in [stages : [1..Stages -> 0..2], course : 0..2, ran : SUBSET (1..Stages)]
        BY <1>1 DEF TypeOK
      <3>2. 1 \in 0..2 /\ saved.stages \in [1..Stages -> 0..2]
        BY <3>1
      <3>3. f \in [1..Stages -> 0..2]
        BY <3>2
      <3>4. saved' = [saved EXCEPT !.stages = f]
        BY <2>7
      <3> HIDE DEF f
      <3>5. saved' \in [stages : [1..Stages -> 0..2], course : 0..2, ran : SUBSET (1..Stages)]
            /\ saved'.stages = f /\ saved'.course = saved.course /\ saved'.ran = saved.ran
        BY <3>1, <3>3, <3>4
      <3>6. QED BY <3>5 DEF f
    <2>9. QED BY <2>3, <2>5, <2>6, <2>8
  <1>5. QED BY <1>3, <1>4

LEMMA PresentStageFits ==
    ASSUME IInv, NEW s \in Sessions, s.phase = "finishing",
           s.started = session.started, s.announced = session.announced,
           s.stageResult = session.stageResult, s.courseResult = session.courseResult,
           context.stageResult \/ ~runner.alive \/ course.index \in saved.ran,
           screen.top = "Gameplay", kind' = kind, posted' \subseteq {"synchronize", "begin"},
           PresentStage(s)
    PROVE  IInv' /\ StepAsAsked
  <1>1. TypeOK /\ RunnerFits /\ StagesFit /\ CourseFits
        /\ course.index \in 1..Stages /\ course.index \in Nat
    BY PlayAssumption DEF IInv, TypeOK
  <1>2. /\ flow' \in [armed : BOOLEAN, complete : BOOLEAN, attempted : BOOLEAN, outro : BOOLEAN]
        /\ flow'.attempted = flow.attempted
    BY <1>1, ResetStartupFits DEF PresentStage, TypeOK
  <1>3. CASE ~StageHasResult(s)
    <2>1. /\ session' = [s EXCEPT !.blocked = TRUE]
          /\ UNCHANGED <<runner, course, context, saved, screen, used>>
      BY <1>3 DEF PresentStage
    <2>2. /\ session' \in Sessions
          /\ session'.started = session.started /\ session'.announced = session.announced
          /\ session'.stageResult = session.stageResult
          /\ session'.courseResult = session.courseResult
      BY <2>1 DEF Sessions
    <2>3. TypeOK'
      BY <1>1, <1>2, <2>1, <2>2 DEF TypeOK
    <2>4. QED BY <1>2, <2>1, <2>2, <2>3, PlayerStepFits
  <1>4. CASE StageHasResult(s)
    <2>1. FinishStage(s) /\ context' = [context EXCEPT !.stageResult = TRUE]
      BY <1>4 DEF PresentStage
    <2>2. PICK opened \in BOOLEAN :
             /\ Opens(opened, "Result")
             /\ session' = [s EXCEPT !.stageResult = TRUE,
                                !.phase = IF opened THEN "stageResult" ELSE "finishing",
                                !.returned = opened, !.blocked = ~opened]
      BY <1>4 DEF PresentStage
    <2>3. /\ runner' \in Runners
          /\ runner' = runner \/ (runner'.status = "Finished" /\ ~runner'.pending)
          /\ runner'.alive = runner.alive
          /\ course' \in [index : 1..Stages, scored : BOOLEAN, kept : SUBSET (1..Stages),
                          finished : BOOLEAN]
          /\ course'.index = course.index /\ course'.finished = course.finished
          /\ course'.scored
          /\ course'.kept = course.kept \cup {course.index}
          /\ saved' \in [stages : [1..Stages -> 0..2], course : 0..2, ran : SUBSET (1..Stages)]
          /\ saved'.stages = [saved.stages EXCEPT ![course.index] = 1]
          /\ saved'.course = saved.course /\ saved'.ran = saved.ran
          /\ course.index \in saved.ran
      BY <1>4, <2>1, FinishStageFits
    <2>4. /\ context' \in [stageResult : BOOLEAN, courseResult : BOOLEAN]
          /\ context'.stageResult /\ context'.courseResult = context.courseResult
      BY <1>1, <2>1 DEF TypeOK
    <2>5. /\ session' \in Sessions
          /\ session'.started = session.started /\ session'.announced = session.announced
          /\ session'.courseResult = session.courseResult
      BY <2>2 DEF Sessions
    <2>6. /\ screen' \in [top : {"Gameplay", "Cover", "Result", "CourseResult", "Gone"},
                          choosing : BOOLEAN]
          /\ screen'.top \in {"Gameplay", "Result"}
          /\ used' \in [faults : 0..MaxFaults, covers : 0..MaxCovers, choices : 0..MaxChoices]
      BY <1>1, <2>2, OpensFits
    <2>7. TypeOK'
      BY <1>1, <1>2, <2>3, <2>4, <2>5, <2>6 DEF TypeOK
    <2>8. RunnerFits' /\ StepAsAsked
      BY <1>1, <1>2, <2>3, <2>4, <2>5 DEF RunnerFits, StepAsAsked
    <2>9. StageCount' = StageCount
      BY DEF StageCount
    <2>10. StagesFit'
      <3>1. \A t \in 1..Stages : saved'.stages[t] = IF t = course.index THEN 1
                                                    ELSE saved.stages[t]
        <4>1. saved.stages \in [1..Stages -> 0..2]
          BY <1>1 DEF TypeOK
        <4>2. saved'.stages = [saved.stages EXCEPT ![course.index] = 1]
          BY <2>3
        <4>3. QED BY <4>1, <4>2
      <3>2. \A t \in 1..Stages :
               saved'.stages[t] = IF t < course'.index \/ (t = course'.index
                                     /\ context'.stageResult) THEN 1 ELSE 0
        BY <1>1, <2>3, <2>4, <3>1 DEF StagesFit
      <3>3. \A t \in 1..Stages : saved'.stages[t] = 1 => t \in saved'.ran
        BY <1>1, <2>3, <3>1 DEF StagesFit
      <3>4. course'.kept = {t \in 1..Stages : saved'.stages[t] = 1}
        <4>1. course.kept = {t \in 1..Stages : saved.stages[t] = 1}
          BY <1>1 DEF StagesFit
        <4>2. QED BY <1>1, <2>3, <3>1, <4>1
      <3>5. /\ \A t \in saved'.ran : t <= course'.index
            /\ course'.index <= StageCount'
        BY <1>1, <2>3, <2>9 DEF StagesFit
      <3>6. QED BY <2>3, <2>4, <3>2, <3>3, <3>4, <3>5 DEF StagesFit
    <2>11. CourseFits'
      <3>1. course'.finished => \A t \in 1..StageCount' : saved'.stages[t] = 1
        <4>1. \A t \in 1..StageCount : t \in 1..Stages
          BY PlayAssumption DEF StageCount
        <4>2. QED BY <1>1, <2>3, <2>9, <4>1 DEF CourseFits, TypeOK
      <3>2. QED BY <1>1, <2>3, <2>4, <2>5, <2>6, <3>1 DEF CourseFits
    <2>12. QED BY <2>7, <2>8, <2>10, <2>11 DEF IInv
  <1>5. QED BY <1>3, <1>4

\* The course is saved with all of its stages.
LEMMA PresentCourseFits ==
    ASSUME IInv, screen.top = "Gameplay", kind' = kind,
           session.phase = "stageResult", posted' \subseteq {"synchronize", "begin"},
           PresentCourse
    PROVE  IInv' /\ StepAsAsked
  <1>1. TypeOK /\ RunnerFits /\ StagesFit /\ CourseFits
    BY DEF IInv
  <1>2. /\ CourseHasResult /\ FinishCourse
        /\ context' = [context EXCEPT !.courseResult = TRUE]
        /\ UNCHANGED <<runner, flow>>
    BY DEF PresentCourse
  <1>3. PICK opened \in BOOLEAN :
          /\ Opens(opened, "CourseResult")
          /\ session' = [session EXCEPT !.courseResult = TRUE, !.returned = TRUE,
                             !.phase = IF opened THEN "courseResult" ELSE "stageResult",
                             !.blocked = ~opened]
    BY DEF PresentCourse
  <1>4. \A t \in 1..StageCount : saved.stages[t] = 1
    BY <1>1, <1>2 DEF CourseHasResult, CourseFits, StagesFit
  <1>5. /\ course' \in [index : 1..Stages, scored : BOOLEAN, kept : SUBSET (1..Stages),
                        finished : BOOLEAN]
        /\ course'.index = course.index /\ course'.finished
        /\ course'.scored = course.scored /\ course'.kept = course.kept
        /\ saved' \in [stages : [1..Stages -> 0..2], course : 0..2, ran : SUBSET (1..Stages)]
        /\ saved'.stages = saved.stages /\ saved'.ran = saved.ran /\ saved'.course = 1
    <2>1. CASE SavesCourse
      <3>1. saved.course = 0
        BY <1>1, <2>1 DEF SavesCourse, CourseFits
      <3>2. /\ course' = [course EXCEPT !.finished = TRUE]
            /\ saved' = [saved EXCEPT !.course = 1]
        BY <1>2, <2>1, <3>1 DEF FinishCourse
      <3>3. /\ course \in [index : 1..Stages, scored : BOOLEAN, kept : SUBSET (1..Stages),
                           finished : BOOLEAN]
            /\ saved \in [stages : [1..Stages -> 0..2], course : 0..2, ran : SUBSET (1..Stages)]
            /\ 1 \in 0..2
        BY <1>1 DEF TypeOK
      <3>4. /\ course' \in [index : 1..Stages, scored : BOOLEAN, kept : SUBSET (1..Stages),
                            finished : BOOLEAN]
            /\ course'.index = course.index /\ course'.finished
            /\ course'.scored = course.scored /\ course'.kept = course.kept
        BY <3>2, <3>3
      <3>5. /\ saved' \in [stages : [1..Stages -> 0..2], course : 0..2, ran : SUBSET (1..Stages)]
            /\ saved'.stages = saved.stages /\ saved'.ran = saved.ran /\ saved'.course = 1
        BY <3>2, <3>3
      <3>6. QED BY <3>4, <3>5
    <2>2. CASE ~SavesCourse
      <3>1. course.finished /\ saved.course = 1
        BY <1>1, <2>2 DEF SavesCourse, CourseFits
      <3>2. QED BY <1>1, <1>2, <2>2, <3>1 DEF FinishCourse, TypeOK
    <2>3. QED BY <2>1, <2>2
  <1>6. /\ context' \in [stageResult : BOOLEAN, courseResult : BOOLEAN]
        /\ context'.courseResult /\ context'.stageResult = context.stageResult
    BY <1>1, <1>2 DEF TypeOK
  <1>7. /\ session' \in Sessions /\ session'.phase # "finishing"
        /\ session'.started = session.started /\ session'.announced = session.announced
        /\ session'.stageResult = session.stageResult
    BY <1>1, <1>3 DEF TypeOK, Sessions
  <1>8. /\ screen' \in [top : {"Gameplay", "Cover", "Result", "CourseResult", "Gone"},
                        choosing : BOOLEAN]
        /\ screen'.top \in {"Gameplay", "CourseResult"}
        /\ used' \in [faults : 0..MaxFaults, covers : 0..MaxCovers, choices : 0..MaxChoices]
    BY <1>1, <1>3, OpensFits
  <1>9. TypeOK'
    BY <1>1, <1>2, <1>5, <1>6, <1>7, <1>8 DEF TypeOK
  <1>10. RunnerFits' /\ StepAsAsked
    BY <1>1, <1>2, <1>5, <1>6, <1>7 DEF RunnerFits, StepAsAsked
  <1>11. StageCount' = StageCount
    BY DEF StageCount
  <1>12. StagesFit'
    BY <1>1, <1>5, <1>6, <1>7, <1>8, <1>11 DEF StagesFit
  <1>13. CourseFits'
    BY <1>4, <1>5, <1>6, <1>11 DEF CourseFits
  <1>14. QED BY <1>9, <1>10, <1>12, <1>13 DEF IInv
-----------------------------------------------------------------------------
(* synchronize.                                                            *)

\* A new stage: a new runner, of a stage that has not been running.
LEMMA NextStageFits ==
    ASSUME IInv, HasNextStage, NextStage, screen.top = "Gameplay", kind' = kind,
           posted' \subseteq {"synchronize", "begin"}
    PROVE  IInv' /\ StepAsAsked
  <1>1. TypeOK /\ RunnerFits /\ StagesFit /\ CourseFits
    BY DEF IInv
  <1>2. /\ kind = "Course" /\ StageCount = Stages /\ StageCount' = Stages
        /\ course.index \in Nat /\ course.index < Stages /\ Stages \in Nat
        /\ course.index + 1 \in 1..Stages
    BY <1>1, PlayAssumption DEF HasNextStage, StageCount, TypeOK
  <1>3. context.stageResult /\ UNCHANGED <<screen, saved, used>>
    BY DEF NextStage
  <1>4. /\ runner' \in Runners /\ runner'.status = "Loading" /\ ~runner'.pending
        /\ runner'.alive
    BY DEF NextStage, NewRunner, Runners
  <1>5. /\ course' \in [index : 1..Stages, scored : BOOLEAN, kept : SUBSET (1..Stages),
                        finished : BOOLEAN]
        /\ course'.index = course.index + 1 /\ ~course'.scored
        /\ course'.kept = course.kept /\ course'.finished = course.finished
    <2>1. course' = [course EXCEPT !.index = course.index + 1, !.scored = FALSE]
      BY DEF NextStage
    <2>2. course \in [index : 1..Stages, scored : BOOLEAN, kept : SUBSET (1..Stages),
                      finished : BOOLEAN]
      BY <1>1 DEF TypeOK
    <2>3. QED BY <1>2, <2>1, <2>2
  <1>6. /\ context' \in [stageResult : BOOLEAN, courseResult : BOOLEAN]
        /\ ~context'.stageResult /\ context'.courseResult = context.courseResult
    BY <1>1 DEF NextStage, TypeOK
  <1>7. /\ session' \in Sessions /\ session'.phase = "playing" /\ ~session'.stageResult
        /\ session'.courseResult = session.courseResult
    <2>1. course'.index \in 0..Stages
      BY <1>2, <1>5
    <2>2. session \in Sessions
      BY <1>1 DEF TypeOK
    <2>3. QED BY <2>1, <2>2 DEF NextStage, Sessions
  <1>8. /\ flow' \in [armed : BOOLEAN, complete : BOOLEAN, attempted : BOOLEAN,
                      outro : BOOLEAN]
        /\ ~flow'.attempted
    BY <1>1 DEF NextStage, NextFlow, ResetStartup, TypeOK
  <1>9. TypeOK'
    BY <1>1, <1>3, <1>4, <1>5, <1>6, <1>7, <1>8 DEF TypeOK
  <1>10. course'.index \notin saved.ran
    BY <1>1, <1>2, <1>5 DEF StagesFit
  <1>11. RunnerFits'
    BY <1>2, <1>3, <1>4, <1>7, <1>8, <1>10 DEF RunnerFits
  <1>12. StepAsAsked
    BY <1>2, <1>4, <1>5 DEF StepAsAsked
  <1>13. StagesFit'
    <2>1. \A t \in 1..Stages :
             saved'.stages[t] = IF t < course'.index \/ (t = course'.index
                                   /\ context'.stageResult) THEN 1 ELSE 0
      BY <1>1, <1>2, <1>3, <1>5, <1>6 DEF StagesFit
    <2>2. \A t \in saved'.ran : t <= course'.index
      BY <1>1, <1>2, <1>3, <1>5 DEF StagesFit, TypeOK
    <2>3. /\ \A t \in 1..Stages : saved'.stages[t] = 1 => t \in saved'.ran
          /\ course'.kept = {t \in 1..Stages : saved'.stages[t] = 1}
      BY <1>1, <1>3, <1>5 DEF StagesFit
    <2>4. course'.index <= StageCount'
      BY <1>2, <1>5
    <2>5. QED BY <1>3, <1>5, <1>6, <1>7, <2>1, <2>2, <2>3, <2>4 DEF StagesFit
  <1>14. CourseFits'
    BY <1>1, <1>2, <1>3, <1>5, <1>6, <1>7 DEF CourseFits
  <1>15. QED BY <1>9, <1>11, <1>12, <1>13, <1>14 DEF IInv

\* The stage starts: the runner is ready, so it has not been running.
LEMMA StartFits ==
    ASSUME IInv, session.announced = course.index,
           session' = [session EXCEPT !.started = @ \/ Starts],
           runner' = IF Starts THEN Start(runner) ELSE runner,
           saved' = Ran, UNCHANGED <<kind, course, context, flow, screen, used>>,
           posted' \subseteq {"synchronize", "begin"}
    PROVE  IInv' /\ StepAsAsked
  <1>1. TypeOK /\ RunnerFits /\ StagesFit /\ CourseFits /\ runner \in Runners
    BY DEF IInv, TypeOK
  <1>2. /\ session' \in Sessions /\ session'.phase = session.phase
        /\ session'.announced = session.announced
        /\ session'.stageResult = session.stageResult
        /\ session'.courseResult = session.courseResult
        /\ session'.started = (session.started \/ Starts)
    <2>1. session \in Sessions /\ (session.started \/ Starts) \in BOOLEAN
      BY <1>1 DEF TypeOK, Sessions
    <2> HIDE DEF Starts
    <2>2. QED BY <2>1 DEF Sessions
  <1>3. /\ saved' \in [stages : [1..Stages -> 0..2], course : 0..2, ran : SUBSET (1..Stages)]
        /\ saved'.stages = saved.stages /\ saved'.course = saved.course
        /\ saved'.ran = IF runner'.status = "Running" THEN saved.ran \cup {course.index}
                        ELSE saved.ran
    BY <1>1, RanFits
  <1>4. StagesFit' /\ CourseFits'
    BY <1>1, <1>2, <1>3, NothingSaved
  <1>5. CASE Starts
    <2>1. runner.alive /\ runner.status = "Ready" /\ session'.started
      BY <1>2, <1>5 DEF Starts, Ready, Status
    <2>2. course.index \notin saved.ran
      BY <1>1, <2>1 DEF RunnerFits
    <2>3. runner' = IF runner.held THEN [runner EXCEPT !.pending = TRUE]
                    ELSE StartNow(runner)
      BY <1>5, <2>1 DEF Start
    <2>4. CASE runner.held
      <3>1. /\ runner' \in Runners /\ runner'.status = "Ready" /\ runner'.held
            /\ runner'.alive
        BY <1>1, <2>1, <2>3, <2>4 DEF Runners
      <3>2. TypeOK'
        BY <1>1, <1>2, <1>3, <3>1 DEF TypeOK
      <3>3. RunnerFits' /\ StepAsAsked
        BY <1>1, <1>2, <1>3, <2>1, <2>2, <3>1 DEF RunnerFits, StepAsAsked
      <3>4. QED BY <1>4, <3>2, <3>3 DEF IInv
    <2>5. CASE ~runner.held
      <3>1. /\ runner' \in Runners /\ runner'.status = "Running" /\ ~runner'.pending
            /\ runner'.alive
        BY <1>1, <2>1, <2>3, <2>5 DEF Runners, StartNow
      <3>2. TypeOK'
        BY <1>1, <1>2, <1>3, <3>1 DEF TypeOK
      <3>3. RunnerFits' /\ StepAsAsked
        BY <1>1, <1>2, <1>3, <2>1, <2>2, <2>5, <3>1 DEF RunnerFits, StepAsAsked
      <3>4. QED BY <1>4, <3>2, <3>3 DEF IInv
    <2>6. QED BY <2>4, <2>5
  <1>6. CASE ~Starts
    <2>1. runner' = runner /\ session'.started = session.started
      BY <1>1, <1>2, <1>6 DEF TypeOK, Sessions
    <2>2. saved'.ran = saved.ran
      <3>1. runner.status = "Running" => course.index \in saved.ran
        BY <1>1 DEF RunnerFits
      <3>2. saved'.ran = IF runner.status = "Running" THEN saved.ran \cup {course.index}
                         ELSE saved.ran
        BY <1>3, <2>1
      <3>3. QED BY <3>1, <3>2
    <2>3. TypeOK'
      BY <1>1, <1>2, <1>3, <2>1 DEF TypeOK
    <2>4. RunnerFits' /\ StepAsAsked
      BY <1>1, <1>2, <2>1, <2>2 DEF RunnerFits, StepAsAsked
    <2>5. QED BY <1>4, <2>3, <2>4 DEF IInv
  <1>7. QED BY <1>5, <1>6

LEMMA AnnounceOrStartFits ==
    ASSUME IInv, AnnounceOrStart, kind' = kind
    PROVE  IInv' /\ StepAsAsked
  <1>1. TypeOK /\ RunnerFits /\ StagesFit /\ CourseFits
    BY DEF IInv
  <1>2. posted' \subseteq {"synchronize", "begin"}
    BY <1>1, PostsTyped DEF AnnounceOrStart, TypeOK
  <1>3. UNCHANGED <<course, context, screen, used>>
    BY DEF AnnounceOrStart
  <1>4. CASE session.announced # course.index
    <2>1. /\ session' = [session EXCEPT !.announced = course.index]
          /\ flow' = ResetStartup(flow)
          /\ UNCHANGED <<runner, saved>>
      BY <1>4 DEF AnnounceOrStart
    <2>2. /\ session' \in Sessions /\ session'.phase = session.phase
          /\ session'.stageResult = session.stageResult
          /\ session'.courseResult = session.courseResult
      <3>1. session \in Sessions /\ course.index \in 0..Stages
        BY <1>1, PlayAssumption DEF TypeOK
      <3>2. QED BY <2>1, <3>1 DEF Sessions
    <2>3. /\ flow' \in [armed : BOOLEAN, complete : BOOLEAN, attempted : BOOLEAN,
                        outro : BOOLEAN]
          /\ flow'.attempted = flow.attempted
      BY <1>1, <2>1, ResetStartupFits DEF TypeOK
    <2>4. ~runner.pending
      BY <1>1, <1>4 DEF RunnerFits
    <2>5. RunnerFits' /\ StepAsAsked
      BY <1>1, <1>3, <2>1, <2>2, <2>3, <2>4 DEF RunnerFits, StepAsAsked
    <2>6. StagesFit' /\ CourseFits'
      BY <1>1, <1>3, <2>1, <2>2, NothingSaved
    <2>7. TypeOK'
      BY <1>1, <1>2, <1>3, <2>1, <2>2, <2>3 DEF TypeOK
    <2>8. QED BY <2>5, <2>6, <2>7 DEF IInv
  <1>5. CASE session.announced = course.index
    <2>1. /\ session' = [session EXCEPT !.started = @ \/ Starts]
          /\ runner' = IF Starts THEN Start(runner) ELSE runner
          /\ saved' = Ran /\ UNCHANGED flow
      BY <1>5 DEF AnnounceOrStart
    <2>2. QED BY <1>2, <1>3, <1>5, <2>1, StartFits
  <1>6. QED BY <1>4, <1>5

\* A runner that is finished, or destroyed, has played its stage or is gone.
LEMMA PlayFinishedFits ==
    ASSUME IInv, PlayFinished, screen.top = "Gameplay", kind' = kind
    PROVE  IInv' /\ StepAsAsked
  <1> DEFINE s == [session EXCEPT !.phase = "finishing"]
  <1>1. TypeOK /\ RunnerFits /\ session \in Sessions
    BY DEF IInv, TypeOK
  <1>2. posted' \subseteq {"synchronize", "begin"}
    BY <1>1, PostsTyped DEF PlayFinished, TypeOK
  <1>3. ~runner.alive \/ course.index \in saved.ran
    BY <1>1 DEF PlayFinished, Finished, Status, RunnerFits
  <1>4. /\ s \in Sessions /\ s.phase = "finishing"
        /\ s.started = session.started /\ s.announced = session.announced
        /\ s.stageResult = session.stageResult /\ s.courseResult = session.courseResult
    BY <1>1 DEF Sessions
  <1>5. \/ /\ flow' = [flow EXCEPT !.outro = TRUE]
           /\ session' = s
           /\ UNCHANGED <<runner, course, context, saved, screen, used>>
        \/ PresentStage(s)
    BY DEF PlayFinished
  <1> HIDE DEF s
  <1>6. CASE /\ flow' = [flow EXCEPT !.outro = TRUE]
             /\ session' = s
             /\ UNCHANGED <<runner, course, context, saved, screen, used>>
    <2>1. /\ flow' \in [armed : BOOLEAN, complete : BOOLEAN, attempted : BOOLEAN,
                        outro : BOOLEAN]
          /\ flow'.attempted = flow.attempted
      BY <1>1, <1>6 DEF TypeOK
    <2>2. TypeOK'
      BY <1>1, <1>2, <1>4, <1>6, <2>1 DEF TypeOK
    <2>3. QED BY <1>3, <1>4, <1>6, <2>1, <2>2, PlayerStepFits
  <1>7. CASE PresentStage(s)
    BY <1>2, <1>3, <1>4, <1>7, PresentStageFits
  <1>8. QED BY <1>5, <1>6, <1>7

LEMMA SynchronizeFits ==
    ASSUME IInv, Synchronize
    PROVE  IInv' /\ StepAsAsked
  <1>1. TypeOK /\ kind' = kind
    BY DEF IInv, Synchronize
  <1>2. \A added \in SUBSET {"synchronize", "begin"} :
           Posts({"synchronize"}, added) => posted' \subseteq {"synchronize", "begin"}
    BY <1>1, PostsTyped DEF TypeOK
  <1>3. CASE NothingToDo
    <2>1. /\ posted' = posted \ {"synchronize"}
          /\ UNCHANGED <<runner, course, context, session, flow, screen, saved, used>>
      BY <1>3 DEF NothingToDo
    <2>2. TypeOK'
      BY <1>1, <2>1 DEF TypeOK
    <2>3. QED BY <1>1, <2>1, <2>2, PlayerStepFits
  <1>4. CASE ~NothingToDo
    <2>1. screen.top = "Gameplay"
      BY <1>4 DEF Synchronize, Active, Enabled
    <2>2. CASE AfterResult
      <3>1. CASE HasNextStage /\ NextStage /\ Posts({"synchronize"}, {})
        BY <1>1, <1>2, <2>1, <3>1, NextStageFits
      <3>2. CASE /\ used.faults < MaxFaults
                 /\ used' = [used EXCEPT !.faults = @ + 1]
                 /\ Leave
        <4>1. used.faults + 1 \in 0..MaxFaults
          BY <1>1, <3>2, PlayAssumption DEF TypeOK
        <4>2. used' \in [faults : 0..MaxFaults, covers : 0..MaxCovers,
                         choices : 0..MaxChoices]
          BY <1>1, <3>2, <4>1 DEF TypeOK
        <4>3. QED BY <3>2, <4>2, LeaveFits
      <3>3. CASE /\ session.phase = "stageResult"
                 /\ PresentCourse /\ Posts({"synchronize"}, {})
        BY <1>1, <1>2, <2>1, <3>3, PresentCourseFits
      <3>4. CASE Leave /\ UNCHANGED used
        BY <1>1, <3>4, LeaveFits DEF TypeOK
      <3>5. QED BY <2>2, <3>1, <3>2, <3>3, <3>4 DEF AfterResult, Returned
    <2>3. CASE PlayFinished
      BY <1>1, <2>1, <2>3, PlayFinishedFits
    <2>4. CASE AnnounceOrStart
      BY <1>1, <2>4, AnnounceOrStartFits
    <2>5. CASE FinishStageNow
      <3>1. /\ session.phase = "finishing" /\ PresentStage(session)
            /\ Posts({"synchronize"}, {}) /\ session \in Sessions
        BY <1>1, <2>5 DEF FinishStageNow, TypeOK
      <3>2. context.stageResult \/ ~runner.alive \/ course.index \in saved.ran
        BY <3>1 DEF IInv, RunnerFits
      <3>3. QED BY <1>1, <1>2, <2>1, <3>1, <3>2, PresentStageFits
    <2>6. QED BY <1>4, <2>2, <2>3, <2>4, <2>5 DEF Synchronize
  <1>5. QED BY <1>3, <1>4

-----------------------------------------------------------------------------
(* The theorems.                                                           *)

LEMMA NextKeepsInv ==
    ASSUME IInv, [Next]_vars
    PROVE  IInv' /\ StepAsAsked
  <1>1. CASE UNCHANGED vars
    <2>1. UNCHANGED <<kind, runner, course, context, session, flow, screen, posted, saved, used>>
      BY <1>1 DEF vars
    <2>2. TypeOK'
      BY <2>1 DEF IInv, TypeOK
    <2>3. QED BY <2>1, <2>2, PlayerStepFits
  <1>2. CASE \E p \in Players : RefereeLoaded(p)
    BY <1>2, RefereeLoadedFits
  <1>3. CASE BgaLoaded \/ StartReleased \/ UpdateElapsed \/ Hit
    BY <1>3, BgaLoadedFits, StartReleasedFits, UpdateElapsedFits, HitFits
  <1>4. CASE Synchronize
    BY <1>4, SynchronizeFits
  <1>5. CASE Begin \/ StartupCompletes \/ OutroEnds
    BY <1>5, FlowStepsFit
  <1>6. CASE Exit \/ ArenaCancels
    BY <1>6, ExitFits, ArenaCancelsFits
  <1>7. CASE ChooseRetry \/ CancelRetry \/ Retry
    BY <1>7, RetryStepsFit
  <1>8. CASE Cover \/ CloseScreen
    BY <1>8, ScreenStepsFit
  <1>9. QED BY <1>1, <1>2, <1>3, <1>4, <1>5, <1>6, <1>7, <1>8 DEF Next

\* The invariant holds in every reachable state.
THEOREM InvariantHolds == Spec => []IInv
  <1>1. IInv /\ [Next]_vars => IInv'
    BY NextKeepsInv
  <1>2. QED BY InitFits, <1>1, PTL DEF Spec

\* Every variable keeps its type; a stage is counted as saved at most twice.
THEOREM TypeCorrect == Spec => []TypeOK
  <1>1. IInv => TypeOK
    BY DEF IInv
  <1>2. QED BY InvariantHolds, <1>1, PTL

\* A stage is saved once and only if it was played, the course once and after all
\* of its stages, and what a result screen shows has been saved.
THEOREM SavedOnce == Spec => []SavedOnceIfPlayed
  <1>1. IInv => SavedOnceIfPlayed
    <2>1. SUFFICES ASSUME IInv PROVE SavedOnceIfPlayed
      OBVIOUS
    <2>2. StagesFit /\ CourseFits
      BY <2>1 DEF IInv
    <2>3. course.index \in 1..Stages
      BY <2>1 DEF IInv, TypeOK
    <2>4. \A t \in 1..Stages : saved.stages[t] <= (IF t \in saved.ran THEN 1 ELSE 0)
      BY <2>2 DEF StagesFit
    <2>5. /\ saved.course <= 1
          /\ saved.course = 1 => \A t \in 1..StageCount : saved.stages[t] = 1
          /\ screen.top = "CourseResult" => saved.course = 1
      BY <2>2 DEF CourseFits
    <2>6. screen.top = "Result" => saved.stages[course.index] = 1
      BY <2>2, <2>3 DEF StagesFit
    <2>7. QED BY <2>4, <2>5, <2>6 DEF SavedOnceIfPlayed
  <1>2. QED BY InvariantHolds, <1>1, PTL

\* A stage begins to run once, when it is loaded and the player has been told of it,
\* and not before the shared start; what is finished stays so until the next stage.
THEOREM StartsRight == Spec => StartsAsAsked
  <1>1. IInv /\ [Next]_vars => [StepAsAsked]_vars
    BY NextKeepsInv
  <1>2. QED BY InvariantHolds, <1>1, PTL DEF Spec, StartsAsAsked, StepAsAsked

-----------------------------------------------------------------------------
(* NoteJudging: the chart and its columns.                                 *)

(* The chart as the rules see it. *)
ChartOK ==
    /\ Len(chart) \in Nat
    /\ \A i \in Notes : chart[i].time \in Nat /\ Kind(i) \in NoteKinds
    /\ \A i, j \in Notes : i < j => chart[i].time <= chart[j].time
    /\ \A i \in Notes : Kind(i) = "LnBegin" => i + 1 \in Notes /\ Kind(i + 1) = "LnEnd"
    /\ \A i \in Notes : Kind(i) = "LnEnd" => i - 1 \in Notes /\ Kind(i - 1) = "LnBegin"
    /\ \A i \in Notes : chart[i].time + Bad < LastTick

(* Everything before the cursor is judged. *)
Cursor(s) == \A i \in Notes : i < s.current => Judged(s, i)

(* The end of a long note is never judged before its begin. *)
Pair(s) == \A i \in Notes : Kind(i) = "LnBegin" /\ ~Judged(s, i) => ~Judged(s, i + 1)

(* An end that is waited for was begun with a grade it can be given. *)
Begun(s) == \A i \in Notes :
    Kind(i) = "LnEnd" /\ ~Judged(s, i) /\ Judged(s, i - 1) => s.lnBegin # None

ColumnInv(s) == s \in Column /\ Cursor(s) /\ Pair(s) /\ Begun(s)

Keeps(s, u) == \A i \in Notes : Judged(s, i) => u.judged[i] = s.judged[i]

-----------------------------------------------------------------------------
(* The first of a set of notes.                                            *)

LEMMA FirstIsLeast ==
    ASSUME NEW S \in SUBSET Nat, S # {}
    PROVE  First(S) \in S /\ \A j \in S : First(S) <= j
<1>1. PICK x \in S : \A y \in S : ~(<<y, x>> \in OpToRel(<, Nat))
  <2>1. IsWellFoundedOn(OpToRel(<, Nat), Nat)
    BY NatLessThanWellFounded
  <2>2. QED
    BY <2>1, WFMin
<1>2. \A y \in S : x <= y
  <2>1. SUFFICES ASSUME NEW y \in S PROVE ~(y < x)
    BY x \in Nat, S \subseteq Nat
  <2>2. ~(<<y, x>> \in OpToRel(<, Nat))
    BY <1>1
  <2>3. y \in Nat /\ x \in Nat
    OBVIOUS
  <2>4. QED
    BY <2>2, <2>3 DEF OpToRel
<1>3. \E i \in S : \A j \in S : i <= j
  BY <1>2
<1>4. QED
  BY <1>3 DEF First

LEMMA ChartFacts ==
    ASSUME IsChart(chart)
    PROVE  ChartOK
<1>1. chart \in Seq([kind : NoteKinds, time : Nat])
  BY DEF IsChart
<1>2. Len(chart) \in Nat /\ \A i \in Notes : chart[i] \in [kind : NoteKinds, time : Nat]
  <2>1. \A T : chart \in Seq(T) => Len(chart) \in Nat /\ \A i \in 1..Len(chart) : chart[i] \in T
    OBVIOUS
  <2>2. QED
    BY <1>1, <2>1, Zenon DEF Notes
<1>3. \A i \in Notes : chart[i].time \in Nat /\ Kind(i) \in NoteKinds
  BY <1>2 DEF Kind
<1>4. \A i \in Notes : Kind(i) = "LnBegin" => i + 1 \in Notes /\ Kind(i + 1) = "LnEnd"
  BY <1>2 DEF IsChart, Notes, Kind
<1>5. \A i \in Notes : Kind(i) = "LnEnd" => i - 1 \in Notes /\ Kind(i - 1) = "LnBegin"
  BY <1>2 DEF IsChart, Notes, Kind
<1>6. QED
  BY <1>2, <1>3, <1>4, <1>5 DEF IsChart, ChartOK, Notes

LEMMA ColumnJudged ==
    ASSUME NEW s \in Column, NEW f \in [Notes -> Judgements]
    PROVE  [s EXCEPT !.judged = f] \in Column
BY DEF Column

LEMMA UnjudgedFacts ==
    ASSUME ChartOK, NEW s \in Column, Cursor(s)
    PROVE  /\ Unjudged(s) \in SUBSET Nat
           /\ \A i : i \in Unjudged(s) <=> i \in Notes /\ ~Judged(s, i)
BY DEF ChartOK, Column, Cursor, Unjudged, Notes, Judged

-----------------------------------------------------------------------------
(* Misses.                                                                 *)

(* The judgement processMisses gives a note it passes. *)
Missed(s, t, i) == IF Kind(i) # "LnEnd" THEN "Poor"
                   ELSE IF SkippedEnd(s, t, i) THEN "LnEndSkip" ELSE s.lnBegin

Waiting(s, t) == {i \in Unjudged(s) : ~Due(t, i) /\ ~SkippedEnd(s, t, i)}
Stop(s, t) == IF Waiting(s, t) = {} THEN Len(chart) + 1 ELSE First(Waiting(s, t))
Passed(s, t) == {i \in Unjudged(s) : i < Stop(s, t)}

LEMMA MissesParts ==
    ASSUME NEW s \in Column, NEW t
    PROVE  LET p == ProcessMisses(s, t) IN
           /\ p.judged = [i \in Notes |->
                 IF i \notin Passed(s, t) THEN s.judged[i] ELSE Missed(s, t, i)]
           /\ p.current = Stop(s, t)
           /\ p.lnBegin = s.lnBegin
           /\ p = [s EXCEPT !.judged = p.judged, !.lnKey = p.lnKey, !.current = p.current]
           /\ p.lnKey \in {NoKey, s.lnKey}
BY DEF ProcessMisses, Passed, Stop, Waiting, Missed, Column

LEMMA StopFacts ==
    ASSUME ChartOK, NEW s, ColumnInv(s), NEW t
    PROVE  /\ Stop(s, t) \in 1..(Len(chart) + 1)
           /\ Stop(s, t) \notin Passed(s, t)
           /\ Stop(s, t) \in Notes => Stop(s, t) \in Waiting(s, t)
           /\ \A i \in Passed(s, t) : Due(t, i) \/ SkippedEnd(s, t, i)
<1>1. Unjudged(s) \in SUBSET Nat /\ \A i : i \in Unjudged(s) <=> i \in Notes /\ ~Judged(s, i)
  BY UnjudgedFacts DEF ColumnInv
<1>2. Len(chart) \in Nat
  BY DEF ChartOK
<1>3. CASE Waiting(s, t) = {}
  <2>1. Stop(s, t) = Len(chart) + 1
    BY <1>3 DEF Stop
  <2>2. \A i \in Passed(s, t) : Due(t, i) \/ SkippedEnd(s, t, i)
    BY <1>3 DEF Passed, Waiting
  <2>3. QED
    BY <1>1, <1>2, <2>1, <2>2 DEF Passed, Notes
<1>4. CASE Waiting(s, t) # {}
  <2>1. Waiting(s, t) \in SUBSET Nat
    BY <1>1 DEF Waiting
  <2>2. Stop(s, t) \in Waiting(s, t) /\ \A j \in Waiting(s, t) : Stop(s, t) <= j
    BY <1>4, <2>1, FirstIsLeast DEF Stop
  <2>3. Stop(s, t) \in Notes /\ Stop(s, t) \in Nat
    BY <1>1, <2>1, <2>2 DEF Waiting
  <2>4. ASSUME NEW i \in Passed(s, t) PROVE i \notin Waiting(s, t)
    BY <1>1, <2>2, <2>3 DEF Passed
  <2>5. \A i \in Passed(s, t) : Due(t, i) \/ SkippedEnd(s, t, i)
    BY <2>4 DEF Passed, Waiting
  <2>6. QED
    BY <1>2, <2>2, <2>3, <2>5 DEF Passed, Notes
<1>5. QED
  BY <1>3, <1>4

(* A begin that is passed takes its end with it. *)
LEMMA PassedInPairs ==
    ASSUME ChartOK, NEW s, ColumnInv(s), NEW t,
           NEW i \in Passed(s, t), Kind(i) = "LnBegin"
    PROVE  i + 1 \in Passed(s, t) /\ SkippedEnd(s, t, i + 1)
<1>1. Unjudged(s) \in SUBSET Nat /\ \A j : j \in Unjudged(s) <=> j \in Notes /\ ~Judged(s, j)
  BY UnjudgedFacts DEF ColumnInv
<1>2. i \in Unjudged(s) /\ i \in Notes /\ ~Judged(s, i) /\ i < Stop(s, t) /\ i \in Nat
  BY <1>1 DEF Passed
<1>3. i + 1 \in Notes /\ Kind(i + 1) = "LnEnd" /\ ~Judged(s, i + 1)
  BY <1>2 DEF ChartOK, ColumnInv, Pair
<1>4. Due(t, i)
  BY StopFacts DEF SkippedEnd
<1>5. SkippedEnd(s, t, i + 1)
  <2>1. (i + 1) - 1 = i
    BY <1>2
  <2>2. QED
    BY <1>2, <1>3, <1>4, <2>1 DEF SkippedEnd
<1>6. i + 1 \notin Waiting(s, t)
  BY <1>5 DEF Waiting
<1>7. i + 1 < Stop(s, t)
  <2>1. Stop(s, t) \in 1..(Len(chart) + 1) /\ (Stop(s, t) \in Notes => Stop(s, t) \in Waiting(s, t))
    BY StopFacts
  <2>2. Len(chart) \in Nat
    BY DEF ChartOK
  <2>3. i + 1 # Stop(s, t)
    BY <1>3, <1>6, <2>1
  <2>4. QED
    BY <1>2, <2>1, <2>2, <2>3
<1>8. QED
  BY <1>1, <1>3, <1>5, <1>7 DEF Passed

(* An end that is passed and not skipped is given the grade of its begin. *)
LEMMA PassedEndsAreBegun ==
    ASSUME ChartOK, NEW s, ColumnInv(s), NEW t,
           NEW i \in Passed(s, t), Kind(i) = "LnEnd", ~SkippedEnd(s, t, i)
    PROVE  s.lnBegin # None
<1>1. Unjudged(s) \in SUBSET Nat /\ \A j : j \in Unjudged(s) <=> j \in Notes /\ ~Judged(s, j)
  BY UnjudgedFacts DEF ColumnInv
<1>2. i \in Notes /\ ~Judged(s, i) /\ i < Stop(s, t) /\ i \in Nat
  BY <1>1 DEF Passed
<1>3. i - 1 \in Notes /\ Kind(i - 1) = "LnBegin"
  BY <1>2 DEF ChartOK
<1>4. i - 1 \notin Unjudged(s)
  <2>1. SUFFICES ASSUME i - 1 \in Unjudged(s) PROVE FALSE
    OBVIOUS
  <2>2. Stop(s, t) \in Int
    BY StopFacts DEF ChartOK
  <2>3. i - 1 \in Passed(s, t)
    BY <1>2, <2>1, <2>2 DEF Passed
  <2>4. Due(t, i - 1)
    BY <1>3, <2>3, StopFacts DEF SkippedEnd
  <2>5. QED
    BY <2>1, <2>4 DEF SkippedEnd
<1>5. QED
  BY <1>1, <1>2, <1>3, <1>4 DEF ColumnInv, Begun

LEMMA MissesSound ==
    ASSUME ChartOK, NEW s, ColumnInv(s), NEW t
    PROVE  ColumnInv(ProcessMisses(s, t)) /\ Keeps(s, ProcessMisses(s, t))
<1> DEFINE p == ProcessMisses(s, t)
<1>1. s \in Column /\ Cursor(s) /\ Pair(s) /\ Begun(s)
  BY DEF ColumnInv
<1>2. /\ p.judged = [i \in Notes |->
             IF i \notin Passed(s, t) THEN s.judged[i] ELSE Missed(s, t, i)]
      /\ p.current = Stop(s, t)
      /\ p.lnBegin = s.lnBegin
      /\ p = [s EXCEPT !.judged = p.judged, !.lnKey = p.lnKey, !.current = p.current]
      /\ p.lnKey \in {NoKey, s.lnKey}
  BY <1>1, MissesParts
<1> HIDE DEF p
<1>3. Unjudged(s) \in SUBSET Nat /\ \A i : i \in Unjudged(s) <=> i \in Notes /\ ~Judged(s, i)
  BY <1>1, UnjudgedFacts
<1>4. Passed(s, t) \subseteq Unjudged(s)
  BY DEF Passed
<1>5. Stop(s, t) \in 1..(Len(chart) + 1) /\ Len(chart) \in Nat
  BY StopFacts DEF ChartOK
<1>6. \A i \in Passed(s, t) : Missed(s, t, i) \in Judgements \ {None}
  <2>1. ASSUME NEW i \in Passed(s, t), Kind(i) = "LnEnd", ~SkippedEnd(s, t, i)
        PROVE  s.lnBegin \in Grades
    BY <1>1, <2>1, PassedEndsAreBegun DEF Column
  <2>2. QED
    BY <2>1 DEF Missed, Judgements, Grades, None
<1>7. p \in Column
  <2>1. p.judged \in [Notes -> Judgements]
    BY <1>1, <1>2, <1>6 DEF Column
  <2>2. p.lnKey \in NoteKeys \cup {NoKey}
    BY <1>1, <1>2 DEF Column
  <2>3. QED
    BY <1>1, <1>2, <1>5, <2>1, <2>2 DEF Column
<1>8. Keeps(s, p)
  BY <1>2, <1>3, <1>4 DEF Keeps
<1>9. \A i \in Notes : Judged(p, i) <=> Judged(s, i) \/ i \in Passed(s, t)
  BY <1>2, <1>3, <1>4, <1>6 DEF Judged
<1>10. Cursor(p)
  BY <1>2, <1>3, <1>9 DEF Cursor, Passed
<1>11. Pair(p)
  <2>1. SUFFICES ASSUME NEW i \in Notes, Kind(i) = "LnBegin", ~Judged(p, i)
                 PROVE  ~Judged(p, i + 1)
    BY DEF Pair
  <2>2. i + 1 \in Notes /\ ~Judged(s, i + 1) /\ i \in Unjudged(s) /\ i \notin Passed(s, t)
    BY <1>1, <1>3, <1>9, <2>1 DEF Pair, ChartOK
  <2>3. i + 1 \notin Passed(s, t)
    BY <1>3, <1>5, <2>2 DEF Passed
  <2>4. QED
    BY <1>9, <2>2, <2>3
<1>12. Begun(p)
  <2>1. SUFFICES ASSUME NEW e \in Notes, Kind(e) = "LnEnd", ~Judged(p, e), Judged(p, e - 1)
                 PROVE  s.lnBegin # None
    BY <1>2 DEF Begun
  <2>2. e - 1 \in Notes /\ Kind(e - 1) = "LnBegin" /\ e \in Int
    BY SMTT(20), <2>1 DEF ChartOK, Notes
  <2>3. e - 1 \notin Passed(s, t)
    <3>1. SUFFICES ASSUME e - 1 \in Passed(s, t) PROVE FALSE
      OBVIOUS
    <3>2. (e - 1) + 1 = e
      BY <2>2
    <3>3. e \in Passed(s, t)
      BY <2>2, <3>1, <3>2, PassedInPairs
    <3>4. QED
      BY <1>9, <2>1, <3>3
  <2>4. ~Judged(s, e) /\ Judged(s, e - 1)
    BY <1>9, <2>1, <2>2, <2>3
  <2>5. QED
    BY <1>1, <2>1, <2>4 DEF Begun
<1>13. QED
  BY <1>7, <1>8, <1>10, <1>11, <1>12 DEF ColumnInv, p

(* After a pass beyond every window nothing is left to judge. *)
LEMMA LastMisses ==
    ASSUME ChartOK, NEW s, ColumnInv(s)
    PROVE  \A i \in Notes : Judged(ProcessMisses(s, LastTick), i)
<1>1. \A i \in Notes : Due(LastTick, i)
  BY WindowsAssumption DEF ChartOK, Due, Deviation
<1>2. Waiting(s, LastTick) = {}
  BY <1>1, UnjudgedFacts DEF ColumnInv, Waiting
<1>3. ProcessMisses(s, LastTick).current = Len(chart) + 1
  BY <1>2, MissesParts DEF ColumnInv, Stop
<1>4. Cursor(ProcessMisses(s, LastTick))
  BY MissesSound DEF ColumnInv
<1>5. QED
  BY <1>3, <1>4 DEF Cursor, Notes, ChartOK

-----------------------------------------------------------------------------
(* Keys.                                                                   *)

Bads(s, t) == {i \in Playable(s, t) : IsBad(Deviation(t, i))}
Goods(s, t) == Playable(s, t) \ Bads(s, t)

LEMMA PlayableFacts ==
    ASSUME ChartOK, NEW s \in Column, NEW t \in Nat
    PROVE  /\ Playable(s, t) \in SUBSET Nat
           /\ \A i \in Playable(s, t) :
                 /\ i \in Notes /\ ~Judged(s, i) /\ Kind(i) # "LnEnd"
                 /\ Kind(i) = "LnBegin" /\ IsBad(Deviation(t, i)) => Deviation(t, i) < -Good
           /\ \A i \in Goods(s, t) : Deviation(t, i) \in (-Good)..Good
<1>1. \A i \in Playable(s, t) : i \in Notes /\ i \in Nat
  BY DEF Playable, Column, ChartOK, Notes
<1>2. ASSUME NEW i \in Playable(s, t)
      PROVE  /\ ~Judged(s, i) /\ Kind(i) # "LnEnd" /\ Deviation(t, i) \in Int
             /\ Deviation(t, i) \in (-Bad)..Bad
             /\ Kind(i) = "LnBegin" /\ IsBad(Deviation(t, i)) => ~(Deviation(t, i) > 0)
  <2>1. chart[i].time \in Nat
    BY <1>1 DEF ChartOK
  <2>2. Deviation(t, i) \in Int
    BY <2>1 DEF Deviation
  <2>3. QED
    BY <2>2 DEF Playable
<1>3. \A i \in Playable(s, t) :
         Kind(i) = "LnBegin" /\ IsBad(Deviation(t, i)) => Deviation(t, i) < -Good
  BY <1>2, WindowsAssumption DEF IsBad
<1>4. \A i \in Goods(s, t) : Deviation(t, i) \in (-Good)..Good
  BY <1>2 DEF Goods, Bads, IsBad
<1>5. QED
  BY <1>1, <1>2, <1>3, <1>4

LEMMA TakeFirstSound ==
    ASSUME ChartOK, NEW s, ColumnInv(s), NEW t \in Nat, NEW k \in NoteKeys,
           NEW f \in Goods(s, t)
    PROVE  /\ ColumnInv(TakeFirst(s, t, k, f, Bads(s, t)))
           /\ Keeps(s, TakeFirst(s, t, k, f, Bads(s, t)))
<1> DEFINE u == TakeFirst(s, t, k, f, Bads(s, t))
           B == {i \in Bads(s, t) : i < f}
           grade == GradeOf(Deviation(t, f))
           mark == IF Kind(f) = "LnBegin" THEN "LnBeginHit" ELSE grade
<1>1. s \in Column /\ Cursor(s) /\ Pair(s) /\ Begun(s)
  BY DEF ColumnInv
<1>2. grade \in Grades /\ mark \in Judgements \ {None}
  BY DEF GradeOf, Grades, Judgements, None
<1>3. /\ u.judged = [i \in Notes |->
             IF i = f THEN mark ELSE IF i \in B THEN "Bad" ELSE s.judged[i]]
      /\ u.current = s.current
      /\ u.lnBegin = IF Kind(f) = "LnBegin" THEN grade ELSE s.lnBegin
      /\ u = [s EXCEPT !.judged = u.judged, !.lnBegin = u.lnBegin, !.lnKey = u.lnKey]
      /\ u.lnKey \in {k, s.lnKey}
  BY <1>1 DEF TakeFirst, Column
<1>4. f \in Notes /\ ~Judged(s, f) /\ Kind(f) # "LnEnd" /\ Deviation(t, f) \in (-Good)..Good
  BY <1>1, PlayableFacts DEF Goods
<1>5. \A i \in B : i \in Notes /\ ~Judged(s, i) /\ Kind(i) # "LnEnd"
  BY <1>1, PlayableFacts DEF Bads
<1>6. ASSUME NEW i \in B PROVE Kind(i) # "LnBegin"
  <2>1. SUFFICES ASSUME Kind(i) = "LnBegin" PROVE FALSE
    OBVIOUS
  <2>2. i \in Notes /\ i < f /\ Deviation(t, i) < -Good
    BY <1>1, <2>1, PlayableFacts DEF Bads
  <2>3. chart[i].time <= chart[f].time /\ chart[i].time \in Nat /\ chart[f].time \in Nat
    BY <1>4, <2>2 DEF ChartOK
  <2>4. QED
    BY <1>4, <2>2, <2>3, WindowsAssumption DEF Deviation
<1> HIDE DEF u, B, grade, mark
<1>7. u \in Column
  <2>1. u.judged \in [Notes -> Judgements]
    BY <1>1, <1>2, <1>3 DEF Column, Judgements, Grades
  <2>2. u.lnBegin \in Grades \cup {None} /\ u.lnKey \in NoteKeys \cup {NoKey}
    BY <1>1, <1>2, <1>3 DEF Column
  <2>3. QED
    BY <1>1, <1>3, <2>1, <2>2 DEF Column
<1>8. Keeps(s, u)
  BY <1>3, <1>4, <1>5 DEF Keeps
<1>9. \A i \in Notes : Judged(u, i) <=> Judged(s, i) \/ i = f \/ i \in B
  BY <1>2, <1>3, <1>4, <1>5 DEF Judged, None
<1>10. Cursor(u)
  BY <1>1, <1>3, <1>9 DEF Cursor
<1>11. Pair(u)
  BY <1>1, <1>4, <1>5, <1>9 DEF Pair, ChartOK
<1>12. Begun(u)
  <2>1. SUFFICES ASSUME NEW e \in Notes, Kind(e) = "LnEnd", ~Judged(u, e), Judged(u, e - 1)
                 PROVE  u.lnBegin # None
    BY DEF Begun
  <2>2. e - 1 \in Notes /\ Kind(e - 1) = "LnBegin"
    BY <2>1 DEF ChartOK
  <2>3. CASE e - 1 = f
    BY <1>2, <1>3, <2>2, <2>3 DEF Grades, None
  <2>4. CASE e - 1 # f
    <3>1. Judged(s, e - 1) /\ ~Judged(s, e)
      BY <1>6, <1>9, <2>1, <2>2, <2>4
    <3>2. s.lnBegin # None
      BY <1>1, <2>1, <3>1 DEF Begun
    <3>3. QED
      BY <1>2, <1>3, <3>2 DEF Grades, None
  <2>5. QED
    BY <2>3, <2>4
<1>13. QED
  BY <1>7, <1>8, <1>10, <1>11, <1>12 DEF ColumnInv, u

LEMMA TakeBadsSound ==
    ASSUME ChartOK, NEW s, ColumnInv(s), NEW t \in Nat, Bads(s, t) # {}
    PROVE  ColumnInv(TakeBads(s, Bads(s, t))) /\ Keeps(s, TakeBads(s, Bads(s, t)))
<1> DEFINE u == TakeBads(s, Bads(s, t))
           first == First(Bads(s, t))
           taken == IF Kind(first) = "LnBegin" THEN {first} ELSE Bads(s, t)
           begins == {i \in taken : Kind(i) = "LnBegin"}
           ends == {i \in Notes : i - 1 \in begins}
<1>1. s \in Column /\ Cursor(s) /\ Pair(s) /\ Begun(s)
  BY DEF ColumnInv
<1>2. Bads(s, t) \in SUBSET Nat
  BY <1>1, PlayableFacts DEF Bads
<1>3. first \in Bads(s, t)
  BY <1>2, FirstIsLeast
<1>4. \A i \in taken : i \in Notes /\ ~Judged(s, i) /\ Kind(i) # "LnEnd" /\ i \in Nat
  BY <1>1, <1>2, <1>3, PlayableFacts DEF Bads
<1>5. /\ u.judged = [i \in Notes |->
             IF i \in begins THEN "LnBeginHit"
             ELSE IF i \in taken \/ i \in ends THEN "Bad" ELSE s.judged[i]]
      /\ u.current = s.current
      /\ u.lnBegin = s.lnBegin
      /\ u = [s EXCEPT !.judged = u.judged]
  BY <1>1 DEF TakeBads, Column
<1>6. \A i \in begins : i \in taken /\ Kind(i) = "LnBegin"
  OBVIOUS
<1>7. \A i \in taken : Kind(i) = "LnBegin" => i \in begins
  OBVIOUS
<1>8. \A i : i \in ends <=> i \in Notes /\ i - 1 \in begins
  OBVIOUS
<1> HIDE DEF u, first, taken, begins, ends
<1>9. ASSUME NEW i \in ends PROVE ~Judged(s, i) /\ Kind(i) = "LnEnd"
  <2>1. i - 1 \in Notes /\ Kind(i - 1) = "LnBegin" /\ ~Judged(s, i - 1)
    BY <1>4, <1>6, <1>8
  <2>2. (i - 1) + 1 = i
    BY <1>8 DEF Notes
  <2>3. QED
    BY <1>1, <2>1, <2>2 DEF Pair, ChartOK
<1>10. u \in Column
  <2>1. u.judged \in [Notes -> Judgements]
    BY <1>1, <1>5 DEF Column, Judgements, Grades
  <2>2. QED
    BY <1>1, <1>5, <2>1, ColumnJudged
<1>11. Keeps(s, u)
  BY <1>4, <1>5, <1>6, <1>9 DEF Keeps
<1>12. \A i \in Notes : Judged(u, i) <=> Judged(s, i) \/ i \in taken \/ i \in ends
  BY <1>4, <1>5, <1>6, <1>9 DEF Judged, None
<1>13. Cursor(u)
  BY <1>1, <1>5, <1>12 DEF Cursor
<1>14. Pair(u)
  <2>1. SUFFICES ASSUME NEW i \in Notes, Kind(i) = "LnBegin", ~Judged(u, i)
                 PROVE  ~Judged(u, i + 1)
    BY DEF Pair
  <2>2. i + 1 \in Notes /\ Kind(i + 1) = "LnEnd" /\ ~Judged(s, i + 1) /\ i \notin taken
    BY <1>1, <1>12, <2>1 DEF Pair, ChartOK
  <2>3. i + 1 \notin taken
    BY <1>4, <2>2
  <2>4. (i + 1) - 1 = i
    BY DEF Notes
  <2>5. i + 1 \notin ends
    BY <1>6, <1>8, <2>2, <2>4
  <2>6. QED
    BY <1>12, <2>2, <2>3, <2>5
<1>15. Begun(u)
  <2>1. SUFFICES ASSUME NEW e \in Notes, Kind(e) = "LnEnd", ~Judged(u, e), Judged(u, e - 1)
                 PROVE  s.lnBegin # None
    BY <1>5 DEF Begun
  <2>2. e - 1 \in Notes /\ Kind(e - 1) = "LnBegin"
    BY <2>1 DEF ChartOK
  <2>3. e - 1 \notin taken
    BY <1>7, <1>8, <1>12, <2>1, <2>2
  <2>4. e - 1 \notin ends
    BY <1>9, <2>2
  <2>5. QED
    BY <1>1, <1>12, <2>1, <2>2, <2>3, <2>4 DEF Begun
<1>16. QED
  BY <1>10, <1>11, <1>13, <1>14, <1>15 DEF ColumnInv, u

LEMMA KeysUntouched ==
    ASSUME NEW s, ColumnInv(s), NEW pressed \in SUBSET NoteKeys, NEW empties \in Nat
    PROVE  /\ ColumnInv([s EXCEPT !.pressed = pressed])
           /\ Keeps(s, [s EXCEPT !.pressed = pressed])
           /\ ColumnInv([s EXCEPT !.empties = empties])
           /\ Keeps(s, [s EXCEPT !.empties = empties])
BY DEF ColumnInv, Column, Cursor, Pair, Begun, Judged, Keeps

LEMMA HitPressSound ==
    ASSUME ChartOK, NEW s, ColumnInv(s), NEW t \in Nat, NEW k \in NoteKeys
    PROVE  ColumnInv(HitPress(s, t, k)) /\ Keeps(s, HitPress(s, t, k))
<1>1. s.empties + 1 \in Nat /\ Keeps(s, s)
  BY DEF ColumnInv, Column, Keeps
<1>2. HitPress(s, t, k) = IF Goods(s, t) # {} THEN TakeFirst(s, t, k, First(Goods(s, t)), Bads(s, t))
                          ELSE IF Bads(s, t) # {} THEN TakeBads(s, Bads(s, t))
                          ELSE IF InEmptyPoorWindow(s, t) THEN [s EXCEPT !.empties = @ + 1]
                          ELSE s
  BY DEF HitPress, Goods, Bads
<1>3. CASE Goods(s, t) # {}
  <2>1. Goods(s, t) \in SUBSET Nat
    BY PlayableFacts DEF Goods, ColumnInv
  <2>2. First(Goods(s, t)) \in Goods(s, t)
    BY <1>3, <2>1, FirstIsLeast
  <2>3. QED
    BY <1>2, <1>3, <2>2, TakeFirstSound
<1>4. CASE Goods(s, t) = {} /\ Bads(s, t) # {}
  BY <1>2, <1>4, TakeBadsSound
<1>5. CASE Goods(s, t) = {} /\ Bads(s, t) = {}
  <2>1. HitPress(s, t, k) \in {s, [s EXCEPT !.empties = s.empties + 1]}
    BY <1>2, <1>5
  <2>2. /\ ColumnInv([s EXCEPT !.empties = s.empties + 1])
        /\ Keeps(s, [s EXCEPT !.empties = s.empties + 1])
    BY <1>1, KeysUntouched
  <2>3. QED
    BY <1>1, <2>1, <2>2
<1>6. QED
  BY <1>3, <1>4, <1>5

LEMMA PressSound ==
    ASSUME ChartOK, NEW s, ColumnInv(s), NEW t \in Nat, NEW k \in NoteKeys
    PROVE  ColumnInv(Press(s, t, k)) /\ Keeps(s, Press(s, t, k))
<1> DEFINE down == [s EXCEPT !.pressed = @ \cup {k}]
<1>1. s.pressed \cup {k} \in SUBSET NoteKeys
  BY DEF ColumnInv, Column
<1>2. ColumnInv(down) /\ Keeps(s, down) /\ down.judged = s.judged
  BY <1>1, KeysUntouched DEF ColumnInv, Column
<1> HIDE DEF down
<1>3. ColumnInv(HitPress(down, t, k)) /\ Keeps(down, HitPress(down, t, k))
  BY <1>2, HitPressSound
<1>4. Keeps(s, HitPress(down, t, k))
  BY <1>2, <1>3 DEF Keeps, Judged
<1>5. QED
  BY <1>3, <1>4 DEF Press, down

(* An end that is let go is the first note left, and it was begun. *)
LEMMA ReleasedFacts ==
    ASSUME ChartOK, NEW s, ColumnInv(s), NEW k, NEW e \in Released(s, k)
    PROVE  /\ Released(s, k) = {e} /\ First(Released(s, k)) = e
           /\ e \in Notes /\ ~Judged(s, e) /\ Kind(e) = "LnEnd"
           /\ s.lnBegin \in Grades
<1>1. Unjudged(s) \in SUBSET Nat /\ \A j : j \in Unjudged(s) <=> j \in Notes /\ ~Judged(s, j)
  BY UnjudgedFacts DEF ColumnInv
<1>2. e \in Unjudged(s) /\ e = First(Unjudged(s)) /\ Kind(e) = "LnEnd"
  BY DEF Released
<1>3. Released(s, k) = {e}
  BY <1>2 DEF Released
<1>4. First(Released(s, k)) = e
  BY <1>1, <1>2, <1>3, FirstIsLeast
<1>5. \A j \in Unjudged(s) : e <= j
  BY <1>1, <1>2, FirstIsLeast
<1>6. e - 1 \in Notes /\ e \in Nat
  BY <1>1, <1>2 DEF ChartOK
<1>7. Judged(s, e - 1)
  <2>1. e - 1 \notin Unjudged(s)
    BY <1>5, <1>6
  <2>2. QED
    BY <1>1, <1>6, <2>1
<1>8. s.lnBegin \in Grades
  BY <1>1, <1>2, <1>7 DEF ColumnInv, Begun, Column
<1>9. QED
  BY <1>1, <1>2, <1>3, <1>4, <1>8

LEMMA ReleaseSound ==
    ASSUME ChartOK, NEW s, ColumnInv(s), NEW t \in Nat, NEW k \in NoteKeys
    PROVE  ColumnInv(Release(s, t, k)) /\ Keeps(s, Release(s, t, k))
<1> DEFINE up == [s EXCEPT !.pressed = @ \ {k}]
<1>1. up = [s EXCEPT !.pressed = s.pressed \ {k}] /\ s.pressed \ {k} \in SUBSET NoteKeys
  BY DEF ColumnInv, Column
<1>2. ColumnInv(up) /\ Keeps(s, up)
  BY <1>1, KeysUntouched
<1>3. CASE Released(s, k) = {}
  BY <1>2, <1>3 DEF Release
<1>4. CASE Released(s, k) # {}
  <2> DEFINE u == Release(s, t, k)
  <2>1. PICK e \in Released(s, k) : TRUE
    BY <1>4
  <2>2. /\ First(Released(s, k)) = e
        /\ e \in Notes /\ ~Judged(s, e) /\ Kind(e) = "LnEnd"
        /\ s.lnBegin \in Grades
    BY ReleasedFacts
  <2> DEFINE mark == IF TooEarly(t, e) THEN "Bad" ELSE s.lnBegin
  <2>3. mark \in Judgements \ {None}
    BY <2>2 DEF Judgements, Grades, None
  <2>4. u = [up EXCEPT !.judged[e] = mark, !.lnKey = NoKey]
    BY <1>4, <2>2 DEF Release
  <2>5. /\ u \in Column
        /\ u.current = s.current /\ u.lnBegin = s.lnBegin
        /\ \A i \in Notes : u.judged[i] = IF i = e THEN mark ELSE s.judged[i]
    <3> DEFINE f == [s.judged EXCEPT ![e] = mark]
    <3>1. /\ s \in Column /\ up \in Column
          /\ up.judged = s.judged /\ up.current = s.current /\ up.lnBegin = s.lnBegin
      BY <1>1, <1>2 DEF ColumnInv, Column
    <3> HIDE DEF up, mark
    <3>2. /\ f \in [Notes -> Judgements]
          /\ \A i \in Notes : f[i] = IF i = e THEN mark ELSE s.judged[i]
      BY <2>2, <2>3, <3>1 DEF Column
    <3>3. u = [up EXCEPT !.judged = f, !.lnKey = NoKey]
      BY <2>4, <3>1
    <3> HIDE DEF u, f
    <3>4. QED
      BY <3>1, <3>2, <3>3 DEF Column
  <2> HIDE DEF u, mark
  <2>6. \A i \in Notes : Judged(u, i) <=> Judged(s, i) \/ i = e
    BY <2>2, <2>3, <2>5 DEF Judged
  <2>7. Keeps(s, u)
    BY <2>2, <2>5 DEF Keeps
  <2>8. Cursor(u)
    BY <2>5, <2>6 DEF Cursor, ColumnInv
  <2>9. Pair(u)
    <3>1. SUFFICES ASSUME NEW i \in Notes, Kind(i) = "LnBegin", ~Judged(u, i)
                   PROVE  ~Judged(u, i + 1)
      BY DEF Pair
    <3>2. i + 1 \in Notes /\ ~Judged(s, i) /\ ~Judged(s, i + 1)
      BY <2>6, <3>1 DEF ColumnInv, Pair, ChartOK
    <3>3. i + 1 # e
      <4>1. SUFFICES ASSUME i + 1 = e PROVE FALSE
        OBVIOUS
      <4>2. i \in Unjudged(s) /\ Unjudged(s) \in SUBSET Nat
        BY <3>2, UnjudgedFacts DEF ColumnInv
      <4>3. First(Unjudged(s)) <= i /\ First(Unjudged(s)) = e
        BY <4>2, FirstIsLeast DEF Released
      <4>4. QED
        BY <4>1, <4>2, <4>3
    <3>4. QED
      BY <2>6, <3>2, <3>3
  <2>10. Begun(u)
    <3>1. s.lnBegin # None
      BY <2>2 DEF Grades, None
    <3>2. QED
      BY <2>5, <3>1 DEF Begun
  <2>11. QED
    BY <2>5, <2>7, <2>8, <2>9, <2>10 DEF ColumnInv, u
<1>5. QED
  BY <1>3, <1>4

LEMMA TakeSound ==
    ASSUME ChartOK, NEW s, ColumnInv(s), NEW event \in KeyEvent
    PROVE  ColumnInv(Take(s, event)) /\ Keeps(s, Take(s, event))
<1> DEFINE c == ProcessMisses(s, event.at)
           u == Take(s, event)
<1>1. event.at \in Nat /\ event.key \in NoteKeys /\ event.action \in {"Press", "Release"}
  BY DEF KeyEvent
<1>2. ColumnInv(c) /\ Keeps(s, c)
  BY MissesSound
<1> HIDE DEF c
<1>3. /\ ColumnInv(Press(c, event.at, event.key)) /\ Keeps(c, Press(c, event.at, event.key))
      /\ ColumnInv(Release(c, event.at, event.key)) /\ Keeps(c, Release(c, event.at, event.key))
  BY <1>1, <1>2, PressSound, ReleaseSound
<1>4. u \in {Press(c, event.at, event.key), Release(c, event.at, event.key), c}
  BY <1>1 DEF Take, c
<1>5. Keeps(c, c)
  BY DEF Keeps
<1>6. ColumnInv(u) /\ Keeps(c, u)
  BY <1>2, <1>3, <1>4, <1>5
<1>7. Keeps(s, u)
  BY <1>2, <1>6 DEF Keeps, Judged
<1>8. QED
  BY <1>6, <1>7

-----------------------------------------------------------------------------
(* The play and its replay.                                                *)

JudgingInv == JudgingTypeOK /\ ColumnInv(live) /\ ColumnInv(replay) /\ AllNotesJudged

LEMMA ChartIsOK ==
    ASSUME chart \in Charts
    PROVE  ChartOK
BY ChartFacts, ChartsAssumption

LEMMA FreshColumnInv ==
    ASSUME ChartOK
    PROVE  ColumnInv(FreshColumn(chart))
<1> DEFINE s == FreshColumn(chart)
<1>1. /\ s \in Column /\ s.current = 1
      /\ \A i \in Notes : ~Judged(s, i)
  BY DEF FreshColumn, Column, Notes, Judgements, Judged, ChartOK
<1> HIDE DEF s
<1>2. Cursor(s)
  BY <1>1 DEF Cursor, Notes
<1>3. Pair(s) /\ Begun(s)
  BY <1>1 DEF Pair, Begun, ChartOK
<1>4. QED
  BY <1>1, <1>2, <1>3 DEF ColumnInv, s

LEMMA InitInv == JudgingInit => JudgingInv
<1>1. SUFFICES ASSUME JudgingInit PROVE JudgingInv
  OBVIOUS
<1>2. ColumnInv(live) /\ ColumnInv(replay)
  BY <1>1, ChartIsOK, FreshColumnInv DEF JudgingInit
<1>3. JudgingTypeOK
  BY <1>1, <1>2, WindowsAssumption DEF JudgingInit, JudgingTypeOK, ColumnInv
<1>4. AllNotesJudged
  BY <1>1 DEF JudgingInit, AllNotesJudged
<1>5. QED
  BY <1>2, <1>3, <1>4 DEF JudgingInv

LEMMA KeyTimeIsNat ==
    ASSUME JudgingTypeOK, NEW t \in (now - 1)..now, KeyTime(t)
    PROVE  t \in Nat /\ stalls' \in 0..MaxStalls /\ punctual' \in BOOLEAN
BY WindowsAssumption DEF JudgingTypeOK, KeyTime

LEMMA KeepsSelf ==
    ASSUME NEW s
    PROVE  Keeps(s, s)
BY DEF Keeps

(* What every step does to the two columns. *)
LEMMA ColumnsStep ==
    ASSUME JudgingInv, [JudgingNext]_judgingVars
    PROVE  /\ chart' = chart
           /\ ColumnInv(live') /\ Keeps(live, live')
           /\ ColumnInv(replay') /\ Keeps(replay, replay')
<1>1. JudgingTypeOK /\ ColumnInv(live) /\ ColumnInv(replay) /\ ChartOK
  BY ChartIsOK DEF JudgingInv, JudgingTypeOK
<1>2. Keeps(live, live) /\ Keeps(replay, replay)
  BY KeepsSelf
<1>3. CASE Update
  BY <1>1, <1>2, <1>3, MissesSound DEF Update
<1>4. CASE Tick
  BY <1>1, <1>2, <1>4 DEF Tick
<1>5. ASSUME NEW k \in NoteKeys, NEW t \in (now - 1)..now, PassPressed(k, t)
      PROVE  /\ chart' = chart /\ replay' = replay
             /\ ColumnInv(live') /\ Keeps(live, live')
  <2>1. t \in Nat
    BY <1>1, <1>5, KeyTimeIsNat DEF PassPressed
  <2>2. QED
    BY <1>1, <1>5, <2>1, PressSound DEF PassPressed
<1>6. ASSUME NEW k \in NoteKeys, NEW t \in (now - 1)..now, PassReleased(k, t)
      PROVE  /\ chart' = chart /\ replay' = replay
             /\ ColumnInv(live') /\ Keeps(live, live')
  <2>1. t \in Nat
    BY <1>1, <1>6, KeyTimeIsNat DEF PassReleased
  <2>2. QED
    BY <1>1, <1>6, <2>1, ReleaseSound DEF PassReleased
<1>7. CASE Finish
  <2> DEFINE p == ProcessMisses(live, LastTick)
  <2>1. ColumnInv(p) /\ Keeps(live, p)
    BY <1>1, MissesSound
  <2>2. live' = [p EXCEPT !.pressed = {}] /\ chart' = chart /\ replay' = replay
    BY <1>7 DEF Finish
  <2> HIDE DEF p
  <2>3. ColumnInv(live') /\ live'.judged = p.judged
    BY <2>1, <2>2, KeysUntouched DEF ColumnInv, Column
  <2>4. QED
    BY <1>1, <1>2, <2>1, <2>2, <2>3 DEF Keeps
<1>8. ASSUME NEW i \in left, ReplayEvent(i)
      PROVE  /\ chart' = chart /\ live' = live
             /\ ColumnInv(replay') /\ Keeps(replay, replay')
  <2>1. log[i] \in KeyEvent
    BY <1>1 DEF JudgingTypeOK
  <2>2. QED
    BY <1>1, <1>8, <2>1, TakeSound DEF ReplayEvent
<1>9. CASE ReplayFrame
  BY <1>1, <1>2, <1>9, MissesSound DEF ReplayFrame
<1>10. CASE ReplayEnds
  BY <1>1, <1>2, <1>10, MissesSound DEF ReplayEnds
<1>11. CASE UNCHANGED judgingVars
  BY <1>1, <1>2, <1>11 DEF judgingVars
<1>12. QED
  BY <1>1, <1>2, <1>3, <1>4, <1>5, <1>6, <1>7, <1>8, <1>9, <1>10, <1>11 DEF JudgingNext

LEMMA ColumnInvPrimed ==
    ASSUME chart' = chart, ColumnInv(live'), ColumnInv(replay')
    PROVE  ColumnInv(live)' /\ ColumnInv(replay)'
BY DEF ColumnInv, Column, Cursor, Pair, Begun, Judged, Notes, Kind

LEMMA LogStep ==
    ASSUME JudgingTypeOK, NEW event \in KeyEvent
    PROVE  Append(log, event) \in Seq(KeyEvent) /\ left \subseteq DOMAIN Append(log, event)
BY DEF JudgingTypeOK

LEMMA LoggedAtIsNat ==
    ASSUME ChartOK, NEW s, ColumnInv(s), NEW t \in Nat, NEW k
    PROVE  LoggedAt(s, t, k) \in Nat
<1>1. CASE Released(s, k) = {}
  BY <1>1 DEF LoggedAt
<1>2. CASE Released(s, k) # {}
  <2>1. PICK e \in Released(s, k) : TRUE
    BY <1>2
  <2>2. First(Released(s, k)) = e /\ e \in Notes
    BY ReleasedFacts
  <2>3. chart[e].time \in Nat
    BY <2>2 DEF ChartOK
  <2>4. QED
    BY <2>2, <2>3 DEF LoggedAt
<1>3. QED
  BY <1>1, <1>2

LEMMA TypeStep ==
    ASSUME JudgingInv, [JudgingNext]_judgingVars
    PROVE  JudgingTypeOK'
<1>1. JudgingTypeOK /\ ColumnInv(live) /\ ChartOK
  BY ChartIsOK DEF JudgingInv, JudgingTypeOK
<1>2. /\ chart' \in Charts
      /\ (live \in Column)' /\ (replay \in Column)'
  BY <1>1, ColumnsStep, ColumnInvPrimed DEF ColumnInv, JudgingTypeOK
<1> DEFINE Others == /\ phase \in {"playing", "replaying", "done"}
                     /\ now \in 0..LastTick
                     /\ updated \in 0..LastTick
                     /\ log \in Seq(KeyEvent)
                     /\ punctual \in BOOLEAN
                     /\ stalls \in 0..MaxStalls
                     /\ left \subseteq DOMAIN log
<1>3. Others /\ LastTick \in Nat /\ MaxStalls \in Nat
  BY <1>1, WindowsAssumption DEF JudgingTypeOK
<1>4. SUFFICES Others'
  BY <1>2 DEF JudgingTypeOK
<1>5. CASE Update
  BY <1>3, <1>5 DEF Update
<1>6. CASE Tick
  BY <1>3, <1>6 DEF Tick
<1>7. ASSUME NEW k \in NoteKeys, NEW t \in (now - 1)..now, PassPressed(k, t) PROVE Others'
  <2>1. t \in Nat /\ stalls' \in 0..MaxStalls /\ punctual' \in BOOLEAN
    BY <1>1, <1>7, KeyTimeIsNat DEF PassPressed
  <2>2. [action |-> "Press", key |-> k, at |-> t] \in KeyEvent
    BY <2>1 DEF KeyEvent
  <2>3. log' \in Seq(KeyEvent) /\ left' \subseteq DOMAIN log'
    BY <1>1, <1>7, <2>2, LogStep DEF PassPressed
  <2>4. QED
    BY <1>3, <1>7, <2>1, <2>3 DEF PassPressed
<1>8. ASSUME NEW k \in NoteKeys, NEW t \in (now - 1)..now, PassReleased(k, t) PROVE Others'
  <2>1. t \in Nat /\ stalls' \in 0..MaxStalls /\ punctual' \in BOOLEAN
    BY <1>1, <1>8, KeyTimeIsNat DEF PassReleased
  <2>2. [action |-> "Release", key |-> k, at |-> LoggedAt(live, t, k)] \in KeyEvent
    BY <1>1, <2>1, LoggedAtIsNat DEF KeyEvent
  <2>3. log' \in Seq(KeyEvent) /\ left' \subseteq DOMAIN log'
    BY <1>1, <1>8, <2>2, LogStep DEF PassReleased
  <2>4. QED
    BY <1>3, <1>8, <2>1, <2>3 DEF PassReleased
<1>9. CASE Finish
  BY <1>3, <1>9 DEF Finish
<1>10. ASSUME NEW i \in left, ReplayEvent(i) PROVE Others'
  BY <1>3, <1>10 DEF ReplayEvent
<1>11. CASE ReplayFrame
  BY <1>3, <1>11 DEF ReplayFrame
<1>12. CASE ReplayEnds
  BY <1>3, <1>12 DEF ReplayEnds
<1>13. CASE UNCHANGED judgingVars
  BY <1>3, <1>13 DEF judgingVars
<1>14. QED
  BY <1>5, <1>6, <1>7, <1>8, <1>9, <1>10, <1>11, <1>12, <1>13 DEF JudgingNext

LEMMA AllNotesJudgedStep ==
    ASSUME JudgingInv, [JudgingNext]_judgingVars
    PROVE  AllNotesJudged'
<1>1. /\ JudgingTypeOK /\ ColumnInv(live) /\ ColumnInv(replay) /\ AllNotesJudged /\ ChartOK
  BY ChartIsOK DEF JudgingInv, JudgingTypeOK
<1>2. chart' = chart /\ Keeps(live, live') /\ Keeps(replay, replay')
  BY ColumnsStep
<1> DEFINE Over(s) == \A i \in Notes : Judged(s, i)
<1>3. (Over(live) => Over(live')) /\ (Over(replay) => Over(replay'))
  BY <1>2 DEF Keeps, Judged
<1>4. SUFFICES (phase' # "playing" => Over(live')) /\ (phase' = "done" => Over(replay'))
  BY <1>2 DEF AllNotesJudged, Judged, Notes
<1>5. CASE Finish
  <2>1. Over(ProcessMisses(live, LastTick))
    BY <1>1, LastMisses
  <2>2. live'.judged = ProcessMisses(live, LastTick).judged /\ phase' = "replaying"
    BY <1>1, <1>5, MissesSound DEF Finish, ColumnInv, Column
  <2>3. QED
    BY <2>1, <2>2 DEF Judged
<1>6. CASE ReplayEnds
  BY <1>1, <1>3, <1>6, LastMisses DEF ReplayEnds, AllNotesJudged
<1>7. CASE phase' = phase
  BY <1>1, <1>3, <1>7 DEF AllNotesJudged
<1>8. phase' = phase \/ Finish \/ ReplayEnds
  BY DEF JudgingNext, judgingVars, Update, Tick, PassPressed, PassReleased, ReplayEvent, ReplayFrame
<1>9. QED
  BY <1>5, <1>6, <1>7, <1>8

LEMMA StepInv == JudgingInv /\ [JudgingNext]_judgingVars => JudgingInv'
<1>1. SUFFICES ASSUME JudgingInv, [JudgingNext]_judgingVars PROVE JudgingInv'
  OBVIOUS
<1>2. ColumnInv(live)' /\ ColumnInv(replay)'
  BY <1>1, ColumnsStep, ColumnInvPrimed
<1>3. QED
  BY <1>1, <1>2, TypeStep, AllNotesJudgedStep DEF JudgingInv

LEMMA Invariance == JudgingSpec => []JudgingInv
BY InitInv, StepInv, PTL DEF JudgingSpec

(* A column stays a column and the log a log, for every chart and every    *)
(* width of the windows: the cursor of processMisses stays in the chart.   *)
THEOREM JudgingTypeCorrect == JudgingSpec => []JudgingTypeOK
<1>1. JudgingInv => JudgingTypeOK
  BY DEF JudgingInv
<1>2. QED
  BY <1>1, Invariance, PTL

(* Every note has a judgement when the play is over, and again when its    *)
(* replay is: maxPointsNow of BmsLiveScore reaches maxPoints.              *)
THEOREM EveryNoteIsJudged == JudgingSpec => []AllNotesJudged
<1>1. JudgingInv => AllNotesJudged
  BY DEF JudgingInv
<1>2. QED
  BY <1>1, Invariance, PTL

(* No press, release, miss or replayed event changes a judgement that a    *)
(* note was given before.                                                  *)
THEOREM NoNoteIsJudgedTwice == JudgingSpec => JudgedForGood
<1>1. JudgingInv /\ [JudgingNext]_judgingVars =>
         [\A i \in Notes : /\ Judged(live, i) => live'.judged[i] = live.judged[i]
                           /\ Judged(replay, i) => replay'.judged[i] = replay.judged[i]]_judgingVars
  BY ColumnsStep DEF Keeps
<1>2. QED
  BY <1>1, Invariance, PTL DEF JudgingSpec, JudgedForGood

-----------------------------------------------------------------------------
(* NoteJudging: passes of processMisses that follow each other.            *)

LEMMA ColumnsEqual ==
    ASSUME NEW s \in Column, NEW u \in Column,
           s.judged = u.judged, s.current = u.current, s.lnBegin = u.lnBegin,
           s.lnKey = u.lnKey, s.pressed = u.pressed, s.empties = u.empties
    PROVE  s = u
BY DEF Column

(* A pass, field by field. *)
LEMMA MissesFields ==
    ASSUME NEW s \in Column, NEW t, NEW p, p = ProcessMisses(s, t)
    PROVE  /\ p.judged = [i \in Notes |->
                 IF i \notin Passed(s, t) THEN s.judged[i] ELSE Missed(s, t, i)]
           /\ p.current = Stop(s, t)
           /\ p.lnBegin = s.lnBegin
           /\ p.lnKey = IF \E i \in Passed(s, t) : Kind(i) # "Normal" THEN NoKey ELSE s.lnKey
           /\ p.pressed = s.pressed
           /\ p.empties = s.empties
BY DEF ProcessMisses, Passed, Stop, Waiting, Missed, Column

LEMMA UnjudgedAfterMisses ==
    ASSUME ChartOK, NEW s, ColumnInv(s), NEW t
    PROVE  Unjudged(ProcessMisses(s, t)) = Unjudged(s) \ Passed(s, t)
<1>0. PICK p : p = ProcessMisses(s, t)
  OBVIOUS
<1>1. s \in Column /\ ColumnInv(p)
  BY <1>0, MissesSound DEF ColumnInv
<1>2. \A i \in Notes : p.judged[i] = IF i \notin Passed(s, t) THEN s.judged[i] ELSE Missed(s, t, i)
  <2>1. p.judged = [i \in Notes |-> IF i \notin Passed(s, t) THEN s.judged[i] ELSE Missed(s, t, i)]
    BY <1>0, <1>1, MissesFields
  <2>2. QED
    BY <2>1
<1>3. \A i : i \in Unjudged(s) <=> i \in Notes /\ ~Judged(s, i)
  BY UnjudgedFacts DEF ColumnInv
<1>4. \A i : i \in Unjudged(p) <=> i \in Notes /\ ~Judged(p, i)
  BY <1>1, UnjudgedFacts DEF ColumnInv
<1>5. ASSUME NEW i \in Passed(s, t) PROVE Missed(s, t, i) # None
  <2>1. ASSUME Kind(i) = "LnEnd", ~SkippedEnd(s, t, i) PROVE s.lnBegin # None
    BY <2>1, PassedEndsAreBegun
  <2>2. QED
    BY <2>1 DEF Missed, None
<1>6. \A i \in Notes : Judged(p, i) <=> Judged(s, i) \/ i \in Passed(s, t)
  <2>1. \A i \in Passed(s, t) : i \in Notes
    BY <1>3 DEF Passed
  <2>2. QED
    BY <1>2, <1>5, <2>1 DEF Judged
<1>7. QED
  BY <1>0, <1>3, <1>4, <1>6

(* What is due stays due. *)
LEMMA DueLater ==
    ASSUME ChartOK, NEW t \in Nat, NEW u \in Nat, t <= u, NEW i \in Notes, Due(t, i)
    PROVE  Due(u, i)
<1>1. chart[i].time \in Nat /\ Bad \in Nat
  BY WindowsAssumption DEF ChartOK
<1>2. QED
  BY SMTT(20), <1>1 DEF Due, Deviation

(* A later pass waits for the same notes, whether or not there was one     *)
(* before it.                                                              *)
LEMMA WaitingLater ==
    ASSUME ChartOK, NEW s, ColumnInv(s), NEW t \in Nat, NEW u \in Nat, t <= u
    PROVE  /\ \A i \in Unjudged(s) \ Passed(s, t) :
                 SkippedEnd(ProcessMisses(s, t), u, i) <=> SkippedEnd(s, u, i)
           /\ Waiting(ProcessMisses(s, t), u) = Waiting(s, u)
           /\ \A i \in Passed(s, t) : SkippedEnd(s, u, i) <=> SkippedEnd(s, t, i)
<1> DEFINE p == ProcessMisses(s, t)
<1>1. Unjudged(p) = Unjudged(s) \ Passed(s, t)
  BY UnjudgedAfterMisses
<1> HIDE DEF p
<1>2. Unjudged(s) \in SUBSET Nat /\ \A i : i \in Unjudged(s) <=> i \in Notes /\ ~Judged(s, i)
  BY UnjudgedFacts DEF ColumnInv
<1>3. Stop(s, t) \in 1..(Len(chart) + 1) /\ Len(chart) \in Nat
  BY StopFacts DEF ChartOK
<1>4. \A i \in Passed(s, t) : Due(t, i) \/ SkippedEnd(s, t, i)
  BY StopFacts
<1>5. \A i \in Unjudged(s) : Due(t, i) => Due(u, i)
  BY <1>2, DueLater
<1>6. \A i \in Unjudged(s) : SkippedEnd(s, t, i) => SkippedEnd(s, u, i)
  BY <1>5 DEF SkippedEnd
<1>7. ASSUME NEW i \in Unjudged(s) \ Passed(s, t)
      PROVE  SkippedEnd(p, u, i) <=> SkippedEnd(s, u, i)
  <2>1. ASSUME SkippedEnd(s, u, i) PROVE i - 1 \notin Passed(s, t)
    <3>1. SUFFICES ASSUME i - 1 \in Passed(s, t) PROVE FALSE
      OBVIOUS
    <3>2. Kind(i) = "LnEnd" /\ i \in Notes /\ i \in Nat
      BY <1>2, <2>1 DEF SkippedEnd
    <3>3. Kind(i - 1) = "LnBegin"
      BY <3>2 DEF ChartOK
    <3>4. (i - 1) + 1 \in Passed(s, t)
      BY <3>1, <3>3, PassedInPairs
    <3>5. QED
      BY <1>7, <3>2, <3>4
  <2>2. QED
    BY <1>1, <2>1 DEF SkippedEnd
<1>8. Waiting(p, u) = Waiting(s, u)
  <2>1. ASSUME NEW i \in Passed(s, t) PROVE i \notin Waiting(s, u)
    BY <1>4, <1>5, <1>6 DEF Passed, Waiting
  <2>2. QED
    BY <1>1, <1>7, <2>1 DEF Waiting
<1>9. ASSUME NEW i \in Passed(s, t), SkippedEnd(s, u, i) PROVE SkippedEnd(s, t, i)
  <2>1. Kind(i) = "LnEnd" /\ i - 1 \in Unjudged(s) /\ i \in Unjudged(s) /\ i < Stop(s, t)
    BY <1>9 DEF SkippedEnd, Passed
  <2>2. i - 1 \in Passed(s, t)
    BY <1>2, <1>3, <2>1 DEF Passed
  <2>3. Kind(i - 1) = "LnBegin"
    BY <1>2, <2>1 DEF ChartOK
  <2>4. Due(t, i - 1)
    BY <1>4, <2>2, <2>3 DEF SkippedEnd
  <2>5. QED
    BY <2>1, <2>4 DEF SkippedEnd
<1>10. QED
  BY <1>6, <1>7, <1>8, <1>9 DEF p, Passed

(* A pass swallows the passes before it: which updates there were makes no *)
(* difference to what is missed.                                           *)
LEMMA MissesAbsorb ==
    ASSUME ChartOK, NEW s, ColumnInv(s), NEW t \in Nat, NEW u \in Nat, t <= u
    PROVE  ProcessMisses(ProcessMisses(s, t), u) = ProcessMisses(s, u)
<1>1. PICK p : p = ProcessMisses(s, t)
  OBVIOUS
<1>2. PICK q : q = ProcessMisses(p, u)
  OBVIOUS
<1>3. PICK r : r = ProcessMisses(s, u)
  OBVIOUS
<1>4. ColumnInv(p) /\ ColumnInv(q) /\ ColumnInv(r)
  BY <1>1, <1>2, <1>3, MissesSound
<1>5. s \in Column /\ p \in Column /\ q \in Column /\ r \in Column
  BY <1>4 DEF ColumnInv
<1>6. /\ p.judged = [i \in Notes |-> IF i \notin Passed(s, t) THEN s.judged[i] ELSE Missed(s, t, i)]
      /\ p.lnBegin = s.lnBegin /\ p.pressed = s.pressed /\ p.empties = s.empties
      /\ p.lnKey = IF \E i \in Passed(s, t) : Kind(i) # "Normal" THEN NoKey ELSE s.lnKey
  BY <1>1, <1>5, MissesFields
<1>7. /\ q.judged = [i \in Notes |-> IF i \notin Passed(p, u) THEN p.judged[i] ELSE Missed(p, u, i)]
      /\ q.current = Stop(p, u)
      /\ q.lnBegin = p.lnBegin /\ q.pressed = p.pressed /\ q.empties = p.empties
      /\ q.lnKey = IF \E i \in Passed(p, u) : Kind(i) # "Normal" THEN NoKey ELSE p.lnKey
  BY <1>2, <1>5, MissesFields
<1>8. /\ r.judged = [i \in Notes |-> IF i \notin Passed(s, u) THEN s.judged[i] ELSE Missed(s, u, i)]
      /\ r.current = Stop(s, u)
      /\ r.lnBegin = s.lnBegin /\ r.pressed = s.pressed /\ r.empties = s.empties
      /\ r.lnKey = IF \E i \in Passed(s, u) : Kind(i) # "Normal" THEN NoKey ELSE s.lnKey
  BY <1>3, <1>5, MissesFields
<1>9. Unjudged(p) = Unjudged(s) \ Passed(s, t)
  BY <1>1, UnjudgedAfterMisses
<1>10. /\ \A i \in Unjudged(p) : SkippedEnd(p, u, i) <=> SkippedEnd(s, u, i)
       /\ Waiting(p, u) = Waiting(s, u)
       /\ \A i \in Passed(s, t) : SkippedEnd(s, u, i) <=> SkippedEnd(s, t, i)
  BY <1>1, <1>9, WaitingLater
<1>11. Stop(p, u) = Stop(s, u)
  BY <1>10 DEF Stop
<1>12. Unjudged(s) \in SUBSET Nat /\ \A i : i \in Unjudged(s) <=> i \in Notes /\ ~Judged(s, i)
  BY UnjudgedFacts DEF ColumnInv
<1>13. /\ Stop(s, t) \in 1..(Len(chart) + 1) /\ Stop(s, u) \in 1..(Len(chart) + 1)
       /\ Len(chart) \in Nat
       /\ Stop(s, u) \in Notes => Stop(s, u) \in Waiting(s, u)
  BY StopFacts DEF ChartOK
<1>14. Stop(s, t) <= Stop(s, u)
  <2>1. SUFFICES ASSUME Stop(s, u) < Stop(s, t) PROVE FALSE
    BY <1>13
  <2>2. Stop(s, u) \in Notes
    BY <1>13, <2>1 DEF Notes
  <2>3. Stop(s, u) \in Unjudged(p)
    BY <1>10, <1>13, <2>2 DEF Waiting
  <2>4. QED
    BY <1>9, <2>1, <2>3 DEF Passed
<1>15. Passed(s, u) = Passed(s, t) \cup Passed(p, u)
  BY <1>9, <1>11, <1>12, <1>13, <1>14 DEF Passed
<1>16. Passed(p, u) \subseteq Unjudged(p) /\ Passed(s, t) \subseteq Unjudged(s)
  BY DEF Passed
<1>17. \A i \in Passed(s, t) : Missed(s, u, i) = Missed(s, t, i)
  BY <1>10 DEF Missed
<1>18. \A i \in Passed(p, u) : Missed(p, u, i) = Missed(s, u, i)
  BY <1>6, <1>10, <1>16 DEF Missed
<1>19. \A i \in Notes : q.judged[i] = r.judged[i]
  BY <1>6, <1>7, <1>8, <1>9, <1>15, <1>16, <1>17, <1>18
<1>20. q.judged = r.judged
  BY <1>5, <1>19 DEF Column
<1>21. q.lnKey = r.lnKey
  BY <1>6, <1>7, <1>8, <1>15
<1>22. q = r
  BY <1>5, <1>6, <1>7, <1>8, <1>11, <1>20, <1>21, ColumnsEqual
<1>23. QED
  BY <1>1, <1>2, <1>3, <1>22

-----------------------------------------------------------------------------
(* NoteJudging: columns that differ in their cursor only.                  *)

Alike(s, u) ==
    /\ s.judged = u.judged /\ s.lnBegin = u.lnBegin /\ s.lnKey = u.lnKey
    /\ s.pressed = u.pressed /\ s.empties = u.empties

LEMMA UnjudgedAlike ==
    ASSUME ChartOK, NEW s, ColumnInv(s), NEW u, ColumnInv(u), Alike(s, u)
    PROVE  Unjudged(s) = Unjudged(u)
<1>1. \A i : i \in Unjudged(s) <=> i \in Notes /\ ~Judged(s, i)
  BY UnjudgedFacts DEF ColumnInv
<1>2. \A i : i \in Unjudged(u) <=> i \in Notes /\ ~Judged(u, i)
  BY UnjudgedFacts DEF ColumnInv
<1>3. QED
  BY <1>1, <1>2 DEF Alike, Judged

LEMMA MissesAlike ==
    ASSUME ChartOK, NEW s, ColumnInv(s), NEW u, ColumnInv(u), Alike(s, u), NEW t
    PROVE  ProcessMisses(s, t) = ProcessMisses(u, t)
<1>1. PICK p : p = ProcessMisses(s, t)
  OBVIOUS
<1>2. PICK q : q = ProcessMisses(u, t)
  OBVIOUS
<1>3. s \in Column /\ u \in Column /\ p \in Column /\ q \in Column
  BY <1>1, <1>2, MissesSound DEF ColumnInv
<1>4. Unjudged(s) = Unjudged(u)
  BY UnjudgedAlike
<1>5. \A i : SkippedEnd(s, t, i) <=> SkippedEnd(u, t, i)
  BY <1>4 DEF SkippedEnd
<1>6. Waiting(s, t) = Waiting(u, t)
  BY <1>4, <1>5 DEF Waiting
<1>7. Stop(s, t) = Stop(u, t)
  BY <1>6 DEF Stop
<1>8. Passed(s, t) = Passed(u, t)
  BY <1>4, <1>7 DEF Passed
<1>9. \A i : Missed(s, t, i) = Missed(u, t, i)
  BY <1>5 DEF Missed, Alike
<1>10. /\ p.judged = [i \in Notes |-> IF i \notin Passed(s, t) THEN s.judged[i] ELSE Missed(s, t, i)]
       /\ p.current = Stop(s, t)
       /\ p.lnBegin = s.lnBegin /\ p.pressed = s.pressed /\ p.empties = s.empties
       /\ p.lnKey = IF \E i \in Passed(s, t) : Kind(i) # "Normal" THEN NoKey ELSE s.lnKey
  BY <1>1, <1>3, MissesFields
<1>11. /\ q.judged = [i \in Notes |-> IF i \notin Passed(u, t) THEN u.judged[i] ELSE Missed(u, t, i)]
       /\ q.current = Stop(u, t)
       /\ q.lnBegin = u.lnBegin /\ q.pressed = u.pressed /\ q.empties = u.empties
       /\ q.lnKey = IF \E i \in Passed(u, t) : Kind(i) # "Normal" THEN NoKey ELSE u.lnKey
  BY <1>2, <1>3, MissesFields
<1>12. p.judged = q.judged
  <2>1. \A i \in Notes : p.judged[i] = q.judged[i]
    BY <1>8, <1>9, <1>10, <1>11 DEF Alike
  <2>2. QED
    BY <1>3, <2>1 DEF Column
<1>13. p.lnKey = q.lnKey
  BY <1>8, <1>10, <1>11 DEF Alike
<1>14. p = q
  BY <1>3, <1>7, <1>10, <1>11, <1>12, <1>13, ColumnsEqual DEF Alike
<1>15. QED
  BY <1>1, <1>2, <1>14

(* The end a release lets go is not due when the column is up to date.     *)
LEMMA NextIsNotDue ==
    ASSUME ChartOK, NEW s, ColumnInv(s), NEW t, NEW k,
           NEW e \in Released(ProcessMisses(s, t), k)
    PROVE  ~Due(t, e)
<1>1. PICK p : p = ProcessMisses(s, t)
  OBVIOUS
<1>2. ColumnInv(p) /\ s \in Column
  BY <1>1, MissesSound DEF ColumnInv
<1>3. p.current = Stop(s, t)
  BY ZenonT(30), <1>1, <1>2, MissesFields
<1>4. Unjudged(p) = Unjudged(s) \ Passed(s, t)
  BY <1>1, UnjudgedAfterMisses
<1>5. Unjudged(p) \in SUBSET Nat /\ \A i : i \in Unjudged(p) <=> i \in Notes /\ ~Judged(p, i)
  BY <1>2, UnjudgedFacts DEF ColumnInv
<1>6. e \in Unjudged(p) /\ e = First(Unjudged(p))
  BY <1>1 DEF Released
<1>7. \A j \in Unjudged(p) : e <= j
  BY <1>5, <1>6, FirstIsLeast
<1>8. /\ Stop(s, t) \in 1..(Len(chart) + 1) /\ Len(chart) \in Nat
      /\ Stop(s, t) \notin Passed(s, t)
      /\ Stop(s, t) \in Notes => Stop(s, t) \in Waiting(s, t)
  BY StopFacts DEF ChartOK
<1>9. e \in Stop(s, t)..Len(chart)
  BY <1>3, <1>6 DEF Unjudged
<1>10. Stop(s, t) \in Notes
  BY <1>8, <1>9 DEF Notes
<1>11. Stop(s, t) \in Unjudged(p)
  BY <1>4, <1>8, <1>10 DEF Waiting
<1>12. e = Stop(s, t)
  BY <1>7, <1>8, <1>9, <1>11
<1>13. QED
  BY <1>8, <1>10, <1>12 DEF Waiting

(* Nothing is missed while the next note is an end that is not due.        *)
LEMMA NothingMissed ==
    ASSUME ChartOK, NEW s, ColumnInv(s), NEW t, NEW k, NEW e \in Released(s, k), ~Due(t, e)
    PROVE  Alike(ProcessMisses(s, t), s)
<1>1. PICK p : p = ProcessMisses(s, t)
  OBVIOUS
<1>2. ColumnInv(p) /\ s \in Column /\ p \in Column
  BY <1>1, MissesSound DEF ColumnInv
<1>3. Unjudged(s) \in SUBSET Nat /\ \A i : i \in Unjudged(s) <=> i \in Notes /\ ~Judged(s, i)
  BY UnjudgedFacts DEF ColumnInv
<1>4. e \in Unjudged(s) /\ e = First(Unjudged(s)) /\ e \in Nat
  BY <1>3 DEF Released
<1>5. \A j \in Unjudged(s) : e <= j
  BY <1>3, <1>4, FirstIsLeast
<1>6. ~SkippedEnd(s, t, e)
  BY <1>3, <1>4, <1>5 DEF SkippedEnd
<1>7. e \in Waiting(s, t) /\ Waiting(s, t) \in SUBSET Nat
  BY <1>3, <1>4, <1>6 DEF Waiting
<1>8. Stop(s, t) <= e /\ Stop(s, t) \in Nat
  BY <1>7, FirstIsLeast DEF Stop
<1>9. Passed(s, t) = {}
  BY <1>3, <1>4, <1>5, <1>8 DEF Passed
<1>10. /\ p.judged = [i \in Notes |-> IF i \notin Passed(s, t) THEN s.judged[i] ELSE Missed(s, t, i)]
       /\ p.lnBegin = s.lnBegin /\ p.pressed = s.pressed /\ p.empties = s.empties
       /\ p.lnKey = IF \E i \in Passed(s, t) : Kind(i) # "Normal" THEN NoKey ELSE s.lnKey
  BY <1>1, <1>2, MissesFields
<1>11. p.judged = s.judged
  BY <1>2, <1>9, <1>10 DEF Column
<1>12. QED
  BY <1>1, <1>9, <1>10, <1>11 DEF Alike

(* A release at the time it is logged with does to a column that differs   *)
(* in its cursor only what it did to the column it was made on.            *)
LEMMA ReleaseInTime ==
    ASSUME ChartOK, NEW s, ColumnInv(s), NEW u, ColumnInv(u), Alike(s, u),
           NEW t, NEW v, NEW k, NEW e \in Released(s, k), ~TooEarly(t, e), ~TooEarly(v, e)
    PROVE  Alike(Release(s, t, k), Release(u, v, k))
<1>1. Unjudged(s) = Unjudged(u)
  BY UnjudgedAlike
<1>2. Released(s, k) = Released(u, k)
  BY <1>1 DEF Released, Alike
<1>3. First(Released(s, k)) = e /\ First(Released(u, k)) = e /\ e \in Notes
  BY <1>2, ReleasedFacts
<1>4. /\ Release(s, t, k) = [[s EXCEPT !.pressed = @ \ {k}] EXCEPT !.judged[e] = s.lnBegin, !.lnKey = NoKey]
      /\ Release(u, v, k) = [[u EXCEPT !.pressed = @ \ {k}] EXCEPT !.judged[e] = u.lnBegin, !.lnKey = NoKey]
  BY <1>2, <1>3 DEF Release
<1>5. s \in Column /\ u \in Column
  BY DEF ColumnInv
<1>6. /\ Release(s, t, k).judged = [s.judged EXCEPT ![e] = s.lnBegin]
      /\ Release(s, t, k).lnBegin = s.lnBegin /\ Release(s, t, k).lnKey = NoKey
      /\ Release(s, t, k).pressed = s.pressed \ {k} /\ Release(s, t, k).empties = s.empties
  BY <1>4, <1>5 DEF Column
<1>7. /\ Release(u, v, k).judged = [u.judged EXCEPT ![e] = u.lnBegin]
      /\ Release(u, v, k).lnBegin = u.lnBegin /\ Release(u, v, k).lnKey = NoKey
      /\ Release(u, v, k).pressed = u.pressed \ {k} /\ Release(u, v, k).empties = u.empties
  BY <1>4, <1>5 DEF Column
<1>8. QED
  BY <1>6, <1>7 DEF Alike

-----------------------------------------------------------------------------
(* NoteJudging: the rules read the chart, which no step changes.           *)

LEMMA UnjudgedStays == chart' = chart => \A s : Unjudged(s)' = Unjudged(s)
BY DEF Unjudged, Judged

LEMMA DeviationStays ==
    chart' = chart => \A t, i : Deviation(t, i)' = Deviation(t, i) /\ Kind(i)' = Kind(i)
BY DEF Deviation, Kind

LEMMA MissesStay ==
    ASSUME chart' = chart
    PROVE  \A s, t : ProcessMisses(s, t)' = ProcessMisses(s, t)
<1>1. SUFFICES ASSUME NEW s, NEW t PROVE ProcessMisses(s, t)' = ProcessMisses(s, t)
  OBVIOUS
<1>2. Unjudged(s)' = Unjudged(s) /\ Notes' = Notes
  BY UnjudgedStays DEF Notes
<1>3. \A i : (Due(t, i)' <=> Due(t, i)) /\ Kind(i)' = Kind(i)
  BY DeviationStays DEF Due
<1>4. \A i : SkippedEnd(s, t, i)' <=> SkippedEnd(s, t, i)
  BY <1>2, <1>3 DEF SkippedEnd
<1>5. {i \in Unjudged(s) : ~Due(t, i) /\ ~SkippedEnd(s, t, i)}'
         = {i \in Unjudged(s) : ~Due(t, i) /\ ~SkippedEnd(s, t, i)}
  BY <1>2, <1>3, <1>4
<1>6. Stop(s, t)' = Stop(s, t)
  BY <1>5 DEF Stop, Waiting
<1>7. Passed(s, t)' = Passed(s, t)
  BY <1>2, <1>6 DEF Passed
<1> DEFINE J == [i \in Notes |-> IF i \notin Passed(s, t) THEN s.judged[i] ELSE Missed(s, t, i)]
           K == IF \E i \in Passed(s, t) : Kind(i) # "Normal" THEN NoKey ELSE s.lnKey
<1>8. \A i : Missed(s, t, i)' = Missed(s, t, i)
  BY <1>3, <1>4 DEF Missed
<1>9. J' = J
  BY <1>2, <1>7, <1>8
<1>10. K' = K
  BY <1>3, <1>7
<1>11. ProcessMisses(s, t) = [s EXCEPT !.judged = J, !.lnKey = K, !.current = Stop(s, t)]
  BY DEF ProcessMisses, Stop, Waiting, Passed, Missed
<1>12. ProcessMisses(s, t)' = [s EXCEPT !.judged = J', !.lnKey = K', !.current = Stop(s, t)']
  BY DEF ProcessMisses, Stop, Waiting, Passed, Missed
<1> HIDE DEF J, K
<1>13. QED
  BY <1>6, <1>9, <1>10, <1>11, <1>12

LEMMA PlayableStays ==
    ASSUME chart' = chart
    PROVE  \A s, t : Playable(s, t)' = Playable(s, t)
<1>1. \A t, i : Deviation(t, i)' = Deviation(t, i) /\ Kind(i)' = Kind(i)
  BY DeviationStays
<1>2. QED
  BY <1>1 DEF Playable, Judged, IsBad

LEMMA TakeFirstStays ==
    ASSUME chart' = chart
    PROVE  \A s, t, k, f, bads : TakeFirst(s, t, k, f, bads)' = TakeFirst(s, t, k, f, bads)
<1>1. SUFFICES ASSUME NEW s, NEW t, NEW k, NEW f, NEW bads
               PROVE  TakeFirst(s, t, k, f, bads)' = TakeFirst(s, t, k, f, bads)
  OBVIOUS
<1>2. Notes' = Notes /\ Kind(f)' = Kind(f) /\ Deviation(t, f)' = Deviation(t, f)
  BY DeviationStays DEF Notes
<1> DEFINE grade == GradeOf(Deviation(t, f))
           judged == [i \in Notes |->
                        IF i = f THEN IF Kind(f) = "LnBegin" THEN "LnBeginHit" ELSE grade
                        ELSE IF i \in bads /\ i < f THEN "Bad" ELSE s.judged[i]]
<1>3. grade' = grade
  BY <1>2 DEF GradeOf
<1> HIDE DEF grade
<1>4. judged' = judged
  BY <1>2, <1>3
<1>5. TakeFirst(s, t, k, f, bads) =
        IF Kind(f) = "LnBegin" THEN [s EXCEPT !.judged = judged, !.lnBegin = grade, !.lnKey = k]
        ELSE [s EXCEPT !.judged = judged]
  BY DEF TakeFirst, grade
<1>6. TakeFirst(s, t, k, f, bads)' =
        IF Kind(f)' = "LnBegin" THEN [s EXCEPT !.judged = judged', !.lnBegin = grade', !.lnKey = k]
        ELSE [s EXCEPT !.judged = judged']
  BY DEF TakeFirst, grade
<1> HIDE DEF judged
<1>7. QED
  BY <1>2, <1>3, <1>4, <1>5, <1>6

LEMMA TakeBadsStays ==
    ASSUME chart' = chart
    PROVE  \A s, bads : TakeBads(s, bads)' = TakeBads(s, bads)
<1>1. SUFFICES ASSUME NEW s, NEW bads PROVE TakeBads(s, bads)' = TakeBads(s, bads)
  OBVIOUS
<1>2. Notes' = Notes /\ \A i : Kind(i)' = Kind(i)
  BY DeviationStays DEF Notes
<1> DEFINE taken == IF Kind(First(bads)) = "LnBegin" THEN {First(bads)} ELSE bads
           begins == {i \in taken : Kind(i) = "LnBegin"}
           judged == [i \in Notes |->
                        IF i \in begins THEN "LnBeginHit"
                        ELSE IF i \in taken \/ i - 1 \in begins THEN "Bad" ELSE s.judged[i]]
<1>3. taken' = taken
  BY <1>2
<1> HIDE DEF taken
<1>4. begins' = begins
  BY <1>2, <1>3
<1> HIDE DEF begins
<1>5. judged' = judged
  BY <1>2, <1>3, <1>4
<1>6. TakeBads(s, bads) = [s EXCEPT !.judged = judged]
  BY DEF TakeBads, taken, begins
<1>7. TakeBads(s, bads)' = [s EXCEPT !.judged = judged']
  BY DEF TakeBads, taken, begins
<1> HIDE DEF judged
<1>8. QED
  BY <1>5, <1>6, <1>7

LEMMA PressStays ==
    ASSUME chart' = chart
    PROVE  \A s, t, k : Press(s, t, k)' = Press(s, t, k)
<1>1. \A t, i : Deviation(t, i)' = Deviation(t, i) /\ Kind(i)' = Kind(i)
  BY DeviationStays
<1>2. ASSUME NEW s, NEW t, NEW k PROVE HitPress(s, t, k)' = HitPress(s, t, k)
  <2>1. Playable(s, t)' = Playable(s, t)
    BY PlayableStays
  <2>2. Bads(s, t)' = Bads(s, t)
    BY <1>1, <2>1 DEF Bads, IsBad
  <2>3. Goods(s, t)' = Goods(s, t)
    BY <2>1, <2>2 DEF Goods
  <2>4. InEmptyPoorWindow(s, t)' <=> InEmptyPoorWindow(s, t)
    BY <1>1 DEF InEmptyPoorWindow
  <2>5. TakeFirst(s, t, k, First(Goods(s, t)), Bads(s, t))'
           = TakeFirst(s, t, k, First(Goods(s, t)), Bads(s, t))
    BY <2>2, <2>3, TakeFirstStays
  <2>6. TakeBads(s, Bads(s, t))' = TakeBads(s, Bads(s, t))
    BY <2>2, TakeBadsStays
  <2>7. HitPress(s, t, k) = IF Goods(s, t) # {} THEN TakeFirst(s, t, k, First(Goods(s, t)), Bads(s, t))
                            ELSE IF Bads(s, t) # {} THEN TakeBads(s, Bads(s, t))
                            ELSE IF InEmptyPoorWindow(s, t) THEN [s EXCEPT !.empties = @ + 1]
                            ELSE s
    BY DEF HitPress, Goods, Bads
  <2>8. HitPress(s, t, k)' = IF Goods(s, t)' # {} THEN TakeFirst(s, t, k, First(Goods(s, t)), Bads(s, t))'
                             ELSE IF Bads(s, t)' # {} THEN TakeBads(s, Bads(s, t))'
                             ELSE IF InEmptyPoorWindow(s, t)' THEN [s EXCEPT !.empties = @ + 1]
                             ELSE s
    BY DEF HitPress, Goods, Bads
  <2>9. QED
    BY <2>2, <2>3, <2>4, <2>5, <2>6, <2>7, <2>8
<1>3. QED
  BY <1>2 DEF Press

LEMMA ReleaseStays ==
    ASSUME chart' = chart
    PROVE  \A s, t, k : Release(s, t, k)' = Release(s, t, k)
<1>1. SUFFICES ASSUME NEW s, NEW t, NEW k PROVE Release(s, t, k)' = Release(s, t, k)
  OBVIOUS
<1>2. Released(s, k)' = Released(s, k)
  BY UnjudgedStays, DeviationStays DEF Released
<1>3. \A e : TooEarly(t, e)' <=> TooEarly(t, e)
  BY DeviationStays DEF TooEarly
<1>4. QED
  BY <1>2, <1>3 DEF Release

LEMMA TakeStays ==
    ASSUME chart' = chart
    PROVE  \A s, event : Take(s, event)' = Take(s, event)
<1>1. SUFFICES ASSUME NEW s, NEW event PROVE Take(s, event)' = Take(s, event)
  OBVIOUS
<1>2. PICK c : c = ProcessMisses(s, event.at)
  OBVIOUS
<1>3. ProcessMisses(s, event.at)' = c
  BY <1>2, MissesStay
<1>4. /\ Press(c, event.at, event.key)' = Press(c, event.at, event.key)
      /\ Release(c, event.at, event.key)' = Release(c, event.at, event.key)
  BY PressStays, ReleaseStays
<1>5. QED
  BY <1>2, <1>3, <1>4 DEF Take

LEMMA ColumnInvStays ==
    ASSUME chart' = chart
    PROVE  \A s : ColumnInv(s)' <=> ColumnInv(s)
BY DEF ColumnInv, Column, Cursor, Pair, Begun, Judged, Notes, Kind

-----------------------------------------------------------------------------
(* NoteJudging: the columns a replay goes through.                         *)

(* h[i] is the column of a replay that has just taken the first i of the   *)
(* events l.                                                               *)
IsHistory(h, l) ==
    /\ DOMAIN h = 0..Len(l)
    /\ h[0] = FreshColumn(chart)
    /\ \A i \in 0..Len(l) : ColumnInv(h[i])
    /\ \A i \in 1..Len(l) : h[i] = Take(h[i - 1], l[i])

(* The column v of the player, updated to u, is the one a replay has after *)
(* the events l, up to date; or no update came since the last of them.     *)
LevelWith(v, u, l, s) ==
    \/ v = ProcessMisses(s, u)
    \/ Len(l) > 0 /\ u <= l[Len(l)].at /\ Alike(v, s)

(* From some time on it makes no difference which of two columns is played.*)
Catches(r, s, after) ==
    /\ r.pressed = s.pressed
    /\ \A t \in Nat : t >= after => ProcessMisses(r, t) = ProcessMisses(s, t)

Recorded(h) ==
    /\ live.judged = ProcessMisses(h[Len(log)], LastTick).judged
    /\ live.empties = h[Len(log)].empties

Replayed(h) ==
    \E j \in 0..Len(log) :
        /\ left = (j + 1)..Len(log)
        /\ \E after \in 0..now :
              (\A i \in left : after <= log[i].at) /\ Catches(replay, h[j], after)

HistoryFits(h) ==
    /\ IsHistory(h, log)
    /\ phase = "playing" => replay = FreshColumn(chart) /\ LevelWith(live, updated, log, h[Len(log)])
    /\ phase = "replaying" => Recorded(h) /\ Replayed(h)
    /\ phase = "done" => SameScore

(* The player's column and the replay's belong to one history of columns.  *)
ReplayInv == punctual /\ InOrder => \E h : HistoryFits(h)

LEMMA HistoryGrows ==
    ASSUME ChartOK, NEW l \in Seq(KeyEvent), NEW e \in KeyEvent, NEW h, IsHistory(h, l)
    PROVE  \E g : IsHistory(g, Append(l, e)) /\ g[Len(l) + 1] = Take(h[Len(l)], e)
<1>1. Len(l) \in Nat
  OBVIOUS
<1>2. PICK n \in Nat : n = Len(l)
  BY <1>1
<1>3. PICK k : k = Append(l, e)
  OBVIOUS
<1>4. Len(k) = n + 1 /\ k[n + 1] = e /\ \A i \in 1..n : k[i] = l[i]
  BY <1>2, <1>3
<1>5. PICK last : last = Take(h[n], e)
  OBVIOUS
<1>6. PICK g : g = [i \in 0..(n + 1) |-> IF i <= n THEN h[i] ELSE last]
  OBVIOUS
<1>7. /\ DOMAIN g = 0..(n + 1) /\ g[n + 1] = last
      /\ \A i \in 0..n : g[i] = h[i]
  BY <1>6
<1>8. ColumnInv(last)
  BY <1>2, <1>5, TakeSound DEF IsHistory
<1>9. \A i \in 0..(n + 1) : ColumnInv(g[i])
  BY <1>2, <1>7, <1>8 DEF IsHistory
<1>10. ASSUME NEW i \in 1..(n + 1) PROVE g[i] = Take(g[i - 1], k[i])
  <2>1. CASE i = n + 1
    BY <1>4, <1>5, <1>7, <2>1
  <2>2. CASE i # n + 1
    <3>1. i \in 1..n /\ i - 1 \in 0..n
      BY <2>2
    <3>2. h[i] = Take(h[i - 1], l[i])
      BY <1>2, <3>1 DEF IsHistory
    <3>3. QED
      BY <1>4, <1>7, <3>1, <3>2
  <2>3. QED
    BY <2>1, <2>2
<1>11. g[0] = FreshColumn(chart)
  BY <1>2, <1>7 DEF IsHistory
<1>12. IsHistory(g, k)
  BY <1>4, <1>7, <1>9, <1>10, <1>11 DEF IsHistory
<1>13. QED
  BY <1>2, <1>3, <1>5, <1>7, <1>12

(* A log in order was in order before its last event.                      *)
LEMMA OrderBefore ==
    ASSUME JudgingTypeOK, NEW e \in KeyEvent, log' = Append(log, e), InOrder'
    PROVE  InOrder /\ (Len(log) > 0 => log[Len(log)].at < e.at)
<1>1. log \in Seq(KeyEvent)
  BY DEF JudgingTypeOK
<1>2. /\ DOMAIN log' = 1..(Len(log) + 1) /\ log'[Len(log) + 1] = e
      /\ Len(log) \in Nat /\ DOMAIN log = 1..Len(log)
      /\ \A i \in 1..Len(log) : log'[i] = log[i]
  BY <1>1
<1>3. \A i, j \in DOMAIN log' : i < j => log'[i].at < log'[j].at
  BY DEF InOrder
<1>4. InOrder
  BY <1>2, <1>3 DEF InOrder
<1>5. ASSUME Len(log) > 0 PROVE log[Len(log)].at < e.at
  BY <1>2, <1>3, <1>5
<1>6. QED
  BY <1>4, <1>5

LEMMA HistoryStays ==
    ASSUME chart' = chart
    PROVE  \A h, l : IsHistory(h, l)' <=> IsHistory(h, l)
BY TakeStays, ColumnInvStays DEF IsHistory, FreshColumn

LEMMA LevelWithStays ==
    ASSUME chart' = chart
    PROVE  \A v, u, l, s : LevelWith(v, u, l, s)' <=> LevelWith(v, u, l, s)
BY MissesStay DEF LevelWith, Alike

LEMMA CatchesStays ==
    ASSUME chart' = chart
    PROVE  \A r, s, after : Catches(r, s, after)' <=> Catches(r, s, after)
BY MissesStay DEF Catches

-----------------------------------------------------------------------------
(* NoteJudging: every step keeps the history.                              *)

LEMMA InitReplays == JudgingInit => ReplayInv
<1>1. SUFFICES ASSUME JudgingInit PROVE \E h : HistoryFits(h)
  BY DEF ReplayInv
<1>2. ChartOK /\ phase = "playing" /\ log = << >> /\ updated = 0
      /\ live = FreshColumn(chart) /\ replay = FreshColumn(chart)
  BY <1>1, ChartIsOK DEF JudgingInit
<1>3. PICK s : s = FreshColumn(chart)
  OBVIOUS
<1>4. ColumnInv(s) /\ s \in Column
  BY <1>2, <1>3, FreshColumnInv DEF ColumnInv
<1>5. PICK h : h = [i \in 0..0 |-> s]
  OBVIOUS
<1>6. DOMAIN h = 0..0 /\ h[0] = s
  BY <1>5
<1>7. Len(log) = 0
  BY <1>2
<1>8. IsHistory(h, log)
  BY <1>3, <1>4, <1>6, <1>7 DEF IsHistory
<1>9. s = ProcessMisses(s, 0)
  <2>1. PICK p : p = ProcessMisses(s, 0)
    OBVIOUS
  <2>2. p \in Column
    BY <1>2, <1>4, <2>1, MissesSound DEF ColumnInv
  <2>3. /\ s.current = 1 /\ s.lnKey = NoKey
        /\ \A i \in Notes : s.judged[i] = None
    BY <1>3 DEF FreshColumn, Notes
  <2>4. Unjudged(s) = Notes /\ Unjudged(s) \in SUBSET Nat
    BY <1>2, <1>4, <2>3, UnjudgedFacts DEF ColumnInv, Judged
  <2>5. \A i \in Notes : ~Due(0, i)
    BY <1>2, WindowsAssumption DEF Due, Deviation, ChartOK
  <2>6. ASSUME NEW i \in Notes PROVE ~SkippedEnd(s, 0, i)
    BY <2>4, <2>5 DEF SkippedEnd
  <2>7. Waiting(s, 0) = Notes
    BY <2>4, <2>5, <2>6 DEF Waiting
  <2>8. Len(chart) \in Nat
    BY <1>2 DEF ChartOK
  <2>9. Stop(s, 0) = 1
    <3>1. CASE Notes = {}
      BY <2>7, <2>8, <3>1 DEF Stop, Notes
    <3>2. CASE Notes # {}
      <4>1. 1 \in Notes /\ Notes \in SUBSET Nat
        BY <2>8, <3>2 DEF Notes
      <4>2. First(Notes) \in Notes /\ First(Notes) <= 1
        BY <4>1, FirstIsLeast
      <4>3. First(Notes) = 1
        BY <4>2 DEF Notes
      <4>4. QED
        BY <2>7, <3>2, <4>3 DEF Stop
    <3>3. QED
      BY <3>1, <3>2
  <2>10. Passed(s, 0) = {}
    BY <2>4, <2>8, <2>9 DEF Passed, Notes
  <2>11. /\ p.judged = [i \in Notes |-> IF i \notin Passed(s, 0) THEN s.judged[i] ELSE Missed(s, 0, i)]
         /\ p.current = Stop(s, 0)
         /\ p.lnBegin = s.lnBegin /\ p.pressed = s.pressed /\ p.empties = s.empties
         /\ p.lnKey = IF \E i \in Passed(s, 0) : Kind(i) # "Normal" THEN NoKey ELSE s.lnKey
    BY <1>4, <2>1, MissesFields
  <2>12. p.judged = s.judged
    BY <1>4, <2>10, <2>11 DEF Column
  <2>13. s = p
    BY <1>4, <2>2, <2>3, <2>9, <2>10, <2>11, <2>12, ColumnsEqual
  <2>14. QED
    BY <2>1, <2>13
<1>10. LevelWith(live, updated, log, h[Len(log)])
  BY <1>2, <1>3, <1>6, <1>7, <1>9 DEF LevelWith
<1>11. HistoryFits(h)
  BY <1>2, <1>8, <1>10 DEF HistoryFits
<1>12. QED
  BY <1>11

(* An update brings the column to where a replay is at that time.          *)
LEMMA UpdateReplays ==
    ASSUME JudgingInv, ReplayInv, Update
    PROVE  ReplayInv'
<1>1. JudgingTypeOK /\ ColumnInv(live) /\ ChartOK
  BY ChartIsOK DEF JudgingInv, JudgingTypeOK
<1>2. /\ phase = "playing" /\ updated < now /\ live' = ProcessMisses(live, now) /\ updated' = now
      /\ chart' = chart /\ phase' = phase /\ log' = log /\ punctual' = punctual /\ replay' = replay
  BY DEF Update
<1>3. SUFFICES ASSUME punctual', InOrder' PROVE \E h : HistoryFits(h)'
  BY DEF ReplayInv
<1>4. PICK h : HistoryFits(h)
  BY <1>2, <1>3 DEF ReplayInv, InOrder
<1>5. IsHistory(h, log) /\ replay = FreshColumn(chart) /\ LevelWith(live, updated, log, h[Len(log)])
  BY <1>2, <1>4 DEF HistoryFits
<1>6. PICK s : s = h[Len(log)]
  OBVIOUS
<1>7. ColumnInv(s)
  BY <1>1, <1>5, <1>6 DEF IsHistory, JudgingTypeOK
<1>8. now \in Nat /\ updated \in Nat
  BY <1>1, WindowsAssumption DEF JudgingTypeOK
<1>9. live' = ProcessMisses(s, now)
  <2>1. CASE live = ProcessMisses(s, updated)
    BY <1>1, <1>2, <1>7, <1>8, <2>1, MissesAbsorb
  <2>2. CASE Alike(live, s)
    BY <1>1, <1>2, <1>7, <2>2, MissesAlike
  <2>3. QED
    BY <1>5, <1>6, <2>1, <2>2 DEF LevelWith
<1>10. LevelWith(live', updated', log', h[Len(log)])
  BY <1>2, <1>6, <1>9 DEF LevelWith
<1>11. LevelWith(live, updated, log, h[Len(log)])'
  BY <1>2, <1>10, LevelWithStays
<1>12. IsHistory(h, log)'
  BY <1>2, <1>5, HistoryStays
<1>13. HistoryFits(h)'
  BY <1>2, <1>5, <1>11, <1>12 DEF HistoryFits, FreshColumn
<1>14. QED
  BY <1>13

LEMMA TickReplays ==
    ASSUME JudgingInv, ReplayInv, Tick
    PROVE  ReplayInv'
<1>1. /\ phase = "playing"
      /\ chart' = chart /\ phase' = phase /\ log' = log /\ punctual' = punctual
      /\ replay' = replay /\ live' = live /\ updated' = updated
  BY DEF Tick
<1>2. SUFFICES ASSUME punctual', InOrder' PROVE \E h : HistoryFits(h)'
  BY DEF ReplayInv
<1>3. PICK h : HistoryFits(h)
  BY <1>1, <1>2 DEF ReplayInv, InOrder
<1>4. IsHistory(h, log) /\ replay = FreshColumn(chart) /\ LevelWith(live, updated, log, h[Len(log)])
  BY <1>1, <1>3 DEF HistoryFits
<1>5. IsHistory(h, log)' /\ LevelWith(live, updated, log, h[Len(log)])'
  BY <1>1, <1>4, HistoryStays, LevelWithStays
<1>6. HistoryFits(h)'
  BY <1>1, <1>4, <1>5 DEF HistoryFits, FreshColumn
<1>7. QED
  BY <1>6

(* The history of a log that has grown by an event.                        *)
LEMMA GrownHistoryFits ==
    ASSUME JudgingTypeOK, ChartOK, NEW e \in KeyEvent, log' = Append(log, e), chart' = chart,
           phase = "playing", phase' = phase, replay = FreshColumn(chart), replay' = replay,
           NEW h, IsHistory(h, log), NEW s, s = h[Len(log)],
           \/ live' = Take(s, e)
           \/ Alike(live', Take(s, e)),
           updated' <= e.at
    PROVE  \E g : HistoryFits(g)'
<1>1. log \in Seq(KeyEvent)
  BY DEF JudgingTypeOK
<1>2. PICK g : IsHistory(g, Append(log, e)) /\ g[Len(log) + 1] = Take(s, e)
  BY <1>1, HistoryGrows
<1>3. Len(log') = Len(log) + 1 /\ log'[Len(log')] = e /\ Len(log') > 0
  BY <1>1
<1>4. PICK u : u = Take(s, e)
  OBVIOUS
<1>5. Alike(live', u)
  BY <1>4 DEF Alike
<1>6. LevelWith(live', updated', log', g[Len(log')])
  BY <1>2, <1>3, <1>4, <1>5 DEF LevelWith
<1>7. LevelWith(live, updated, log, g[Len(log)])'
  BY <1>6, LevelWithStays
<1>8. IsHistory(g, log)'
  BY <1>2, HistoryStays
<1>9. HistoryFits(g)'
  BY <1>7, <1>8 DEF HistoryFits, FreshColumn
<1>10. QED
  BY <1>9

LEMMA LastIsTimed ==
    ASSUME JudgingTypeOK, Len(log) > 0
    PROVE  log[Len(log)].at \in Nat
<1>1. log \in Seq(KeyEvent)
  BY DEF JudgingTypeOK
<1>2. log[Len(log)] \in KeyEvent
  BY <1>1
<1>3. QED
  BY <1>2 DEF KeyEvent

(* A pass leaves the keys alone, so a key event that is recorded is taken. *)
LEMMA SameKeys ==
    ASSUME ChartOK, NEW s, ColumnInv(s), NEW l, NEW v, NEW u, LevelWith(v, u, l, s)
    PROVE  v.pressed = s.pressed
<1>1. CASE v = ProcessMisses(s, u)
  BY <1>1, MissesFields DEF ColumnInv
<1>2. CASE Alike(v, s)
  BY <1>2 DEF Alike
<1>3. QED
  BY <1>1, <1>2 DEF LevelWith

(* A press the column is up to date for is the press of the replay.        *)
LEMMA PressReplays ==
    ASSUME JudgingInv, ReplayInv, NEW k \in NoteKeys, NEW t \in (now - 1)..now, PassPressed(k, t)
    PROVE  ReplayInv'
<1>1. JudgingTypeOK /\ ColumnInv(live) /\ ChartOK
  BY ChartIsOK DEF JudgingInv, JudgingTypeOK
<1>2. t \in Nat
  BY <1>1, KeyTimeIsNat DEF PassPressed
<1>3. PICK e : e = [action |-> "Press", key |-> k, at |-> t]
  OBVIOUS
<1>4. e \in KeyEvent /\ e.action = "Press" /\ e.key = k /\ e.at = t
  BY <1>2, <1>3 DEF KeyEvent
<1>5. /\ phase = "playing" /\ k \notin live.pressed
      /\ live' = Press(live, t, k) /\ log' = Append(log, e)
      /\ punctual' = (punctual /\ updated = t)
      /\ chart' = chart /\ phase' = phase /\ updated' = updated /\ replay' = replay
  BY <1>3 DEF PassPressed, KeyTime
<1>6. SUFFICES ASSUME punctual', InOrder' PROVE \E h : HistoryFits(h)'
  BY DEF ReplayInv
<1>7. punctual /\ updated = t
  BY <1>5, <1>6
<1>8. InOrder /\ (Len(log) > 0 => log[Len(log)].at < t)
  BY <1>1, <1>4, <1>5, <1>6, OrderBefore
<1>9. PICK h : HistoryFits(h)
  BY <1>7, <1>8 DEF ReplayInv
<1>10. PICK s : s = h[Len(log)]
  OBVIOUS
<1>11. IsHistory(h, log) /\ replay = FreshColumn(chart) /\ LevelWith(live, updated, log, s)
  BY <1>5, <1>9, <1>10 DEF HistoryFits
<1>12. ColumnInv(s)
  BY <1>1, <1>10, <1>11 DEF IsHistory, JudgingTypeOK
<1>13. live = ProcessMisses(s, t)
  <2>1. CASE Len(log) > 0 /\ updated <= log[Len(log)].at
    <3>1. log[Len(log)].at \in Nat
      BY <1>1, <2>1, LastIsTimed
    <3>2. QED
      BY <1>2, <1>7, <1>8, <2>1, <3>1
  <2>2. QED
    BY <1>7, <1>11, <2>1 DEF LevelWith
<1>14. s.pressed = live.pressed
  BY <1>1, <1>11, <1>12, SameKeys
<1>15. live' = Take(s, e)
  BY <1>4, <1>5, <1>13, <1>14 DEF Take
<1>16. QED
  BY <1>1, <1>2, <1>4, <1>5, <1>7, <1>10, <1>11, <1>15, GrownHistoryFits

(* A release is logged with the time of the end it judges: by then nothing *)
(* else was missed, and the end is given the same grade.                   *)
LEMMA ReleaseReplays ==
    ASSUME JudgingInv, ReplayInv, NEW k \in NoteKeys, NEW t \in (now - 1)..now, PassReleased(k, t)
    PROVE  ReplayInv'
<1>1. JudgingTypeOK /\ ColumnInv(live) /\ ChartOK
  BY ChartIsOK DEF JudgingInv, JudgingTypeOK
<1>2. t \in Nat
  BY <1>1, KeyTimeIsNat DEF PassReleased
<1>3. PICK a : a = LoggedAt(live, t, k)
  OBVIOUS
<1>4. PICK e : e = [action |-> "Release", key |-> k, at |-> a]
  OBVIOUS
<1>5. e \in KeyEvent /\ e.action = "Release" /\ e.key = k /\ e.at = a /\ a \in Nat
  <2>1. a \in Nat
    BY <1>1, <1>2, <1>3, LoggedAtIsNat
  <2>2. QED
    BY <1>4, <2>1 DEF KeyEvent
<1>6. /\ phase = "playing" /\ k \in live.pressed
      /\ live' = Release(live, t, k) /\ log' = Append(log, e)
      /\ punctual' = (punctual /\ updated = t)
      /\ chart' = chart /\ phase' = phase /\ updated' = updated /\ replay' = replay
  BY <1>3, <1>4 DEF PassReleased, KeyTime
<1>7. SUFFICES ASSUME punctual', InOrder' PROVE \E h : HistoryFits(h)'
  BY DEF ReplayInv
<1>8. punctual /\ updated = t
  BY <1>6, <1>7
<1>9. InOrder /\ (Len(log) > 0 => log[Len(log)].at < a)
  BY <1>1, <1>5, <1>6, <1>7, OrderBefore
<1>10. PICK h : HistoryFits(h)
  BY <1>8, <1>9 DEF ReplayInv
<1>11. PICK s : s = h[Len(log)]
  OBVIOUS
<1>12. IsHistory(h, log) /\ replay = FreshColumn(chart) /\ LevelWith(live, updated, log, s)
  BY <1>6, <1>10, <1>11 DEF HistoryFits
<1>13. ColumnInv(s)
  BY <1>1, <1>11, <1>12 DEF IsHistory, JudgingTypeOK
<1>14. s.pressed = live.pressed
  BY <1>1, <1>12, <1>13, SameKeys
<1>15. Take(s, e) = Release(ProcessMisses(s, a), a, k)
  BY <1>5, <1>6, <1>14 DEF Take
<1>16. Len(log) > 0 => log[Len(log)].at \in Nat
  BY <1>1, LastIsTimed
<1>17. live = ProcessMisses(s, t) \/ (t < a /\ Alike(live, s))
  BY <1>2, <1>5, <1>8, <1>9, <1>12, <1>16 DEF LevelWith
<1>18. (live' = Take(s, e) \/ Alike(live', Take(s, e))) /\ t <= a
  <2>1. CASE Released(live, k) = {}
    <3>1. a = t
      BY <1>3, <2>1 DEF LoggedAt
    <3>2. QED
      BY <1>2, <1>6, <1>15, <1>17, <3>1
  <2>2. CASE Released(live, k) # {}
    <3>1. PICK x \in Released(live, k) : TRUE
      BY <2>2
    <3>2. First(Released(live, k)) = x /\ x \in Notes /\ Kind(x) = "LnEnd"
      BY <1>1, <3>1, ReleasedFacts
    <3>3. CASE TooEarly(t, x)
      <4>1. a = t
        BY <1>3, <3>2, <3>3 DEF LoggedAt
      <4>2. QED
        BY <1>2, <1>6, <1>15, <1>17, <4>1
    <3>4. CASE ~TooEarly(t, x)
      <4>1. a = chart[x].time
        BY <1>3, <2>2, <3>2, <3>4 DEF LoggedAt
      <4>2. t <= a
        <5>1. CASE live = ProcessMisses(s, t)
          <6>1. ~Due(t, x)
            BY <1>1, <1>13, <3>1, <5>1, NextIsNotDue
          <6>2. QED
            BY <1>2, <1>5, <3>2, <4>1, <6>1 DEF Due, Deviation
        <5>2. QED
          BY <1>2, <1>5, <1>17, <5>1
      <4>3. ~Due(a, x) /\ ~TooEarly(a, x)
        BY <1>5, <4>1, WindowsAssumption DEF Due, TooEarly, Deviation
      <4>4. ProcessMisses(s, a) = ProcessMisses(live, a)
        <5>1. CASE live = ProcessMisses(s, t)
          BY <1>1, <1>2, <1>5, <1>13, <4>2, <5>1, MissesAbsorb
        <5>2. CASE Alike(live, s)
          BY <1>1, <1>13, <5>2, MissesAlike
        <5>3. QED
          BY <1>17, <5>1, <5>2
      <4>5. PICK c : c = ProcessMisses(live, a)
        OBVIOUS
      <4>6. ColumnInv(c) /\ Alike(live, c)
        BY <1>1, <3>1, <4>3, <4>5, MissesSound, NothingMissed DEF Alike
      <4>7. Alike(Release(live, t, k), Release(c, a, k))
        BY <1>1, <3>1, <3>4, <4>3, <4>6, ReleaseInTime
      <4>8. QED
        BY <1>6, <1>15, <4>2, <4>4, <4>5, <4>7
    <3>5. QED
      BY <3>3, <3>4
  <2>3. QED
    BY <2>1, <2>2
<1>19. updated' <= e.at
  BY <1>5, <1>6, <1>8, <1>18
<1>20. QED
  BY <1>1, <1>5, <1>6, <1>11, <1>12, <1>18, <1>19, GrownHistoryFits

(* The play ends: its last update is the one the replay ends with.         *)
LEMMA FinishReplays ==
    ASSUME JudgingInv, ReplayInv, Finish
    PROVE  ReplayInv'
<1>1. JudgingTypeOK /\ ColumnInv(live) /\ ChartOK
  BY ChartIsOK DEF JudgingInv, JudgingTypeOK
<1>2. PICK p : p = ProcessMisses(live, LastTick)
  OBVIOUS
<1>3. /\ phase = "playing" /\ phase' = "replaying" /\ live' = [p EXCEPT !.pressed = {}]
      /\ now' = 0 /\ left' = DOMAIN log
      /\ chart' = chart /\ log' = log /\ punctual' = punctual /\ replay' = replay
  BY <1>2 DEF Finish
<1>4. SUFFICES ASSUME punctual', InOrder' PROVE \E h : HistoryFits(h)'
  BY DEF ReplayInv
<1>5. PICK h : HistoryFits(h)
  BY <1>3, <1>4 DEF ReplayInv, InOrder
<1>6. PICK n : n = Len(log)
  OBVIOUS
<1>7. PICK s : s = h[n]
  OBVIOUS
<1>8. IsHistory(h, log) /\ replay = FreshColumn(chart) /\ LevelWith(live, updated, log, s)
  BY <1>3, <1>5, <1>6, <1>7 DEF HistoryFits
<1>9. n \in Nat /\ DOMAIN log = 1..n /\ \A i \in 1..n : log[i].at \in Nat
  <2>1. log \in Seq(KeyEvent)
    BY <1>1 DEF JudgingTypeOK
  <2>2. n \in Nat /\ DOMAIN log = 1..n /\ \A i \in 1..n : log[i] \in KeyEvent
    BY <1>6, <2>1
  <2>3. QED
    BY <2>2 DEF KeyEvent
<1>10. ColumnInv(s) /\ s \in Column
  BY <1>6, <1>7, <1>8, <1>9 DEF IsHistory, ColumnInv
<1>11. updated \in Nat /\ LastTick \in Nat /\ updated <= LastTick
  BY <1>1, WindowsAssumption DEF JudgingTypeOK
<1>12. p = ProcessMisses(s, LastTick)
  <2>1. CASE live = ProcessMisses(s, updated)
    BY <1>1, <1>2, <1>10, <1>11, <2>1, MissesAbsorb
  <2>2. CASE Alike(live, s)
    BY <1>1, <1>2, <1>10, <2>2, MissesAlike
  <2>3. QED
    BY <1>8, <2>1, <2>2 DEF LevelWith
<1>13. p \in Column /\ p.empties = s.empties
  <2>1. p.empties = s.empties
    BY <1>10, <1>12, MissesFields
  <2>2. QED
    BY <1>1, <1>2, <2>1, MissesSound DEF ColumnInv
<1>14. live'.judged = p.judged /\ live'.empties = s.empties
  BY <1>3, <1>13 DEF Column
<1>15. Recorded(h)'
  BY <1>3, <1>6, <1>7, <1>12, <1>14, MissesStay DEF Recorded
<1>16. Catches(replay, h[0], 0)'
  <2>1. replay' = h[0]
    BY <1>3, <1>8 DEF IsHistory
  <2>2. QED
    BY <2>1 DEF Catches
<1>17. Replayed(h)'
  <2>1. left' = (0 + 1)..n /\ Len(log') = n /\ 0 \in 0..n /\ 0 \in 0..now'
    BY <1>3, <1>6, <1>9
  <2>2. \A i \in left' : 0 <= log'[i].at
    BY <1>3, <1>9
  <2>3. QED
    BY <1>16, <2>1, <2>2 DEF Replayed
<1>18. IsHistory(h, log)'
  BY <1>3, <1>8, HistoryStays
<1>19. HistoryFits(h)'
  BY <1>3, <1>15, <1>17, <1>18 DEF HistoryFits
<1>20. QED
  BY <1>19

(* The event that is due next is the next of the history: the order of the *)
(* log is the order of the replay.                                         *)
LEMMA EventReplays ==
    ASSUME JudgingInv, ReplayInv, NEW i \in left, ReplayEvent(i)
    PROVE  ReplayInv'
<1>1. JudgingTypeOK /\ ChartOK /\ log \in Seq(KeyEvent)
  BY ChartIsOK DEF JudgingInv, JudgingTypeOK
<1>2. /\ phase = "replaying" /\ NextDue(i)
      /\ replay' = Take(replay, log[i]) /\ left' = left \ {i}
      /\ chart' = chart /\ phase' = phase /\ now' = now /\ live' = live
      /\ log' = log /\ punctual' = punctual
  BY DEF ReplayEvent
<1>3. SUFFICES ASSUME punctual', InOrder' PROVE \E h : HistoryFits(h)'
  BY DEF ReplayInv
<1>4. InOrder
  BY <1>2, <1>3 DEF InOrder
<1>5. PICK h : HistoryFits(h)
  BY <1>2, <1>3, <1>4 DEF ReplayInv
<1>6. IsHistory(h, log) /\ Recorded(h) /\ Replayed(h)
  BY <1>2, <1>5 DEF HistoryFits
<1>7. PICK n \in Nat : n = Len(log)
  BY <1>1
<1>8. PICK j \in 0..n :
         /\ left = (j + 1)..n
         /\ \E after \in 0..now :
               (\A m \in left : after <= log[m].at) /\ Catches(replay, h[j], after)
  BY <1>6, <1>7 DEF Replayed
<1>9. PICK after \in 0..now :
         (\A m \in left : after <= log[m].at) /\ Catches(replay, h[j], after)
  BY <1>8
<1>10. DOMAIN log = 1..n /\ \A m \in 1..n : log[m] \in KeyEvent /\ log[m].at \in Nat
  <2>1. DOMAIN log = 1..n /\ \A m \in 1..n : log[m] \in KeyEvent
    BY <1>1, <1>7
  <2>2. QED
    BY <2>1 DEF KeyEvent
<1>11. i = j + 1
  <2>1. SUFFICES ASSUME i # j + 1 PROVE FALSE
    OBVIOUS
  <2>2. i \in (j + 1)..n /\ j + 1 < i /\ j + 1 \in left /\ j + 1 \in 1..n /\ i \in 1..n
    BY <1>8, <2>1
  <2>3. log[j + 1].at < log[i].at
    BY <1>4, <1>10, <2>2 DEF InOrder
  <2>4. log[i].at <= log[j + 1].at
    BY <1>2, <2>2 DEF NextDue
  <2>5. QED
    BY <1>10, <2>2, <2>3, <2>4
<1>12. PICK e : e = log[i]
  OBVIOUS
<1>13. e \in KeyEvent /\ e.at \in Nat /\ after <= e.at /\ i \in 1..n /\ after \in Nat
  <2>1. i \in 1..n
    BY <1>8, <1>11
  <2>2. QED
    BY <1>9, <1>10, <1>12, <2>1
<1>14. ProcessMisses(replay, e.at) = ProcessMisses(h[j], e.at) /\ replay.pressed = h[j].pressed
  BY <1>9, <1>13 DEF Catches
<1>15. replay' = Take(h[j], e)
  <2>1. replay' = Take(replay, e)
    BY <1>2, <1>12
  <2>2. QED
    BY <1>14, <2>1 DEF Take
<1>16. replay' = h[i]
  <2>1. h[i] = Take(h[i - 1], log[i]) /\ i - 1 = j
    BY <1>6, <1>7, <1>11, <1>13 DEF IsHistory
  <2>2. QED
    BY <1>12, <1>15, <2>1
<1>17. Catches(replay, h[i], after)'
  BY <1>16 DEF Catches
<1>18. left' = (i + 1)..n
  BY <1>2, <1>8, <1>11
<1>19. Replayed(h)'
  <2>1. i \in 0..Len(log') /\ left' = (i + 1)..Len(log') /\ after \in 0..now'
    BY <1>2, <1>7, <1>13, <1>18
  <2>2. \A m \in left' : after <= log'[m].at
    BY <1>2, <1>9
  <2>3. QED
    BY <1>17, <2>1, <2>2 DEF Replayed
<1>20. Recorded(h)'
  BY <1>2, <1>6, MissesStay DEF Recorded
<1>21. IsHistory(h, log)'
  BY <1>2, <1>6, HistoryStays
<1>22. HistoryFits(h)'
  BY <1>2, <1>19, <1>20, <1>21 DEF HistoryFits
<1>23. QED
  BY <1>22

(* A frame is an update between two events, which the next one swallows.   *)
LEMMA FrameReplays ==
    ASSUME JudgingInv, ReplayInv, ReplayFrame
    PROVE  ReplayInv'
<1>1. JudgingTypeOK /\ ColumnInv(replay) /\ ChartOK /\ log \in Seq(KeyEvent)
  BY ChartIsOK DEF JudgingInv, JudgingTypeOK
<1>2. /\ phase = "replaying" /\ \A m \in left : log[m].at > now
      /\ now < LastTick /\ now' \in {now + 1, LastTick}
      /\ replay' = ProcessMisses(replay, now) /\ left' = left
      /\ chart' = chart /\ phase' = phase /\ live' = live
      /\ log' = log /\ punctual' = punctual
  BY DEF ReplayFrame
<1>3. SUFFICES ASSUME punctual', InOrder' PROVE \E h : HistoryFits(h)'
  BY DEF ReplayInv
<1>4. PICK h : HistoryFits(h)
  BY <1>2, <1>3 DEF ReplayInv, InOrder
<1>5. IsHistory(h, log) /\ Recorded(h) /\ Replayed(h)
  BY <1>2, <1>4 DEF HistoryFits
<1>6. PICK n \in Nat : n = Len(log)
  BY <1>1
<1>7. PICK j \in 0..n :
         /\ left = (j + 1)..n
         /\ \E after \in 0..now :
               (\A m \in left : after <= log[m].at) /\ Catches(replay, h[j], after)
  BY <1>5, <1>6 DEF Replayed
<1>8. PICK after \in 0..now : Catches(replay, h[j], after)
  BY <1>7
<1>9. now \in Nat /\ LastTick \in Nat /\ after \in Nat /\ after <= now
  BY <1>1, WindowsAssumption DEF JudgingTypeOK
<1>10. replay \in Column
  BY <1>1 DEF JudgingTypeOK
<1>11. Catches(replay', h[j], now)
  <2>1. replay'.pressed = replay.pressed
    BY <1>2, <1>10, MissesFields
  <2>2. ASSUME NEW t \in Nat, t >= now
        PROVE  ProcessMisses(replay', t) = ProcessMisses(h[j], t)
    <3>1. ProcessMisses(ProcessMisses(replay, now), t) = ProcessMisses(replay, t)
      BY <1>1, <1>9, <2>2, MissesAbsorb
    <3>2. ProcessMisses(replay, t) = ProcessMisses(h[j], t)
      BY <1>8, <1>9, <2>2 DEF Catches
    <3>3. QED
      BY <1>2, <3>1, <3>2
  <2>3. QED
    BY <1>8, <2>1, <2>2 DEF Catches
<1>12. PICK m \in Nat : m = now
  BY <1>9
<1>13. Catches(replay, h[j], m)'
  BY <1>2, <1>11, <1>12, CatchesStays
<1>14. Replayed(h)'
  <2>1. j \in 0..Len(log') /\ left' = (j + 1)..Len(log') /\ m \in 0..now'
    BY <1>2, <1>6, <1>7, <1>9, <1>12
  <2>2. \A x \in left' : m <= log'[x].at
    <3>1. \A x \in left : log[x].at \in Nat
      <4>1. \A x \in left : log[x] \in KeyEvent
        BY <1>1 DEF JudgingTypeOK
      <4>2. QED
        BY <4>1 DEF KeyEvent
    <3>2. QED
      BY <1>2, <1>12, <3>1
  <2>3. QED
    BY <1>13, <2>1, <2>2 DEF Replayed
<1>15. Recorded(h)'
  BY <1>2, <1>5, MissesStay DEF Recorded
<1>16. IsHistory(h, log)'
  BY <1>2, <1>5, HistoryStays
<1>17. HistoryFits(h)'
  BY <1>2, <1>14, <1>15, <1>16 DEF HistoryFits
<1>18. QED
  BY <1>17

(* The replay ends as the play did: with a pass beyond every window.       *)
LEMMA EndReplays ==
    ASSUME JudgingInv, ReplayInv, ReplayEnds
    PROVE  ReplayInv'
<1>1. JudgingTypeOK /\ ColumnInv(replay) /\ ChartOK /\ log \in Seq(KeyEvent)
  BY ChartIsOK DEF JudgingInv, JudgingTypeOK
<1>2. /\ phase = "replaying" /\ now = LastTick /\ left = {}
      /\ replay' = ProcessMisses(replay, LastTick) /\ phase' = "done"
      /\ chart' = chart /\ live' = live /\ log' = log /\ punctual' = punctual
  BY DEF ReplayEnds
<1>3. SUFFICES ASSUME punctual', InOrder' PROVE \E h : HistoryFits(h)'
  BY DEF ReplayInv
<1>4. PICK h : HistoryFits(h)
  BY <1>2, <1>3 DEF ReplayInv, InOrder
<1>5. IsHistory(h, log) /\ Recorded(h) /\ Replayed(h)
  BY <1>2, <1>4 DEF HistoryFits
<1>6. PICK n \in Nat : n = Len(log)
  BY <1>1
<1>7. PICK j \in 0..n :
         left = (j + 1)..n /\ \E after \in 0..now : Catches(replay, h[j], after)
  BY <1>5, <1>6 DEF Replayed
<1>8. j = n
  BY <1>2, <1>7
<1>9. PICK s : s = h[n]
  OBVIOUS
<1>10. PICK after \in 0..now : Catches(replay, s, after)
  BY <1>7, <1>8, <1>9
<1>11. LastTick \in Nat /\ LastTick >= after
  BY <1>2, WindowsAssumption
<1>12. replay' = ProcessMisses(s, LastTick)
  BY <1>2, <1>10, <1>11 DEF Catches
<1>13. s \in Column
  BY <1>5, <1>6, <1>9 DEF IsHistory, ColumnInv
<1>14. replay'.judged = live'.judged /\ replay'.empties = live'.empties
  <2>1. replay'.empties = s.empties
    BY <1>12, <1>13, MissesFields
  <2>2. live.judged = ProcessMisses(s, LastTick).judged /\ live.empties = s.empties
    BY <1>5, <1>6, <1>9 DEF Recorded
  <2>3. QED
    BY <1>2, <1>12, <2>1, <2>2
<1>15. IsHistory(h, log)'
  BY <1>2, <1>5, HistoryStays
<1>16. HistoryFits(h)'
  BY <1>2, <1>14, <1>15 DEF HistoryFits, SameScore
<1>17. QED
  BY <1>16

LEMMA StutterReplays ==
    ASSUME ReplayInv, UNCHANGED judgingVars
    PROVE  ReplayInv'
<1>1. /\ chart' = chart /\ phase' = phase /\ now' = now /\ live' = live /\ updated' = updated
      /\ log' = log /\ punctual' = punctual /\ replay' = replay /\ left' = left
  BY DEF judgingVars
<1>2. SUFFICES ASSUME punctual', InOrder' PROVE \E h : HistoryFits(h)'
  BY DEF ReplayInv
<1>3. PICK h : HistoryFits(h)
  BY <1>1, <1>2 DEF ReplayInv, InOrder
<1>4. IsHistory(h, log)'
  BY <1>1, <1>3, HistoryStays DEF HistoryFits
<1>5. LevelWith(live, updated, log, h[Len(log)])' <=> LevelWith(live, updated, log, h[Len(log)])
  BY <1>1, LevelWithStays
<1>6. Recorded(h)' <=> Recorded(h)
  BY <1>1, MissesStay DEF Recorded
<1>7. Replayed(h)' <=> Replayed(h)
  BY <1>1, CatchesStays DEF Replayed
<1>8. HistoryFits(h)'
  BY <1>1, <1>3, <1>4, <1>5, <1>6, <1>7 DEF HistoryFits, FreshColumn, SameScore
<1>9. QED
  BY <1>8

LEMMA ReplayInvHolds == JudgingSpec => []ReplayInv
<1>1. JudgingInit => ReplayInv
  BY InitReplays
<1>2. JudgingInv /\ ReplayInv /\ [JudgingNext]_judgingVars => ReplayInv'
  <2>1. SUFFICES ASSUME JudgingInv, ReplayInv, [JudgingNext]_judgingVars PROVE ReplayInv'
    OBVIOUS
  <2>2. CASE Update
    BY <2>1, <2>2, UpdateReplays
  <2>3. CASE Tick
    BY <2>1, <2>3, TickReplays
  <2>4. ASSUME NEW k \in NoteKeys, NEW t \in (now - 1)..now, PassPressed(k, t) PROVE ReplayInv'
    BY <2>1, <2>4, PressReplays
  <2>5. ASSUME NEW k \in NoteKeys, NEW t \in (now - 1)..now, PassReleased(k, t) PROVE ReplayInv'
    BY <2>1, <2>5, ReleaseReplays
  <2>6. CASE Finish
    BY <2>1, <2>6, FinishReplays
  <2>7. ASSUME NEW i \in left, ReplayEvent(i) PROVE ReplayInv'
    BY <2>1, <2>7, EventReplays
  <2>8. CASE ReplayFrame
    BY <2>1, <2>8, FrameReplays
  <2>9. CASE ReplayEnds
    BY <2>1, <2>9, EndReplays
  <2>10. CASE UNCHANGED judgingVars
    BY <2>1, <2>10, StutterReplays
  <2>11. QED
    BY <2>1, <2>2, <2>3, <2>4, <2>5, <2>6, <2>7, <2>8, <2>9, <2>10 DEF JudgingNext
<1>3. QED
  BY <1>1, <1>2, Invariance, PTL DEF JudgingSpec

(* Whatever chart and however wide the windows, for any number of keys and *)
(* key events: the replay of a play whose key events found the column up   *)
(* to date, logged in the order they were made, gives every note the       *)
(* judgement it had and as many empty poors, whichever frames it skips.    *)
THEOREM PunctualIsReproduced == JudgingSpec => []PunctualPlayIsReproduced
<1>1. ReplayInv => PunctualPlayIsReproduced
  BY DEF ReplayInv, HistoryFits, PunctualPlayIsReproduced
<1>2. QED
  BY <1>1, ReplayInvHolds, PTL

-----------------------------------------------------------------------------
(* InputTranslator: the inductive invariant.                               *)

\* A release that waits is of the past, its timer ends no earlier than its interval,
\* and so does its deadline where it has one; what was reported of others is over.
Punctual(present, interval) ==
    {x \in ButtonState :
        /\ x.quiet <= present
        /\ x.pending # NoTime =>
              /\ x.pending \in Nat /\ x.pending <= present
              /\ x.due >= x.pending + interval
              /\ x.deadline # NoTime => x.deadline = x.pending + interval
              /\ ~x.physical}

GoodConfigs == {c \in Configs : OneKeyPerButton(c)}

\* Events are handled after they happened.
EventsArePast == \A s \in Sources : \A i \in 1..Len(raw[s]) : raw[s][i].time <= clock

InputInv ==
    /\ InputTypeOK
    /\ pad \in [Buttons -> Punctual(clock, debounce)]
    /\ EventsArePast

-----------------------------------------------------------------------------
(* One button.                                                             *)

\* No time is before every time.
LEMMA NoTimeIsBefore == NoTime \in Int /\ NoTime \notin Nat /\ \A t \in Nat : NoTime <= t
BY DEF NoTime

LEMMA TimesInButtonState ==
    ASSUME NEW x \in ButtonState, NEW p \in Int, NEW d \in Int, NEW e \in Int
    PROVE  /\ [x EXCEPT !.pending = p, !.deadline = d, !.due = e] \in ButtonState
           /\ [x EXCEPT !.deadline = d, !.due = e] \in ButtonState
BY DEF ButtonState

LEMMA FinishReleasePunctual ==
    ASSUME NEW present \in Nat, NEW interval \in Nat, NEW x \in Punctual(present, interval),
           NEW time \in Int, NEW quiet \in Int, quiet <= present
    PROVE  FinishRelease(x, time, quiet) \in Punctual(present, interval)
BY NoTimeIsBefore DEF FinishRelease, Punctual, ButtonState

LEMMA ReleaseAtOncePunctual ==
    ASSUME NEW present \in Nat, NEW interval \in Nat, NEW x \in Punctual(present, interval),
           NEW time \in Int
    PROVE  ReleaseAtOnce(x, time) \in Punctual(present, interval)
<1> DEFINE up == [x EXCEPT !.physical = FALSE]
<1>1. up \in Punctual(present, interval)
  BY NoTimeIsBefore DEF Punctual, ButtonState
<1>2. Settle(up) \in Punctual(present, interval)
  BY NoTimeIsBefore DEF Punctual, ButtonState, Settle
<1>3. FinishRelease(Settle(up), time, NoTime) \in Punctual(present, interval)
  BY <1>2, FinishReleasePunctual, NoTimeIsBefore
<1> QED
  BY <1>1, <1>3 DEF ReleaseAtOnce

LEMMA ReportPressPunctual ==
    ASSUME NEW present \in Nat, NEW interval \in Nat, NEW x \in ButtonState,
           x.quiet <= present, x.pending = NoTime, NEW time \in Int
    PROVE  ReportPress(x, time) \in Punctual(present, interval)
<1>1. [x EXCEPT !.logical = TRUE, !.pressed = time] \in ButtonState
  BY DEF ButtonState
<1>2. [x EXCEPT !.logical = TRUE, !.pressed = time].quiet <= present
      /\ [x EXCEPT !.logical = TRUE, !.pressed = time].pending = NoTime
  BY DEF ButtonState
<1>3. [x EXCEPT !.logical = TRUE, !.pressed = time] \in Punctual(present, interval)
  BY <1>1, <1>2 DEF Punctual
<1>4. x \in Punctual(present, interval)
  BY DEF Punctual
<1> QED
  BY <1>3, <1>4 DEF ReportPress

LEMMA PressButtonPunctual ==
    ASSUME clock \in Nat, debounce \in Nat, NEW x \in Punctual(clock, debounce),
           NEW time \in Nat, time <= clock
    PROVE  PressButton(x, time) \in Punctual(clock, debounce)
<1> DEFINE down == [x EXCEPT !.physical = TRUE]
<1>1. CASE x.physical
  BY <1>1 DEF PressButton
<1>2. CASE ~x.physical /\ x.pending = NoTime
  <2>1. down \in ButtonState /\ down.quiet <= clock /\ down.pending = NoTime
    BY <1>2 DEF Punctual, ButtonState
  <2>2. ReportPress(down, time) \in Punctual(clock, debounce)
    <3> HIDE DEF down
    <3> QED
      BY <2>1, ReportPressPunctual
  <2> QED
    BY <1>2, <2>2 DEF PressButton
<1>3. CASE ~x.physical /\ x.pending # NoTime
  <2>1. Settle(down) \in Punctual(clock, debounce)
    BY NoTimeIsBefore DEF Settle, Punctual, ButtonState
  <2>2. CASE (x.deadline = NoTime \/ time < x.deadline) /\ ~TimerElapsed(x)
    BY <1>3, <2>1, <2>2 DEF PressButton
  <2>3. CASE ~((x.deadline = NoTime \/ time < x.deadline) /\ ~TimerElapsed(x))
    <3>1. x.pending \in Nat /\ x.pending + debounce <= clock
      BY <1>3, <2>3, NoTimeIsBefore DEF TimerElapsed, Punctual, ButtonState
    <3>2. FinishRelease(Settle(down), x.pending, x.pending + debounce)
             \in Punctual(clock, debounce)
      BY <2>1, <3>1, FinishReleasePunctual
    <3>3. FinishRelease(Settle(down), x.pending, x.pending + debounce).pending = NoTime
      BY DEF FinishRelease, Settle, Punctual, ButtonState
    <3>4. ReportPress(FinishRelease(Settle(down), x.pending, x.pending + debounce), time)
             \in Punctual(clock, debounce)
      BY <3>2, <3>3, ReportPressPunctual DEF Punctual
    <3> QED
      BY <1>3, <2>3, <3>4 DEF PressButton
  <2> QED
    BY <2>2, <2>3
<1> QED
  BY <1>1, <1>2, <1>3

LEMMA ReleaseButtonPunctual ==
    ASSUME clock \in Nat, debounce \in Nat, NEW x \in Punctual(clock, debounce),
           NEW time \in Nat, time <= clock
    PROVE  ReleaseButton(x, time) \in Punctual(clock, debounce)
<1> DEFINE up == [x EXCEPT !.physical = FALSE]
<1>1. up \in Punctual(clock, debounce)
  BY NoTimeIsBefore DEF Punctual, ButtonState
<1> DEFINE waits == [up EXCEPT !.pending = time, !.deadline = time + debounce,
                               !.due = clock + debounce]
<1>2. waits \in Punctual(clock, debounce)
  <2>1. up \in ButtonState /\ ~up.physical /\ up.quiet <= clock
    BY <1>1 DEF Punctual, ButtonState
  <2>2. waits \in ButtonState
    <3>1. time \in Int /\ time + debounce \in Int /\ clock + debounce \in Int
      OBVIOUS
    <3> HIDE DEF up
    <3> QED
      BY <2>1, <3>1, TimesInButtonState
  <2>3. /\ waits.quiet = up.quiet /\ waits.physical = up.physical
        /\ waits.pending = time /\ waits.deadline = time + debounce
        /\ waits.due = clock + debounce
    BY <2>1 DEF ButtonState
  <2> HIDE DEF waits, up
  <2> QED
    BY <2>1, <2>2, <2>3 DEF Punctual
<1>3. ReleaseAtOnce(x, time) \in Punctual(clock, debounce)
  BY ReleaseAtOncePunctual
<1> QED
  BY <1>1, <1>2, <1>3 DEF ReleaseButton

\* A pending release is committed once its interval is over, and so nothing waits.
LEMMA CommitPunctual ==
    ASSUME NEW present \in Nat, NEW old \in Nat, NEW interval \in Nat, NEW wait \in Nat,
           NEW x \in Punctual(present, old), NEW due \in Int,
           x.pending # NoTime => x.pending + wait <= present
    PROVE  CommitPendingRelease([x EXCEPT !.due = due], wait) \in Punctual(present, interval)
<1> DEFINE y == [x EXCEPT !.due = due]
           z == [y EXCEPT !.pending = NoTime, !.deadline = NoTime]
<1>1. CASE x.pending = NoTime
  BY <1>1, NoTimeIsBefore DEF CommitPendingRelease, Punctual, ButtonState
<1>2. CASE x.pending # NoTime
  <2>1. y.pending = x.pending /\ y.physical = x.physical /\ ~x.physical /\ x.pending \in Nat
    BY <1>2 DEF Punctual, ButtonState
  <2>2. z \in Punctual(present, interval)
    BY NoTimeIsBefore DEF Punctual, ButtonState
  <2>3. FinishRelease(z, x.pending, x.pending + wait) \in Punctual(present, interval)
    BY <1>2, <2>1, <2>2, FinishReleasePunctual
  <2> QED
    BY <1>2, <2>1, <2>3 DEF CommitPendingRelease
<1> QED
  BY <1>1, <1>2

LEMMA RescheduledPunctual ==
    ASSUME clock \in Nat, debounce \in Nat, NEW interval \in Nat,
           NEW x \in Punctual(clock, debounce)
    PROVE  Rescheduled(x, interval) \in Punctual(clock, interval)
<1>1. CASE x.pending = NoTime
  BY <1>1 DEF Rescheduled, Punctual
<1>2. CASE x.pending # NoTime /\ interval = 0
  <2>1. x.pending # NoTime => x.pending + 0 <= clock
    BY DEF Punctual
  <2>2. CommitPendingRelease([x EXCEPT !.due = NoTime], 0) \in Punctual(clock, interval)
    BY <2>1, CommitPunctual, NoTimeIsBefore
  <2> QED
    BY <1>2, <2>2 DEF Rescheduled
<1>3. CASE x.pending # NoTime /\ interval # 0
  <2> DEFINE again == [x EXCEPT !.deadline = NoTime, !.due = clock + interval]
  <2>1. x \in ButtonState /\ ~x.physical /\ x.quiet <= clock
        /\ x.pending \in Nat /\ x.pending <= clock
    BY <1>3 DEF Punctual
  <2>2. again \in ButtonState
    <3>1. clock + interval \in Int
      OBVIOUS
    <3> QED
      BY <2>1, <3>1, NoTimeIsBefore, TimesInButtonState
  <2>3. /\ again.quiet = x.quiet /\ again.physical = x.physical
        /\ again.pending = x.pending /\ again.deadline = NoTime
        /\ again.due = clock + interval
    BY <2>1 DEF ButtonState
  <2>4. again \in Punctual(clock, interval)
    <3> HIDE DEF again
    <3> QED
      BY <2>1, <2>2, <2>3 DEF Punctual
  <2> QED
    BY <1>3, <2>4 DEF Rescheduled
<1> QED
  BY <1>1, <1>2, <1>3

-----------------------------------------------------------------------------
(* Bindings.                                                               *)

MapStates == [config : GoodConfigs, pad : [Buttons -> Punctual(clock, debounce)]]

LEMMA RemovalKeepsConfigGood ==
    ASSUME NEW c \in GoodConfigs, NEW b \in Buttons
    PROVE  /\ RemoveButtonMappings(c, b) \in GoodConfigs
           /\ \A k \in AllKeys : RemoveButtonMappings(c, b)[k] # b
BY InputAssumption DEF GoodConfigs, RemoveButtonMappings, Configs, OneKeyPerButton,
   InputAssumption

LEMMA UnbindKeepsState ==
    ASSUME clock \in Nat, debounce \in Nat,
           NEW s \in MapStates, NEW key \in AllKeys, NEW time \in Int
    PROVE  UnpressAndUnbind(s, key, time) \in MapStates
<1>1. CASE s.config[key] = NoButton
  BY <1>1 DEF UnpressAndUnbind
<1>2. CASE s.config[key] # NoButton
  <2>1. s.config \in GoodConfigs /\ s.pad \in [Buttons -> Punctual(clock, debounce)]
    BY DEF MapStates
  <2>2. s.config[key] \in Buttons
    BY <1>2, <2>1 DEF GoodConfigs, Configs
  <2>3. [s.config EXCEPT ![key] = NoButton] \in GoodConfigs
    BY <2>1 DEF GoodConfigs, Configs, OneKeyPerButton
  <2>4. ReleaseAtOnce(s.pad[s.config[key]], time) \in Punctual(clock, debounce)
    BY <2>1, <2>2, ReleaseAtOncePunctual
  <2>5. [s.pad EXCEPT ![s.config[key]] = ReleaseAtOnce(@, time)]
           \in [Buttons -> Punctual(clock, debounce)]
    BY <2>1, <2>2, <2>4
  <2> QED
    BY <1>2, <2>3, <2>5 DEF UnpressAndUnbind, MapStates
<1> QED
  BY <1>1, <1>2

LEMMA BindKeepsState ==
    ASSUME clock \in Nat, debounce \in Nat, NEW s \in MapStates,
           NEW key \in AllKeys, NEW b \in Buttons, NEW time \in Int
    PROVE  BindKeyToButton(s, key, b, time) \in MapStates
<1> DEFINE u == UnpressAndUnbind(s, key, time)
<1>1. u \in MapStates
  BY UnbindKeepsState
<1> HIDE DEF u
<1>2. u.config \in GoodConfigs /\ u.pad \in [Buttons -> Punctual(clock, debounce)]
  BY <1>1 DEF MapStates
<1> DEFINE r == RemoveButtonMappings(u.config, b)
<1>3. r \in GoodConfigs /\ \A k \in AllKeys : r[k] # b
  BY <1>2, RemovalKeepsConfigGood
<1> HIDE DEF r
<1>4. [r EXCEPT ![key] = b] \in GoodConfigs
  BY <1>3 DEF GoodConfigs, Configs, OneKeyPerButton
<1>5. [u EXCEPT !.config = [r EXCEPT ![key] = b]] \in MapStates
  BY <1>1, <1>4 DEF MapStates
<1>6. BindKeyToButton(s, key, b, time) = [u EXCEPT !.config = [r EXCEPT ![key] = b]]
  BY <1>1 DEF BindKeyToButton, u, r, MapStates
<1> QED
  BY <1>5, <1>6

LEMMA TurnedPunctual ==
    ASSUME clock \in Nat, debounce \in Nat, pad \in [Buttons -> Punctual(clock, debounce)],
           NEW w, NEW direction, NEW time \in Nat, time <= clock
    PROVE  Turned(w, direction, time) \in [Buttons -> Punctual(clock, debounce)]
<1>1. \A b \in Buttons : /\ pad[b] \in Punctual(clock, debounce)
                         /\ ReleaseAtOnce(pad[b], time) \in Punctual(clock, debounce)
                         /\ PressButton(pad[b], time) \in Punctual(clock, debounce)
  BY ReleaseAtOncePunctual, PressButtonPunctual
<1> QED
  BY <1>1 DEF Turned

LEMMA PadWithPunctual ==
    ASSUME pad \in [Buttons -> Punctual(clock, debounce)], NEW b \in Buttons \cup {NoButton},
           NEW x, b # NoButton => x \in Punctual(clock, debounce)
    PROVE  PadWith(b, x) \in [Buttons -> Punctual(clock, debounce)]
BY DEF PadWith

-----------------------------------------------------------------------------
(* Events that wait.                                                       *)

\* The first event of a source is of the past, and the rest of them remain so.
LEMMA ConsumeKeepsEvents ==
    ASSUME InputInv, clock' = clock, NEW s \in Sources, raw[s] # <<>>, Consume(s)
    PROVE  /\ raw' \in [Sources -> Seq(KeyEvents) \cup Seq(WheelEvents)]
           /\ \A k \in Keys : raw'[k] \in Seq(KeyEvents)
           /\ \A w \in Wheels : raw'[w] \in Seq(WheelEvents)
           /\ EventsArePast'
           /\ Head(raw[s]).time \in Nat /\ Head(raw[s]).time <= clock
<1>1. raw \in [Sources -> Seq(KeyEvents) \cup Seq(WheelEvents)]
  BY DEF InputInv, InputTypeOK
<1>2. raw' = [raw EXCEPT ![s] = Tail(@)]
  BY DEF Consume
<1>3. ASSUME NEW S, raw[s] \in Seq(S)
      PROVE  /\ Tail(raw[s]) \in Seq(S) /\ Head(raw[s]) \in S
             /\ Head(raw[s]) = raw[s][1] /\ 1 \in 1..Len(raw[s])
             /\ \A i \in 1..Len(Tail(raw[s])) :
                   i + 1 \in 1..Len(raw[s]) /\ Tail(raw[s])[i] = raw[s][i + 1]
  <2>1. /\ Tail(raw[s]) \in Seq(S) /\ Head(raw[s]) \in S
        /\ Len(Tail(raw[s])) = Len(raw[s]) - 1
        /\ \A i \in 1..Len(Tail(raw[s])) : Tail(raw[s])[i] = raw[s][i + 1]
    BY <1>3, HeadTailProperties
  <2>2. Len(raw[s]) \in Nat \ {0} /\ Head(raw[s]) = raw[s][1]
    BY <1>3
  <2>3. 1 \in 1..Len(raw[s]) /\ \A i \in 1..Len(Tail(raw[s])) : i + 1 \in 1..Len(raw[s])
    BY <2>1, <2>2
  <2>4. \A i \in 1..Len(Tail(raw[s])) :
           i + 1 \in 1..Len(raw[s]) /\ Tail(raw[s])[i] = raw[s][i + 1]
    BY <2>1, <2>3, Zenon
  <2> QED
    BY <2>1, <2>2, <2>3, <2>4, Zenon
<1>4. raw[s] \in Seq(KeyEvents) \/ raw[s] \in Seq(WheelEvents)
  BY <1>1
<1>5. Head(raw[s]).time \in Nat
  <2>1. Head(raw[s]) \in KeyEvents \/ Head(raw[s]) \in WheelEvents
    BY <1>3, <1>4
  <2> QED
    BY <2>1 DEF KeyEvents, WheelEvents
<1>6. Head(raw[s]).time <= clock
  BY <1>3, <1>4 DEF InputInv, EventsArePast
<1>7. \A k \in Keys : raw'[k] \in Seq(KeyEvents)
  BY <1>1, <1>2, <1>3 DEF InputInv, InputTypeOK, Sources
<1>8. \A w \in Wheels : raw'[w] \in Seq(WheelEvents)
  BY <1>1, <1>2, <1>3 DEF InputInv, InputTypeOK, Sources
<1>9. raw' \in [Sources -> Seq(KeyEvents) \cup Seq(WheelEvents)]
  <2>1. Tail(raw[s]) \in Seq(KeyEvents) \cup Seq(WheelEvents)
    BY <1>3, <1>4
  <2> QED
    BY <1>1, <1>2, <2>1
<1>10. EventsArePast'
  <2> SUFFICES ASSUME NEW t \in Sources, NEW i \in 1..Len(raw'[t])
               PROVE  raw'[t][i].time <= clock
    BY DEF EventsArePast
  <2>1. CASE t # s
    BY <1>1, <1>2, <2>1 DEF InputInv, EventsArePast
  <2>2. CASE t = s
    BY <1>1, <1>2, <1>3, <1>4, <2>2 DEF InputInv, EventsArePast
  <2> QED
    BY <2>1, <2>2
<1> QED
  BY <1>5, <1>6, <1>7, <1>8, <1>9, <1>10

\* The parts of the invariant that a step leaves behind once its pad is punctual.
LEMMA NowIsMapState ==
    ASSUME InputInv
    PROVE  /\ Now \in MapStates
           /\ clock \in Nat /\ debounce \in Nat
           /\ pad \in [Buttons -> Punctual(clock, debounce)]
           /\ \A k \in AllKeys : config[k] \in Buttons \cup {NoButton}
BY InputAssumption DEF InputInv, InputTypeOK, Now, MapStates, GoodConfigs, Configs, InputAssumption

LEMMA PunctualPadIsTyped ==
    ASSUME NEW present, NEW interval, NEW p \in [Buttons -> Punctual(present, interval)]
    PROVE  p \in [Buttons -> ButtonState]
BY DEF Punctual

\* A binding that becomes the present one.
LEMMA BecomeKeepsTypes ==
    ASSUME InputInv, NEW s \in MapStates, Become(s)
    PROVE  /\ config' \in Configs /\ OneKeyPerButton(config')
           /\ pad' \in [Buttons -> Punctual(clock, debounce)]
           /\ pad' \in [Buttons -> ButtonState]
           /\ known' \in [Keys -> {"No", "Known", "Stray"}]
<1>1. known' \in [Keys -> {"No", "Known", "Stray"}]
  BY DEF InputInv, InputTypeOK, Become
<1>2. config' \in Configs /\ OneKeyPerButton(config')
      /\ pad' \in [Buttons -> Punctual(clock, debounce)]
  BY DEF Become, MapStates, GoodConfigs
<1> QED
  BY <1>1, <1>2, PunctualPadIsTyped

-----------------------------------------------------------------------------
(* The steps.                                                              *)

LEMMA InitEstablishes == ASSUME InputInit PROVE InputInv
<1>1. clock \in 0..Horizon /\ clock = 0 /\ debounce \in Intervals /\ debounce \in Nat
  BY InputAssumption DEF InputInit, InputAssumption
<1>2. config \in Configs /\ OneKeyPerButton(config)
  BY InputAssumption DEF InputInit, InputAssumption
<1>3. pad \in [Buttons -> ButtonState]
  BY NoTimeIsBefore DEF InputInit, ButtonState
<1>4. \A b \in Buttons : pad[b].quiet = NoTime /\ pad[b].pending = NoTime
  BY DEF InputInit
<1>5. pad \in [Buttons -> Punctual(clock, debounce)]
  BY <1>1, <1>3, <1>4, NoTimeIsBefore DEF Punctual
<1>6. raw = [s \in Sources |-> <<>>]
  BY DEF InputInit
<1>7. /\ raw \in [Sources -> Seq(KeyEvents) \cup Seq(WheelEvents)]
      /\ \A k \in Keys : raw[k] \in Seq(KeyEvents)
      /\ \A w \in Wheels : raw[w] \in Seq(WheelEvents)
      /\ EventsArePast
  BY <1>6 DEF Sources, EventsArePast
<1>8. scratch \in [analog : BOOLEAN, direction : Directions \cup {"None"},
                   due : Int, stamp : Int]
  BY NoTimeIsBefore DEF InputInit
<1>9. spent \in [events : 0..MaxEvents, binds : 0..MaxBinds, changes : 0..MaxChanges]
  BY InputAssumption DEF InputInit, InputAssumption
<1> QED
  BY <1>1, <1>2, <1>3, <1>5, <1>7, <1>8, <1>9 DEF InputInv, InputTypeOK, InputInit

LEMMA HandlePressKeeps == ASSUME InputInv, NEW k \in Keys, HandlePress(k) PROVE InputInv'
<1> DEFINE time == Head(raw[k]).time
<1>1. /\ Consume(k) /\ k \in Sources /\ raw[k] # <<>> /\ k \in AllKeys
      /\ UNCHANGED <<clock, keysDown, debounce, scratch, spent>>
  BY DEF HandlePress, Sources, AllKeys
<1>2. /\ raw' \in [Sources -> Seq(KeyEvents) \cup Seq(WheelEvents)]
      /\ \A j \in Keys : raw'[j] \in Seq(KeyEvents)
      /\ \A w \in Wheels : raw'[w] \in Seq(WheelEvents)
      /\ EventsArePast'
      /\ time \in Nat /\ time <= clock
  BY <1>1, ConsumeKeepsEvents
<1>3. configured \in Buttons \cup {NoButton}
  BY DEF InputInv, InputTypeOK
<1> HIDE DEF time
<1>4. /\ config' \in Configs /\ OneKeyPerButton(config')
      /\ configured' \in Buttons \cup {NoButton}
      /\ pad' \in [Buttons -> Punctual(clock, debounce)]
      /\ pad' \in [Buttons -> ButtonState]
      /\ known' \in [Keys -> {"No", "Known", "Stray"}]
  <2>1. CASE configured # NoButton
    <3>1. Become(BindKeyToButton(Now, k, configured, time)) /\ configured' = NoButton
      BY <2>1 DEF HandlePress, time
    <3>2. BindKeyToButton(Now, k, configured, time) \in MapStates
      BY <1>1, <1>2, <1>3, <2>1, NowIsMapState, BindKeepsState
    <3> QED
      BY <3>1, <3>2, BecomeKeepsTypes
  <2>2. CASE configured = NoButton
    <3>1. /\ pad' = PadWith(config[k], PressButton(pad[config[k]], time))
          /\ UNCHANGED <<config, configured>>
      BY <2>2 DEF HandlePress, time
    <3>2. config[k] \in Buttons \cup {NoButton}
      BY <1>1, NowIsMapState
    <3>3. config[k] # NoButton => PressButton(pad[config[k]], time) \in Punctual(clock, debounce)
      BY <1>2, <3>2, NowIsMapState, PressButtonPunctual
    <3>4. pad' \in [Buttons -> Punctual(clock, debounce)]
      BY <3>1, <3>2, <3>3, NowIsMapState, PadWithPunctual
    <3>5. known' \in [Keys -> {"No", "Known", "Stray"}]
      BY <2>2 DEF HandlePress, InputInv, InputTypeOK
    <3> QED
      BY <3>1, <3>4, <3>5, PunctualPadIsTyped DEF InputInv, InputTypeOK
  <2> QED
    BY <2>1, <2>2
<1> QED
  BY <1>1, <1>2, <1>4 DEF InputInv, InputTypeOK

LEMMA HandleReleaseKeeps == ASSUME InputInv, NEW k \in Keys, HandleRelease(k) PROVE InputInv'
<1> DEFINE time == Head(raw[k]).time
<1>1. /\ Consume(k) /\ k \in Sources /\ raw[k] # <<>> /\ k \in AllKeys
      /\ UNCHANGED <<clock, keysDown, config, configured, debounce, scratch, spent>>
      /\ pad' = PadWith(config[k], ReleaseButton(pad[config[k]], time))
  BY DEF HandleRelease, Sources, AllKeys
<1>2. /\ raw' \in [Sources -> Seq(KeyEvents) \cup Seq(WheelEvents)]
      /\ \A j \in Keys : raw'[j] \in Seq(KeyEvents)
      /\ \A w \in Wheels : raw'[w] \in Seq(WheelEvents)
      /\ EventsArePast'
      /\ time \in Nat /\ time <= clock
  BY <1>1, ConsumeKeepsEvents
<1> HIDE DEF time
<1>3. config[k] \in Buttons \cup {NoButton}
  BY <1>1, NowIsMapState
<1>4. config[k] # NoButton => ReleaseButton(pad[config[k]], time) \in Punctual(clock, debounce)
  BY <1>2, <1>3, NowIsMapState, ReleaseButtonPunctual
<1>5. pad' \in [Buttons -> Punctual(clock, debounce)]
  BY <1>1, <1>3, <1>4, NowIsMapState, PadWithPunctual
<1>6. known' \in [Keys -> {"No", "Known", "Stray"}]
  BY DEF HandleRelease, InputInv, InputTypeOK
<1> QED
  BY <1>1, <1>2, <1>5, <1>6, PunctualPadIsTyped DEF InputInv, InputTypeOK

LEMMA HandleAxisChangeKeeps ==
    ASSUME InputInv, NEW direction \in Directions \cup {"None"}, "axis" \in Wheels,
           NEW time \in Nat, time <= clock, HandleAxisChange(direction, time)
    PROVE  /\ config' \in Configs /\ OneKeyPerButton(config')
           /\ configured' \in Buttons \cup {NoButton}
           /\ pad' \in [Buttons -> Punctual(clock, debounce)]
           /\ known' \in [Keys -> {"No", "Known", "Stray"}]
<1>1. CASE IsScratch(configured) /\ direction # "None"
  <2> DEFINE first == BindKeyToButton(Now, <<"axis", direction>>, configured, time)
             second == BindKeyToButton(first, <<"axis", Opposite[direction]>>,
                                       Inverted[configured], time)
  <2>1. Become(second) /\ configured' = NoButton
    BY <1>1 DEF HandleAxisChange
  <2>2. <<"axis", direction>> \in AllKeys /\ <<"axis", Opposite[direction]>> \in AllKeys
    BY <1>1 DEF AllKeys, WheelKeys, Directions, Opposite
  <2>3. configured \in Buttons /\ Inverted[configured] \in Buttons
    <3>1. configured \in Buttons \cup {NoButton}
      BY DEF InputInv, InputTypeOK
    <3> QED
      BY <1>1, <3>1, InputAssumption DEF IsScratch, InputAssumption
  <2>4. first \in MapStates
    BY <2>2, <2>3, NowIsMapState, BindKeepsState
  <2> HIDE DEF first
  <2>5. second \in MapStates
    BY <2>2, <2>3, <2>4, NowIsMapState, BindKeepsState
  <2> HIDE DEF second
  <2> QED
    BY <2>1, <2>5, BecomeKeepsTypes
<1>2. CASE ~(IsScratch(configured) /\ direction # "None")
  <2>1. pad' = Turned("axis", direction, time) /\ UNCHANGED <<config, configured, known>>
    BY <1>2 DEF HandleAxisChange
  <2>2. pad' \in [Buttons -> Punctual(clock, debounce)]
    BY <2>1, NowIsMapState, TurnedPunctual
  <2> QED
    BY <2>1, <2>2 DEF InputInv, InputTypeOK
<1> QED
  BY <1>1, <1>2

\* The first event of a wheel.
LEMMA WheelEvent ==
    ASSUME InputInv, NEW w \in Wheels, raw[w] # <<>>
    PROVE  Head(raw[w]).direction \in Directions \cup {"None"}
<1>1. raw[w] \in Seq(WheelEvents)
  BY DEF InputInv, InputTypeOK
<1>2. Head(raw[w]) \in WheelEvents
  BY <1>1, HeadTailProperties
<1> QED
  BY <1>2 DEF WheelEvents

LEMMA HandleAxisKeeps == ASSUME InputInv, HandleAxis PROVE InputInv'
<1> DEFINE event == Head(raw["axis"])
<1>1. /\ Consume("axis") /\ "axis" \in Sources /\ raw["axis"] # <<>> /\ "axis" \in Wheels
      /\ UNCHANGED <<clock, keysDown, debounce, spent>>
  BY DEF HandleAxis, Sources
<1>2. /\ raw' \in [Sources -> Seq(KeyEvents) \cup Seq(WheelEvents)]
      /\ \A j \in Keys : raw'[j] \in Seq(KeyEvents)
      /\ \A w \in Wheels : raw'[w] \in Seq(WheelEvents)
      /\ EventsArePast'
      /\ event.time \in Nat /\ event.time <= clock
  BY <1>1, ConsumeKeepsEvents
<1>3. event.direction \in Directions \cup {"None"}
  BY <1>1, WheelEvent
<1>4. \/ HandleAxisChange(event.direction, event.time)
      \/ UNCHANGED <<pad, config, configured, known>>
  BY DEF HandleAxis
<1>5. scratch' \in [analog : BOOLEAN, direction : Directions \cup {"None"},
                    due : Int, stamp : Int]
  <2>1. scratch \in [analog : BOOLEAN, direction : Directions \cup {"None"},
                     due : Int, stamp : Int]
    BY DEF InputInv, InputTypeOK
  <2>2. clock + AxisTimeout \in Int /\ event.time + AxisTimeout \in Int
    BY <1>2, NowIsMapState, InputAssumption DEF InputAssumption
  <2>3. \/ scratch' = scratch
        \/ scratch' = [scratch EXCEPT !.direction = event.direction]
        \/ scratch' = [scratch EXCEPT !.direction = event.direction,
                                      !.due = clock + AxisTimeout,
                                      !.stamp = event.time + AxisTimeout]
    BY DEF HandleAxis
  <2> HIDE DEF event
  <2> QED
    BY <1>3, <2>1, <2>2, <2>3
<1> HIDE DEF event
<1>6. /\ config' \in Configs /\ OneKeyPerButton(config')
      /\ configured' \in Buttons \cup {NoButton}
      /\ pad' \in [Buttons -> Punctual(clock, debounce)]
      /\ known' \in [Keys -> {"No", "Known", "Stray"}]
  <2>1. CASE HandleAxisChange(event.direction, event.time)
    BY <1>1, <1>2, <1>3, <2>1, HandleAxisChangeKeeps
  <2>2. CASE UNCHANGED <<pad, config, configured, known>>
    BY <2>2 DEF InputInv, InputTypeOK
  <2> QED
    BY <1>4, <2>1, <2>2
<1> QED
  BY <1>1, <1>2, <1>5, <1>6, PunctualPadIsTyped DEF InputInv, InputTypeOK

LEMMA AutoReleaseKeeps == ASSUME InputInv, AutoReleaseScratch PROVE InputInv'
<1>1. \A b \in Buttons : ReleaseAtOnce(pad[b], scratch.stamp) \in Punctual(clock, debounce)
  <2>1. scratch.stamp \in Int
    BY DEF InputInv, InputTypeOK
  <2> QED
    BY <2>1, NowIsMapState, ReleaseAtOncePunctual
<1>2. pad' \in [Buttons -> Punctual(clock, debounce)]
  BY <1>1, NowIsMapState DEF AutoReleaseScratch, Turned
<1>3. scratch' \in [analog : BOOLEAN, direction : Directions \cup {"None"},
                    due : Int, stamp : Int]
  BY NoTimeIsBefore DEF AutoReleaseScratch, InputInv, InputTypeOK
<1> QED
  BY <1>2, <1>3, PunctualPadIsTyped DEF AutoReleaseScratch, InputInv, InputTypeOK, EventsArePast

LEMMA HandlePitchBendKeeps == ASSUME InputInv, HandlePitchBend PROVE InputInv'
<1> DEFINE event == Head(raw["bend"])
           released == [b \in Buttons |->
                           IF config[<<"bend", Opposite[event.direction]>>] = b
                           THEN ReleaseAtOnce(pad[b], event.time) ELSE pad[b]]
<1>1. /\ Consume("bend") /\ "bend" \in Sources /\ raw["bend"] # <<>> /\ "bend" \in Wheels
      /\ UNCHANGED <<clock, keysDown, debounce, scratch, spent>>
  BY DEF HandlePitchBend, Sources
<1>2. /\ raw' \in [Sources -> Seq(KeyEvents) \cup Seq(WheelEvents)]
      /\ \A j \in Keys : raw'[j] \in Seq(KeyEvents)
      /\ \A w \in Wheels : raw'[w] \in Seq(WheelEvents)
      /\ EventsArePast'
      /\ event.time \in Nat /\ event.time <= clock
  BY <1>1, ConsumeKeepsEvents
<1>3. event.direction \in Directions \cup {"None"}
  BY <1>1, WheelEvent
<1>4. \/ /\ event.direction # "None" /\ configured # NoButton
         /\ Become(BindKeyToButton([Now EXCEPT !.pad = released],
                                   <<"bend", event.direction>>, configured, event.time))
         /\ configured' = NoButton
      \/ /\ pad' = Turned("bend", event.direction, event.time)
         /\ UNCHANGED <<config, configured, known>>
  BY DEF HandlePitchBend
<1> HIDE DEF event
<1>5. /\ config' \in Configs /\ OneKeyPerButton(config')
      /\ configured' \in Buttons \cup {NoButton}
      /\ pad' \in [Buttons -> Punctual(clock, debounce)]
      /\ known' \in [Keys -> {"No", "Known", "Stray"}]
  <2>1. CASE /\ event.direction # "None" /\ configured # NoButton
             /\ Become(BindKeyToButton([Now EXCEPT !.pad = released],
                                       <<"bend", event.direction>>, configured, event.time))
             /\ configured' = NoButton
    <3>1. released \in [Buttons -> Punctual(clock, debounce)]
      BY <1>2, NowIsMapState, ReleaseAtOncePunctual
    <3> HIDE DEF released
    <3>2. [Now EXCEPT !.pad = released] \in MapStates
      BY <3>1, NowIsMapState DEF MapStates
    <3>3. <<"bend", event.direction>> \in AllKeys
      BY <1>1, <1>3, <2>1 DEF AllKeys, WheelKeys
    <3>4. configured \in Buttons
      BY <2>1 DEF InputInv, InputTypeOK
    <3>5. BindKeyToButton([Now EXCEPT !.pad = released],
                          <<"bend", event.direction>>, configured, event.time) \in MapStates
      BY <1>2, <3>2, <3>3, <3>4, NowIsMapState, BindKeepsState
    <3> QED
      BY <2>1, <3>5, BecomeKeepsTypes
  <2>2. CASE /\ pad' = Turned("bend", event.direction, event.time)
             /\ UNCHANGED <<config, configured, known>>
    <3>1. pad' \in [Buttons -> Punctual(clock, debounce)]
      BY <1>2, <2>2, NowIsMapState, TurnedPunctual
    <3> QED
      BY <2>2, <3>1 DEF InputInv, InputTypeOK
  <2> QED
    BY <1>4, <2>1, <2>2
<1> QED
  BY <1>1, <1>2, <1>5, PunctualPadIsTyped DEF InputInv, InputTypeOK

LEMMA DebounceTimerKeeps == ASSUME InputInv, NEW b \in Buttons, DebounceTimerFires(b) PROVE InputInv'
<1> DEFINE settled == CommitPendingRelease([pad[b] EXCEPT !.due = NoTime], debounce)
<1>1. pad[b] \in Punctual(clock, debounce) /\ clock \in Nat /\ debounce \in Nat
  BY NowIsMapState
<1>2. pad[b].pending # NoTime => pad[b].pending + debounce <= clock
  BY <1>1 DEF DebounceTimerFires, TimerElapsed, Punctual, ButtonState
<1>3. settled \in Punctual(clock, debounce)
  BY <1>1, <1>2, NoTimeIsBefore, CommitPunctual
<1>4. pad' = [pad EXCEPT ![b] = settled]
  BY DEF DebounceTimerFires
<1> HIDE DEF settled
<1>5. pad' \in [Buttons -> Punctual(clock, debounce)]
  BY <1>3, <1>4, NowIsMapState
<1> QED
  BY <1>5, PunctualPadIsTyped DEF DebounceTimerFires, InputInv, InputTypeOK, EventsArePast

LEMMA TickKeeps == ASSUME InputInv, ClockTick PROVE InputInv'
<1>1. clock \in Nat /\ clock' = clock + 1 /\ clock' \in 0..Horizon
      /\ UNCHANGED <<keysDown, raw, config, configured, debounce, pad, scratch, known, spent>>
  BY InputAssumption DEF ClockTick, InputInv, InputTypeOK, InputAssumption
<1>2. Punctual(clock, debounce) \subseteq Punctual(clock', debounce)
  BY <1>1 DEF Punctual, ButtonState
<1>3. pad' \in [Buttons -> Punctual(clock', debounce')]
  BY <1>1, <1>2, NowIsMapState
<1>4. EventsArePast'
  <2> SUFFICES ASSUME NEW s \in Sources, NEW i \in 1..Len(raw[s])
               PROVE  raw[s][i].time <= clock'
    BY <1>1 DEF EventsArePast
  <2>1. raw[s][i].time <= clock
    BY DEF InputInv, EventsArePast
  <2>2. raw[s] \in Seq(KeyEvents) \/ raw[s] \in Seq(WheelEvents)
    BY DEF InputInv, InputTypeOK
  <2>3. raw[s][i] \in KeyEvents \/ raw[s][i] \in WheelEvents
    BY <2>2
  <2>4. raw[s][i].time \in Nat
    BY <2>3 DEF KeyEvents, WheelEvents
  <2> QED
    BY <1>1, <2>1, <2>4
<1> QED
  BY <1>1, <1>3, <1>4 DEF InputInv, InputTypeOK

LEMMA SetConfiguredButtonKeeps ==
    ASSUME InputInv, NEW b \in Buttons \cup {NoButton}, SetConfiguredButton(b) PROVE InputInv'
<1>1. spent' \in [events : 0..MaxEvents, binds : 0..MaxBinds, changes : 0..MaxChanges]
  <2>1. spent \in [events : 0..MaxEvents, binds : 0..MaxBinds, changes : 0..MaxChanges]
    BY DEF InputInv, InputTypeOK
  <2>2. spent.binds + 1 \in 0..MaxBinds
    BY <2>1, InputAssumption DEF SetConfiguredButton, InputAssumption
  <2>3. spent' = [spent EXCEPT !.binds = spent.binds + 1]
    BY DEF SetConfiguredButton
  <2> QED
    BY <2>1, <2>2, <2>3
<1> QED
  BY <1>1 DEF SetConfiguredButton, InputInv, InputTypeOK, EventsArePast

LEMMA ChangesAreCounted ==
    ASSUME InputInv, Changes
    PROVE  spent' \in [events : 0..MaxEvents, binds : 0..MaxBinds, changes : 0..MaxChanges]
<1>1. spent \in [events : 0..MaxEvents, binds : 0..MaxBinds, changes : 0..MaxChanges]
  BY DEF InputInv, InputTypeOK
<1>2. spent.changes + 1 \in 0..MaxChanges
  BY <1>1, InputAssumption DEF Changes, InputAssumption
<1>3. spent' = [spent EXCEPT !.changes = spent.changes + 1]
  BY DEF Changes
<1> QED
  BY <1>1, <1>2, <1>3

LEMMA ResetButtonKeeps == ASSUME InputInv, NEW b \in Buttons, ResetButton(b) PROVE InputInv'
<1> DEFINE next == [Now EXCEPT !.config = RemoveButtonMappings(@, b)]
<1>1. next \in MapStates
  <2>1. config \in GoodConfigs
    BY DEF InputInv, InputTypeOK, GoodConfigs
  <2>2. RemoveButtonMappings(config, b) \in GoodConfigs
    BY <2>1, RemovalKeepsConfigGood
  <2>3. next = [Now EXCEPT !.config = RemoveButtonMappings(config, b)]
    BY DEF Now
  <2> QED
    BY <2>2, <2>3, NowIsMapState DEF MapStates
<1>2. Become(next) /\ Changes
      /\ UNCHANGED <<clock, keysDown, raw, configured, debounce, scratch>>
  BY DEF ResetButton
<1> HIDE DEF next
<1> QED
  BY <1>1, <1>2, BecomeKeepsTypes, ChangesAreCounted DEF InputInv, InputTypeOK, EventsArePast

LEMMA SetDebounceKeeps == ASSUME InputInv, NEW i \in Intervals, SetDebounceMs(i) PROVE InputInv'
<1>1. i \in Nat /\ debounce' = i
  BY InputAssumption DEF SetDebounceMs, InputAssumption
<1>2. \A b \in Buttons : Rescheduled(pad[b], i) \in Punctual(clock, i)
  BY <1>1, NowIsMapState, RescheduledPunctual
<1>3. pad' \in [Buttons -> Punctual(clock, i)]
  BY <1>2 DEF SetDebounceMs
<1>4. Changes /\ UNCHANGED <<clock, keysDown, raw, config, configured, scratch, known>>
  BY DEF SetDebounceMs
<1> QED
  BY <1>1, <1>3, <1>4, PunctualPadIsTyped, ChangesAreCounted DEF InputInv, InputTypeOK, EventsArePast

LEMMA SetScratchAlgorithmKeeps == ASSUME InputInv, SetScratchAlgorithm PROVE InputInv'
<1>1. scratch' \in [analog : BOOLEAN, direction : Directions \cup {"None"},
                    due : Int, stamp : Int]
  BY DEF SetScratchAlgorithm, InputInv, InputTypeOK
<1>2. Changes /\ UNCHANGED <<clock, keysDown, raw, config, configured, debounce, pad, known>>
  BY DEF SetScratchAlgorithm
<1> QED
  BY <1>1, <1>2, ChangesAreCounted DEF InputInv, InputTypeOK, EventsArePast

LEMMA MidiDeviceRemovedKeeps == ASSUME InputInv, NEW k \in Keys, MidiDeviceRemoved(k) PROVE InputInv'
<1>1. /\ Changes /\ UNCHANGED <<clock, raw, config, configured, debounce, scratch>>
      /\ pad' = PadWith(config[k], ReleaseAtOnce(pad[config[k]], clock))
      /\ keysDown' = keysDown \ {k}
  BY DEF MidiDeviceRemoved
<1>2. config[k] \in Buttons \cup {NoButton}
  BY NowIsMapState DEF AllKeys
<1>3. config[k] # NoButton =>
         ReleaseAtOnce(pad[config[k]], clock) \in Punctual(clock, debounce)
  BY <1>2, NowIsMapState, ReleaseAtOncePunctual
<1>4. pad' \in [Buttons -> Punctual(clock, debounce)]
  BY <1>1, <1>2, <1>3, NowIsMapState, PadWithPunctual
<1>5. known' \in [Keys -> {"No", "Known", "Stray"}]
  BY DEF MidiDeviceRemoved, InputInv, InputTypeOK
<1> QED
  BY <1>1, <1>4, <1>5, PunctualPadIsTyped, ChangesAreCounted DEF InputInv, InputTypeOK, EventsArePast

\* Something happens outside: its event carries the present time.
LEMMA HappensKeeps ==
    ASSUME InputInv, NEW s \in Sources, NEW E, NEW event \in E, event.time = clock,
           Happens(s, event),
           \/ s \in Keys /\ E = KeyEvents
           \/ s \in Wheels /\ E = WheelEvents,
           keysDown' \subseteq AllKeys
    PROVE  InputInv'
<1>1. /\ raw \in [Sources -> Seq(KeyEvents) \cup Seq(WheelEvents)]
      /\ raw[s] \in Seq(E)
      /\ Keys \cap Wheels = {}
  BY InputAssumption DEF InputInv, InputTypeOK, InputAssumption
<1>2. /\ raw' = [raw EXCEPT ![s] = Append(raw[s], event)]
      /\ UNCHANGED <<clock, config, configured, debounce, pad, scratch, known>>
  BY DEF Happens
<1>3. /\ Append(raw[s], event) \in Seq(E) /\ Len(raw[s]) \in Nat
      /\ Len(Append(raw[s], event)) = Len(raw[s]) + 1
      /\ \A i \in 1..Len(raw[s]) : Append(raw[s], event)[i] = raw[s][i]
      /\ Append(raw[s], event)[Len(raw[s]) + 1] = event
  BY <1>1, AppendProperties
<1>4. /\ raw' \in [Sources -> Seq(KeyEvents) \cup Seq(WheelEvents)]
      /\ \A k \in Keys : raw'[k] \in Seq(KeyEvents)
      /\ \A w \in Wheels : raw'[w] \in Seq(WheelEvents)
  BY <1>1, <1>2, <1>3 DEF InputInv, InputTypeOK, Sources
<1>5. EventsArePast'
  <2> SUFFICES ASSUME NEW t \in Sources, NEW i \in 1..Len(raw'[t])
               PROVE  raw'[t][i].time <= clock
    BY <1>2 DEF EventsArePast
  <2>1. CASE t # s
    BY <1>1, <1>2, <2>1 DEF InputInv, EventsArePast
  <2>2. CASE t = s /\ i \in 1..Len(raw[s])
    BY <1>1, <1>2, <1>3, <2>2 DEF InputInv, EventsArePast
  <2>3. CASE t = s /\ i \notin 1..Len(raw[s])
    <3>1. i = Len(raw[s]) + 1
      BY <1>1, <1>2, <1>3, <2>3
    <3>2. raw'[t][i] = event
      BY <1>1, <1>2, <1>3, <2>3, <3>1
    <3> QED
      BY <3>2, NowIsMapState
  <2> QED
    BY <2>1, <2>2, <2>3
<1>6. spent' \in [events : 0..MaxEvents, binds : 0..MaxBinds, changes : 0..MaxChanges]
  <2>1. spent \in [events : 0..MaxEvents, binds : 0..MaxBinds, changes : 0..MaxChanges]
    BY DEF InputInv, InputTypeOK
  <2>2. spent.events + 1 \in 0..MaxEvents
    BY <2>1, InputAssumption DEF Happens, InputAssumption
  <2>3. spent' = [spent EXCEPT !.events = spent.events + 1]
    BY DEF Happens
  <2> QED
    BY <2>1, <2>2, <2>3
<1> QED
  BY <1>2, <1>4, <1>5, <1>6 DEF InputInv, InputTypeOK

LEMMA KeyMovesKeeps == ASSUME InputInv, NEW k \in Keys, KeyMoves(k) PROVE InputInv'
<1> DEFINE event == [press |-> k \notin keysDown, time |-> clock]
<1>1. Happens(k, event) /\ keysDown' \subseteq AllKeys
  BY DEF KeyMoves, InputInv, InputTypeOK, AllKeys
<1>2. event \in KeyEvents /\ event.time = clock /\ k \in Sources
  BY NowIsMapState DEF KeyEvents, Sources
<1> HIDE DEF event
<1> QED
  BY <1>1, <1>2, HappensKeeps

LEMMA WheelMovesKeeps ==
    ASSUME InputInv, NEW w \in Wheels, NEW direction \in Directions \cup {"None"},
           WheelMoves(w, direction)
    PROVE  InputInv'
<1> DEFINE event == [direction |-> direction, time |-> clock]
<1>1. Happens(w, event) /\ keysDown' \subseteq AllKeys
  BY DEF WheelMoves, InputInv, InputTypeOK, AllKeys
<1>2. event \in WheelEvents /\ event.time = clock /\ w \in Sources
  BY NowIsMapState DEF WheelEvents, Sources
<1> HIDE DEF event
<1> QED
  BY <1>1, <1>2, HappensKeeps

LEMMA StepKeeps == ASSUME InputInv, [InputNext]_inputVars PROVE InputInv'
<1>1. CASE EventLoop
  BY <1>1, HandlePressKeeps, HandleReleaseKeeps, HandleAxisKeeps, HandlePitchBendKeeps,
     AutoReleaseKeeps, DebounceTimerKeeps, TickKeeps DEF EventLoop
<1>2. CASE Player
  BY <1>2, KeyMovesKeeps, WheelMovesKeeps, MidiDeviceRemovedKeeps, SetConfiguredButtonKeeps,
     ResetButtonKeeps, SetDebounceKeeps, SetScratchAlgorithmKeeps DEF Player
<1>3. CASE UNCHANGED inputVars
  BY <1>3 DEF inputVars, InputInv, InputTypeOK, EventsArePast
<1> QED
  BY <1>1, <1>2, <1>3 DEF InputNext

THEOREM InputInvariant == InputSpec => []InputInv
<1>1. InputInit => InputInv
  BY InitEstablishes
<1>2. InputInv /\ [InputNext]_inputVars => InputInv'
  BY StepKeeps
<1> QED
  BY <1>1, <1>2, PTL DEF InputSpec

\* Every variable of the translator keeps its type, and no two keys ever share a
\* button, however many keys, buttons and events there are.
THEOREM InputTypeCorrect == InputSpec => []InputTypeOK
<1>1. InputInv => InputTypeOK
  BY DEF InputInv
<1> QED
  BY <1>1, InputInvariant, PTL

\* No debounced release is reported before its interval is over, for any intervals,
\* delays and changes of the interval: the timer and the deadline never end early.
THEOREM NoReleaseIsEarly == InputSpec => []ReleaseOutlastsItsInterval
<1>1. InputInv => ReleaseOutlastsItsInterval
  BY DEF InputInv, ReleaseOutlastsItsInterval, Punctual
<1> QED
  BY <1>1, InputInvariant, PTL

-----------------------------------------------------------------------------
(* Buttons follow keys: the invariant.                                     *)

\* A button is reported as pressed exactly while it is down or its release waits.
Sound(x) == x.logical <=> (x.physical \/ x.pending # NoTime)

\* The present button of a key is down.
Down(k) == config[k] # NoButton /\ pad[config[k]].physical

LastOf(s) == s[Len(s)]

Alternate(s) == \A i \in 1..Len(s) - 1 : s[i].press # s[i + 1].press

\* The last event of a key tells where the key is, and its events alternate, but of a
\* key whose device went before they were handled.
QueueFits(k) ==
    /\ known[k] # "Stray" => Alternate(raw[k])
    /\ raw[k] # <<>> =>
          /\ ~LastOf(raw[k]).press => k \notin keysDown
          /\ (LastOf(raw[k]).press /\ known[k] # "Stray") => k \in keysDown

\* A key whose press its button was given has that button down, and its release is
\* what comes next.
KnownIsDown(k) ==
    known[k] = "Known" =>
        /\ Down(k)
        /\ raw[k] = <<>> => k \in keysDown
        /\ raw[k] # <<>> => ~Head(raw[k]).press

KeyHolds(k) == Down(k) => k \in keysDown \/ raw[k] # <<>> \/ known[k] = "Stray"

KeyFollows(k) == QueueFits(k) /\ KnownIsDown(k) /\ KeyHolds(k)

AxisFollows == "axis" \in Wheels =>
    \A d \in Directions : Down(<<"axis", d>>) => scratch.direction # "None"

\* No axis, no disc that stops.
DiscHasAxis == "axis" \notin Wheels => scratch.due = NoTime

BendIsTurned == keysDown \cap ({"bend"} \X Directions) # {}

BendFollows == "bend" \in Wheels =>
    /\ (raw["bend"] # <<>> /\ LastOf(raw["bend"]).direction # "None") => BendIsTurned
    /\ \A d \in Directions : Down(<<"bend", d>>) => raw["bend"] # <<>> \/ BendIsTurned

Follows ==
    /\ \A b \in Buttons : Sound(pad[b])
    /\ \A k \in Keys : KeyFollows(k)
    /\ AxisFollows
    /\ DiscHasAxis
    /\ BendFollows

FInv == InputInv /\ Follows

-----------------------------------------------------------------------------
(* Buttons follow keys: one button.                                        *)

LEMMA ReleaseAtOnceSound ==
    ASSUME NEW x \in ButtonState, Sound(x), NEW time \in Int
    PROVE  Sound(ReleaseAtOnce(x, time)) /\ ~ReleaseAtOnce(x, time).physical
<1> PICK up : up = [x EXCEPT !.physical = FALSE]
  OBVIOUS
<1>1. /\ up \in ButtonState /\ ~up.physical
      /\ up.logical = x.logical /\ up.pending = x.pending
  BY DEF ButtonState
<1>2. CASE ~x.logical
  BY <1>1, <1>2 DEF Sound, ReleaseAtOnce
<1>3. CASE x.logical
  <2> PICK set : set = Settle(up)
    OBVIOUS
  <2>1. set \in ButtonState /\ ~set.physical /\ set.logical = up.logical
    BY <1>1, NoTimeIsBefore DEF Settle, ButtonState
  <2>2. /\ ~FinishRelease(set, time, NoTime).physical
        /\ ~FinishRelease(set, time, NoTime).logical
        /\ FinishRelease(set, time, NoTime).pending = NoTime
    BY <1>1, <1>3, <2>1 DEF FinishRelease, ButtonState
  <2>3. ReleaseAtOnce(x, time) = FinishRelease(set, time, NoTime)
    BY <1>3 DEF ReleaseAtOnce
  <2> QED
    BY <2>2, <2>3 DEF Sound
<1> QED
  BY <1>2, <1>3

\* What a press leaves: reported as pressed, and no release waits.
LEMMA ReportPressDown ==
    ASSUME NEW x \in ButtonState, x.physical, x.pending = NoTime, NEW time \in Int
    PROVE  /\ Sound(ReportPress(x, time)) /\ ReportPress(x, time).physical
           /\ ReportPress(x, time).logical /\ ReportPress(x, time).released = x.released
           /\ ~x.logical => ReportPress(x, time).pressed = time
<1>1. CASE x.logical
  BY <1>1 DEF Sound, ReportPress
<1>2. CASE ~x.logical
  BY <1>2 DEF Sound, ReportPress, ButtonState
<1> QED
  BY <1>1, <1>2

LEMMA PressButtonSound ==
    ASSUME clock \in Nat, debounce \in Nat, NEW x \in ButtonState, Sound(x), NEW time \in Int
    PROVE  /\ Sound(PressButton(x, time)) /\ PressButton(x, time).physical
           /\ ~x.physical /\ x.pending # NoTime
              /\ x.deadline # NoTime /\ time >= x.deadline
              => /\ PressButton(x, time).released = x.pending
                 /\ PressButton(x, time).pressed = time /\ PressButton(x, time).logical
<1> PICK down : down = [x EXCEPT !.physical = TRUE]
  OBVIOUS
<1>1. /\ down \in ButtonState /\ down.physical
      /\ down.logical = x.logical /\ down.pending = x.pending
  BY DEF ButtonState
<1>2. CASE x.physical
  BY <1>2 DEF PressButton
<1>3. CASE ~x.physical /\ x.pending = NoTime
  <2>1. PressButton(x, time) = ReportPress(down, time)
    BY <1>3 DEF PressButton
  <2> QED
    <3>1. Sound(ReportPress(down, time)) /\ ReportPress(down, time).physical
      <4>1. down \in ButtonState /\ down.physical /\ down.pending = NoTime
        BY <1>1, <1>3
      <4> QED
        BY ONLY <4>1, time \in Int, ReportPressDown
    <3> QED
      BY <1>3, <2>1, <3>1
<1>4. CASE ~x.physical /\ x.pending # NoTime
  <2> PICK set : set = Settle(down)
    OBVIOUS
  <2>1. /\ set \in ButtonState /\ set.physical /\ set.logical = x.logical
        /\ set.pending = NoTime
    BY <1>1, NoTimeIsBefore DEF Settle, ButtonState
  <2>2. x.logical
    BY <1>4 DEF Sound
  <2>3. CASE (x.deadline = NoTime \/ time < x.deadline) /\ ~TimerElapsed(x)
    <3>1. PressButton(x, time) = set
      BY <1>4, <2>3 DEF PressButton
    <3>2. ~(x.deadline # NoTime /\ time >= x.deadline)
      BY <2>3 DEF ButtonState
    <3> QED
      BY <2>1, <2>2, <3>1, <3>2 DEF Sound
  <2>4. CASE ~((x.deadline = NoTime \/ time < x.deadline) /\ ~TimerElapsed(x))
    <3> PICK fin : fin = FinishRelease(set, x.pending, x.pending + debounce)
      OBVIOUS
    <3>1. x.pending \in Int /\ x.pending + debounce \in Int
      BY DEF ButtonState
    <3>2. /\ fin \in ButtonState /\ fin.physical /\ ~fin.logical
          /\ fin.pending = NoTime /\ fin.released = x.pending
      <4> PICK quiet \in Int : quiet = x.pending + debounce
        BY <3>1
      <4>1. fin = [set EXCEPT !.logical = FALSE, !.pending = NoTime, !.deadline = NoTime,
                              !.released = x.pending, !.quiet = quiet]
        BY <2>1, <2>2 DEF FinishRelease
      <4> QED
        BY ONLY <2>1, <3>1, <4>1, quiet \in Int, NoTimeIsBefore DEF ButtonState
    <3>3. PressButton(x, time) = ReportPress(fin, time)
      BY <1>4, <2>4 DEF PressButton
    <3> QED
      BY <3>2, <3>3, ReportPressDown
  <2> QED
    BY <2>3, <2>4
<1> QED
  BY <1>2, <1>3, <1>4

LEMMA ReleaseButtonSound ==
    ASSUME clock \in Nat, debounce \in Nat, NEW x \in ButtonState, Sound(x), NEW time \in Nat
    PROVE  Sound(ReleaseButton(x, time)) /\ ~ReleaseButton(x, time).physical
<1> PICK up : up = [x EXCEPT !.physical = FALSE]
  OBVIOUS
<1>1. /\ up \in ButtonState /\ ~up.physical
      /\ up.logical = x.logical /\ up.pending = x.pending
  BY DEF ButtonState
<1>2. CASE ~x.physical \/ ~x.logical
  BY <1>1, <1>2 DEF Sound, ReleaseButton
<1>3. CASE x.physical /\ x.logical /\ debounce > 0
  <2> PICK waits : waits = [up EXCEPT !.pending = time, !.deadline = time + debounce,
                                      !.due = clock + debounce]
    OBVIOUS
  <2>1. ~waits.physical /\ waits.logical /\ waits.pending # NoTime
    BY <1>1, <1>3, NoTimeIsBefore DEF ButtonState
  <2>2. ReleaseButton(x, time) = waits
    BY <1>3 DEF ReleaseButton
  <2> QED
    BY <2>1, <2>2 DEF Sound
<1>4. CASE x.physical /\ x.logical /\ ~(debounce > 0)
  BY <1>4, ReleaseAtOnceSound DEF ReleaseButton
<1> QED
  BY <1>2, <1>3, <1>4

LEMMA CommitSound ==
    ASSUME NEW x \in ButtonState, Sound(x), x.pending # NoTime => ~x.physical,
           NEW due \in Int, NEW wait \in Nat
    PROVE  /\ Sound(CommitPendingRelease([x EXCEPT !.due = due], wait))
           /\ CommitPendingRelease([x EXCEPT !.due = due], wait).physical = x.physical
<1> PICK y : y = [x EXCEPT !.due = due]
  OBVIOUS
<1>1. /\ y \in ButtonState /\ y.physical = x.physical
      /\ y.logical = x.logical /\ y.pending = x.pending
  BY DEF ButtonState
<1>2. CASE x.pending = NoTime
  BY <1>1, <1>2 DEF Sound, CommitPendingRelease
<1>3. CASE x.pending # NoTime
  <2> PICK z : z = [y EXCEPT !.pending = NoTime, !.deadline = NoTime]
    OBVIOUS
  <2>1. z \in ButtonState /\ ~z.physical /\ z.logical /\ z.pending = NoTime
    BY <1>1, <1>3, NoTimeIsBefore DEF Sound, ButtonState
  <2>2. /\ ~FinishRelease(z, y.pending, y.pending + wait).physical
        /\ ~FinishRelease(z, y.pending, y.pending + wait).logical
        /\ FinishRelease(z, y.pending, y.pending + wait).pending = NoTime
    BY <2>1 DEF FinishRelease, ButtonState
  <2>3. CommitPendingRelease(y, wait) = FinishRelease(z, y.pending, y.pending + wait)
    BY <1>1, <1>3 DEF CommitPendingRelease
  <2>4. FinishRelease(z, y.pending, y.pending + wait).physical = FALSE /\ x.physical = FALSE
    <3>1. FinishRelease(z, y.pending, y.pending + wait).physical = z.physical
      BY <2>1 DEF FinishRelease, ButtonState
    <3> QED
      BY <1>3, <2>1, <3>1 DEF ButtonState
  <2> QED
    BY <2>2, <2>3, <2>4 DEF Sound
<1> QED
  BY <1>2, <1>3

LEMMA RescheduledSound ==
    ASSUME clock \in Nat, NEW x \in ButtonState, Sound(x), x.pending # NoTime => ~x.physical,
           NEW interval \in Nat
    PROVE  Sound(Rescheduled(x, interval)) /\ Rescheduled(x, interval).physical = x.physical
<1>1. CASE x.pending = NoTime
  BY <1>1 DEF Rescheduled
<1>2. CASE x.pending # NoTime /\ interval = 0
  BY <1>2, CommitSound, NoTimeIsBefore DEF Rescheduled
<1>3. CASE x.pending # NoTime /\ interval # 0
  BY <1>3 DEF Rescheduled, Sound, ButtonState
<1> QED
  BY <1>1, <1>2, <1>3

-----------------------------------------------------------------------------
(* Buttons follow keys: what a step leaves alone.                          *)

\* A step that leaves the button of k alone, unless it takes it away.
Undisturbed(k) ==
    /\ Down(k)' => Down(k)
    /\ config'[k] = config[k] => (Down(k)' <=> Down(k))

\* ...and what is known of k.
KnowsStill(k) ==
    /\ known'[k] = known[k] \/ (known[k] = "Known" /\ known'[k] = "No")
    /\ known'[k] = "Known" => config'[k] = config[k]

LEMMA PadIsTyped ==
    ASSUME FInv, NEW b \in Buttons
    PROVE  /\ pad[b] \in ButtonState /\ Sound(pad[b])
           /\ pad[b].pending # NoTime => ~pad[b].physical
BY DEF FInv, InputInv, Follows, Punctual

LEMMA PadUnchanged ==
    ASSUME FInv, pad' = pad
    PROVE  \A b \in Buttons : Sound(pad'[b])
BY PadIsTyped DEF Sound

LEMMA NothingDisturbed ==
    ASSUME config' = config, pad' = pad, NEW k
    PROVE  Undisturbed(k)
BY DEF Undisturbed, Down

LEMMA KeyStays ==
    ASSUME NEW k, KeyFollows(k), raw'[k] = raw[k], k \in keysDown' <=> k \in keysDown,
           Undisturbed(k), KnowsStill(k)
    PROVE  KeyFollows(k)'
<1>1. QueueFits(k)'
  BY DEF QueueFits, Alternate, LastOf, KeyFollows, KnowsStill
<1>2. KnownIsDown(k)'
  BY DEF KnownIsDown, KeyFollows, KnowsStill, Undisturbed
<1>3. KeyHolds(k)'
  BY DEF KeyHolds, KeyFollows, KnowsStill, Undisturbed
<1> QED
  BY <1>1, <1>2, <1>3 DEF KeyFollows

LEMMA AxisStays ==
    ASSUME AxisFollows, \A d \in Directions : Undisturbed(<<"axis", d>>),
           scratch'.direction \in {scratch.direction} \cup Directions
    PROVE  AxisFollows'
BY DEF AxisFollows, Undisturbed, Directions

LEMMA BendStays ==
    ASSUME BendFollows, \A d \in Directions : Undisturbed(<<"bend", d>>),
           raw'["bend"] = raw["bend"], BendIsTurned' <=> BendIsTurned
    PROVE  BendFollows'
BY DEF BendFollows, Undisturbed, LastOf

\* Keys and wheels are no two names of one thing.
LEMMA KeysAreNoWheels ==
    /\ Keys \subseteq AllKeys /\ Keys \subseteq Sources /\ Wheels \subseteq Sources
    /\ \A k \in Keys : k \notin Wheels /\ k \notin WheelKeys
    /\ \A w \in Wheels, d \in Directions : <<w, d>> \in AllKeys /\ <<w, d>> \in WheelKeys
BY InputAssumption DEF InputAssumption, AllKeys, Sources, WheelKeys

LEMMA HeldKeysTurnNoBend ==
    ASSUME "bend" \in Wheels, NEW k \in Keys, keysDown' = keysDown \ {k} \/ keysDown' = keysDown \cup {k}
    PROVE  BendIsTurned' <=> BendIsTurned
<1>1. k \notin {"bend"} \X Directions
  BY KeysAreNoWheels
<1> QED
  BY <1>1 DEF BendIsTurned

\* The button of one key changes.
LEMMA PadWithDisturbsNone ==
    ASSUME FInv, NEW k \in AllKeys, config' = config, NEW x, pad' = PadWith(config[k], x),
           config[k] # NoButton => Sound(x)
    PROVE  /\ \A b \in Buttons : Sound(pad'[b])
           /\ \A j \in AllKeys \ {k} : Undisturbed(j)
           /\ Down(k)' <=> (config[k] # NoButton /\ x.physical)
<1>1. /\ config \in [AllKeys -> Buttons \cup {NoButton}] /\ OneKeyPerButton(config)
      /\ DOMAIN pad = Buttons
  BY DEF FInv, InputInv, InputTypeOK, Configs
<1>2. CASE config[k] = NoButton
  <2>1. pad' = pad
    BY <1>2 DEF PadWith
  <2>2. ~Down(k)'
    BY <1>2 DEF Down
  <2> QED
    BY <1>2, <2>1, <2>2, PadUnchanged, NothingDisturbed
<1>3. CASE config[k] # NoButton
  <2>1. config[k] \in Buttons /\ pad' = [pad EXCEPT ![config[k]] = x]
    BY <1>1, <1>3 DEF PadWith
  <2>2. pad'[config[k]] = x /\ \A b \in Buttons : b # config[k] => pad'[b] = pad[b]
    BY <1>1, <2>1
  <2>3. \A b \in Buttons : Sound(pad'[b])
    <3> SUFFICES ASSUME NEW b \in Buttons PROVE Sound(pad'[b])
      OBVIOUS
    <3>1. Sound(pad[b])
      BY PadIsTyped
    <3> QED
      BY <1>3, <2>2, <3>1
  <2>4. \A j \in AllKeys \ {k} : Undisturbed(j)
    <3> SUFFICES ASSUME NEW j \in AllKeys \ {k} PROVE Undisturbed(j)
      OBVIOUS
    <3>1. CASE config[j] = NoButton
      BY <3>1 DEF Undisturbed, Down
    <3>2. CASE config[j] # NoButton
      <4>1. config[j] # config[k] /\ config[j] \in Buttons
        BY <1>1, <3>2 DEF OneKeyPerButton
      <4>2. pad'[config[j]] = pad[config[j]]
        BY <2>2, <4>1
      <4> QED
        BY <4>2 DEF Undisturbed, Down
    <3> QED
      BY <3>1, <3>2
  <2>5. Down(k)' <=> (config[k] # NoButton /\ x.physical)
    BY <1>3, <2>2 DEF Down
  <2> QED
    BY <2>3, <2>4, <2>5
<1> QED
  BY <1>2, <1>3

\* Every release that waits and every deadline changes, and no button moves.
LEMMA NothingMoves ==
    ASSUME config' = config, \A b \in Buttons : pad'[b].physical = pad[b].physical,
           NEW k \in AllKeys, config[k] \in Buttons \cup {NoButton}
    PROVE  Undisturbed(k)
BY DEF Undisturbed, Down

LEMMA TurnedDisturbsNone ==
    ASSUME FInv, NEW w \in Wheels, NEW direction \in Directions \cup {"None"},
           NEW time \in Int, config' = config, pad' = Turned(w, direction, time)
    PROVE  /\ \A b \in Buttons : Sound(pad'[b])
           /\ \A j \in AllKeys : (\A d \in Directions : j # <<w, d>>) => Undisturbed(j)
           /\ direction = "None" => \A d \in Directions : ~Down(<<w, d>>)'
<1>1. config \in [AllKeys -> Buttons \cup {NoButton}] /\ OneKeyPerButton(config)
      /\ clock \in Nat /\ debounce \in Nat
  BY NowIsMapState DEF FInv, InputInv, InputTypeOK, Configs
<1>2. \A b \in Buttons :
         /\ Sound(pad[b])
         /\ Sound(ReleaseAtOnce(pad[b], time)) /\ ~ReleaseAtOnce(pad[b], time).physical
         /\ Sound(PressButton(pad[b], time))
  <2> TAKE b \in Buttons
  <2>1. pad[b] \in ButtonState /\ Sound(pad[b]) /\ time \in Int
    BY PadIsTyped
  <2> QED
    BY <1>1, <2>1, ReleaseAtOnceSound, PressButtonSound
<1>3. \A b \in Buttons : pad'[b] =
         CASE \E d \in Directions : d # direction /\ config[<<w, d>>] = b ->
                ReleaseAtOnce(pad[b], time)
           [] direction # "None" /\ config[<<w, direction>>] = b -> PressButton(pad[b], time)
           [] OTHER -> pad[b]
  BY DEF Turned
<1>4. \A b \in Buttons :
         \/ (\E d \in Directions : d # direction /\ config[<<w, d>>] = b)
            /\ pad'[b] = ReleaseAtOnce(pad[b], time)
         \/ direction # "None" /\ config[<<w, direction>>] = b
            /\ pad'[b] = PressButton(pad[b], time)
         \/ pad'[b] = pad[b]
  BY <1>3
<1>5. \A b \in Buttons : Sound(pad'[b])
  BY <1>2, <1>4
<1>6. ASSUME NEW j \in AllKeys, \A d \in Directions : j # <<w, d>>
      PROVE  Undisturbed(j)
  <2>1. CASE config[j] = NoButton
    BY <2>1 DEF Undisturbed, Down
  <2>2. CASE config[j] # NoButton
    <3>1. config[j] \in Buttons /\ \A d \in Directions : config[<<w, d>>] # config[j]
      <4>1. config[j] \in Buttons
        BY <1>1, <2>2
      <4>2. ASSUME NEW d \in Directions PROVE config[<<w, d>>] # config[j]
        <5>1. PICK i : i = <<w, d>>
          OBVIOUS
        <5>2. i \in AllKeys /\ i # j
          BY <1>6, <5>1, KeysAreNoWheels
        <5>3. config[i] # config[j]
          BY <1>1, <2>2, <5>2 DEF OneKeyPerButton
        <5> QED
          BY <5>1, <5>3
      <4> QED
        BY <4>1, <4>2
    <3>2. pad'[config[j]] = pad[config[j]]
      BY <1>4, <3>1
    <3> QED
      BY <3>2 DEF Undisturbed, Down
  <2> QED
    BY <2>1, <2>2
<1>7. ASSUME direction = "None", NEW d \in Directions
      PROVE  ~Down(<<w, d>>)'
  <2>1. CASE config[<<w, d>>] = NoButton
    BY <2>1 DEF Down
  <2>2. CASE config[<<w, d>>] # NoButton
    <3>1. config[<<w, d>>] \in Buttons /\ d # direction
      <4>1. <<w, d>> \in AllKeys
        BY KeysAreNoWheels
      <4>2. d # direction
        BY <1>7 DEF Directions
      <4> QED
        BY <1>1, <2>2, <4>1, <4>2
    <3>2. PICK b \in Buttons : b = config[<<w, d>>]
      BY <3>1
    <3>3. \E e \in Directions : e # direction /\ config[<<w, e>>] = b
      BY <3>1, <3>2
    <3>4. pad'[b] = ReleaseAtOnce(pad[b], time)
      BY <1>3, <1>7, <3>3
    <3> QED
      BY <1>2, <3>2, <3>4 DEF Down
  <2> QED
    BY <2>1, <2>2
<1> QED
  BY <1>5, <1>6, <1>7

-----------------------------------------------------------------------------
(* Buttons follow keys: bindings.                                          *)

SoundStates == {s \in MapStates : \A b \in Buttons : Sound(s.pad[b])}

\* A key that keeps a button keeps it as it was.
Spares(s, t, k) ==
    t.config[k] # NoButton =>
        t.config[k] = s.config[k] /\ t.pad[t.config[k]] = s.pad[s.config[k]]

LEMMA SparesIsTransitive ==
    ASSUME NEW s, NEW t, NEW u, NEW k, Spares(s, t, k), Spares(t, u, k)
    PROVE  Spares(s, u, k)
BY DEF Spares

LEMMA NowIsSound == ASSUME FInv PROVE Now \in SoundStates
BY NowIsMapState DEF FInv, Follows, SoundStates, Now

LEMMA UnbindSpares ==
    ASSUME clock \in Nat, debounce \in Nat,
           NEW s \in SoundStates, NEW key \in AllKeys, NEW time \in Int
    PROVE  /\ UnpressAndUnbind(s, key, time) \in SoundStates
           /\ \A k \in AllKeys \ {key} : Spares(s, UnpressAndUnbind(s, key, time), k)
<1> PICK u : u = UnpressAndUnbind(s, key, time)
  OBVIOUS
<1>1. u \in MapStates /\ s \in MapStates
  BY UnbindKeepsState DEF SoundStates
<1>2. /\ s.config \in [AllKeys -> Buttons \cup {NoButton}] /\ OneKeyPerButton(s.config)
      /\ s.pad \in [Buttons -> Punctual(clock, debounce)]
  BY <1>1 DEF MapStates, GoodConfigs, Configs
<1>3. CASE s.config[key] = NoButton
  <2>1. u = s
    BY <1>3 DEF UnpressAndUnbind
  <2> QED
    BY <2>1 DEF Spares
<1>4. CASE s.config[key] # NoButton
  <2>1. /\ u.config = [s.config EXCEPT ![key] = NoButton]
        /\ u.pad = [s.pad EXCEPT ![s.config[key]] = ReleaseAtOnce(s.pad[s.config[key]], time)]
    BY <1>4 DEF UnpressAndUnbind
  <2>2. s.config[key] \in Buttons /\ s.pad[s.config[key]] \in ButtonState
        /\ Sound(s.pad[s.config[key]])
    BY <1>2, <1>4 DEF Punctual, SoundStates
  <2>3. Sound(ReleaseAtOnce(s.pad[s.config[key]], time))
    BY <2>2, ReleaseAtOnceSound
  <2>4. \A b \in Buttons : Sound(u.pad[b])
    <3> SUFFICES ASSUME NEW b \in Buttons PROVE Sound(u.pad[b])
      OBVIOUS
    <3>1. CASE b = s.config[key]
      BY <1>2, <2>1, <2>3, <3>1
    <3>2. CASE b # s.config[key]
      <4>1. u.pad[b] = s.pad[b]
        BY <1>2, <2>1, <3>2
      <4> QED
        BY <4>1 DEF SoundStates
    <3> QED
      BY <3>1, <3>2
  <2>5. \A k \in AllKeys \ {key} : Spares(s, u, k)
    <3> SUFFICES ASSUME NEW k \in AllKeys \ {key}, u.config[k] # NoButton
                 PROVE  u.config[k] = s.config[k] /\ u.pad[u.config[k]] = s.pad[s.config[k]]
      BY DEF Spares
    <3>1. u.config[k] = s.config[k]
      BY <1>2, <2>1
    <3>2. s.config[k] \in Buttons /\ s.config[k] # s.config[key]
      BY <1>2, <3>1 DEF OneKeyPerButton
    <3> QED
      BY <1>2, <2>1, <3>1, <3>2
  <2> QED
    BY <1>1, <2>4, <2>5 DEF SoundStates
<1> QED
  BY <1>3, <1>4

LEMMA BindSpares ==
    ASSUME clock \in Nat, debounce \in Nat, NEW s \in SoundStates,
           NEW key \in AllKeys, NEW b \in Buttons, NEW time \in Int
    PROVE  /\ BindKeyToButton(s, key, b, time) \in SoundStates
           /\ BindKeyToButton(s, key, b, time).config[key] = b
           /\ \A k \in AllKeys \ {key} : Spares(s, BindKeyToButton(s, key, b, time), k)
<1> PICK u : u = UnpressAndUnbind(s, key, time)
  OBVIOUS
<1> PICK t : t = BindKeyToButton(s, key, b, time)
  OBVIOUS
<1>1. u \in SoundStates /\ \A k \in AllKeys \ {key} : Spares(s, u, k)
  BY UnbindSpares
<1>2. u \in MapStates /\ t \in MapStates /\ s \in MapStates
  BY <1>1, BindKeepsState DEF SoundStates
<1>3. t = [u EXCEPT !.config = [RemoveButtonMappings(u.config, b) EXCEPT ![key] = b]]
  BY <1>2 DEF BindKeyToButton, MapStates
<1>4. /\ t.pad = u.pad
      /\ t.config = [RemoveButtonMappings(u.config, b) EXCEPT ![key] = b]
  BY <1>2, <1>3 DEF MapStates
<1>5. t.config = [k \in AllKeys |-> IF k = key THEN b
                                    ELSE IF u.config[k] = b THEN NoButton ELSE u.config[k]]
  BY <1>4 DEF RemoveButtonMappings
<1>6. \A k \in AllKeys \ {key} : Spares(u, t, k)
  BY <1>4, <1>5 DEF Spares
<1>7. \A k \in AllKeys \ {key} : Spares(s, t, k)
  BY <1>1, <1>6, SparesIsTransitive
<1>8. t \in SoundStates
  BY <1>1, <1>2, <1>4 DEF SoundStates
<1> QED
  BY <1>5, <1>7, <1>8

\* A binding that becomes the present one disturbs no key that it spares.
LEMMA BecomeDisturbsNone ==
    ASSUME FInv, NEW s \in SoundStates, Become(s)
    PROVE  /\ \A b \in Buttons : Sound(pad'[b])
           /\ \A k \in AllKeys : Spares(Now, s, k) => Undisturbed(k)
           /\ \A k \in Keys : KnowsStill(k)
<1>1. config' = s.config /\ pad' = s.pad /\ Now.config = config /\ Now.pad = pad
  BY DEF Become, Now
<1>2. \A k \in Keys : known'[k] = IF known[k] = "Known" /\ config'[k] # config[k]
                                  THEN "No" ELSE known[k]
  BY DEF Become
<1>3. \A b \in Buttons : Sound(pad'[b])
  BY <1>1 DEF SoundStates
<1>4. \A k \in AllKeys : Spares(Now, s, k) => Undisturbed(k)
  BY <1>1 DEF Spares, Undisturbed, Down
<1>5. ASSUME NEW k \in Keys PROVE KnowsStill(k)
  <2>1. CASE known[k] = "Known" /\ config'[k] # config[k]
    <3>1. known'[k] = "No" /\ known[k] = "Known"
      BY <1>2, <2>1
    <3> QED
      BY <3>1 DEF KnowsStill
  <2>2. CASE ~(known[k] = "Known" /\ config'[k] # config[k])
    <3>1. known'[k] = known[k] /\ (known[k] = "Known" => config'[k] = config[k])
      BY <1>2, <2>2
    <3> QED
      BY <3>1 DEF KnowsStill
  <2> QED
    BY <2>1, <2>2
<1> QED
  BY <1>3, <1>4, <1>5

-----------------------------------------------------------------------------
(* Buttons follow keys: events of keys.                                    *)

\* The first event of a source is taken: the last one stays the last.
LEMMA TailOfEvents ==
    ASSUME NEW S, NEW s \in Seq(S), s # <<>>
    PROVE  /\ Head(s) = s[1]
           /\ Tail(s) = <<>> => LastOf(s) = Head(s)
           /\ Tail(s) # <<>> => LastOf(Tail(s)) = LastOf(s) /\ Head(Tail(s)) = s[2]
           /\ Alternate(s) => Alternate(Tail(s))
<1> PICK q : q = Tail(s)
  OBVIOUS
<1>1. /\ q \in Seq(S) /\ Len(q) = Len(s) - 1
      /\ \A i \in 1..Len(q) : q[i] = s[i + 1]
  BY HeadTailProperties
<1>2. Len(s) \in Nat \ {0} /\ Head(s) = s[1]
  OBVIOUS
<1>3. ASSUME q = <<>> PROVE LastOf(s) = Head(s)
  <2>1. Len(q) = 0
    BY ONLY <1>3
  <2>2. Len(s) = 1
    BY <1>1, <1>2, <2>1
  <2> QED
    BY <1>2, <2>2 DEF LastOf
<1>4. ASSUME q # <<>> PROVE LastOf(q) = LastOf(s) /\ Head(q) = s[2]
  <2>1. Len(q) \in Nat \ {0} /\ Head(q) = q[1]
    BY <1>1, <1>4
  <2>2. 1 \in 1..Len(q) /\ Len(q) \in 1..Len(q)
    <3>1. \A n \in Nat \ {0} : 1 \in 1..n /\ n \in 1..n
      OBVIOUS
    <3> QED
      BY <2>1, <3>1
  <2>3. q[1] = s[1 + 1] /\ q[Len(q)] = s[Len(q) + 1]
    BY <1>1, <2>2, Zenon
  <2> QED
    BY <1>1, <1>2, <2>1, <2>3 DEF LastOf
<1>5. ASSUME Alternate(s) PROVE Alternate(q)
  <2> SUFFICES ASSUME NEW i \in 1..Len(q) - 1
               PROVE  q[i].press # q[i + 1].press
    BY DEF Alternate
  <2>1. i \in 1..Len(q) /\ i + 1 \in 1..Len(q) /\ i + 1 \in 1..Len(s) - 1
    BY <1>1, <1>2
  <2>2. s[i + 1].press # s[i + 1 + 1].press
    BY <1>5, <2>1 DEF Alternate
  <2>3. q[i] = s[i + 1] /\ q[i + 1] = s[i + 1 + 1]
    BY <1>1, <2>1
  <2> QED
    BY <2>2, <2>3
<1> QED
  BY <1>2, <1>3, <1>4, <1>5

LEMMA AppendOfEvent ==
    ASSUME NEW S, NEW s \in Seq(S), NEW e \in S
    PROVE  /\ Append(s, e) # <<>> /\ LastOf(Append(s, e)) = e
           /\ Head(Append(s, e)) = IF s = <<>> THEN e ELSE Head(s)
           /\ Alternate(s) /\ (s # <<>> => LastOf(s).press # e.press)
              => Alternate(Append(s, e))
<1> PICK a : a = Append(s, e)
  OBVIOUS
<1>1. /\ a \in Seq(S) /\ Len(a) = Len(s) + 1 /\ Len(s) \in Nat
      /\ \A i \in 1..Len(s) : a[i] = s[i]
      /\ a[Len(s) + 1] = e
  BY AppendProperties
<1>2. a # <<>> /\ Head(a) = a[1] /\ LastOf(a) = e
  BY <1>1 DEF LastOf
<1>3. Head(a) = IF s = <<>> THEN e ELSE Head(s)
  <2>1. CASE s = <<>>
    BY <1>1, <1>2, <2>1
  <2>2. CASE s # <<>>
    <3>1. Len(s) \in Nat \ {0} /\ Head(s) = s[1]
      BY <2>2
    <3>2. 1 \in 1..Len(s)
      BY <3>1
    <3> QED
      BY <1>1, <1>2, <2>2, <3>1, <3>2
  <2> QED
    BY <2>1, <2>2
<1>4. ASSUME Alternate(s), s # <<>> => LastOf(s).press # e.press
      PROVE  Alternate(a)
  <2> SUFFICES ASSUME NEW i \in 1..Len(a) - 1 PROVE a[i].press # a[i + 1].press
    BY DEF Alternate
  <2>1. i \in 1..Len(s) /\ s # <<>>
    BY <1>1
  <2>2. CASE i = Len(s)
    BY <1>1, <1>4, <2>1, <2>2 DEF LastOf
  <2>3. CASE i # Len(s)
    <3>1. i \in 1..Len(s) - 1 /\ i + 1 \in 1..Len(s)
      BY <1>1, <2>1, <2>3
    <3>2. s[i].press # s[i + 1].press
      BY <1>4, <3>1 DEF Alternate
    <3> QED
      BY <1>1, <2>1, <3>1, <3>2
  <2> QED
    BY <2>2, <2>3
<1> QED
  BY <1>2, <1>3, <1>4

-----------------------------------------------------------------------------
(* Buttons follow keys: the steps.                                         *)

\* The parts of the invariant that do not speak of the keys K.
LEMMA OthersFollow ==
    ASSUME FInv, NEW K,
           \A j \in Keys \ K : /\ raw'[j] = raw[j] /\ (j \in keysDown' <=> j \in keysDown)
                               /\ Undisturbed(j) /\ KnowsStill(j)
    PROVE  \A j \in Keys \ K : KeyFollows(j)'
<1> SUFFICES ASSUME NEW j \in Keys \ K PROVE KeyFollows(j)'
  OBVIOUS
<1>1. KeyFollows(j)
  BY DEF FInv, Follows
<1> QED
  BY <1>1, KeyStays

LEMMA NothingLearnt ==
    ASSUME known' = known, config' = config, NEW k
    PROVE  KnowsStill(k)
BY DEF KnowsStill

\* The press and the release of a key in a row.
LEMMA SecondEvent ==
    ASSUME NEW s \in Seq(KeyEvents), s # <<>>, Tail(s) # <<>>, Alternate(s)
    PROVE  Head(Tail(s)).press <=> ~Head(s).press
<1>1. Head(s) = s[1] /\ Head(Tail(s)) = s[2]
  BY TailOfEvents
<1>2. Tail(s) \in Seq(KeyEvents) /\ Len(Tail(s)) = Len(s) - 1 /\ Len(s) \in Nat
  BY HeadTailProperties
<1>3. Len(s) >= 2
  <2> PICK q : q = Tail(s)
    OBVIOUS
  <2>1. q \in Seq(KeyEvents) /\ q # <<>>
    BY <1>2
  <2>2. Len(q) \in Nat \ {0}
    BY ONLY <2>1
  <2> QED
    BY <1>2, <2>2
<1>4. 1 \in 1..Len(s) - 1 /\ 1 \in 1..Len(s) /\ 2 \in 1..Len(s)
  BY <1>2, <1>3
<1>5. s[1].press # s[1 + 1].press
  BY <1>4 DEF Alternate
<1>6. s[1] \in KeyEvents /\ s[2] \in KeyEvents
  BY <1>4
<1>7. s[1].press \in BOOLEAN /\ s[2].press \in BOOLEAN
  BY <1>6 DEF KeyEvents
<1> QED
  BY <1>1, <1>5, <1>7

LEMMA ConsumeTakes ==
    ASSUME FInv, NEW s \in Sources, Consume(s)
    PROVE  /\ raw'[s] = Tail(raw[s])
           /\ \A t \in Sources : t # s => raw'[t] = raw[t]
BY DEF FInv, InputInv, InputTypeOK, Consume

LEMMA HandlePressFollows == ASSUME FInv, NEW k \in Keys, HandlePress(k) PROVE Follows'
<1> PICK time : time = Head(raw[k]).time
  OBVIOUS
<1> PICK q : q = raw[k]
  OBVIOUS
<1>1. /\ Consume(k) /\ q # <<>> /\ Head(q).press
      /\ UNCHANGED <<clock, keysDown, debounce, scratch, spent>>
  BY DEF HandlePress
<1>2. /\ k \in AllKeys /\ k \in Sources /\ q \in Seq(KeyEvents) /\ KeyFollows(k)
      /\ clock \in Nat /\ debounce \in Nat /\ config[k] \in Buttons \cup {NoButton}
      /\ configured \in Buttons \cup {NoButton} /\ known \in [Keys -> {"No", "Known", "Stray"}]
  BY KeysAreNoWheels, NowIsMapState DEF FInv, Follows, InputInv, InputTypeOK
<1>3. time \in Nat
  BY <1>1, <1>2, ConsumeKeepsEvents DEF FInv
<1>4. /\ raw'[k] = Tail(q) /\ \A s \in Sources : s # k => raw'[s] = raw[s]
  BY <1>1, <1>2, ConsumeTakes
<1>5. /\ \A b \in Buttons : Sound(pad'[b])
      /\ \A j \in AllKeys \ {k} : Undisturbed(j)
      /\ \A j \in Keys \ {k} : KnowsStill(j)
      /\ known'[k] = "Stray" <=> known[k] = "Stray"
      /\ known'[k] = "Known" => Down(k)'
  <2>1. CASE configured # NoButton
    <3> PICK t : t = BindKeyToButton(Now, k, configured, time)
      OBVIOUS
    <3>1. Become(t)
      BY <1>1, <2>1 DEF HandlePress
    <3>2. t \in SoundStates /\ \A j \in AllKeys \ {k} : Spares(Now, t, j)
      BY <1>2, <1>3, <2>1, NowIsSound, BindSpares
    <3>3. /\ \A b \in Buttons : Sound(pad'[b])
          /\ \A j \in AllKeys \ {k} : Undisturbed(j)
          /\ \A j \in Keys : KnowsStill(j)
      BY <3>1, <3>2, BecomeDisturbsNone
    <3>4. known[k] # "Known"
      BY <1>1, <1>2 DEF KeyFollows, KnownIsDown
    <3>5. known'[k] = known[k]
      BY <3>3, <3>4 DEF KnowsStill
    <3> QED
      BY <3>3, <3>4, <3>5
  <2>2. CASE configured = NoButton
    <3> PICK x : x = PressButton(pad[config[k]], time)
      OBVIOUS
    <3>1. /\ pad' = PadWith(config[k], x) /\ UNCHANGED <<config, configured>>
          /\ known' = [known EXCEPT ![k] =
                          IF config[k] = NoButton \/ known[k] = "Stray" THEN known[k] ELSE "Known"]
      BY <2>2 DEF HandlePress
    <3>2. config[k] # NoButton => Sound(x) /\ x.physical
      <4>1. ASSUME config[k] # NoButton
            PROVE  pad[config[k]] \in ButtonState /\ Sound(pad[config[k]])
        BY <1>2, <4>1, PadIsTyped
      <4> QED
        BY <1>2, <1>3, <4>1, PressButtonSound
    <3>3. /\ \A b \in Buttons : Sound(pad'[b])
          /\ \A j \in AllKeys \ {k} : Undisturbed(j)
          /\ Down(k)' <=> (config[k] # NoButton /\ x.physical)
      BY <1>2, <3>1, <3>2, PadWithDisturbsNone
    <3>4. \A j \in Keys \ {k} : KnowsStill(j)
      BY <1>2, <3>1 DEF KnowsStill
    <3>5. known'[k] = IF config[k] = NoButton \/ known[k] = "Stray" THEN known[k] ELSE "Known"
      BY <1>2, <3>1
    <3>6. ASSUME known'[k] = "Known" PROVE Down(k)'
      <4>1. config[k] # NoButton
        BY <1>2, <3>5, <3>6 DEF KeyFollows, KnownIsDown, Down
      <4> QED
        BY <3>2, <3>3, <4>1
    <3> QED
      BY <3>3, <3>4, <3>5, <3>6
  <2> QED
    BY <2>1, <2>2
<1>6. /\ Tail(q) = <<>> => LastOf(q) = Head(q)
      /\ Tail(q) # <<>> => LastOf(Tail(q)) = LastOf(q)
      /\ Alternate(q) => Alternate(Tail(q))
      /\ (Tail(q) # <<>> /\ Alternate(q)) => ~Head(Tail(q)).press
  BY <1>1, <1>2, TailOfEvents, SecondEvent
<1>7. /\ known[k] # "Stray" => Alternate(q)
      /\ ~LastOf(q).press => k \notin keysDown
      /\ (LastOf(q).press /\ known[k] # "Stray") => k \in keysDown
  BY <1>1, <1>2 DEF KeyFollows, QueueFits
<1>8. KeyFollows(k)'
  <2>1. QueueFits(k)'
    BY <1>1, <1>4, <1>5, <1>6, <1>7 DEF QueueFits
  <2>2. KnownIsDown(k)'
    BY <1>1, <1>4, <1>5, <1>6, <1>7 DEF KnownIsDown
  <2>3. KeyHolds(k)'
    BY <1>1, <1>4, <1>5, <1>6, <1>7 DEF KeyHolds
  <2> QED
    BY <2>1, <2>2, <2>3 DEF KeyFollows
<1>9. \A j \in Keys \ {k} : KeyFollows(j)'
  BY <1>1, <1>4, <1>5, KeysAreNoWheels, OthersFollow
<1>10. AxisFollows'
  BY <1>1, <1>5, KeysAreNoWheels, AxisStays DEF FInv, Follows, AxisFollows
<1>11. BendFollows'
  BY <1>1, <1>4, <1>5, KeysAreNoWheels, BendStays DEF FInv, Follows, BendFollows, BendIsTurned
<1> QED
  BY <1>1, <1>5, <1>8, <1>9, <1>10, <1>11 DEF FInv, Follows, DiscHasAxis

LEMMA HandleReleaseFollows == ASSUME FInv, NEW k \in Keys, HandleRelease(k) PROVE Follows'
<1> PICK time : time = Head(raw[k]).time
  OBVIOUS
<1> PICK q : q = raw[k]
  OBVIOUS
<1> PICK x : x = ReleaseButton(pad[config[k]], time)
  OBVIOUS
<1>1. /\ Consume(k) /\ q # <<>> /\ ~Head(q).press
      /\ pad' = PadWith(config[k], x)
      /\ known' = [known EXCEPT ![k] = IF known[k] = "Stray" /\ Tail(q) # <<>>
                                       THEN known[k] ELSE "No"]
      /\ UNCHANGED <<clock, keysDown, config, configured, debounce, scratch, spent>>
  BY DEF HandleRelease
<1>2. /\ k \in AllKeys /\ k \in Sources /\ q \in Seq(KeyEvents) /\ KeyFollows(k)
      /\ clock \in Nat /\ debounce \in Nat /\ config[k] \in Buttons \cup {NoButton}
      /\ known \in [Keys -> {"No", "Known", "Stray"}]
  BY KeysAreNoWheels, NowIsMapState DEF FInv, Follows, InputInv, InputTypeOK
<1>3. time \in Nat
  BY <1>1, <1>2, ConsumeKeepsEvents DEF FInv
<1>4. raw'[k] = Tail(q) /\ \A s \in Sources : s # k => raw'[s] = raw[s]
  BY <1>1, <1>2, ConsumeTakes
<1>5. config[k] # NoButton => Sound(x) /\ ~x.physical
  <2>1. ASSUME config[k] # NoButton
        PROVE  pad[config[k]] \in ButtonState /\ Sound(pad[config[k]])
    BY <1>2, <2>1, PadIsTyped
  <2> QED
    BY <1>2, <1>3, <2>1, ReleaseButtonSound
<1>6. /\ \A b \in Buttons : Sound(pad'[b])
      /\ \A j \in AllKeys \ {k} : Undisturbed(j)
      /\ ~Down(k)'
  BY <1>1, <1>2, <1>5, PadWithDisturbsNone
<1>7. \A j \in Keys \ {k} : KnowsStill(j)
  BY <1>1, <1>2 DEF KnowsStill
<1>8. known'[k] = IF known[k] = "Stray" /\ Tail(q) # <<>> THEN known[k] ELSE "No"
  BY <1>1, <1>2
<1>9. KeyFollows(k)'
  <2>1. /\ Tail(q) # <<>> => LastOf(Tail(q)) = LastOf(q)
        /\ Alternate(q) => Alternate(Tail(q))
    BY <1>1, <1>2, TailOfEvents
  <2>2. /\ known[k] # "Stray" => Alternate(q)
        /\ ~LastOf(q).press => k \notin keysDown
        /\ (LastOf(q).press /\ known[k] # "Stray") => k \in keysDown
    BY <1>1, <1>2 DEF KeyFollows, QueueFits
  <2>3. Tail(q) = <<>> => Alternate(Tail(q))
    BY DEF Alternate
  <2>4. QueueFits(k)'
    BY <1>1, <1>4, <1>8, <2>1, <2>2, <2>3 DEF QueueFits
  <2>5. KnownIsDown(k)' /\ KeyHolds(k)'
    BY <1>6, <1>8 DEF KnownIsDown, KeyHolds
  <2> QED
    BY <2>4, <2>5 DEF KeyFollows
<1>10. \A j \in Keys \ {k} : KeyFollows(j)'
  BY <1>1, <1>4, <1>6, <1>7, KeysAreNoWheels, OthersFollow
<1>11. AxisFollows'
  BY <1>1, <1>6, KeysAreNoWheels, AxisStays DEF FInv, Follows, AxisFollows
<1>12. BendFollows'
  BY <1>1, <1>4, <1>6, KeysAreNoWheels, BendStays DEF FInv, Follows, BendFollows, BendIsTurned
<1> QED
  BY <1>1, <1>6, <1>9, <1>10, <1>11, <1>12 DEF FInv, Follows, DiscHasAxis

\* A wheel moves or is let go: its own keys follow, and no others are disturbed.
LEMMA HandleAxisChangeFollows ==
    ASSUME FInv, NEW direction \in Directions \cup {"None"}, "axis" \in Wheels,
           NEW time \in Nat, HandleAxisChange(direction, time)
    PROVE  /\ \A b \in Buttons : Sound(pad'[b])
           /\ \A j \in AllKeys : (\A d \in Directions : j # <<"axis", d>>) => Undisturbed(j)
           /\ \A k \in Keys : KnowsStill(k)
           /\ direction = "None" => \A d \in Directions : ~Down(<<"axis", d>>)'
<1>1. CASE IsScratch(configured) /\ direction # "None"
  <2>1. configured \in Buttons /\ Inverted[configured] \in Buttons
    <3>1. configured \in Buttons \cup {NoButton}
      BY DEF FInv, InputInv, InputTypeOK
    <3> QED
      BY <1>1, <3>1, InputAssumption DEF IsScratch, InputAssumption
  <2>2. /\ <<"axis", direction>> \in AllKeys /\ <<"axis", Opposite[direction]>> \in AllKeys
        /\ direction \in Directions /\ Opposite[direction] \in Directions
    BY <1>1, KeysAreNoWheels DEF Directions, Opposite
  <2>3. clock \in Nat /\ debounce \in Nat /\ Now \in SoundStates
    BY NowIsMapState, NowIsSound DEF FInv
  <2> PICK i : i = <<"axis", direction>>
    OBVIOUS
  <2> PICK o : o = <<"axis", Opposite[direction]>>
    OBVIOUS
  <2> PICK s : s = BindKeyToButton(Now, i, configured, time)
    OBVIOUS
  <2> PICK t : t = BindKeyToButton(s, o, Inverted[configured], time)
    OBVIOUS
  <2>4. s \in SoundStates /\ \A k \in AllKeys \ {i} : Spares(Now, s, k)
    <3>1. i \in AllKeys /\ time \in Int
      BY <2>2
    <3> QED
      BY <2>1, <2>3, <3>1, BindSpares
  <2>5. t \in SoundStates /\ \A k \in AllKeys \ {o} : Spares(s, t, k)
    <3>1. o \in AllKeys /\ time \in Int
      BY <2>2
    <3> QED
      BY <2>1, <2>3, <2>4, <3>1, BindSpares
  <2>6. Become(t)
    BY <1>1 DEF HandleAxisChange
  <2>7. ASSUME NEW j \in AllKeys, \A d \in Directions : j # <<"axis", d>>
        PROVE  Undisturbed(j)
    <3>1. j # i /\ j # o
      BY <2>2, <2>7
    <3>2. Spares(Now, t, j)
      BY <2>4, <2>5, <3>1, SparesIsTransitive
    <3> QED
      BY <2>5, <2>6, <3>2, BecomeDisturbsNone
  <2> QED
    BY <1>1, <2>5, <2>6, <2>7, BecomeDisturbsNone
<1>2. CASE ~(IsScratch(configured) /\ direction # "None")
  <2>1. pad' = Turned("axis", direction, time) /\ UNCHANGED <<config, configured, known>>
    BY <1>2 DEF HandleAxisChange
  <2> QED
    BY <2>1, TurnedDisturbsNone, NothingLearnt
<1> QED
  BY <1>1, <1>2

LEMMA HandleAxisFollows == ASSUME FInv, HandleAxis PROVE Follows'
<1> PICK event : event = Head(raw["axis"])
  OBVIOUS
<1>1. /\ Consume("axis") /\ "axis" \in Sources /\ raw["axis"] # <<>> /\ "axis" \in Wheels
      /\ UNCHANGED <<clock, keysDown, debounce, spent>>
  BY DEF HandleAxis, Sources
<1>2. event.time \in Nat /\ event.direction \in Directions \cup {"None"}
  BY <1>1, ConsumeKeepsEvents, WheelEvent DEF FInv
<1>3. \A s \in Sources : s # "axis" => raw'[s] = raw[s]
  BY <1>1, ConsumeTakes
<1>4. /\ scratch \in [analog : BOOLEAN, direction : Directions \cup {"None"},
                      due : Int, stamp : Int]
      /\ \A k \in Keys : KeyFollows(k)
      /\ AxisFollows /\ BendFollows
  BY DEF FInv, Follows, InputInv, InputTypeOK
<1>5. \/ HandleAxisChange(event.direction, event.time)
         /\ scratch'.direction = event.direction
      \/ UNCHANGED <<scratch, pad, config, configured, known>>
  BY <1>4 DEF HandleAxis
<1>6. /\ \A b \in Buttons : Sound(pad'[b])
      /\ \A j \in AllKeys : (\A d \in Directions : j # <<"axis", d>>) => Undisturbed(j)
      /\ \A k \in Keys : KnowsStill(k)
      /\ AxisFollows'
  <2>1. CASE HandleAxisChange(event.direction, event.time)
             /\ scratch'.direction = event.direction
    <3>1. /\ \A b \in Buttons : Sound(pad'[b])
          /\ \A j \in AllKeys : (\A d \in Directions : j # <<"axis", d>>) => Undisturbed(j)
          /\ \A k \in Keys : KnowsStill(k)
          /\ event.direction = "None" => \A d \in Directions : ~Down(<<"axis", d>>)'
      BY <1>1, <1>2, <2>1, HandleAxisChangeFollows
    <3>2. AxisFollows'
      BY <2>1, <3>1 DEF AxisFollows
    <3> QED
      BY <3>1, <3>2
  <2>2. CASE UNCHANGED <<scratch, pad, config, configured, known>>
    <3>1. AxisFollows'
      BY <1>4, <2>2, NothingDisturbed, AxisStays
    <3> QED
      BY <2>2, <3>1, PadUnchanged, NothingDisturbed, NothingLearnt
  <2> QED
    BY <1>5, <2>1, <2>2
<1>7. \A k \in Keys : KeyFollows(k)'
  <2>1. \A k \in Keys \ {} : /\ raw'[k] = raw[k] /\ (k \in keysDown' <=> k \in keysDown)
                             /\ Undisturbed(k) /\ KnowsStill(k)
    BY <1>1, <1>3, <1>6, KeysAreNoWheels
  <2> QED
    BY <2>1, OthersFollow
<1>8. BendFollows'
  <2>1. ASSUME "bend" \in Wheels
        PROVE  /\ \A d \in Directions : Undisturbed(<<"bend", d>>)
               /\ raw'["bend"] = raw["bend"] /\ (BendIsTurned' <=> BendIsTurned)
    BY <1>1, <1>3, <1>6, <2>1, KeysAreNoWheels DEF BendIsTurned
  <2>2. "bend" \notin Wheels => BendFollows'
    BY DEF BendFollows
  <2> QED
    BY <1>4, <2>1, <2>2, BendStays
<1> QED
  BY <1>1, <1>6, <1>7, <1>8 DEF Follows, DiscHasAxis

LEMMA AutoReleaseFollows == ASSUME FInv, AutoReleaseScratch PROVE Follows'
<1>1. /\ scratch.stamp \in Int /\ "axis" \in Wheels /\ scratch'.direction = "None"
      /\ pad' = Turned("axis", "None", scratch.stamp)
      /\ UNCHANGED <<clock, keysDown, raw, config, configured, debounce, known, spent>>
  BY DEF AutoReleaseScratch, FInv, InputInv, InputTypeOK, Follows, DiscHasAxis
<1>2. /\ \A b \in Buttons : Sound(pad'[b])
      /\ \A j \in AllKeys : (\A d \in Directions : j # <<"axis", d>>) => Undisturbed(j)
      /\ \A d \in Directions : ~Down(<<"axis", d>>)'
  BY <1>1, TurnedDisturbsNone
<1>3. \A k \in Keys : KeyFollows(k)'
  <2>1. \A k \in Keys \ {} : /\ raw'[k] = raw[k] /\ (k \in keysDown' <=> k \in keysDown)
                             /\ Undisturbed(k) /\ KnowsStill(k)
    BY <1>1, <1>2, KeysAreNoWheels, NothingLearnt
  <2> QED
    BY <2>1, OthersFollow
<1>4. AxisFollows' /\ DiscHasAxis'
  BY <1>1, <1>2 DEF AxisFollows, DiscHasAxis
<1>5. BendFollows'
  <2>1. ASSUME "bend" \in Wheels
        PROVE  \A d \in Directions : Undisturbed(<<"bend", d>>)
    BY <1>2, <2>1, KeysAreNoWheels
  <2>2. BendFollows /\ (BendIsTurned' <=> BendIsTurned) /\ raw'["bend"] = raw["bend"]
    BY <1>1 DEF FInv, Follows, BendIsTurned
  <2>3. "bend" \notin Wheels => BendFollows'
    BY DEF BendFollows
  <2> QED
    BY <2>1, <2>2, <2>3, BendStays
<1> QED
  BY <1>2, <1>3, <1>4, <1>5 DEF Follows

LEMMA HandlePitchBendFollows == ASSUME FInv, HandlePitchBend PROVE Follows'
<1> PICK event : event = Head(raw["bend"])
  OBVIOUS
<1> PICK released : released = [b \in Buttons |->
        IF config[<<"bend", Opposite[event.direction]>>] = b
        THEN ReleaseAtOnce(pad[b], event.time) ELSE pad[b]]
  OBVIOUS
<1>1. /\ Consume("bend") /\ "bend" \in Sources /\ raw["bend"] # <<>> /\ "bend" \in Wheels
      /\ UNCHANGED <<clock, keysDown, debounce, scratch, spent>>
  BY DEF HandlePitchBend, Sources
<1>2. event.time \in Nat /\ event.time \in Int /\ event.time <= clock
      /\ event.direction \in Directions \cup {"None"}
  BY <1>1, ConsumeKeepsEvents, WheelEvent DEF FInv
<1>3. /\ raw'["bend"] = Tail(raw["bend"])
      /\ \A s \in Sources : s # "bend" => raw'[s] = raw[s]
  BY <1>1, ConsumeTakes
<1>4. /\ \A b \in Buttons : Sound(pad'[b])
      /\ \A j \in AllKeys : (\A d \in Directions : j # <<"bend", d>>) => Undisturbed(j)
      /\ \A k \in Keys : KnowsStill(k)
      /\ event.direction = "None" => \A d \in Directions : ~Down(<<"bend", d>>)'
  <2>1. CASE event.direction # "None" /\ configured # NoButton
    <3> PICK i : i = <<"bend", event.direction>>
      OBVIOUS
    <3> PICK s : s = [Now EXCEPT !.pad = released]
      OBVIOUS
    <3> PICK t : t = BindKeyToButton(s, i, configured, event.time)
      OBVIOUS
    <3>1. /\ clock \in Nat /\ debounce \in Nat /\ configured \in Buttons
          /\ config \in [AllKeys -> Buttons \cup {NoButton}] /\ OneKeyPerButton(config)
          /\ Now \in MapStates /\ Now.config = config /\ Now.pad = pad
          /\ pad \in [Buttons -> Punctual(clock, debounce)]
      BY <2>1, NowIsMapState DEF FInv, InputInv, InputTypeOK, Configs, Now
    <3>2. /\ i \in AllKeys /\ event.direction \in Directions
          /\ Opposite[event.direction] \in Directions
          /\ <<"bend", Opposite[event.direction]>> \in AllKeys
      BY <1>1, <1>2, <2>1, KeysAreNoWheels DEF Directions, Opposite
    <3>3. \A b \in Buttons : /\ ReleaseAtOnce(pad[b], event.time) \in Punctual(clock, debounce)
                             /\ Sound(pad[b]) /\ Sound(ReleaseAtOnce(pad[b], event.time))
      <4> TAKE b \in Buttons
      <4>1. pad[b] \in ButtonState /\ Sound(pad[b])
        BY PadIsTyped
      <4> QED
        BY <1>2, <3>1, <4>1, ReleaseAtOnceSound, ReleaseAtOncePunctual
    <3>4. /\ released \in [Buttons -> Punctual(clock, debounce)]
          /\ \A b \in Buttons : Sound(released[b])
      BY <3>1, <3>3
    <3>5. s.config = config /\ s.pad = released /\ s \in MapStates
      BY <3>1, <3>4 DEF MapStates
    <3>6. s \in SoundStates
      BY <3>4, <3>5 DEF SoundStates
    <3>7. t \in SoundStates /\ \A k \in AllKeys \ {i} : Spares(s, t, k)
      BY <1>2, <3>1, <3>2, <3>6, BindSpares
    <3>8. Become(t)
      BY <2>1 DEF HandlePitchBend
    <3>9. ASSUME NEW j \in AllKeys, \A d \in Directions : j # <<"bend", d>>
          PROVE  Undisturbed(j)
      <4> PICK o : o = <<"bend", Opposite[event.direction]>>
        OBVIOUS
      <4>1. j # i /\ j # o /\ o \in AllKeys
        BY <3>2, <3>9
      <4>2. ASSUME config[j] # NoButton PROVE config[j] \in Buttons /\ config[o] # config[j]
        BY <3>1, <4>1, <4>2 DEF OneKeyPerButton
      <4>3. config[j] # NoButton => released[config[j]] = pad[config[j]]
        BY <4>2
      <4>4. Spares(Now, s, j)
        BY <3>1, <3>5, <4>3 DEF Spares
      <4>5. Spares(Now, t, j)
        BY ZenonT(30), <3>7, <4>1, <4>4, SparesIsTransitive
      <4> QED
        BY <3>7, <3>8, <4>5, BecomeDisturbsNone
    <3> QED
      BY <2>1, <3>7, <3>8, <3>9, BecomeDisturbsNone
  <2>2. CASE ~(event.direction # "None" /\ configured # NoButton)
    <3>1. /\ pad' = Turned("bend", event.direction, event.time)
          /\ UNCHANGED <<config, configured, known>>
      BY <2>2 DEF HandlePitchBend
    <3> QED
      BY <1>1, <1>2, <3>1, TurnedDisturbsNone, NothingLearnt
  <2> QED
    BY <2>1, <2>2
<1>5. \A k \in Keys : KeyFollows(k)'
  <2>1. \A k \in Keys \ {} : /\ raw'[k] = raw[k] /\ (k \in keysDown' <=> k \in keysDown)
                             /\ Undisturbed(k) /\ KnowsStill(k)
    BY <1>1, <1>3, <1>4, KeysAreNoWheels
  <2> QED
    BY <2>1, OthersFollow
<1>6. AxisFollows' /\ DiscHasAxis'
  <2>1. ASSUME "axis" \in Wheels
        PROVE  \A d \in Directions : Undisturbed(<<"axis", d>>)
    BY <1>4, <2>1, KeysAreNoWheels
  <2>2. "axis" \notin Wheels => AxisFollows'
    BY DEF AxisFollows
  <2> QED
    BY <1>1, <2>1, <2>2, AxisStays DEF FInv, Follows, DiscHasAxis
<1>7. BendFollows'
  <2> PICK q : q = raw["bend"]
    OBVIOUS
  <2>1. /\ q # <<>> /\ q \in Seq(WheelEvents)
        /\ LastOf(q).direction # "None" => BendIsTurned
        /\ BendIsTurned' <=> BendIsTurned
    BY <1>1 DEF FInv, InputInv, InputTypeOK, Follows, BendFollows, BendIsTurned
  <2>2. /\ Tail(q) = <<>> => LastOf(q) = event
        /\ Tail(q) # <<>> => LastOf(Tail(q)) = LastOf(q)
    BY <2>1, TailOfEvents
  <2>3. raw'["bend"] = Tail(q)
    BY <1>3
  <2> QED
    BY <1>4, <2>1, <2>2, <2>3 DEF BendFollows
<1> QED
  BY <1>4, <1>5, <1>6, <1>7 DEF Follows

\* A step that moves no button, no key and no wheel.
LEMMA QuietStepFollows ==
    ASSUME FInv, \A b \in Buttons : Sound(pad'[b]),
           \A j \in AllKeys : Undisturbed(j), \A k \in Keys : KnowsStill(k),
           raw' = raw, keysDown' = keysDown, scratch'.direction = scratch.direction,
           scratch'.due = scratch.due
    PROVE  Follows'
<1>1. \A k \in Keys : KeyFollows(k)'
  <2>1. \A k \in Keys \ {} : /\ raw'[k] = raw[k] /\ (k \in keysDown' <=> k \in keysDown)
                             /\ Undisturbed(k) /\ KnowsStill(k)
    BY KeysAreNoWheels
  <2> QED
    BY <2>1, OthersFollow
<1>2. AxisFollows' /\ DiscHasAxis'
  BY KeysAreNoWheels, AxisStays DEF FInv, Follows, DiscHasAxis, AxisFollows
<1>3. BendFollows'
  BY KeysAreNoWheels, BendStays DEF FInv, Follows, BendFollows, BendIsTurned
<1> QED
  BY <1>1, <1>2, <1>3 DEF Follows

LEMMA ConfigIsTyped == ASSUME FInv, NEW k \in AllKeys PROVE config[k] \in Buttons \cup {NoButton}
BY NowIsMapState DEF FInv

LEMMA DebounceTimerFollows ==
    ASSUME FInv, NEW b \in Buttons, DebounceTimerFires(b) PROVE Follows'
<1> PICK x : x = CommitPendingRelease([pad[b] EXCEPT !.due = NoTime], debounce)
  OBVIOUS
<1>1. /\ pad' = [pad EXCEPT ![b] = x]
      /\ UNCHANGED <<clock, keysDown, raw, config, configured, debounce, scratch, known, spent>>
  BY DEF DebounceTimerFires
<1>2. Sound(x) /\ x.physical = pad[b].physical
  <2>1. /\ pad[b] \in ButtonState /\ Sound(pad[b]) /\ debounce \in Nat /\ NoTime \in Int
        /\ pad[b].pending # NoTime => ~pad[b].physical
    BY PadIsTyped, NowIsMapState, NoTimeIsBefore DEF FInv
  <2> QED
    BY <2>1, CommitSound
<1>3. DOMAIN pad = Buttons
  BY DEF FInv, InputInv, InputTypeOK
<1>4. \A c \in Buttons : Sound(pad'[c]) /\ pad'[c].physical = pad[c].physical
  <2> SUFFICES ASSUME NEW c \in Buttons
               PROVE  Sound(pad'[c]) /\ pad'[c].physical = pad[c].physical
    OBVIOUS
  <2>1. CASE c = b
    BY <1>1, <1>2, <1>3, <2>1
  <2>2. CASE c # b
    <3>1. pad'[c] = pad[c] /\ Sound(pad[c])
      BY <1>1, <1>3, <2>2, PadIsTyped
    <3> QED
      BY <3>1
  <2> QED
    BY <2>1, <2>2
<1>5. \A j \in AllKeys : Undisturbed(j)
  BY <1>1, <1>4, ConfigIsTyped, NothingMoves
<1>6. \A k \in Keys : KnowsStill(k)
  BY <1>1, NothingLearnt
<1> QED
  BY <1>1, <1>4, <1>5, <1>6, QuietStepFollows

LEMMA SetDebounceFollows == ASSUME FInv, NEW i \in Intervals, SetDebounceMs(i) PROVE Follows'
<1>1. /\ UNCHANGED <<clock, keysDown, raw, config, configured, scratch, known>>
      /\ \A b \in Buttons : pad'[b] = Rescheduled(pad[b], i)
  BY DEF SetDebounceMs
<1>2. \A b \in Buttons : Sound(pad'[b]) /\ pad'[b].physical = pad[b].physical
  <2> SUFFICES ASSUME NEW b \in Buttons
               PROVE  Sound(pad'[b]) /\ pad'[b].physical = pad[b].physical
    OBVIOUS
  <2>1. /\ pad[b] \in ButtonState /\ Sound(pad[b]) /\ clock \in Nat /\ i \in Nat
        /\ pad[b].pending # NoTime => ~pad[b].physical
    BY PadIsTyped, NowIsMapState, InputAssumption DEF FInv, InputAssumption
  <2> QED
    BY <1>1, <2>1, RescheduledSound
<1>3. \A j \in AllKeys : Undisturbed(j)
  BY <1>1, <1>2, ConfigIsTyped, NothingMoves
<1>4. \A k \in Keys : KnowsStill(k)
  BY <1>1, NothingLearnt
<1> QED
  BY <1>1, <1>2, <1>3, <1>4, QuietStepFollows

\* The clock, the algorithm of the disc and what the next key is bound to.
LEMMA UntouchedFollows ==
    ASSUME FInv, UNCHANGED <<keysDown, raw, config, pad, known>>,
           scratch'.direction = scratch.direction, scratch'.due = scratch.due
    PROVE  Follows'
<1>1. /\ \A b \in Buttons : Sound(pad'[b])
      /\ \A j \in AllKeys : Undisturbed(j)
      /\ \A k \in Keys : KnowsStill(k)
  BY PadUnchanged, NothingDisturbed, NothingLearnt
<1> QED
  BY <1>1, QuietStepFollows

LEMMA SetScratchAlgorithmFollows == ASSUME FInv, SetScratchAlgorithm PROVE Follows'
<1>1. scratch' = [scratch EXCEPT !.analog = ~scratch.analog]
      /\ UNCHANGED <<keysDown, raw, config, pad, known>>
  BY DEF SetScratchAlgorithm
<1>2. scratch'.direction = scratch.direction /\ scratch'.due = scratch.due
  BY <1>1 DEF FInv, InputInv, InputTypeOK
<1> QED
  BY <1>1, <1>2, UntouchedFollows

LEMMA ResetButtonFollows == ASSUME FInv, NEW b \in Buttons, ResetButton(b) PROVE Follows'
<1> PICK t : t = [Now EXCEPT !.config = RemoveButtonMappings(config, b)]
  OBVIOUS
<1>1. Become(t) /\ UNCHANGED <<clock, keysDown, raw, configured, debounce, scratch>>
  BY DEF ResetButton, Now
<1>2. /\ t.config = RemoveButtonMappings(config, b) /\ t.pad = pad
      /\ Now.config = config /\ Now.pad = pad
  BY DEF Now
<1>3. config \in GoodConfigs /\ pad \in [Buttons -> Punctual(clock, debounce)]
  BY DEF FInv, InputInv, InputTypeOK, GoodConfigs
<1>4. t.config \in GoodConfigs
  BY <1>2, <1>3, RemovalKeepsConfigGood
<1>5. t \in MapStates
  BY <1>2, <1>3, <1>4 DEF MapStates, Now
<1>6. t \in SoundStates
  BY <1>2, <1>5, PadIsTyped DEF SoundStates
<1>7. \A k \in AllKeys : Spares(Now, t, k)
  BY <1>2 DEF Spares, RemoveButtonMappings
<1> QED
  BY <1>1, <1>6, <1>7, BecomeDisturbsNone, QuietStepFollows

LEMMA MidiDeviceRemovedFollows ==
    ASSUME FInv, NEW k \in Keys, MidiDeviceRemoved(k) PROVE Follows'
<1> PICK x : x = ReleaseAtOnce(pad[config[k]], clock)
  OBVIOUS
<1>1. /\ keysDown' = keysDown \ {k} /\ pad' = PadWith(config[k], x)
      /\ known' = [known EXCEPT ![k] = IF raw[k] = <<>> THEN "No" ELSE "Stray"]
      /\ UNCHANGED <<clock, raw, config, configured, debounce, scratch>>
  BY DEF MidiDeviceRemoved
<1>2. /\ k \in AllKeys /\ KeyFollows(k) /\ clock \in Int
      /\ config[k] \in Buttons \cup {NoButton} /\ known \in [Keys -> {"No", "Known", "Stray"}]
  BY KeysAreNoWheels, NowIsMapState DEF FInv, Follows, InputInv, InputTypeOK
<1>3. config[k] # NoButton => Sound(x) /\ ~x.physical
  <2>1. ASSUME config[k] # NoButton
        PROVE  pad[config[k]] \in ButtonState /\ Sound(pad[config[k]])
    BY <1>2, <2>1, PadIsTyped
  <2> QED
    BY <1>2, <2>1, ReleaseAtOnceSound
<1>4. /\ \A b \in Buttons : Sound(pad'[b])
      /\ \A j \in AllKeys \ {k} : Undisturbed(j)
      /\ ~Down(k)'
  BY <1>1, <1>2, <1>3, PadWithDisturbsNone
<1>5. \A j \in Keys \ {k} : KnowsStill(j)
  BY <1>1, <1>2 DEF KnowsStill
<1>6. known'[k] = IF raw[k] = <<>> THEN "No" ELSE "Stray"
  BY <1>1, <1>2
<1>7. KeyFollows(k)'
  <2>1. raw[k] = <<>> => Alternate(raw[k])
    BY DEF Alternate
  <2>2. QueueFits(k)'
    BY <1>1, <1>2, <1>6, <2>1 DEF QueueFits, KeyFollows
  <2>3. KnownIsDown(k)' /\ KeyHolds(k)'
    BY <1>4, <1>6 DEF KnownIsDown, KeyHolds
  <2> QED
    BY <2>2, <2>3 DEF KeyFollows
<1>8. \A j \in Keys \ {k} : KeyFollows(j)'
  BY <1>1, <1>4, <1>5, KeysAreNoWheels, OthersFollow
<1>9. AxisFollows'
  BY <1>1, <1>4, KeysAreNoWheels, AxisStays DEF FInv, Follows, AxisFollows
<1>10. BendFollows'
  BY <1>1, <1>4, KeysAreNoWheels, HeldKeysTurnNoBend, BendStays DEF FInv, Follows, BendFollows
<1> QED
  BY <1>1, <1>4, <1>7, <1>8, <1>9, <1>10 DEF FInv, Follows, DiscHasAxis

LEMMA HappensOutside ==
    ASSUME FInv, NEW s \in Sources, NEW event, Happens(s, event)
    PROVE  /\ raw'[s] = Append(raw[s], event)
           /\ \A t \in Sources : t # s => raw'[t] = raw[t]
           /\ UNCHANGED <<config, pad, scratch, known>>
           /\ \A b \in Buttons : Sound(pad'[b])
           /\ \A j \in AllKeys : Undisturbed(j)
           /\ \A k \in Keys : KnowsStill(k)
<1>1. /\ raw' = [raw EXCEPT ![s] = Append(raw[s], event)]
      /\ UNCHANGED <<config, pad, scratch, known>> /\ DOMAIN raw = Sources
  BY DEF Happens, FInv, InputInv, InputTypeOK
<1>2. raw'[s] = Append(raw[s], event) /\ \A t \in Sources : t # s => raw'[t] = raw[t]
  BY <1>1
<1> QED
  BY <1>1, <1>2, PadUnchanged, NothingDisturbed, NothingLearnt

LEMMA KeyMovesFollows == ASSUME FInv, NEW k \in Keys, KeyMoves(k) PROVE Follows'
<1> PICK event : event = [press |-> k \notin keysDown, time |-> clock]
  OBVIOUS
<1> PICK q : q = raw[k]
  OBVIOUS
<1>1. Happens(k, event) /\ keysDown' = IF k \in keysDown THEN keysDown \ {k} ELSE keysDown \cup {k}
  BY DEF KeyMoves
<1>2. /\ k \in AllKeys /\ k \in Sources /\ q \in Seq(KeyEvents) /\ KeyFollows(k)
      /\ clock \in Nat
  BY KeysAreNoWheels, NowIsMapState DEF FInv, Follows, InputInv, InputTypeOK
<1>3. event \in KeyEvents /\ (event.press <=> k \notin keysDown)
  BY <1>2 DEF KeyEvents
<1>4. /\ raw'[k] = Append(q, event) /\ \A s \in Sources : s # k => raw'[s] = raw[s]
      /\ UNCHANGED <<config, pad, scratch, known>>
      /\ \A b \in Buttons : Sound(pad'[b])
      /\ \A j \in AllKeys : Undisturbed(j)
      /\ \A j \in Keys : KnowsStill(j)
  BY <1>1, <1>2, HappensOutside
<1>5. /\ raw'[k] # <<>> /\ LastOf(raw'[k]) = event
      /\ Head(raw'[k]) = IF q = <<>> THEN event ELSE Head(q)
      /\ (Alternate(q) /\ (q # <<>> => LastOf(q).press # event.press)) => Alternate(raw'[k])
  BY <1>2, <1>3, <1>4, AppendOfEvent
<1>6. q # <<>> => /\ ~LastOf(q).press => k \notin keysDown
                  /\ (LastOf(q).press /\ known[k] # "Stray") => k \in keysDown
                  /\ LastOf(q).press \in BOOLEAN
  <2>1. q # <<>> => LastOf(q) \in KeyEvents
    <3>1. \A n \in Nat \ {0} : n \in 1..n
      OBVIOUS
    <3>2. ASSUME q # <<>> PROVE Len(q) \in 1..Len(q)
      BY <1>2, <3>1, <3>2
    <3> QED
      BY <1>2, <3>2 DEF LastOf
  <2> QED
    BY <1>2, <2>1 DEF KeyFollows, QueueFits, KeyEvents
<1>7. known[k] # "Stray" => Alternate(q)
  BY <1>2 DEF KeyFollows, QueueFits
<1>8. k \in keysDown' <=> k \notin keysDown
  BY <1>1
<1>9. KeyFollows(k)'
  <2>1. known[k] # "Stray" => Alternate(raw'[k])
    <3>1. (known[k] # "Stray" /\ q # <<>>) => LastOf(q).press # event.press
      BY <1>3, <1>6
    <3> QED
      BY <1>5, <1>7, <3>1
  <2>2. QueueFits(k)'
    BY <1>3, <1>4, <1>5, <1>8, <2>1 DEF QueueFits
  <2>3. KnownIsDown(k)'
    <3>1. Down(k)' <=> Down(k)
      BY <1>2, <1>4 DEF Undisturbed
    <3> QED
      BY <1>2, <1>3, <1>4, <1>5, <3>1 DEF KnownIsDown, KeyFollows
  <2>4. KeyHolds(k)'
    BY <1>5 DEF KeyHolds
  <2> QED
    BY <2>2, <2>3, <2>4 DEF KeyFollows
<1>10. \A j \in Keys \ {k} : KeyFollows(j)'
  BY <1>1, <1>4, KeysAreNoWheels, OthersFollow
<1>11. AxisFollows'
  BY <1>4, KeysAreNoWheels, AxisStays DEF FInv, Follows, AxisFollows
<1>12. BendFollows'
  BY <1>1, <1>4, KeysAreNoWheels, HeldKeysTurnNoBend, BendStays DEF FInv, Follows, BendFollows
<1> QED
  BY <1>4, <1>9, <1>10, <1>11, <1>12 DEF FInv, Follows, DiscHasAxis

LEMMA WheelMovesFollows ==
    ASSUME FInv, NEW w \in Wheels, NEW direction \in Directions \cup {"None"},
           WheelMoves(w, direction)
    PROVE  Follows'
<1> PICK event : event = [direction |-> direction, time |-> clock]
  OBVIOUS
<1>1. /\ Happens(w, event)
      /\ keysDown' = (keysDown \ ({w} \X Directions)) \cup ({<<w, direction>>} \cap WheelKeys)
  BY DEF WheelMoves
<1>2. /\ w \in Sources /\ event \in WheelEvents /\ event.direction = direction
      /\ raw[w] \in Seq(WheelEvents)
  BY KeysAreNoWheels, NowIsMapState DEF FInv, InputInv, InputTypeOK, WheelEvents
<1>3. /\ raw'[w] = Append(raw[w], event)
      /\ \A s \in Sources : s # w => raw'[s] = raw[s]
      /\ UNCHANGED <<config, pad, scratch, known>>
      /\ \A b \in Buttons : Sound(pad'[b])
      /\ \A j \in AllKeys : Undisturbed(j)
      /\ \A j \in Keys : KnowsStill(j)
  BY <1>1, <1>2, HappensOutside
<1>4. \A k \in Keys : KeyFollows(k)'
  <2>1. \A k \in Keys : k \in keysDown' <=> k \in keysDown
    <3> TAKE k \in Keys
    <3>1. k \notin WheelKeys
      BY KeysAreNoWheels
    <3>2. {w} \X Directions \subseteq WheelKeys
      BY DEF WheelKeys
    <3> QED
      BY <1>1, <3>1, <3>2
  <2>2. \A k \in Keys \ {} : /\ raw'[k] = raw[k] /\ (k \in keysDown' <=> k \in keysDown)
                             /\ Undisturbed(k) /\ KnowsStill(k)
    BY <1>3, <2>1, KeysAreNoWheels
  <2> QED
    BY <2>2, OthersFollow
<1>5. AxisFollows' /\ DiscHasAxis'
  BY <1>3, KeysAreNoWheels, AxisStays DEF FInv, Follows, AxisFollows, DiscHasAxis
<1>6. BendFollows'
  <2>1. CASE w = "bend"
    <3>1. raw'["bend"] # <<>> /\ LastOf(raw'["bend"]) = event
      <4>1. /\ raw["bend"] \in Seq(WheelEvents)
            /\ raw'["bend"] = Append(raw["bend"], event)
        BY <1>2, <1>3, <2>1
      <4> QED
        BY <1>2, <4>1, AppendOfEvent
    <3>2. direction # "None" => BendIsTurned'
      <4> SUFFICES ASSUME direction # "None"
                   PROVE  <<"bend", direction>> \in keysDown' \cap ({"bend"} \X Directions)
        BY DEF BendIsTurned
      <4>1. direction \in Directions
        OBVIOUS
      <4>2. <<"bend", direction>> \in WheelKeys
        BY <2>1, <4>1, KeysAreNoWheels
      <4>3. <<"bend", direction>> \in keysDown'
        BY <1>1, <2>1, <4>2
      <4> QED
        BY <4>1, <4>3
    <3> QED
      BY <1>2, <3>1, <3>2 DEF BendFollows
  <2>2. CASE w # "bend"
    <3>1. BendIsTurned' <=> BendIsTurned
      <4>1. \A d \in Directions : <<"bend", d>> \notin {w} \X Directions
                                  /\ <<"bend", d>> # <<w, direction>>
        BY <2>2
      <4>2. \A d \in Directions : <<"bend", d>> \in keysDown' <=> <<"bend", d>> \in keysDown
        BY <1>1, <4>1
      <4> QED
        BY <4>2 DEF BendIsTurned
    <3> QED
      BY <1>3, <2>2, <3>1, KeysAreNoWheels, BendStays DEF FInv, Follows, BendFollows
  <2> QED
    BY <2>1, <2>2
<1> QED
  BY <1>3, <1>4, <1>5, <1>6 DEF Follows

LEMMA InitFollows == ASSUME InputInit PROVE Follows
<1>1. \A b \in Buttons : /\ pad[b].physical = FALSE /\ pad[b].logical = FALSE
                         /\ pad[b].pending = NoTime
  BY DEF InputInit
<1>2. config \in Configs
  BY InputAssumption DEF InputInit, InputAssumption
<1>3. \A k \in AllKeys : ~Down(k)
  BY <1>1, <1>2 DEF Down, Configs
<1>4. \A k \in Keys : KeyFollows(k)
  <2> SUFFICES ASSUME NEW k \in Keys PROVE KeyFollows(k)
    OBVIOUS
  <2>1. k \in AllKeys /\ known[k] = "No" /\ raw[k] = <<>>
    BY KeysAreNoWheels DEF InputInit
  <2>2. QueueFits(k)
    BY <2>1 DEF QueueFits, Alternate
  <2> QED
    BY <1>3, <2>1, <2>2 DEF KeyFollows, KnownIsDown, KeyHolds
<1>5. AxisFollows /\ DiscHasAxis
  BY <1>3, KeysAreNoWheels DEF AxisFollows, DiscHasAxis, InputInit
<1>6. BendFollows
  <2>1. "bend" \in Wheels => raw["bend"] = <<>>
    BY KeysAreNoWheels DEF InputInit
  <2> QED
    BY <1>3, <2>1, KeysAreNoWheels DEF BendFollows
<1> QED
  BY <1>1, <1>4, <1>5, <1>6 DEF Follows, Sound

LEMMA StepFollows == ASSUME FInv, [InputNext]_inputVars PROVE Follows'
<1>1. CASE ClockTick
  BY <1>1, UntouchedFollows DEF ClockTick
<1>2. ASSUME NEW b \in Buttons \cup {NoButton}, SetConfiguredButton(b) PROVE Follows'
  BY <1>2, UntouchedFollows DEF SetConfiguredButton
<1>3. CASE UNCHANGED inputVars
  BY <1>3, UntouchedFollows DEF inputVars
<1>4. CASE EventLoop
  BY <1>1, <1>4, HandlePressFollows, HandleReleaseFollows, HandleAxisFollows,
     HandlePitchBendFollows, AutoReleaseFollows, DebounceTimerFollows DEF EventLoop
<1>5. CASE Player
  BY <1>2, <1>5, KeyMovesFollows, WheelMovesFollows, MidiDeviceRemovedFollows,
     ResetButtonFollows, SetDebounceFollows, SetScratchAlgorithmFollows DEF Player
<1> QED
  BY <1>3, <1>4, <1>5 DEF InputNext

\* The stronger invariant holds in every reachable state: the events of a key fit where
\* it is, and the button of a key is down only while something holds it.
THEOREM FollowsHolds == InputSpec => []FInv
<1>1. InputInit => FInv
  BY InitEstablishes, InitFollows DEF FInv
<1>2. FInv /\ [InputNext]_inputVars => FInv'
  BY StepKeeps, StepFollows DEF FInv
<1> QED
  BY <1>1, <1>2, PTL DEF InputSpec

LEMMA FollowsSuffices == ASSUME FInv PROVE ButtonsFollowKeys
<1>1. ASSUME NEW b \in Buttons, pad[b].logical, Mapped(b) # {}
      PROVE  PressedIsHeld(b)
  <2>1. CASE pad[b].pending # NoTime
    <3>1. pad[b] \in Punctual(clock, debounce) /\ debounce \in Nat
      BY NowIsMapState DEF FInv
    <3>2. pad[b].due # NoTime
      BY <2>1, <3>1, NoTimeIsBefore DEF Punctual, ButtonState
    <3> QED
      BY <2>1, <3>2 DEF PressedIsHeld
  <2>2. CASE pad[b].pending = NoTime
    <3>1. pad[b].physical
      BY <1>1, <2>2, PadIsTyped DEF Sound
    <3>2. PICK k \in AllKeys : config[k] = b
      BY <1>1 DEF Mapped
    <3>3. Down(k)
      BY <3>1, <3>2, InputAssumption DEF Down, InputAssumption
    <3>4. Holds(k)
      <4>1. CASE k \in Keys
        BY <3>3, <4>1 DEF Holds, FInv, Follows, KeyFollows, KeyHolds
      <4>2. CASE k \in WheelKeys
        <5>1. PICK w \in Wheels, d \in Directions : k = <<w, d>>
          BY <4>2 DEF WheelKeys
        <5>2. k \notin Keys /\ k[1] = w /\ w \in {"axis", "bend"}
          BY <4>2, <5>1, KeysAreNoWheels, InputAssumption DEF InputAssumption
        <5>3. CASE w = "axis"
          <6>1. scratch.direction # "None"
            BY <3>3, <5>1, <5>3 DEF FInv, Follows, AxisFollows
          <6> QED
            BY <5>2, <5>3, <6>1 DEF Holds
        <5>4. CASE w = "bend"
          <6>1. raw["bend"] # <<>> \/ BendIsTurned
            BY <3>3, <5>1, <5>4 DEF FInv, Follows, BendFollows
          <6> QED
            BY <5>2, <5>4, <6>1 DEF Holds, BendIsTurned
        <5> QED
          BY <5>2, <5>3, <5>4
      <4> QED
        BY <4>1, <4>2 DEF AllKeys
    <3> QED
      BY <3>2, <3>4 DEF PressedIsHeld, Mapped
  <2> QED
    BY <2>1, <2>2
<1>2. ASSUME NEW k \in keysDown \cap Keys, known[k] = "Known", raw[k] = <<>>
      PROVE  pad[config[k]].physical /\ pad[config[k]].logical
  <2>1. Down(k)
    BY <1>2 DEF FInv, Follows, KeyFollows, KnownIsDown
  <2>2. config[k] \in Buttons
    BY <2>1, KeysAreNoWheels, ConfigIsTyped DEF Down
  <2> QED
    BY <2>1, <2>2, PadIsTyped DEF Down, Sound
<1> QED
  BY <1>1, <1>2 DEF ButtonsFollowKeys

\* No button hangs and none is lost, for any keys, buttons, intervals and delays: what
\* is reported as pressed has its key down or its release on the way, and the button of
\* a key that is down is pressed, however keys are bound and devices go meanwhile.
THEOREM ButtonsFollow == InputSpec => []ButtonsFollowKeys
<1>1. FInv => ButtonsFollowKeys
  BY FollowsSuffices
<1> QED
  BY <1>1, FollowsHolds, PTL

-----------------------------------------------------------------------------
(* No hit is swallowed.                                                    *)

\* Only a press takes the first event of a key when that is a press.
LEMMA OnlyAPressTakesIt ==
    ASSUME FInv, [InputNext]_inputVars, NEW k \in Keys,
           raw[k] # <<>>, raw'[k] = Tail(raw[k]), Head(raw[k]).press
    PROVE  HandlePress(k)
<1> PICK q : q = raw[k]
  OBVIOUS
<1>1. /\ q \in Seq(KeyEvents) /\ q # <<>> /\ k \in Sources /\ k \notin Wheels
      /\ DOMAIN raw = Sources
  BY KeysAreNoWheels DEF FInv, InputInv, InputTypeOK
<1>2. Len(q) \in Nat /\ Len(Tail(q)) = Len(q) - 1
  BY <1>1, HeadTailProperties
<1>3. raw'[k] # raw[k]
  <2>1. Len(Tail(q)) # Len(q)
    BY <1>2
  <2> QED
    BY <2>1
<1>4. ASSUME NEW s \in Sources, s # k PROVE ~Consume(s)
  BY <1>1, <1>3, <1>4 DEF Consume
<1>5. ASSUME NEW s \in Sources, NEW event, Happens(s, event) PROVE FALSE
  <2>1. raw' = [raw EXCEPT ![s] = Append(raw[s], event)]
    BY <1>5 DEF Happens
  <2>2. CASE s # k
    BY <1>1, <1>3, <2>1, <2>2
  <2>3. CASE s = k
    <3>1. raw'[k] = Append(q, event)
      BY <1>1, <2>1, <2>3
    <3>2. Len(Append(q, event)) = Len(q) + 1
      BY <1>1
    <3>3. raw'[k] = Tail(q)
      OBVIOUS
    <3>4. Len(Tail(q)) = Len(q) + 1
      BY <3>1, <3>2, <3>3
    <3> QED
      BY <1>2, <3>4
  <2> QED
    BY <2>2, <2>3
<1>6. ASSUME NEW j \in Keys, HandlePress(j) \/ HandleRelease(j) PROVE HandlePress(k)
  <2>1. Consume(j) /\ j \in Sources
    BY <1>6, KeysAreNoWheels DEF HandlePress, HandleRelease
  <2>2. j = k
    BY <1>4, <2>1
  <2> QED
    BY <1>6, <2>2 DEF HandleRelease
<1>7. ~HandleAxis /\ ~HandlePitchBend
  BY <1>1, <1>4, KeysAreNoWheels DEF HandleAxis, HandlePitchBend
<1>8. raw' # raw
  BY <1>3
<1>9. ~ClockTick /\ ~AutoReleaseScratch /\ \A b \in Buttons : ~DebounceTimerFires(b)
  BY <1>8 DEF ClockTick, AutoReleaseScratch, DebounceTimerFires
<1>10. ~Player
  BY <1>5, <1>8, KeysAreNoWheels DEF Player, KeyMoves, WheelMoves, MidiDeviceRemoved,
     SetConfiguredButton, ResetButton, SetDebounceMs, SetScratchAlgorithm
<1>11. ~UNCHANGED inputVars
  BY <1>8 DEF inputVars
<1> QED
  BY <1>6, <1>7, <1>9, <1>10, <1>11 DEF InputNext, EventLoop

LEMMA PressIsHeard ==
    ASSUME FInv, NEW k \in Keys, HandlePress(k), configured = NoButton,
           config[k] # NoButton,
           pad[config[k]].pending # NoTime, pad[config[k]].deadline # NoTime,
           Head(raw[k]).time >= pad[config[k]].pending + debounce
    PROVE  /\ pad'[config[k]].released = pad[config[k]].pending
           /\ pad'[config[k]].pressed = Head(raw[k]).time
           /\ pad'[config[k]].logical
<1> PICK time : time = Head(raw[k]).time
  OBVIOUS
<1> PICK b \in Buttons : b = config[k]
  BY KeysAreNoWheels, ConfigIsTyped
<1>1. /\ clock \in Nat /\ debounce \in Nat /\ pad[b] \in Punctual(clock, debounce)
      /\ Sound(pad[b]) /\ DOMAIN pad = Buttons
  BY NowIsMapState, PadIsTyped DEF FInv
<1>2. time \in Int
  <2>1. k \in Sources /\ Consume(k) /\ raw[k] # <<>> /\ clock' = clock
    BY KeysAreNoWheels DEF HandlePress
  <2>2. Head(raw[k]).time \in Nat
    BY <2>1, ConsumeKeepsEvents DEF FInv
  <2> QED
    BY <2>2
<1>3. /\ pad[b] \in ButtonState /\ ~pad[b].physical /\ pad[b].pending # NoTime
      /\ pad[b].deadline # NoTime /\ time >= pad[b].deadline
  BY <1>1 DEF Punctual
<1>4. pad' = [pad EXCEPT ![b] = PressButton(pad[b], time)]
  BY InputAssumption DEF HandlePress, PadWith, InputAssumption
<1>5. /\ PressButton(pad[b], time).released = pad[b].pending
      /\ PressButton(pad[b], time).pressed = time /\ PressButton(pad[b], time).logical
  BY <1>1, <1>2, <1>3, PressButtonSound
<1> QED
  BY <1>1, <1>4, <1>5

\* What NoHitIsSwallowed says of a step.
HitIsHeard ==
    \A k \in Keys : LET b == config[k] IN
        /\ raw[k] # <<>> /\ raw'[k] = Tail(raw[k]) /\ Head(raw[k]).press
        /\ configured = NoButton /\ b # NoButton
        /\ pad[b].pending # NoTime /\ pad[b].deadline # NoTime
        /\ Head(raw[k]).time >= pad[b].pending + debounce
        => /\ pad'[b].released = pad[b].pending
           /\ pad'[b].pressed = Head(raw[k]).time /\ pad'[b].logical

\* A press that comes the interval after a release or later is a new hit, for any
\* intervals and however late both are handled.
THEOREM HitsAreHeard == InputSpec => NoHitIsSwallowed
<1>1. FInv /\ [InputNext]_inputVars => [HitIsHeard]_inputVars
  BY OnlyAPressTakesIt, PressIsHeard DEF HitIsHeard
<1> QED
  BY <1>1, FollowsHolds, PTL DEF InputSpec, NoHitIsSwallowed, HitIsHeard
=============================================================================
