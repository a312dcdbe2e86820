----------------------------- MODULE NoteJudging -----------------------------
(***************************************************************************)
(* Judging the notes of one column, live and again from the recorded       *)
(* replay: rules::HitRules, the calls BmsGameReferee makes of it, the      *)
(* event log of BmsLiveScore and the loop of RePlayer.                     *)
(*                                                                         *)
(* A column is played with one key, a scratch with two.  A chart is a      *)
(* sequence of notes ordered by time; the end of a long note directly      *)
(* follows its begin (BmsNotesData removes what lies inside a long note).  *)
(* Time is counted in ticks.  The live player and the replaying player run *)
(* the same rules, so the rules are operators on the state of a column.    *)
(***************************************************************************)
EXTENDS Integers, FiniteSets, Sequences

CONSTANTS NoteKeys,   \* the keys of the column
          NoKey,      \* lnPressedKeys is empty
          Charts,     \* the charts played: sequences of [kind, time]
          Good,       \* half width of the Good window
          Bad,        \* half width of the Bad window
          Early,      \* width of the window an empty poor is given in
          LastTick,   \* the tick by which every note is out of every window
          MaxKeyEvents, \* bound on key events of one play
          MaxStalls   \* bound on ticks without an update and on late keys

ASSUME WindowsAssumption ==
    /\ Good \in Nat /\ Bad \in Nat /\ Early \in Nat
    /\ Good < Bad /\ Bad < Early
    /\ LastTick \in Nat /\ MaxKeyEvents \in Nat /\ MaxStalls \in Nat

ASSUME KeysAssumption == NoKey \notin NoteKeys

NoteKinds == {"Normal", "LnBegin", "LnEnd"}

(* What removeInvalidNotes leaves: begins and ends alternate, nothing lies *)
(* inside a long note, and every window closes before LastTick.            *)
IsChart(c) ==
    /\ c \in Seq([kind : NoteKinds, time : Nat])
    /\ \A i, j \in 1..Len(c) : i < j => c[i].time <= c[j].time
    /\ \A i \in 1..Len(c) :
          /\ c[i].kind = "LnBegin" => i < Len(c) /\ c[i + 1].kind = "LnEnd"
          /\ c[i].kind = "LnEnd" => i > 1 /\ c[i - 1].kind = "LnBegin"
          /\ c[i].time + Bad < LastTick

ASSUME ChartsAssumption == \A c \in Charts : IsChart(c)

VARIABLES chart,    \* the notes of the column
          phase,    \* "playing", then "replaying", then "done"
          now,      \* time since the start of the (re)play
          live,     \* the column of the player
          updated,  \* the last update processed misses up to this time
          log,      \* hits: the key events in the order they were handled
          punctual, \* every key event found the column up to date
          stalls,   \* missed updates and late key events so far
          replay,   \* the column of the replaying player
          left      \* the recorded events the replay has not taken

judgingVars == <<chart, phase, now, live, updated, log, punctual, stalls, replay, left>>

Notes == 1..Len(chart)
None == "None"
Grades == {"Great", "Good", "Bad"}
Judgements == Grades \cup {None, "Poor", "LnBeginHit", "LnEndSkip"}

Column == [judged : [Notes -> Judgements],
           current : 1..(Len(chart) + 1),
           lnBegin : Grades \cup {None},
           lnKey : NoteKeys \cup {NoKey},
           pressed : SUBSET NoteKeys,
           empties : Nat]

KeyEvent == [action : {"Press", "Release"}, key : NoteKeys, at : Nat]

FreshColumn(c) ==
    [judged |-> [i \in 1..Len(c) |-> None], current |-> 1, lnBegin |-> None,
     lnKey |-> NoKey, pressed |-> {}, empties |-> 0]

First(S) == CHOOSE i \in S : \A j \in S : i <= j

-----------------------------------------------------------------------------
(* The rules of HitRules.                                                  *)

Kind(i) == chart[i].kind
Judged(s, i) == s.judged[i] # None
Deviation(t, i) == t - chart[i].time
IsBad(d) == d \in (-Bad)..Bad /\ d \notin (-Good)..Good
GradeOf(d) == IF d = 0 THEN "Great"
              ELSE IF d \in (-Good)..Good THEN "Good" ELSE "Bad"

(* The notes a press can take: not hit, not the end of a long note, in the *)
(* window, and not a begin that is beyond Good on the late side.           *)
\* Fault: a note that was judged can be taken again.
PlayableAgain(s, t) ==
    {i \in s.current..Len(chart) :
        /\ Kind(i) # "LnEnd"
        /\ Deviation(t, i) \in (-Bad)..Bad
        /\ ~(Kind(i) = "LnBegin" /\ IsBad(Deviation(t, i)) /\ Deviation(t, i) > 0)}

Playable(s, t) ==
    {i \in s.current..Len(chart) :
        /\ ~Judged(s, i)
        /\ Kind(i) # "LnEnd"
        /\ Deviation(t, i) \in (-Bad)..Bad
        /\ ~(Kind(i) = "LnBegin" /\ IsBad(Deviation(t, i)) /\ Deviation(t, i) > 0)}

(* The combo algorithm: the first note that is not Bad is taken, and the   *)
(* earlier notes still in the Bad window are judged Bad with it.           *)
TakeFirst(s, t, k, f, bads) ==
    LET grade == GradeOf(Deviation(t, f))
        judged == [i \in Notes |->
                     IF i = f THEN IF Kind(f) = "LnBegin" THEN "LnBeginHit" ELSE grade
                     ELSE IF i \in bads /\ i < f THEN "Bad" ELSE s.judged[i]]
    IN  IF Kind(f) = "LnBegin"
        THEN [s EXCEPT !.judged = judged, !.lnBegin = grade, !.lnKey = k]
        ELSE [s EXCEPT !.judged = judged]

(* Every note in reach is Bad: the first, if it begins a long note, is     *)
(* taken alone with its end; otherwise all of them are.                    *)
TakeBads(s, bads) ==
    LET first == First(bads)
        taken == IF Kind(first) = "LnBegin" THEN {first} ELSE bads
        begins == {i \in taken : Kind(i) = "LnBegin"}
    IN  [s EXCEPT !.judged = [i \in Notes |->
            IF i \in begins THEN "LnBeginHit"
            ELSE IF i \in taken \/ i - 1 \in begins THEN "Bad" ELSE s.judged[i]]]

InEmptyPoorWindow(s, t) ==
    \E i \in s.current..Len(chart) :
        Kind(i) # "LnEnd" /\ Deviation(t, i) > -Early /\ Deviation(t, i) < -Bad

HitPress(s, t, k) ==
    LET bads  == {i \in Playable(s, t) : IsBad(Deviation(t, i))}
        goods == Playable(s, t) \ bads
    IN  IF goods # {} THEN TakeFirst(s, t, k, First(goods), bads)
        ELSE IF bads # {} THEN TakeBads(s, bads)
        ELSE IF InEmptyPoorWindow(s, t) THEN [s EXCEPT !.empties = @ + 1]
        ELSE s

(* BmsGameReferee::passPressed: a key that is down is not pressed again.   *)
Press(s, t, k) == HitPress([s EXCEPT !.pressed = @ \cup {k}], t, k)

Unjudged(s) == {i \in s.current..Len(chart) : ~Judged(s, i)}

(* The end of the long note a release of k lets go: the first note not hit, *)
(* if it is an end and was begun with this key.                            *)
Released(s, k) ==
    {i \in Unjudged(s) : /\ i = First(Unjudged(s))
                      /\ Kind(i) = "LnEnd"
                      /\ s.lnKey \in {NoKey, k}}

TooEarly(t, i) == Deviation(t, i) < -Good

Release(s, t, k) ==
    LET up == [s EXCEPT !.pressed = @ \ {k}]
        ends == Released(s, k)
    IN  IF ends = {} THEN up
        ELSE LET e == First(ends)
             IN [up EXCEPT !.judged[e] = IF TooEarly(t, e) THEN "Bad" ELSE s.lnBegin,
                           !.lnKey = NoKey]

(* The offset a release is logged with: the time of the note it judges,    *)
(* unless the note was dropped.                                            *)
LoggedAt(s, t, k) ==
    LET ends == Released(s, k)
    IN  IF ends = {} \/ TooEarly(t, First(ends)) THEN t ELSE chart[First(ends)].time

Due(t, i) == \/ Deviation(t, i) > Bad
             \/ Kind(i) = "LnEnd" /\ Deviation(t, i) > 0

(* The ends processMisses skips: their begin is missed in the same pass.   *)
\* Fault: missing the begin of a long note does not skip its end.
SkipNoEnd(s, t, i) == FALSE

SkippedEnd(s, t, i) ==
    /\ Kind(i) = "LnEnd"
    /\ i - 1 \in Unjudged(s)
    /\ Due(t, i - 1)

\* Fault: the cursor is moved past the note the pass stopped at.
ProcessMissesOneMore(s, t) ==
    LET waiting == {i \in Unjudged(s) : ~Due(t, i) /\ ~SkippedEnd(s, t, i)}
        stop == IF waiting = {} THEN Len(chart) + 1 ELSE First(waiting)
        passed == {i \in Unjudged(s) : i < stop}
    IN  [s EXCEPT
          !.judged = [i \in Notes |->
              IF i \notin passed THEN s.judged[i]
              ELSE IF Kind(i) # "LnEnd" THEN "Poor"
              ELSE IF SkippedEnd(s, t, i) THEN "LnEndSkip" ELSE s.lnBegin],
          !.lnKey = IF \E i \in passed : Kind(i) # "Normal" THEN NoKey ELSE @,
          !.current = stop + 1]

ProcessMisses(s, t) ==
    LET waiting == {i \in Unjudged(s) : ~Due(t, i) /\ ~SkippedEnd(s, t, i)}
        stop == IF waiting = {} THEN Len(chart) + 1 ELSE First(waiting)
        passed == {i \in Unjudged(s) : i < stop}
    IN  [s EXCEPT
          !.judged = [i \in Notes |->
              IF i \notin passed THEN s.judged[i]
              ELSE IF Kind(i) # "LnEnd" THEN "Poor"
              ELSE IF SkippedEnd(s, t, i) THEN "LnEndSkip" ELSE s.lnBegin],
          !.lnKey = IF \E i \in passed : Kind(i) # "Normal" THEN NoKey ELSE @,
          !.current = stop]

-----------------------------------------------------------------------------
(* Live play.                                                              *)

JudgingInit ==
    /\ chart \in Charts
    /\ phase = "playing"
    /\ now = 0
    /\ live = FreshColumn(chart)
    /\ updated = 0
    /\ log = <<>>
    /\ punctual = TRUE
    /\ stalls = 0
    /\ replay = FreshColumn(chart)
    /\ left = {}

(* The 1 ms timer of ChartRunner::updateElapsed.                           *)
Update ==
    /\ phase = "playing"
    /\ updated < now
    /\ live' = ProcessMisses(live, now)
    /\ updated' = now
    /\ UNCHANGED <<chart, phase, now, log, punctual, stalls, replay, left>>

(* Time passes; a tick nobody updated in is a stall.                       *)
Tick ==
    /\ phase = "playing"
    /\ now < LastTick
    /\ updated < now => stalls < MaxStalls
    /\ stalls' = IF updated < now THEN stalls + 1 ELSE stalls
    /\ now' = now + 1
    /\ UNCHANGED <<chart, phase, live, updated, log, punctual, replay, left>>

(* A key event carries the time it was made at: it may be delivered one    *)
(* tick late, after an update that had already moved on.                   *)
KeyTime(t) ==
    /\ phase = "playing"
    /\ Len(log) < MaxKeyEvents
    /\ \/ t = now /\ UNCHANGED stalls
       \/ t = now - 1 /\ now > 0 /\ stalls < MaxStalls /\ stalls' = stalls + 1
    /\ punctual' = (punctual /\ updated = t)

PassPressed(k, t) ==
    /\ KeyTime(t)
    /\ k \notin live.pressed
    /\ live' = Press(live, t, k)
    /\ log' = Append(log, [action |-> "Press", key |-> k, at |-> t])
    /\ UNCHANGED <<chart, phase, now, updated, replay, left>>

PassReleased(k, t) ==
    /\ KeyTime(t)
    /\ k \in live.pressed
    /\ live' = Release(live, t, k)
    /\ log' = Append(log, [action |-> "Release", key |-> k, at |-> LoggedAt(live, t, k)])
    /\ UNCHANGED <<chart, phase, now, updated, replay, left>>

(* ChartRunner::finish, at the end of the chart or when the player quits:  *)
(* a last update past the end, and the score is saved with its log.  The   *)
(* keys still down are released with offsets no replay reaches.            *)
Finish ==
    /\ phase = "playing"
    /\ phase' = "replaying"
    /\ live' = [ProcessMisses(live, LastTick) EXCEPT !.pressed = {}]
    /\ now' = 0
    /\ left' = DOMAIN log
    /\ updated' = 0
    /\ stalls' = 0
    /\ UNCHANGED <<chart, log, punctual, replay>>

-----------------------------------------------------------------------------
(* The replay.                                                             *)

\* Fault: the replay passes the recorded key without catching up first.
TakeAsIs(s, event) ==
    CASE event.action = "Press" /\ event.key \notin s.pressed ->
           Press(s, event.at, event.key)
      [] event.action = "Release" /\ event.key \in s.pressed ->
           Release(s, event.at, event.key)
      [] OTHER -> s

Take(s, event) ==
    LET caughtUp == ProcessMisses(s, event.at)
    IN  CASE event.action = "Press" /\ event.key \notin s.pressed ->
               Press(caughtUp, event.at, event.key)
          [] event.action = "Release" /\ event.key \in s.pressed ->
               Release(caughtUp, event.at, event.key)
          [] OTHER -> caughtUp

(* getReplayData sorts the events by their offset; events of equal offset  *)
(* come out in any order.                                                  *)
NextDue(i) == i \in left /\ \A j \in left : log[i].at <= log[j].at

ReplayEvent(i) ==
    /\ phase = "replaying"
    /\ NextDue(i)
    /\ log[i].at <= now
    /\ replay' = Take(replay, log[i])
    /\ left' = left \ {i}
    /\ UNCHANGED <<chart, phase, now, live, updated, log, punctual, stalls>>

(* A frame of the replay: the events due have been taken; the next frame   *)
(* comes a tick later, or, when the replay hangs, after the last one.      *)
ReplayFrame ==
    /\ phase = "replaying"
    /\ \A i \in left : log[i].at > now
    /\ now < LastTick
    /\ replay' = ProcessMisses(replay, now)
    /\ now' \in {now + 1, LastTick}
    /\ UNCHANGED <<chart, phase, live, updated, log, punctual, stalls, left>>

ReplayEnds ==
    /\ phase = "replaying"
    /\ now = LastTick
    /\ left = {}
    /\ replay' = ProcessMisses(replay, LastTick)
    /\ phase' = "done"
    /\ UNCHANGED <<chart, now, live, updated, log, punctual, stalls, left>>

JudgingNext ==
    \/ Update
    \/ Tick
    \/ \E k \in NoteKeys, t \in (now - 1)..now : PassPressed(k, t)
    \/ \E k \in NoteKeys, t \in (now - 1)..now : PassReleased(k, t)
    \/ Finish
    \/ \E i \in left : ReplayEvent(i)
    \/ ReplayFrame
    \/ ReplayEnds

JudgingSpec == JudgingInit /\ [][JudgingNext]_judgingVars

-----------------------------------------------------------------------------
(* Every variable has its type. *)
JudgingTypeOK ==
    /\ chart \in Charts
    /\ phase \in {"playing", "replaying", "done"}
    /\ now \in 0..LastTick
    /\ live \in Column
    /\ updated \in 0..LastTick
    /\ log \in Seq(KeyEvent)
    /\ punctual \in BOOLEAN
    /\ stalls \in 0..MaxStalls
    /\ replay \in Column
    /\ left \subseteq DOMAIN log

(* A play that is over has judged every note of the chart, however it was  *)
(* played and whenever it was left: maxPointsNow of BmsLiveScore has       *)
(* reached maxPoints, and so it has when the replay ends.                  *)
AllNotesJudged ==
    /\ phase # "playing" => \A i \in Notes : Judged(live, i)
    /\ phase = "done" => \A i \in Notes : Judged(replay, i)

(* No note is judged twice, by a press, a release or a miss, so no note is *)
(* counted twice in the score.                                             *)
JudgedForGood ==
    [][\A i \in Notes : /\ Judged(live, i) => live'.judged[i] = live.judged[i]
                        /\ Judged(replay, i) => replay'.judged[i] = replay.judged[i]]_judgingVars

SameScore == replay.judged = live.judged /\ replay.empties = live.empties

InOrder == \A i, j \in DOMAIN log : i < j => log[i].at < log[j].at

(* A play whose key events found the column up to date, and were logged in *)
(* the order they were made, is reproduced by its replay note for note,    *)
(* whatever frames the replay skips.                                       *)
PunctualPlayIsReproduced == phase = "done" /\ punctual /\ InOrder => SameScore

OneAtATime == \A i, j \in DOMAIN log : i # j => log[i].at # log[j].at

(* "A player that replays a recorded score": the replay of a play without  *)
(* a stall gives every note the judgement it had, where no two of its key  *)
(* events are recorded at one time.                                        *)
ReplayReproducesScore ==
    phase = "done" /\ punctual /\ OneAtATime => replay.judged = live.judged
=============================================================================
