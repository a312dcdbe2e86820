---------------------------- MODULE InputTranslator ----------------------------
(***************************************************************************)
(* The translation of keyboard, MIDI and gamepad events into the buttons   *)
(* of the game (src/input/InputTranslator.cpp).  Events carry the time at  *)
(* which they happened and are handled later; releases wait for a debounce *)
(* interval, so that a key whose contact chatters stays down; the player   *)
(* binds keys and changes the interval while keys are held.                *)
(***************************************************************************)
EXTENDS Integers, Sequences

CONSTANTS
    Keys,          \* keys of a keyboard, a controller or a MIDI device
    Wheels,        \* what has two directions: a gamepad "axis", a pitch "bend"
    Buttons,       \* the buttons of the game
    NoButton,
    Inverted,      \* invertScratch: a scratch button to the other direction
    StartConfig,   \* the key configurations the program may start with
    Intervals,     \* the debounce intervals the settings offer
    AxisTimeout,   \* timeout of the AnalogAxisConfig
    LastEvent,     \* bound: time of the last thing that happens outside
    MaxDelay,      \* bound: how late an event may be handled
    Horizon,       \* bound: the clock
    MaxEvents,     \* bound: events of keys and wheels
    MaxBinds,      \* bound: times the player begins or ends to bind a button
    MaxChanges     \* bound: other changes of the settings, and devices removed

Directions == {"Up", "Down"}
Opposite == [Up |-> "Down", Down |-> "Up"]
WheelKeys == Wheels \X Directions
AllKeys == Keys \cup WheelKeys
Sources == Keys \cup Wheels
Configs == [AllKeys -> Buttons \cup {NoButton}]

\* config holds one key per button (removeDuplicateButtonMappings).
OneKeyPerButton(config) ==
    \A j, k \in AllKeys : config[j] = config[k] /\ config[j] # NoButton => j = k

NoTime == -1

ASSUME InputAssumption ==
    /\ NoButton \notin Buttons
    /\ Keys \cap (WheelKeys \cup Wheels) = {} /\ Wheels \subseteq {"axis", "bend"}
    /\ Inverted \in [Buttons -> Buttons]
    /\ \A b \in Buttons : Inverted[Inverted[b]] = b
    /\ StartConfig \subseteq Configs /\ \A c \in StartConfig : OneKeyPerButton(c)
    /\ Intervals \subseteq Nat /\ Intervals # {} /\ AxisTimeout \in Nat
    /\ LastEvent \in Nat /\ MaxDelay \in Nat /\ Horizon \in Nat /\ MaxEvents \in Nat
    /\ MaxBinds \in Nat /\ MaxChanges \in Nat

VARIABLES
    clock,
    keysDown,    \* keys that are down, and where the wheels are
    raw,         \* events of each source that wait to be handled
    config,      \* the button of each key
    configured,  \* configuredButton: the next key is bound to it
    debounce,    \* debounceMs
    pad,         \* ButtonState of each button, and what was last reported of it
    scratch,     \* Scratch of the axis, and its algorithm
    known,       \* "Known": the present button of a key was given its press;
                 \* "Stray": its device went before its messages were handled
    spent        \* counters of the bounds

inputVars == <<clock, keysDown, raw, config, configured, debounce, pad, scratch, known, spent>>

\* ButtonState, its timer being the time it is due, and what was reported of the
\* button: the times of the last press and release, and when the interval of that
\* release is over.
ButtonState ==
    [physical : BOOLEAN, logical : BOOLEAN,
     pending : Int, deadline : Int, due : Int,
     pressed : Int, released : Int, quiet : Int]

KeyEvents == [press : BOOLEAN, time : Nat]
WheelEvents == [direction : Directions \cup {"None"}, time : Nat]

InputTypeOK ==
    /\ clock \in 0..Horizon
    /\ keysDown \subseteq AllKeys
    /\ raw \in [Sources -> Seq(KeyEvents) \cup Seq(WheelEvents)]
    /\ \A k \in Keys : raw[k] \in Seq(KeyEvents)
    /\ \A w \in Wheels : raw[w] \in Seq(WheelEvents)
    /\ config \in Configs /\ OneKeyPerButton(config)
    /\ configured \in Buttons \cup {NoButton}
    /\ debounce \in Intervals
    /\ pad \in [Buttons -> ButtonState]
    /\ scratch \in [analog : BOOLEAN, direction : Directions \cup {"None"},
                    due : Int, stamp : Int]
    /\ known \in [Keys -> {"No", "Known", "Stray"}]
    /\ spent \in [events : 0..MaxEvents, binds : 0..MaxBinds, changes : 0..MaxChanges]

InputInit ==
    /\ clock = 0
    /\ keysDown = {}
    /\ raw = [s \in Sources |-> <<>>]
    /\ config \in StartConfig
    /\ configured = NoButton
    /\ debounce \in Intervals
    /\ pad = [b \in Buttons |->
                [physical |-> FALSE, logical |-> FALSE, pending |-> NoTime,
                 deadline |-> NoTime, due |-> NoTime,
                 pressed |-> NoTime, released |-> NoTime, quiet |-> NoTime]]
    /\ scratch \in [analog : BOOLEAN, direction : {"None"}, due : {NoTime}, stamp : {NoTime}]
    /\ known = [k \in Keys |-> "No"]
    /\ spent = [events |-> 0, binds |-> 0, changes |-> 0]

-----------------------------------------------------------------------------
(* One button.                                                             *)

\* A stopped timer has no remaining time either.
TimerElapsed(x) == x.due <= clock

Settle(x) == [x EXCEPT !.pending = NoTime, !.deadline = NoTime, !.due = NoTime]

\* buttonReleased is emitted; a release that was debounced keeps the button
\* quiet for its interval.
FinishRelease(x, time, quiet) ==
    IF x.logical
    THEN [x EXCEPT !.logical = FALSE, !.pending = NoTime, !.deadline = NoTime,
                   !.released = time, !.quiet = quiet]
    ELSE x

ReportPress(x, time) ==
    IF x.logical THEN x ELSE [x EXCEPT !.logical = TRUE, !.pressed = time]

\* Fault: the deadline by the time of the press is not looked at.
PressButtonByTimerOnly(x, time) ==
    LET down == [x EXCEPT !.physical = TRUE]
    IN  IF x.physical THEN x
        ELSE IF x.pending = NoTime THEN ReportPress(down, time)
        ELSE IF ~TimerElapsed(x) THEN Settle(down)
        ELSE ReportPress(FinishRelease(Settle(down), x.pending, x.pending + debounce), time)

\* Fault: chatter is dropped before it takes back the release.
PressButtonDroppingChatter(x, time) ==
    LET down == [x EXCEPT !.physical = TRUE]
    IN  IF x.physical THEN x
        ELSE IF x.pending = NoTime THEN ReportPress(down, time)
        ELSE IF (x.deadline = NoTime \/ time < x.deadline) /\ ~TimerElapsed(x)
             THEN x
             ELSE ReportPress(FinishRelease(Settle(down), x.pending, x.pending + debounce), time)

\* A press within the interval takes the release back; one after it is a new hit,
\* whose release is reported first.
PressButton(x, time) ==
    LET down == [x EXCEPT !.physical = TRUE]
    IN  IF x.physical THEN x
        ELSE IF x.pending = NoTime THEN ReportPress(down, time)
        ELSE IF (x.deadline = NoTime \/ time < x.deadline) /\ ~TimerElapsed(x)
             THEN Settle(down)
             ELSE ReportPress(FinishRelease(Settle(down), x.pending, x.pending + debounce), time)

ReleaseAtOnce(x, time) ==
    LET up == [x EXCEPT !.physical = FALSE]
    IN  IF x.logical THEN FinishRelease(Settle(up), time, NoTime) ELSE up

ReleaseButton(x, time) ==
    LET up == [x EXCEPT !.physical = FALSE]
    IN  IF ~x.physical \/ ~x.logical THEN up
        ELSE IF debounce > 0
             THEN [up EXCEPT !.pending = time, !.deadline = time + debounce,
                             !.due = clock + debounce]
             ELSE ReleaseAtOnce(x, time)

CommitPendingRelease(x, interval) ==
    IF x.pending = NoTime \/ x.physical THEN x
    ELSE FinishRelease([x EXCEPT !.pending = NoTime, !.deadline = NoTime],
                       x.pending, x.pending + interval)

-----------------------------------------------------------------------------
(* Configuration.                                                          *)

RemoveButtonMappings(c, b) == [k \in AllKeys |-> IF c[k] = b THEN NoButton ELSE c[k]]

UnpressAndUnbind(s, key, time) ==
    IF s.config[key] = NoButton THEN s
    ELSE [config |-> [s.config EXCEPT ![key] = NoButton],
          pad |-> [s.pad EXCEPT ![s.config[key]] = ReleaseAtOnce(@, time)]]

\* Fault: the key the button had keeps it.
BindKeyToButtonAlso(s, key, b, time) ==
    [UnpressAndUnbind(s, key, time) EXCEPT !.config[key] = b]

BindKeyToButton(s, key, b, time) ==
    LET unbound == UnpressAndUnbind(s, key, time)
    IN  [unbound EXCEPT !.config = [RemoveButtonMappings(@, b) EXCEPT ![key] = b]]

Become(s) ==
    /\ config' = s.config
    /\ pad' = s.pad
    /\ known' = [k \in Keys |-> IF known[k] = "Known" /\ s.config[k] # config[k]
                               THEN "No" ELSE known[k]]

Now == [config |-> config, pad |-> pad]

PadWith(b, x) == IF b = NoButton THEN pad ELSE [pad EXCEPT ![b] = x]

-----------------------------------------------------------------------------
(* Handlers of events.                                                     *)

Consume(s) == raw' = [raw EXCEPT ![s] = Tail(@)]

\* handleKeyEvent, handlePress, handleMidiNote, handleMidiControl
HandlePress(k) ==
    LET time == Head(raw[k]).time
    IN  /\ raw[k] # <<>> /\ Head(raw[k]).press
        /\ Consume(k)
        /\ IF configured # NoButton
           THEN /\ Become(BindKeyToButton(Now, k, configured, time))
                /\ configured' = NoButton
           ELSE /\ pad' = PadWith(config[k], PressButton(pad[config[k]], time))
                /\ known' = [known EXCEPT ![k] =
                                IF config[k] = NoButton \/ @ = "Stray" THEN @ ELSE "Known"]
                /\ UNCHANGED <<config, configured>>
        /\ UNCHANGED <<clock, keysDown, debounce, scratch, spent>>

HandleRelease(k) ==
    /\ raw[k] # <<>> /\ ~Head(raw[k]).press
    /\ Consume(k)
    /\ pad' = PadWith(config[k], ReleaseButton(pad[config[k]], Head(raw[k]).time))
    /\ known' = [known EXCEPT ![k] = IF @ = "Stray" /\ Tail(raw[k]) # <<>> THEN @ ELSE "No"]
    /\ UNCHANGED <<clock, keysDown, config, configured, debounce, scratch, spent>>

\* Both directions of a wheel are let go, or one is and the other pressed.
Turned(w, direction, time) ==
    [b \in Buttons |->
        CASE \E d \in Directions : d # direction /\ config[<<w, d>>] = b ->
                ReleaseAtOnce(pad[b], time)
          [] direction # "None" /\ config[<<w, direction>>] = b -> PressButton(pad[b], time)
          [] OTHER -> pad[b]]

IsScratch(b) == b # NoButton /\ Inverted[b] # b

\* handleAxisChange
HandleAxisChange(direction, time) ==
    IF IsScratch(configured) /\ direction # "None"
    THEN LET first == BindKeyToButton(Now, <<"axis", direction>>, configured, time)
         IN  /\ Become(BindKeyToButton(first, <<"axis", Opposite[direction]>>,
                                       Inverted[configured], time))
             /\ configured' = NoButton
    ELSE /\ pad' = Turned("axis", direction, time)
         /\ UNCHANGED <<config, configured, known>>

\* handleAxis: LR2's axis has three positions; beatoraja's is a disc that is turned
\* by at least the threshold, and let go when nothing moved for a while.
HandleAxis ==
    LET event == Head(raw["axis"])
    IN  /\ "axis" \in Wheels /\ raw["axis"] # <<>>
        /\ Consume("axis")
        /\ IF ~scratch.analog
           THEN /\ scratch' = [scratch EXCEPT !.direction = event.direction]
                /\ HandleAxisChange(event.direction, event.time)
           ELSE IF event.direction # "None"
           THEN /\ scratch' = [scratch EXCEPT !.direction = event.direction,
                                              !.due = clock + AxisTimeout,
                                              !.stamp = event.time + AxisTimeout]
                /\ HandleAxisChange(event.direction, event.time)
           ELSE UNCHANGED <<scratch, pad, config, configured, known>>
        /\ UNCHANGED <<clock, keysDown, debounce, spent>>

\* autoReleaseScratch
AutoReleaseScratch ==
    /\ scratch.due # NoTime /\ scratch.due <= clock
    /\ scratch' = [scratch EXCEPT !.direction = "None", !.due = NoTime]
    /\ pad' = Turned("axis", "None", scratch.stamp)
    /\ UNCHANGED <<clock, keysDown, raw, config, configured, debounce, known, spent>>

HandlePitchBend ==
    LET event == Head(raw["bend"])
        direction == event.direction
        released == [b \in Buttons |->
                        IF config[<<"bend", Opposite[direction]>>] = b
                        THEN ReleaseAtOnce(pad[b], event.time) ELSE pad[b]]
    IN  /\ "bend" \in Wheels /\ raw["bend"] # <<>>
        /\ Consume("bend")
        /\ IF direction # "None" /\ configured # NoButton
           THEN /\ Become(BindKeyToButton([Now EXCEPT !.pad = released],
                                          <<"bend", direction>>, configured, event.time))
                /\ configured' = NoButton
           ELSE /\ pad' = Turned("bend", direction, event.time)
                /\ UNCHANGED <<config, configured, known>>
        /\ UNCHANGED <<clock, keysDown, debounce, scratch, spent>>

\* The debounceTimer of a button: it may be late.
DebounceTimerFires(b) ==
    /\ pad[b].due # NoTime /\ TimerElapsed(pad[b])
    /\ pad' = [pad EXCEPT ![b] = CommitPendingRelease([@ EXCEPT !.due = NoTime], debounce)]
    /\ UNCHANGED <<clock, keysDown, raw, config, configured, debounce, scratch, known, spent>>

-----------------------------------------------------------------------------
(* The player and the settings.                                            *)

Changes ==
    /\ clock <= LastEvent
    /\ spent.changes < MaxChanges
    /\ spent' = [spent EXCEPT !.changes = @ + 1]

\* setConfiguredButton
SetConfiguredButton(b) ==
    /\ clock <= LastEvent
    /\ spent.binds < MaxBinds
    /\ spent' = [spent EXCEPT !.binds = @ + 1]
    /\ b # configured
    /\ configured' = b
    /\ UNCHANGED <<clock, keysDown, raw, config, debounce, pad, scratch, known>>

\* resetButton: a button that is down stays so, and nobody can let it go.
ResetButton(b) ==
    /\ Changes
    /\ Become([Now EXCEPT !.config = RemoveButtonMappings(@, b)])
    /\ UNCHANGED <<clock, keysDown, raw, configured, debounce, scratch>>

\* Fault: the deadline of the old interval stays.
RescheduledKeepingDeadline(x, interval) ==
    IF x.pending = NoTime THEN x
    ELSE IF interval = 0 THEN CommitPendingRelease([x EXCEPT !.due = NoTime], 0)
    ELSE [x EXCEPT !.due = clock + interval]

Rescheduled(x, interval) ==
    IF x.pending = NoTime THEN x
    ELSE IF interval = 0 THEN CommitPendingRelease([x EXCEPT !.due = NoTime], 0)
    ELSE [x EXCEPT !.deadline = NoTime, !.due = clock + interval]

SetDebounceMs(interval) ==
    /\ Changes
    /\ interval # debounce
    /\ debounce' = interval
    /\ pad' = [b \in Buttons |-> Rescheduled(pad[b], interval)]
    /\ UNCHANGED <<clock, keysDown, raw, config, configured, scratch, known>>

\* setScratchAlgorithm: the timer of the analog algorithm runs on.
SetScratchAlgorithm ==
    /\ Changes
    /\ scratch' = [scratch EXCEPT !.analog = ~@]
    /\ UNCHANGED <<clock, keysDown, raw, config, configured, debounce, pad, known>>

\* A MIDI device goes: handleMidiDeviceRemoved.  What it sent before may
\* still wait to be handled.
MidiDeviceRemoved(k) ==
    /\ Changes
    /\ keysDown' = keysDown \ {k}
    /\ known' = [known EXCEPT ![k] = IF raw[k] = <<>> THEN "No" ELSE "Stray"]
    /\ pad' = PadWith(config[k], ReleaseAtOnce(pad[config[k]], clock))
    /\ UNCHANGED <<clock, raw, config, configured, debounce, scratch>>

Happens(s, event) ==
    /\ clock <= LastEvent
    /\ spent.events < MaxEvents
    /\ spent' = [spent EXCEPT !.events = @ + 1]
    /\ raw' = [raw EXCEPT ![s] = Append(@, event)]
    /\ UNCHANGED <<clock, config, configured, debounce, pad, scratch, known>>

KeyMoves(k) ==
    /\ Happens(k, [press |-> k \notin keysDown, time |-> clock])
    /\ keysDown' = IF k \in keysDown THEN keysDown \ {k} ELSE keysDown \cup {k}

WheelMoves(w, direction) ==
    /\ Happens(w, [direction |-> direction, time |-> clock])
    /\ keysDown' = (keysDown \ ({w} \X Directions)) \cup ({<<w, direction>>} \cap WheelKeys)

ClockTick ==
    /\ clock < Horizon
    /\ \A s \in Sources : raw[s] # <<>> => clock < Head(raw[s]).time + MaxDelay
    /\ clock' = clock + 1
    /\ UNCHANGED <<keysDown, raw, config, configured, debounce, pad, scratch, known, spent>>

\* What the event loop does by itself, in the order it likes.
EventLoop ==
    \/ \E k \in Keys : HandlePress(k) \/ HandleRelease(k)
    \/ HandleAxis
    \/ HandlePitchBend
    \/ AutoReleaseScratch
    \/ \E b \in Buttons : DebounceTimerFires(b)
    \/ ClockTick

Player ==
    \/ \E k \in Keys : KeyMoves(k) \/ MidiDeviceRemoved(k)
    \/ \E w \in Wheels, d \in Directions \cup {"None"} : WheelMoves(w, d)
    \/ \E b \in Buttons \cup {NoButton} : SetConfiguredButton(b)
    \/ \E b \in Buttons : ResetButton(b)
    \/ \E i \in Intervals : SetDebounceMs(i)
    \/ SetScratchAlgorithm

InputNext == EventLoop \/ Player

InputSpec == InputInit /\ [][InputNext]_inputVars

-----------------------------------------------------------------------------
(* Properties.                                                             *)

Mapped(b) == {k \in AllKeys : config[k] = b}

\* A key or a wheel is down, its events wait, or its device went before they came.
Holds(k) ==
    IF k \in Keys THEN k \in keysDown \/ raw[k] # <<>> \/ known[k] = "Stray"
    ELSE \/ raw[k[1]] # <<>>
         \/ IF k[1] = "axis" THEN scratch.direction # "None"
                             ELSE keysDown \cap ({"bend"} \X Directions) # {}

PressedIsHeld(b) ==
    \/ pad[b].pending # NoTime /\ pad[b].due # NoTime
    \/ \E k \in Mapped(b) : Holds(k)

\* No button hangs and none is lost: one that is reported as pressed has its key
\* down, or its release is pending and its timer runs; and the button of a key that
\* is down is pressed, however buttons were bound and reset, the interval changed, contacts
\* chattered and devices were removed meanwhile.  (A button whose key was taken away
\* by resetButton while it was keysDown has no key that could let it go.)
ButtonsFollowKeys ==
    /\ \A b \in Buttons : pad[b].logical /\ Mapped(b) # {} => PressedIsHeld(b)
    /\ \A k \in keysDown \cap Keys : known[k] = "Known" /\ raw[k] = <<>> =>
          pad[config[k]].physical /\ pad[config[k]].logical

\* A debounced release is not reported before its interval is over, by whichever of
\* timer, deadline and a change of the interval it is settled; a press within
\* the interval is never heard as a second hit.
ReleaseOutlastsItsInterval == \A b \in Buttons : pad[b].quiet <= clock

\* A press that comes the interval after the release or later is a new hit, also
\* when the release was handled late and its timer still runs.
NoHitIsSwallowed ==
    [][\A k \in Keys : LET b == config[k] IN
        /\ raw[k] # <<>> /\ raw'[k] = Tail(raw[k]) /\ Head(raw[k]).press
        /\ configured = NoButton /\ b # NoButton
        /\ pad[b].pending # NoTime /\ pad[b].deadline # NoTime
        /\ Head(raw[k]).time >= pad[b].pending + debounce
        => /\ pad'[b].released = pad[b].pending
           /\ pad'[b].pressed = Head(raw[k]).time /\ pad'[b].logical]_inputVars
=============================================================================
