---------------------------- MODULE RecordGesture ---------------------------
(***************************************************************************)
(* The record gesture of the device UI (voice_ui.c): how presses, losses   *)
(* and releases of two buttons, on a panel that jitters, become one call   *)
(* of on_record_pressed and one of on_record_released.                     *)
(*                                                                         *)
(* LVGL is external.  One sample of the panel sends PRESSED and, in the    *)
(* same pass, PRESSING to the button under the finger; it sends nothing to *)
(* a button that is disabled, and no button that is hidden is found under  *)
(* a finger.  A touch that leaves the button is lost or lifted: the        *)
(* handler makes no difference.  A timer calls back once, late at will.    *)
(* Time is counted in ticks of which the grace has RELEASE_GRACE.  The     *)
(* screens come from any thread, one at a time under the display's lock.   *)
(***************************************************************************)
EXTENDS Naturals

CONSTANT RELEASE_GRACE  \* RECORD_RELEASE_GRACE_MS (180)

ASSUME GraceAssumption == RELEASE_GRACE \in Nat \ {0}

VARIABLES
    active,    \* s_record_gesture_active
    requested, \* s_record_release_requested
    timer,     \* s_record_release_timer: ticks until it is due, NoTimer for NULL
    fromNew,   \* s_recording_from_new_button
    elapsed,   \* the time since s_record_pressed_at_us, up to the grace
    shown,     \* which record buttons are not hidden, and whether they are enabled
    screen,    \* the screen that was shown last
    touch,     \* the button LVGL holds pressed, or "none"
    felt,      \* history: the handler was told of the present touch
    began,     \* history: the button the gesture began on
    failed     \* history: this gesture found no memory for a timer

gestureVars == <<active, requested, timer, fromNew, elapsed>>
uiVars == <<gestureVars, shown, screen, touch, felt, began, failed>>

Buttons == {"main", "new"}
NoTimer == RELEASE_GRACE + 1
Layout(buttons, enabled) == [buttons |-> buttons, enabled |-> enabled]

\* voice_ui_show_recording and show_record_gesture_feedback
RecordingLayout(new) == Layout(IF new THEN {"new"} ELSE {"main"}, TRUE)

\* set_interactive and show_answer_panel, as each screen calls them.
LayoutOf(next) ==
    CASE next = "recording" -> RecordingLayout(fromNew)
      [] next = "working" -> Layout({"main"}, FALSE)
      [] next = "playing" -> Layout({}, TRUE)
      [] next \in {"response", "audio_error"} -> Layout({"new"}, TRUE)
      [] OTHER -> Layout({"main"}, TRUE)

GestureInit ==
    /\ active = FALSE /\ requested = FALSE /\ timer = NoTimer
    /\ fromNew = FALSE /\ elapsed = 0
    /\ shown = Layout({"main"}, TRUE) /\ screen = "idle"
    /\ touch = "none" /\ felt = FALSE /\ began = "none" /\ failed = FALSE
-----------------------------------------------------------------------------
\* record_event, PRESSED: a new gesture.
Begin(b) ==
    /\ active' = TRUE /\ requested' = FALSE /\ timer' = NoTimer
    /\ elapsed' = 0 /\ fromNew' = (b = "new")
    /\ screen' = "recording" /\ shown' = RecordingLayout(b = "new")
    /\ began' = b /\ failed' = FALSE

\* A PRESSED within a gesture is ignored; the PRESSING takes a release back.
Return_Ignored ==
    /\ UNCHANGED <<gestureVars, shown, screen, began, failed>>
Return ==
    /\ requested' = FALSE
    /\ timer' = IF requested THEN NoTimer ELSE timer
    /\ UNCHANGED <<active, fromNew, elapsed, shown, screen, began, failed>>

\* A finger comes down on a button, or slides back on it.
Press(b) ==
    /\ touch = "none" /\ b \in shown.buttons
    /\ touch' = b /\ felt' = shown.enabled
    /\ IF ~ shown.enabled THEN UNCHANGED <<gestureVars, shown, screen, began, failed>>
       ELSE IF active THEN Return ELSE Begin(b)

\* Another sample of a finger that stays.
Sample ==
    /\ touch # "none" /\ shown.enabled
    /\ felt' = TRUE /\ UNCHANGED touch
    /\ IF active THEN Return ELSE UNCHANGED <<gestureVars, shown, screen, began, failed>>

\* finish_record_release
Finish ==
    /\ timer' = NoTimer
    /\ IF active /\ requested
       THEN active' = FALSE /\ requested' = FALSE /\ fromNew' = FALSE
       ELSE UNCHANGED <<active, requested, fromNew>>

\* schedule_record_release: not before the grace is over, and without memory at once.
Delay == IF elapsed < RELEASE_GRACE THEN RELEASE_GRACE - elapsed ELSE 1
NoMemory_KeepsGesture ==
    /\ requested' = TRUE /\ timer' = NoTimer /\ failed' = TRUE
    /\ UNCHANGED <<active, fromNew>>
NoMemory ==
    /\ active' = FALSE /\ requested' = FALSE /\ timer' = NoTimer
    /\ fromNew' = FALSE /\ failed' = TRUE
ScheduleRelease ==
    \/ /\ requested' = TRUE /\ timer' = Delay
       /\ UNCHANGED <<active, fromNew, failed>>
    \/ NoMemory

\* RELEASED or PRESS_LOST
Leave ==
    /\ touch # "none"
    /\ touch' = "none" /\ felt' = FALSE
    /\ IF shown.enabled /\ active THEN ScheduleRelease
       ELSE UNCHANGED <<active, requested, timer, fromNew, failed>>
    /\ UNCHANGED <<elapsed, shown, screen, began>>

\* record_release_timer_cb
TimerFires ==
    /\ timer = 0
    /\ Finish
    /\ UNCHANGED <<elapsed, shown, screen, touch, felt, began, failed>>

\* voice_ui_show_idle
ShowIdle_KeepsTimer ==
    /\ active' = FALSE /\ requested' = FALSE
    /\ screen' = "idle" /\ shown' = LayoutOf("idle")
    /\ UNCHANGED <<timer, fromNew, elapsed, touch, felt, began, failed>>
ShowIdle ==
    /\ active' = FALSE /\ requested' = FALSE /\ timer' = NoTimer
    /\ screen' = "idle" /\ shown' = LayoutOf("idle")
    /\ UNCHANGED <<fromNew, elapsed, touch, felt, began, failed>>

\* The other screens leave the gesture alone.
Screens == {"recording", "working", "playing", "response", "audio_error", "error"}
Show(next) ==
    /\ screen' = next /\ shown' = LayoutOf(next)
    /\ UNCHANGED <<gestureVars, touch, felt, began, failed>>

Tick ==
    /\ elapsed < RELEASE_GRACE \/ timer \in 1 .. RELEASE_GRACE
    /\ elapsed' = IF elapsed < RELEASE_GRACE THEN elapsed + 1 ELSE elapsed
    /\ timer' = IF timer \in 1 .. RELEASE_GRACE THEN timer - 1 ELSE timer
    /\ UNCHANGED <<active, requested, fromNew, shown, screen, touch, felt, began, failed>>

GestureNext ==
    \/ \E b \in Buttons : Press(b)
    \/ Sample \/ Leave \/ TimerFires \/ ShowIdle
    \/ \E next \in Screens : Show(next)
    \/ Tick

GestureSpec == GestureInit /\ [][GestureNext]_uiVars

\* Time goes on, and lv_timer_handler runs.
FairGestureSpec == GestureSpec /\ WF_uiVars(Tick) /\ WF_uiVars(TimerFires)
-----------------------------------------------------------------------------
\* The shape of the state.
GestureTypeOK ==
    /\ active \in BOOLEAN /\ requested \in BOOLEAN /\ fromNew \in BOOLEAN
    /\ felt \in BOOLEAN /\ failed \in BOOLEAN
    /\ timer \in 0 .. NoTimer /\ elapsed \in 0 .. RELEASE_GRACE
    /\ shown.buttons \subseteq Buttons /\ shown.enabled \in BOOLEAN
    /\ screen \in Screens \cup {"idle"}
    /\ touch \in Buttons \cup {"none"} /\ began \in Buttons \cup {"none"}

\* A release that is owed has a timer that will give it, and no timer outlives
\* its release: neither a gesture latched for good nor one ended by an old timer.
TimerOwesRelease == (active /\ requested) <=> timer # NoTimer

\* While the recording screen is up during a gesture, the button it began on
\* can be felt: LVGL would otherwise not tell of its release.
HeldButtonStays ==
    active /\ screen = "recording" => shown.enabled /\ began \in shown.buttons

\* The gesture, its timer and its button belong together.
GestureHoldsTogether == GestureTypeOK /\ TimerOwesRelease /\ HeldButtonStays

\* A gesture that ends, other than by the idle screen.
Ends == active /\ ~ active' /\ screen' # "idle"

\* No jitter stops a recording: not under a finger the handler was told of, and
\* not before the grace is over, unless memory for a timer was lacking.
JitterEndsNothing == [][Ends => ~ felt' /\ (elapsed = RELEASE_GRACE \/ failed')]_uiVars

\* A finger that left, and does not come back, ends the recording.
LiftEndsGesture == active /\ requested ~> ~ active \/ touch # "none"
=============================================================================
