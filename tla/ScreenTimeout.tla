--------------------------- MODULE ScreenTimeout ---------------------------
(***************************************************************************)
(* components/screen_timeout: an idle screen dims, then shows the            *)
(* screensaver, then turns its backlight off; a touch brings it back.  All    *)
(* of it runs in LVGL's timers under the LVGL lock, so each callback is one   *)
(* step.  ui.c turns the timeout chosen on the panel or the settings page     *)
(* into three thresholds; display_esp.c reads the finger and reports it.      *)
(*                                                                         *)
(* LVGL's scheduler, the finger and the panel are external.  Time passes in   *)
(* the seconds of the timeout timer, on a tick that wraps at W.  The IO       *)
(* expander of the board sets the backlight and holds the touch controller    *)
(* out of its reset; it may refuse a write, and forget its outputs.           *)
(***************************************************************************)
EXTENDS Integers

CONSTANTS
  Totals,    \* the timeouts to choose from, in seconds; 0: never
  W          \* the tick wraps (2^32 ms)

ASSUME ConstantsOK ==
  /\ Totals \subseteq Nat
  /\ W \in Nat \ {0} /\ \A total \in Totals : total < W

VARIABLES
  now, last,     \* lv_tick_get(), g_s_last_activity_ms
  due,           \* the timeout timer has this second still to look at
  config,        \* g_s_config
  stage,         \* g_s_stage
  dim, saver,    \* what covers the screen
  light,         \* the backlight is set to on
  waking,        \* the one-shot timer of backlight_on_cb is pending
  outputs,       \* LCD_BL and TP_RST of the IO expander are high
  finger,        \* a finger is on the panel
  pressed,       \* what LVGL has been told of it
  polled,        \* LVGL has asked for the finger as it is, in this second
  asleep,        \* history: the finger came down on a screen not active
  astray         \* history: light is not what the stage last asked for

time == <<now, last, due>>
screen == <<stage, dim, saver, light, waking, astray>>
touch == <<finger, pressed, polled, asleep, outputs>>
vars == <<time, config, screen, touch>>

Configs == [dim : Nat, saver : Nat, off : Nat]

-----------------------------------------------------------------------------
AtMost(x, y) == IF x > 0 /\ y > 0 /\ y < x THEN y ELSE x

(* validate_and_normalize_config(): an earlier stage is lowered to a later   *)
(* one.  (What it does to negative values no caller gives it.)                *)
Normalize(c) ==
  LET d == AtMost(c.dim, c.saver)
      s == AtMost(c.saver, c.off)
  IN  [dim |-> AtMost(d, c.off), saver |-> s, off |-> c.off]

(* timeout_changed_cb(): dim at 50%, screensaver at 75%. *)
Thresholds(total) ==
  Normalize([dim |-> (total * 50) \div 100, saver |-> (total * 75) \div 100, off |-> total])

Choices == {Thresholds(total) : total \in Totals}

Never(c) == c.dim = 0 /\ c.saver = 0 /\ c.off = 0

Tick(t) == IF t + 1 = W THEN 0 ELSE t + 1

Elapsed_Signed == now - last

Elapsed == IF last <= now THEN now - last ELSE now + W - last

Reached(threshold) == threshold > 0 /\ Elapsed >= threshold

Target ==
  IF Reached(config.off) THEN "off"
  ELSE IF Reached(config.saver) THEN "saver"
  ELSE IF Reached(config.dim) THEN "dim"
  ELSE "active"

-----------------------------------------------------------------------------
(* display_set_backlight(): if the write fails, nobody hears of it.          *)
Backlight(on) ==
  \/ light' = on /\ astray' = FALSE
  \/ UNCHANGED light /\ astray' = ~(light <=> on)

(* The switch of timeout_timer_cb(): each stage undoes the one before it.    *)
Enter_KeepsSaver(s) ==
  /\ stage' = s
  /\ dim' = (s = "dim")
  /\ saver' = (saver \/ s = "saver")
  /\ IF s = "off" THEN Backlight(FALSE) ELSE UNCHANGED <<light, astray>>

Enter(s) ==
  /\ stage' = s
  /\ IF s = "active" THEN UNCHANGED <<dim, saver>>
                     ELSE dim' = (s = "dim") /\ saver' = (s = "saver")
  /\ IF s = "off" THEN Backlight(FALSE) ELSE UNCHANGED <<light, astray>>

timeout_timer_cb ==
  /\ due /\ due' = FALSE
  /\ IF Never(config) \/ Target = stage
     THEN UNCHANGED <<stage, dim, saver, light, astray>>
     ELSE Enter(Target)
  /\ UNCHANGED <<now, last, config, waking, touch>>

backlight_on_cb ==
  /\ waking /\ waking' = FALSE
  /\ Backlight(TRUE)
  /\ UNCHANGED <<time, config, stage, dim, saver, touch>>

record_activity ==
  /\ last' = now
  /\ IF stage # "active"
     THEN stage' = "active" /\ dim' = FALSE /\ saver' = FALSE /\ waking' = TRUE
     ELSE UNCHANGED <<stage, dim, saver, waking>>

(* screen_timeout_set_config(), called for a new choice in the dropdown.     *)
ChooseTimeout_NoActivity(total) ==
  /\ config' = Thresholds(total)
  /\ UNCHANGED <<time, screen, touch>>

ChooseTimeout(total) ==
  /\ config' = Thresholds(total)
  /\ record_activity
  /\ UNCHANGED <<now, due, light, astray, touch>>

-----------------------------------------------------------------------------
(* lvgl_touch_cb(): the read that wakes the screen is reported as released.  *)
TouchRead ==
  /\ outputs
  /\ IF finger
     THEN pressed' = (stage = "active") /\ record_activity
     ELSE pressed' = FALSE /\ UNCHANGED <<last, stage, dim, saver, waking>>
  /\ polled' = TRUE
  /\ UNCHANGED <<now, due, config, light, astray, finger, asleep, outputs>>

(* The touch controller does not answer.  Resetting the bus may clear the    *)
(* outputs of the expander; writing them again may fail, or mend what an      *)
(* earlier reset did.                                                        *)
ReadFails ==
  /\ pressed' = FALSE /\ polled' = TRUE
  /\ outputs' \in BOOLEAN
  /\ UNCHANGED <<time, config, screen, finger, asleep>>

FingerDown ==
  /\ ~finger /\ finger' = TRUE
  /\ polled' = FALSE
  /\ asleep' = (stage # "active")
  /\ UNCHANGED <<time, config, screen, pressed, outputs>>

FingerUp ==
  /\ finger /\ finger' = FALSE
  /\ polled' = FALSE
  /\ UNCHANGED <<time, config, screen, pressed, asleep, outputs>>

Second_NoWrap ==
  /\ ~due /\ ~waking /\ polled
  /\ now' = now + 1 /\ due' = TRUE /\ polled' = FALSE
  /\ astray' = (astray \/ (now' = last /\ stage = "off"))
  /\ UNCHANGED <<last, config, stage, dim, saver, light, waking, finger, pressed, asleep, outputs>>

(* The next second begins when the timers of this one have run (30 ms for    *)
(* the backlight) and the finger has been asked for (every 33 ms).  When the  *)
(* tick comes round to the last touch, a dark screen counts as just touched.  *)
Second ==
  /\ ~due /\ ~waking /\ polled
  /\ now' = Tick(now) /\ due' = TRUE /\ polled' = FALSE
  /\ astray' = (astray \/ (now' = last /\ stage = "off"))
  /\ UNCHANGED <<last, config, stage, dim, saver, light, waking, finger, pressed, asleep, outputs>>

(* After app_main() has set up the display and applied the saved timeout.    *)
Init ==
  /\ now \in 0..(W - 1) /\ last = now /\ due = FALSE
  /\ config \in Choices
  /\ stage = "active" /\ dim = FALSE /\ saver = FALSE /\ waking = FALSE
  /\ light \in BOOLEAN /\ astray = ~light
  /\ finger = FALSE /\ pressed = FALSE /\ polled = FALSE /\ asleep = FALSE
  /\ outputs = TRUE

Poll == TouchRead \/ ReadFails

(* What goes on when nobody touches anything. *)
Left == Second \/ timeout_timer_cb \/ backlight_on_cb \/ Poll

Next ==
  \/ Left \/ FingerDown \/ FingerUp
  \/ \E total \in Totals : ChooseTimeout(total)

Spec == Init /\ [][Next]_vars

(* LVGL runs each of its timers; what the touch controller answers is open.  *)
FairSpec ==
  /\ Spec
  /\ WF_vars(Second) /\ WF_vars(timeout_timer_cb) /\ WF_vars(backlight_on_cb)
  /\ WF_vars(Poll)

-----------------------------------------------------------------------------
TypeOK ==
  /\ now \in 0..(W - 1) /\ last \in 0..(W - 1) /\ due \in BOOLEAN
  /\ config \in Choices
  /\ stage \in {"active", "dim", "saver", "off"}
  /\ dim \in BOOLEAN /\ saver \in BOOLEAN /\ light \in BOOLEAN /\ waking \in BOOLEAN
  /\ astray \in BOOLEAN /\ outputs \in BOOLEAN
  /\ finger \in BOOLEAN /\ pressed \in BOOLEAN /\ polled \in BOOLEAN /\ asleep \in BOOLEAN

(* What is on the panel is what the stage says, through every order of idle  *)
(* seconds, touches and new timeouts: no overlay is left over a lit screen,   *)
(* and a screen taken for active is lit or about to be.  (A touch "hides all  *)
(* overlays" and "restores backlight to full brightness", screen_timeout.h.)  *)
(* Excepted is a light that a refused write, or a wrap of the tick on a dark   *)
(* screen, left astray, until a write puts it right.  (Without its outputs    *)
(* the panel is dark whatever the light is set to.)                           *)
ScreenShowsStage ==
  /\ dim <=> stage = "dim"
  /\ saver <=> stage = "saver"
  /\ ~astray => (stage = "off" <=> ~light /\ ~waking)

(* Choosing "never" on a dimmed or dark screen brings it back: the timer     *)
(* does nothing any more that could.                                         *)
NeverStaysAwake ==
  Never(config) => stage = "active"

(* Left alone, with no finger on it, a screen with a timeout turns dark and   *)
(* stays dark, wherever the tick wraps and whether or not the touch           *)
(* controller answers, unless the write that turns it off is refused: the     *)
(* code does not try again before the next touch.                             *)
TurnsDark ==
  <>[][Left]_vars => <>[](light => Never(config) \/ finger \/ astray)

(* screen_timeout.h: "first touch should not be forwarded to the UI as a     *)
(* press event".                                                             *)
WakingTouchSwallowed ==
  pressed /\ finger => ~asleep
=============================================================================
