------------------------ MODULE ScreenTimeoutProofs ------------------------
(***************************************************************************)
(* Theorems about ScreenTimeout for all timeouts and any width of the tick.  *)
(* The invariant that carries them says what the timer has made of the time  *)
(* that has passed: once it has run, the stage is the one the thresholds ask  *)
(* for; until then it is an earlier one, or a dark screen whose tick has      *)
(* come round; and a pending backlight_on_cb() belongs to this second.        *)
(***************************************************************************)
EXTENDS ScreenTimeout, TLAPS

StageReached ==
  /\ stage = "dim" => Reached(config.dim)
  /\ stage = "saver" => Reached(config.saver)
  /\ stage = "off" => Reached(config.off)

CameRound == Elapsed = 0 /\ stage = "off" /\ astray

StageCurrent ==
  /\ ~due => stage = Target
  /\ due => StageReached \/ CameRound

WakingNow == waking => stage = "active" /\ last = now

IInv == TypeOK /\ ScreenShowsStage /\ NeverStaysAwake /\ StageCurrent /\ WakingNow

(* screen_timeout.h: "Stages must be in increasing order".                   *)
Ordered(c) ==
  /\ c.dim > 0 /\ c.saver > 0 => c.dim <= c.saver
  /\ c.saver > 0 /\ c.off > 0 => c.saver <= c.off
  /\ c.dim > 0 /\ c.off > 0 => c.dim <= c.off

(* Whatever configuration is asked for, validate_and_normalize_config()      *)
(* orders the stages and neither adds nor drops one.                          *)
THEOREM NormalizeOrders ==
  ASSUME NEW c \in Configs
  PROVE  /\ Normalize(c) \in Configs
         /\ Ordered(Normalize(c))
         /\ Normalize(c).dim = 0 <=> c.dim = 0
         /\ Normalize(c).saver = 0 <=> c.saver = 0
         /\ Normalize(c).off = c.off
BY DEF Configs, Normalize, AtMost, Ordered

(* Every choice has thresholds below the width of the tick, and dims, or     *)
(* covers, no screen that it does not turn off.                              *)
LEMMA ChoicesType ==
  ASSUME NEW c \in Choices
  PROVE  /\ c \in Configs
         /\ c.off < W
         /\ c.off = 0 => Never(c)
<1>1. PICK total \in Totals : c = Thresholds(total)
  BY DEF Choices
<1>2. total \in Nat /\ total < W
  BY ConstantsOK
<1> DEFINE a == [dim |-> (total * 50) \div 100, saver |-> (total * 75) \div 100, off |-> total]
<1>3. a \in Configs
  BY <1>2 DEF Configs
<1>4. c = Normalize(a)
  BY <1>1 DEF Thresholds
<1>5. /\ c \in Configs /\ c.off = total
      /\ c.dim = 0 <=> a.dim = 0
      /\ c.saver = 0 <=> a.saver = 0
  BY <1>3, <1>4, NormalizeOrders
<1>6. total = 0 => a.dim = 0 /\ a.saver = 0
  BY <1>2
<1> QED
  BY <1>2, <1>5, <1>6 DEF Never

LEMMA ElapsedType ==
  ASSUME TypeOK
  PROVE  Elapsed \in 0..(W - 1)
BY ConstantsOK DEF TypeOK, Elapsed

(* A second makes the screen idle for one second more, whether or not the    *)
(* tick wraps, until it comes round to the last touch.                        *)
LEMMA SecondElapses ==
  ASSUME TypeOK, Second
  PROVE  /\ Elapsed' = IF Elapsed + 1 = W THEN 0 ELSE Elapsed + 1
         /\ now' \in 0..(W - 1)
         /\ Elapsed + 1 = W => now' = last
BY ConstantsOK DEF TypeOK, Second, Tick, Elapsed

(* No time has passed since an activity just recorded.                       *)
LEMMA ActivityElapsed ==
  ASSUME TypeOK, last' = now, now' = now
  PROVE  Elapsed' = 0 /\ last' \in 0..(W - 1)
BY DEF TypeOK, Elapsed

(* A screen that was just touched, or is never to turn off, is to be active. *)
LEMMA TargetActive ==
  ASSUME TypeOK, Elapsed = 0 \/ Never(config)
  PROVE  Target = "active"
<1>1. config \in Configs
  BY ChoicesType DEF TypeOK
<1>2. ~Reached(config.off) /\ ~Reached(config.saver) /\ ~Reached(config.dim)
  BY <1>1 DEF Reached, Never, Configs
<1> QED
  BY <1>2 DEF Target

LEMMA InitIInv == Init => IInv
<1> SUFFICES ASSUME Init PROVE IInv
  OBVIOUS
<1>1. TypeOK
  BY DEF Init, TypeOK
<1>2. Elapsed = 0
  BY <1>1 DEF Init, Elapsed, TypeOK
<1>3. Target = "active"
  BY <1>1, <1>2, TargetActive
<1> QED
  BY <1>1, <1>3 DEF Init, IInv, ScreenShowsStage, NeverStaysAwake, StageCurrent, WakingNow

(* record_activity() leaves a screen that is active, uncovered and lit or    *)
(* about to be.                                                              *)
LEMMA ActivityShows ==
  ASSUME IInv, record_activity, UNCHANGED <<now, light, astray, outputs>>
  PROVE  /\ ScreenShowsStage' /\ NeverStaysAwake' /\ StageReached' /\ WakingNow'
         /\ Elapsed' = 0 /\ last' \in 0..(W - 1)
         /\ stage' = "active" /\ dim' \in BOOLEAN /\ saver' \in BOOLEAN /\ waking' \in BOOLEAN
<1>1. Elapsed' = 0 /\ last' \in 0..(W - 1)
  BY ActivityElapsed DEF IInv, record_activity
<1>2. stage' = "active" /\ dim' \in BOOLEAN /\ saver' \in BOOLEAN /\ waking' \in BOOLEAN
  BY DEF IInv, TypeOK, record_activity
<1>3. ScreenShowsStage'
  BY DEF IInv, TypeOK, ScreenShowsStage, record_activity
<1>4. WakingNow'
  BY DEF IInv, WakingNow, record_activity
<1> QED
  BY <1>1, <1>2, <1>3, <1>4 DEF StageReached, NeverStaysAwake

(* ... and whatever the timer still has to look at, it is the stage asked for. *)
LEMMA ActivityCurrent ==
  ASSUME TypeOK', Elapsed' = 0, stage' = "active"
  PROVE  StageCurrent'
<1>1. config' \in Configs
  BY ChoicesType DEF TypeOK
<1>2. ~Reached(config.off)' /\ ~Reached(config.saver)' /\ ~Reached(config.dim)'
  BY <1>1 DEF Reached, Configs
<1>3. Target' = "active"
  BY <1>2 DEF Target
<1> QED
  BY <1>3 DEF StageCurrent, StageReached

(* A write that went through, or was not needed, leaves the light as asked.   *)
LEMMA BacklightObeys ==
  ASSUME light \in BOOLEAN, NEW on \in BOOLEAN, Backlight(on)
  PROVE  /\ light' \in BOOLEAN /\ astray' \in BOOLEAN
         /\ ~astray' => (light' <=> on)
<1>1. CASE light' = on /\ astray' = FALSE
  BY <1>1
<1>2. CASE UNCHANGED light /\ astray' = ~(light <=> on)
  BY <1>2
<1> QED
  BY <1>1, <1>2 DEF Backlight

(* The backlight timer of this second.                                       *)
LEMMA BacklightKeeps ==
  ASSUME IInv, backlight_on_cb
  PROVE  IInv'
<1> USE DEF IInv
<1>1. stage = "active" /\ light' \in BOOLEAN /\ astray' \in BOOLEAN
  BY DEF backlight_on_cb, Backlight, WakingNow, TypeOK
<1>2. Elapsed' = Elapsed /\ Target' = Target
  BY DEF backlight_on_cb, time, Elapsed, Target, Reached
<1>3. TypeOK'
  BY <1>1 DEF backlight_on_cb, time, touch, TypeOK
<1>4. ScreenShowsStage'
  <2>1. ~astray' => light'
    BY BacklightObeys DEF backlight_on_cb, TypeOK
  <2>2. UNCHANGED <<stage, dim, saver>>
    BY DEF backlight_on_cb
  <2> QED
    BY <1>1, <2>1, <2>2 DEF ScreenShowsStage
<1>5. NeverStaysAwake' /\ WakingNow'
  BY <1>1 DEF backlight_on_cb, NeverStaysAwake, WakingNow
<1>6. StageCurrent'
  BY <1>1, <1>2 DEF backlight_on_cb, time, StageCurrent, StageReached
<1> QED
  BY <1>3, <1>4, <1>5, <1>6

(* The next second, which may be the one in which the tick comes round.      *)
LEMMA SecondKeeps ==
  ASSUME IInv, Second
  PROVE  IInv'
<1> USE DEF IInv
<1>1. /\ Elapsed' = IF Elapsed + 1 = W THEN 0 ELSE Elapsed + 1
      /\ now' \in 0..(W - 1)
      /\ Elapsed + 1 = W => now' = last
  BY SecondElapses
<1>2. Elapsed \in 0..(W - 1) /\ config \in Configs /\ config.off < W /\ (config.off = 0 => Never(config))
  BY ElapsedType, ChoicesType DEF TypeOK
<1>3. /\ stage = Target /\ due' /\ ~waking
      /\ UNCHANGED <<last, config, stage, dim, saver, light, waking, outputs>>
      /\ astray' = (astray \/ (now' = last /\ stage = "off"))
  BY DEF Second, StageCurrent
<1>4. TypeOK'
  BY <1>1, <1>3 DEF TypeOK, Second
<1>5. ScreenShowsStage' /\ NeverStaysAwake' /\ WakingNow'
  BY <1>3 DEF ScreenShowsStage, NeverStaysAwake, WakingNow
<1>6. CASE Elapsed + 1 # W
  <2>1. StageReached
    BY <1>3 DEF Target, StageReached
  <2>2. StageReached'
    BY <1>1, <1>2, <1>3, <1>6, <2>1 DEF StageReached, Reached, Configs
  <2> QED
    BY <1>3, <1>4, <1>5, <2>2 DEF StageCurrent
<1>7. CASE Elapsed + 1 = W
  <2>1. CASE config.off = 0
    <3>1. stage = "active"
      BY <1>2, <1>3, <2>1, TargetActive
    <3> QED
      BY <1>3, <1>4, <1>5, <3>1 DEF StageCurrent, StageReached
  <2>2. CASE config.off # 0
    <3>1. Reached(config.off)
      BY <1>2, <1>7, <2>2 DEF Reached, Configs
    <3>2. stage = "off"
      BY <1>3, <3>1 DEF Target
    <3>3. CameRound'
      BY <1>1, <1>3, <1>7, <3>2 DEF CameRound
    <3> QED
      BY <1>3, <1>4, <1>5, <3>3 DEF StageCurrent
  <2> QED
    BY <2>1, <2>2
<1> QED
  BY <1>6, <1>7

(* The timer takes a screen to the stage its idle time asks for.             *)
LEMMA TimerKeeps ==
  ASSUME IInv, timeout_timer_cb
  PROVE  IInv'
<1> USE DEF IInv
<1>1. /\ due /\ ~due'
      /\ UNCHANGED <<now, last, config, waking, finger, pressed, polled, asleep, outputs>>
  BY DEF timeout_timer_cb, touch
<1>2. Elapsed' = Elapsed /\ Target' = Target
  BY <1>1 DEF Elapsed, Target, Reached
<1>3. CASE Never(config) \/ Target = stage
  <2>1. UNCHANGED <<stage, dim, saver, light, astray>>
    BY <1>3 DEF timeout_timer_cb
  <2>2. stage = Target
    BY <1>3, TargetActive DEF NeverStaysAwake
  <2>3. due' \in BOOLEAN
    BY DEF timeout_timer_cb
  <2>4. TypeOK'
    BY <1>1, <2>1, <2>3 DEF TypeOK
  <2>5. ScreenShowsStage'
    BY <1>1, <2>1 DEF ScreenShowsStage
  <2> QED
    BY <1>1, <1>2, <2>1, <2>2, <2>4, <2>5 DEF NeverStaysAwake, StageCurrent, WakingNow
<1>4. CASE ~(Never(config) \/ Target = stage)
  <2>1. Enter(Target) /\ stage' = Target
    BY <1>4 DEF timeout_timer_cb, Enter
  <2>2. Target \in {"active", "dim", "saver", "off"}
    BY DEF Target
  <2>3. ~waking \/ Target = "active"
    BY TargetActive DEF WakingNow, Elapsed, TypeOK
  <2>4. StageCurrent' /\ NeverStaysAwake'
    BY <1>1, <1>2, <1>4, <2>1 DEF StageCurrent, NeverStaysAwake
  <2>5. dim' \in BOOLEAN /\ saver' \in BOOLEAN /\ light' \in BOOLEAN /\ astray' \in BOOLEAN
    BY <2>1 DEF Enter, Backlight, TypeOK
  <2>6. TypeOK'
    <3>1. stage' \in {"active", "dim", "saver", "off"} /\ due' \in BOOLEAN
      BY <2>1, <2>2 DEF timeout_timer_cb
    <3> QED
      BY <1>1, <2>5, <3>1 DEF TypeOK
  <2>7. CASE Target = "active"
    <3>1. ~StageReached
      BY <1>4, <2>7 DEF Target, StageReached, TypeOK
    <3>2. stage = "off" /\ astray
      BY <1>1, <3>1 DEF StageCurrent, CameRound
    <3>3. UNCHANGED <<dim, saver, light, astray>> /\ stage' = "active"
      BY <2>1, <2>7 DEF Enter
    <3>4. ScreenShowsStage' /\ WakingNow'
      BY <1>1, <3>2, <3>3 DEF ScreenShowsStage, WakingNow
    <3> QED
      BY <2>4, <2>6, <3>4
  <2>8. CASE Target \in {"dim", "saver"}
    <3>1. stage = "off" => CameRound
      BY <1>1, <2>8 DEF StageCurrent, StageReached, Target
    <3>2. stage # "off"
      BY <2>8, <3>1, TargetActive DEF CameRound
    <3>3. /\ dim' = (Target = "dim") /\ saver' = (Target = "saver")
          /\ UNCHANGED <<light, astray>>
      BY <2>1, <2>8 DEF Enter
    <3>4. ScreenShowsStage' /\ WakingNow'
      BY <1>1, <2>1, <2>3, <2>8, <3>2, <3>3 DEF ScreenShowsStage, WakingNow
    <3> QED
      BY <2>4, <2>6, <3>4
  <2>9. CASE Target = "off"
    <3>1. dim' = FALSE /\ saver' = FALSE /\ Backlight(FALSE)
      BY <2>1, <2>9 DEF Enter
    <3>2. ~astray' => ~light'
      BY <3>1, BacklightObeys DEF TypeOK
    <3>3. ScreenShowsStage' /\ WakingNow'
      BY <1>1, <2>1, <2>3, <2>9, <3>1, <3>2 DEF ScreenShowsStage, WakingNow
    <3> QED
      BY <2>4, <2>6, <3>3
  <2> QED
    BY <2>2, <2>7, <2>8, <2>9
<1> QED
  BY <1>3, <1>4

(* A step of the finger leaves the screen as it is.                          *)
LEMMA ScreenKept ==
  ASSUME IInv, TypeOK', UNCHANGED <<time, config, screen>>
  PROVE  IInv'
<1> USE DEF IInv
<1>1. Elapsed' = Elapsed /\ Target' = Target
  BY DEF time, Elapsed, Target, Reached
<1>2. ScreenShowsStage'
  BY DEF screen, ScreenShowsStage
<1>3. NeverStaysAwake' /\ WakingNow'
  BY DEF time, screen, NeverStaysAwake, WakingNow
<1>4. StageCurrent'
  BY <1>1 DEF time, screen, StageCurrent, StageReached, CameRound, Reached
<1> QED
  BY <1>2, <1>3, <1>4

LEMMA NextIInv == IInv /\ [Next]_vars => IInv'
<1> SUFFICES ASSUME IInv, [Next]_vars PROVE IInv'
  OBVIOUS
<1>1. CASE Second
  BY <1>1, SecondKeeps
<1>2. CASE timeout_timer_cb
  BY <1>2, TimerKeeps
<1>3. CASE backlight_on_cb
  BY <1>3, BacklightKeeps
<1> USE DEF IInv
<1>4. CASE TouchRead
  <2>1. CASE finger
    <3>1. record_activity /\ UNCHANGED <<now, due, config, light, astray, finger, asleep, outputs>>
      BY <1>4, <2>1 DEF TouchRead
    <3>2. TypeOK'
      BY <1>4, <2>1, <3>1, ActivityShows DEF TouchRead, TypeOK
    <3> QED
      BY <3>1, <3>2, ActivityShows, ActivityCurrent
  <2>2. CASE ~finger
    <3>1. UNCHANGED <<time, config, screen, outputs>>
      BY <1>4, <2>2 DEF TouchRead, time, screen
    <3>2. TypeOK'
      BY <1>4, <2>2, <3>1 DEF TouchRead, TypeOK, time, screen
    <3> QED
      BY <3>1, <3>2, ScreenKept
  <2> QED
    BY <2>1, <2>2
<1>5. ASSUME NEW total \in Totals, ChooseTimeout(total) PROVE IInv'
  <2>1. config' \in Choices
    BY <1>5 DEF ChooseTimeout, Choices
  <2>2. record_activity /\ UNCHANGED <<now, due, light, astray, touch>>
    BY <1>5 DEF ChooseTimeout
  <2>3. UNCHANGED outputs
    BY <2>2 DEF touch
  <2>4. TypeOK'
    BY <2>1, <2>2, <2>3, ActivityShows DEF TypeOK, touch
  <2> QED
    BY <2>2, <2>3, <2>4, ActivityShows, ActivityCurrent
<1>6. CASE ReadFails
  <2>1. UNCHANGED <<time, config, screen>> /\ TypeOK'
    BY <1>6 DEF ReadFails, TypeOK, time, screen
  <2> QED
    BY <2>1, ScreenKept
<1>7. CASE FingerDown \/ FingerUp \/ UNCHANGED vars
  <2>1. UNCHANGED <<time, config, screen>>
    BY <1>7 DEF FingerDown, FingerUp, vars
  <2>2. /\ finger' \in BOOLEAN /\ pressed' \in BOOLEAN /\ polled' \in BOOLEAN
        /\ asleep' \in BOOLEAN /\ outputs' \in BOOLEAN
    <3>1. CASE FingerDown
      BY <3>1 DEF FingerDown, TypeOK
    <3>2. CASE FingerUp
      BY <3>2 DEF FingerUp, TypeOK
    <3>3. CASE UNCHANGED vars
      BY <3>3 DEF vars, touch, TypeOK
    <3> QED
      BY <1>7, <3>1, <3>2, <3>3
  <2>3. TypeOK'
    BY <2>1, <2>2 DEF TypeOK, time, screen
  <2> QED
    BY <2>1, <2>3, ScreenKept
<1> QED
  BY <1>1, <1>2, <1>3, <1>4, <1>5, <1>6, <1>7 DEF Next, Left, Poll

(* The inductive invariant holds in every reachable state.                   *)
THEOREM Inductive == Spec => []IInv
BY InitIInv, NextIInv, PTL DEF Spec

(* Type correctness, wherever the tick wraps.                                *)
THEOREM TypeCorrect == Spec => []TypeOK
BY Inductive, PTL DEF IInv

(* What is on the panel is what the stage says, for all timeouts.            *)
THEOREM PanelShowsStage == Spec => []ScreenShowsStage
BY Inductive, PTL DEF IInv

(* "Never" means that the screen does not stay dimmed or dark.               *)
THEOREM NeverMeansNever == Spec => []NeverStaysAwake
BY Inductive, PTL DEF IInv
=============================================================================
