-------------------------- MODULE Bme280SensorProofs --------------------------
(***************************************************************************)
(* Theorems about Bme280Sensor.  The module has no constants: its state      *)
(* space is finite and TLC sees all of it; the proofs say why the sampling    *)
(* task and the labels need no lock of their own.                            *)
(***************************************************************************)
EXTENDS Bme280Sensor, TLAPS

(* The two halves of TypeOK: what is a flag, and what is not.                *)
Flags ==
  /\ plugged \in BOOLEAN
  /\ initialised \in BOOLEAN /\ mutex \in BOOLEAN /\ handle \in BOOLEAN /\ stopReq \in BOOLEAN
  /\ wasPresent \in BOOLEAN /\ updated \in BOOLEAN /\ dropped \in BOOLEAN
  /\ torn \in BOOLEAN
  /\ stopReq \/ handle => initialised

Places ==
  /\ task \in {"none", "check", "read", "write", "rest", "flag", "sleep", "exit"}
  /\ first \in {0, 1} /\ second \in {0, 1}
  /\ pc \in {"sleep", "deinit", "wait", "free", "init", "dispatch", "show", "showRest"}
  /\ after \in {"init", "dispatch"}
  /\ shown \in [first : {0, 1}, second : {0, 1}]

(* The context is freed when no task uses it any more.                       *)
FreedAlone == pc = "free" => task = "none"

(* Only the writer sees the two halves of the reading differ, unless it was  *)
(* deleted between them: the next one makes them whole.                      *)
WholeReading == task = "flag" \/ (task # "rest" /\ ~torn) => first = second

(* No sample is on its way from the task to the main loop.                   *)
NoneOnItsWay == ~updated /\ task \notin {"rest", "flag"}

(* The half that is shown already is the last one, or the flag goes up again.*)
HalfShown == pc = "showRest" /\ NoneOnItsWay /\ ~torn => shown.first = first

ContextInv == TaskHasContext /\ FreedAlone

ReadingInv == WholeReading /\ HalfShown /\ ShownSettles

LEMMA InitTypes == Init => Flags /\ Places
<1>1. Init => Flags
  BY DEF Init, Flags
<1>2. Init => Places
  BY DEF Init, Places
<1> QED
  BY <1>1, <1>2

LEMMA InitContext == Init => ContextInv
BY DEF Init, ContextInv, TaskHasContext, FreedAlone

LEMMA InitReading == Init => ReadingInv
BY DEF Init, ReadingInv, WholeReading, HalfShown, ShownSettles

(* The flags and the places make up TypeOK, in this state and the next.      *)
LEMMA TypeHalves == TypeOK <=> Flags /\ Places
BY DEF TypeOK, Flags, Places

LEMMA TypeHalvesNext == TypeOK' <=> Flags' /\ Places'
BY DEF TypeOK, Flags, Places

(* A task is asked to stop, or has a handle, in a live context only.         *)
LEMMA NextFlags == Flags /\ [Next]_vars => Flags'
<1> SUFFICES ASSUME Flags, [Next]_vars PROVE Flags'
  OBVIOUS
<1> USE DEF Flags, ctx, reading, loop, labels
<1>1. CASE Check \/ Read \/ WriteFirst \/ WriteRest \/ Sleep \/ Probe \/ Stopped
  BY <1>1 DEF Check, Read, WriteFirst, WriteRest, Sleep, Probe, Stopped
<1>2. CASE Flag
  BY <1>2 DEF Flag
<1>3. CASE Exit
  BY <1>3 DEF Exit
<1>4. CASE Deinit
  BY <1>4 DEF Deinit
<1>5. CASE StopTimesOut
  BY <1>5 DEF StopTimesOut
<1>6. CASE Free
  BY <1>6 DEF Free
<1>7. CASE InitOk
  BY <1>7 DEF InitOk
<1>8. CASE InitFails
  BY <1>8 DEF InitFails
<1>9. CASE StartFails
  BY <1>9 DEF StartFails
<1>10. CASE Dispatch
  BY <1>10 DEF Dispatch
<1>11. CASE ShowFirst
  BY <1>11 DEF ShowFirst
<1>12. CASE ShowRest
  BY <1>12 DEF ShowRest
<1>13. CASE ShowFails
  BY <1>13 DEF ShowFails
<1>14. CASE Plug
  BY <1>14 DEF Plug
<1>15. CASE UNCHANGED vars
  BY <1>15 DEF vars
<1> QED
  BY <1>1, <1>2, <1>3, <1>4, <1>5, <1>6, <1>7, <1>8, <1>9, <1>10, <1>11, <1>12, <1>13, <1>14, <1>15
     DEF Next, Sensor, Main

(* Every step leaves both tasks at one of their places.                      *)
LEMMA NextPlaces == Places /\ [Next]_vars => Places'
<1> SUFFICES ASSUME Places, [Next]_vars PROVE Places'
  OBVIOUS
<1> USE DEF Places, ctx, reading, loop, labels
<1>1. CASE Check \/ Read \/ Flag \/ Sleep \/ Exit
  BY <1>1 DEF Check, Read, Flag, Sleep, Exit
<1>2. CASE WriteFirst
  BY <1>2 DEF WriteFirst
<1>3. CASE WriteRest
  BY <1>3 DEF WriteRest
<1>4. CASE Probe \/ Deinit \/ Stopped \/ StopTimesOut \/ Free
  BY <1>4 DEF Probe, Deinit, Stopped, StopTimesOut, Free
<1>5. CASE InitOk \/ InitFails \/ StartFails \/ Dispatch
  BY <1>5 DEF InitOk, InitFails, StartFails, Dispatch
<1>6. CASE ShowFirst \/ ShowRest \/ ShowFails
  BY <1>6 DEF ShowFirst, ShowRest, ShowFails
<1>7. CASE Plug
  BY <1>7 DEF Plug
<1>8. CASE UNCHANGED vars
  BY <1>8 DEF vars
<1> QED
  BY <1>1, <1>2, <1>3, <1>4, <1>5, <1>6, <1>7, <1>8
     DEF Next, Sensor, Main

(* The context is freed after the handle was given back or the task deleted; *)
(* a task is made when there is none.                                        *)
LEMMA NextContext == TypeOK /\ ContextInv /\ [Next]_vars => ContextInv'
<1> SUFFICES ASSUME TypeOK, ContextInv, [Next]_vars PROVE ContextInv'
  OBVIOUS
<1> USE DEF TypeOK, ContextInv, TaskHasContext, FreedAlone, ctx, reading, loop, labels
<1>1. CASE Check \/ Read \/ WriteFirst \/ WriteRest \/ Flag \/ Sleep
  BY <1>1 DEF Check, Read, WriteFirst, WriteRest, Flag, Sleep
<1>2. CASE Exit
  BY <1>2 DEF Exit
<1>3. CASE ShowFirst \/ ShowRest \/ ShowFails \/ Probe \/ Dispatch
  BY <1>3 DEF ShowFirst, ShowRest, ShowFails, Probe, Dispatch
<1>4. CASE Deinit
  BY <1>4 DEF Deinit
<1>5. CASE Stopped
  BY <1>5 DEF Stopped
<1>6. CASE StopTimesOut
  BY <1>6 DEF StopTimesOut
<1>7. CASE Free
  BY <1>7 DEF Free
<1>8. CASE InitOk
  BY <1>8 DEF InitOk
<1>9. CASE InitFails
  BY <1>9 DEF InitFails
<1>10. CASE StartFails
  BY <1>10 DEF StartFails
<1>11. CASE Plug
  BY <1>11 DEF Plug
<1>12. CASE UNCHANGED vars
  BY <1>12 DEF vars
<1> QED
  BY <1>1, <1>2, <1>3, <1>4, <1>5, <1>6, <1>7, <1>8, <1>9, <1>10, <1>11, <1>12
     DEF Next, Sensor, Main

(* Every sample the task writes raises the flag after both its halves.       *)
LEMMA NextReading == TypeOK /\ ContextInv /\ ReadingInv /\ [Next]_vars => ReadingInv'
<1> SUFFICES ASSUME TypeOK, ContextInv, ReadingInv, [Next]_vars PROVE ReadingInv'
  OBVIOUS
<1> USE DEF TypeOK, ReadingInv, WholeReading, HalfShown, NoneOnItsWay,
            ShownSettles, ctx, reading, loop, labels
<1>1. CASE Check \/ Read \/ Sleep \/ Exit
  BY <1>1 DEF Check, Read, Sleep, Exit
<1>2. CASE WriteFirst
  BY <1>2 DEF WriteFirst
<1>3. CASE WriteRest
  BY <1>3 DEF WriteRest
<1>4. CASE Flag
  BY <1>4 DEF Flag
<1>5. CASE Probe \/ Deinit \/ Stopped \/ Free
  BY <1>5 DEF Probe, Deinit, Stopped, Free
<1>6. CASE StopTimesOut
  BY <1>6 DEF StopTimesOut
<1>7. CASE InitOk
  BY <1>7 DEF InitOk, ContextInv, TaskHasContext
<1>8. CASE InitFails \/ StartFails
  BY <1>8 DEF InitFails, StartFails
<1>9. CASE Dispatch
  BY <1>9 DEF Dispatch
<1>10. CASE ShowFirst
  BY <1>10 DEF ShowFirst
<1>11. CASE ShowRest
  BY <1>11 DEF ShowRest
<1>12. CASE ShowFails
  BY <1>12 DEF ShowFails
<1>13. CASE Plug
  BY <1>13 DEF Plug
<1>14. CASE UNCHANGED vars
  BY <1>14 DEF vars
<1> QED
  BY <1>1, <1>2, <1>3, <1>4, <1>5, <1>6, <1>7, <1>8, <1>9, <1>10, <1>11, <1>12, <1>13, <1>14
     DEF Next, Sensor, Main

(* The invariants are inductive on top of the types.                         *)
LEMMA Inductive == Spec => [](TypeOK /\ ContextInv /\ ReadingInv)
<1>1. Init => TypeOK /\ ContextInv /\ ReadingInv
  BY InitTypes, InitContext, InitReading, TypeHalves
<1>2. TypeOK /\ ContextInv /\ ReadingInv /\ [Next]_vars
        => TypeOK' /\ ContextInv' /\ ReadingInv'
  BY NextFlags, NextPlaces, NextContext, NextReading, TypeHalves, TypeHalvesNext
<1> QED
  BY <1>1, <1>2, PTL DEF Spec

(* Every variable keeps its type, and a context that is not initialised asks *)
(* nothing of a task.                                                        *)
THEOREM TypeCorrect == Spec => []TypeOK
BY Inductive, PTL

(* A sampling task has its context as long as it lives, whichever start      *)
(* failed before and whenever the sensor is pulled out.                      *)
THEOREM ContextOutlivesTask == Spec => []TaskHasContext
<1>1. ContextInv => TaskHasContext
  BY DEF ContextInv
<1> QED
  BY <1>1, Inductive, PTL

(* The labels settle on the last sample, though no lock protects the reading.*)
THEOREM LabelsSettle == Spec => []ShownSettles
<1>1. ReadingInv => ShownSettles
  BY DEF ReadingInv
<1> QED
  BY <1>1, Inductive, PTL
=============================================================================
