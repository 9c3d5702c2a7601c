---------------------------- MODULE Bme280Sensor ----------------------------
(***************************************************************************)
(* components/bme280_sensor and the part of main.c that uses it: the main    *)
(* loop looks for the sensor every second, starts and stops its sampling      *)
(* task as it comes and goes, and shows the samples the task leaves in         *)
(* g_bme_reading, which no lock protects.                                     *)
(*                                                                         *)
(* The I2C bus, FreeRTOS and the LVGL lock are external.  A reading is two    *)
(* fields that a copy may catch at different samples; a sample is told from   *)
(* the one before it.                                                         *)
(***************************************************************************)
EXTENDS Naturals

VARIABLES
  plugged,       \* the sensor answers on the bus
  initialised, mutex, handle, stopReq,   \* g_ctx; handle: task_handle # NULL
  task,          \* the sampling task: where it is, or "none"
  wasPresent,    \* g_bme_was_present
  updated,       \* g_bme_updated
  first, second, \* g_bme_reading
  torn,          \* history: the last sample lost its writer half way
  pc, after,     \* the main loop: where it is, and what follows a deinit
  shown,         \* what the labels say
  dropped        \* history: the last sample found the LVGL lock taken

ctx == <<initialised, mutex, handle, stopReq>>
reading == <<updated, first, second, torn>>
loop == <<pc, after, wasPresent>>
labels == <<shown, dropped>>
vars == <<plugged, ctx, task, reading, loop, labels>>

-----------------------------------------------------------------------------
(* sensor_task() with bme280_sensor_read() and on_bme280_sample(). *)

Check ==
  /\ task = "check"
  /\ task' = IF stopReq THEN "exit" ELSE "read"     \* the read locks the mutex
  /\ UNCHANGED <<plugged, ctx, reading, loop, labels>>

Read ==
  /\ task = "read"
  /\ task' = IF plugged THEN "write" ELSE "sleep"
  /\ UNCHANGED <<plugged, ctx, reading, loop, labels>>

WriteFirst ==
  /\ task = "write" /\ task' = "rest"
  /\ first' = 1 - first
  /\ UNCHANGED <<plugged, ctx, updated, second, torn, loop, labels>>

WriteRest ==
  /\ task = "rest" /\ task' = "flag"
  /\ second' = first
  /\ UNCHANGED <<plugged, ctx, updated, first, torn, loop, labels>>

Flag ==
  /\ task = "flag" /\ task' = "sleep"
  /\ updated' = TRUE /\ torn' = FALSE
  /\ UNCHANGED <<plugged, ctx, first, second, loop, labels>>

Sleep ==
  /\ task = "sleep" /\ task' = "check"
  /\ UNCHANGED <<plugged, ctx, reading, loop, labels>>

Exit ==
  /\ task = "exit" /\ task' = "none"
  /\ handle' = FALSE
  /\ UNCHANGED <<plugged, initialised, mutex, stopReq, reading, loop, labels>>

-----------------------------------------------------------------------------
(* The main loop, once a second. *)

Probe_NoDeinit ==
  /\ pc = "sleep"
  /\ \/ plugged /\ ~wasPresent /\ pc' = "init" /\ UNCHANGED after
     \/ ~plugged /\ wasPresent /\ pc' = "deinit" /\ after' = "dispatch"
     \/ plugged = wasPresent /\ pc' = "dispatch" /\ UNCHANGED after
  /\ UNCHANGED <<plugged, ctx, task, reading, wasPresent, labels>>

Probe ==
  /\ pc = "sleep"
  /\ \/ plugged /\ ~wasPresent /\ pc' = "deinit" /\ after' = "init"
     \/ ~plugged /\ wasPresent /\ pc' = "deinit" /\ after' = "dispatch"
     \/ plugged = wasPresent /\ pc' = "dispatch" /\ UNCHANGED after
  /\ UNCHANGED <<plugged, ctx, task, reading, wasPresent, labels>>

(* bme280_sensor_deinit(), which asks the task to stop and waits for it.     *)
Deinit_NoWait ==
  /\ pc = "deinit"
  /\ IF initialised
     THEN stopReq' = TRUE /\ pc' = "free" /\ UNCHANGED wasPresent
     ELSE pc' = after /\ wasPresent' = FALSE /\ UNCHANGED stopReq
  /\ UNCHANGED <<plugged, initialised, mutex, handle, task, reading, after, labels>>

Deinit ==
  /\ pc = "deinit"
  /\ IF initialised
     THEN stopReq' = handle /\ pc' = "wait" /\ UNCHANGED wasPresent
     ELSE pc' = after /\ wasPresent' = FALSE /\ UNCHANGED stopReq
  /\ UNCHANGED <<plugged, initialised, mutex, handle, task, reading, after, labels>>

Stopped ==
  /\ pc = "wait" /\ ~handle
  /\ pc' = "free"
  /\ UNCHANGED <<plugged, ctx, task, reading, after, wasPresent, labels>>

(* After 3.5 s the task is deleted wherever it is: with the mutex in its      *)
(* hands, or between the two halves of a sample.                             *)
StopTimesOut ==
  /\ pc = "wait" /\ handle
  /\ task' = "none" /\ handle' = FALSE
  /\ pc' = "free"
  /\ torn' = (torn \/ task \in {"rest", "flag"})
  /\ UNCHANGED <<plugged, initialised, mutex, stopReq, updated, first, second>>
  /\ UNCHANGED <<after, wasPresent, labels>>

Free_KeepsStopReq ==
  /\ pc = "free" /\ pc' = after
  /\ initialised' = FALSE /\ mutex' = FALSE /\ handle' = FALSE
  /\ wasPresent' = FALSE
  /\ UNCHANGED <<plugged, stopReq, task, reading, after, labels>>

Free ==
  /\ pc = "free" /\ pc' = after
  /\ initialised' = FALSE /\ mutex' = FALSE /\ handle' = FALSE /\ stopReq' = FALSE
  /\ wasPresent' = FALSE
  /\ UNCHANGED <<plugged, task, reading, after, labels>>

(* bme280_sensor_init_with_task() *)
InitOk ==
  /\ pc = "init" /\ plugged /\ ~initialised
  /\ initialised' = TRUE /\ mutex' = TRUE /\ handle' = TRUE /\ stopReq' = FALSE
  /\ task' = "check"
  /\ wasPresent' = TRUE /\ pc' = "dispatch"
  /\ UNCHANGED <<plugged, reading, after, labels>>

(* Some I2C transfer fails.  If it was not the first, a mutex exists now.    *)
InitFails ==
  /\ pc = "init" /\ pc' = "dispatch"
  /\ mutex' \in {mutex, TRUE}
  /\ UNCHANGED <<plugged, initialised, handle, stopReq, task, reading, after, wasPresent, labels>>

(* There is no memory for the task: the sensor stays initialised.            *)
StartFails ==
  /\ pc = "init" /\ plugged /\ ~initialised /\ pc' = "dispatch"
  /\ initialised' = TRUE /\ mutex' = TRUE
  /\ UNCHANGED <<plugged, handle, stopReq, task, reading, after, wasPresent, labels>>

Dispatch ==
  /\ pc = "dispatch"
  /\ pc' = IF updated THEN "show" ELSE "sleep"
  /\ updated' = FALSE
  /\ UNCHANGED <<plugged, ctx, task, first, second, torn, after, wasPresent, labels>>

(* ui_binder_update_bme280(), with the LVGL lock or without success.         *)
ShowFirst ==
  /\ pc = "show" /\ pc' = "showRest"
  /\ shown' = [shown EXCEPT !.first = first]
  /\ UNCHANGED <<plugged, ctx, task, reading, after, wasPresent, dropped>>

ShowRest_ClearsFlag ==
  /\ pc = "showRest" /\ pc' = "sleep"
  /\ shown' = [shown EXCEPT !.second = second]
  /\ dropped' = FALSE /\ updated' = FALSE
  /\ UNCHANGED <<plugged, ctx, task, first, second, torn, after, wasPresent>>

ShowRest ==
  /\ pc = "showRest" /\ pc' = "sleep"
  /\ shown' = [shown EXCEPT !.second = second]
  /\ dropped' = FALSE
  /\ UNCHANGED <<plugged, ctx, task, reading, after, wasPresent>>

ShowFails ==
  /\ pc = "show" /\ pc' = "sleep"
  /\ dropped' = TRUE
  /\ UNCHANGED <<plugged, ctx, task, reading, after, wasPresent, shown>>

-----------------------------------------------------------------------------
Plug ==
  /\ plugged' = ~plugged
  /\ UNCHANGED <<ctx, task, reading, loop, labels>>

(* app_main() comes to its call of bme280_sensor_init_with_task().           *)
Init ==
  /\ plugged \in BOOLEAN
  /\ initialised = FALSE /\ mutex = FALSE /\ handle = FALSE /\ stopReq = FALSE
  /\ task = "none"
  /\ wasPresent = FALSE /\ updated = FALSE
  /\ first = 0 /\ second = 0 /\ torn = FALSE
  /\ pc = "init" /\ after = "dispatch"
  /\ shown = [first |-> 0, second |-> 0] /\ dropped = FALSE

Sensor == Check \/ Read \/ WriteFirst \/ WriteRest \/ Flag \/ Sleep \/ Exit

Main ==
  \/ Probe \/ Deinit \/ Stopped \/ StopTimesOut \/ Free
  \/ InitOk \/ InitFails \/ StartFails
  \/ Dispatch \/ ShowFirst \/ ShowRest \/ ShowFails

Next == Sensor \/ Main \/ Plug

Spec == Init /\ [][Next]_vars

(* Both tasks run, and an initialisation tried every second succeeds some    *)
(* time.                                                                     *)
FairSpec == Spec /\ WF_vars(Sensor) /\ WF_vars(Main) /\ SF_vars(InitOk)

-----------------------------------------------------------------------------
(* The context of a sensor that is not initialised asks nothing of a task.   *)
TypeOK ==
  /\ plugged \in BOOLEAN
  /\ initialised \in BOOLEAN /\ mutex \in BOOLEAN /\ handle \in BOOLEAN /\ stopReq \in BOOLEAN
  /\ stopReq \/ handle => initialised
  /\ task \in {"none", "check", "read", "write", "rest", "flag", "sleep", "exit"}
  /\ wasPresent \in BOOLEAN /\ updated \in BOOLEAN
  /\ first \in {0, 1} /\ second \in {0, 1} /\ torn \in BOOLEAN
  /\ pc \in {"sleep", "deinit", "wait", "free", "init", "dispatch", "show", "showRest"}
  /\ after \in {"init", "dispatch"}
  /\ shown \in [first : {0, 1}, second : {0, 1}] /\ dropped \in BOOLEAN

(* A sampling task can be found and stopped, and has its mutex, as long as   *)
(* it lives, whatever the sensor does and whichever start failed before: no   *)
(* deinit pulls the context away from under it and no second one is made.    *)
TaskHasContext ==
  task # "none" => handle /\ mutex /\ initialised

(* A copy may catch a reading that is being written; but once the writer and *)
(* the reader are done, the labels show one sample, the last, unless the      *)
(* LVGL lock was not to be had for it or its writer was deleted.             *)
ShownSettles ==
  /\ ~updated /\ ~dropped /\ ~torn
  /\ task \notin {"rest", "flag"} /\ pc \notin {"show", "showRest"}
  => shown = [first |-> first, second |-> second]

(* A sensor that stays is sampled in the end, one that has gone is let go,   *)
(* whatever failed half way before.                                          *)
FollowsSensor ==
  /\ <>[]plugged => <>[](wasPresent /\ handle)
  /\ <>[]~plugged => <>[](~wasPresent /\ ~handle)
=============================================================================
