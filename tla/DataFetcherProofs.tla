------------------------- MODULE DataFetcherProofs -------------------------
(***************************************************************************)
(* Theorems about DataFetcher for any set of jobs, settings, retries and     *)
(* days.  The invariant says what is true of a job in the middle of a fetch   *)
(* window: which gates it has passed, what it has read, how many attempts it  *)
(* has left, and that a scheduled window is the first of its day to succeed.  *)
(***************************************************************************)
EXTENDS DataFetcher, TLAPS

AttemptsLeft == \A j \in Jobs : pc[j] \in Window => retries[j] <= MaxRetries

(* Before app_main() starts the fetcher there are no tasks.                  *)
NoTasksYet == ~up => \A j \in Jobs : pc[j] = "off"

(* Whoever is past its gate has a clock: it is lost with a restart only.     *)
ClockFirst == \A j \in Jobs : pc[j] \notin {"off", "gate"} => clockReady

(* What the attempt under way has read.                                      *)
Fetched ==
  \A j \in Jobs :
    /\ pc[j] \in {"key", "perform"} => urlFor[j] \in Values
    /\ pc[j] = "perform" => keyFor[j] \in Values
    /\ pc[j] = "perform" /\ j \in DailyJobs => keyFor[j] = urlFor[j]

(* A scheduled success is today's, and the only one.                         *)
SettledToday ==
  \A j \in DailyJobs :
    /\ scheduled[j] # 0 => scheduled[j] = 1 /\ lastDay[j] = day
    /\ pc[j] \in Window /\ cause[j] = "scheduled" => scheduled[j] = 0

IInv ==
  /\ TypeOK /\ NoTasksYet /\ AttemptsLeft /\ ClockFirst
  /\ RequestPending /\ Fetched /\ CacheMatchesKey /\ SettledToday

(* What build_url() reads is a value of the setting.                         *)
LEMMA LiveType == ASSUME TypeOK, NEW j \in Jobs PROVE Live(j) \in Values
BY DEF TypeOK, Live

(* The device has just been switched on.                                     *)
LEMMA InitIInv == Init => IInv
<1> SUFFICES ASSUME Init PROVE IInv
  OBVIOUS
<1>1. TypeOK
  <2>1. cache \in [Jobs -> [Values -> Values \cup {Nil}]]
    BY DEF Init, NoCache
  <2>2. day \in 0..MaxDay /\ slot \in Slots /\ -1 \in -1..MaxDay /\ 0 \in 0..(MaxRetries + 1)
    BY ConstantsOK DEF Init, Slots
  <2>3. /\ lastDay \in [Jobs -> -1..MaxDay] /\ retries \in [Jobs -> 0..(MaxRetries + 1)]
        /\ scheduled \in [Jobs -> 0..2]
    BY <2>2 DEF Init, Forget
  <2> QED
    BY <2>1, <2>2, <2>3 DEF Init, TypeOK, Forget, PCs
<1>2. NoTasksYet /\ AttemptsLeft /\ ClockFirst /\ RequestPending /\ Fetched
  BY DEF Init, Forget, NoTasksYet, AttemptsLeft, ClockFirst, RequestPending, Fetched, Window
<1>3. CacheMatchesKey /\ SettledToday
  BY DEF Init, Forget, NoCache, CacheMatchesKey, SettledToday, Jobs
<1> QED
  BY <1>1, <1>2, <1>3 DEF IInv

(* Both gates are open, and no attempt is made.                              *)
LEMMA ServeCachedIInv == ASSUME IInv, NEW j \in Jobs, ServeCached(j) PROVE IInv'
<1> USE DEF IInv, ServeCached, GateOpen, Display, timeVars, histVars
<1>1. TypeOK'
  <2>1. Live(j) \in Values /\ cache[j][Live(j)] \in Values \cup {Nil}
    BY LiveType DEF TypeOK
  <2> QED
    BY <2>1 DEF TypeOK, PCs
<1>2. NoTasksYet'
  BY DEF NoTasksYet, TypeOK
<1>3. AttemptsLeft'
  BY DEF AttemptsLeft, TypeOK, Window
<1>4. ClockFirst'
  BY DEF ClockFirst, TypeOK
<1>5. RequestPending'
  BY DEF RequestPending, TypeOK
<1>6. Fetched'
  BY DEF Fetched, TypeOK
<1>7. SettledToday'
  BY DEF SettledToday, TypeOK, Window, Jobs
<1>8. CacheMatchesKey'
  BY DEF CacheMatchesKey
<1> QED
  BY <1>1, <1>2, <1>3, <1>4, <1>5, <1>6, <1>7, <1>8

(* Both gates are open; the window is not a scheduled one.                   *)
LEMMA StartupFetchIInv == ASSUME IInv, NEW j \in Jobs, StartupFetch(j) PROVE IInv'
<1> USE DEF IInv, StartupFetch, GateOpen, BeginWindow, dataVars, timeVars
<1>1. TypeOK'
  BY ConstantsOK DEF TypeOK, PCs, Window
<1>2. NoTasksYet'
  BY DEF NoTasksYet, TypeOK
<1>3. AttemptsLeft'
  BY ConstantsOK DEF AttemptsLeft, TypeOK, Window
<1>4. ClockFirst'
  BY DEF ClockFirst, TypeOK
<1>5. RequestPending'
  BY DEF RequestPending, TypeOK
<1>6. Fetched'
  BY DEF Fetched, TypeOK
<1>7. SettledToday'
  BY DEF SettledToday, TypeOK, Window, Jobs
<1>8. CacheMatchesKey'
  BY DEF CacheMatchesKey
<1> QED
  BY <1>1, <1>2, <1>3, <1>4, <1>5, <1>6, <1>7, <1>8

(* Both gates are open.                                                      *)
LEMMA ReadyIInv == ASSUME IInv, NEW j \in Jobs, Ready(j) PROVE IInv'
<1> USE DEF IInv, Ready, GateOpen, dataVars, timeVars, histVars
<1>1. TypeOK'
  BY DEF TypeOK, PCs
<1>2. NoTasksYet'
  BY DEF NoTasksYet, TypeOK
<1>3. AttemptsLeft'
  BY DEF AttemptsLeft, TypeOK, Window
<1>4. ClockFirst'
  BY DEF ClockFirst, TypeOK
<1>5. RequestPending'
  BY DEF RequestPending, TypeOK
<1>6. Fetched'
  BY DEF Fetched, TypeOK
<1>7. SettledToday'
  BY DEF SettledToday, TypeOK, Window, Jobs
<1>8. CacheMatchesKey'
  BY DEF CacheMatchesKey
<1> QED
  BY <1>1, <1>2, <1>3, <1>4, <1>5, <1>6, <1>7, <1>8

(* Back to the gate.                                                         *)
LEMMA PauseIInv == ASSUME IInv, NEW j \in Jobs, Pause(j) PROVE IInv'
<1> USE DEF IInv, Pause, dataVars, timeVars, histVars
<1>1. TypeOK'
  BY DEF TypeOK, PCs
<1>2. NoTasksYet'
  BY DEF NoTasksYet, TypeOK
<1>3. AttemptsLeft'
  BY DEF AttemptsLeft, TypeOK, Window
<1>4. ClockFirst'
  BY DEF ClockFirst, TypeOK
<1>5. RequestPending'
  BY DEF RequestPending, TypeOK
<1>6. Fetched'
  BY DEF Fetched, TypeOK
<1>7. SettledToday'
  BY DEF SettledToday, TypeOK, Window, Jobs
<1>8. CacheMatchesKey'
  BY DEF CacheMatchesKey
<1> QED
  BY <1>1, <1>2, <1>3, <1>4, <1>5, <1>6, <1>7, <1>8

(* A window that is due and not forced is the first of its day to succeed:   *)
(* DailyDue says that the last success was on another day.                   *)
LEMMA FireIInv == ASSUME IInv, NEW j \in Jobs, Fire(j) PROVE IInv'
<1> USE DEF IInv, Fire, BeginWindow, Due, DailyDue, IntervalDue, dataVars, timeVars
<1>1. TypeOK'
  BY ConstantsOK DEF TypeOK, PCs, Window
<1>2. NoTasksYet'
  BY DEF NoTasksYet, TypeOK
<1>3. AttemptsLeft'
  BY ConstantsOK DEF AttemptsLeft, TypeOK, Window
<1>4. ClockFirst'
  BY DEF ClockFirst, TypeOK
<1>5. RequestPending'
  BY DEF RequestPending, TypeOK
<1>6. Fetched'
  BY DEF Fetched, TypeOK
<1>7. SettledToday'
  BY ConstantsOK DEF SettledToday, TypeOK, Window, Jobs
<1>8. CacheMatchesKey'
  BY DEF CacheMatchesKey
<1> QED
  BY <1>1, <1>2, <1>3, <1>4, <1>5, <1>6, <1>7, <1>8

(* The request, if there was one, has met the loss of DNS.                   *)
LEMMA AbortWindowIInv == ASSUME IInv, NEW j \in Jobs, AbortWindow(j) PROVE IInv'
<1> USE DEF IInv, AbortWindow, dataVars, timeVars
<1>1. TypeOK'
  BY DEF TypeOK, PCs
<1>2. NoTasksYet'
  BY DEF NoTasksYet, TypeOK
<1>3. AttemptsLeft'
  BY DEF AttemptsLeft, TypeOK, Window
<1>4. ClockFirst'
  BY DEF ClockFirst, TypeOK
<1>5. RequestPending'
  BY DEF RequestPending, TypeOK
<1>6. Fetched'
  BY DEF Fetched, TypeOK
<1>7. SettledToday'
  BY DEF SettledToday, TypeOK, Window, Jobs
<1>8. CacheMatchesKey'
  BY DEF CacheMatchesKey
<1> QED
  BY <1>1, <1>2, <1>3, <1>4, <1>5, <1>6, <1>7, <1>8

(* The attempt that a request has waited for begins.                         *)
LEMMA BuildUrlIInv == ASSUME IInv, NEW j \in Jobs, BuildUrl(j) PROVE IInv'
<1> USE DEF IInv, BuildUrl, dataVars, timeVars
<1>1. TypeOK'
  BY LiveType DEF TypeOK, PCs, Window
<1>2. NoTasksYet'
  BY DEF NoTasksYet, TypeOK
<1>3. AttemptsLeft'
  BY DEF AttemptsLeft, TypeOK, Window
<1>4. ClockFirst'
  BY DEF ClockFirst, TypeOK
<1>5. RequestPending'
  BY DEF RequestPending, TypeOK
<1>6. Fetched'
  BY LiveType DEF Fetched, TypeOK
<1>7. SettledToday'
  BY DEF SettledToday, TypeOK, Window, Jobs
<1>8. CacheMatchesKey'
  BY DEF CacheMatchesKey
<1> QED
  BY <1>1, <1>2, <1>3, <1>4, <1>5, <1>6, <1>7, <1>8

(* The zone in the key is the one in the URL.                                *)
LEMMA BuildKeyIInv == ASSUME IInv, NEW j \in Jobs, BuildKey(j) PROVE IInv'
<1> USE DEF IInv, BuildKey, dataVars, timeVars, histVars
<1>1. TypeOK'
  <2> DEFINE v == IF j \in DailyJobs THEN urlFor[j] ELSE Live(j)
  <2>1. v \in Values /\ keyFor' = [keyFor EXCEPT ![j] = v]
    BY LiveType DEF Fetched
  <2> HIDE DEF v
  <2>2. keyFor' \in [Jobs -> Values \cup {Nil}]
    BY <2>1 DEF TypeOK
  <2>3. pc' \in [Jobs -> PCs]
    BY DEF TypeOK, PCs, Window
  <2> QED
    BY <2>2, <2>3 DEF TypeOK
<1>2. NoTasksYet'
  BY DEF NoTasksYet, TypeOK
<1>3. AttemptsLeft'
  BY DEF AttemptsLeft, TypeOK, Window
<1>4. ClockFirst'
  BY DEF ClockFirst, TypeOK
<1>5. RequestPending'
  BY DEF RequestPending, TypeOK
<1>6. Fetched'
  BY LiveType DEF Fetched, TypeOK
<1>7. SettledToday'
  BY DEF SettledToday, TypeOK, Window, Jobs
<1>8. CacheMatchesKey'
  BY DEF CacheMatchesKey
<1> QED
  BY <1>1, <1>2, <1>3, <1>4, <1>5, <1>6, <1>7, <1>8

(* One attempt less; after the last the window ends.                         *)
LEMMA PerformFailsIInv == ASSUME IInv, NEW j \in Jobs, PerformFails(j) PROVE IInv'
<1> USE DEF IInv, PerformFails, dataVars, timeVars, histVars
<1>1. TypeOK'
  BY ConstantsOK DEF TypeOK, PCs, AttemptsLeft, Window
<1>2. NoTasksYet'
  BY DEF NoTasksYet, TypeOK
<1>3. AttemptsLeft'
  BY ConstantsOK DEF AttemptsLeft, TypeOK, Window
<1>4. ClockFirst'
  BY DEF ClockFirst, TypeOK
<1>5. RequestPending'
  BY DEF RequestPending, TypeOK
<1>6. Fetched'
  BY DEF Fetched, TypeOK
<1>7. SettledToday'
  BY DEF SettledToday, TypeOK, Window, Jobs
<1>8. CacheMatchesKey'
  BY DEF CacheMatchesKey
<1> QED
  BY <1>1, <1>2, <1>3, <1>4, <1>5, <1>6, <1>7, <1>8

(* What is stored under a zone was fetched for it; a scheduled success is now *)
(* today's.                                                                  *)
LEMMA PerformOkIInv == ASSUME IInv, NEW j \in Jobs, PerformOk(j) PROVE IInv'
<1> USE DEF IInv, PerformOk, Display, Succeed, timeVars
<1>1. TypeOK'
  BY DEF TypeOK, PCs, Fetched
<1>2. NoTasksYet'
  BY DEF NoTasksYet, TypeOK
<1>3. AttemptsLeft'
  BY DEF AttemptsLeft, TypeOK, Window
<1>4. ClockFirst'
  BY DEF ClockFirst, TypeOK
<1>5. RequestPending'
  BY DEF RequestPending, TypeOK
<1>6. Fetched'
  BY DEF Fetched, TypeOK
<1>7. CacheMatchesKey'
  BY ConstantsOK DEF CacheMatchesKey, TypeOK, Fetched, Jobs
<1>8. SettledToday'
  BY DEF SettledToday, TypeOK, Window, Jobs
<1> QED
  BY <1>1, <1>2, <1>3, <1>4, <1>5, <1>6, <1>7, <1>8

(* The same, whether or not the data could be stored.                        *)
LEMMA PerformUnseenIInv == ASSUME IInv, NEW j \in Jobs, PerformUnseen(j) PROVE IInv'
<1> USE DEF IInv, PerformUnseen, Succeed, timeVars
<1>1. TypeOK'
  <2>1. [cache EXCEPT ![j][keyFor[j]] = urlFor[j]] \in [Jobs -> [Values -> Values \cup {Nil}]]
    BY DEF TypeOK, Fetched
  <2>2. cache' \in [Jobs -> [Values -> Values \cup {Nil}]]
    BY <2>1 DEF TypeOK
  <2>3. lastDay' \in [Jobs -> -1..MaxDay] /\ scheduled' \in [Jobs -> 0..2]
    BY ConstantsOK DEF TypeOK
  <2>4. pc' \in [Jobs -> PCs] /\ lapsed' \in [Jobs -> BOOLEAN] /\ firstRun' \in [Jobs -> BOOLEAN]
    BY DEF TypeOK, PCs
  <2> QED
    BY <2>2, <2>3, <2>4 DEF TypeOK
<1>2. NoTasksYet'
  BY DEF NoTasksYet, TypeOK
<1>3. AttemptsLeft'
  BY DEF AttemptsLeft, TypeOK, Window
<1>4. ClockFirst'
  BY DEF ClockFirst, TypeOK
<1>5. RequestPending'
  BY DEF RequestPending, TypeOK
<1>6. Fetched'
  BY DEF Fetched, TypeOK
<1>7. CacheMatchesKey'
  BY ConstantsOK DEF CacheMatchesKey, TypeOK, Fetched, Jobs
<1>8. SettledToday'
  BY DEF SettledToday, TypeOK, Window, Jobs
<1> QED
  BY <1>1, <1>2, <1>3, <1>4, <1>5, <1>6, <1>7, <1>8

(* An attempt is left: back to the beginning of the retry loop.              *)
LEMMA RetryIInv == ASSUME IInv, NEW j \in Jobs, Retry(j) PROVE IInv'
<1> USE DEF IInv, Retry, dataVars, timeVars, histVars
<1>1. TypeOK'
  BY DEF TypeOK, PCs, Window
<1>2. NoTasksYet'
  BY DEF NoTasksYet, TypeOK
<1>3. AttemptsLeft'
  BY DEF AttemptsLeft, TypeOK, Window
<1>4. ClockFirst'
  BY DEF ClockFirst, TypeOK
<1>5. RequestPending'
  BY DEF RequestPending, TypeOK
<1>6. Fetched'
  BY DEF Fetched, TypeOK
<1>7. SettledToday'
  BY DEF SettledToday, TypeOK, Window, Jobs
<1>8. CacheMatchesKey'
  BY DEF CacheMatchesKey
<1> QED
  BY <1>1, <1>2, <1>3, <1>4, <1>5, <1>6, <1>7, <1>8

(* Back to the schedule.                                                     *)
LEMMA ResumeIInv == ASSUME IInv, NEW j \in Jobs, Resume(j) PROVE IInv'
<1> USE DEF IInv, Resume, dataVars, timeVars, histVars
<1>1. TypeOK'
  BY DEF TypeOK, PCs
<1>2. NoTasksYet'
  BY DEF NoTasksYet, TypeOK
<1>3. AttemptsLeft'
  BY DEF AttemptsLeft, TypeOK, Window
<1>4. ClockFirst'
  BY DEF ClockFirst, TypeOK
<1>5. RequestPending'
  BY DEF RequestPending, TypeOK
<1>6. Fetched'
  BY DEF Fetched, TypeOK
<1>7. SettledToday'
  BY DEF SettledToday, TypeOK, Window, Jobs
<1>8. CacheMatchesKey'
  BY DEF CacheMatchesKey
<1> QED
  BY <1>1, <1>2, <1>3, <1>4, <1>5, <1>6, <1>7, <1>8

-----------------------------------------------------------------------------
(* The rest of the device.                                                   *)

(* There were no tasks and no requests before.                               *)
LEMMA BootIInv == ASSUME IInv, Boot PROVE IInv'
<1> USE DEF IInv, Boot, Forget, NoCache, timeVars, histVars
<1>1. TypeOK'
  <2>1. cache' \in [Jobs -> [Values -> Values \cup {Nil}]]
    BY DEF TypeOK
  <2> QED
    BY <2>1 DEF TypeOK, PCs
<1>2. NoTasksYet'
  BY DEF NoTasksYet, TypeOK
<1>3. AttemptsLeft'
  BY DEF AttemptsLeft, TypeOK, Window
<1>4. ClockFirst'
  BY DEF ClockFirst, TypeOK
<1>5. RequestPending'
  BY DEF RequestPending, TypeOK, NoTasksYet
<1>6. Fetched'
  BY DEF Fetched, TypeOK
<1>7. CacheMatchesKey'
  BY DEF CacheMatchesKey, TypeOK, Jobs
<1>8. SettledToday'
  BY DEF SettledToday, TypeOK, Window, Jobs
<1> QED
  BY <1>1, <1>2, <1>3, <1>4, <1>5, <1>6, <1>7, <1>8

(* Only the settings, the cache and the calendar are left.                   *)
LEMMA RebootIInv == ASSUME IInv, Reboot PROVE IInv'
<1> USE DEF IInv, Reboot, Forget, timeVars
<1>1. TypeOK'
  <2>1. -1 \in -1..MaxDay /\ 0 \in 0..(MaxRetries + 1)
    BY ConstantsOK
  <2>2. /\ lastDay' \in [Jobs -> -1..MaxDay] /\ retries' \in [Jobs -> 0..(MaxRetries + 1)]
        /\ scheduled' \in [Jobs -> 0..2]
    BY <2>1
  <2> QED
    BY <2>2 DEF TypeOK, PCs
<1>2. NoTasksYet'
  BY DEF NoTasksYet, TypeOK
<1>3. AttemptsLeft'
  BY DEF AttemptsLeft, TypeOK, Window
<1>4. ClockFirst'
  BY DEF ClockFirst, TypeOK
<1>5. RequestPending'
  BY DEF RequestPending, TypeOK
<1>6. Fetched'
  BY DEF Fetched, TypeOK
<1>7. SettledToday'
  BY DEF SettledToday, TypeOK, Window, Jobs
<1>8. CacheMatchesKey'
  BY DEF CacheMatchesKey
<1> QED
  BY <1>1, <1>2, <1>3, <1>4, <1>5, <1>6, <1>7, <1>8

(* Nothing in the invariant depends on DNS.                                  *)
LEMMA NotifyWifiIInv == ASSUME IInv, NotifyWifi PROVE IInv'
<1> USE DEF IInv, NotifyWifi, taskVars, dataVars, timeVars, histVars
<1>1. TypeOK'
  BY DEF TypeOK
<1>2. NoTasksYet' /\ AttemptsLeft' /\ ClockFirst'
     /\ RequestPending' /\ Fetched' /\ CacheMatchesKey' /\ SettledToday'
  BY DEF NoTasksYet, AttemptsLeft, ClockFirst,
         RequestPending, Fetched, CacheMatchesKey, SettledToday
<1> QED
  BY <1>1, <1>2

(* The clock gate opens for good.                                            *)
LEMMA NotifyTimeSyncIInv == ASSUME IInv, NotifyTimeSync PROVE IInv'
<1> USE DEF IInv, NotifyTimeSync, taskVars, dataVars, timeVars, histVars
<1>1. TypeOK'
  BY DEF TypeOK
<1>2. ClockFirst'
  BY DEF ClockFirst, TypeOK
<1>3. NoTasksYet' /\ AttemptsLeft' /\ RequestPending'
     /\ Fetched' /\ CacheMatchesKey' /\ SettledToday'
  BY DEF NoTasksYet, AttemptsLeft, RequestPending, Fetched, CacheMatchesKey, SettledToday
<1> QED
  BY <1>1, <1>2, <1>3

(* The request is noted where schedule_loop() looks for it.                  *)
LEMMA RefreshIInv == ASSUME IInv, Refresh PROVE IInv'
<1> USE DEF IInv, Refresh, timeVars
<1>1. TypeOK'
  BY DEF TypeOK
<1>2. RequestPending'
  BY DEF RequestPending, TypeOK
<1>3. NoTasksYet' /\ AttemptsLeft' /\ ClockFirst'
     /\ Fetched' /\ CacheMatchesKey' /\ SettledToday'
  BY DEF NoTasksYet, AttemptsLeft, ClockFirst, Fetched, CacheMatchesKey, SettledToday
<1> QED
  BY <1>1, <1>2, <1>3

(* A new day begins with no scheduled success.                               *)
LEMMA NextSlotIInv == ASSUME IInv, NextSlot PROVE IInv'
<1> USE DEF IInv, NextSlot, Forget, taskVars, dataVars
<1>1. TypeOK'
  BY ConstantsOK DEF TypeOK, Slots
<1>2. SettledToday'
  BY DEF SettledToday, TypeOK, Window, Jobs
<1>3. NoTasksYet' /\ AttemptsLeft' /\ ClockFirst'
     /\ RequestPending' /\ Fetched' /\ CacheMatchesKey'
  BY DEF NoTasksYet, AttemptsLeft, ClockFirst, RequestPending, Fetched, CacheMatchesKey
<1> QED
  BY <1>1, <1>2, <1>3

(* What an attempt has read stays as it was read.                            *)
LEMMA SaveSettingIInv ==
  ASSUME IInv, NEW s \in DOMAIN setting, NEW v \in Values, SaveSetting(s, v)
  PROVE  IInv'
<1> USE DEF IInv, SaveSetting, taskVars, timeVars, histVars
<1>1. TypeOK'
  BY DEF TypeOK
<1>2. NoTasksYet' /\ AttemptsLeft' /\ ClockFirst'
     /\ RequestPending' /\ Fetched' /\ CacheMatchesKey' /\ SettledToday'
  BY DEF NoTasksYet, AttemptsLeft, ClockFirst,
         RequestPending, Fetched, CacheMatchesKey, SettledToday
<1> QED
  BY <1>1, <1>2

(* The cache loses an entry.                                                 *)
LEMMA ExpireIInv ==
  ASSUME IInv, NEW j \in Jobs, NEW v \in Values, Expire(j, v)
  PROVE  IInv'
<1> USE DEF IInv, Expire, taskVars, timeVars, histVars
<1>1. TypeOK'
  BY DEF TypeOK
<1>2. CacheMatchesKey'
  BY DEF CacheMatchesKey, TypeOK, Jobs
<1>3. NoTasksYet' /\ AttemptsLeft' /\ ClockFirst'
     /\ RequestPending' /\ Fetched' /\ SettledToday'
  BY DEF NoTasksYet, AttemptsLeft, ClockFirst, RequestPending, Fetched, SettledToday
<1> QED
  BY <1>1, <1>2, <1>3

(* An interval is over.                                                      *)
LEMMA ElapseIInv == ASSUME IInv, NEW j \in Jobs, Elapse(j) PROVE IInv'
<1> USE DEF IInv, Elapse, dataVars, timeVars, histVars
<1>1. TypeOK'
  BY DEF TypeOK
<1>2. NoTasksYet' /\ AttemptsLeft' /\ ClockFirst'
     /\ RequestPending' /\ Fetched' /\ CacheMatchesKey' /\ SettledToday'
  BY DEF NoTasksYet, AttemptsLeft, ClockFirst,
         RequestPending, Fetched, CacheMatchesKey, SettledToday
<1> QED
  BY <1>1, <1>2

(* Nothing changes.                                                          *)
LEMMA StutterIInv == IInv /\ UNCHANGED vars => IInv'
BY DEF IInv, vars, taskVars, dataVars, timeVars, histVars, TypeOK, NoTasksYet, AttemptsLeft,
       ClockFirst, RequestPending, Fetched, CacheMatchesKey, SettledToday

(* The steps together.                                                       *)
LEMMA NextIInv == IInv /\ [Next]_vars => IInv'
<1> SUFFICES ASSUME IInv, [Next]_vars PROVE IInv'
  OBVIOUS
<1>1. ASSUME NEW j \in Jobs, Task(j) PROVE IInv'
  BY <1>1, ServeCachedIInv, StartupFetchIInv, ReadyIInv, PauseIInv, FireIInv,
     AbortWindowIInv, BuildUrlIInv, BuildKeyIInv, PerformFailsIInv, PerformOkIInv,
     PerformUnseenIInv, RetryIInv, ResumeIInv DEF Task
<1>2. CASE Device
  BY <1>2, BootIInv, RebootIInv, NotifyWifiIInv, NotifyTimeSyncIInv, RefreshIInv,
     NextSlotIInv, SaveSettingIInv, ExpireIInv, ElapseIInv DEF Device
<1> QED
  BY <1>1, <1>2, StutterIInv DEF Next

(* The inductive invariant holds in every reachable state.                   *)
THEOREM Inductive == Spec => []IInv
BY InitIInv, NextIInv, PTL DEF Spec

(* Type correctness: with any limit, a window makes no attempt beyond it.    *)
THEOREM TypeCorrect == Spec => []TypeOK
BY Inductive, PTL DEF IInv

(* No request is swallowed by a window that runs already, for any jobs.      *)
THEOREM RequestsKept == Spec => []RequestPending
BY Inductive, PTL DEF IInv

(* A DAILY job succeeds in one scheduled window a day, on any calendar.      *)
THEOREM ScheduledOnce == Spec => []OneScheduledPerDay
<1>1. IInv => OneScheduledPerDay
  BY DEF IInv, OneScheduledPerDay, SettledToday, TypeOK, Jobs
<1> QED
  BY <1>1, Inductive, PTL

(* The cache never holds one zone's prices under the key of another.         *)
THEOREM ZoneKeysMatch == Spec => []CacheMatchesKey
BY Inductive, PTL DEF IInv

(* No attempt of any window starts without DNS or without the clock.         *)
THEOREM GatesFirst == Spec => GatesBeforeTls
<1>1. ASSUME IInv, [Next]_vars
      PROVE  [\A j \in Jobs : pc[j] # "key" /\ pc'[j] = "key" => dnsReady /\ clockReady]_vars
  <2> SUFFICES ASSUME Next, NEW j \in Jobs, pc[j] # "key", pc'[j] = "key"
               PROVE  dnsReady /\ clockReady
    BY <1>1 DEF vars
  <2>1. ASSUME NEW i \in Jobs, Task(i) PROVE i = j /\ BuildUrl(j)
    BY <1>1, <2>1 DEF IInv, TypeOK, Task, ServeCached, StartupFetch, Ready, Pause, Fire,
                      AbortWindow, BuildUrl, BuildKey, PerformFails, PerformOk, PerformUnseen,
                      Retry, Resume, BeginWindow, Succeed
  <2>2. ~Device
    BY DEF Device, Boot, Reboot, NotifyWifi, NotifyTimeSync, Refresh, NextSlot, SaveSetting,
           Expire, Elapse, Forget, taskVars
  <2>3. BuildUrl(j)
    BY <2>1, <2>2 DEF Next
  <2> QED
    BY <1>1, <2>3 DEF BuildUrl, IInv, ClockFirst
<1> QED
  BY <1>1, Inductive, PTL DEF Spec, GatesBeforeTls
=============================================================================
