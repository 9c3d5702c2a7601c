---------------------------- MODULE DataFetcher ----------------------------
(***************************************************************************)
(* components/data_fetcher/data_fetcher.c with the callbacks main.c gives   *)
(* it: one task per job waits for the DNS and the clock gate, serves its    *)
(* startup data from the cache or the network, then fetches on its schedule *)
(* or when forced, with bounded retries.                                    *)
(*                                                                         *)
(* A job depends on one setting: INTERVAL jobs (weather) on the city, DAILY *)
(* jobs (elpris) on the price zone.  Fetched data is represented by the     *)
(* setting value its URL was built from.  Time is a calendar of days with   *)
(* three slots: before, within and after daily_hour.  (energy_plan, an      *)
(* INTERVAL job that is neither shown nor requested, adds nothing to this.) *)
(***************************************************************************)
EXTENDS Integers

CONSTANTS
  IntervalJobs, DailyJobs,  \* the fetch descriptors
  Values,                   \* values a setting may take
  Nil,                      \* no data
  MaxRetries,               \* DataFetcherConfig.max_retries
  MaxDay                    \* bound on the days of the calendar

Jobs == IntervalJobs \cup DailyJobs

ASSUME ConstantsOK ==
  /\ IntervalJobs \cap DailyJobs = {}
  /\ Nil \notin Values
  /\ MaxRetries \in Nat /\ MaxDay \in Nat

VARIABLES
  up,          \* app_main has started the fetcher (g_initialized)
  dnsReady,    \* g_dns_ready
  clockReady,  \* g_clock_ready
  pc,          \* where the task of each job is
  force,       \* force[j]: force_now
  firstRun,    \* firstRun[j]: first_run
  lapsed,      \* lapsed[j]: interval_sec has passed since last_fetch_ms
  lastDay,     \* lastDay[j]: last_trigger_day
  retries,     \* retries[j]
  urlFor,      \* urlFor[j]: the setting the resolved URL was built from
  keyFor,      \* keyFor[j]: the setting the resolved cache key was built from
  setting,     \* the live settings, by name
  cache,       \* cache[j][v]: what is stored under j's key for v
  shown,       \* shown[j]: what the UI displays
  refreshing,  \* the refresh button of the weather tab is disabled
  day, slot,   \* local time
  \* History, read by properties only:
  owed,        \* owed[j]: requested, and no attempt made or given up (for DNS) since
  cause,       \* cause[j]: what began the latest fetch window
  scheduled,   \* scheduled[j]: scheduled windows of today that succeeded
  fired        \* fired[j]: a fetch window of j began in this slot

taskVars == <<pc, force, firstRun, lapsed, lastDay, retries, urlFor, keyFor>>
dataVars == <<setting, cache, shown, refreshing>>
timeVars == <<day, slot>>
histVars == <<owed, cause, scheduled, fired>>
vars == <<up, dnsReady, clockReady, taskVars, dataVars, timeVars, histVars>>

SettingOf(j) == IF j \in DailyJobs THEN "zone" ELSE "city"
Live(j) == setting[SettingOf(j)]
NoCache == [j \in Jobs |-> [v \in Values |-> Nil]]
Forget(x) == [j \in Jobs |-> x]

Window == {"fetch", "key", "perform", "backoff"}
PCs == Window \cup {"off", "gate", "sched", "pause"}
Slots == {"before", "hour", "after"}

Init ==
  /\ up = FALSE /\ dnsReady = FALSE /\ clockReady = FALSE
  /\ pc = Forget("off") /\ force = Forget(FALSE)
  /\ firstRun = Forget(TRUE) /\ lapsed = Forget(FALSE)
  /\ lastDay = Forget(-1) /\ retries = Forget(0)
  /\ urlFor = Forget(Nil) /\ keyFor = Forget(Nil)
  /\ setting \in [{SettingOf(j) : j \in Jobs} -> Values]
  /\ cache = NoCache /\ shown = Forget(Nil) /\ refreshing = FALSE
  /\ day = 0 /\ slot \in IF DailyJobs = {} THEN {"before"} ELSE Slots
  /\ owed = Forget(FALSE) /\ cause = Forget("none")
  /\ scheduled = Forget(0) /\ fired = Forget(FALSE)

-----------------------------------------------------------------------------
(* The task of a job.                                                      *)

\* Bugs that the code avoids: used by no specification, each stands for the
\* definition of the same name.
IntervalDue_FirstRunOnly(j) == j \in IntervalJobs /\ firstRun[j]

GateOpen_DnsOnly(j) == pc[j] = "gate" /\ dnsReady

BuildKey_Live(j) ==
  /\ pc[j] = "key"
  /\ keyFor' = [keyFor EXCEPT ![j] = Live(j)]
  /\ pc' = [pc EXCEPT ![j] = "perform"]
  /\ UNCHANGED <<up, dnsReady, clockReady, force, firstRun, lapsed, lastDay,
                 retries, urlFor, dataVars, timeVars, histVars>>

PerformFails_NoLimit(j) ==
  /\ pc[j] = "perform"
  /\ retries' = [retries EXCEPT ![j] = @ + 1]
  /\ pc' = [pc EXCEPT ![j] = "backoff"]
  /\ UNCHANGED <<up, dnsReady, clockReady, force, firstRun, lapsed, lastDay,
                 urlFor, keyFor, dataVars, timeVars, histVars>>

Succeed_ClearsForce(j) ==
  /\ pc' = [pc EXCEPT ![j] = "sched"]
  /\ lapsed' = [lapsed EXCEPT ![j] = FALSE]
  /\ firstRun' = [firstRun EXCEPT ![j] = FALSE]
  /\ lastDay' = [lastDay EXCEPT ![j] = IF j \in DailyJobs THEN day ELSE @]
  /\ force' = [force EXCEPT ![j] = FALSE]
  /\ UNCHANGED <<retries, urlFor, keyFor, owed, cause, scheduled, fired>>

Succeed_KeepsDay(j) ==
  /\ pc' = [pc EXCEPT ![j] = "sched"]
  /\ lapsed' = [lapsed EXCEPT ![j] = FALSE]
  /\ firstRun' = [firstRun EXCEPT ![j] = FALSE]
  /\ scheduled' = [scheduled EXCEPT ![j] =
                     IF cause[j] = "scheduled" /\ @ < 2 THEN @ + 1 ELSE @]
  /\ UNCHANGED <<force, lastDay, retries, urlFor, keyFor, owed, cause, fired>>

IntervalDue(j) == j \in IntervalJobs /\ (firstRun[j] \/ lapsed[j])
DailyDue(j) == j \in DailyJobs /\ slot = "hour" /\ lastDay[j] # day
Due(j) == IntervalDue(j) \/ DailyDue(j)

\* wait_for_ready() returns.
GateOpen(j) == pc[j] = "gate" /\ dnsReady /\ clockReady

\* do_fetch_now: force_now is cleared before the first attempt.
BeginWindow(j, why) ==
  /\ force' = [force EXCEPT ![j] = FALSE]
  /\ retries' = [retries EXCEPT ![j] = 0]
  /\ pc' = [pc EXCEPT ![j] = "fetch"]
  /\ cause' = [cause EXCEPT ![j] = why]
  /\ fired' = [fired EXCEPT ![j] = TRUE]
  /\ UNCHANGED <<firstRun, lapsed, lastDay, urlFor, keyFor, owed, scheduled>>

\* Storing the data under the key and showing it (main.c on_data_cached).
Display(j, data) ==
  /\ shown' = [shown EXCEPT ![j] = data]
  /\ refreshing' = (refreshing /\ j \notin IntervalJobs)

\* The startup data is in the cache, and is shown if the LVGL lock is had.
ServeCached(j) ==
  /\ GateOpen(j) /\ firstRun[j]
  /\ cache[j][Live(j)] # Nil
  /\ urlFor' = [urlFor EXCEPT ![j] = Live(j)]
  /\ keyFor' = [keyFor EXCEPT ![j] = Live(j)]
  /\ Display(j, cache[j][Live(j)]) \/ UNCHANGED <<shown, refreshing>>
  /\ lapsed' = [lapsed EXCEPT ![j] = FALSE]
  /\ firstRun' = [firstRun EXCEPT ![j] = FALSE]
  /\ pc' = [pc EXCEPT ![j] = "sched"]
  /\ UNCHANGED <<up, dnsReady, clockReady, force, lastDay, retries, setting,
                 cache, timeVars, histVars>>

\* The cache has no startup data.
StartupFetch(j) ==
  /\ GateOpen(j) /\ firstRun[j]
  /\ cache[j][Live(j)] = Nil
  /\ BeginWindow(j, "startup")
  /\ UNCHANGED <<up, dnsReady, clockReady, dataVars, timeVars>>

\* The task has had its startup data.
Ready(j) ==
  /\ GateOpen(j) /\ ~firstRun[j]
  /\ pc' = [pc EXCEPT ![j] = "sched"]
  /\ UNCHANGED <<up, dnsReady, clockReady, force, firstRun, lapsed, lastDay,
                 retries, urlFor, keyFor, dataVars, timeVars, histVars>>

\* schedule_loop ends: DNS is gone.
Pause(j) ==
  /\ pc[j] = "sched" /\ ~dnsReady
  /\ pc' = [pc EXCEPT ![j] = "gate"]
  /\ UNCHANGED <<up, dnsReady, clockReady, force, firstRun, lapsed, lastDay,
                 retries, urlFor, keyFor, dataVars, timeVars, histVars>>

\* schedule_loop ends: forced, or the schedule says so.
Fire(j) ==
  /\ pc[j] = "sched" /\ dnsReady
  /\ force[j] \/ Due(j)
  /\ BeginWindow(j, IF force[j] THEN "forced" ELSE "scheduled")
  /\ UNCHANGED <<up, dnsReady, clockReady, dataVars, timeVars>>

\* The retry loop finds DNS gone and gives the window up.
AbortWindow(j) ==
  /\ pc[j] = "fetch" /\ ~dnsReady
  /\ pc' = [pc EXCEPT ![j] = "pause"]
  /\ owed' = [owed EXCEPT ![j] = FALSE]
  /\ UNCHANGED <<up, dnsReady, clockReady, force, firstRun, lapsed, lastDay,
                 retries, urlFor, keyFor, dataVars, timeVars,
                 cause, scheduled, fired>>

\* do_fetch(): build_url() reads the live setting into the URL ...
BuildUrl(j) ==
  /\ pc[j] = "fetch" /\ dnsReady
  /\ urlFor' = [urlFor EXCEPT ![j] = Live(j)]
  /\ pc' = [pc EXCEPT ![j] = "key"]
  /\ owed' = [owed EXCEPT ![j] = FALSE]
  /\ UNCHANGED <<up, dnsReady, clockReady, force, firstRun, lapsed, lastDay,
                 retries, keyFor, dataVars, timeVars,
                 cause, scheduled, fired>>

\* ... and again into the cache key: settings_manager_get_location() returns
\* the live buffer, settings_manager_get_price_zone_as_string() a literal.
BuildKey(j) ==
  /\ pc[j] = "key"
  /\ keyFor' = [keyFor EXCEPT ![j] =
                  IF j \in DailyJobs THEN urlFor[j] ELSE Live(j)]
  /\ pc' = [pc EXCEPT ![j] = "perform"]
  /\ UNCHANGED <<up, dnsReady, clockReady, force, firstRun, lapsed, lastDay,
                 retries, urlFor, dataVars, timeVars, histVars>>

\* http_client_perform() failed, or the answer is no usable 2xx.
PerformFails(j) ==
  /\ pc[j] = "perform"
  /\ retries' = [retries EXCEPT ![j] = @ + 1]
  /\ pc' = [pc EXCEPT ![j] = IF retries[j] + 1 > MaxRetries THEN "pause" ELSE "backoff"]
  /\ UNCHANGED <<up, dnsReady, clockReady, force, firstRun, lapsed, lastDay,
                 urlFor, keyFor, dataVars, timeVars, histVars>>

\* What follows a do_fetch() that returned true.
Succeed(j) ==
  /\ pc' = [pc EXCEPT ![j] = "sched"]
  /\ lapsed' = [lapsed EXCEPT ![j] = FALSE]
  /\ firstRun' = [firstRun EXCEPT ![j] = FALSE]
  /\ lastDay' = [lastDay EXCEPT ![j] = IF j \in DailyJobs THEN day ELSE @]
  /\ scheduled' = [scheduled EXCEPT ![j] =
                     IF cause[j] = "scheduled" /\ @ < 2 THEN @ + 1 ELSE @]
  /\ UNCHANGED <<force, retries, urlFor, keyFor, owed, cause, fired>>

\* The data is cached and on_data_cached() shows it.
PerformOk(j) ==
  /\ pc[j] = "perform"
  /\ cache' = [cache EXCEPT ![j][keyFor[j]] = urlFor[j]]
  /\ Display(j, urlFor[j])
  /\ Succeed(j)
  /\ UNCHANGED <<up, dnsReady, clockReady, setting, timeVars>>

\* cache_put() fails, or the LVGL lock is not had in time: nothing is shown,
\* and do_fetch() returns true all the same.
PerformUnseen(j) ==
  /\ pc[j] = "perform"
  /\ cache' \in {cache, [cache EXCEPT ![j][keyFor[j]] = urlFor[j]]}
  /\ Succeed(j)
  /\ UNCHANGED <<up, dnsReady, clockReady, setting, shown, refreshing, timeVars>>

\* interruptible_sleep() of the back-off is over, early if forced.
Retry(j) ==
  /\ pc[j] = "backoff"
  /\ pc' = [pc EXCEPT ![j] = "fetch"]
  /\ UNCHANGED <<up, dnsReady, clockReady, force, firstRun, lapsed, lastDay,
                 retries, urlFor, keyFor, dataVars, timeVars, histVars>>

\* The sleep of POLL_MS after a failed window is over.
Resume(j) ==
  /\ pc[j] = "pause"
  /\ pc' = [pc EXCEPT ![j] = "sched"]
  /\ UNCHANGED <<up, dnsReady, clockReady, force, firstRun, lapsed, lastDay,
                 retries, urlFor, keyFor, dataVars, timeVars, histVars>>

Task(j) ==
  \/ ServeCached(j) \/ StartupFetch(j) \/ Ready(j) \/ Pause(j) \/ Fire(j)
  \/ AbortWindow(j) \/ BuildUrl(j) \/ BuildKey(j)
  \/ PerformFails(j) \/ PerformOk(j) \/ PerformUnseen(j)
  \/ Retry(j) \/ Resume(j)

-----------------------------------------------------------------------------
(* The rest of the device.                                                 *)

\* app_main(): cache_purge_all(), whose result is ignored, then
\* data_fetcher_init() creates the tasks.
Boot ==
  /\ ~up
  /\ up' = TRUE
  /\ cache' \in {NoCache, cache}
  /\ pc' = Forget("gate")
  /\ UNCHANGED <<dnsReady, clockReady, force, firstRun, lapsed, lastDay, retries,
                 urlFor, keyFor, setting, shown, refreshing, timeVars,
                 owed, cause, scheduled, fired>>

\* esp_restart(), or power lost: flash keeps the settings and the cache.
Reboot ==
  /\ up
  /\ up' = FALSE /\ dnsReady' = FALSE /\ clockReady' = FALSE
  /\ pc' = Forget("off") /\ force' = Forget(FALSE)
  /\ firstRun' = Forget(TRUE) /\ lapsed' = Forget(FALSE)
  /\ lastDay' = Forget(-1) /\ retries' = Forget(0)
  /\ urlFor' = Forget(Nil) /\ keyFor' = Forget(Nil)
  /\ shown' = Forget(Nil) /\ refreshing' = FALSE
  /\ owed' = Forget(FALSE) /\ cause' = Forget("none")
  /\ scheduled' = Forget(0) /\ fired' = Forget(FALSE)
  /\ UNCHANGED <<setting, cache, timeVars>>

\* data_fetcher_notify_wifi_state(), in any order of the Wi-Fi states.
NotifyWifi ==
  /\ dnsReady' = ~dnsReady
  /\ UNCHANGED <<up, clockReady, taskVars, dataVars, timeVars, histVars>>

\* The main loop sees the first synchronised time.
NotifyTimeSync ==
  /\ up /\ ~clockReady
  /\ clockReady' = TRUE
  /\ UNCHANGED <<up, dnsReady, taskVars, dataVars, timeVars, histVars>>

\* on_weather_refresh(): the button disables itself, then main.c requests the
\* weather jobs; data_fetcher_request_now() ignores it before the init.
Refresh ==
  /\ ~refreshing /\ IntervalJobs # {}
  /\ refreshing' = TRUE
  /\ LET asked == IF up THEN IntervalJobs ELSE {} IN
       /\ force' = [j \in Jobs |-> force[j] \/ j \in asked]
       /\ owed' = [j \in Jobs |-> owed[j] \/ j \in asked]
  /\ UNCHANGED <<up, dnsReady, clockReady, pc, firstRun, lapsed, lastDay, retries,
                 urlFor, keyFor, setting, cache, shown, timeVars,
                 cause, scheduled, fired>>

\* settings_manager_save_location() and _save_price_zone(): nobody is told.
SaveSetting(s, v) ==
  /\ setting' = [setting EXCEPT ![s] = v]
  /\ UNCHANGED <<up, dnsReady, clockReady, taskVars, cache, shown, refreshing,
                 timeVars, owed, cause, scheduled, fired>>

\* cache_ttl_sec has passed since the data was stored.
Expire(j, v) ==
  /\ cache[j][v] # Nil
  /\ cache' = [cache EXCEPT ![j][v] = Nil]
  /\ UNCHANGED <<up, dnsReady, clockReady, taskVars, setting, shown, refreshing,
                 timeVars, owed, cause, scheduled, fired>>

\* interval_sec has passed since the last success.
Elapse(j) ==
  /\ j \in IntervalJobs /\ pc[j] # "off" /\ ~lapsed[j] /\ ~firstRun[j]
  /\ lapsed' = [lapsed EXCEPT ![j] = TRUE]
  /\ UNCHANGED <<up, dnsReady, clockReady, pc, force, firstRun, lastDay, retries,
                 urlFor, keyFor, dataVars, timeVars, histVars>>

\* A slot of the day lasts an hour at least and a task polls once a minute at
\* the slowest: no slot goes by a task that could leave its waiting loop.
Waiting(j) ==
  \/ GateOpen(j)
  \/ pc[j] = "sched" /\ (~dnsReady \/ force[j] \/ Due(j))
  \/ pc[j] = "pause"

NextSlot ==
  /\ DailyJobs # {} /\ \A j \in Jobs : ~Waiting(j)
  /\ \/ slot = "before" /\ slot' = "hour" /\ UNCHANGED <<day, scheduled>>
     \/ slot = "hour" /\ slot' = "after" /\ UNCHANGED <<day, scheduled>>
     \/ slot = "after" /\ day < MaxDay /\ slot' = "before" /\ day' = day + 1
        /\ scheduled' = Forget(0)
  /\ fired' = Forget(FALSE)
  /\ UNCHANGED <<up, dnsReady, clockReady, taskVars, dataVars, owed, cause>>

Device ==
  \/ Boot \/ Reboot \/ NotifyWifi \/ NotifyTimeSync \/ Refresh \/ NextSlot
  \/ \E s \in DOMAIN setting, v \in Values : SaveSetting(s, v)
  \/ \E j \in Jobs, v \in Values : Expire(j, v)
  \/ \E j \in Jobs : Elapse(j)

Next == Device \/ \E j \in Jobs : Task(j)

Spec == Init /\ [][Next]_vars

\* Tasks are scheduled and sleeps end; the device comes up and gets its clock;
\* time passes; a request that is tried again and again succeeds, and its data
\* is shown, some time.
Fairness ==
  /\ WF_vars(Boot) /\ WF_vars(NotifyTimeSync)
  /\ \A j \in Jobs :
       WF_vars(Task(j)) /\ WF_vars(Elapse(j)) /\ SF_vars(PerformOk(j))

FairSpec == Spec /\ Fairness

-----------------------------------------------------------------------------
(* Properties.                                                             *)

\* Type correctness; a window makes at most MaxRetries + 1 failed attempts.
TypeOK ==
  /\ up \in BOOLEAN /\ dnsReady \in BOOLEAN /\ clockReady \in BOOLEAN
  /\ pc \in [Jobs -> PCs]
  /\ force \in [Jobs -> BOOLEAN] /\ firstRun \in [Jobs -> BOOLEAN]
  /\ lapsed \in [Jobs -> BOOLEAN]
  /\ lastDay \in [Jobs -> -1 .. MaxDay]
  /\ retries \in [Jobs -> 0 .. MaxRetries + 1]
  /\ urlFor \in [Jobs -> Values \cup {Nil}] /\ keyFor \in [Jobs -> Values \cup {Nil}]
  /\ setting \in [{SettingOf(j) : j \in Jobs} -> Values]
  /\ cache \in [Jobs -> [Values -> Values \cup {Nil}]]
  /\ shown \in [Jobs -> Values \cup {Nil}]
  /\ refreshing \in BOOLEAN
  /\ day \in 0 .. MaxDay /\ slot \in Slots
  /\ owed \in [Jobs -> BOOLEAN]
  /\ cause \in [Jobs -> {"none", "startup", "forced", "scheduled"}]
  /\ scheduled \in [Jobs -> 0 .. 2] /\ fired \in [Jobs -> BOOLEAN]

\* "Both must be true before any TLS connection" (data_fetcher.c): no attempt
\* of a fetch, be it scheduled, requested, retried or made at startup, starts
\* without DNS or without a synchronised clock.
GatesBeforeTls ==
  [][\A j \in Jobs : pc[j] # "key" /\ pc'[j] = "key" => dnsReady /\ clockReady]_vars

\* "The fetch task will wake": a request for a job, whenever it comes, is
\* pending until a window that begins after it makes an attempt or meets the
\* loss of DNS; a window already running never swallows it.
RequestPending ==
  \A j \in Jobs : owed[j] => force[j] \/ pc[j] = "fetch"

\* A DAILY job does not repeat its scheduled fetch on the same day, however
\* often the gates close and open again within the hour.
OneScheduledPerDay ==
  \A j \in DailyJobs : scheduled[j] <= 1

\* What is cached under the key of a zone was fetched for that zone, although
\* the zone may be saved at any point of the fetch.  (Not so for the city of
\* the weather jobs, which is read twice.)
CacheMatchesKey ==
  \A j \in DailyJobs, v \in Values : cache[j][v] \in {Nil, v}

\* Once the settings, DNS and the device are left alone, an INTERVAL job comes
\* to show the data of the current setting, whatever failed before; no request
\* has to be made for it.
SettlesDown ==
  <>[]up /\ <>[]dnsReady /\ <>[][UNCHANGED setting]_setting

EventuallyCurrent ==
  SettlesDown => \A j \in IntervalJobs : <>[](shown[j] = Live(j))

\* Given DNS in the end, the refresh button does not stay disabled for ever,
\* also when the request came too early, failed or could not be shown.
RefreshEnds ==
  <>[]dnsReady => (refreshing ~> ~refreshing)

\* "DAILY jobs fire once per calendar day at the configured local hour"
\* (data_fetcher.c:23): when the hour is over, a job that is waiting on its
\* schedule with its gates open has fetched in it.
DailyFires ==
  [][slot = "hour" /\ slot' = "after" =>
       \A j \in DailyJobs :
         pc[j] = "sched" /\ dnsReady /\ clockReady => fired[j]]_vars
=============================================================================
