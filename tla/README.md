# Verification of the esp32-client firmware

TLA+ models of the firmware in this repository, their TLC runs, and theorems
checked by TLAPS.  All paths below are relative to `src/`; `components/` is left
out where the component is named.

## 1. Inventory

The firmware shows weather and electricity prices on an ESP32-S3 panel.  It is a
set of FreeRTOS tasks (one per fetch job, one HTTP worker, the event task of the
Wi-Fi driver, the FreeRTOS timer task, the LVGL task, the HTTP server task, the
sensor task, `app_main`) that share globals, mostly without locks, and call each
other through callbacks registered in `main/main.c`.

| component | state it keeps | operations | interactions | what is hard | what makes it correct |
|---|---|---|---|---|---|
| **http_client** | queue of WorkItems, one worker, per-item semaphore, TLS handle | `http_client_perform` (blocking), init, deinit | called by every fetch task; owns the only TLS context | lifetime of an item shared by caller and worker; failures half way; a full queue | answers are not mixed, nothing is freed early or leaked, at most one TLS context, every call returns |
| **data_fetcher** | per job: `force_now`, `first_run`, `last_fetch_ms`, `last_trigger_day`; global DNS and clock gates | `fetch_task`, `request_now`, `notify_wifi_state`, `notify_time_sync` | reads settings through `build_url`; calls http_client and cache; `on_cached` takes the LVGL lock | requests against running windows, gates that close at any time, retries, calendar days, settings saved in between | no request is swallowed, no TLS attempt without its gates, once a day, cache keys match their data, the display converges, the refresh button comes back |
| **wifi_manager** | `g_current_state`, `g_retry_count`, retry and stabilisation timers, `g_ap_netif` | event handler, two timer callbacks, start, stop, reconnect, change_network, set_ap_enabled, scan | every state goes to `on_wifi_state` in main.c: DNS gate, SNTP, loc_server | four tasks run `set_state()` without a lock; timers expire while they are stopped | a disconnected link has its retry pending, fatal failures stop, online means connected, the backoff is bounded |
| **settings_manager** | city, zone, timeouts, list of 5 networks, flags; NVS | `save_*`, `get_*`, `remove_wifi`, init | written by LVGL and httpd, read by fetch tasks | most-recently-used list at its limit, truncated names, live buffers, refused writes and reads | list without duplicates, newest first, the same in NVS unless NVS refused |
| **loc_server** | `g_ws_fd`, `g_server`, reboot timer | handshake, frames, socket close, start, stop, pushes from other tasks, delayed reboot | saves settings, starts scans, changes networks, takes the LVGL lock; stopped by LVGL with that lock held | descriptor copied under the mutex and used after it; evictions, stops and starts that overlap | no descriptor outlives its session, no page stays open and silently dead, a stop returns |
| **screen_timeout, screensaver** | stage, last activity, configuration, overlays, one-shot timer of the backlight | 1 s timer, `record_activity`, `set_config` | touch callback of display, dropdown of ui.c | 32-bit tick that wraps; backlight-on timer against the next stage; new settings on a dark screen; a refused write of the backlight | the panel shows its stage, an idle screen turns dark, "never" means never |
| **display** | LVGL lock, touch state | flush, touch read, backlight | screen_timeout | a touch is read many times | the touch that wakes is no press |
| **bme280_sensor** | `g_ctx`: `initialised`, `mutex`, `task_handle`, `task_stop_req`; sampling task | init, deinit, read | main.c detects it, starts, stops it and shows its samples | forced deletion of a task that may hold the mutex; failed starts; a reading without a lock | the task keeps its context, the labels settle, the state follows the sensor |
| **time_manager** | SNTP started, first sync | start on DNS, `wait_for_sync` | `clock_ready` of data_fetcher | synchronisation against loss of DNS | the clock gate opens once, and only with a time |
| **cache_fs** | file backend of the cache | open, read, write, list | cache (submodule), fs | writes that are not atomic | a torn file is not served |
| **ui, ui_binder, wifi_popup** | trigger registrations, refresh buttons, scan spinner, connect panel | setters and events | LVGL lock with time limits | updates lost when the lock is not had in time | buttons and spinners come back |
| **main** | callbacks, hot-plug state, `g_bme_reading` | `app_main`, main loop | wires everything | order of the start | see the components it wires |
| **console_cli** | little | commands of a serial console | reads the last sample of bme280_sensor; its tests call the setters of screen_timeout and of the backlight | calls them from a task of its own | (for development; not modelled) |
| **ws7b_board** | registers of panel, touch and IO expander | backlight, touch recovery | display | writes that fail unheard; a bus reset that clears the expander's outputs | see screen_timeout |
| clock, fs | little or none | I/O | | | |
| bingus-lib | (submodule, not in this repository) | cache, smw | | | seen only through its callers |
| `*_linux*.c`, simulator | stubs for the desktop build | | | | |

`PROJECT.json` lists every component with its status and every hazard at its line.

## 2. Plan

Done, most important first:

1. `SerialHttp`, `HttpClient` and its proofs: every network access goes through it.
2. `DataFetcher` and its proofs: what the user sees depends on it; it composes the job tasks with
   the callbacks of main.c, the settings and the cache.
3. `WifiManager` and its proofs: the state machine that drives the gates of the fetcher,
   with stop.
4. `LocServer` and its proofs: the slot of the browser, composed with the scan of wifi_manager (its
   two requesters are the page and the popup) and the LVGL lock.
5. `SavedNetworks`, `SettingsManager` and its proofs: the most-recently-used list as specification, the
   shifting array with NVS as its implementation, restarts and refused writes between.
6. `ScreenTimeout` and its proofs: stages over a tick that wraps.
7. `Bme280Sensor` and its proofs: sampling task, main loop and hot-plug.

Left:

* `TimeManager` and `NetStack`: SNTP, and WifiManager, TimeManager and DataFetcher composed
  through `on_wifi_state`.  Today DataFetcher takes the states of the link in any order.
* `CacheFs`: the file backend, with a power failure in the middle of a write.
* `WifiPopup`: its scan spinner and connect panel, on top of the scan in LocServer.
* The soft AP, as a module of its own.

## 3. The modules

**`SerialHttp`** states what `http_client.h` promises to a caller: overlapping calls
are served one at a time, and each is answered once with the response to its own
URL or a failure.  No order of service is promised.

**`HttpClient`** is `http_client_esp.c`.  A caller has one WorkItem at a time, so items
are named by their callers.  `queue`, `wpc`/`cur` are `g_req_queue` and the position of
`http_worker_task`/`execute_work_item`; `pc[c]` is the position of caller `c` in
`http_client_perform`; `sem`, `result`, `out` are `done_sem`, `err`/`resp` and what the
call returned.  `heap[c]` holds the objects allocated for a call: the item, the body
collected by `on_http_event` and the response struct; `tls` the clients not yet
cleaned up.  One action per step between which another task can run: `Enter`,
`work_item_create`, `Enqueue` (blocking on a full queue), `Collect`, `Release` for the
caller (`Release` is the end of `do_fetch`, which owns the body of a successful
response), `Receive`, `Open`/`OpenFails`, `Perform`, `FinishOk`/`FinishFailed`, `Give` for
the worker.  Out-of-memory paths are `CreateFails` and `FinishFailed` with a good
answer.  A response is abstracted to the URL it came from.

**`DataFetcher`** is `data_fetcher.c` with the callbacks of main.c.  `pc[j]` is the
position of `fetch_task` of job `j`: at the gate (`wait_for_ready`), on its schedule
(`schedule_loop`), or in a window (`do_fetch_now`): resolving the URL, then the key,
performing, backing off, pausing.  `force`, `firstRun`, `lastDay` and `retries` are the
fields of FetchJob; `lapsed` says that `interval_sec` has passed since
`last_fetch_ms`.  Fetched data is represented by the value of the setting its URL
was built from, so that "the wrong city" is visible.  The rest of the device is
one action per event: `Boot` (with `cache_purge_all`, which may fail), `Reboot`,
`NotifyWifi` (in any order), `NotifyTimeSync`, `Refresh` (the button of the weather
tab with `data_fetcher_request_now`), `SaveSetting`, `Expire` (a cache TTL), `Elapse`,
`NextSlot` (the calendar).  `PerformUnseen` is the fetch whose result cannot be stored
or shown, because `cache_put` failed or the LVGL lock was not had in the 1000 ms that
`on_data_cached` waits for it.
The variables after `owed` are history, read by properties only.

**`WifiManager`** is the link part of `wifi_manager_esp.c`.  The driver (external) has a
`link` and posts `events`; the event task, the timer task, `app_main` and the API
callers are threads, each of which runs `set_state()` as the separate steps the C
code has: the test (`Test`), the assignment (`Write`), the callback (`Call`), and what the
caller does afterwards (`AfterConnect`, `AfterRetry`, `AfterStable`).  Either timer may expire
whatever the other does: `stable_timer_cb` may start its timer again after a disconnection
has started the retry timer.  It asks for the DNS server once: it is there (`StableOk`), not
yet (`StableEmpty`, which starts the timer again), or cannot be read (`StableFails`, which does
not).  Handlers begin
with what the code does before `set_state()` (stopping timers, resetting the count).
`gate` is what main.c's callback last told data_fetcher.  `wifi_manager_stop` may come at
any point: it deletes the timers and leaves the handlers registered, so that an event
that is still queued, or a thread that it overtakes, gives a timer function NULL
(`HandleStopped`, `AfterStop`, `StableStopped`).  FreeRTOS asserts there, and restarts the
device (`Panic`).  So does a second stop (`StopAgain`), and a start after a stop
(`StartAgain`: `on_wifi_connect` of main.c makes it when `wifi_manager_change_network` refuses),
which makes the default network interface while the first one exists.  `xTaskCreate` with a NULL function in `schedule_retry` is left
out: the creation fails for want of a stack and its result is ignored.  `Backoff` is the loop
of `get_backoff_delay_ms`, one turn of it is `Double`; it is a recursive function, so that
what bounds it can be proved.

**`LocServer`** is `loc_server.c` with its callers.  Three threads push to the page: `httpd`
(handlers), `lvgl` (the panel) and `event` (states of the link, results of scans).  A push
is `Copy` (descriptor under `g_ws_mutex`), `SendOk`/`SendFails` (without it) and, in
`loc_server_push_settings` only, `Drop`.  `slot` is `g_ws_fd`, `server` is `g_server`;
`sessions` and `toClose` are the open sessions and the queued closes of esp_http_server
(external), which gives a closed descriptor out again.  `Handshake`, `Evict`, `RunClose`,
`PeerCloses` and `HttpdExit` are the httpd task, `Launch`, `Stopped`, `Unset`, `Forget` the
start and the stop of the server; `lock` is the LVGL lock, which the panel holds while it
waits for `httpd_stop`.  `ScanTest`, `ScanStart`, `ScanStore`, `ScanEnds`, `ScanDone` are
`wifi_manager_scan` and `deliver_scan_results`, with the callback (`cb`) and the flag (`active`)
stored after the radio has begun; a scan may end before they are (`early` records it).
A browser that leaves is a closed socket: esp_http_server
gives close frames to a handler only if its URI asks for control frames, which `URI_WS` does
not, so the branch of the code that handles them is never taken.

**`SavedNetworks`** states what the list of networks promises: newest first, each once, no
more than the limit, and after a restart a list that was current before, or none of it when
the flash was erased or not read.
**`SettingsManager`** is `settings_manager_esp.c`: `slots` and `count` are `g_wifi_list` and
`g_wifi_count`, `nvsSlots` the blob in NVS, `ram` and `nvs` the other settings.  A save is two
steps, the change in RAM (`MoveToFront`/`Insert`, `remove_wifi`, `save_value`) and the write
(`WriteList`, `WriteValue`, or `WriteRefused`), between which the other task or a `Restart` may
come.  Some keys are written from the buffer and some from the argument of the call
(`BufferKeys`, `ArgumentKeys`): it makes a difference when two tasks save at once.  A
name too long for its field is stored as `Cut[n]` and is not found again; `Kept` and `Reread`
say what RAM and the next boot make of other values that do not fit (a long city, an index
cast to `uint8_t`).  `Restart` is `settings_manager_init`: NVS may be erased first, and any part
of it may be unreadable, which leaves the default (an empty list) in RAM and the old value in
NVS; `lost` records what NVS refused at the last write or at this boot.

**`ScreenTimeout`** is `screen_timeout.c` with the timeout dropdown of `ui.c` and the touch
callback of `display_esp.c`.  All run under the LVGL lock, so each callback is one step:
`timeout_timer_cb`, `backlight_on_cb`, `TouchRead` (with `record_activity`), `ChooseTimeout`
(`screen_timeout_set_config`).  Time passes in seconds (`Second`) on a tick that wraps at `W`,
and goes on past the wrap.  `Backlight` is `display_set_backlight`, whose write may be refused
without anyone hearing of it; `ReadFails` is the failed touch read with the bus reset of
`ws7b_board_recover_touch`, after which the expander's outputs (`outputs`: LCD_BL and TP_RST) may
be low.  `astray` is history: the light is not what was last asked for, or the tick came
round on a dark screen.

**`Bme280Sensor`** is the sampling task and the sensor part of the main loop:
`g_ctx` is `initialised`, `mutex`, `handle`, `stopReq`; a reading is two fields that a
copy may catch at different samples.  `StopTimesOut` deletes the task by force wherever it
is, be it with the mutex in its hands or between the halves of a sample (`torn` records
that); the test of the handle and the deletion are one step.  `InitFails` and `StartFails` are the starts that end half way.

The `MC*` modules only define the small sets the `.cfg` files use.  Operators with a
suffix (`Collect_NoWait`, `Succeed_KeepsDay`, ...) are plausible bugs: no
specification uses them, and with one of them in place of the action it is named
after, the property `PROJECT.json` pairs it with is violated.

## 4. The runs

Passing runs:

* **http** (`HttpClient.cfg`; three callers, two URLs, queue of one): no caller gets
  another's response (`OwnResponse`), the worker never touches a freed item
  (`ItemAlive`), nothing is left after any failure path (`NothingLeaked`), at most one
  TLS context (`OneTlsContext`), the implementation refines `SerialHttp`, `IInv` is the
  inductive invariant the proofs use, and every call returns (`EveryCallReturns`).
  Depth one with three callers gives: one item in the worker's hands, one queued,
  one caller blocked on the full queue.  A longer queue adds no new situation, and
  the theorems hold for every depth.
* **fetch_interval** (`DataFetcherInterval.cfg`; one weather job, two cities, one retry):
  `RequestPending`: a forced fetch is pending until an attempt is made or DNS is gone (the
  window then gives up what it owed), whatever window it races with; `GatesBeforeTls`; under fairness `EventuallyCurrent` (the display
  converges to the configured city) and `RefreshEnds`.  Two cities are enough to
  tell a stale value from a current one, one retry to have both a retry and its limit.
* **fetch_daily** (`DataFetcherDaily.cfg`; the price job, two zones, three days of three
  slots): one scheduled fetch a day however the gates move, and the cache key of a
  zone matches its data, since the zone is read once and its name is a literal.  Three days show
  a day that follows a successful and a failed one.
* **wifi_safety** (`WifiManager.cfg`; two API callers, two calls and any number of restarts,
  one loss, every reason of failure, DNS tables that cannot be read, two retries): when all is quiet a DISCONNECTED link has its retry timer
  running, a fatal failure has none, the delay stays between base and cap.  Base 500
  and cap 900 make the cap bite at the first doubling.
* **wifi_live** (`WifiManagerLive.cfg`; no API calls, transient failures, two losses, DNS tables
  that can be read): the manager comes to rest online on a live link, or in FAILED when no
  saved network was in range at boot; it never rests in CONNECTING with an idle driver.
  That data_fetcher has been told so is not part of `Recovers`: see the disagreements.

* **web** (`LocServer.cfg`; two descriptors): the slot never names a session that is gone
  (`SlotOpen`); two pages do not stay open with one of them dead, but for the two cases
  the code leaves, which `orphans` records (`OneBrowser`); a raised scan flag comes down,
  but for a scan that ended before its flag was raised (`ScanFlagTrue`); a stop from the panel returns although it holds the LVGL lock that a
  handler may want (`StopReturns`).  Two descriptors suffice for a browser, its successor
  and a third one that gets the descriptor of the first.
* **settings** (`SettingsManager.cfg`; two tasks, two slots, three names, one of them cut, two
  passwords, two values, one of which an index loses at the next boot; symmetric in tasks,
  whole names and passwords): the array implements `SavedNetworks`; slots in use come first, in RAM and in NVS (`Packed`);
  no network twice (`SavedOnce`); what was written without a refusal, and read at this boot, is
  the same in NVS and RAM (`SurvivesReboot`).  Three names on two slots push one out; one more slot adds longer
  shifts only.
* **screen** (`ScreenTimeout.cfg`; timeouts of 4 and 8 seconds and never, every start of a tick
  that wraps at 11): overlays and backlight agree with the stage, "never" keeps the screen
  active, and a screen left alone turns dark and stays so (`TurnsDark`), both except for a light
  that is `astray`.  The thresholds are 2, 3, 4 and 4, 6, 8: all differ, and an idle time of 10
  passes the largest before the tick comes round.
* **sensor** (`Bme280Sensor.cfg`): the task has its mutex and can be found as long as it lives
  (`TaskHasContext`), the labels settle on the last whole sample (`ShownSettles`), and a sensor that
  stays is sampled, one that has gone let go (`FollowsSensor`).

Runs that show a disagreement between the code and what its comments say:

* **fetch_daily_fires**: a successful startup fetch in the morning sets
  `last_trigger_day`, so that the fetch of `daily_hour`, when the new prices are out,
  does not happen that day.
* **wifi_cut**: `stable_timer_cb` tests the state and sets it later; a disconnection
  handled in between is overwritten, and the DNS gate opens on a dead link.
* **screen_touch**: `lvgl_touch_cb` hides only the read that wakes the screen; the next one,
  33 ms later, reports the same touch as a press, against `screen_timeout.h:55`.

Disagreements seen while reading the code, without a run of their own:

* `build_weather_min_url` (main.c:268) reads the live city twice; a city saved in between
  files one city's data under the other's key (`data_fetcher.h:75`).
* `cache_purge_all` in `app_main` makes every reboot fetch again (`data_fetcher.c:9`).
* NO_AP_FOUND from a router that is still booting stops the retries for good
  (`wifi_manager.h:71`).
* A stabilisation timer that was started again after a disconnection had been handled may
  expire between the event task's write of CONNECTED and its callback: the manager goes
  online, the callback of CONNECTED comes last and closes the DNS gate, and the restarted
  timer finds nothing to do.  The fetcher then waits although the link is up, until the next
  loss (wifi_manager_esp.c:58, 96 to 126).
* The disconnection that `wifi_manager_stop` causes is handled with deleted timers, and a start
  after a stop (main.c:130) makes the network interface twice: either restarts the device.
* A scan that is aborted before `wifi_manager_scan` has stored its flag leaves the flag up:
  every later scan is refused until a restart (wifi_manager_esp.c:507).
* An AP enabled before the start never goes on the air (wifi_manager_esp.c:541).
* A location, zone, timeout or flag saved by two tasks at once may survive a reboot with the
  value that lost in RAM (settings_manager_esp.c:35).
* After a boot that cannot read NVS the list is empty although NVS has one, and the next save
  overwrites it (settings_manager_esp.c:78, 84), against "survives reboots" in README.md.
* The example in `screen_timeout.h:41` raises a screensaver time of 250 to the dim time of
  300; the code lowers the dim time to 250.
* A screen left alone for the 49.7 days of the tick falls back to the active stage with its
  backlight off, and the touch after that does not light it; a backlight write that is refused
  (display_esp.c:214) is not tried again.

Bounds.  `MaxRetries`, `QueueDepth`, `BaseRetry`, `MaxRetry`, `Limit`, `Totals` and `W` are the
program's own parameters at small values.  `MaxDay` bounds the calendar, `MaxLosses` and `MaxOps`
the lost links and API calls of the wifi runs, `MaxDone` the scan results not yet handled;
these limits are guards of the environment's actions and never stop
the program's own.  `ScreenTimeout` and `Bme280Sensor` need none.  The wifi runs set CHECK_DEADLOCK FALSE because a
manager in FAILED, or online with no loss left, really has nothing to do until the
user or the radio acts.

Fairness.  `HttpClient`: the worker and the callers are FreeRTOS tasks that are not
starved for ever; `esp_http_client_perform` ends by `timeout_ms`; a task blocked in
`xQueueSend` is woken when room appears but may lose the slot, so strong fairness.
`DataFetcher`: tasks run and sleeps end (weak); strong fairness of `PerformOk` says that a
request tried again and again succeeds and its result is displayed some time.
`WifiManager`: threads and timers run (weak); an attempt repeated for ever succeeds
and DNS is assigned some time (strong).  `LocServer`: the LVGL task runs, and the server task
runs while that one waits for it (weak), nothing is asked of the event task, and the
httpd task's wait for the LVGL lock ends after 100 ms because the code passes that limit.
`ScreenTimeout`: LVGL runs each of its timers (weak, one condition per timer), and what a
touch read finds is open; that nobody touches the screen is the premise of `TurnsDark`.  `Bme280Sensor`: both tasks run (weak), an initialisation tried every
second succeeds some time (strong).  Nothing is assumed about users, browsers, about the
gates (the liveness properties state what they need of them) or about reboots.

## 5. The proofs

`HttpClientProofs` and `HttpClientRefinement` prove about `HttpClient`, for every set of
callers, every set of URLs and every queue depth:

* `Inductive`: `IInv` is invariant.  From it `TypeCorrect` (with the bound of the queue),
  `AtMostOneTlsContext`, `ResponsesNotMixed`, `NoUseAfterFree`, `NoLeak`.
* `Refinement`: the specification implements `SerialHttp`.

Assumptions: `ConstantsOK` only (a positive depth, and failure and "no URL" differ from
each other and from URLs).

The properties are not inductive.  That the worker does not touch a freed item
follows from its caller still waiting for the semaphore, and that needs to know that
an item is in at most one place: queued, held by the worker or given back
(`ItemInOnePlace`).  That a response belongs to its URL needs the contents of the item
meanwhile, and that at most one TLS context exists needs to know whose it is
(`ItemContents`).  That nothing leaks needs to know which objects exist at each step,
in particular that a failed answer owns none, since `do_fetch` frees the body of a
successful answer only (`HeapExact`).  `IInv` is `TypeOK` and these three.
`InitIInv` and `NextIInv` are the two halves of the induction, one step per action and
below it one per conjunct.  `InitMaps` and `NextMaps` do the same for the refinement: `Receive`
and `Give` are the steps `Serve` and `Finish` of the promise; entering, refusal and return map to
their counterparts; all the rest is invisible.

`ScreenTimeoutProofs` proves about `ScreenTimeout`, for every set of timeouts and every width of
the tick above them:

* `NormalizeOrders`: whatever configuration is asked for, the stages come out in order, and
  none is added or dropped.
* `Inductive`, and from it `TypeCorrect`, `PanelShowsStage` and `NeverMeansNever`.

Assumptions: `ConstantsOK` (timeouts are natural numbers below `W`).  `ScreenShowsStage` is
not inductive: the timer callback could take a dim screen back to "active" and leave its
overlay, or turn the backlight off while the one-shot timer that lights it is pending.
`StageCurrent` (once the timer has looked at a second, the stage is the one the thresholds ask
for; until then it is one they have asked for, or the tick has come round on a dark screen)
excludes the first, and `WakingNow` (the one-shot timer belongs to the second of the last
touch) the second.  `SecondElapses` is the arithmetic of the wrap, `BacklightObeys` and
`BacklightKeeps` what a write that may be refused leaves.

`DataFetcherProofs`, for any jobs, settings, retries and days: `TypeCorrect`, `RequestsKept`,
`ScheduledOnce`, `ZoneKeysMatch` and the action property `GatesFirst`.  Assumptions: `ConstantsOK` (a
job is of one kind, "no data" is no value of a setting).  `RequestPending` is inductive
alone but for the boot, which needs `NoTasksYet`.  The others need to know about a window that is
under way: `ClockFirst` (past its gate a job has a clock; DNS is tested again by each
attempt), `Fetched` (what URL and key were built from), `AttemptsLeft`, and for the
daily job `SettledToday`: a scheduled success is today's and the only one, and a scheduled
window in progress has none before it, because `DailyDue` looked at `lastDay`.  There is one
lemma per action.

`WifiManagerProofs`, for any number of callers, losses and calls: `DisconnectedRetries` and
`FatalStops`.  `RetryPending` speaks of rest only, so the invariant says what holds between:
DISCONNECTED is set by the event task alone, which then starts the timer
(`DisconnectRetries`), and whoever stops the timer is on the way to another state
(`RetryOrMoving`).  Assumption: `ConstantsOK` (the callers are not the tasks of the system).

* `TypeCorrect` and `DelaysCapped`: the type of `delay` and its cap need to know what the loop of
  `get_backoff_delay_ms` computes.  `BackoffDefined` proves that the recursive function is well
  defined and `BackoffCapped` bounds it.  The library's induction theorems take an operator,
  so `SetInduction` derives induction over the members of a set from the well-foundedness
  of `<`; `Delays(n)` is the set of the tables of the first n + 1 delays, of which
  there is one.  `DelayCapped` is about configurations with `BaseRetry <= MaxRetry`; nothing in the
  code makes a caller choose such ones.
* `SingleAttempt` and `ConnectingMovesOn`, under the hypothesis that no task calls the API
  (`Callers = {}`), which is that of the property and of the run wifi_live, but for every
  reason of failure and any number of losses.  There is one attempt to connect and it
  is in one place (`OneAttempt`): at boot, with the driver, reported in the queue, with the event
  task, waiting for the retry timer, or with the timer task.  `InOrder` says what the queue may
  hold, `EventTaskRests` that the event task is at rest while the attempt is elsewhere, and
  `ConnectingAttempt` that CONNECTING is the state of that attempt or about to be overwritten.
  The hypothesis is needed: `wifi_manager_change_network` makes a second attempt beside the
  retry of the first.

`LocServerProofs`, for any number of sockets and waiting scan results: `TypeCorrect`,
`SlotNeverStale`, `OneLivePage`, `ScanFlagComesDown`.  `OneBrowser` speaks of the server between two
requests; `Accounted` adds the handshake that has taken the slot and not yet queued the
old browser's close, `StoredWhileScanning` the task that has begun a scan and not yet
stored the flag, whose scan goes on or has ended early.

`SettingsManagerProofs`, for lists of any size and any number of tasks: `TypeCorrect`,
`SlotsPacked`, `NetworksOnce`, `WrittenSurvives`.  The four invariants are inductive together: `Packed`
makes the count right after a restart (`PackedCount`), `SavedOnce` makes the search find
the one slot of a name (`IndexFound`), and `MoveKeeps`, `InsertKeeps`, `RemoveKeeps` say what the
loops that shift the array preserve.  `RestartIInv` is the boot, read or not: what it could not
read is in `lost`, and what is not in `lost` is the same in RAM and NVS.

`Refinement`: the array implements `SavedNetworks`, for every size, every set of names and every
truncation of them.  The list is the slots in use, in order (`ListEntries`, `FlashEntries`);
`WithoutOne`, `WithoutKnown` and `WithoutUnknown` say what leaving a name out of it means for the
array, `SaveMaps` and `ForgetMaps` take up the loops that shift it.  `InitMaps` and `NextMaps` are the two
halves; the writes to NVS are the step `Persist` of the list, a restart is `Restart` (`RestartMaps`: the
whole list or none of it), and
the other settings are invisible.

`Bme280SensorProofs`, which has no constants: `TypeCorrect`, `ContextOutlivesTask`, `LabelsSettle`.
`TaskHasContext` needs `FreedAlone` (when the context is freed, the task is gone: it has stopped or
was deleted).  `ShownSettles` needs `WholeReading` (only the writer sees the halves of a
reading differ, unless it was deleted between them) and `HalfShown` (the half that is shown already is the last one, unless a
sample is on its way, which raises the flag again).  TLC explores all of this module;
the proofs say on what the result rests.

The refinements (`HttpClientRefinement`, `SettingsManagerProofs`) prove initial states and
steps; the promises they implement state no fairness.

Only model-checked: the liveness properties `EveryCallReturns`, `EventuallyCurrent`, `RefreshEnds`,
`Recovers`, `StopReturns`, `TurnsDark` and `FollowsSensor`, because liveness under fairness is out
of this prover's reach.  Every invariant and every other action property of a passing run is
stated by a theorem.

## 6. What is not modelled

* http_client: `http_client_deinit` (nobody calls it), percent-encoding, the growth of
  the body buffer, header lists, the choice of certificates.
* data_fetcher: jobs with static URLs and transforms (the application has none),
  the lengths of sleeps and back-offs, failures of `data_fetcher_init`; `energy_plan`, an INTERVAL
  job that nobody requests or shows.
* wifi_manager: the soft AP, the gateway check (nothing creates its timer), what the driver does with a connect while connected.
* loc_server: static files and the text of messages; the end of a send to a server that is
  being freed (it may fail here, in truth anything may happen); the separate saves of
  one message.
* settings_manager: a switch of tasks in the middle of the loop that shifts the array; a failed
  read that leaves part of a value in the buffer (NVS is assumed to leave all or nothing).
* screen_timeout: negative timeouts, which no caller gives; where the screensaver bounces.
* bme280_sensor: FORCED mode (nobody selects it), `bme280_sensor_get_last` (called by the console
  only, console_cli.c:154), the compensation formulas,
  the mutex and the device handle that each failed initialisation leaks.
* main: the clock labels, the energy-plan demonstration.
* time_manager, cache_fs: only as data_fetcher sees them; wifi_popup: its calls and scans; see
  the plan.
* console_cli: a second caller, from its own task, of `screen_timeout_record_activity`,
  `screen_timeout_set_config`, the backlight and `bme280_sensor_get_last`, in commands made for
  development.  The modules have the application's callers only.
* ws7b_board: all but the backlight and the recovery of the touch bus.
* clock, fs: I/O with no state to get wrong in a way TLC would find; fonts, images, scripts, simulator stubs: generated or development code;
  bingus-lib: an external submodule.

About three quarters of the lines of C in the repository are image and font tables and the
layout code generated for the screens.  They have no behaviour, so the modules stand for
a small share of the lines although they cover most of the code that decides anything.
