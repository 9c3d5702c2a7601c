---------------------------- MODULE WifiManager ----------------------------
(***************************************************************************)
(* components/wifi_manager/wifi_manager_esp.c: the state machine of the     *)
(* station link.  It is driven, without a lock, by the event task (Wi-Fi    *)
(* and IP events, in order), the FreeRTOS timer task (retry and             *)
(* stabilisation timers), app_main, and the tasks that call the API (LVGL,  *)
(* httpd).  Every change of state is announced by the callback that main.c  *)
(* registers, which opens and closes the DNS gate of data_fetcher.          *)
(*                                                                         *)
(* The Wi-Fi driver is external: it keeps the link and posts events.        *)
(***************************************************************************)
EXTENDS Integers, Sequences

CONSTANTS
  Callers,                \* tasks that call the API after the start
  Reasons,                \* why attempts fail: "other", "no_ap", "auth"
  MaxRetries,             \* g_cfg.max_retries
  BaseRetry, MaxRetry,    \* g_cfg.base_retry_ms, max_retry_ms
  DnsErrors,              \* whether reading the DNS table may fail
  MaxLosses,              \* bound: links lost by the driver
  MaxOps                  \* bound: calls of the API after the start

Threads == {"event", "timer", "main"} \cup Callers

ASSUME ConstantsOK ==
  /\ Callers \cap {"event", "timer", "main"} = {}
  /\ Reasons \subseteq {"other", "no_ap", "auth"}
  /\ MaxRetries \in Nat \ {0} /\ BaseRetry \in Nat \ {0} /\ MaxRetry \in Nat \ {0}
  /\ MaxLosses \in Nat /\ MaxOps \in Nat

ASSUME DnsErrorsOK == DnsErrors \in BOOLEAN

VARIABLES
  initialized,   \* g_initialized
  timersLive,    \* the timers exist
  state,         \* g_current_state
  retryCount,    \* g_retry_count
  retry,         \* the retry timer runs
  delay,         \* its period
  stable,        \* the stabilisation timer runs
  started,       \* wifi_manager_start() has run
  link,          \* driver: "off", "idle", "trying" or "up"
  events,        \* driver: events not yet handled
  pc,            \* where each thread is
  arg,           \* arg[t]: the argument of t's set_state()
  then,          \* then[t]: what t does after set_state()
  gate,          \* what the callback last told data_fetcher: g_dns_ready
  \* History, read by properties only, and bounds:
  cut,           \* the last link event handled was a disconnection
  losses, ops

timers == <<retryCount, retry, delay, stable>>
thread == <<pc, arg, then>>
vars == <<initialized, timersLive, state, timers, started, link, events, thread,
          gate, cut, losses, ops>>

States == {"IDLE", "CONNECTING", "CONNECTED", "CONNECTED_WITH_DNS",
           "DISCONNECTED", "FAILED"}

Init ==
  /\ initialized = FALSE /\ started = FALSE /\ timersLive = FALSE
  /\ state = "IDLE"
  /\ retryCount = 0 /\ retry = FALSE /\ delay = BaseRetry /\ stable = FALSE
  /\ link = "off" /\ events = <<>>
  /\ pc = [t \in Threads |-> "idle"]
  /\ arg = [t \in Threads |-> "IDLE"]
  /\ then = [t \in Threads |-> "none"]
  /\ gate = FALSE /\ cut = FALSE /\ losses = 0 /\ ops = 0

\* An assertion of FreeRTOS or ESP-IDF fails (a timer function is given a NULL
\* timer, an interface is made twice) and the device restarts.
Panic ==
  /\ initialized' = FALSE /\ started' = FALSE /\ timersLive' = FALSE
  /\ state' = "IDLE"
  /\ retryCount' = 0 /\ retry' = FALSE /\ delay' = BaseRetry /\ stable' = FALSE
  /\ link' = "off" /\ events' = <<>>
  /\ pc' = [t \in Threads |-> "idle"]
  /\ arg' = [t \in Threads |-> "IDLE"]
  /\ then' = [t \in Threads |-> "none"]
  /\ gate' = FALSE /\ cut' = FALSE /\ UNCHANGED <<losses, ops>>

-----------------------------------------------------------------------------
(* The driver.                                                             *)

AttemptOk ==
  /\ link = "trying"
  /\ link' = "up" /\ events' = Append(events, "ip")
  /\ UNCHANGED <<initialized, timersLive, state, timers, started, thread, gate,
                 cut, losses, ops>>

AttemptFails(r) ==
  /\ link = "trying"
  /\ link' = "idle" /\ events' = Append(events, r)
  /\ UNCHANGED <<initialized, timersLive, state, timers, started, thread, gate,
                 cut, losses, ops>>

LinkLost ==
  /\ link = "up" /\ losses < MaxLosses
  /\ link' = "idle" /\ events' = Append(events, "other")
  /\ losses' = losses + 1
  /\ UNCHANGED <<initialized, timersLive, state, timers, started, thread, gate,
                 cut, ops>>

\* esp_wifi_connect(): refused (and the result ignored) unless the link is idle.
esp_wifi_connect ==
  link' = IF link = "idle" THEN "trying" ELSE link

\* The link is given up (to): a link that was up or being made is reported.
Leave(to) ==
  /\ link' = to
  /\ events' = IF link \in {"trying", "up"} THEN Append(events, "other") ELSE events

-----------------------------------------------------------------------------
(* set_state(), in the three steps between which other threads may run.     *)

Begin(t, s, k) ==
  /\ pc[t] = "idle"
  /\ pc' = [pc EXCEPT ![t] = "test"]
  /\ arg' = [arg EXCEPT ![t] = s]
  /\ then' = [then EXCEPT ![t] = k]

\* if (g_current_state != state)
Test(t) ==
  /\ pc[t] = "test"
  /\ pc' = [pc EXCEPT ![t] = IF state # arg[t] THEN "write" ELSE "after"]
  /\ UNCHANGED <<initialized, timersLive, state, timers, started, link, events,
                 arg, then, gate, cut, losses, ops>>

Write(t) ==
  /\ pc[t] = "write"
  /\ state' = arg[t]
  /\ pc' = [pc EXCEPT ![t] = "call"]
  /\ UNCHANGED <<initialized, timersLive, timers, started, link, events, arg, then,
                 gate, cut, losses, ops>>

\* on_wifi_state() of main.c, as far as data_fetcher is concerned.
Call(t) ==
  /\ pc[t] = "call"
  /\ gate' = (arg[t] = "CONNECTED_WITH_DNS")
  /\ pc' = [pc EXCEPT ![t] = "after"]
  /\ UNCHANGED <<initialized, timersLive, state, timers, started, link, events, arg,
                 then, cut, losses, ops>>

-----------------------------------------------------------------------------
(* What follows a set_state().                                             *)

\* Bugs that the code avoids: used by no specification, each stands for the
\* definition of the same name.
Backoff_NoCap(n) == BaseRetry * 2^n

\* One turn of its loop: the delay is doubled, up to the cap.
Double(d) == IF 2 * d >= MaxRetry THEN MaxRetry ELSE 2 * d

Backoff[n \in Nat] == IF n = 0 THEN BaseRetry ELSE Double(Backoff[n - 1])

get_backoff_delay_ms(n) == Backoff[n]

schedule_retry_GivesUp ==
  IF retryCount >= MaxRetries THEN UNCHANGED <<retryCount, delay, retry>>
  ELSE /\ delay' = get_backoff_delay_ms(retryCount)
       /\ retryCount' = retryCount + 1
       /\ retry' = TRUE

schedule_retry_NoReset ==
  /\ delay' = get_backoff_delay_ms(retryCount)
  /\ retryCount' = retryCount + 1
  /\ retry' = TRUE

schedule_retry ==
  LET n == IF retryCount >= MaxRetries THEN 0 ELSE retryCount IN
    /\ delay' = get_backoff_delay_ms(n)
    /\ retryCount' = n + 1
    /\ retry' = TRUE

Return(t) ==
  /\ pc[t] = "after"
  /\ pc' = [pc EXCEPT ![t] = "idle"]
  /\ UNCHANGED <<initialized, timersLive, state, started, events, arg, then, gate,
                 cut, losses, ops>>

AfterNothing(t) ==
  /\ then[t] = "none" /\ Return(t)
  /\ UNCHANGED <<timers, link>>

AfterConnect(t) ==
  /\ then[t] = "connect" /\ Return(t)
  /\ esp_wifi_connect
  /\ UNCHANGED <<timers>>

AfterRetry(t) ==
  /\ then[t] = "retry" /\ Return(t) /\ timersLive
  /\ schedule_retry
  /\ UNCHANGED <<stable, link>>

AfterStable(t) ==
  /\ then[t] = "stable" /\ Return(t) /\ timersLive
  /\ stable' = TRUE
  /\ UNCHANGED <<retryCount, retry, delay, link>>

\* The handler was overtaken by wifi_manager_stop().
AfterStop(t) ==
  /\ pc[t] = "after" /\ then[t] \in {"retry", "stable"} /\ ~timersLive
  /\ Panic

-----------------------------------------------------------------------------
(* The event task: wifi_event_handler().                                   *)

HandleFatal_KeepsRetry ==
  /\ events # <<>> /\ Head(events) \in {"no_ap", "auth"} /\ timersLive
  /\ Begin("event", "FAILED", "none")
  /\ events' = Tail(events) /\ cut' = TRUE
  /\ stable' = FALSE /\ retryCount' = 0
  /\ UNCHANGED <<initialized, timersLive, state, retry, delay, started, link,
                 gate, losses, ops>>

HandleGotIp ==
  /\ events # <<>> /\ Head(events) = "ip" /\ timersLive
  /\ Begin("event", "CONNECTED", "stable")
  /\ events' = Tail(events) /\ cut' = FALSE
  /\ retry' = FALSE /\ retryCount' = 0
  /\ UNCHANGED <<initialized, timersLive, state, delay, stable, started, link,
                 gate, losses, ops>>

\* A disconnection for any reason but the unrecoverable ones.
HandleLost ==
  /\ events # <<>> /\ Head(events) = "other" /\ timersLive
  /\ Begin("event", "DISCONNECTED", "retry")
  /\ events' = Tail(events) /\ cut' = TRUE
  /\ stable' = FALSE
  /\ UNCHANGED <<initialized, timersLive, state, retry, retryCount, delay, started,
                 link, gate, losses, ops>>

\* NO_AP_FOUND, or is_auth_failure().
HandleFatal ==
  /\ events # <<>> /\ Head(events) \in {"no_ap", "auth"} /\ timersLive
  /\ Begin("event", "FAILED", "none")
  /\ events' = Tail(events) /\ cut' = TRUE
  /\ stable' = FALSE /\ retry' = FALSE /\ retryCount' = 0
  /\ UNCHANGED <<initialized, timersLive, state, delay, started, link, gate,
                 losses, ops>>

\* After wifi_manager_stop() the handler is still registered, and stops a NULL
\* timer whatever the event.
HandleStopped ==
  /\ events # <<>> /\ ~timersLive /\ pc["event"] = "idle"
  /\ Panic

-----------------------------------------------------------------------------
(* The timer task.                                                         *)

RetryExpires_NoConnect ==
  /\ retry /\ retry' = FALSE
  /\ Begin("timer", "CONNECTING", "none")
  /\ UNCHANGED <<initialized, timersLive, state, retryCount, delay, stable, started,
                 link, events, gate, cut, losses, ops>>

StableEmpty_NoRestart ==
  /\ pc["timer"] = "dns"
  /\ pc' = [pc EXCEPT !["timer"] = "idle"]
  /\ UNCHANGED <<initialized, timersLive, state, timers, started, link, events, arg,
                 then, gate, cut, losses, ops>>

\* retry_timer_cb().  The stabilisation timer may run as well: StableEmpty may start
\* it again after a disconnection has been handled.
RetryExpires ==
  /\ retry /\ retry' = FALSE
  /\ Begin("timer", "CONNECTING", "connect")
  /\ UNCHANGED <<initialized, timersLive, state, retryCount, delay, stable, started,
                 link, events, gate, cut, losses, ops>>

\* stable_timer_cb() up to its early return.
StableExpires ==
  /\ stable /\ stable' = FALSE
  /\ pc["timer"] = "idle"
  /\ pc' = [pc EXCEPT !["timer"] = IF state = "CONNECTED" THEN "dns" ELSE "idle"]
  /\ UNCHANGED <<initialized, timersLive, state, retry, retryCount, delay, started,
                 link, events, arg, then, gate, cut, losses, ops>>

\* The main DNS server is known ...
StableOk ==
  /\ pc["timer"] = "dns" /\ timersLive
  /\ pc' = [pc EXCEPT !["timer"] = "test"]
  /\ arg' = [arg EXCEPT !["timer"] = "CONNECTED_WITH_DNS"]
  /\ then' = [then EXCEPT !["timer"] = "none"]
  /\ UNCHANGED <<initialized, timersLive, state, timers, started, link, events,
                 gate, cut, losses, ops>>

\* ... or not yet: the timer is started again.
StableEmpty ==
  /\ pc["timer"] = "dns" /\ timersLive
  /\ stable' = TRUE
  /\ pc' = [pc EXCEPT !["timer"] = "idle"]
  /\ UNCHANGED <<initialized, timersLive, state, retry, retryCount, delay, started,
                 link, events, arg, then, gate, cut, losses, ops>>

\* ... or the table cannot be read, and the timer is not started again.
StableFails ==
  /\ DnsErrors /\ pc["timer"] = "dns" /\ timersLive
  /\ pc' = [pc EXCEPT !["timer"] = "idle"]
  /\ UNCHANGED <<initialized, timersLive, state, timers, started, link, events, arg,
                 then, gate, cut, losses, ops>>

\* wifi_manager_stop() came in between: there is no interface to ask for a
\* server, or, between the question and the start, no timer.
StableStopped ==
  /\ pc["timer"] = "dns" /\ ~timersLive
  /\ \/ /\ pc' = [pc EXCEPT !["timer"] = "idle"]
        /\ UNCHANGED <<initialized, timersLive, state, timers, started, link, events,
                       arg, then, gate, cut, losses, ops>>
     \/ Panic

-----------------------------------------------------------------------------
(* The API.                                                                *)

\* The call of app_main(); the radio starts in STA mode, not connected.
wifi_manager_start ==
  /\ ~initialized /\ ~started
  /\ initialized' = TRUE /\ timersLive' = TRUE
  /\ started' = TRUE /\ link' = "idle"
  /\ Begin("main", "IDLE", "saved")
  /\ UNCHANGED <<state, timers, events, gate, cut, losses, ops>>

\* wifi_manager_connect_to_saved_wifi(): app_main() calls it after the start.
\* The strongest of the saved networks in range is configured and tried ...
ConnectToSaved ==
  /\ pc["main"] = "after" /\ then["main"] = "saved" /\ initialized
  /\ pc' = [pc EXCEPT !["main"] = "test"]
  /\ \E found \in BOOLEAN :
       /\ arg' = [arg EXCEPT !["main"] = IF found THEN "CONNECTING" ELSE "FAILED"]
       /\ then' = [then EXCEPT !["main"] = IF found THEN "connect" ELSE "none"]
  /\ UNCHANGED <<initialized, timersLive, state, timers, started, link, events,
                 gate, cut, losses, ops>>

\* ... unless the manager has been stopped already.
ConnectSkipped ==
  /\ then["main"] = "saved" /\ ~initialized /\ Return("main")
  /\ UNCHANGED <<timers, link>>

Operation == ops < MaxOps /\ ops' = ops + 1

wifi_manager_reconnect(c) ==
  /\ initialized /\ Operation
  /\ retry' = FALSE /\ stable' = FALSE /\ retryCount' = 0
  /\ Begin(c, "CONNECTING", "connect")
  /\ UNCHANGED <<initialized, timersLive, state, delay, started, link, events,
                 gate, cut, losses>>

wifi_manager_change_network(c) ==
  /\ initialized /\ Operation
  /\ retry' = FALSE /\ stable' = FALSE /\ retryCount' = 0
  /\ Leave(IF link = "off" THEN "off" ELSE "idle")
  /\ Begin(c, "CONNECTING", "connect")
  /\ UNCHANGED <<initialized, timersLive, state, delay, started, gate, cut,
                 losses>>

\* on_wifi_connect() of main.c when the manager has been stopped: the start makes
\* the default interface, which nobody has destroyed, a second time.
StartAgain(c) ==
  /\ ~initialized /\ started /\ pc[c] = "idle"
  /\ Panic

\* The "Disconnect" button: the timers are deleted and the radio is stopped; the
\* event handlers stay registered.
wifi_manager_stop(c) ==
  /\ timersLive /\ Operation
  /\ initialized' = FALSE /\ timersLive' = FALSE
  /\ retry' = FALSE /\ stable' = FALSE /\ retryCount' = 0
  /\ Leave("off")
  /\ Begin(c, "IDLE", "none")
  /\ UNCHANGED <<state, delay, started, gate, cut, losses>>

\* Its first line when there are no timers (any more).
StopAgain(c) ==
  /\ ~timersLive /\ pc[c] = "idle"
  /\ Panic

-----------------------------------------------------------------------------
Driver == AttemptOk \/ LinkLost \/ \E r \in Reasons : AttemptFails(r)
Event == HandleGotIp \/ HandleLost \/ HandleFatal \/ HandleStopped
Timer == RetryExpires \/ StableExpires \/ StableOk \/ StableEmpty \/ StableFails
         \/ StableStopped
SetState(t) ==
  \/ Test(t) \/ Write(t) \/ Call(t)
  \/ AfterNothing(t) \/ AfterConnect(t) \/ AfterRetry(t) \/ AfterStable(t)
  \/ AfterStop(t)

Next ==
  \/ Driver \/ Event \/ Timer
  \/ wifi_manager_start \/ ConnectToSaved \/ ConnectSkipped
  \/ \E t \in Threads : SetState(t)
  \/ \E c \in Callers :
       \/ wifi_manager_reconnect(c) \/ wifi_manager_change_network(c)
       \/ wifi_manager_stop(c) \/ StopAgain(c) \/ StartAgain(c)

Spec == Init /\ [][Next]_vars

\* Threads run, timers expire; the driver ends every attempt and succeeds if it
\* is tried again and again; DNS is assigned some time.
Fairness ==
  /\ WF_vars(wifi_manager_start) /\ WF_vars(ConnectToSaved \/ ConnectSkipped)
  /\ WF_vars(Event) /\ WF_vars(Timer) /\ SF_vars(StableOk)
  /\ WF_vars(Driver) /\ SF_vars(AttemptOk)
  /\ \A t \in Threads : WF_vars(SetState(t))

FairSpec == Spec /\ Fairness

-----------------------------------------------------------------------------
(* Properties.                                                             *)

\* Type correctness; the retry count stays within max_retries.
TypeOK ==
  /\ initialized \in BOOLEAN /\ started \in BOOLEAN /\ timersLive \in BOOLEAN
  /\ state \in States
  /\ retryCount \in 0 .. MaxRetries
  /\ retry \in BOOLEAN /\ stable \in BOOLEAN /\ delay \in Nat
  /\ link \in {"off", "idle", "trying", "up"}
  /\ events \in Seq({"ip", "other", "no_ap", "auth"})
  /\ pc \in [Threads -> {"idle", "test", "write", "call", "after", "dns"}]
  /\ arg \in [Threads -> States]
  /\ then \in [Threads -> {"none", "connect", "retry", "stable", "saved"}]
  /\ gate \in BOOLEAN /\ cut \in BOOLEAN
  /\ losses \in 0 .. MaxLosses /\ ops \in 0 .. MaxOps

Quiet == events = <<>> /\ \A t \in Threads : pc[t] = "idle"

\* "Transient disconnections are retried indefinitely" (wifi_manager.h): when
\* all is quiet in state DISCONNECTED, the retry timer runs, also after more
\* than max_retries failures and whoever else stopped the timer meanwhile.
RetryPending ==
  Quiet /\ state = "DISCONNECTED" => retry

\* "Unrecoverable failures stop immediately" (wifi_manager.h): after one, no
\* retry of an earlier disconnection is left to go off.
FailedStops ==
  Quiet /\ arg["event"] = "FAILED" => ~retry

\* "exponential backoff capped at max_retry_ms" (wifi_manager.h).
DelayCapped ==
  BaseRetry <= MaxRetry => delay \in BaseRetry .. MaxRetry

\* Without calls of the API, the manager never rests in CONNECTING unless the
\* driver is trying: some event will move it on.
ConnectingProgress ==
  Quiet /\ state = "CONNECTING" => link = "trying"

\* After finitely many transient losses the manager ends up online, on a link that
\* is up.  (When no saved network was in range at boot it stays in FAILED, from
\* which only the user takes it.)  It may not have told data_fetcher so: a stale
\* stabilisation timer can go online between the event task's write of CONNECTED
\* and its callback, which then comes last and closes the gate.
Recovers ==
  \/ <>[](state = "CONNECTED_WITH_DNS" /\ link = "up")
  \/ <>[](state = "FAILED")

\* "CRITICAL: Stop the validation process instantly if the link cuts out"
\* (wifi_event_handler()): once a disconnection has been handled, nothing says
\* that the link is online.
CutMeansOffline ==
  cut /\ pc["event"] = "idle" => state # "CONNECTED_WITH_DNS" /\ ~gate
=============================================================================
