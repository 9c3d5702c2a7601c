----------------------------- MODULE LocServer -----------------------------
(***************************************************************************)
(* components/loc_server/loc_server.c: the settings page.  One browser at a  *)
(* time holds the slot g_ws_fd; pushes to it come from three tasks:          *)
(*   "httpd"  runs the handlers of the server;                              *)
(*   "lvgl"   changes settings, starts and stops the server, holding the    *)
(*            LVGL lock meanwhile;                                          *)
(*   "event"  reports the state of the link and the results of scans.  (Two  *)
(*            tasks, in truth: the timer task reports some of the states.  No *)
(*            push of either touches the slot.)                             *)
(* The page and the Wi-Fi popup share the one scan of wifi_manager_esp.c.    *)
(*                                                                         *)
(* esp_http_server, sockets, the radio and the LVGL lock are external.       *)
(* Control frames reach a handler only if its URI asks for them, which       *)
(* URI_WS does not: a browser that leaves is a closed socket here.  A        *)
(* section under g_ws_mutex never blocks: it is one step.                    *)
(***************************************************************************)
EXTENDS Naturals

CONSTANTS
  Fds,           \* descriptors of WebSocket sessions
  None,
  MaxDone        \* bound: SCAN_DONE events waiting

ASSUME ConstantsOK == None \notin Fds /\ MaxDone \in Nat \ {0}

Tasks == {"httpd", "lvgl", "event"}

VARIABLES
  server,      \* g_server # NULL
  slot,        \* g_ws_fd
  pc,          \* where each task is; pc["httpd"] = "down": no server runs
  fd,          \* fd[t]: the descriptor t has copied
  sessions,    \* httpd: the open WebSocket sessions
  toClose,     \* httpd: sessions whose close is queued
  lock,        \* who holds the LVGL lock
  enabled,     \* the setting local_web_client_enabled
  armed,       \* the reboot timer runs
  active, cb,  \* g_scan_active, g_scan_cb: the task that asked
  radio,       \* driver: a scan runs
  done,        \* driver: SCAN_DONE events not yet handled
  early,       \* history: a scan ended before its call stored the flag
  orphans      \* history: open sessions that lost the slot with no successor

web == <<server, slot, sessions, toClose, orphans>>
task == <<pc, fd>>
config == <<enabled, armed>>
scan == <<active, cb, radio, done, early>>
vars == <<web, task, lock, config, scan>>

-----------------------------------------------------------------------------
Goto(t, label) == pc' = [pc EXCEPT ![t] = label]

(* The task is done with its handler: its copy of the descriptor is dead and *)
(* the LVGL lock, if it has it, is free.                                     *)
Return(t) ==
  /\ Goto(t, "idle")
  /\ fd' = [fd EXCEPT ![t] = None]
  /\ lock' = IF lock = t THEN None ELSE lock

(* httpd takes the next request: it has not been told to stop. *)
Serving == pc["httpd"] = "idle" /\ pc["lvgl"] # "stopping"

-----------------------------------------------------------------------------
(* A push: copy the descriptor under the mutex, send without it, and forget *)
(* a descriptor that failed unless it is no longer the one in the slot.      *)

Copy(t) ==
  /\ pc[t] = "copy"
  /\ IF server /\ slot # None
     THEN fd' = [fd EXCEPT ![t] = slot] /\ Goto(t, "send") /\ UNCHANGED lock
     ELSE Return(t)
  /\ UNCHANGED <<web, config, scan>>

SendOk(t) ==
  /\ pc[t] = "send" /\ fd[t] \in sessions
  /\ Return(t)
  /\ UNCHANGED <<web, config, scan>>

(* A send fails when the session is gone, and may fail when it is not.  Only *)
(* loc_server_push_settings() looks at the result.                           *)
SendFails(t) ==
  /\ pc[t] = "send"
  /\ IF t = "event" THEN Return(t) ELSE Goto(t, "drop") /\ UNCHANGED <<fd, lock>>
  /\ UNCHANGED <<web, config, scan>>

Drop(t) ==
  /\ pc[t] = "drop"
  /\ IF slot = fd[t]
     THEN slot' = None /\ orphans' = orphans \cup (sessions \cap {slot})
     ELSE UNCHANGED <<slot, orphans>>
  /\ Return(t)
  /\ UNCHANGED <<server, sessions, toClose, config, scan>>

-----------------------------------------------------------------------------
(* The HTTP server task. *)

Handshake_NoOldCheck(f) ==
  /\ Serving /\ f \notin sessions
  /\ sessions' = sessions \cup {f}
  /\ slot' = f
  /\ fd' = [fd EXCEPT !["httpd"] = slot]
  /\ Goto("httpd", IF slot # f THEN "evict" ELSE "copy")
  /\ UNCHANGED <<server, toClose, orphans, lock, config, scan>>

Handshake(f) ==
  /\ Serving /\ f \notin sessions
  /\ sessions' = sessions \cup {f}
  /\ slot' = f
  /\ fd' = [fd EXCEPT !["httpd"] = slot]
  /\ Goto("httpd", IF slot \notin {None, f} THEN "evict" ELSE "copy")
  /\ UNCHANGED <<server, toClose, orphans, lock, config, scan>>

Evict ==
  /\ pc["httpd"] = "evict"
  /\ toClose' = toClose \cup {fd["httpd"]}
  /\ fd' = [fd EXCEPT !["httpd"] = None]
  /\ Goto("httpd", "copy")
  /\ UNCHANGED <<server, slot, sessions, orphans, lock, config, scan>>

on_socket_closed_KeepsSlot(f) ==
  /\ sessions' = sessions \ {f}
  /\ orphans' = orphans \ {f}
  /\ UNCHANGED slot

on_socket_closed_AnySlot(f) ==
  /\ slot' = None
  /\ sessions' = sessions \ {f}
  /\ orphans' = orphans \ {f}

on_socket_closed(f) ==
  /\ slot' = IF slot = f THEN None ELSE slot
  /\ sessions' = sessions \ {f}
  /\ orphans' = orphans \ {f}

PeerCloses(f) ==
  /\ Serving /\ f \in sessions
  /\ on_socket_closed(f)
  /\ UNCHANGED <<server, toClose, task, lock, config, scan>>

(* The queued close; it finds whichever session has the descriptor now. *)
RunClose(f) ==
  /\ Serving /\ f \in toClose
  /\ toClose' = toClose \ {f}
  /\ IF f \in sessions THEN on_socket_closed(f)
                       ELSE UNCHANGED <<slot, sessions, orphans>>
  /\ UNCHANGED <<server, task, lock, config, scan>>

(* A message: a scan, display settings, or network settings, the switch of   *)
(* the page among them.  Each is saved; then the widgets follow if the LVGL   *)
(* lock is had in 100 ms.  (Credentials go to wifi_manager and do nothing     *)
(* here.)                                                                    *)
Message ==
  /\ Serving /\ sessions # {}
  /\ \/ UNCHANGED enabled
        /\ \E job \in {"scan", "lockDisplay", "lockNetwork"} : Goto("httpd", job)
     \/ enabled' \in BOOLEAN /\ Goto("httpd", "lockNetwork")
  /\ UNCHANGED <<web, fd, lock, armed, scan>>

(* Setting the timeout widget sends its event, whose callback pushes. *)
GotLock ==
  /\ lock = None
  /\ \/ pc["httpd"] = "lockDisplay" /\ lock' = "httpd" /\ Goto("httpd", "copy")
     \/ pc["httpd"] = "lockDisplay" /\ UNCHANGED lock /\ Goto("httpd", "idle")
     \/ pc["httpd"] = "lockNetwork" /\ UNCHANGED lock /\ Goto("httpd", "restart")
  /\ UNCHANGED <<web, fd, config, scan>>

NoLock_Forever ==
  FALSE /\ UNCHANGED vars

NoLock ==
  /\ lock # None
  /\ \/ pc["httpd"] = "lockDisplay" /\ Goto("httpd", "idle")
     \/ pc["httpd"] = "lockNetwork" /\ Goto("httpd", "restart")
  /\ UNCHANGED <<web, fd, lock, config, scan>>

(* Announce the restart and start its timer, if a browser holds the slot. *)
Restart ==
  /\ pc["httpd"] = "restart"
  /\ armed' = (armed \/ (server /\ slot # None))
  /\ Goto("httpd", "idle")
  /\ UNCHANGED <<web, fd, lock, enabled, scan>>

(* Told to stop, the server closes every session and its task ends. *)
HttpdExit ==
  /\ pc["httpd"] = "idle" /\ pc["lvgl"] = "stopping"
  /\ slot' = IF slot \in sessions THEN None ELSE slot
  /\ sessions' = {} /\ toClose' = {} /\ orphans' = {}
  /\ Goto("httpd", "down")
  /\ UNCHANGED <<server, fd, lock, config, scan>>

-----------------------------------------------------------------------------
(* loc_server_start(), by lvgl or event: nothing to do if a server runs. *)

(* httpd_start() fails when a server has the port. *)
Launch(t) ==
  /\ pc[t] = "launch"
  /\ server' = (server \/ pc["httpd"] = "down")
  /\ pc' = [pc EXCEPT ![t] = IF t = "lvgl" THEN "idle" ELSE "copy",
                      !["httpd"] = IF @ = "down" THEN "idle" ELSE @]
  /\ lock' = IF lock = t THEN None ELSE lock
  /\ UNCHANGED <<slot, sessions, toClose, orphans, fd, config, scan>>

-----------------------------------------------------------------------------
(* The LVGL task: the user at the panel. *)

TakeLock == pc["lvgl"] = "idle" /\ lock = None /\ lock' = "lvgl"

ChangeSetting ==
  /\ TakeLock /\ Goto("lvgl", "copy")
  /\ UNCHANGED <<web, fd, config, scan>>

SwitchOn ==
  /\ pc["lvgl"] = "idle" /\ lock = None
  /\ enabled' = TRUE
  /\ IF server THEN UNCHANGED <<lock, pc>> ELSE lock' = "lvgl" /\ Goto("lvgl", "launch")
  /\ UNCHANGED <<web, fd, armed, scan>>

(* on_ap_toggled() of main.c. *)
ApSwitchOn ==
  /\ ~server /\ TakeLock /\ Goto("lvgl", "launch")
  /\ UNCHANGED <<web, fd, config, scan>>

SwitchOff ==
  /\ pc["lvgl"] = "idle" /\ lock = None
  /\ enabled' = FALSE
  /\ IF server THEN lock' = "lvgl" /\ Goto("lvgl", "stopping") ELSE UNCHANGED <<lock, pc>>
  /\ UNCHANGED <<web, fd, armed, scan>>

(* httpd_stop() returns when the task of the server has ended. *)
Stopped ==
  /\ pc["lvgl"] = "stopping" /\ pc["httpd"] = "down"
  /\ Goto("lvgl", "unset")
  /\ UNCHANGED <<web, fd, lock, config, scan>>

Unset ==
  /\ pc["lvgl"] = "unset"
  /\ server' = FALSE
  /\ Goto("lvgl", "forget")
  /\ UNCHANGED <<slot, sessions, toClose, orphans, fd, lock, config, scan>>

Forget ==
  /\ pc["lvgl"] = "forget"
  /\ slot' = None
  /\ orphans' = orphans \cup (sessions \cap {slot})
  /\ Return("lvgl")
  /\ UNCHANGED <<server, sessions, toClose, config, scan>>

PopupScan ==
  /\ TakeLock /\ Goto("lvgl", "scan")
  /\ UNCHANGED <<web, fd, config, scan>>

-----------------------------------------------------------------------------
(* wifi_manager_scan(), by httpd or lvgl: the flag is tested, the radio told *)
(* to scan, and only then are the callback and the flag stored.              *)

ScanTest(t) ==
  /\ pc[t] = "scan"
  /\ IF active THEN Return(t) ELSE Goto(t, "scanStart") /\ UNCHANGED <<fd, lock>>
  /\ UNCHANGED <<web, config, scan>>

ScanStart(t) ==
  /\ pc[t] = "scanStart"
  /\ \/ /\ radio = "idle" /\ radio' = "scanning"
        /\ Goto(t, "scanStore") /\ UNCHANGED <<fd, lock>>
     \/ Return(t) /\ UNCHANGED radio                     \* refused
  /\ UNCHANGED <<web, config, active, cb, done, early>>

ScanStore(t) ==
  /\ pc[t] = "scanStore"
  /\ cb' = t /\ active' = TRUE
  /\ Return(t)
  /\ UNCHANGED <<web, config, radio, done, early>>

Storing == \E t \in Tasks : pc[t] = "scanStore"

(* The driver posts SCAN_DONE, for a scan it aborts even before the call      *)
(* that began it has stored the flag.                                        *)
ScanEnds ==
  /\ radio = "scanning" /\ done < MaxDone
  /\ radio' = "idle" /\ done' = done + 1
  /\ early' = (early \/ Storing)
  /\ UNCHANGED <<web, task, lock, config, active, cb>>

-----------------------------------------------------------------------------
(* The event task. *)

(* on_wifi_state() of main.c; online is CONNECTED_WITH_DNS. *)
WifiState ==
  /\ pc["event"] = "idle"
  /\ \E online \in BOOLEAN :
       Goto("event", IF online /\ enabled /\ ~server THEN "launch" ELSE "copy")
  /\ UNCHANGED <<web, fd, lock, config, scan>>

(* SCAN_DONE and deliver_scan_results(): without networks, or without a      *)
(* callback, nobody is called.                                               *)
ScanDone_KeepsFlag ==
  /\ pc["event"] = "idle" /\ done > 0
  /\ done' = done - 1
  /\ \E found \in BOOLEAN :
       /\ Goto("event", IF found /\ cb = "httpd" THEN "copy" ELSE "idle")
       /\ IF found THEN active' = FALSE /\ cb' = None ELSE UNCHANGED <<active, cb>>
  /\ early' = (early /\ Storing)
  /\ UNCHANGED <<web, fd, lock, config, radio>>

ScanDone ==
  /\ pc["event"] = "idle" /\ done > 0
  /\ done' = done - 1
  /\ active' = FALSE /\ cb' = None
  /\ early' = (early /\ Storing)
  /\ \E found \in BOOLEAN :
       Goto("event", IF found /\ cb = "httpd" THEN "copy" ELSE "idle")
  /\ UNCHANGED <<web, fd, lock, config, radio>>

-----------------------------------------------------------------------------
(* The reboot timer: only the saved settings survive. *)
Reset ==
  /\ server' = FALSE /\ slot' = None /\ sessions' = {} /\ toClose' = {} /\ orphans' = {}
  /\ pc' = [t \in Tasks |-> IF t = "httpd" THEN "down" ELSE "idle"]
  /\ fd' = [t \in Tasks |-> None]
  /\ lock' = None /\ armed' = FALSE
  /\ active' = FALSE /\ cb' = None /\ radio' = "idle" /\ done' = 0 /\ early' = FALSE

Reboot == armed /\ Reset /\ UNCHANGED enabled

Init ==
  /\ server = FALSE /\ slot = None /\ sessions = {} /\ toClose = {} /\ orphans = {}
  /\ pc = [t \in Tasks |-> IF t = "httpd" THEN "down" ELSE "idle"]
  /\ fd = [t \in Tasks |-> None]
  /\ lock = None /\ armed = FALSE
  /\ enabled \in BOOLEAN
  /\ active = FALSE /\ cb = None /\ radio = "idle" /\ done = 0 /\ early = FALSE

Push(t) == Copy(t) \/ SendOk(t) \/ SendFails(t) \/ Drop(t)

Httpd ==
  \/ Push("httpd") \/ Evict \/ GotLock \/ NoLock \/ Restart \/ HttpdExit
  \/ ScanTest("httpd") \/ ScanStart("httpd") \/ ScanStore("httpd")

Lvgl ==
  \/ Push("lvgl") \/ Launch("lvgl") \/ Stopped \/ Unset \/ Forget
  \/ ScanTest("lvgl") \/ ScanStart("lvgl") \/ ScanStore("lvgl")

Event == Push("event") \/ Launch("event") \/ ScanDone

(* What users, browsers, the link and the radio may do. *)
Environment ==
  \/ \E f \in Fds : Handshake(f) \/ PeerCloses(f) \/ RunClose(f)
  \/ Message \/ ChangeSetting \/ SwitchOn \/ ApSwitchOn \/ SwitchOff
  \/ PopupScan \/ WifiState \/ ScanEnds \/ Reboot

Next == Httpd \/ Lvgl \/ Event \/ Environment

Spec == Init /\ [][Next]_vars

(* The LVGL task runs, and so does the server task while that one waits for   *)
(* it; a wait for the LVGL lock ends after its 100 ms.                       *)
FairSpec == Spec /\ WF_vars(Lvgl \/ (pc["lvgl"] = "stopping" /\ Httpd))

-----------------------------------------------------------------------------
TypeOK ==
  /\ server \in BOOLEAN /\ slot \in Fds \cup {None}
  /\ pc \in [Tasks -> {"down", "idle", "copy", "send", "drop", "evict", "lockDisplay",
                       "lockNetwork", "restart", "launch", "stopping", "unset",
                       "forget", "scan", "scanStart", "scanStore"}]
  /\ fd \in [Tasks -> Fds \cup {None}]
  /\ sessions \subseteq Fds /\ toClose \subseteq Fds /\ orphans \subseteq sessions
  /\ lock \in {None, "lvgl", "httpd"}
  /\ enabled \in BOOLEAN /\ armed \in BOOLEAN
  /\ active \in BOOLEAN /\ cb \in {None, "httpd", "lvgl"}
  /\ radio \in {"idle", "scanning"} /\ done \in 0..MaxDone /\ early \in BOOLEAN

(* The slot never names a session that is gone: whatever evictions, closed   *)
(* sockets, failed sends and stops of the server overlap, nobody is left     *)
(* pushing to a descriptor that another connection may get next.              *)
SlotOpen == slot # None => slot \in sessions

(* Between requests, a session without the slot is about to be closed: two   *)
(* pages do not stay open side by side with one of them silently dead.  The   *)
(* exceptions are the sessions that a failed push, or a stop that overlapped  *)
(* a start, took the slot from (orphans).                                     *)
OneBrowser ==
  pc["httpd"] = "idle" => \A f \in sessions : f = slot \/ f \in toClose \/ f \in orphans

(* Once the flag is up a scan is running or its end is to be handled: a later *)
(* request is refused (wifi_manager.h: "a scan is already in progress") for a *)
(* while only.  The exception is a scan that ended before the call that began *)
(* it had stored the flag (early): nothing takes that flag down again.        *)
ScanFlagTrue == active => radio = "scanning" \/ done > 0 \/ early

(* Switching the page off from the panel waits for the server task with the  *)
(* LVGL lock held, while a handler of that task may want the lock: the wait   *)
(* ends, because the handler gives up after 100 ms.                           *)
StopReturns == pc["lvgl"] = "stopping" ~> pc["lvgl"] = "idle"
=============================================================================
