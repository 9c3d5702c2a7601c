-------------------------- MODULE LocServerProofs --------------------------
(***************************************************************************)
(* Theorems about LocServer for any number of sockets and of scan results    *)
(* not yet handled.  The slot and the sessions change together, except that   *)
(* a new browser takes the slot one step before the old one is queued for     *)
(* closing; the scan flag goes up while the radio still scans, or the history  *)
(* variable early says that it does not.                                     *)
(***************************************************************************)
EXTENDS LocServer, TLAPS

(* The handler that is about to queue the old browser's close knows it.      *)
EvictsSomeone == pc["httpd"] = "evict" => fd["httpd"] \in Fds

(* Every session has the slot, has lost it for good, or is about to be        *)
(* closed.                                                                   *)
Accounted ==
  \A f \in sessions :
    \/ f = slot \/ f \in toClose \/ f \in orphans
    \/ pc["httpd"] = "evict" /\ f = fd["httpd"]

(* wifi_manager_scan() stores its callback and raises the flag while the      *)
(* radio scans, or after a scan that ended early.                            *)
StoredWhileScanning ==
  \A t \in Tasks : pc[t] = "scanStore" => radio = "scanning" \/ early

IInv ==
  /\ TypeOK /\ EvictsSomeone
  /\ SlotOpen /\ Accounted
  /\ StoredWhileScanning /\ ScanFlagTrue

(* After a restart, and at the start, there is nothing to account for.       *)
LEMMA ResetIInv == Reset /\ enabled' \in BOOLEAN => IInv'
<1> SUFFICES ASSUME Reset, enabled' \in BOOLEAN PROVE IInv'
  OBVIOUS
<1>1. TypeOK'
  <2>1. pc' \in [Tasks -> {"down", "idle"}] /\ fd' \in [Tasks -> {None}] /\ done' \in 0..MaxDone
    BY ConstantsOK DEF Reset
  <2> QED
    BY <2>1 DEF Reset, TypeOK
<1>2. EvictsSomeone' /\ SlotOpen' /\ Accounted' /\ StoredWhileScanning' /\ ScanFlagTrue'
  BY DEF Reset, Tasks, EvictsSomeone, SlotOpen, Accounted, StoredWhileScanning, ScanFlagTrue
<1> QED
  BY <1>1, <1>2 DEF IInv

(* Init is such a state.                                                     *)
LEMMA InitIInv == Init => IInv
<1> SUFFICES ASSUME Init PROVE IInv
  OBVIOUS
<1>1. TypeOK
  <2>1. pc \in [Tasks -> {"down", "idle"}] /\ fd \in [Tasks -> {None}] /\ done \in 0..MaxDone
    BY ConstantsOK DEF Init
  <2> QED
    BY <2>1 DEF Init, TypeOK
<1>2. EvictsSomeone /\ SlotOpen /\ Accounted /\ StoredWhileScanning /\ ScanFlagTrue
  BY DEF Init, Tasks, EvictsSomeone, SlotOpen, Accounted, StoredWhileScanning, ScanFlagTrue
<1> QED
  BY <1>1, <1>2 DEF IInv

(* A step that touches neither sessions nor scan, and takes no thread to the  *)
(* places the invariant speaks of, needs its types only.                      *)
LEMMA Elsewhere ==
  ASSUME IInv, TypeOK', UNCHANGED <<slot, sessions, toClose, orphans, active, radio, done, early>>,
         pc["httpd"] = "evict" <=> pc'["httpd"] = "evict",
         pc["httpd"] = "evict" => fd'["httpd"] = fd["httpd"],
         \A t \in Tasks : pc'[t] = "scanStore" => pc[t] = "scanStore"
  PROVE  IInv'
BY DEF IInv, EvictsSomeone, SlotOpen, Accounted, StoredWhileScanning, ScanFlagTrue

(* The same for a step of the sessions, with the slot accounted for.         *)
LEMMA SessionStep ==
  ASSUME IInv, TypeOK', EvictsSomeone', SlotOpen', Accounted', UNCHANGED scan,
         \A t \in Tasks : pc'[t] = "scanStore" => pc[t] = "scanStore"
  PROVE  IInv'
BY DEF IInv, scan, StoredWhileScanning, ScanFlagTrue

(* A push takes the slot from nobody, unless its send failed and the browser  *)
(* still has it.                                                             *)
LEMMA PushIInv == ASSUME IInv, NEW t \in Tasks, Push(t) PROVE IInv'
<1> USE DEF IInv, web, config, scan
<1>t. "httpd" \in Tasks
  BY DEF Tasks
<1>1. CASE Copy(t)
  <2>1. TypeOK'
    BY <1>1, ConstantsOK DEF Copy, TypeOK, Goto, Return
  <2>2. CASE server /\ slot # None
    BY <1>1, <1>t, <2>1, <2>2, Elsewhere DEF Copy, TypeOK, Goto
  <2>3. CASE ~(server /\ slot # None)
    BY <1>1, <1>t, <2>1, <2>3, Elsewhere DEF Copy, TypeOK, Goto, Return
  <2> QED
    BY <2>2, <2>3
<1>2. CASE SendOk(t)
  <2>1. TypeOK'
    BY <1>2, ConstantsOK DEF SendOk, TypeOK, Goto, Return
  <2> QED
    BY <1>2, <1>t, <2>1, Elsewhere DEF SendOk, TypeOK, Goto, Return
<1>3. CASE SendFails(t)
  <2>1. TypeOK'
    BY <1>3, ConstantsOK DEF SendFails, TypeOK, Goto, Return
  <2>2. CASE t = "event"
    BY <1>3, <1>t, <2>1, <2>2, Elsewhere DEF SendFails, TypeOK, Goto, Return
  <2>3. CASE t # "event"
    BY <1>3, <1>t, <2>1, <2>3, Elsewhere DEF SendFails, TypeOK, Goto
  <2> QED
    BY <2>2, <2>3
<1>4. CASE Drop(t)
  <2>1. TypeOK'
    BY <1>4, ConstantsOK DEF Drop, TypeOK, Goto, Return
  <2>2. EvictsSomeone' /\ SlotOpen' /\ Accounted'
    BY <1>4 DEF Drop, TypeOK, Goto, Return, Tasks, EvictsSomeone, SlotOpen, Accounted
  <2> QED
    BY <1>4, <2>1, <2>2, SessionStep DEF Drop, TypeOK, Goto, Return
<1> QED
  BY <1>1, <1>2, <1>3, <1>4 DEF Push

(* A scan is asked for by two tasks at once.                                 *)
LEMMA ScanIInv ==
  ASSUME IInv, NEW t \in {"httpd", "lvgl"}, ScanTest(t) \/ ScanStart(t) \/ ScanStore(t)
  PROVE  IInv'
<1> USE DEF IInv, web, config, scan
<1>t. t \in Tasks /\ "httpd" \in Tasks
  BY DEF Tasks
<1>1. CASE ScanTest(t)
  <2>1. TypeOK'
    BY <1>1, <1>t, ConstantsOK DEF ScanTest, TypeOK, Goto, Return
  <2>2. CASE active
    BY <1>1, <1>t, <2>1, <2>2, Elsewhere DEF ScanTest, TypeOK, Goto, Return
  <2>3. CASE ~active
    BY <1>1, <1>t, <2>1, <2>3, Elsewhere DEF ScanTest, TypeOK, Goto
  <2> QED
    BY <2>2, <2>3
<1>2. CASE ScanStart(t)
  <2>1. TypeOK'
    BY <1>2, <1>t, ConstantsOK DEF ScanStart, TypeOK, Goto, Return
  <2>2. EvictsSomeone' /\ SlotOpen' /\ Accounted'
    <3>1. pc'["httpd"] # "evict" \/ t # "httpd"
      BY <1>2, <1>t DEF ScanStart, TypeOK, Goto, Return
    <3>2. pc["httpd"] = "evict" => t # "httpd"
      BY <1>2 DEF ScanStart
    <3>3. t # "httpd" => pc'["httpd"] = pc["httpd"] /\ fd'["httpd"] = fd["httpd"]
      BY <1>2, <1>t DEF ScanStart, TypeOK, Goto, Return
    <3> QED
      BY <1>2, <3>1, <3>2, <3>3 DEF ScanStart, EvictsSomeone, SlotOpen, Accounted
  <2>3. StoredWhileScanning' /\ ScanFlagTrue'
    BY <1>2, <1>t DEF ScanStart, TypeOK, Goto, Return, StoredWhileScanning, ScanFlagTrue
  <2> QED
    BY <2>1, <2>2, <2>3
<1>3. CASE ScanStore(t)
  <2>1. TypeOK'
    BY <1>3, <1>t, ConstantsOK DEF ScanStore, TypeOK, Goto, Return
  <2>2. EvictsSomeone' /\ SlotOpen' /\ Accounted'
    BY <1>3, <1>t DEF ScanStore, TypeOK, Goto, Return, EvictsSomeone, SlotOpen, Accounted
  <2>3. StoredWhileScanning' /\ ScanFlagTrue'
    BY <1>3, <1>t DEF ScanStore, TypeOK, Goto, Return, StoredWhileScanning, ScanFlagTrue
  <2> QED
    BY <2>1, <2>2, <2>3
<1> QED
  BY <1>1, <1>2, <1>3

(* The HTTP server task: browsers come, are evicted and leave; the server     *)
(* stops.                                                                    *)
LEMMA HttpdIInv == ASSUME IInv, Httpd PROVE IInv'
<1> USE DEF IInv, web, config, scan
<1>t. "httpd" \in Tasks
  BY DEF Tasks
<1>1. CASE Evict
  <2>1. TypeOK'
    BY <1>1, <1>t DEF Evict, TypeOK, Goto, EvictsSomeone
  <2>2. EvictsSomeone' /\ SlotOpen' /\ Accounted'
    BY <1>1, <1>t DEF Evict, TypeOK, Goto, EvictsSomeone, SlotOpen, Accounted
  <2> QED
    BY <1>1, <1>t, <2>1, <2>2, SessionStep DEF Evict, TypeOK, Goto
<1>2. CASE GotLock
  <2>1. TypeOK'
    BY <1>2, <1>t DEF GotLock, TypeOK, Goto
  <2> QED
    BY <1>2, <1>t, <2>1, Elsewhere DEF GotLock, TypeOK, Goto
<1>3. CASE NoLock
  <2>1. TypeOK'
    BY <1>3, <1>t DEF NoLock, TypeOK, Goto
  <2> QED
    BY <1>3, <1>t, <2>1, Elsewhere DEF NoLock, TypeOK, Goto
<1>4. CASE Restart
  <2>1. TypeOK'
    BY <1>4, <1>t DEF Restart, TypeOK, Goto
  <2> QED
    BY <1>4, <1>t, <2>1, Elsewhere DEF Restart, TypeOK, Goto
<1>5. CASE HttpdExit
  <2>1. TypeOK'
    BY <1>5, <1>t DEF HttpdExit, TypeOK, Goto
  <2>2. EvictsSomeone' /\ SlotOpen' /\ Accounted'
    BY <1>5, <1>t DEF HttpdExit, TypeOK, Goto, EvictsSomeone, SlotOpen, Accounted
  <2> QED
    BY <1>5, <1>t, <2>1, <2>2, SessionStep DEF HttpdExit, TypeOK, Goto
<1> QED
  BY <1>1, <1>2, <1>3, <1>4, <1>5, <1>t, PushIInv, ScanIInv DEF Httpd

(* loc_server_start() brings the server task to its first request.           *)
LEMMA LaunchIInv == ASSUME IInv, NEW t \in {"lvgl", "event"}, Launch(t) PROVE IInv'
<1> USE DEF IInv, config, scan
<1>t. t \in Tasks /\ "httpd" \in Tasks /\ t # "httpd"
  BY DEF Tasks
<1>1. TypeOK'
  BY <1>t DEF Launch, TypeOK
<1> QED
  BY <1>t, <1>1, Elsewhere DEF Launch, TypeOK

(* The LVGL task: the stop takes the slot from a session that a start which   *)
(* overlapped it may have let in.                                            *)
LEMMA LvglIInv == ASSUME IInv, Lvgl PROVE IInv'
<1> USE DEF IInv, web, config, scan
<1>t. "lvgl" \in Tasks /\ "httpd" \in Tasks
  BY DEF Tasks
<1>1. CASE Stopped
  <2>1. TypeOK'
    BY <1>1, <1>t DEF Stopped, TypeOK, Goto
  <2> QED
    BY <1>1, <1>t, <2>1, Elsewhere DEF Stopped, TypeOK, Goto
<1>2. CASE Unset
  <2>1. TypeOK'
    BY <1>2, <1>t DEF Unset, TypeOK, Goto
  <2> QED
    BY <1>2, <1>t, <2>1, Elsewhere DEF Unset, TypeOK, Goto
<1>3. CASE Forget
  <2>1. TypeOK'
    BY <1>3, <1>t, ConstantsOK DEF Forget, TypeOK, Goto, Return
  <2>2. EvictsSomeone' /\ SlotOpen' /\ Accounted'
    BY <1>3, <1>t DEF Forget, TypeOK, Goto, Return, EvictsSomeone, SlotOpen, Accounted
  <2> QED
    BY <1>3, <1>t, <2>1, <2>2, SessionStep DEF Forget, TypeOK, Goto, Return
<1> QED
  BY <1>1, <1>2, <1>3, <1>t, PushIInv, LaunchIInv, ScanIInv DEF Lvgl

(* The event task: the end of a scan takes the flag down.                    *)
LEMMA EventIInv == ASSUME IInv, Event PROVE IInv'
<1> USE DEF IInv, web, config
<1>t. "event" \in Tasks
  BY DEF Tasks
<1>1. CASE ScanDone
  <2>1. done' \in 0..MaxDone
    BY <1>1, ConstantsOK DEF ScanDone, TypeOK
  <2>2. TypeOK'
    BY <1>1, <1>t, <2>1 DEF ScanDone, TypeOK, Goto
  <2>3. EvictsSomeone' /\ SlotOpen' /\ Accounted'
    BY <1>1, <1>t DEF ScanDone, TypeOK, Goto, EvictsSomeone, SlotOpen, Accounted
  <2>4. StoredWhileScanning' /\ ScanFlagTrue'
    BY <1>1, <1>t DEF ScanDone, TypeOK, Goto, Storing, StoredWhileScanning, ScanFlagTrue
  <2> QED
    BY <2>2, <2>3, <2>4
<1> QED
  BY <1>1, <1>t, PushIInv, LaunchIInv DEF Event

(* Browsers connect and leave, in whatever order the server takes them.      *)
LEMMA BrowserIInv ==
  ASSUME IInv, NEW f \in Fds, Handshake(f) \/ PeerCloses(f) \/ RunClose(f)
  PROVE  IInv'
<1> USE DEF IInv, task, config, Serving
<1>t. "httpd" \in Tasks
  BY DEF Tasks
<1>1. CASE Handshake(f)
  <2>1. TypeOK'
    BY <1>1, <1>t DEF Handshake, TypeOK, Goto, scan
  <2>2. EvictsSomeone'
    BY <1>1, <1>t DEF Handshake, TypeOK, Goto, EvictsSomeone
  <2>3. SlotOpen'
    BY <1>1 DEF Handshake, SlotOpen
  <2>4. Accounted'
    BY <1>1, <1>t, ConstantsOK DEF Handshake, TypeOK, Goto, SlotOpen, Accounted
  <2> QED
    BY <1>1, <1>t, <2>1, <2>2, <2>3, <2>4, SessionStep DEF Handshake, TypeOK, Goto
<1>2. CASE PeerCloses(f) \/ RunClose(f)
  <2>1. TypeOK'
    BY <1>2 DEF PeerCloses, RunClose, on_socket_closed, TypeOK, scan
  <2>2. EvictsSomeone' /\ SlotOpen' /\ Accounted'
    BY <1>2 DEF PeerCloses, RunClose, on_socket_closed, EvictsSomeone, SlotOpen, Accounted
  <2> QED
    BY <1>2, <2>1, <2>2, SessionStep DEF PeerCloses, RunClose
<1> QED
  BY <1>1, <1>2

(* Users, the link and the radio.                                            *)
LEMMA EnvironmentIInv == ASSUME IInv, Environment PROVE IInv'
<1> USE DEF IInv, web, config
<1>t. "lvgl" \in Tasks /\ "httpd" \in Tasks /\ "event" \in Tasks
  BY DEF Tasks
<1>1. CASE Message
  <2>1. TypeOK'
    BY <1>1, <1>t DEF Message, TypeOK, Goto, scan
  <2> QED
    BY <1>1, <1>t, <2>1, Elsewhere DEF Message, Serving, TypeOK, Goto, scan
<1>2. CASE ChangeSetting \/ ApSwitchOn \/ PopupScan
  <2>1. TypeOK'
    BY <1>2, <1>t DEF ChangeSetting, ApSwitchOn, PopupScan, TakeLock, TypeOK, Goto, scan
  <2> QED
    BY <1>2, <1>t, <2>1, Elsewhere
       DEF ChangeSetting, ApSwitchOn, PopupScan, TakeLock, TypeOK, Goto, scan
<1>3. CASE SwitchOn \/ SwitchOff
  <2>1. TypeOK'
    BY <1>3, <1>t DEF SwitchOn, SwitchOff, TypeOK, Goto, scan
  <2> QED
    BY <1>3, <1>t, <2>1, Elsewhere DEF SwitchOn, SwitchOff, TypeOK, Goto, scan
<1>4. CASE WifiState
  <2>1. TypeOK'
    BY <1>4, <1>t DEF WifiState, TypeOK, Goto, scan
  <2> QED
    BY <1>4, <1>t, <2>1, Elsewhere DEF WifiState, TypeOK, Goto, scan
<1>5. CASE ScanEnds
  <2>1. TypeOK'
    BY <1>5, ConstantsOK DEF ScanEnds, TypeOK, task
  <2>2. EvictsSomeone' /\ SlotOpen' /\ Accounted'
    BY <1>5 DEF ScanEnds, task, EvictsSomeone, SlotOpen, Accounted
  <2>3. StoredWhileScanning'
    BY <1>5 DEF ScanEnds, task, Storing, StoredWhileScanning
  <2>4. ScanFlagTrue'
    BY <1>5 DEF ScanEnds, TypeOK, ScanFlagTrue
  <2> QED
    BY <2>1, <2>2, <2>3, <2>4
<1>6. CASE Reboot
  BY <1>6, ResetIInv DEF Reboot, TypeOK
<1> QED
  BY <1>1, <1>2, <1>3, <1>4, <1>5, <1>6, BrowserIInv DEF Environment

(* The steps together.                                                       *)
LEMMA NextIInv == IInv /\ [Next]_vars => IInv'
<1>1. IInv /\ UNCHANGED vars => IInv'
  BY DEF vars, web, task, config, scan, IInv, TypeOK, EvictsSomeone, SlotOpen, Accounted,
         StoredWhileScanning, ScanFlagTrue
<1> QED
  BY <1>1, HttpdIInv, LvglIInv, EventIInv, EnvironmentIInv DEF Next

(* The inductive invariant holds in every reachable state.                   *)
THEOREM Inductive == Spec => []IInv
BY InitIInv, NextIInv, PTL DEF Spec

(* Type correctness, for any number of sockets.                              *)
THEOREM TypeCorrect == Spec => []TypeOK
BY Inductive, PTL DEF IInv

(* No descriptor outlives its session in the slot, for any number of sockets.*)
THEOREM SlotNeverStale == Spec => []SlotOpen
BY Inductive, PTL DEF IInv

(* No page stays open and silently dead, but for those recorded as orphans.  *)
THEOREM OneLivePage == Spec => []OneBrowser
<1>1. IInv => OneBrowser
  BY DEF IInv, OneBrowser, Accounted
<1> QED
  BY <1>1, Inductive, PTL

(* A raised scan flag has an end of a scan before it, unless that end came   *)
(* before the flag was raised.                                               *)
THEOREM ScanFlagComesDown == Spec => []ScanFlagTrue
BY Inductive, PTL DEF IInv
=============================================================================
