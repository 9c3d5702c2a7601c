------------------------- MODULE WifiManagerProofs -------------------------
(***************************************************************************)
(* Theorems about WifiManager for any number of API callers, losses and      *)
(* calls: the retries, the types and the delays, and, when no task calls the  *)
(* API, the one attempt that is passed on.  Only the event task sets          *)
(* DISCONNECTED, and it goes on to start the retry timer; whoever stops the   *)
(* timer is on the way to another state.  So a disconnected link without its  *)
(* timer is always between two steps.                                        *)
(***************************************************************************)
EXTENDS WifiManager, WellFoundedInduction, SequenceTheorems, TLAPS

(* What the argument needs of the types: the delays play no part.            *)
Threaded ==
  /\ state \in States
  /\ retry \in BOOLEAN
  /\ pc \in [Threads -> {"idle", "test", "write", "call", "after", "dns"}]
  /\ arg \in [Threads -> States]
  /\ then \in [Threads -> {"none", "connect", "retry", "stable", "saved"}]
  /\ \A t \in Threads : pc[t] = "dns" => t = "timer"

(* DISCONNECTED, and the retry that follows it, are the event task's.        *)
DisconnectRetries ==
  \A t \in Threads : arg[t] = "DISCONNECTED" \/ then[t] = "retry" =>
    t = "event" /\ arg[t] = "DISCONNECTED" /\ then[t] = "retry"

MovesOn(t) == pc[t] \in {"test", "write"} /\ arg[t] # "DISCONNECTED"

(* Without its timer, a disconnected link has a thread that is about to take *)
(* it to another state, or the event task about to start the timer.          *)
RetryOrMoving ==
  state = "DISCONNECTED" /\ ~retry =>
    \/ \E t \in Threads : MovesOn(t)
    \/ pc["event"] \in {"test", "write", "call", "after"} /\ then["event"] = "retry"

NoRetryAfterFatal == arg["event"] = "FAILED" => ~retry

IInv == Threaded /\ DisconnectRetries /\ RetryOrMoving /\ NoRetryAfterFatal

LEMMA InitIInv == Init => IInv
BY DEF Init, IInv, Threaded, DisconnectRetries, RetryOrMoving, NoRetryAfterFatal, States

(* A restart of the device goes back to the initial state.                   *)
LEMMA RestartIInv == Panic => IInv'
BY DEF Panic, IInv, Threaded, DisconnectRetries, RetryOrMoving, NoRetryAfterFatal, States

(* A thread that begins set_state() with a state other than DISCONNECTED may *)
(* stop the retry timer, and does not start it.                              *)
LEMMA BeginMovesOn ==
  ASSUME IInv, NEW t \in Threads, NEW s \in States \ {"DISCONNECTED"},
         NEW k \in {"none", "connect", "stable", "saved"},
         Begin(t, s, k), UNCHANGED state,
         retry' \in BOOLEAN, retry' => retry, t = "event" /\ s = "FAILED" => ~retry'
  PROVE  IInv'
<1> USE DEF IInv
<1>1. Threaded'
  BY DEF Threaded, Begin
<1>2. DisconnectRetries'
  BY DEF Threaded, Begin, DisconnectRetries
<1>3. MovesOn(t)'
  BY DEF Threaded, Begin, MovesOn
<1>4. RetryOrMoving'
  BY <1>3 DEF RetryOrMoving
<1>5. NoRetryAfterFatal'
  BY DEF Threaded, Begin, NoRetryAfterFatal
<1> QED
  BY <1>1, <1>2, <1>4, <1>5

(* A thread that is not in set_state() returns, or stays where it is.        *)
LEMMA Returns ==
  ASSUME IInv, NEW t \in Threads, pc[t] \in {"idle", "dns", "after"},
         then[t] # "retry" \/ pc[t] # "after",
         pc' = [pc EXCEPT ![t] = "idle"], UNCHANGED <<state, arg, then, retry>>
  PROVE  IInv'
<1> USE DEF IInv
<1>1. Threaded' /\ DisconnectRetries' /\ NoRetryAfterFatal'
  BY DEF Threaded, DisconnectRetries, NoRetryAfterFatal
<1>2. \A u \in Threads : MovesOn(u) => MovesOn(u)'
  BY DEF Threaded, MovesOn
<1>3. RetryOrMoving'
  BY <1>2 DEF RetryOrMoving, Threaded
<1> QED
  BY <1>1, <1>3

LEMMA NextIInv == IInv /\ [Next]_vars => IInv'
<1> SUFFICES ASSUME IInv, [Next]_vars PROVE IInv'
  OBVIOUS
<1> USE DEF IInv
<1>t. {"event", "timer", "main"} \cup Callers = Threads
  BY DEF Threads
<1>s. States = {"IDLE", "CONNECTING", "CONNECTED", "CONNECTED_WITH_DNS",
                "DISCONNECTED", "FAILED"}
  BY DEF States
<1>1. ASSUME UNCHANGED <<state, retry, thread>> PROVE IInv'
  BY <1>1 DEF thread, Threaded, DisconnectRetries, RetryOrMoving, MovesOn, NoRetryAfterFatal
<1>2. CASE Driver \/ UNCHANGED vars
  BY <1>1, <1>2 DEF Driver, AttemptOk, AttemptFails, LinkLost, vars, timers
<1>3. CASE Event
  <2>1. CASE HandleGotIp
    BY <2>1, <1>t, <1>s, BeginMovesOn DEF HandleGotIp
  <2>2. CASE HandleFatal
    BY <2>2, <1>t, <1>s, BeginMovesOn DEF HandleFatal
  <2>3. CASE HandleLost
    <3>1. Threaded' /\ DisconnectRetries' /\ NoRetryAfterFatal'
      BY <2>3, <1>t, <1>s DEF HandleLost, Begin, Threaded, DisconnectRetries, NoRetryAfterFatal
    <3>2. pc'["event"] = "test" /\ then'["event"] = "retry"
      BY <2>3, <1>t DEF HandleLost, Begin, Threaded
    <3> QED
      BY <3>1, <3>2 DEF RetryOrMoving
  <2>4. CASE HandleStopped
    BY <2>4, RestartIInv DEF HandleStopped
  <2> QED
    BY <1>3, <2>1, <2>2, <2>3, <2>4 DEF Event
<1>4. CASE Timer
  <2>1. CASE RetryExpires
    BY <2>1, <1>t, <1>s, BeginMovesOn DEF RetryExpires
  <2>2. CASE StableExpires
    <3>1. Threaded' /\ DisconnectRetries' /\ NoRetryAfterFatal'
      BY <2>2, <1>t DEF StableExpires, Threaded, DisconnectRetries, NoRetryAfterFatal
    <3>2. \A u \in Threads : MovesOn(u) => MovesOn(u)'
      BY <2>2, <1>t DEF StableExpires, Threaded, MovesOn
    <3> QED
      BY <2>2, <3>1, <3>2, <1>t DEF StableExpires, RetryOrMoving, Threaded
  <2>3. CASE StableOk
    <3>1. Threaded' /\ DisconnectRetries' /\ NoRetryAfterFatal'
      BY <2>3, <1>t, <1>s, ConstantsOK DEF StableOk, Threaded, DisconnectRetries, NoRetryAfterFatal, timers
    <3>2. MovesOn("timer")'
      BY <2>3, <1>t DEF StableOk, Threaded, MovesOn
    <3> QED
      BY <3>1, <3>2, <1>t DEF RetryOrMoving
  <2>4. CASE StableEmpty
    BY <2>4, <1>t, Returns DEF StableEmpty
  <2>5. CASE StableFails
    BY <2>5, <1>t, Returns DEF StableFails, timers
  <2>6. CASE StableStopped
    BY <2>6, <1>t, Returns, RestartIInv DEF StableStopped, timers
  <2> QED
    BY <1>4, <2>1, <2>2, <2>3, <2>4, <2>5, <2>6 DEF Timer
<1>5. CASE wifi_manager_start
  BY <1>5, <1>t, <1>s, BeginMovesOn DEF wifi_manager_start, timers, Threaded
<1>6. CASE ConnectToSaved
  <2>1. Threaded' /\ DisconnectRetries' /\ NoRetryAfterFatal'
    BY <1>6, <1>t, <1>s DEF ConnectToSaved, Threaded, DisconnectRetries, NoRetryAfterFatal, timers
  <2>2. MovesOn("main")'
    BY <1>6, <1>t DEF ConnectToSaved, Threaded, MovesOn
  <2> QED
    BY <2>1, <2>2, <1>t DEF RetryOrMoving
<1>7. CASE ConnectSkipped
  BY <1>7, <1>t, Returns DEF ConnectSkipped, Return, timers
<1>8. ASSUME NEW t \in Threads, SetState(t) PROVE IInv'
  <2>1. CASE Test(t)
    <3>1. Threaded' /\ DisconnectRetries' /\ NoRetryAfterFatal'
      BY <2>1 DEF Test, Threaded, DisconnectRetries, NoRetryAfterFatal, timers
    <3>2. \A u \in Threads : state = "DISCONNECTED" /\ MovesOn(u) => MovesOn(u)'
      BY <2>1 DEF Test, Threaded, MovesOn
    <3> QED
      BY <2>1, <3>1, <3>2, <1>t DEF Test, RetryOrMoving, Threaded, timers
  <2>2. CASE Write(t)
    <3>1. Threaded' /\ DisconnectRetries' /\ NoRetryAfterFatal'
      BY <2>2 DEF Write, Threaded, DisconnectRetries, NoRetryAfterFatal, timers
    <3>2. state' = "DISCONNECTED" => pc'["event"] = "call" /\ then'["event"] = "retry"
      BY <2>2 DEF Write, Threaded, DisconnectRetries
    <3> QED
      BY <3>1, <3>2 DEF RetryOrMoving
  <2>3. CASE Call(t)
    <3>1. Threaded' /\ DisconnectRetries' /\ NoRetryAfterFatal'
      BY <2>3 DEF Call, Threaded, DisconnectRetries, NoRetryAfterFatal, timers
    <3>2. \A u \in Threads : MovesOn(u) => MovesOn(u)'
      BY <2>3 DEF Call, Threaded, MovesOn
    <3> QED
      BY <2>3, <3>1, <3>2, <1>t DEF Call, RetryOrMoving, Threaded, timers
  <2>4. CASE AfterNothing(t) \/ AfterConnect(t) \/ AfterStable(t)
    BY <2>4, Returns DEF AfterNothing, AfterConnect, AfterStable, Return, timers
  <2>5. CASE AfterRetry(t)
    <3>1. retry' = TRUE /\ arg["event"] = "DISCONNECTED"
      BY <2>5 DEF AfterRetry, schedule_retry, DisconnectRetries
    <3> QED
      BY <2>5, <3>1 DEF AfterRetry, Return, Threaded, DisconnectRetries, RetryOrMoving,
                        NoRetryAfterFatal
  <2>6. CASE AfterStop(t)
    BY <2>6, RestartIInv DEF AfterStop
  <2> QED
    BY <1>8, <2>1, <2>2, <2>3, <2>4, <2>5, <2>6 DEF SetState
<1>9. ASSUME NEW c \in Callers,
             \/ wifi_manager_reconnect(c) \/ wifi_manager_change_network(c)
             \/ wifi_manager_stop(c)
      PROVE  IInv'
  <2>1. c \in Threads /\ c # "event"
    BY <1>t, ConstantsOK
  <2> QED
    BY <1>9, <2>1, <1>s, BeginMovesOn DEF wifi_manager_reconnect, wifi_manager_change_network,
                                         wifi_manager_stop
<1>10. ASSUME NEW c \in Callers, StopAgain(c) \/ StartAgain(c) PROVE IInv'
  BY <1>10, RestartIInv DEF StopAgain, StartAgain
<1> QED
  BY <1>2, <1>3, <1>4, <1>5, <1>6, <1>7, <1>8, <1>9, <1>10 DEF Next

(* The inductive invariant holds in every reachable state.                   *)
THEOREM Inductive == Spec => []IInv
BY InitIInv, NextIInv, PTL DEF Spec

(* A disconnected link has its retry pending whenever all threads are at      *)
(* rest, however many tasks call the API.                                    *)
THEOREM DisconnectedRetries == Spec => []RetryPending
<1>1. IInv => RetryPending
  BY DEF IInv, RetryPending, RetryOrMoving, MovesOn, Quiet, Threads
<1> QED
  BY <1>1, Inductive, PTL

(* After an unrecoverable failure no retry is left to go off.                *)
THEOREM FatalStops == Spec => []FailedStops
<1>1. IInv => FailedStops
  BY DEF IInv, FailedStops, NoRetryAfterFatal
<1> QED
  BY <1>1, Inductive, PTL
-----------------------------------------------------------------------------
(* The retry delay.  get_backoff_delay_ms() is a recursive function; that it  *)
(* is well defined, and what bounds it, is shown by induction over a set of  *)
(* numbers.                                                                  *)

(* Induction over the members of a set, which needs no operator argument.    *)
LEMMA SetInduction ==
  ASSUME NEW T, 0 \in T, \A n \in Nat : n \in T => n + 1 \in T
  PROVE  \A n \in Nat : n \in T
<1> DEFINE R == {p \in Nat \X Nat : p[1] < p[2]}
           Bad == Nat \ T
<1> SUFFICES ASSUME Bad # {} PROVE FALSE
  OBVIOUS
<1>1. IsWellFoundedOn(R, Nat)
  <2>1. OpToRel(<, Nat) = R
    BY Zenon DEF OpToRel
  <2> QED
    BY <2>1, NatLessThanWellFounded
<1>2. PICK x \in Bad : \A y \in Bad : ~(<<y, x>> \in R)
  <2> HIDE DEF R
  <2> QED
    BY <1>1, WFMin
<1>3. x # 0 /\ x - 1 \in Nat /\ (x - 1) + 1 = x /\ <<x - 1, x>> \in R
  OBVIOUS
<1>4. x - 1 \in T
  BY <1>2, <1>3
<1> QED
  BY <1>3, <1>4

(* The first n + 1 delays.                                                   *)
Delays(n) ==
  {g \in [0..n -> Nat] : g[0] = BaseRetry /\ \A k \in 1..n : g[k] = Double(g[k - 1])}

LEMMA DelaysExist == \A n \in Nat : Delays(n) # {}
<1> DEFINE T == {n \in Nat : Delays(n) # {}}
<1>1. 0 \in T
  <2>1. [k \in 0..0 |-> BaseRetry] \in Delays(0)
    BY ConstantsOK DEF Delays
  <2> QED
    BY <2>1
<1>2. ASSUME NEW n \in Nat, n \in T PROVE n + 1 \in T
  <2>1. PICK g \in [0..n -> Nat] : g[0] = BaseRetry /\ \A k \in 1..n : g[k] = Double(g[k - 1])
    BY <1>2 DEF Delays
  <2> DEFINE h == [k \in 0..(n + 1) |-> IF k <= n THEN g[k] ELSE Double(g[n])]
  <2>2. Double(g[n]) \in Nat
    BY ConstantsOK DEF Double
  <2>3. h \in [0..(n + 1) -> Nat] /\ h[0] = BaseRetry
    BY <2>1, <2>2
  <2>4. ASSUME NEW k \in 1..(n + 1) PROVE h[k] = Double(h[k - 1])
    <3>1. CASE k <= n
      BY <2>1, <3>1
    <3>2. CASE k = n + 1
      BY <2>1, <3>2
    <3> QED
      BY <3>1, <3>2
  <2> HIDE DEF h
  <2>5. h \in Delays(n + 1)
    BY <2>3, <2>4 DEF Delays
  <2> QED
    BY <2>5
<1> HIDE DEF T
<1>3. \A n \in Nat : n \in T
  BY <1>1, <1>2, SetInduction
<1> QED
  BY <1>3 DEF T

LEMMA DelaysAgree ==
  ASSUME NEW m \in Nat, NEW n \in Nat, NEW g \in Delays(m), NEW h \in Delays(n)
  PROVE  \A k \in Nat : k <= m /\ k <= n => g[k] = h[k]
<1> DEFINE T == {k \in Nat : k <= m /\ k <= n => g[k] = h[k]}
<1>1. 0 \in T
  BY DEF Delays
<1>2. ASSUME NEW k \in Nat, k \in T PROVE k + 1 \in T
  <2> SUFFICES ASSUME k + 1 <= m, k + 1 <= n PROVE g[k + 1] = h[k + 1]
    OBVIOUS
  <2>1. k + 1 \in 1..m /\ k + 1 \in 1..n /\ (k + 1) - 1 = k
    OBVIOUS
  <2>2. g[k + 1] = Double(g[k]) /\ h[k + 1] = Double(h[k])
    BY <2>1 DEF Delays
  <2> QED
    BY <1>2, <2>1, <2>2
<1> HIDE DEF T
<1>3. \A k \in Nat : k \in T
  BY <1>1, <1>2, SetInduction
<1> QED
  BY <1>3 DEF T

(* The recursive function Backoff is well defined.                           *)
LEMMA BackoffDefined ==
  /\ Backoff \in [Nat -> Nat]
  /\ Backoff[0] = BaseRetry
  /\ \A n \in Nat : Backoff[n + 1] = Double(Backoff[n])
<1> DEFINE d(n) == CHOOSE g : g \in Delays(n)
           f == [n \in Nat |-> d(n)[n]]
<1>1. \A n \in Nat : d(n) \in Delays(n)
  BY DelaysExist
<1> HIDE DEF d
<1>2. f[0] = BaseRetry /\ f \in [Nat -> Nat]
  BY <1>1 DEF Delays
<1>3. ASSUME NEW n \in Nat PROVE f[n + 1] = Double(f[n])
  <2>1. d(n + 1)[n] = d(n)[n]
    BY <1>1, DelaysAgree
  <2>2. d(n + 1)[n + 1] = Double(d(n + 1)[n])
    <3>1. n + 1 \in 1..(n + 1) /\ (n + 1) - 1 = n /\ n + 1 \in Nat
      OBVIOUS
    <3> QED
      BY <1>1, <3>1 DEF Delays
  <2> QED
    BY <2>1, <2>2
<1> HIDE DEF f
<1>4. f = [n \in Nat |-> IF n = 0 THEN BaseRetry ELSE Double(f[n - 1])]
  <2>1. ASSUME NEW n \in Nat PROVE f[n] = IF n = 0 THEN BaseRetry ELSE Double(f[n - 1])
    <3>1. CASE n # 0
      <4>1. n - 1 \in Nat /\ (n - 1) + 1 = n
        BY <3>1
      <4> QED
        BY <1>3, <3>1, <4>1
    <3> QED
      BY <1>2, <3>1
  <2> QED
    BY <1>2, <2>1
<1>5. Backoff = [n \in Nat |-> IF n = 0 THEN BaseRetry ELSE Double(Backoff[n - 1])]
  BY <1>4 DEF Backoff
<1>6. Backoff[0] = BaseRetry
  BY <1>5
<1>7. ASSUME NEW n \in Nat PROVE Backoff[n + 1] = Double(Backoff[n])
  <2>1. n + 1 \in Nat /\ n + 1 # 0 /\ (n + 1) - 1 = n
    OBVIOUS
  <2> QED
    BY <1>5, <2>1
<1> DEFINE T == {n \in Nat : Backoff[n] \in Nat}
<1>8. \A n \in Nat : n \in T
  <2>1. 0 \in T
    BY <1>6, ConstantsOK
  <2>2. ASSUME NEW n \in Nat, n \in T PROVE n + 1 \in T
    BY <1>7, <2>2, ConstantsOK DEF Double
  <2> HIDE DEF T
  <2> QED
    BY <2>1, <2>2, SetInduction
<1> QED
  BY <1>5, <1>6, <1>7, <1>8

(* No delay is shorter than the first, none longer than the cap.             *)
LEMMA BackoffCapped ==
  ASSUME BaseRetry <= MaxRetry
  PROVE  \A n \in Nat : Backoff[n] \in BaseRetry..MaxRetry
<1> DEFINE T == {n \in Nat : Backoff[n] \in BaseRetry..MaxRetry}
<1>1. 0 \in T
  BY BackoffDefined, ConstantsOK
<1>2. ASSUME NEW n \in Nat, n \in T PROVE n + 1 \in T
  BY <1>2, BackoffDefined, ConstantsOK DEF Double
<1> HIDE DEF T
<1>3. \A n \in Nat : n \in T
  BY <1>1, <1>2, SetInduction
<1> QED
  BY <1>3 DEF T

-----------------------------------------------------------------------------
(* The types, in three parts that Threaded leaves open.                      *)
Flags ==
  /\ initialized \in BOOLEAN /\ started \in BOOLEAN /\ timersLive \in BOOLEAN
  /\ stable \in BOOLEAN /\ gate \in BOOLEAN /\ cut \in BOOLEAN
  /\ link \in {"off", "idle", "trying", "up"}

Numbers ==
  /\ retryCount \in 0 .. MaxRetries /\ losses \in 0 .. MaxLosses /\ ops \in 0 .. MaxOps
  /\ delay \in Nat /\ DelayCapped

Reports == {"ip", "other", "no_ap", "auth"}
Queue == events \in Seq(Reports)

LEMMA TypeParts == Threaded /\ Flags /\ Numbers /\ Queue => TypeOK
BY DEF Threaded, Flags, Numbers, Queue, Reports, TypeOK

LEMMA InitParts == Init => Flags /\ Numbers /\ Queue
<1>1. Init => Flags
  BY DEF Init, Flags
<1>2. Init => Numbers
  BY ConstantsOK DEF Init, Numbers, DelayCapped
<1>3. Init => Queue
  BY DEF Init, Queue
<1> QED
  BY <1>1, <1>2, <1>3

LEMMA NextFlags == Threaded /\ Flags /\ [Next]_vars => Flags'
<1> SUFFICES ASSUME Threaded, Flags, [Next]_vars PROVE Flags'
  OBVIOUS
<1> USE DEF Flags, timers, Begin
<1>1. CASE Driver \/ UNCHANGED vars
  BY <1>1 DEF Driver, AttemptOk, AttemptFails, LinkLost, vars
<1>2. ASSUME Panic PROVE Flags'
  BY <1>2 DEF Panic
<1>3. CASE Event
  BY <1>2, <1>3 DEF Event, HandleGotIp, HandleLost, HandleFatal, HandleStopped
<1>4. CASE Timer
  BY <1>2, <1>4 DEF Timer, RetryExpires, StableExpires, StableOk, StableEmpty, StableFails,
          StableStopped
<1>5. CASE wifi_manager_start \/ ConnectToSaved \/ ConnectSkipped
  BY <1>5 DEF wifi_manager_start, ConnectToSaved, ConnectSkipped, Return
<1>6. ASSUME NEW t \in Threads, SetState(t) PROVE Flags'
  <2>1. CASE Test(t) \/ Write(t)
    BY <2>1 DEF Test, Write
  <2>2. CASE Call(t)
    BY <2>2 DEF Call
  <2>3. CASE AfterNothing(t) \/ AfterConnect(t)
    BY <2>3 DEF AfterNothing, AfterConnect, Return, esp_wifi_connect
  <2>4. CASE AfterRetry(t) \/ AfterStable(t)
    BY <2>4 DEF AfterRetry, AfterStable, Return
  <2>5. CASE AfterStop(t)
    BY <1>2, <2>5 DEF AfterStop
  <2> QED
    BY <1>6, <2>1, <2>2, <2>3, <2>4, <2>5 DEF SetState
<1>7. ASSUME NEW c \in Callers, wifi_manager_reconnect(c) \/ wifi_manager_change_network(c)
      PROVE  Flags'
  BY <1>7 DEF wifi_manager_reconnect, wifi_manager_change_network, Leave
<1>8. ASSUME NEW c \in Callers, wifi_manager_stop(c) PROVE Flags'
  BY <1>8 DEF wifi_manager_stop, Leave
<1>9. ASSUME NEW c \in Callers, StopAgain(c) \/ StartAgain(c) PROVE Flags'
  BY <1>2, <1>9 DEF StopAgain, StartAgain
<1> QED
  BY <1>1, <1>3, <1>4, <1>5, <1>6, <1>7, <1>8, <1>9 DEF Next

(* schedule_retry() keeps count and delay within their limits; the others    *)
(* leave the delay alone and at most reset the count.                        *)
LEMMA NextNumbers == Numbers /\ [Next]_vars => Numbers'
<1> SUFFICES ASSUME Numbers, [Next]_vars PROVE Numbers'
  OBVIOUS
<1> USE DEF timers
<1>1. ASSUME retryCount' \in {0, retryCount}, UNCHANGED delay,
             losses' \in {losses, losses + 1}, losses' <= MaxLosses,
             ops' \in {ops, ops + 1}, ops' <= MaxOps
      PROVE  Numbers'
  BY <1>1, ConstantsOK DEF Numbers, DelayCapped
<1>2. losses <= MaxLosses /\ ops <= MaxOps /\ losses \in Int /\ ops \in Int
  BY ConstantsOK DEF Numbers
<1>3. ASSUME Panic PROVE Numbers'
  BY <1>2, <1>3, ConstantsOK DEF Panic, Numbers, DelayCapped
<1>4. CASE Driver \/ UNCHANGED vars
  BY <1>1, <1>2, <1>4, ConstantsOK DEF Driver, AttemptOk, AttemptFails, LinkLost, vars
<1>5. CASE Event
  BY <1>1, <1>2, <1>3, <1>5 DEF Event, HandleGotIp, HandleLost, HandleFatal, HandleStopped
<1>6. CASE Timer
  BY <1>1, <1>2, <1>3, <1>6
     DEF Timer, RetryExpires, StableExpires, StableOk, StableEmpty, StableFails,
          StableStopped
<1>7. CASE wifi_manager_start \/ ConnectToSaved \/ ConnectSkipped
  BY <1>1, <1>2, <1>7 DEF wifi_manager_start, ConnectToSaved, ConnectSkipped, Return
<1>8. ASSUME NEW t \in Threads, SetState(t) PROVE Numbers'
  <2>1. CASE Test(t) \/ Write(t) \/ Call(t)
    BY <1>1, <1>2, <2>1 DEF Test, Write, Call
  <2>2. CASE AfterNothing(t) \/ AfterConnect(t) \/ AfterStable(t)
    BY <1>1, <1>2, <2>2 DEF AfterNothing, AfterConnect, AfterStable, Return
  <2>3. CASE AfterRetry(t)
    <3>1. PICK n \in 0..(MaxRetries - 1) : retryCount' = n + 1 /\ delay' = Backoff[n]
      BY <2>3, ConstantsOK DEF AfterRetry, schedule_retry, get_backoff_delay_ms, Numbers
    <3>2. delay' \in Nat /\ DelayCapped'
      BY <3>1, BackoffDefined, BackoffCapped, ConstantsOK DEF DelayCapped
    <3> QED
      BY <2>3, <3>1, <3>2, ConstantsOK DEF AfterRetry, Return, Numbers
  <2>4. CASE AfterStop(t)
    BY <1>3, <2>4 DEF AfterStop
  <2> QED
    BY <1>8, <2>1, <2>2, <2>3, <2>4 DEF SetState
<1>9. ASSUME NEW c \in Callers,
             \/ wifi_manager_reconnect(c) \/ wifi_manager_change_network(c)
             \/ wifi_manager_stop(c)
      PROVE  Numbers'
  BY <1>1, <1>2, <1>9, ConstantsOK
     DEF wifi_manager_reconnect, wifi_manager_change_network, wifi_manager_stop, Operation
<1>10. ASSUME NEW c \in Callers, StopAgain(c) \/ StartAgain(c) PROVE Numbers'
  BY <1>3, <1>10 DEF StopAgain, StartAgain
<1> QED
  BY <1>4, <1>5, <1>6, <1>7, <1>8, <1>9, <1>10 DEF Next

LEMMA NextQueue == Queue /\ [Next]_vars => Queue'
<1> SUFFICES ASSUME Queue, [Next]_vars PROVE Queue'
  OBVIOUS
<1>1. ASSUME NEW r \in Reports, events' = Append(events, r) PROVE Queue'
  BY <1>1 DEF Queue
<1>2. ASSUME events # <<>>, events' = Tail(events) PROVE Queue'
  BY <1>2, HeadTailProperties DEF Queue
<1>3. ASSUME Panic \/ UNCHANGED events PROVE Queue'
  <2>1. <<>> \in Seq(Reports)
    BY EmptySeq
  <2>2. events' \in {<<>>, events}
    BY <1>3 DEF Panic
  <2> QED
    BY <2>1, <2>2 DEF Queue
<1>4. CASE Driver
  BY <1>1, <1>4, ConstantsOK DEF Driver, AttemptOk, AttemptFails, LinkLost, Reports
<1>5. CASE Event
  BY <1>2, <1>3, <1>5 DEF Event, HandleGotIp, HandleLost, HandleFatal, HandleStopped
<1>6. CASE Timer \/ wifi_manager_start \/ ConnectToSaved \/ ConnectSkipped \/ UNCHANGED vars
  BY <1>3, <1>6 DEF Timer, RetryExpires, StableExpires, StableOk, StableEmpty, StableFails,
                    StableStopped, wifi_manager_start, ConnectToSaved, ConnectSkipped, Return, vars
<1>7. ASSUME NEW t \in Threads, SetState(t) PROVE Queue'
  BY <1>3, <1>7 DEF SetState, Test, Write, Call, AfterNothing, AfterConnect, AfterRetry,
                    AfterStable, AfterStop, Return
<1>8. ASSUME NEW to, Leave(to) PROVE Queue'
  BY <1>1, <1>3, <1>8 DEF Leave, Reports
<1>9. ASSUME NEW c \in Callers,
             \/ wifi_manager_reconnect(c) \/ wifi_manager_change_network(c)
             \/ wifi_manager_stop(c)
      PROVE  Queue'
  BY <1>3, <1>8, <1>9 DEF wifi_manager_reconnect, wifi_manager_change_network, wifi_manager_stop
<1>10. ASSUME NEW c \in Callers, StopAgain(c) \/ StartAgain(c) PROVE Queue'
  BY <1>3, <1>10 DEF StopAgain, StartAgain
<1> QED
  BY <1>4, <1>5, <1>6, <1>7, <1>9, <1>10 DEF Next

LEMMA Typed == Spec => [](Flags /\ Numbers /\ Queue)
<1>1. IInv => Threaded
  BY DEF IInv
<1> QED
  BY <1>1, Inductive, InitParts, NextFlags, NextNumbers, NextQueue, PTL DEF Spec

(* Every variable keeps its type; the retry count stays within max_retries.  *)
THEOREM TypeCorrect == Spec => []TypeOK
<1>1. IInv => Threaded
  BY DEF IInv
<1> QED
  BY <1>1, Inductive, Typed, TypeParts, PTL

(* The delay is never below base_retry_ms nor above max_retry_ms, for every  *)
(* configuration in which the first does not exceed the second.              *)
THEOREM DelaysCapped == Spec => []DelayCapped
<1>1. Numbers => DelayCapped
  BY DEF Numbers
<1> QED
  BY <1>1, Typed, PTL
-----------------------------------------------------------------------------
(* When no task calls the API there is one attempt to connect at a time.  It  *)
(* passes from app_main() to the driver, comes back as a disconnection, goes  *)
(* from the event task to the retry timer, and from the timer task to the     *)
(* driver again; it ends in FAILED.  These are its stages:                    *)

InSetState(t) == pc[t] \in {"test", "write", "call", "after"}

(* What waits for the event task.                                            *)
Waiting == Len(events)
First == events[1]
Last == events[Len(events)]

AtBoot == ~started \/ (pc["main"] # "idle" /\ then["main"] # "none")
WithDriver == link \in {"trying", "up"}
Reported == Waiting # 0 /\ Last # "ip"
WithEventTask == pc["event"] # "idle" /\ then["event"] = "retry"
\* ... retry ...
WithTimerTask == InSetState("timer") /\ then["timer"] = "connect"

OneAttempt ==
  /\ AtBoot => ~WithDriver /\ ~Reported /\ ~WithEventTask /\ ~retry /\ ~WithTimerTask
  /\ WithDriver => ~Reported /\ ~WithEventTask /\ ~retry /\ ~WithTimerTask
  /\ Reported => ~WithEventTask /\ ~retry /\ ~WithTimerTask
  /\ WithEventTask => ~retry /\ ~WithTimerTask
  /\ retry => ~WithTimerTask

(* What each thread does.                                                    *)
Roles ==
  /\ \A t \in Threads : arg[t] = "CONNECTING" => then[t] = "connect"
  /\ then["main"] \in {"none", "saved", "connect"}
  /\ then["timer"] \in {"none", "connect"}
  /\ then["event"] \in {"none", "stable", "retry"}

(* The radio and the timers are there from the start on.                     *)
Booted ==
  /\ initialized = started /\ timersLive = started
  /\ (link = "off") <=> ~started
  /\ ~started => ~stable /\ \A t \in Threads : pc[t] = "idle"

(* An address comes before the disconnection that ends its link.             *)
InOrder ==
  /\ Waiting \in 0..2
  /\ Waiting = 2 => First = "ip" /\ Last # "ip"
  /\ Waiting = 1 /\ First = "ip" => link = "up"
  /\ link = "trying" => Waiting = 0

(* The event task is at rest while an attempt is made or waited for.         *)
EventTaskRests ==
  pc["event"] # "idle" => ~AtBoot /\ ~retry /\ ~WithTimerTask /\ link # "trying"

(* CONNECTING is the state of an attempt that is made, or whose end has not  *)
(* been written yet.                                                         *)
ConnectingAttempt ==
  state = "CONNECTING" =>
    \/ InSetState("main") /\ then["main"] = "connect"
    \/ WithTimerTask \/ link = "trying"
    \/ Waiting # 0 \/ pc["event"] \in {"test", "write"}

AttemptInv ==
  OneAttempt /\ Roles /\ Booted /\ InOrder /\ EventTaskRests /\ ConnectingAttempt

LEMMA QueueShape ==
  ASSUME Queue
  PROVE  Waiting \in Nat /\ (events = <<>> <=> Waiting = 0) /\ (Waiting = 1 => First = Last)
<1>1. Len(events) \in Nat /\ (events = <<>> <=> Len(events) = 0)
  BY EmptySeq, LenProperties DEF Queue
<1> QED
  BY <1>1 DEF Waiting, First, Last

(* The driver appends an event.                                              *)
LEMMA EventAppended ==
  ASSUME Queue, NEW r \in Reports, events' = Append(events, r)
  PROVE  /\ Waiting' = Waiting + 1 /\ Last' = r
         /\ Waiting = 0 => First' = r
         /\ Waiting = 1 => First' = First
<1>1. /\ Len(events) \in Nat /\ Len(events') = Len(events) + 1
      /\ events'[Len(events) + 1] = r
      /\ \A i \in 1..Len(events) : events'[i] = events[i]
  BY AppendProperties, LenProperties DEF Queue
<1> QED
  BY <1>1 DEF Waiting, First, Last

(* The event task takes the first one.                                       *)
LEMMA EventTaken ==
  ASSUME Queue, events # <<>>, events' = Tail(events)
  PROVE  /\ Head(events) = First /\ Waiting # 0 /\ Waiting' = Waiting - 1
         /\ Waiting = 2 => First' = Last /\ Last' = Last
<1>1. Len(events) \in Nat /\ Len(events) # 0 /\ Head(events) = events[1]
  BY EmptySeq, LenProperties DEF Queue
<1>2. /\ Len(events') = Len(events) - 1
      /\ \A i \in 1..Len(events') : events'[i] = events[i + 1]
  BY HeadTailProperties DEF Queue
<1> QED
  BY <1>1, <1>2 DEF Waiting, First, Last

LEMMA InitAttempt == Init => AttemptInv
<1> SUFFICES ASSUME Init PROVE AttemptInv
  OBVIOUS
<1>1. Waiting = 0
  BY QueueShape, InitParts DEF Init
<1>2. OneAttempt /\ EventTaskRests
  BY <1>1 DEF Init, OneAttempt, EventTaskRests, AtBoot, WithDriver, Reported, WithEventTask,
              WithTimerTask, InSetState, Threads
<1>3. Roles /\ Booted
  BY DEF Init, Roles, Booted, Threads
<1>4. InOrder /\ ConnectingAttempt
  BY <1>1 DEF Init, InOrder, ConnectingAttempt
<1> QED
  BY <1>2, <1>3, <1>4 DEF AttemptInv

LEMMA NextAttempt ==
  ASSUME Callers = {}, Threaded, Flags, Queue, AttemptInv, [Next]_vars
  PROVE  AttemptInv'
<1> USE DEF AttemptInv, OneAttempt, Roles, Booted, InOrder, EventTaskRests, ConnectingAttempt,
            AtBoot, WithDriver, Reported, WithEventTask, WithTimerTask, InSetState, timers, thread
<1>t. Threads = {"event", "timer", "main"}
  BY DEF Threads
<1>s. States = {"IDLE", "CONNECTING", "CONNECTED", "CONNECTED_WITH_DNS",
                "DISCONNECTED", "FAILED"}
  BY DEF States
<1>n. Waiting \in {0, 1, 2} /\ (Waiting = 1 => First = Last)
  BY QueueShape
<1>e. Waiting # 0 => (Waiting = 1 /\ First = "ip" /\ link = "up") \/ Reported
  BY <1>n
<1>u. UNCHANGED events => UNCHANGED <<Waiting, First, Last>>
  BY DEF Waiting, First, Last
<1>1. CASE AttemptOk
  <2>1. Waiting' = 1 /\ First' = "ip" /\ Last' = "ip"
    BY <1>1, EventAppended DEF AttemptOk, Reports
  <2> QED
    BY <1>1, <2>1, <1>t DEF AttemptOk
<1>2. CASE LinkLost
  <2>1. Waiting = 0 \/ (Waiting = 1 /\ First = "ip")
    <3>1. link = "up"
      BY <1>2 DEF LinkLost
    <3> QED
      BY <3>1, <1>e
  <2>2. /\ Waiting' = Waiting + 1 /\ Last' = "other"
        /\ Waiting = 0 => First' = "other"
        /\ Waiting = 1 => First' = "ip"
    BY <1>2, <2>1, EventAppended DEF LinkLost, Reports
  <2> QED
    BY <1>2, <2>1, <2>2, <1>t DEF LinkLost
<1>3. ASSUME NEW r \in Reasons, AttemptFails(r) PROVE AttemptInv'
  <2>1. r \in Reports /\ r # "ip"
    BY ConstantsOK DEF Reports
  <2>2. Waiting' = 1 /\ First' = r /\ Last' = r
    BY <1>3, <2>1, EventAppended DEF AttemptFails
  <2> QED
    BY <1>3, <2>1, <2>2, <1>t DEF AttemptFails
<1>4. CASE HandleGotIp
  <2>1. /\ First = "ip" /\ Waiting # 0 /\ Waiting' = Waiting - 1
        /\ Waiting = 2 => First' = Last /\ Last' = Last
    BY <1>4, EventTaken DEF HandleGotIp
  <2>2. (Reported' <=> Reported) /\ InOrder'
    BY <1>4, <1>n, <1>e, <2>1 DEF HandleGotIp
  <2>3. ~AtBoot /\ ~retry /\ ~WithTimerTask /\ link # "trying" /\ pc["event"] = "idle"
    BY <1>4, <1>e, <2>1 DEF HandleGotIp, Begin
  <2>4. /\ pc'["event"] = "test" /\ arg'["event"] = "CONNECTED" /\ then'["event"] = "stable"
        /\ \A t \in Threads : t # "event" =>
             pc'[t] = pc[t] /\ arg'[t] = arg[t] /\ then'[t] = then[t]
    BY <1>4, <1>t DEF HandleGotIp, Begin, Threaded
  <2> QED
    BY <1>4, <2>2, <2>3, <2>4, <1>t DEF HandleGotIp
<1>5. ASSUME HandleLost \/ HandleFatal PROVE AttemptInv'
  <2>1. First # "ip" /\ Waiting # 0 /\ Waiting' = Waiting - 1
    BY <1>5, EventTaken DEF HandleLost, HandleFatal
  <2>2. Waiting = 1 /\ Reported /\ Waiting' = 0
    BY <1>n, <1>e, <2>1
  <2>3. ~AtBoot /\ ~WithDriver /\ ~retry /\ ~WithTimerTask /\ pc["event"] = "idle"
    BY <1>5, <2>2 DEF HandleLost, HandleFatal, Begin
  <2>4. /\ pc'["event"] = "test" /\ arg'["event"] # "CONNECTING"
        /\ then'["event"] \in {"none", "retry"}
        /\ \A t \in Threads : t # "event" =>
             pc'[t] = pc[t] /\ arg'[t] = arg[t] /\ then'[t] = then[t]
    BY <1>5, <1>t DEF HandleLost, HandleFatal, Begin, Threaded
  <2>5. UNCHANGED <<initialized, timersLive, started, link, state>> /\ ~retry' /\ stable' = FALSE
    BY <1>5, <2>3 DEF HandleLost, HandleFatal
  <2> QED
    BY <2>2, <2>3, <2>4, <2>5, <1>t
<1>6. ~HandleStopped
  <2>1. HandleStopped => Waiting # 0 /\ ~started
    BY QueueShape DEF HandleStopped
  <2> QED
    BY <2>1, <1>e
<1>8. CASE RetryExpires
  BY <1>8, <1>n, <1>u, <1>t DEF RetryExpires, Begin, Threaded
<1>9. CASE StableExpires
  BY <1>9, <1>n, <1>u, <1>t DEF StableExpires, Threaded
<1>10. CASE StableOk
  BY <1>10, <1>n, <1>u, <1>t DEF StableOk, Threaded
<1>11. CASE StableEmpty
  BY <1>11, <1>n, <1>u, <1>t DEF StableEmpty, Threaded
<1>7. CASE StableFails
  BY <1>7, <1>n, <1>u, <1>t DEF StableFails, Threaded
<1>12. ~StableStopped
  BY <1>t DEF StableStopped
<1>13. CASE wifi_manager_start
  BY <1>13, <1>n, <1>e, <1>u, <1>t DEF wifi_manager_start, Begin, Threaded
<1>14. CASE ConnectToSaved
  BY <1>14, <1>n, <1>e, <1>u, <1>t DEF ConnectToSaved, Threaded
<1>15. ~ConnectSkipped
  BY <1>t DEF ConnectSkipped, Return
<1>16. ASSUME NEW t \in Threads, Test(t) PROVE AttemptInv'
  BY <1>16, <1>n, <1>u, <1>t DEF Test, Threaded
<1>17. ASSUME NEW t \in Threads, Write(t) PROVE AttemptInv'
  BY <1>17, <1>n, <1>u, <1>t DEF Write, Threaded
<1>18. ASSUME NEW t \in Threads, Call(t) PROVE AttemptInv'
  BY <1>18, <1>n, <1>u, <1>t DEF Call, Threaded
<1>19. ASSUME NEW t \in Threads, AfterNothing(t) PROVE AttemptInv'
  BY <1>19, <1>n, <1>u, <1>t DEF AfterNothing, Return, Threaded
<1>20. ASSUME NEW t \in Threads, AfterConnect(t) PROVE AttemptInv'
  <2>1. /\ t \in {"main", "timer"} /\ started
        /\ (t = "main" => AtBoot) /\ (t = "timer" => WithTimerTask)
    BY <1>20, <1>t DEF AfterConnect, Return
  <2>2. ~WithDriver /\ ~Reported /\ ~retry /\ pc["event"] = "idle"
    BY <2>1, <1>20, <1>t DEF AfterConnect, Return
  <2>3. link = "idle" /\ Waiting = 0
    BY <2>1, <2>2, <1>e DEF Flags
  <2>4. /\ link' = "trying" /\ pc' = [pc EXCEPT ![t] = "idle"]
        /\ UNCHANGED <<initialized, timersLive, state, started, events, arg, then, retry, stable>>
    BY <1>20, <2>3 DEF AfterConnect, Return, esp_wifi_connect
  <2> QED
    BY <2>1, <2>2, <2>3, <2>4, <1>u, <1>t DEF Threaded
<1>21. ASSUME NEW t \in Threads, AfterRetry(t) PROVE AttemptInv'
  BY <1>21, <1>n, <1>u, <1>t DEF AfterRetry, Return, schedule_retry, Threaded
<1>22. ASSUME NEW t \in Threads, AfterStable(t) PROVE AttemptInv'
  BY <1>22, <1>n, <1>u, <1>t DEF AfterStable, Return, Threaded
<1>23. ASSUME NEW t \in Threads PROVE ~AfterStop(t)
  BY <1>t DEF AfterStop
<1>24. CASE UNCHANGED vars
  BY <1>24, <1>u DEF vars
<1> QED
  BY <1>1, <1>2, <1>3, <1>4, <1>5, <1>6, <1>7, <1>8, <1>9, <1>10, <1>11, <1>12, <1>13,
     <1>14, <1>15, <1>16, <1>17, <1>18, <1>19, <1>20, <1>21, <1>22, <1>23, <1>24
     DEF Next, Driver, Event, Timer, SetState

(* One attempt at a time, which only the user can multiply.                  *)
THEOREM SingleAttempt ==
  ASSUME Callers = {}
  PROVE  Spec => []AttemptInv
<1>1. IInv => Threaded
  BY DEF IInv
<1>2. Threaded /\ Flags /\ Queue /\ AttemptInv /\ [Next]_vars => AttemptInv'
  BY NextAttempt
<1> QED
  BY <1>1, <1>2, InitAttempt, Inductive, Typed, PTL DEF Spec

(* Unless a task calls the API, the manager does not rest in CONNECTING with *)
(* nobody trying.                                                            *)
THEOREM ConnectingMovesOn ==
  ASSUME Callers = {}
  PROVE  Spec => []ConnectingProgress
<1>1. AttemptInv /\ Queue => ConnectingProgress
  <2> SUFFICES ASSUME AttemptInv, Queue, Quiet, state = "CONNECTING" PROVE link = "trying"
    BY DEF ConnectingProgress
  <2>1. Waiting = 0 /\ \A t \in Threads : pc[t] = "idle"
    BY QueueShape DEF Quiet
  <2> QED
    BY <2>1 DEF AttemptInv, ConnectingAttempt, WithTimerTask, InSetState, Threads
<1> QED
  BY <1>1, SingleAttempt, Typed, PTL
=============================================================================
