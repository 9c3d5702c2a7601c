-------------------------- MODULE HttpClientProofs --------------------------
(***************************************************************************)
(* Proofs about HttpClient for every set of callers and URLs and every      *)
(* queue depth.  The properties are not inductive by themselves: that the   *)
(* worker never touches a freed item needs to know that the item's caller   *)
(* still waits, which needs to know that an item is in one place only       *)
(* (ItemInOnePlace), what it holds there (ItemContents) and which objects   *)
(* exist meanwhile (HeapExact).  IInv is the conjunction of these.          *)
(***************************************************************************)
EXTENDS HttpClient, TLAPS

\* Nothing is queued, held or allocated before http_client_init().
LEMMA InitIInv == Init => IInv
<1> SUFFICES ASSUME Init PROVE IInv
  OBVIOUS
<1>0. queue \in Seq(Callers) /\ Len(queue) = 0 /\ DOMAIN queue = {} /\ ~Busy
  BY DEF Init, Busy
<1>1. TypeOK
  <2>1. Len(queue) <= QueueDepth
    BY <1>0, ConstantsOK
  <2>2. heap \in [Callers -> SUBSET Kinds]
    BY DEF Init
  <2>3. /\ pc \in [Callers -> {"idle", "create", "send", "take", "return"}]
        /\ url \in [Callers -> Urls \cup {Nil}] /\ item \in [Callers -> Urls \cup {Nil}]
        /\ result \in [Callers -> Urls \cup {Failed, Nil}] /\ out \in [Callers -> Urls \cup {Failed, Nil}]
        /\ sem \in [Callers -> BOOLEAN]
    BY DEF Init
  <2> QED BY <1>0, <2>1, <2>2, <2>3 DEF Init, TypeOK
<1>2. ItemInOnePlace
  BY <1>0 DEF Init, ItemInOnePlace, Queued, Held
<1>3. ItemContents
  BY <1>0 DEF Init, ItemContents, Held
<1>4. HeapExact
  BY <1>0 DEF Init, HeapExact, Answered, Held
<1> QED BY <1>1, <1>2, <1>3, <1>4 DEF IInv

\* Every step of the initialisation, of the worker and of a caller preserves
\* the strengthened invariant.
LEMMA NextIInv == IInv /\ [Next]_vars => IInv'
<1> SUFFICES ASSUME IInv, [Next]_vars PROVE IInv'
  OBVIOUS
<1> USE ConstantsOK DEF IInv
<1>1. ASSUME http_client_init PROVE IInv'
  <2>1. TypeOK'
    BY <1>1 DEF http_client_init, TypeOK, Kinds, ItemContents, Busy, callerVars, workerVars
  <2>2. ItemInOnePlace'
    BY <1>1 DEF http_client_init, ItemInOnePlace, ItemContents, TypeOK, Queued, Held, Busy, callerVars, workerVars
  <2>3. ItemContents'
    BY <1>1 DEF http_client_init, ItemContents, TypeOK, ItemInOnePlace, Queued, Held, Busy, callerVars, workerVars
  <2>4. HeapExact'
    BY <1>1 DEF http_client_init, HeapExact, Answered, TypeOK, ItemInOnePlace, ItemContents, Queued, Held, Busy, Kinds, callerVars, workerVars
  <2> QED BY <2>1, <2>2, <2>3, <2>4
<1>2. ASSUME Receive PROVE IInv'
  <2>1. TypeOK'
    BY <1>2 DEF Receive, TypeOK, Kinds, ItemContents, Busy, callerVars, workerVars
  <2>2. ItemInOnePlace'
    <3>1. /\ Len(queue) \in Nat \ {0} /\ Len(queue') = Len(queue) - 1
          /\ DOMAIN queue = 1 .. Len(queue) /\ DOMAIN queue' = 1 .. Len(queue')
          /\ \A i \in DOMAIN queue' : i + 1 \in DOMAIN queue /\ queue'[i] = queue[i + 1]
          /\ cur' = queue[1] /\ 1 \in DOMAIN queue
          /\ \A i \in DOMAIN queue : queue[i] \in Callers
      BY <1>2 DEF Receive, TypeOK
    <3>2. \A i \in DOMAIN queue : i = 1 \/ (i - 1 \in DOMAIN queue' /\ queue'[i - 1] = queue[i])
      BY <3>1
    <3>3. ~Busy /\ Busy' /\ UNCHANGED <<sem, pc>>
      BY <1>2 DEF Receive, Busy, callerVars
    <3>4. \A i, j \in DOMAIN queue' : queue'[i] = queue'[j] => i = j
      BY <3>1 DEF ItemInOnePlace
    <3>5. ASSUME NEW c \in Callers PROVE (Queued(c)' \/ Held(c)') <=> Queued(c)
      BY <3>1, <3>2, <3>3 DEF Queued, Held
    <3>6. ASSUME NEW c \in Callers PROVE ~(Queued(c)' /\ Held(c)')
      BY <3>1, <3>3 DEF Queued, Held, ItemInOnePlace
    <3>7. \A c \in Callers : ~Held(c)
      BY <3>3 DEF Held
    <3> QED BY <3>3, <3>4, <3>5, <3>6, <3>7 DEF ItemInOnePlace
  <2>3. ItemContents'
    BY <1>2 DEF Receive, ItemContents, TypeOK, ItemInOnePlace, Queued, Held, Busy, callerVars, workerVars
  <2>4. HeapExact'
    BY <1>2 DEF Receive, HeapExact, Answered, TypeOK, ItemInOnePlace, ItemContents, Queued, Held, Busy, Kinds, callerVars, workerVars
  <2> QED BY <2>1, <2>2, <2>3, <2>4
<1>3. ASSUME OpenFails PROVE IInv'
  <2>1. TypeOK'
    BY <1>3 DEF OpenFails, TypeOK, Kinds, ItemContents, Busy, callerVars, workerVars
  <2>2. ItemInOnePlace'
    BY <1>3 DEF OpenFails, ItemInOnePlace, TypeOK, Queued, Held, Busy, callerVars, workerVars
  <2>3. ItemContents'
    BY <1>3 DEF OpenFails, ItemContents, TypeOK, ItemInOnePlace, Queued, Held, Busy, callerVars, workerVars
  <2>4. HeapExact'
    BY <1>3 DEF OpenFails, HeapExact, Answered, TypeOK, ItemInOnePlace, ItemContents, Queued, Held, Busy, Kinds, callerVars, workerVars
  <2> QED BY <2>1, <2>2, <2>3, <2>4
<1>4. ASSUME Open PROVE IInv'
  <2>1. TypeOK'
    BY <1>4 DEF Open, TypeOK, Kinds, ItemContents, Busy, callerVars, workerVars
  <2>2. ItemInOnePlace'
    BY <1>4 DEF Open, ItemInOnePlace, TypeOK, Queued, Held, Busy, callerVars, workerVars
  <2>3. ItemContents'
    BY <1>4 DEF Open, ItemContents, TypeOK, ItemInOnePlace, Queued, Held, Busy, callerVars, workerVars
  <2>4. HeapExact'
    BY <1>4 DEF Open, HeapExact, Answered, TypeOK, ItemInOnePlace, ItemContents, Queued, Held, Busy, Kinds, callerVars, workerVars
  <2> QED BY <2>1, <2>2, <2>3, <2>4
<1>5. ASSUME Perform PROVE IInv'
  <2>1. TypeOK'
    <3>1. PICK body \in SUBSET {"rx"} : heap' = [heap EXCEPT ![cur] = @ \cup body]
      BY <1>5 DEF Perform
    <3>2. cur \in Callers
      BY <1>5 DEF Perform, ItemContents, Busy
    <3>3. body \subseteq Kinds
      BY DEF Kinds
    <3>4. heap' \in [Callers -> SUBSET Kinds]
      BY <3>1, <3>2, <3>3 DEF TypeOK
    <3> QED BY <1>5, <3>4 DEF Perform, TypeOK, callerVars
  <2>2. ItemInOnePlace'
    BY <1>5 DEF Perform, ItemInOnePlace, TypeOK, Queued, Held, Busy, callerVars, workerVars
  <2>3. ItemContents'
    BY <1>5 DEF Perform, ItemContents, TypeOK, ItemInOnePlace, Queued, Held, Busy, callerVars, workerVars
  <2>4. HeapExact'
    BY <1>5 DEF Perform, HeapExact, Answered, TypeOK, ItemInOnePlace, ItemContents, Queued, Held, Busy, Kinds, callerVars, workerVars
  <2> QED BY <2>1, <2>2, <2>3, <2>4
<1>6. ASSUME FinishOk PROVE IInv'
  <2>1. TypeOK'
    BY <1>6 DEF FinishOk, TypeOK, Kinds, ItemContents, Busy, callerVars, workerVars
  <2>2. ItemInOnePlace'
    BY <1>6 DEF FinishOk, ItemInOnePlace, TypeOK, Queued, Held, Busy, callerVars, workerVars
  <2>3. ItemContents'
    BY <1>6 DEF FinishOk, ItemContents, TypeOK, ItemInOnePlace, Queued, Held, Busy, callerVars, workerVars
  <2>4. HeapExact'
    BY <1>6 DEF FinishOk, HeapExact, Answered, TypeOK, ItemInOnePlace, ItemContents, Queued, Held, Busy, Kinds, callerVars, workerVars
  <2> QED BY <2>1, <2>2, <2>3, <2>4
<1>7. ASSUME FinishFailed PROVE IInv'
  <2>1. TypeOK'
    BY <1>7 DEF FinishFailed, TypeOK, Kinds, ItemContents, Busy, callerVars, workerVars
  <2>2. ItemInOnePlace'
    BY <1>7 DEF FinishFailed, ItemInOnePlace, TypeOK, Queued, Held, Busy, callerVars, workerVars
  <2>3. ItemContents'
    BY <1>7 DEF FinishFailed, ItemContents, TypeOK, ItemInOnePlace, Queued, Held, Busy, callerVars, workerVars
  <2>4. HeapExact'
    BY <1>7 DEF FinishFailed, HeapExact, Answered, TypeOK, ItemInOnePlace, ItemContents, Queued, Held, Busy, Kinds, callerVars, workerVars
  <2> QED BY <2>1, <2>2, <2>3, <2>4
<1>8. ASSUME Give PROVE IInv'
  <2>1. TypeOK'
    BY <1>8 DEF Give, TypeOK, Kinds, ItemContents, Busy, callerVars, workerVars
  <2>2. ItemInOnePlace'
    BY <1>8 DEF Give, ItemInOnePlace, TypeOK, Queued, Held, Busy, callerVars, workerVars
  <2>3. ItemContents'
    BY <1>8 DEF Give, ItemContents, TypeOK, ItemInOnePlace, Queued, Held, Busy, callerVars, workerVars
  <2>4. HeapExact'
    BY <1>8 DEF Give, HeapExact, Answered, TypeOK, ItemInOnePlace, ItemContents, Queued, Held, Busy, Kinds, callerVars, workerVars
  <2> QED BY <2>1, <2>2, <2>3, <2>4
<1>9. ASSUME NEW c \in Callers, NEW u \in Urls, Enter(c, u) PROVE IInv'
  <2>1. TypeOK'
    BY <1>9 DEF Enter, TypeOK, Kinds, ItemContents, Busy, callerVars, workerVars
  <2>2. ItemInOnePlace'
    BY <1>9 DEF Enter, ItemInOnePlace, TypeOK, Queued, Held, Busy, callerVars, workerVars
  <2>3. ItemContents'
    BY <1>9 DEF Enter, ItemContents, TypeOK, ItemInOnePlace, Queued, Held, Busy, callerVars, workerVars
  <2>4. HeapExact'
    BY <1>9 DEF Enter, HeapExact, Answered, TypeOK, ItemInOnePlace, ItemContents, Queued, Held, Busy, Kinds, callerVars, workerVars
  <2> QED BY <2>1, <2>2, <2>3, <2>4
<1>10. ASSUME NEW c \in Callers, NEW u \in Urls, EnterRefused(c, u) PROVE IInv'
  <2>1. TypeOK'
    BY <1>10 DEF EnterRefused, TypeOK, Kinds, ItemContents, Busy, callerVars, workerVars
  <2>2. ItemInOnePlace'
    BY <1>10 DEF EnterRefused, ItemInOnePlace, TypeOK, Queued, Held, Busy, callerVars, workerVars
  <2>3. ItemContents'
    BY <1>10 DEF EnterRefused, ItemContents, TypeOK, ItemInOnePlace, Queued, Held, Busy, callerVars, workerVars
  <2>4. HeapExact'
    BY <1>10 DEF EnterRefused, HeapExact, Answered, TypeOK, ItemInOnePlace, ItemContents, Queued, Held, Busy, Kinds, callerVars, workerVars
  <2> QED BY <2>1, <2>2, <2>3, <2>4
<1>11. ASSUME NEW c \in Callers, work_item_create(c) PROVE IInv'
  <2>1. TypeOK'
    BY <1>11 DEF work_item_create, TypeOK, Kinds, ItemContents, Busy, callerVars, workerVars
  <2>2. ItemInOnePlace'
    BY <1>11 DEF work_item_create, ItemInOnePlace, TypeOK, Queued, Held, Busy, callerVars, workerVars
  <2>3. ItemContents'
    BY <1>11 DEF work_item_create, ItemContents, TypeOK, ItemInOnePlace, Queued, Held, Busy, callerVars, workerVars
  <2>4. HeapExact'
    BY <1>11 DEF work_item_create, HeapExact, Answered, TypeOK, ItemInOnePlace, ItemContents, Queued, Held, Busy, Kinds, callerVars, workerVars
  <2> QED BY <2>1, <2>2, <2>3, <2>4
<1>12. ASSUME NEW c \in Callers, CreateFails(c) PROVE IInv'
  <2>1. TypeOK'
    BY <1>12 DEF CreateFails, TypeOK, Kinds, ItemContents, Busy, callerVars, workerVars
  <2>2. ItemInOnePlace'
    BY <1>12 DEF CreateFails, ItemInOnePlace, TypeOK, Queued, Held, Busy, callerVars, workerVars
  <2>3. ItemContents'
    BY <1>12 DEF CreateFails, ItemContents, TypeOK, ItemInOnePlace, Queued, Held, Busy, callerVars, workerVars
  <2>4. HeapExact'
    BY <1>12 DEF CreateFails, HeapExact, Answered, TypeOK, ItemInOnePlace, ItemContents, Queued, Held, Busy, Kinds, callerVars, workerVars
  <2> QED BY <2>1, <2>2, <2>3, <2>4
<1>13. ASSUME NEW c \in Callers, Enqueue(c) PROVE IInv'
  <2>1. TypeOK'
    BY <1>13 DEF Enqueue, TypeOK, Kinds, ItemContents, Busy, callerVars, workerVars
  <2>2. ItemInOnePlace'
    <3>1. /\ Len(queue) \in Nat /\ Len(queue') = Len(queue) + 1
          /\ DOMAIN queue = 1 .. Len(queue) /\ DOMAIN queue' = 1 .. Len(queue')
          /\ \A i \in DOMAIN queue : i \in DOMAIN queue' /\ queue'[i] = queue[i]
          /\ queue'[Len(queue')] = c
      BY <1>13 DEF Enqueue, TypeOK
    <3>2. \A i \in DOMAIN queue' : i = Len(queue') \/ i \in DOMAIN queue
      BY <3>1
    <3>3. ~Queued(c) /\ ~Held(c) /\ ~sem[c]
      BY <1>13 DEF Enqueue, ItemInOnePlace
    <3>4. \A i, j \in DOMAIN queue' : queue'[i] = queue'[j] => i = j
      BY <3>1, <3>2, <3>3 DEF ItemInOnePlace, Queued
    <3>5. \A d \in Callers : Queued(d)' <=> Queued(d) \/ d = c
      BY <3>1, <3>2 DEF Queued
    <3>6. /\ \A d \in Callers : Held(d)' <=> Held(d)
          /\ UNCHANGED sem
          /\ \A d \in Callers : pc'[d] = IF d = c THEN "take" ELSE pc[d]
      BY <1>13 DEF Enqueue, Held, Busy, workerVars, TypeOK
    <3> QED BY <3>3, <3>4, <3>5, <3>6 DEF ItemInOnePlace
  <2>3. ItemContents'
    BY <1>13 DEF Enqueue, ItemContents, TypeOK, ItemInOnePlace, Queued, Held, Busy, callerVars, workerVars
  <2>4. HeapExact'
    BY <1>13 DEF Enqueue, HeapExact, Answered, TypeOK, ItemInOnePlace, ItemContents, Queued, Held, Busy, Kinds, callerVars, workerVars
  <2> QED BY <2>1, <2>2, <2>3, <2>4
<1>14. ASSUME NEW c \in Callers, Collect(c) PROVE IInv'
  <2>1. TypeOK'
    BY <1>14 DEF Collect, TypeOK, Kinds, ItemContents, Busy, callerVars, workerVars
  <2>2. ItemInOnePlace'
    BY <1>14 DEF Collect, ItemInOnePlace, TypeOK, Queued, Held, Busy, callerVars, workerVars
  <2>3. ItemContents'
    BY <1>14 DEF Collect, ItemContents, TypeOK, ItemInOnePlace, Queued, Held, Busy, callerVars, workerVars
  <2>4. HeapExact'
    BY <1>14 DEF Collect, HeapExact, Answered, TypeOK, ItemInOnePlace, ItemContents, Queued, Held, Busy, Kinds, callerVars, workerVars
  <2> QED BY <2>1, <2>2, <2>3, <2>4
<1>15. ASSUME NEW c \in Callers, Release(c) PROVE IInv'
  <2>1. TypeOK'
    BY <1>15 DEF Release, TypeOK, Kinds, ItemContents, Busy, callerVars, workerVars
  <2>2. ItemInOnePlace'
    BY <1>15 DEF Release, ItemInOnePlace, TypeOK, Queued, Held, Busy, callerVars, workerVars
  <2>3. ItemContents'
    BY <1>15 DEF Release, ItemContents, TypeOK, ItemInOnePlace, Queued, Held, Busy, callerVars, workerVars
  <2>4. HeapExact'
    BY <1>15 DEF Release, HeapExact, Answered, TypeOK, ItemInOnePlace, ItemContents, Queued, Held, Busy, Kinds, callerVars, workerVars
  <2> QED BY <2>1, <2>2, <2>3, <2>4
<1>16. CASE UNCHANGED vars
  BY <1>16 DEF vars, TypeOK, ItemInOnePlace, ItemContents, HeapExact, Answered, Busy, Queued, Held
<1> QED
  BY <1>1, <1>2, <1>3, <1>4, <1>5, <1>6, <1>7, <1>8, <1>9, <1>10, <1>11, <1>12, <1>13, <1>14, <1>15, <1>16 DEF Next, Worker, Caller

-----------------------------------------------------------------------------
(* What the runs check on small instances, for every set of callers, every  *)
(* set of URLs and every queue depth.                                       *)

\* The strengthened invariant holds in every reachable state.
THEOREM Inductive == Spec => []IInv
BY InitIInv, NextIInv, PTL DEF Spec

\* Type correctness: in particular the queue never exceeds its depth.
THEOREM TypeCorrect == Spec => []TypeOK
<1>1. IInv => TypeOK
  BY DEF IInv
<1> QED BY <1>1, Inductive, PTL

\* At most one TLS context exists at a time (the header of http_client_esp.c).
THEOREM AtMostOneTlsContext == Spec => []OneTlsContext
<1>1. IInv => OneTlsContext
  BY DEF IInv, ItemContents, OneTlsContext
<1> QED BY <1>1, Inductive, PTL

\* A caller never gets the response to another caller's request.
THEOREM ResponsesNotMixed == Spec => []OwnResponse
<1>1. IInv => OwnResponse
  BY DEF IInv, ItemContents, OwnResponse
<1> QED BY <1>1, Inductive, PTL

\* No item is freed while the queue or the worker still refers to it.
THEOREM NoUseAfterFree == Spec => []ItemAlive
<1>1. ASSUME IInv PROVE ItemAlive
  <2>1. ASSUME NEW i \in DOMAIN queue PROVE "item" \in heap[queue[i]]
    <3>1. queue[i] \in Callers
      BY <1>1 DEF IInv, TypeOK
    <3>2. pc[queue[i]] = "take"
      BY <1>1, <3>1 DEF IInv, ItemInOnePlace, Queued
    <3> QED BY <1>1, <3>1, <3>2 DEF IInv, HeapExact
  <2>2. ASSUME Busy PROVE "item" \in heap[cur]
    <3>1. cur \in Callers
      BY <1>1, <2>2 DEF IInv, ItemContents
    <3>2. pc[cur] = "take"
      BY <1>1, <2>2, <3>1 DEF IInv, ItemInOnePlace, Held
    <3> QED BY <1>1, <3>1, <3>2 DEF IInv, HeapExact
  <2> QED BY <2>1, <2>2 DEF ItemAlive, Busy
<1> QED BY <1>1, Inductive, PTL

\* A caller that is back from its call has nothing allocated for it.
THEOREM NoLeak == Spec => []NothingLeaked
<1>1. ASSUME IInv PROVE NothingLeaked
  <2> SUFFICES ASSUME NEW c \in Callers, pc[c] = "idle" PROVE heap[c] = {}
    BY DEF NothingLeaked
  <2>1. ~Held(c) /\ ~sem[c]
    BY <1>1 DEF IInv, ItemInOnePlace
  <2>2. heap[c] \subseteq Kinds
    BY <1>1 DEF IInv, TypeOK
  <2>3. "item" \notin heap[c] /\ "resp" \notin heap[c] /\ "rx" \notin heap[c]
    BY <1>1, <2>1 DEF IInv, HeapExact, Answered
  <2> QED BY <2>2, <2>3 DEF Kinds
<1> QED BY <1>1, Inductive, PTL
=============================================================================
