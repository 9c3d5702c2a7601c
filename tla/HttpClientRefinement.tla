------------------------ MODULE HttpClientRefinement ------------------------
(***************************************************************************)
(* The queue and the worker of http_client_esp.c implement the promise of   *)
(* http_client.h (module SerialHttp), for every set of callers and URLs and *)
(* every queue depth.  A step of the code is a step of the promise when the *)
(* worker takes an item or gives its semaphore, or when a call begins, is   *)
(* refused or returns; all other steps are invisible there.                 *)
(***************************************************************************)
EXTENDS HttpClientProofs

\* Initially nobody has called.
LEMMA InitMaps == Init => Serial!Init
BY DEF Init, Serial!Init, phaseBar, answerBar

\* Each step of the code is a step of the promise or leaves it unchanged.
LEMMA NextMaps ==
  ASSUME IInv, IInv', Next
  PROVE  Serial!Next \/ UNCHANGED Serial!vars
<1> USE DEF IInv
<1>1. CASE http_client_init
  <2>1. ~Busy /\ ~Busy'
    BY <1>1 DEF http_client_init, Busy, ItemContents
  <2>2. phaseBar' = phaseBar
    BY <1>1, <2>1 DEF http_client_init, callerVars, phaseBar, Held
  <2>3. answerBar' = answerBar
    BY <1>1 DEF http_client_init, callerVars, answerBar
  <2> QED BY <1>1, <2>2, <2>3 DEF http_client_init, callerVars, Serial!vars
<1>2. CASE OpenFails \/ Open \/ Perform \/ FinishOk \/ FinishFailed
  <2>1. Busy /\ Busy' /\ cur' = cur /\ UNCHANGED <<pc, url, out, sem>> /\ cur \in Callers
    BY <1>2 DEF OpenFails, Open, Perform, FinishOk, FinishFailed, Busy, callerVars, ItemContents
  <2>2. phaseBar' = phaseBar
    BY <2>1 DEF phaseBar, Held
  <2>3. ~sem[cur] 
    BY <2>1 DEF ItemInOnePlace, Held
  <2>4. \A c \in Callers : c # cur => result'[c] = result[c]
    BY <1>2 DEF OpenFails, Open, Perform, FinishOk, FinishFailed, TypeOK
  <2>5. answerBar' = answerBar
    BY <2>1, <2>3, <2>4 DEF answerBar
  <2> QED BY <2>1, <2>2, <2>5 DEF Serial!vars
<1>3. CASE Receive
  <2>1. ~Busy /\ Busy' /\ UNCHANGED <<pc, url, out, sem, result>> /\ cur' \in Callers
    BY <1>3 DEF Receive, Busy, callerVars, ItemContents
  <2>2. pc[cur'] = "take" /\ ~sem[cur']
    BY <2>1 DEF ItemInOnePlace, Held
  <2>3. phaseBar[cur'] = "pending" /\ \A d \in Callers : phaseBar[d] # "serving"
    BY <2>1, <2>2 DEF phaseBar, Held
  <2>4. phaseBar' = [phaseBar EXCEPT ![cur'] = "serving"]
    BY <2>1, <2>2 DEF phaseBar, Held
  <2>5. answerBar' = answerBar
    BY <2>1 DEF answerBar
  <2>6. Serial!Serve(cur')
    BY <2>1, <2>3, <2>4, <2>5 DEF Serial!Serve
  <2> QED BY <2>1, <2>6 DEF Serial!Next
<1>4. CASE Give
  <2>1. /\ Busy /\ ~Busy' /\ cur \in Callers
        /\ UNCHANGED <<pc, url, out, result>>
        /\ sem' = [sem EXCEPT ![cur] = TRUE]
    BY <1>4 DEF Give, Busy, callerVars, ItemContents
  <2>2. pc[cur] = "take" /\ ~sem[cur] /\ result[cur] \in {url[cur], Failed}
    BY <1>4, <2>1 DEF ItemInOnePlace, ItemContents, Held, Give
  <2>3. phaseBar[cur] = "serving"
    BY <2>1, <2>2 DEF phaseBar, Held
  <2>4. phaseBar' = [phaseBar EXCEPT ![cur] = "answered"]
    BY <2>1, <2>2 DEF phaseBar, Held, TypeOK
  <2>5. answerBar' = [answerBar EXCEPT ![cur] = result[cur]]
    BY <2>1, <2>2 DEF answerBar, TypeOK
  <2>6. Serial!Finish(cur)
    BY <2>1, <2>2, <2>3, <2>4, <2>5 DEF Serial!Finish
  <2> QED BY <2>1, <2>6 DEF Serial!Next
<1>5. ASSUME NEW c \in Callers, NEW u \in Urls, Enter(c, u)
      PROVE  Serial!Ask(c, u)
  <2>1. /\ pc[c] = "idle" /\ pc' = [pc EXCEPT ![c] = "create"] /\ url' = [url EXCEPT ![c] = u]
        /\ UNCHANGED <<out, sem, result, cur, wpc>>
    BY <1>5 DEF Enter, workerVars
  <2>2. ~sem[c] /\ ~Held(c) /\ \A d \in Callers : Held(d)' <=> Held(d)
    BY <2>1 DEF ItemInOnePlace, Held, Busy
  <2>3. pc'[c] = "create" /\ \A d \in Callers : d # c => pc'[d] = pc[d]
    BY <2>1 DEF TypeOK
  <2>4. phaseBar[c] = "idle" /\ phaseBar' = [phaseBar EXCEPT ![c] = "pending"]
    BY <2>1, <2>2, <2>3 DEF phaseBar
  <2>5. answerBar' = answerBar
    BY <2>1, <2>2, <2>3 DEF answerBar
  <2> QED BY <2>1, <2>4, <2>5 DEF Serial!Ask
<1>6. ASSUME NEW c \in Callers, NEW u \in Urls, EnterRefused(c, u)
      PROVE  Serial!AskRefused(c, u)
  <2>1. /\ pc[c] = "idle" /\ pc' = [pc EXCEPT ![c] = "return"] /\ url' = [url EXCEPT ![c] = u]
        /\ out' = [out EXCEPT ![c] = Failed]
        /\ UNCHANGED <<sem, result, cur, wpc>>
    BY <1>6 DEF EnterRefused, workerVars
  <2>2. \A d \in Callers : Held(d)' <=> Held(d)
    BY <2>1 DEF Held, Busy
  <2>3. phaseBar[c] = "idle" /\ phaseBar' = [phaseBar EXCEPT ![c] = "answered"]
    BY <2>1, <2>2 DEF phaseBar, TypeOK
  <2>4. answerBar' = [answerBar EXCEPT ![c] = Failed]
    BY <2>1, <2>2 DEF answerBar, TypeOK
  <2> QED BY <2>1, <2>3, <2>4 DEF Serial!AskRefused
<1>7. ASSUME NEW c \in Callers, work_item_create(c) \/ Enqueue(c)
      PROVE  UNCHANGED Serial!vars
  <2>1. /\ pc[c] \in {"create", "send"}
        /\ \/ pc' = [pc EXCEPT ![c] = "send"] \/ pc' = [pc EXCEPT ![c] = "take"]
        /\ UNCHANGED <<url, out, cur, wpc>>
        /\ \A d \in Callers : d # c => sem'[d] = sem[d] /\ result'[d] = result[d]
    BY <1>7 DEF work_item_create, Enqueue, workerVars, TypeOK
  <2>2. ~sem[c] /\ ~Held(c) /\ \A d \in Callers : Held(d)' <=> Held(d)
    BY <2>1 DEF ItemInOnePlace, Held, Busy
  <2>3. ~sem'[c]
    BY <1>7, <2>2 DEF work_item_create, Enqueue, TypeOK
  <2>4. phaseBar' = phaseBar
    BY <2>1, <2>2, <2>3 DEF phaseBar, TypeOK
  <2>5. answerBar' = answerBar
    BY <2>1, <2>2, <2>3 DEF answerBar, TypeOK
  <2> QED BY <2>1, <2>4, <2>5 DEF Serial!vars
<1>8. ASSUME NEW c \in Callers, CreateFails(c)
      PROVE  Serial!Refuse(c)
  <2>1. /\ pc[c] = "create" /\ pc' = [pc EXCEPT ![c] = "return"]
        /\ out' = [out EXCEPT ![c] = Failed]
        /\ UNCHANGED <<url, sem, result, cur, wpc>>
    BY <1>8 DEF CreateFails, workerVars
  <2>2. ~sem[c] /\ ~Held(c) /\ \A d \in Callers : Held(d)' <=> Held(d)
    BY <2>1 DEF ItemInOnePlace, Held, Busy
  <2>3. phaseBar[c] = "pending" /\ phaseBar' = [phaseBar EXCEPT ![c] = "answered"]
    BY <2>1, <2>2 DEF phaseBar, TypeOK
  <2>4. answerBar' = [answerBar EXCEPT ![c] = Failed]
    BY <2>1, <2>2 DEF answerBar, TypeOK
  <2> QED BY <2>1, <2>3, <2>4 DEF Serial!Refuse
<1>9. ASSUME NEW c \in Callers, Collect(c)
      PROVE  UNCHANGED Serial!vars
  <2>1. /\ pc[c] = "take" /\ sem[c] /\ pc' = [pc EXCEPT ![c] = "return"]
        /\ out' = [out EXCEPT ![c] = result[c]] /\ sem' = [sem EXCEPT ![c] = FALSE]
        /\ UNCHANGED <<url, result, cur, wpc>>
    BY <1>9 DEF Collect, workerVars
  <2>2. \A d \in Callers : Held(d)' <=> Held(d)
    BY <2>1 DEF Held, Busy
  <2>3. phaseBar' = phaseBar
    BY <2>1, <2>2 DEF phaseBar, TypeOK
  <2>4. answerBar' = answerBar
    BY <2>1 DEF answerBar, TypeOK
  <2> QED BY <2>1, <2>3, <2>4 DEF Serial!vars
<1>10. ASSUME NEW c \in Callers, Release(c)
       PROVE  Serial!Return(c)
  <2>1. /\ pc[c] = "return" /\ pc' = [pc EXCEPT ![c] = "idle"]
        /\ out' = [out EXCEPT ![c] = Nil] /\ url' = [url EXCEPT ![c] = Nil]
        /\ UNCHANGED <<sem, result, cur, wpc>>
    BY <1>10 DEF Release, workerVars
  <2>2. ~sem[c] /\ \A d \in Callers : Held(d)' <=> Held(d)
    BY <2>1 DEF ItemInOnePlace, Held, Busy
  <2>3. phaseBar[c] = "answered" /\ phaseBar' = [phaseBar EXCEPT ![c] = "idle"]
    BY <2>1, <2>2 DEF phaseBar, TypeOK
  <2>4. answerBar' = [answerBar EXCEPT ![c] = Nil]
    BY <2>1, <2>2 DEF answerBar, TypeOK
  <2> QED BY <2>1, <2>3, <2>4 DEF Serial!Return
<1> QED
  BY <1>1, <1>2, <1>3, <1>4, <1>5, <1>6, <1>7, <1>8, <1>9, <1>10
  DEF Next, Worker, Caller, Serial!Next

\* Every behaviour of the code is, seen through the mapping, a behaviour the
\* header promises: calls are served one at a time, each answered once.
THEOREM Refinement == Spec => RefinesSerialHttp
<1>1. IInv /\ IInv' /\ [Next]_vars => [Serial!Next]_(Serial!vars)
  <2>1. ASSUME IInv, IInv', Next PROVE Serial!Next \/ UNCHANGED Serial!vars
    BY <2>1, NextMaps
  <2>2. UNCHANGED vars => UNCHANGED Serial!vars
    BY DEF vars, Serial!vars, phaseBar, answerBar, Held, Busy
  <2> QED BY <2>1, <2>2
<1> QED BY <1>1, InitMaps, Inductive, PTL DEF Spec, RefinesSerialHttp, Serial!Spec
=============================================================================
