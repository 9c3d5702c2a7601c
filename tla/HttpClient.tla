----------------------------- MODULE HttpClient -----------------------------
(***************************************************************************)
(* components/http_client/http_client_esp.c: callers post a WorkItem to a   *)
(* bounded queue and block on the item's semaphore; one worker task takes   *)
(* the items in order, runs each request under its own TLS context and      *)
(* gives the semaphore.                                                     *)
(*                                                                         *)
(* A caller has at most one WorkItem, so an item is named by its caller.    *)
(* Heap objects of a caller: "item" (the WorkItem with its copies and its   *)
(* semaphore), "rx" (the body, RxBuf.data) and "resp" (the struct           *)
(* HttpClientResponse that the worker allocates).  A response is represented by  *)
(* the URL it was fetched from.                                             *)
(***************************************************************************)
EXTENDS Naturals, Sequences, FiniteSets

CONSTANTS
  Callers,     \* tasks that call http_client_perform
  Urls,        \* URLs they ask for
  Failed,      \* err = -1
  Nil,         \* no URL, no result yet
  QueueDepth   \* HTTP_CLIENT_QUEUE_DEPTH

ASSUME ConstantsOK ==
  /\ QueueDepth \in Nat \ {0}
  /\ Failed \notin Urls /\ Nil \notin Urls /\ Failed # Nil

VARIABLES
  initialized,  \* g_initialized
  queue,        \* g_req_queue
  wpc,          \* the worker: "none", "receive", "open", "perform", "finish", "give"
  cur,          \* the item the worker holds
  rxOk,         \* esp_http_client_perform() == ESP_OK && !rx.oom
  pc,           \* pc[c]: "idle", "create", "send", "take", "return"
  url,          \* url[c]: req->url of the current call
  item,         \* item[c]: the URL in c's WorkItem
  result,       \* result[c]: err and resp of c's WorkItem
  sem,          \* sem[c]: done_sem has been given
  out,          \* out[c]: what http_client_perform returned
  tls,          \* items whose esp_http_client handle is alive
  heap          \* heap[c]: the objects allocated for a call of c

callerVars == <<pc, url, item, out>>
workerVars == <<wpc, cur, rxOk, result, tls>>
vars == <<initialized, queue, wpc, cur, rxOk, pc, url, item, result, sem, out,
          tls, heap>>

Kinds == {"item", "rx", "resp"}

Init ==
  /\ initialized = FALSE
  /\ queue = <<>>
  /\ wpc = "none" /\ cur = Nil /\ rxOk = FALSE
  /\ pc = [c \in Callers |-> "idle"]
  /\ url = [c \in Callers |-> Nil]
  /\ item = [c \in Callers |-> Nil]
  /\ result = [c \in Callers |-> Nil]
  /\ sem = [c \in Callers |-> FALSE]
  /\ out = [c \in Callers |-> Nil]
  /\ tls = {}
  /\ heap = [c \in Callers |-> {}]

-----------------------------------------------------------------------------
(* Plausible bugs, each a variant of the action of the same name below; the *)
(* specification never uses them.                                           *)

\* The caller does not wait for the semaphore.
Collect_NoWait(c) ==
  /\ pc[c] = "take"
  /\ sem' = [sem EXCEPT ![c] = FALSE]
  /\ out' = [out EXCEPT ![c] = IF result[c] = Nil THEN Failed ELSE result[c]]
  /\ heap' = [heap EXCEPT ![c] = @ \ {"item", "resp"}]
  /\ item' = [item EXCEPT ![c] = Nil]
  /\ pc' = [pc EXCEPT ![c] = "return"]
  /\ UNCHANGED <<initialized, queue, url, workerVars>>

\* The item is sent without regard to the queue's depth.
Enqueue_NoRoomCheck(c) ==
  /\ pc[c] = "send" /\ initialized
  /\ queue' = Append(queue, c)
  /\ pc' = [pc EXCEPT ![c] = "take"]
  /\ UNCHANGED <<initialized, sem, url, item, out, heap, workerVars>>

\* A failed open puts the item back into the queue, to try again for ever.
OpenFails_Requeues ==
  /\ wpc = "open"
  /\ queue' = Append(queue, cur)
  /\ wpc' = "receive" /\ cur' = Nil
  /\ UNCHANGED <<initialized, rxOk, result, tls, sem, heap, callerVars>>

\* The failure path skips esp_http_client_cleanup().
FinishFailed_NoCleanup ==
  /\ wpc = "finish"
  /\ result' = [result EXCEPT ![cur] = Failed]
  /\ heap' = [heap EXCEPT ![cur] = @ \ {"rx"}]
  /\ wpc' = "give"
  /\ UNCHANGED <<initialized, queue, cur, rxOk, tls, sem, callerVars>>

\* The failure path keeps the partial body.
FinishFailed_KeepsBody ==
  /\ wpc = "finish"
  /\ result' = [result EXCEPT ![cur] = Failed]
  /\ tls' = tls \ {cur}
  /\ wpc' = "give"
  /\ UNCHANGED <<initialized, queue, cur, rxOk, sem, heap, callerVars>>

\* The semaphore of the next item in the queue is given.
Give_Next ==
  /\ wpc = "give"
  /\ sem' = [sem EXCEPT ![IF queue = <<>> THEN cur ELSE Head(queue)] = TRUE]
  /\ wpc' = "receive" /\ cur' = Nil
  /\ UNCHANGED <<initialized, queue, rxOk, result, tls, heap, callerVars>>

-----------------------------------------------------------------------------
(* The API.                                                                *)

\* Creates the queue and the worker; when either fails nothing has changed.
http_client_init ==
  /\ ~initialized
  /\ initialized' = TRUE
  /\ queue' = <<>>
  /\ wpc' = "receive"
  /\ UNCHANGED <<cur, rxOk, result, tls, sem, heap, callerVars>>

\* http_client_perform() up to the g_initialized check.
Enter(c, u) ==
  /\ pc[c] = "idle" /\ initialized
  /\ url' = [url EXCEPT ![c] = u]
  /\ pc' = [pc EXCEPT ![c] = "create"]
  /\ UNCHANGED <<initialized, queue, sem, item, out, heap, workerVars>>

EnterRefused(c, u) ==
  /\ pc[c] = "idle" /\ ~initialized
  /\ url' = [url EXCEPT ![c] = u]
  /\ out' = [out EXCEPT ![c] = Failed]
  /\ pc' = [pc EXCEPT ![c] = "return"]
  /\ UNCHANGED <<initialized, queue, sem, item, heap, workerVars>>

work_item_create(c) ==
  /\ pc[c] = "create"
  /\ item' = [item EXCEPT ![c] = url[c]]
  /\ result' = [result EXCEPT ![c] = Nil]
  /\ sem' = [sem EXCEPT ![c] = FALSE]
  /\ heap' = [heap EXCEPT ![c] = @ \cup {"item"}]
  /\ pc' = [pc EXCEPT ![c] = "send"]
  /\ UNCHANGED <<initialized, queue, wpc, cur, rxOk, tls, url, out>>

\* work_item_create() out of memory: it has freed whatever it had allocated.
CreateFails(c) ==
  /\ pc[c] = "create"
  /\ out' = [out EXCEPT ![c] = Failed]
  /\ pc' = [pc EXCEPT ![c] = "return"]
  /\ UNCHANGED <<initialized, queue, sem, url, item, heap, workerVars>>

\* xQueueSend(..., portMAX_DELAY) blocks while the queue is full.
Enqueue(c) ==
  /\ pc[c] = "send" /\ initialized
  /\ Len(queue) < QueueDepth
  /\ queue' = Append(queue, c)
  /\ pc' = [pc EXCEPT ![c] = "take"]
  /\ UNCHANGED <<initialized, sem, url, item, out, heap, workerVars>>

\* The semaphore is taken; nobody else has the item from here on: copy the
\* result, free the response struct and the item.
Collect(c) ==
  /\ pc[c] = "take" /\ sem[c]
  /\ sem' = [sem EXCEPT ![c] = FALSE]
  /\ out' = [out EXCEPT ![c] = result[c]]
  /\ heap' = [heap EXCEPT ![c] =
                @ \ IF result[c] = Failed THEN {"item"} ELSE {"item", "resp"}]
  /\ item' = [item EXCEPT ![c] = Nil]
  /\ pc' = [pc EXCEPT ![c] = "return"]
  /\ UNCHANGED <<initialized, queue, url, workerVars>>

\* do_fetch() in data_fetcher.c has used the response and frees its buffer;
\* it frees nothing when the call failed.
Release(c) ==
  /\ pc[c] = "return"
  /\ heap' = [heap EXCEPT ![c] = IF out[c] = Failed THEN @ ELSE @ \ {"rx"}]
  /\ out' = [out EXCEPT ![c] = Nil]
  /\ url' = [url EXCEPT ![c] = Nil]
  /\ pc' = [pc EXCEPT ![c] = "idle"]
  /\ UNCHANGED <<initialized, queue, sem, item, workerVars>>

-----------------------------------------------------------------------------
(* The worker task.                                                        *)

Receive ==
  /\ wpc = "receive" /\ queue # <<>>
  /\ cur' = Head(queue)
  /\ queue' = Tail(queue)
  /\ wpc' = "open"
  /\ UNCHANGED <<initialized, rxOk, result, tls, sem, heap, callerVars>>

OpenFails ==
  /\ wpc = "open"
  /\ result' = [result EXCEPT ![cur] = Failed]
  /\ wpc' = "give"
  /\ UNCHANGED <<initialized, queue, cur, rxOk, tls, sem, heap, callerVars>>

Open ==
  /\ wpc = "open"
  /\ tls' = tls \cup {cur}
  /\ wpc' = "perform"
  /\ UNCHANGED <<initialized, queue, cur, rxOk, result, sem, heap, callerVars>>

\* esp_http_client_perform() with on_http_event() filling RxBuf: it ends
\* within timeout_ms, well or badly, with or without a body so far.
Perform ==
  /\ wpc = "perform"
  /\ rxOk' \in BOOLEAN
  /\ \E body \in SUBSET {"rx"} : heap' = [heap EXCEPT ![cur] = @ \cup body]
  /\ wpc' = "finish"
  /\ UNCHANGED <<initialized, queue, cur, result, tls, sem, callerVars>>

\* The response struct is allocated and takes the body over.
FinishOk ==
  /\ wpc = "finish" /\ rxOk
  /\ result' = [result EXCEPT ![cur] = item[cur]]
  /\ heap' = [heap EXCEPT ![cur] = @ \cup {"resp"}]
  /\ tls' = tls \ {cur}
  /\ wpc' = "give"
  /\ UNCHANGED <<initialized, queue, cur, rxOk, sem, callerVars>>

\* The request failed, the body was too large, or the struct could not be
\* allocated (rxOk may hold then): the body is freed.
FinishFailed ==
  /\ wpc = "finish"
  /\ result' = [result EXCEPT ![cur] = Failed]
  /\ heap' = [heap EXCEPT ![cur] = @ \ {"rx"}]
  /\ tls' = tls \ {cur}
  /\ wpc' = "give"
  /\ UNCHANGED <<initialized, queue, cur, rxOk, sem, callerVars>>

Give ==
  /\ wpc = "give"
  /\ sem' = [sem EXCEPT ![cur] = TRUE]
  /\ wpc' = "receive" /\ cur' = Nil
  /\ UNCHANGED <<initialized, queue, rxOk, result, tls, heap, callerVars>>

-----------------------------------------------------------------------------
Worker ==
  Receive \/ OpenFails \/ Open \/ Perform \/ FinishOk \/ FinishFailed \/ Give

Caller(c) ==
  \/ \E u \in Urls : Enter(c, u) \/ EnterRefused(c, u)
  \/ work_item_create(c) \/ CreateFails(c)
  \/ Enqueue(c) \/ Collect(c) \/ Release(c)

Next == http_client_init \/ Worker \/ \E c \in Callers : Caller(c)

Spec == Init /\ [][Next]_vars

\* The worker is never starved for ever, a request ends by its timeout, and a
\* task blocked on a full queue gets in if the queue has room again and again
\* (a task that is woken may find the slot taken, hence the strong fairness).
Fairness ==
  /\ WF_vars(Worker)
  /\ \A c \in Callers :
       /\ WF_vars(work_item_create(c) \/ CreateFails(c))
       /\ SF_vars(Enqueue(c))
       /\ WF_vars(Collect(c))
       /\ WF_vars(Release(c))

FairSpec == Spec /\ Fairness

-----------------------------------------------------------------------------
(* Properties.                                                             *)

\* Type correctness of the variables; the queue stays within its depth.
TypeOK ==
  /\ initialized \in BOOLEAN
  /\ queue \in Seq(Callers) /\ Len(queue) <= QueueDepth
  /\ wpc \in {"none", "receive", "open", "perform", "finish", "give"}
  /\ cur \in Callers \cup {Nil}
  /\ rxOk \in BOOLEAN
  /\ pc \in [Callers -> {"idle", "create", "send", "take", "return"}]
  /\ url \in [Callers -> Urls \cup {Nil}]
  /\ item \in [Callers -> Urls \cup {Nil}]
  /\ result \in [Callers -> Urls \cup {Failed, Nil}]
  /\ sem \in [Callers -> BOOLEAN]
  /\ out \in [Callers -> Urls \cup {Failed, Nil}]
  /\ tls \subseteq Callers
  /\ heap \in [Callers -> SUBSET Kinds]

\* "At most one ~23 KB mbedTLS context exists on the heap simultaneously"
\* (http_client_esp.c): every path of execute_work_item() that opened a
\* client cleans it up before the worker takes the next item.
OneTlsContext ==
  \A a, b \in tls : a = b

\* A call that succeeds got the response to the URL it asked for, whatever
\* the other callers do with the same queue and worker.
OwnResponse ==
  \A c \in Callers : pc[c] = "return" => out[c] \in {url[c], Failed}

\* An item that is queued, or in the worker's hands until it has given the
\* semaphore, has not been freed: the caller destroys it only afterwards.
ItemAlive ==
  /\ \A i \in DOMAIN queue : "item" \in heap[queue[i]]
  /\ wpc \in {"open", "perform", "finish", "give"} => "item" \in heap[cur]

\* Between two calls nothing allocated for a caller is left, on any of the
\* failure paths of the caller or of the worker.
NothingLeaked ==
  \A c \in Callers : pc[c] = "idle" => heap[c] = {}

\* http_client_perform() "Blocks until complete" and no longer: every call
\* returns, also when the queue was full or the request failed.
EveryCallReturns ==
  \A c \in Callers : pc[c] # "idle" ~> pc[c] = "idle"

\* The inductive invariant of which the safety properties are consequences:
\* where an item is (sent by nobody yet, queued, held by the worker, given
\* back) is determined, and at most one of these holds.
Busy == wpc \in {"open", "perform", "finish", "give"}
Queued(c) == \E i \in DOMAIN queue : queue[i] = c
Held(c) == Busy /\ cur = c

ItemInOnePlace ==
  /\ \A i, j \in DOMAIN queue : queue[i] = queue[j] => i = j
  /\ \A c \in Callers : ~(Queued(c) /\ Held(c))
  /\ \A c \in Callers : sem[c] => ~Queued(c) /\ ~Held(c)
  /\ \A c \in Callers : (Queued(c) \/ Held(c) \/ sem[c]) <=> pc[c] = "take"

\* What the item of a caller holds at each point of its way, and which TLS
\* context is open while the worker has it.
ItemContents ==
  /\ initialized <=> wpc # "none"
  /\ ~initialized => queue = <<>>
  /\ Busy => cur \in Callers
  /\ tls = IF wpc \in {"perform", "finish"} THEN {cur} ELSE {}
  /\ \A c \in Callers :
       /\ pc[c] \in {"send", "take"} => item[c] = url[c]
       /\ pc[c] # "idle" => url[c] \in Urls
       /\ sem[c] => result[c] \in {url[c], Failed}
       /\ Held(c) /\ wpc = "give" => result[c] \in {url[c], Failed}
       /\ pc[c] = "return" => out[c] \in {url[c], Failed}

\* Which objects of a caller may be allocated at each point of its call.
Answered(c) ==
  /\ sem[c] \/ (Held(c) /\ wpc = "give")
  /\ result[c] # Failed

HeapExact ==
  \A c \in Callers :
    /\ "item" \in heap[c] <=> pc[c] \in {"send", "take"}
    /\ "resp" \in heap[c] => Answered(c)
    /\ "rx" \in heap[c] =>
         \/ Held(c) /\ wpc = "finish"
         \/ Answered(c)
         \/ pc[c] = "return" /\ out[c] # Failed

IInv == TypeOK /\ ItemInOnePlace /\ ItemContents /\ HeapExact

-----------------------------------------------------------------------------
(* Refinement of the promise.  A call is being served while the worker      *)
(* holds its item, and answered once its semaphore is given or it returned. *)

phaseBar == [c \in Callers |->
  IF pc[c] = "idle" THEN "idle"
  ELSE IF pc[c] = "return" \/ sem[c] THEN "answered"
  ELSE IF Held(c) THEN "serving" ELSE "pending"]

answerBar == [c \in Callers |->
  IF pc[c] = "return" THEN out[c] ELSE IF sem[c] THEN result[c] ELSE Nil]

Serial == INSTANCE SerialHttp
            WITH phase <- phaseBar, asked <- url, answer <- answerBar

\* The queue and the worker implement the promise of http_client.h: calls are
\* served one at a time and each is answered once, with its own response.
RefinesSerialHttp == Serial!Spec
=============================================================================
