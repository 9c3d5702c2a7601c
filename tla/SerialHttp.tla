----------------------------- MODULE SerialHttp -----------------------------
(***************************************************************************)
(* What http_client.h promises to a task that calls http_client_perform():  *)
(* calls of several tasks may overlap, they are served one at a time, and   *)
(* each gets the response to its own URL or a failure.  No order among the  *)
(* waiting calls is promised, and neither the queue nor the worker that     *)
(* implement the promise are visible here.                                  *)
(***************************************************************************)
CONSTANTS
  Callers,  \* tasks that call http_client_perform
  Urls,     \* the URLs they may ask for
  Failed,   \* the answer -1
  Nil       \* no URL, no answer

VARIABLES
  phase,    \* phase[c]: "idle", "pending", "serving" or "answered"
  asked,    \* asked[c]: the URL of the current call of c
  answer    \* answer[c]: what the current call of c was given

vars == <<phase, asked, answer>>

Init ==
  /\ phase = [c \in Callers |-> "idle"]
  /\ asked = [c \in Callers |-> Nil]
  /\ answer = [c \in Callers |-> Nil]

Ask(c, u) ==
  /\ phase[c] = "idle"
  /\ phase' = [phase EXCEPT ![c] = "pending"]
  /\ asked' = [asked EXCEPT ![c] = u]
  /\ UNCHANGED answer

\* A call is refused at once when the client is not initialised ...
AskRefused(c, u) ==
  /\ phase[c] = "idle"
  /\ phase' = [phase EXCEPT ![c] = "answered"]
  /\ asked' = [asked EXCEPT ![c] = u]
  /\ answer' = [answer EXCEPT ![c] = Failed]

\* ... and later when there is no memory for it.
Refuse(c) ==
  /\ phase[c] = "pending"
  /\ phase' = [phase EXCEPT ![c] = "answered"]
  /\ answer' = [answer EXCEPT ![c] = Failed]
  /\ UNCHANGED asked

Serve(c) ==
  /\ phase[c] = "pending"
  /\ \A d \in Callers : phase[d] # "serving"
  /\ phase' = [phase EXCEPT ![c] = "serving"]
  /\ UNCHANGED <<asked, answer>>

Finish(c) ==
  /\ phase[c] = "serving"
  /\ phase' = [phase EXCEPT ![c] = "answered"]
  /\ \E r \in {asked[c], Failed} : answer' = [answer EXCEPT ![c] = r]
  /\ UNCHANGED asked

Return(c) ==
  /\ phase[c] = "answered"
  /\ phase' = [phase EXCEPT ![c] = "idle"]
  /\ asked' = [asked EXCEPT ![c] = Nil]
  /\ answer' = [answer EXCEPT ![c] = Nil]

Next ==
  \E c \in Callers :
    \/ \E u \in Urls : Ask(c, u) \/ AskRefused(c, u)
    \/ Refuse(c) \/ Serve(c) \/ Finish(c) \/ Return(c)

Spec == Init /\ [][Next]_vars
=============================================================================
