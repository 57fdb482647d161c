--------------------------- MODULE TogglesPromise ---------------------------
(***************************************************************************)
(* What featuretoggles.Client (toggles_client_wrapper.go:27) promises to   *)
(* the handlers, without how it is done: an answer is given in one step,   *)
(* out of the contents the server has had since the question was asked.    *)
(* Module TogglesClient implements it.                                     *)
(***************************************************************************)
EXTENDS FeatureAnswers

CONSTANTS
  Calls,        \* the calls that handlers make
  Request       \* slots for concurrent calls

VARIABLES
  history,   \* every content of the server, the last one is current
  repo,      \* the version the client works with, 0 if none
  ready,     \* it answers questions
  stage,     \* per request: "idle", "asked", "answered" or "failed"
  call,      \* per request: the question
  start,     \* per request: the version when it was asked, 0 if not ready
  answer     \* per request: the entries

clientVars == <<repo, ready>>
vars == <<history, repo, ready, stage, call, start, answer>>

Init ==
  /\ history \in {<<version>> : version \in Version}
  /\ repo = 0
  /\ ready = FALSE
  /\ stage = [r \in Request |-> "idle"]
  /\ call \in [Request -> Calls]
  /\ start = [r \in Request |-> 0]
  /\ answer = [r \in Request |-> << >>]

-----------------------------------------------------------------------------
(* The server's content changes by one feature, the client moves on to a   *)
(* later one, and answers questions from some time after the first.        *)
Publish(n, setting) ==
  /\ history' = Append(history, [history[Len(history)] EXCEPT ![n] = setting])
  /\ UNCHANGED <<clientVars, stage, call, start, answer>>

Advance ==
  /\ repo' \in repo + 1 .. Len(history)
  /\ UNCHANGED <<history, ready, stage, call, start, answer>>

BecomeReady ==
  /\ repo > 0
  /\ ready' = TRUE
  /\ UNCHANGED <<history, repo, stage, call, start, answer>>

(* Everything but the server starts again.                                 *)
StartAgain ==
  /\ repo' = 0
  /\ ready' = FALSE
  /\ stage' = [r \in Request |-> "idle"]
  /\ call' \in [Request -> Calls]
  /\ start' = [r \in Request |-> 0]
  /\ answer' = [r \in Request |-> << >>]
  /\ UNCHANGED history

-----------------------------------------------------------------------------
Ask(r, c) ==
  /\ stage[r] = "idle"
  /\ stage' = [stage EXCEPT ![r] = "asked"]
  /\ call' = [call EXCEPT ![r] = c]
  /\ start' = [start EXCEPT ![r] = IF ready THEN repo ELSE 0]
  /\ UNCHANGED <<history, clientVars, answer>>

Since(r) == IF start[r] = 0 THEN 1 ELSE start[r]

(* Only a question asked before the client was ready may get the empty     *)
(* answer instead of one the server's contents account for.                *)
Promised(r, list) ==
  \/ start[r] = 0 /\ list = << >>
  \/ IsAnswer(list, history, call[r], Since(r), repo)

Answer(r) ==
  /\ stage[r] = "asked"
  /\ stage' = [stage EXCEPT ![r] = "answered"]
  /\ Promised(r, answer'[r])
  /\ answer' = [answer EXCEPT ![r] = answer'[r]]
  /\ UNCHANGED <<history, clientVars, call, start>>

Fail(r) ==
  /\ stage[r] = "asked"
  /\ \E s \in Since(r) .. repo : \E e \in s .. repo :
       \E n \in Selected(history[s], call[r]) :
         Panics(history[e], n, call[r].user)
  /\ stage' = [stage EXCEPT ![r] = "failed"]
  /\ UNCHANGED <<history, clientVars, call, start, answer>>

Release(r) ==
  /\ stage[r] \in {"answered", "failed"}
  /\ stage' = [stage EXCEPT ![r] = "idle"]
  /\ start' = [start EXCEPT ![r] = 0]
  /\ answer' = [answer EXCEPT ![r] = << >>]
  /\ UNCHANGED <<history, clientVars, call>>

Next ==
  \/ \E n \in Name, setting \in Settings \union {Absent} : Publish(n, setting)
  \/ Advance
  \/ BecomeReady
  \/ StartAgain
  \/ \E r \in Request :
       \/ \E c \in Calls : Ask(r, c)
       \/ Answer(r)
       \/ Fail(r)
       \/ Release(r)

Spec == Init /\ [][Next]_vars
=============================================================================
