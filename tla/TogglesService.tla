--------------------------- MODULE TogglesService ---------------------------
(***************************************************************************)
(* The features controller and the toggles client together: the handlers   *)
(* of FeaturesController, each calling a TogglesClient that works step by  *)
(* step on the copy of the features its replica holds, in place of the     *)
(* promise that FeaturesController takes an answer from.  While one        *)
(* request is being answered by several reads, its replica's copy is       *)
(* refreshed or the replica dies, its caller signs in or out or gives up,  *)
(* and the auth service hangs.                                             *)
(***************************************************************************)
EXTENDS FeaturesController

VARIABLES
  pc,     \* per caller: where the client is with its request
  call,   \* per caller: what the client was asked
  todo,   \* per caller: names still to look up
  found,  \* per caller: features copied but not yet converted
  result  \* per caller: entries appended so far

localVars == <<pc, call, todo, found, result>>
serviceVars == <<vars, localVars>>

ClientCalls ==
  {Dispatch(q, u) : q \in {q \in Query : HasCall(q)},
                    u \in Profile \union {Anonymous}}

(* The client of the replica that has the request of c.                    *)
Client(c) == INSTANCE TogglesClient WITH
  Request  <- Caller,
  Calls    <- ClientCalls,
  repo     <- repo[request[c].replica],
  ready    <- ready[request[c].replica],
  restarts <- spent.restarts

NoCall == CHOOSE asked \in ClientCalls : TRUE

ServiceInit ==
  /\ Init
  /\ pc = [c \in Caller |-> "idle"]
  /\ call = [c \in Caller |-> NoCall]
  /\ todo = [c \in Caller |-> << >>]
  /\ found = [c \in Caller |-> {}]
  /\ result = [c \in Caller |-> << >>]

(* The local variables of a call that has returned, or died.               *)
Forget(callers) ==
  /\ pc' = [c \in Caller |-> IF c \in callers THEN "idle" ELSE pc[c]]
  /\ call' = [c \in Caller |-> IF c \in callers THEN NoCall ELSE call[c]]
  /\ todo' = [c \in Caller |-> IF c \in callers THEN << >> ELSE todo[c]]
  /\ found' = [c \in Caller |-> IF c \in callers THEN {} ELSE found[c]]
  /\ result' = [c \in Caller |-> IF c \in callers THEN << >> ELSE result[c]]

-----------------------------------------------------------------------------
(* The handler calls the client with the profile it has read.              *)
CallClient_Anonymous(c) ==   \* mistake: the user is not passed on
  /\ AskClient(c)
  /\ Client(c)!Invoke(c, Dispatch(request[c].query, Anonymous))

CallClient(c) ==
  /\ AskClient(c)
  /\ Client(c)!Invoke(c, Dispatch(request[c].query, user[c]))

ClientStep(c) ==
  /\ UNCHANGED vars
  /\ Client(c)!Step(c)

AnswerResult(c) ==
  /\ pc[c] = "answered"
  /\ AnswerWith(c, result[c])
  /\ Forget({c})

ClientPanics(c) ==
  /\ pc[c] = "failed"
  /\ PanicReply(c)
  /\ Forget({c})

ServiceStep(c) ==
  \/ Prepare(c) /\ UNCHANGED localVars
  \/ CallClient(c)
  \/ ClientStep(c)
  \/ AnswerResult(c)
  \/ ClientPanics(c)

ServiceNext ==
  \/ Surroundings /\ UNCHANGED localVars
  \/ \E p \in Replica :
       Restart(p) /\ Forget({c \in Caller : request[c].replica = p})
  \/ \E c \in Caller : ServiceStep(c) \/ (Lose(c) /\ Forget({c}))

(* As in FeaturesController: goroutines are scheduled, polls succeed now   *)
(* and then, callers come back with every question, and the auth service   *)
(* may hang for ever.                                                      *)
ServiceFairness ==
  /\ \A p \in Replica :
       WF_serviceVars(Refresh(p) /\ UNCHANGED localVars)
         /\ WF_serviceVars(OnReady(p) /\ UNCHANGED localVars)
  /\ \A c \in Caller :
       WF_serviceVars(ServiceStep(c))
         /\ WF_serviceVars(Receive(c) /\ UNCHANGED localVars)
  /\ \A c \in Caller, q \in Query :
       SF_serviceVars((\E p \in Replica : Send(c, p, q)) /\ UNCHANGED localVars)

ServiceSpec == ServiceInit /\ [][ServiceNext]_serviceVars /\ ServiceFairness

-----------------------------------------------------------------------------
(* The two fit: with the client working step by step, every response is    *)
(* one that the controller gives when it takes the answer, in one step,    *)
(* from the client's promise (features.go:98-121 with                      *)
(* toggles_client_wrapper.go:86-190).  So what holds of the responses of   *)
(* FeaturesController holds of the service.                                *)
ControllerKept == Init /\ [][Next]_vars
=============================================================================
