---------------------------- MODULE TogglesClient ----------------------------
(***************************************************************************)
(* ClientImpl (featuretoggles/toggles_client_wrapper.go), its listener     *)
(* (listeners.go) and the two external parts they work with: the toggles   *)
(* server, where an administrator edits features, and the repository of    *)
(* the unleash client, a copy of all features that a goroutine of the      *)
(* library refreshes while requests are being served.                      *)
(*                                                                         *)
(* One answer takes several reads of that copy.  A list is selected by one *)
(* read, each requested name is looked up by one, and whether a feature is *)
(* enabled for the user is asked by one more per feature, by name, long    *)
(* after the feature itself was copied.  A refresh, the ready callback or  *)
(* a restart of the process can come between any two of them.              *)
(***************************************************************************)
EXTENDS FeatureAnswers

CONSTANTS
  Calls,        \* the calls that handlers make
  Request,      \* slots for concurrent calls of one process
  MaxEdits,     \* bound: edits at the toggles server
  MaxRestarts   \* bound: restarts of this process

ASSUME ClientAssumption ==
  /\ Calls \subseteq Call /\ Calls # {}
  /\ \A call \in Calls :
       call.method \in {"GetFeature", "GetFeaturesByPattern"}
         => Len(call.names) = 1
  /\ MaxEdits \in Nat
  /\ MaxRestarts \in Nat

-----------------------------------------------------------------------------
VARIABLES
  history,   \* server: every content so far, the last one is current
  repo,      \* unleash repository: the version it holds, 0 before the first
  ready,     \* UnleashClientListener.ready
  restarts,  \* restarts so far
  pc,        \* per request: where it is
  call,      \* per request: the call
  todo,      \* per request: names still to look up
  found,     \* per request: features copied but not yet converted
  result,    \* per request: entries appended so far
  start      \* per request: repo when it was made, 0 if not ready then

processVars == <<repo, ready, restarts>>
requestVars == <<pc, call, todo, found, result, start>>
vars == <<history, repo, ready, restarts, pc, call, todo, found, result, start>>

TypeOK ==
  /\ history \in Seq(Version) /\ history # << >>
  /\ repo \in 0 .. Len(history)
  /\ ready \in BOOLEAN
  /\ restarts \in 0 .. MaxRestarts
  /\ pc \in [Request -> {"idle", "called", "running", "answered", "failed"}]
  /\ call \in [Request -> Calls]
  /\ todo \in [Request -> Seq(Name)]
  /\ found \in [Request -> SUBSET [name : Name, setting : Settings]]
  /\ result \in [Request -> Seq(Entry)]
  /\ start \in [Request -> Nat]

NoCall == CHOOSE c \in Calls : TRUE

ProcessStarts ==
  /\ repo' = 0
  /\ ready' = FALSE
  /\ pc' = [r \in Request |-> "idle"]
  /\ call' = [r \in Request |-> NoCall]
  /\ todo' = [r \in Request |-> << >>]
  /\ found' = [r \in Request |-> {}]
  /\ result' = [r \in Request |-> << >>]
  /\ start' = [r \in Request |-> 0]

Init ==
  /\ history \in {<<version>> : version \in Version}
  /\ repo = 0
  /\ ready = FALSE
  /\ restarts = 0
  /\ pc = [r \in Request |-> "idle"]
  /\ call = [r \in Request |-> NoCall]
  /\ todo = [r \in Request |-> << >>]
  /\ found = [r \in Request |-> {}]
  /\ result = [r \in Request |-> << >>]
  /\ start = [r \in Request |-> 0]

-----------------------------------------------------------------------------
(* The toggles server (external): an administrator adds, changes or        *)
(* removes one feature at a time.                                          *)
Edit(n, setting) ==
  /\ Len(history) <= MaxEdits
  /\ history[Len(history)][n] # setting
  /\ history' =
       Append(history, [history[Len(history)] EXCEPT ![n] = setting])
  /\ UNCHANGED <<processVars, requestVars>>

(* A poll by the unleash client that finds something new: every ten        *)
(* seconds (NewDefaultClient), from the start of the process on.  A poll   *)
(* that fails is only logged (OnError) and leaves everything as it is.     *)
Refresh ==
  /\ repo < Len(history)
  /\ repo' = Len(history)
  /\ UNCHANGED <<history, ready, restarts, requestVars>>

(* The listener's goroutine learns that the first poll has succeeded and   *)
(* sets the flag.  The flag is a plain bool that other goroutines read     *)
(* without synchronisation: this step is when the store becomes visible to *)
(* them, any time after the poll.                                          *)
OnReady_Early ==   \* mistake: ready before anything was fetched
  /\ ~ready
  /\ ready' = TRUE
  /\ UNCHANGED <<history, repo, restarts, requestVars>>

OnReady_Idle ==   \* mistake: waits for the calls in progress
  /\ repo > 0
  /\ ~ready
  /\ \A r \in Request : pc[r] = "idle"
  /\ ready' = TRUE
  /\ UNCHANGED <<history, repo, restarts, requestVars>>

OnReady ==
  /\ repo > 0
  /\ ~ready
  /\ ready' = TRUE
  /\ UNCHANGED <<history, repo, restarts, requestVars>>

(* The process dies and starts again: NewDefaultClient builds an empty     *)
(* repository and a listener that is not ready, the calls in progress are  *)
(* lost.                                                                   *)
Restart ==
  /\ restarts < MaxRestarts
  /\ restarts' = restarts + 1
  /\ ProcessStarts
  /\ UNCHANGED history

-----------------------------------------------------------------------------
(* A handler calls the client.  GetFeature goes straight to its one        *)
(* look-up, the three list methods test the flag first.                    *)
Invoke(r, c) ==
  /\ pc[r] = "idle"
  /\ pc' = [pc EXCEPT ![r] = IF c.method = "GetFeature" THEN "running"
                                                        ELSE "called"]
  /\ call' = [call EXCEPT ![r] = c]
  /\ todo' = [todo EXCEPT ![r] = IF c.method = "GetFeature" THEN c.names
                                                            ELSE << >>]
  /\ start' = [start EXCEPT ![r] = IF ready THEN repo ELSE 0]
  /\ UNCHANGED <<history, processVars, found, result>>

(* A list method while the client is not ready: the empty list.            *)
AnswerNotReady(r) ==
  /\ pc[r] = "called"
  /\ ~ready
  /\ pc' = [pc EXCEPT ![r] = "answered"]
  /\ UNCHANGED <<history, processVars, call, todo, found, result, start>>

GetFeaturesByName(r) ==
  /\ pc[r] = "called"
  /\ ready
  /\ call[r].method = "GetFeaturesByName"
  /\ pc' = [pc EXCEPT ![r] = "running"]
  /\ todo' = [todo EXCEPT ![r] = call[r].names]
  /\ UNCHANGED <<history, processVars, call, found, result, start>>

(* GetFeaturesByPattern and GetFeaturesByStrategy: one read copies all     *)
(* features selected.                                                      *)
Select(r) ==
  /\ pc[r] = "called"
  /\ ready
  /\ call[r].method \in {"GetFeaturesByPattern", "GetFeaturesByStrategy"}
  /\ pc' = [pc EXCEPT ![r] = "running"]
  /\ found' = [found EXCEPT ![r] =
       {Feature(history[repo], n) : n \in Selected(history[repo], call[r])}]
  /\ UNCHANGED <<history, processVars, call, todo, result, start>>

(* GetFeature for the next name: nothing when the client is not ready or   *)
(* knows no such feature (the list of names then leaves it out), else a    *)
(* copy of the feature.                                                    *)
GetFeature_FromTheEnd(r) ==   \* mistake: the list is read backwards
  /\ pc[r] = "running"
  /\ found[r] = {}
  /\ todo[r] # << >>
  /\ LET n == todo[r][Len(todo[r])]
     IN  found' = [found EXCEPT ![r] =
           IF ready /\ n \in Configured(history[repo])
           THEN {Feature(history[repo], n)} ELSE {}]
  /\ todo' = [todo EXCEPT ![r] = SubSeq(todo[r], 1, Len(todo[r]) - 1)]
  /\ UNCHANGED <<history, processVars, pc, call, result, start>>

GetFeature(r) ==
  /\ pc[r] = "running"
  /\ found[r] = {}
  /\ todo[r] # << >>
  /\ found' = [found EXCEPT ![r] =
       IF ready /\ Head(todo[r]) \in Configured(history[repo])
       THEN {Feature(history[repo], Head(todo[r]))}
       ELSE {}]
  /\ todo' = [todo EXCEPT ![r] = Tail(todo[r])]
  /\ UNCHANGED <<history, processVars, pc, call, result, start>>

Converted_FirstVersion(r, f) ==   \* mistake: enablement is never refreshed
  IF ready THEN toUserFeature(f, history[1], call[r].user)
           ELSE UserFeature(f, FALSE, UnknownLevel)

Converted(r, f) ==
  IF ready THEN toUserFeature(f, history[repo], call[r].user)
           ELSE UserFeature(f, FALSE, UnknownLevel)

(* One copied feature, in the repository's order, which is any.            *)
ToUserFeature(r, f) ==
  /\ pc[r] = "running"
  /\ f \in found[r]
  /\ ready => ~Panics(history[repo], f.name, call[r].user)
  /\ found' = [found EXCEPT ![r] = found[r] \ {f}]
  /\ result' = [result EXCEPT ![r] = Append(result[r], Converted(r, f))]
  /\ UNCHANGED <<history, processVars, pc, call, todo, start>>

(* A strategy panics while the feature is asked for: the whole call fails. *)
Panic_Any(r, f) ==   \* mistake: all features are asked for
  /\ pc[r] = "running"
  /\ f \in found[r]
  /\ ready
  /\ \E n \in Name : Panics(history[repo], n, call[r].user)
  /\ pc' = [pc EXCEPT ![r] = "failed"]
  /\ UNCHANGED <<history, processVars, call, todo, found, result, start>>

Panic(r, f) ==
  /\ pc[r] = "running"
  /\ f \in found[r]
  /\ ready
  /\ Panics(history[repo], f.name, call[r].user)
  /\ pc' = [pc EXCEPT ![r] = "failed"]
  /\ UNCHANGED <<history, processVars, call, todo, found, result, start>>

Return_First(r) ==   \* mistake: returns from inside the loop
  /\ pc[r] = "running"
  /\ Len(result[r]) > 0 \/ found[r] = {}
  /\ todo[r] = << >>
  /\ pc' = [pc EXCEPT ![r] = "answered"]
  /\ UNCHANGED <<history, processVars, call, todo, found, result, start>>

Return_NonEmpty(r) ==   \* mistake: waits for an entry
  /\ pc[r] = "running"
  /\ found[r] = {}
  /\ todo[r] = << >>
  /\ result[r] # << >>
  /\ pc' = [pc EXCEPT ![r] = "answered"]
  /\ UNCHANGED <<history, processVars, call, todo, found, result, start>>

Return(r) ==
  /\ pc[r] = "running"
  /\ found[r] = {}
  /\ todo[r] = << >>
  /\ pc' = [pc EXCEPT ![r] = "answered"]
  /\ UNCHANGED <<history, processVars, call, todo, found, result, start>>

(* The handler has its answer, and the slot serves another call.           *)
Release(r) ==
  /\ pc[r] \in {"answered", "failed"}
  /\ pc' = [pc EXCEPT ![r] = "idle"]
  /\ todo' = [todo EXCEPT ![r] = << >>]
  /\ found' = [found EXCEPT ![r] = {}]
  /\ result' = [result EXCEPT ![r] = << >>]
  /\ start' = [start EXCEPT ![r] = 0]
  /\ UNCHANGED <<history, processVars, call>>

Step(r) ==
  \/ AnswerNotReady(r)
  \/ GetFeaturesByName(r)
  \/ Select(r)
  \/ GetFeature(r)
  \/ \E f \in found[r] : ToUserFeature(r, f) \/ Panic(r, f)
  \/ Return(r)

Next ==
  \/ \E n \in Name, setting \in Settings \union {Absent} : Edit(n, setting)
  \/ Refresh
  \/ OnReady
  \/ Restart
  \/ \E r \in Request :
       \/ \E c \in Calls : Invoke(r, c)
       \/ Step(r)
       \/ Release(r)

(* Goroutines are scheduled: a request is carried on, the callback runs.   *)
(* The server answers a poll now and then.  Nobody has to edit, to call or *)
(* to crash.                                                               *)
Fairness ==
  /\ WF_vars(Refresh)
  /\ WF_vars(OnReady)
  /\ \A r \in Request : WF_vars(Step(r))

Spec == Init /\ [][Next]_vars /\ Fairness

-----------------------------------------------------------------------------
(* The versions a request may have seen: from the one the repository held  *)
(* when the request was made (any, if the client was not ready then) to    *)
(* the one it holds now.                                                   *)
Window(r) == (IF start[r] = 0 THEN 1 ELSE start[r]) .. repo

(* Every entry that GetFeature or a list method returns is an account of   *)
(* one feature the call asked for, taken from at most two versions of the  *)
(* server, in their order, both of the time of the request: the feature    *)
(* and the level from one (toggles_client_wrapper.go:92, 117, 133, 147),   *)
(* whether the user has it from the same or a later one (line 178).  No    *)
(* entry is older than the request, made up, or about another user.        *)
ExplainedBy(entry, s, e, c) ==
  \E n \in Selected(history[s], c) :
    entry = toUserFeature(Feature(history[s], n), history[e], c.user)

Explained ==
  \A r \in Request : \A i \in DOMAIN result[r] :
    \E s \in Window(r) : \E e \in s .. repo :
      ExplainedBy(result[r][i], s, e, call[r])

(* A group or a strategy is answered from one version: the answer has each *)
(* feature selected in it, once, and no other, whatever refreshes come     *)
(* between the selection and the conversions.  Only a request made before  *)
(* the client was ready may get the empty list instead                     *)
(* (GetFeaturesByPattern, GetFeaturesByStrategy).                          *)
SelectionIsOneVersion ==
  \A r \in Request :
    /\ pc[r] = "answered"
    /\ call[r].method \in {"GetFeaturesByPattern", "GetFeaturesByStrategy"}
    => \/ start[r] = 0 /\ result[r] = << >>
       \/ \E s \in Window(r) :
            /\ {result[r][i].name : i \in DOMAIN result[r]}
                 = Selected(history[s], call[r])
            /\ \A i, j \in DOMAIN result[r] :
                 result[r][i].name = result[r][j].name => i = j

(* A call fails only because a feature that it asked for is switched on    *)
(* and has a level strategy without a level                                *)
(* (enable_by_level_strategy.go:28); a feature it did not ask for never    *)
(* makes it fail.                                                          *)
FailureHasACause ==
  \A r \in Request :
    pc[r] = "failed" =>
      \E s \in Window(r) : \E e \in s .. repo :
        \E n \in Selected(history[s], call[r]) \cap Configured(history[e]) :
          Misconfigured(history[e][n])

-----------------------------------------------------------------------------
(* What Explained and FailureHasACause rest on: a ready client has fetched *)
(* something; a free slot holds nothing of an earlier call; a request      *)
(* starts at a version that has been reached and looks up only names it    *)
(* was asked for; a copied feature comes from a ready client, from a       *)
(* version of the time of the request, and is one of those the call is     *)
(* after.  As a conversion has a copy to convert, the client is ready then *)
(* (FoundIsSelected), and the fallback of isFeatureEnabled                 *)
(* (toggles_client_wrapper.go:156-159) is never taken.                     *)
ReadyMeansLoaded == ready => repo > 0

IdleIsEmpty ==
  \A r \in Request :
    pc[r] = "idle" => todo[r] = << >> /\ found[r] = {} /\ result[r] = << >>

StartIsReached == \A r \in Request : start[r] <= repo

TodoIsAsked ==
  \A r \in Request : \A i \in DOMAIN todo[r] :
    /\ call[r].method \in {"GetFeature", "GetFeaturesByName"}
    /\ \E j \in DOMAIN call[r].names : call[r].names[j] = todo[r][i]

FoundIsSelected ==
  \A r \in Request : \A f \in found[r] :
    /\ ready
    /\ \E s \in Window(r) :
         /\ f.name \in Selected(history[s], call[r])
         /\ f = Feature(history[s], f.name)

IInv ==
  /\ TypeOK
  /\ ReadyMeansLoaded
  /\ IdleIsEmpty
  /\ StartIsReached
  /\ TodoIsAsked
  /\ FoundIsSelected
  /\ Explained
  /\ FailureHasACause

-----------------------------------------------------------------------------
(* The client keeps its promise: seen from a handler, a call is answered   *)
(* in one step, from the contents of the time of the request, however many *)
(* reads it took and whatever happened between them                        *)
(* (toggles_client_wrapper.go:86-190).                                     *)
PromisedStage(r) ==
  IF pc[r] \in {"called", "running"} THEN "asked" ELSE pc[r]

PromisedAnswer(r) == IF pc[r] = "answered" THEN result[r] ELSE << >>

Promise == INSTANCE TogglesPromise WITH
  stage  <- [r \in Request |-> PromisedStage(r)],
  answer <- [r \in Request |-> PromisedAnswer(r)]

PromiseKept == Promise!Spec

-----------------------------------------------------------------------------
(* Every call that handlers make comes to an end, even while the client is *)
(* not ready or the repository keeps changing, unless the process dies.    *)
EveryCallEnds ==
  \A r \in Request :
    pc[r] \in {"called", "running"} ~> pc[r] \in {"answered", "failed", "idle"}

(* Whatever the edits and restarts, the client ends up ready, with the     *)
(* content of the server (NewDefaultClient's refresh, OnReady).            *)
CatchesUp == <>[](ready /\ repo = Len(history))

-----------------------------------------------------------------------------
(* What the documentation says of an entry, and the code does not keep.    *)

(* design/features.go:37 calls `enabled' the global switch "prior to       *)
(* applying strategies": a feature that is enabled for the user is enabled.*)
(* toggles_client_wrapper.go:178 asks for the user's enablement after the  *)
(* feature was copied, perhaps from a newer version.                       *)
UserEnabledImpliesEnabled ==
  \A r \in Request : \A i \in DOMAIN result[r] :
    result[r][i].userEnabled => result[r][i].enabled

(* design/features.go:43, "Empty/missing means that the feature is not     *)
(* accessible to the user", of the enablement level, which the controller  *)
(* leaves out when it is unknown.  An external user whose profile says     *)
(* `internal' has a feature for internal users without it: IsEnabled is    *)
(* not told that the user is external (toggles_client_wrapper.go:165-187). *)
(* So has a user on a list of addresses.                                   *)
NoLevelMeansNoAccess ==
  \A r \in Request : \A i \in DOMAIN result[r] :
    result[r][i].enablementLevel = UnknownLevel => ~result[r][i].userEnabled

(* enable_by_emails_strategy.go:17, "roll out a feature if the user has    *)
(* the expected/configured email address": a user without any address does *)
(* not get a feature by it.                                                *)
NoAddressNoRollOut ==
  \A r \in Request : \A i \in DOMAIN result[r] :
    /\ result[r][i].userEnabled
    /\ call[r].user.email = NoEmail
    => \E e \in Window(r) :
         \E k \in DOMAIN history[e][result[r][i].name].strategies :
           history[e][result[r][i].name].strategies[k].name # EnableByEmails
=============================================================================
