------------------------- MODULE TogglesClientProofs -------------------------
(***************************************************************************)
(* Proofs about TogglesClient, for every set of names, settings, calls and *)
(* requests and every number of edits and restarts: the types, and that    *)
(* every entry of an answer is explained by versions of the time of the    *)
(* request.                                                                *)
(***************************************************************************)
EXTENDS TogglesClient, TLAPS

-----------------------------------------------------------------------------
(* The level computed for any feature is one of the five names             *)
(* (ComputeEnablementLevel, fromFeatureLevel).                             *)
LEMMA LevelIsNamed ==
  ASSUME NEW setting, NEW internalUser
  PROVE  ComputeEnablementLevel(setting, internalUser) \in LevelName
<1>1. \A level : fromFeatureLevel(level) \in LevelName
  BY DEF fromFeatureLevel, LevelName
<1> QED
  BY <1>1 DEF ComputeEnablementLevel, LevelName

(* What toUserFeature returns is an entry, ready or not.                   *)
LEMMA ConvertedIsEntry ==
  ASSUME NEW r, NEW f \in [name : Name, setting : Settings]
  PROVE  Converted(r, f) \in Entry
<1>1. f.name \in Name /\ f.setting \in Setting
  BY ClientAssumption, FeaturesAssumption
<1>2. f.setting.description \in Description /\ f.setting.enabled \in BOOLEAN
  BY <1>1 DEF Setting
<1>3. ASSUME NEW userEnabled \in BOOLEAN, NEW level \in LevelName
      PROVE  UserFeature(f, userEnabled, level) \in Entry
  BY <1>1, <1>2 DEF UserFeature, Entry
<1>4. UnknownLevel \in LevelName
  BY DEF LevelName
<1>5. \A version, user : IsEnabled(version, f.name, user) \in BOOLEAN
  BY DEF IsEnabled
<1> QED
  BY <1>3, <1>4, <1>5, LevelIsNamed DEF Converted, toUserFeature

(* A copy of a configured feature is a feature.                            *)
LEMMA CopyIsFeature ==
  ASSUME NEW version \in Version, NEW n \in Configured(version)
  PROVE  Feature(version, n) \in [name : Name, setting : Settings]
BY DEF Feature, Configured, Version

-----------------------------------------------------------------------------
LEMMA NoCallIsCall == NoCall \in Calls
BY ClientAssumption, FeaturesAssumption DEF NoCall

(* The variables of a fresh process have their types.                      *)
LEMMA FreshTypes ==
  /\ [r \in Request |-> NoCall] \in [Request -> Calls]
  /\ [r \in Request |-> << >>] \in [Request -> Seq(Name)]
  /\ [r \in Request |-> {}] \in
       [Request -> SUBSET [name : Name, setting : Settings]]
  /\ [r \in Request |-> << >>] \in [Request -> Seq(Entry)]
<1>1. << >> \in Seq(Name) /\ << >> \in Seq(Entry)
  OBVIOUS
<1> QED
  BY <1>1, NoCallIsCall

(* A feature is copied and looked at only where something was fetched.     *)
Typed == TypeOK /\ ReadyMeansLoaded

LEMMA InitTyped == Init => Typed
<1> SUFFICES ASSUME Init PROVE Typed
  OBVIOUS
<1>1. PICK version \in Version : history = <<version>>
  BY DEF Init
<1>2. history \in Seq(Version) /\ history # << >> /\ Len(history) = 1
  BY <1>1
<1>3. restarts \in 0 .. MaxRestarts
  BY ClientAssumption, FeaturesAssumption DEF Init
<1>4. ready \in BOOLEAN /\ ~ready
  BY DEF Init
<1>5. pc \in [Request -> {"idle", "called", "running", "answered", "failed"}]
      /\ start \in [Request -> Nat]
  BY DEF Init
<1> QED
  BY <1>2, <1>3, <1>4, <1>5, FreshTypes DEF Init, Typed, TypeOK, ReadyMeansLoaded

LEMMA NextTyped == Typed /\ [Next]_vars => Typed'
<1> SUFFICES ASSUME TypeOK, ReadyMeansLoaded, [Next]_vars PROVE Typed'
  BY DEF Typed
<1> USE DEF Typed, TypeOK, ReadyMeansLoaded, processVars, requestVars
<1>1. ASSUME NEW n \in Name, NEW setting \in Settings \union {Absent},
             Edit(n, setting)
      PROVE  Typed'
  <2>1. [history[Len(history)] EXCEPT ![n] = setting] \in Version
    BY <1>1 DEF Version
  <2> QED
    BY <1>1, <2>1 DEF Edit
<1>2. CASE Refresh
  BY <1>2 DEF Refresh
<1>3. CASE OnReady
  BY <1>3 DEF OnReady
<1>4. CASE Restart
  <2>1. restarts' \in 0 .. MaxRestarts
    BY <1>4, ClientAssumption, FeaturesAssumption DEF Restart
  <2>2. ready' \in BOOLEAN /\ ~ready'
    BY <1>4 DEF Restart, ProcessStarts
  <2>3. pc' \in [Request -> {"idle", "called", "running", "answered", "failed"}]
        /\ start' \in [Request -> Nat]
    BY <1>4 DEF Restart, ProcessStarts
  <2> QED
    BY <1>4, <2>1, <2>2, <2>3, FreshTypes DEF Restart, ProcessStarts
<1>5. ASSUME NEW r \in Request, NEW c \in Calls, Invoke(r, c) PROVE Typed'
  BY <1>5, ClientAssumption, FeaturesAssumption DEF Invoke, Call
<1>6. ASSUME NEW r \in Request, AnswerNotReady(r) PROVE Typed'
  BY <1>6 DEF AnswerNotReady
<1>7. ASSUME NEW r \in Request, GetFeaturesByName(r) PROVE Typed'
  BY <1>7, ClientAssumption, FeaturesAssumption DEF GetFeaturesByName, Call
<1>8. ASSUME NEW r \in Request, Select(r) PROVE Typed'
  <2>1. history[repo] \in Version
    BY <1>8 DEF Select
  <2> QED
    BY <1>8, <2>1, CopyIsFeature DEF Select, Selected
<1>9. ASSUME NEW r \in Request, GetFeature(r) PROVE Typed'
  <2>1. ready => history[repo] \in Version
    OBVIOUS
  <2> QED
    BY <1>9, <2>1, CopyIsFeature DEF GetFeature
<1>10. ASSUME NEW r \in Request, NEW f \in found[r], ToUserFeature(r, f)
       PROVE  Typed'
  <2>1. Converted(r, f) \in Entry
    BY ConvertedIsEntry
  <2> QED
    BY <1>10, <2>1 DEF ToUserFeature
<1>11. ASSUME NEW r \in Request, NEW f \in found[r], Panic(r, f)
       PROVE  Typed'
  BY <1>11 DEF Panic
<1>12. ASSUME NEW r \in Request, Return(r) PROVE Typed'
  BY <1>12 DEF Return
<1>13. ASSUME NEW r \in Request, Release(r) PROVE Typed'
  BY <1>13 DEF Release
<1>14. CASE UNCHANGED vars
  BY <1>14 DEF vars
<1> QED
  BY <1>1, <1>2, <1>3, <1>4, <1>5, <1>6, <1>7, <1>8, <1>9, <1>10, <1>11,
     <1>12, <1>13, <1>14 DEF Next, Step

(* The variables of the client keep their types: what a call returns is a  *)
(* list of entries, and the repository holds a version of the server.      *)
THEOREM TypeCorrect == Spec => []TypeOK
<1>1. Typed => TypeOK
  BY DEF Typed
<1> QED
  BY <1>1, InitTyped, NextTyped, PTL DEF Spec

-----------------------------------------------------------------------------
(* The part of IInv that is about one request.                             *)
RequestInv(r) ==
  /\ pc[r] = "idle" =>
       todo[r] = << >> /\ found[r] = {} /\ result[r] = << >>
  /\ start[r] <= repo
  /\ \A i \in DOMAIN todo[r] :
       /\ call[r].method \in {"GetFeature", "GetFeaturesByName"}
       /\ \E j \in DOMAIN call[r].names : call[r].names[j] = todo[r][i]
  /\ \A f \in found[r] :
       /\ ready
       /\ \E s \in Window(r) :
            /\ f.name \in Selected(history[s], call[r])
            /\ f = Feature(history[s], f.name)
  /\ \A i \in DOMAIN result[r] :
       \E s \in Window(r) : \E e \in s .. repo :
         ExplainedBy(result[r][i], s, e, call[r])
  /\ pc[r] = "failed" =>
       \E s \in Window(r) : \E e \in s .. repo :
         \E n \in Selected(history[s], call[r]) \cap Configured(history[e]) :
           Misconfigured(history[e][n])

LEMMA IInvByRequest == IInv <=> Typed /\ \A r \in Request : RequestInv(r)
BY DEF IInv, Typed, RequestInv, IdleIsEmpty, StartIsReached, TodoIsAsked,
       FoundIsSelected, Explained, FailureHasACause

(* Within one life of the process the history and the repository only      *)
(* grow, and the flag stays up.                                            *)
Grows ==
  /\ repo <= repo'
  /\ ready => ready'
  /\ \A s \in 1 .. repo : history'[s] = history[s]

LEMMA NextGrows == Typed /\ [Next]_vars /\ ~Restart => Grows
<1> SUFFICES ASSUME Typed, [Next]_vars, ~Restart PROVE Grows
  OBVIOUS
<1> USE DEF Typed, TypeOK, Grows, processVars, requestVars
<1>1. ASSUME NEW n \in Name, NEW setting \in Settings \union {Absent},
             Edit(n, setting)
      PROVE  Grows
  BY <1>1 DEF Edit
<1>2. CASE Refresh
  BY <1>2 DEF Refresh
<1>3. CASE OnReady
  BY <1>3 DEF OnReady
<1>4. ASSUME UNCHANGED <<history, repo, ready>> PROVE Grows
  BY <1>4
<1>5. ASSUME NEW r \in Request, NEW c \in Calls, Invoke(r, c)
      PROVE  UNCHANGED <<history, repo, ready>>
  BY <1>5 DEF Invoke
<1>6. ASSUME NEW r \in Request, Step(r) \/ Release(r)
      PROVE  UNCHANGED <<history, repo, ready>>
  BY <1>6 DEF Step, AnswerNotReady, GetFeaturesByName, Select, GetFeature,
     ToUserFeature, Panic, Return, Release
<1> QED
  BY <1>1, <1>2, <1>3, <1>4, <1>5, <1>6 DEF Next, vars

(* What a request may have seen it may still have seen later.              *)
LEMMA WindowGrows ==
  ASSUME Typed, Typed', Grows, NEW r \in Request, start'[r] = start[r],
         NEW s \in Window(r)
  PROVE  /\ s \in Window(r)'
         /\ history'[s] = history[s]
         /\ \A e \in s .. repo : e \in s .. repo' /\ history'[e] = history[e]
BY DEF Typed, TypeOK, Grows, Window

(* A step that does not touch a request keeps what is known of it.         *)
LEMMA Untouched ==
  ASSUME Typed, Typed', Grows, NEW r \in Request, RequestInv(r),
         pc'[r] = pc[r], call'[r] = call[r], todo'[r] = todo[r],
         found'[r] = found[r], result'[r] = result[r], start'[r] = start[r]
  PROVE  RequestInv(r)'
<1>1. start'[r] <= repo'
  BY DEF RequestInv, Grows, Typed, TypeOK
<1>2. ASSUME NEW f \in found'[r]
      PROVE  /\ ready'
             /\ \E s \in Window(r)' :
                  /\ f.name \in Selected(history'[s], call'[r])
                  /\ f = Feature(history'[s], f.name)
  <2>1. ready'
    BY <1>2 DEF RequestInv, Grows
  <2>2. PICK s \in Window(r) : /\ f.name \in Selected(history[s], call[r])
                              /\ f = Feature(history[s], f.name)
    BY <1>2 DEF RequestInv
  <2> QED
    BY <2>1, <2>2, WindowGrows
<1>3. ASSUME NEW i \in DOMAIN result'[r]
      PROVE  \E s \in Window(r)' : \E e \in s .. repo' :
               ExplainedBy(result[r][i], s, e, call[r])'
  <2>0. PICK s \in Window(r) : \E e \in s .. repo :
          ExplainedBy(result[r][i], s, e, call[r])
    BY <1>3 DEF RequestInv
  <2>1. PICK e \in s .. repo : ExplainedBy(result[r][i], s, e, call[r])
    BY <2>0
  <2>2. history'[s] = history[s] /\ history'[e] = history[e]
    BY WindowGrows
  <2>3. ExplainedBy(result[r][i], s, e, call[r])'
    BY <2>1, <2>2 DEF ExplainedBy
  <2> QED
    BY <2>3, WindowGrows
<1>4. ASSUME pc'[r] = "failed"
      PROVE  \E s \in Window(r)' : \E e \in s .. repo' :
               \E n \in Selected(history'[s], call'[r])
                         \cap Configured(history'[e]) :
                 Misconfigured(history'[e][n])
  <2>0. PICK s \in Window(r) : \E e \in s .. repo :
          \E n \in Selected(history[s], call[r]) \cap Configured(history[e]) :
            Misconfigured(history[e][n])
    BY <1>4 DEF RequestInv
  <2>1. PICK e \in s .. repo :
          \E n \in Selected(history[s], call[r]) \cap Configured(history[e]) :
            Misconfigured(history[e][n])
    BY <2>0
  <2> QED
    BY <2>1, WindowGrows
<1> QED
  BY <1>1, <1>2, <1>3, <1>4 DEF RequestInv

-----------------------------------------------------------------------------
(* A request that has done nothing yet.                                    *)
LEMMA EmptyRequest ==
  ASSUME NEW r \in Request, start[r] <= repo, todo[r] = << >>, found[r] = {},
         result[r] = << >>, pc[r] # "failed"
  PROVE  RequestInv(r)
BY DEF RequestInv

(* A feature that the repository holds and the call asks for is in the     *)
(* last version of the window.                                             *)
LEMMA NewestInWindow ==
  ASSUME Typed, ready, NEW r \in Request, start[r] <= repo
  PROVE  repo \in Window(r) /\ history[repo] \in Version
BY DEF Typed, TypeOK, ReadyMeansLoaded, Window

(* UnleashIsEnabled panics only at a level strategy without a level.       *)
LEMMA PanicsMisconfigured ==
  ASSUME NEW version, NEW n \in Name, NEW user, Panics(version, n, user)
  PROVE  n \in Configured(version) /\ Misconfigured(version[n])
BY DEF Panics, UnleashPanics, LevelStrategyPanics, Misconfigured, Configured

LEMMA InvokeInv ==
  ASSUME Typed, NEW r \in Request, NEW c \in Calls, RequestInv(r), Invoke(r, c)
  PROVE  RequestInv(r)'
<1> USE DEF Typed, TypeOK, processVars
<1>1. /\ pc'[r] \in {"running", "called"} /\ call'[r] = c
      /\ found'[r] = {} /\ result'[r] = << >>
      /\ repo' = repo
      /\ start'[r] = IF ready THEN repo ELSE 0
      /\ todo'[r] = IF c.method = "GetFeature" THEN c.names ELSE << >>
  BY DEF Invoke, RequestInv
<1>2. start'[r] <= repo'
  BY <1>1
<1>3. ASSUME NEW i \in DOMAIN todo'[r]
      PROVE  /\ c.method \in {"GetFeature", "GetFeaturesByName"}
             /\ \E j \in DOMAIN c.names : c.names[j] = todo'[r][i]
  BY <1>1, <1>3
<1> QED
  BY <1>1, <1>2, <1>3 DEF RequestInv

(* Entries stay explained while nothing they depend on changes.            *)
LEMMA ResultKept ==
  ASSUME NEW r \in Request, RequestInv(r),
         UNCHANGED <<history, repo, call, result, start>>
  PROVE  \A i \in DOMAIN result'[r] :
           \E s \in Window(r)' : \E e \in s .. repo' :
             ExplainedBy(result[r][i], s, e, call[r])'
<1> SUFFICES ASSUME NEW i \in DOMAIN result[r]
             PROVE  \E s \in Window(r)' : \E e \in s .. repo' :
                      ExplainedBy(result[r][i], s, e, call[r])'
  OBVIOUS
<1>1. Window(r)' = Window(r)
  BY DEF Window
<1>2. ASSUME NEW s, NEW e, ExplainedBy(result[r][i], s, e, call[r])
      PROVE  ExplainedBy(result[r][i], s, e, call[r])'
  BY <1>2 DEF ExplainedBy
<1>3. \E s \in Window(r) : \E e \in s .. repo :
        ExplainedBy(result[r][i], s, e, call[r])
  BY DEF RequestInv
<1> QED
  BY <1>1, <1>2, <1>3

(* The steps that only move a request on.                                  *)
LEMMA MovesOnInv ==
  ASSUME Typed, NEW r \in Request, RequestInv(r),
         AnswerNotReady(r) \/ GetFeaturesByName(r) \/ Return(r)
  PROVE  RequestInv(r)'
<1>1. /\ pc'[r] \in {"running", "answered"}
      /\ UNCHANGED <<history, repo, ready, call, found, result, start>>
      /\ \/ todo' = todo
         \/ /\ call[r].method = "GetFeaturesByName"
            /\ todo'[r] = call[r].names
  BY DEF AnswerNotReady, GetFeaturesByName, Return, Typed, TypeOK, processVars
<1>2. Window(r)' = Window(r)
  BY <1>1 DEF Window
<1>3. \A i \in DOMAIN todo'[r] :
        /\ call'[r].method \in {"GetFeature", "GetFeaturesByName"}
        /\ \E j \in DOMAIN call'[r].names : call'[r].names[j] = todo'[r][i]
  BY <1>1 DEF RequestInv
<1>4. \A i \in DOMAIN result'[r] :
        \E s \in Window(r)' : \E e \in s .. repo' :
          ExplainedBy(result[r][i], s, e, call[r])'
  BY <1>1, ResultKept
<1>5. \A f \in found'[r] :
        /\ ready'
        /\ \E s \in Window(r)' :
             /\ f.name \in Selected(history'[s], call'[r])
             /\ f = Feature(history'[s], f.name)
  BY <1>1, <1>2 DEF RequestInv
<1>6. start'[r] <= repo'
  BY <1>1 DEF RequestInv
<1> QED
  BY <1>1, <1>3, <1>4, <1>5, <1>6 DEF RequestInv

LEMMA SelectInv ==
  ASSUME Typed, NEW r \in Request, RequestInv(r), Select(r)
  PROVE  RequestInv(r)'
<1>1. /\ pc'[r] = "running" /\ ready
      /\ UNCHANGED <<history, repo, ready, call, todo, result, start>>
      /\ found'[r] = {Feature(history[repo], n) :
                        n \in Selected(history[repo], call[r])}
  BY DEF Select, Typed, TypeOK, processVars
<1>2. Window(r)' = Window(r) /\ repo \in Window(r)
  BY <1>1, NewestInWindow DEF Window, RequestInv
<1>3. ASSUME NEW f \in found'[r]
      PROVE  /\ ready'
             /\ \E s \in Window(r)' :
                  /\ f.name \in Selected(history'[s], call'[r])
                  /\ f = Feature(history'[s], f.name)
  <2>1. PICK n \in Selected(history[repo], call[r]) :
          f = Feature(history[repo], n)
    BY <1>1, <1>3
  <2>2. f.name = n
    BY <2>1 DEF Feature
  <2> QED
    BY <1>1, <1>2, <2>1, <2>2
<1>4. \A i \in DOMAIN result'[r] :
        \E s \in Window(r)' : \E e \in s .. repo' :
          ExplainedBy(result[r][i], s, e, call[r])'
  BY <1>1, ResultKept
<1>5. \A i \in DOMAIN todo'[r] :
        /\ call'[r].method \in {"GetFeature", "GetFeaturesByName"}
        /\ \E j \in DOMAIN call'[r].names : call'[r].names[j] = todo'[r][i]
  BY <1>1 DEF RequestInv
<1>6. start'[r] <= repo'
  BY <1>1 DEF RequestInv
<1> QED
  BY <1>1, <1>3, <1>4, <1>5, <1>6 DEF RequestInv

LEMMA GetFeatureInv ==
  ASSUME Typed, NEW r \in Request, RequestInv(r), GetFeature(r)
  PROVE  RequestInv(r)'
<1> DEFINE n == Head(todo[r])
<1>1. /\ pc[r] = "running" /\ todo[r] # << >>
      /\ UNCHANGED <<history, repo, ready, pc, call, result, start>>
      /\ todo'[r] = Tail(todo[r])
      /\ found'[r] = IF ready /\ n \in Configured(history[repo])
                     THEN {Feature(history[repo], n)} ELSE {}
  BY DEF GetFeature, Typed, TypeOK, processVars
<1>2. Window(r)' = Window(r) /\ (ready => repo \in Window(r))
  BY <1>1, NewestInWindow DEF Window, RequestInv
<1>3. /\ call[r].method \in {"GetFeature", "GetFeaturesByName"}
      /\ \E j \in DOMAIN call[r].names : call[r].names[j] = n
  <2>1. 1 \in DOMAIN todo[r] /\ n = todo[r][1]
    BY <1>1 DEF Typed, TypeOK
  <2> QED
    BY <2>1 DEF RequestInv
<1>4. n \in Configured(history[repo]) => n \in Selected(history[repo], call[r])
  BY <1>3 DEF Selected
<1>5. ASSUME NEW f \in found'[r]
      PROVE  /\ ready'
             /\ \E s \in Window(r)' :
                  /\ f.name \in Selected(history'[s], call'[r])
                  /\ f = Feature(history'[s], f.name)
  <2>1. ready /\ n \in Configured(history[repo]) /\ f = Feature(history[repo], n)
    BY <1>1, <1>5
  <2>2. f.name = n
    BY <2>1 DEF Feature
  <2> QED
    BY <1>1, <1>2, <1>4, <2>1, <2>2
<1>6. \A i \in DOMAIN todo'[r] :
        /\ call'[r].method \in {"GetFeature", "GetFeaturesByName"}
        /\ \E j \in DOMAIN call'[r].names : call'[r].names[j] = todo'[r][i]
  <2>1. \A i \in DOMAIN Tail(todo[r]) :
          i + 1 \in DOMAIN todo[r] /\ Tail(todo[r])[i] = todo[r][i + 1]
    BY <1>1 DEF Typed, TypeOK
  <2> QED
    BY <1>1, <2>1 DEF RequestInv
<1>7. \A i \in DOMAIN result'[r] :
        \E s \in Window(r)' : \E e \in s .. repo' :
          ExplainedBy(result[r][i], s, e, call[r])'
  BY <1>1, ResultKept
<1>8. start'[r] <= repo'
  BY <1>1 DEF RequestInv
<1> QED
  BY <1>1, <1>5, <1>6, <1>7, <1>8 DEF RequestInv

LEMMA ToUserFeatureInv ==
  ASSUME Typed, NEW r \in Request, NEW f \in found[r], RequestInv(r),
         ToUserFeature(r, f)
  PROVE  RequestInv(r)'
<1>1. /\ pc[r] = "running" /\ ready
      /\ UNCHANGED <<history, repo, ready, pc, call, todo, start>>
      /\ found'[r] \subseteq found[r]
      /\ result'[r] = Append(result[r], Converted(r, f))
  BY DEF ToUserFeature, RequestInv, Typed, TypeOK, processVars
<1>2. Window(r)' = Window(r) /\ repo \in Window(r)
  BY <1>1, NewestInWindow DEF Window, RequestInv
<1>3. \E s \in Window(r) : \E e \in s .. repo :
        ExplainedBy(Converted(r, f), s, e, call[r])
  <2>1. PICK s \in Window(r) : /\ f.name \in Selected(history[s], call[r])
                              /\ f = Feature(history[s], f.name)
    BY DEF RequestInv
  <2>2. Converted(r, f) =
          toUserFeature(Feature(history[s], f.name), history[repo], call[r].user)
    BY <1>1, <2>1 DEF Converted
  <2>3. repo \in s .. repo
    BY <1>2, <2>1 DEF Window, Typed, TypeOK
  <2> QED
    BY <2>1, <2>2, <2>3 DEF ExplainedBy
<1>4. ASSUME NEW i \in DOMAIN result'[r]
      PROVE  \E s \in Window(r)' : \E e \in s .. repo' :
               ExplainedBy(result[r][i], s, e, call[r])'
  <2>1. \/ i \in DOMAIN result[r] /\ result'[r][i] = result[r][i]
        \/ result'[r][i] = Converted(r, f)
    BY <1>1, <1>4, ConvertedIsEntry DEF Typed, TypeOK
  <2>2. \E s \in Window(r) : \E e \in s .. repo :
          ExplainedBy(result'[r][i], s, e, call[r])
    BY <1>3, <2>1 DEF RequestInv
  <2>3. ASSUME NEW s, NEW e, ExplainedBy(result'[r][i], s, e, call[r])
        PROVE  ExplainedBy(result[r][i], s, e, call[r])'
    BY <1>1, <2>3 DEF ExplainedBy
  <2> QED
    BY <1>1, <1>2, <2>2, <2>3
<1>5. \A i \in DOMAIN todo'[r] :
        /\ call'[r].method \in {"GetFeature", "GetFeaturesByName"}
        /\ \E j \in DOMAIN call'[r].names : call'[r].names[j] = todo'[r][i]
  BY <1>1 DEF RequestInv
<1>6. \A g \in found'[r] :
        /\ ready'
        /\ \E s \in Window(r)' :
             /\ g.name \in Selected(history'[s], call'[r])
             /\ g = Feature(history'[s], g.name)
  BY <1>1, <1>2 DEF RequestInv
<1>7. start'[r] <= repo'
  BY <1>1 DEF RequestInv
<1> QED
  BY <1>1, <1>4, <1>5, <1>6, <1>7 DEF RequestInv

LEMMA PanicInv ==
  ASSUME Typed, NEW r \in Request, NEW f \in found[r], RequestInv(r),
         Panic(r, f)
  PROVE  RequestInv(r)'
<1>1. /\ pc'[r] = "failed" /\ ready
      /\ Panics(history[repo], f.name, call[r].user)
      /\ UNCHANGED <<history, repo, ready, call, todo, found, result, start>>
  BY DEF Panic, Typed, TypeOK, processVars
<1>2. Window(r)' = Window(r) /\ repo \in Window(r)
  BY <1>1, NewestInWindow DEF Window, RequestInv
<1>3. \E s \in Window(r)' : \E e \in s .. repo' :
        \E n \in Selected(history'[s], call'[r]) \cap Configured(history'[e]) :
          Misconfigured(history'[e][n])
  <2>1. PICK s \in Window(r) : f.name \in Selected(history[s], call[r])
    BY DEF RequestInv
  <2>2. f.name \in Name
    BY DEF Typed, TypeOK
  <2>3. /\ f.name \in Configured(history[repo])
        /\ Misconfigured(history[repo][f.name])
    BY <1>1, <2>2, PanicsMisconfigured
  <2>4. repo \in s .. repo
    BY <1>2, <2>1 DEF Window, Typed, TypeOK
  <2> QED
    BY <1>1, <1>2, <2>1, <2>3, <2>4
<1>4. \A i \in DOMAIN result'[r] :
        \E s \in Window(r)' : \E e \in s .. repo' :
          ExplainedBy(result[r][i], s, e, call[r])'
  BY <1>1, ResultKept
<1>5. \A i \in DOMAIN todo'[r] :
        /\ call'[r].method \in {"GetFeature", "GetFeaturesByName"}
        /\ \E j \in DOMAIN call'[r].names : call'[r].names[j] = todo'[r][i]
  BY <1>1 DEF RequestInv
<1>6. \A g \in found'[r] :
        /\ ready'
        /\ \E s \in Window(r)' :
             /\ g.name \in Selected(history'[s], call'[r])
             /\ g = Feature(history'[s], g.name)
  BY <1>1, <1>2 DEF RequestInv
<1>7. start'[r] <= repo'
  BY <1>1 DEF RequestInv
<1> QED
  BY <1>1, <1>3, <1>4, <1>5, <1>6, <1>7 DEF RequestInv

-----------------------------------------------------------------------------
(* A request's own steps leave the others alone, and every step of Next    *)
(* but a restart keeps what is known of every request.                     *)
Same(q) ==
  /\ pc'[q] = pc[q] /\ call'[q] = call[q] /\ todo'[q] = todo[q]
  /\ found'[q] = found[q] /\ result'[q] = result[q] /\ start'[q] = start[q]

LEMMA OthersUntouched ==
  ASSUME Typed, NEW r \in Request, NEW q \in Request, q # r,
         (\E c \in Calls : Invoke(r, c)) \/ Step(r) \/ Release(r)
  PROVE  Same(q)
<1> USE DEF Typed, TypeOK, Same
<1>1. ASSUME NEW c \in Calls, Invoke(r, c) PROVE Same(q)
  BY <1>1 DEF Invoke
<1>2. CASE AnswerNotReady(r)
  BY <1>2 DEF AnswerNotReady
<1>3. CASE GetFeaturesByName(r)
  BY <1>3 DEF GetFeaturesByName
<1>4. CASE Select(r)
  BY <1>4 DEF Select
<1>5. CASE GetFeature(r)
  BY <1>5 DEF GetFeature
<1>6. ASSUME NEW f \in found[r], ToUserFeature(r, f) PROVE Same(q)
  BY <1>6 DEF ToUserFeature
<1>7. ASSUME NEW f \in found[r], Panic(r, f) PROVE Same(q)
  BY <1>7 DEF Panic
<1>8. CASE Return(r)
  BY <1>8 DEF Return
<1>9. CASE Release(r)
  BY <1>9 DEF Release
<1> QED
  BY <1>1, <1>2, <1>3, <1>4, <1>5, <1>6, <1>7, <1>8, <1>9 DEF Step

LEMMA OwnStepInv ==
  ASSUME Typed, Typed', NEW r \in Request, RequestInv(r),
         (\E c \in Calls : Invoke(r, c)) \/ Step(r) \/ Release(r)
  PROVE  RequestInv(r)'
<1>1. CASE Release(r)
  <2>1. /\ pc'[r] = "idle" /\ todo'[r] = << >> /\ found'[r] = {}
        /\ result'[r] = << >> /\ start'[r] = 0 /\ 0 <= repo'
    BY <1>1 DEF Release, Typed, TypeOK
  <2> QED
    BY <2>1 DEF RequestInv
<1> QED
  BY <1>1, InvokeInv, MovesOnInv, SelectInv, GetFeatureInv, ToUserFeatureInv,
     PanicInv DEF Step

LEMMA InitInv == Init => IInv
<1> SUFFICES ASSUME Init PROVE IInv
  OBVIOUS
<1>1. Typed
  BY InitTyped
<1>2. ASSUME NEW r \in Request PROVE RequestInv(r)
  <2>1. /\ start[r] <= repo /\ todo[r] = << >> /\ found[r] = {}
        /\ result[r] = << >> /\ pc[r] # "failed"
    BY DEF Init
  <2> QED
    BY <2>1, EmptyRequest
<1> QED
  BY <1>1, <1>2, IInvByRequest

LEMMA NextInv == IInv /\ [Next]_vars => IInv'
<1> SUFFICES ASSUME IInv, [Next]_vars PROVE IInv'
  OBVIOUS
<1>1. Typed /\ Typed' /\ \A r \in Request : RequestInv(r)
  BY IInvByRequest, NextTyped
<1>2. ASSUME NEW q \in Request PROVE RequestInv(q)'
  <2>1. CASE Restart
    <3>1. /\ pc'[q] = "idle" /\ todo'[q] = << >> /\ found'[q] = {}
          /\ result'[q] = << >> /\ start'[q] = 0 /\ repo' = 0
      BY <2>1 DEF Restart, ProcessStarts
    <3> QED
      BY <3>1 DEF RequestInv
  <2>2. CASE ~Restart
    <3>1. Grows
      BY <1>1, <2>2, NextGrows
    <3>2. CASE Same(q)
      BY <1>1, <3>1, <3>2, Untouched DEF Same
    <3>3. CASE UNCHANGED requestVars
      BY <3>2, <3>3 DEF requestVars, Same
    <3>4. ASSUME NEW r \in Request,
                 (\E c \in Calls : Invoke(r, c)) \/ Step(r) \/ Release(r)
          PROVE  RequestInv(q)'
      <4>1. CASE q = r
        BY <1>1, <3>4, <4>1, OwnStepInv
      <4>2. CASE q # r
        BY <1>1, <3>2, <3>4, <4>2, OthersUntouched
      <4> QED
        BY <4>1, <4>2
    <3>5. ASSUME NEW n \in Name, NEW setting \in Settings \union {Absent},
                 Edit(n, setting)
          PROVE  RequestInv(q)'
      BY <3>3, <3>5 DEF Edit
    <3> QED
      BY <2>2, <3>3, <3>4, <3>5 DEF Next, Refresh, OnReady, vars, requestVars
  <2> QED
    BY <2>1, <2>2
<1> QED
  <2>1. Typed' /\ (\A q \in Request : RequestInv(q)) '
    BY <1>1, <1>2
  <2>2. (IInv <=> Typed /\ \A q \in Request : RequestInv(q))'
    BY DEF IInv, Typed, RequestInv, IdleIsEmpty, StartIsReached, TodoIsAsked,
           FoundIsSelected, Explained, FailureHasACause
  <2> QED
    BY <2>1, <2>2

(* The inductive invariant holds, whatever the number of edits, restarts   *)
(* and concurrent requests.                                                *)
THEOREM Invariant == Spec => []IInv
BY InitInv, NextInv, PTL DEF Spec

(* Every entry returned by GetFeature, GetFeaturesByName,                  *)
(* GetFeaturesByPattern and GetFeaturesByStrategy is explained by versions *)
(* of the time of the request.                                             *)
THEOREM EntriesAreExplained == Spec => []Explained
<1>1. IInv => Explained
  BY DEF IInv
<1> QED
  BY <1>1, Invariant, PTL

(* A call of these methods fails only because of a misconfigured feature   *)
(* that it asked for.                                                      *)
THEOREM FailuresHaveACause == Spec => []FailureHasACause
<1>1. IInv => FailureHasACause
  BY DEF IInv
<1> QED
  BY <1>1, Invariant, PTL

(* The fallback of isFeatureEnabled (toggles_client_wrapper.go:156-159) is *)
(* never taken: whenever a copied feature is converted, the client is      *)
(* ready, so the entry says what the repository, with a version of the     *)
(* time of the request, answers for this user.  It follows from            *)
(* FoundIsSelected, for the flag does not go down while a copy waits, and  *)
(* from ReadyMeansLoaded.                                                  *)
EveryConversionAsks ==
  \A r \in Request : \A f \in found[r] :
    ToUserFeature(r, f) =>
      /\ repo \in Window(r) /\ history[repo] \in Version
      /\ result'[r] =
           Append(result[r], toUserFeature(f, history[repo], call[r].user))

THEOREM FallbackIsNeverTaken == Spec => [][EveryConversionAsks]_vars
<1>1. ASSUME IInv, NEW r \in Request, NEW f \in found[r], ToUserFeature(r, f)
      PROVE  /\ repo \in Window(r) /\ history[repo] \in Version
             /\ result'[r] = Append(result[r],
                               toUserFeature(f, history[repo], call[r].user))
  <2>1. ready
    BY <1>1 DEF IInv, FoundIsSelected
  <2>2. Typed /\ start[r] <= repo
    BY <1>1, IInvByRequest DEF RequestInv
  <2>3. repo \in Window(r) /\ history[repo] \in Version
    BY <2>1, <2>2, NewestInWindow
  <2>4. Converted(r, f) = toUserFeature(f, history[repo], call[r].user)
    BY <2>1 DEF Converted
  <2>5. result'[r] = Append(result[r], Converted(r, f))
    BY <1>1, <2>2 DEF ToUserFeature, Typed, TypeOK
  <2> QED
    BY <2>3, <2>4, <2>5
<1>2. IInv /\ [Next]_vars => [EveryConversionAsks]_vars
  BY <1>1 DEF EveryConversionAsks
<1> QED
  BY <1>2, Invariant, PTL DEF Spec
=============================================================================
