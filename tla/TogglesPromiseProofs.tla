------------------------ MODULE TogglesPromiseProofs -------------------------
(***************************************************************************)
(* Proof that TogglesClient implements TogglesPromise: seen from a         *)
(* handler, a call is answered in one step, out of the contents the server *)
(* had while it was under way; GetFeaturesByPattern and                    *)
(* GetFeaturesByStrategy answer from one version.  For every number of     *)
(* names, requests, edits and restarts.                                    *)
(***************************************************************************)
EXTENDS TogglesClientProofs, FeatureAnswersProofs

-----------------------------------------------------------------------------
(* Questions and answers mean the same in both specifications.             *)
LEMMA SameLevels ==
  /\ \A text, default :
       Promise!toFeatureLevel(text, default) = toFeatureLevel(text, default)
  /\ \A level : Promise!fromFeatureLevel(level) = fromFeatureLevel(level)
  /\ \A level, text :
       Promise!LevelIsEnabled(level, text) = LevelIsEnabled(level, text)
BY DEF Promise!toFeatureLevel, toFeatureLevel, Promise!ToLower, ToLower,
       Promise!fromFeatureLevel, fromFeatureLevel,
       Promise!LevelIsEnabled, LevelIsEnabled,
       Promise!unknown, Promise!internal, Promise!experimental, Promise!beta,
       Promise!released, unknown, internal, experimental, beta, released,
       Promise!InternalLevel, Promise!ExperimentalLevel, Promise!BetaLevel,
       Promise!ReleasedLevel, Promise!UnknownLevel, InternalLevel,
       ExperimentalLevel, BetaLevel, ReleasedLevel, UnknownLevel

LEMMA SameStrategies ==
  \A s, user : /\ Promise!StrategyIsEnabled(s, user) = StrategyIsEnabled(s, user)
               /\ Promise!LevelStrategyPanics(s) = LevelStrategyPanics(s)
BY SameLevels
DEF Promise!StrategyIsEnabled, StrategyIsEnabled,
    Promise!LevelStrategyPanics, LevelStrategyPanics,
    Promise!EnableByLevelIsEnabled, EnableByLevelIsEnabled,
    Promise!EnableByEmailsIsEnabled, EnableByEmailsIsEnabled,
    Promise!UserLevel, UserLevel, Promise!TrimSpace, TrimSpace,
    Promise!EnableByLevel, EnableByLevel, Promise!EnableByEmails, EnableByEmails,
    Promise!DefaultStrategy, DefaultStrategy, Promise!NoText, NoText,
    Promise!ReleasedLevel, ReleasedLevel, Promise!unknown, unknown

LEMMA SameUnleash ==
  \A version, n, user :
    /\ Promise!IsEnabled(version, n, user) = IsEnabled(version, n, user)
    /\ Promise!Panics(version, n, user) = Panics(version, n, user)
BY SameStrategies
DEF Promise!IsEnabled, IsEnabled, Promise!Panics, Panics,
    Promise!UnleashIsEnabled, UnleashIsEnabled,
    Promise!UnleashPanics, UnleashPanics

LEMMA SameComputedLevel ==
  \A setting, internalUser :
    Promise!ComputeEnablementLevel(setting, internalUser) =
      ComputeEnablementLevel(setting, internalUser)
<1>1. \A strategies, internalUser :
        Promise!RetainedLevels(strategies, internalUser) =
          RetainedLevels(strategies, internalUser)
  BY SameLevels
  DEF Promise!RetainedLevels, RetainedLevels, Promise!Retained, Retained,
      Promise!EnableByLevel, EnableByLevel, Promise!NoText, NoText,
      Promise!unknown, unknown, Promise!internal, internal
<1>2. \A levels : Promise!HighestLevel(levels) = HighestLevel(levels)
  BY DEF Promise!HighestLevel, HighestLevel
<1> QED
  BY <1>1, <1>2, SameLevels
  DEF Promise!ComputeEnablementLevel, ComputeEnablementLevel,
      Promise!UnknownLevel, UnknownLevel

LEMMA SameEntries ==
  \A f, version, user :
    Promise!toUserFeature(f, version, user) = toUserFeature(f, version, user)
BY SameUnleash, SameComputedLevel
DEF Promise!toUserFeature, toUserFeature, Promise!UserFeature, UserFeature,
    Promise!InternalUser, InternalUser

LEMMA SameSelected ==
  \A version, c :
    /\ Promise!Selected(version, c) = Selected(version, c)
    /\ Promise!Configured(version) = Configured(version)
    /\ \A n : Promise!Feature(version, n) = Feature(version, n)
    /\ Promise!Selects(c) = Selects(c)
BY DEF Promise!Selected, Selected, Promise!Configured, Configured,
       Promise!Matches, Matches, Promise!HasStrategy, HasStrategy,
       Promise!Feature, Feature, Promise!Selects, Selects

LEMMA SameFound == \A answers : Promise!Found(answers) = Found(answers)
BY DEF Promise!Found, Found

LEMMA SameAnswers ==
  ASSUME NEW list, NEW versions, NEW c, NEW lo, NEW hi
  PROVE  Promise!IsAnswer(list, versions, c, lo, hi) <=>
           IsAnswer(list, versions, c, lo, hi)
<1>1. Promise!IsSelection(list, versions, c, lo, hi) <=>
        IsSelection(list, versions, c, lo, hi)
  BY SameEntries, SameSelected DEF Promise!IsSelection, IsSelection
<1>2. \A n : Promise!Accounts(versions, n, c.user, lo, hi) =
               Accounts(versions, n, c.user, lo, hi)
  BY SameEntries, SameSelected DEF Promise!Accounts, Accounts
<1>3. Promise!IsLookUp(list, versions, c, lo, hi) <=>
        IsLookUp(list, versions, c, lo, hi)
  BY <1>2, SameFound, SameSelected DEF Promise!IsLookUp, IsLookUp
<1> QED
  BY <1>1, <1>3, SameSelected DEF Promise!IsAnswer, IsAnswer

-----------------------------------------------------------------------------
(* How far a call has come.                                                *)
From(r) == IF start[r] = 0 THEN 1 ELSE start[r]

UnderWay(r) ==
  IsUnderWay(result[r], found[r], todo[r], history, call[r], From(r), repo)

(* Only a call made before the client was ready ends without any.          *)
EmptyHanded(r) ==
  start[r] = 0 /\ result[r] = << >> /\ todo[r] = << >> /\ found[r] = {}

IsPromised(r) ==
  \/ start[r] = 0 /\ result[r] = << >>
  \/ IsAnswer(result[r], history, call[r], From(r), repo)

CallInv(r) ==
  /\ start[r] > 0 => ready
  /\ pc[r] = "called" => todo[r] = << >> /\ found[r] = {} /\ result[r] = << >>
  /\ pc[r] = "running" /\ call[r].method = "GetFeaturesByName" => ready
  /\ pc[r] = "running" => EmptyHanded(r) \/ UnderWay(r)
  /\ pc[r] = "answered" => IsPromised(r)

PInv == \A r \in Request : CallInv(r)

-----------------------------------------------------------------------------
LEMMA CallIsTyped ==
  ASSUME Typed, NEW r \in Request
  PROVE  /\ call[r] \in Call /\ call[r].names \in Seq(Name)
         /\ call[r].method = "GetFeature" => Len(call[r].names) = 1
         /\ todo[r] \in Seq(Name) /\ result[r] \in Seq(Entry)
         /\ found[r] \subseteq [name : Name, setting : Settings]
         /\ start[r] \in Nat /\ repo \in Nat /\ From(r) \in Nat \ {0}
<1>1. call[r] \in Calls
  BY DEF Typed, TypeOK
<1>2. call[r] \in Call
  BY <1>1, ClientAssumption
<1>3. call[r].names \in Seq(Name)
  BY <1>2 DEF Call
<1>4. call[r].method = "GetFeature" => Len(call[r].names) = 1
  BY <1>1, ClientAssumption
<1>5. /\ todo[r] \in Seq(Name) /\ result[r] \in Seq(Entry)
      /\ found[r] \subseteq [name : Name, setting : Settings]
  BY DEF Typed, TypeOK
<1>6. start[r] \in Nat /\ repo \in Nat
  BY DEF Typed, TypeOK
<1>7. From(r) \in Nat \ {0}
  BY <1>6 DEF From
<1> QED
  BY <1>2, <1>3, <1>4, <1>5, <1>6, <1>7

LEMMA HistoryExtends ==
  ASSUME Typed, [Next]_vars
  PROVE  IsExtension(history', history)
<1>1. history' = history => IsExtension(history', history)
  BY SameIsExtension DEF Typed, TypeOK
<1>2. ASSUME NEW n \in Name, NEW setting \in Settings \union {Absent},
             Edit(n, setting)
      PROVE  IsExtension(history', history)
  <2>1. [history[Len(history)] EXCEPT ![n] = setting] \in Version
    BY DEF Typed, TypeOK, Version
  <2> QED
    BY <1>2, <2>1, LongerIsExtension DEF Edit, Typed, TypeOK
<1> QED
  BY <1>1, <1>2
  DEF Next, Refresh, OnReady, Restart, Invoke, Step, AnswerNotReady,
      GetFeaturesByName, Select, GetFeature, ToUserFeature, Panic, Return,
      Release, vars

(* A step that does not touch a request keeps how far it has come.         *)
LEMMA UntouchedCall ==
  ASSUME Typed, Typed', Grows, IsExtension(history', history),
         NEW r \in Request, CallInv(r), Same(r)
  PROVE  CallInv(r)'
<1>1. /\ From(r)' = From(r) /\ From(r) \in Nat \ {0}
      /\ repo \in Nat /\ repo' \in Nat /\ repo <= repo' /\ repo <= Len(history)
  BY DEF From, Same, Grows, Typed, TypeOK
<1>2. EmptyHanded(r) => EmptyHanded(r)'
  BY DEF EmptyHanded, Same
<1>3. UnderWay(r) => UnderWay(r)'
  BY <1>1, UnderWayStays DEF UnderWay, Same
<1>4. IsPromised(r) => IsPromised(r)'
  BY <1>1, AnswerStays DEF IsPromised, Same
<1>5. ready => ready'
  BY DEF Grows
<1> QED
  BY <1>2, <1>3, <1>4, <1>5 DEF CallInv, Same

LEMMA InvokeCall ==
  ASSUME Typed, Typed', NEW r \in Request, NEW c \in Calls, RequestInv(r),
         Invoke(r, c)
  PROVE  CallInv(r)'
<1>1. /\ found'[r] = {} /\ result'[r] = << >>
      /\ pc'[r] = IF c.method = "GetFeature" THEN "running" ELSE "called"
      /\ call'[r] = c
      /\ todo'[r] = IF c.method = "GetFeature" THEN c.names ELSE << >>
      /\ start'[r] = IF ready THEN repo ELSE 0
      /\ ready' = ready
  BY DEF Invoke, RequestInv, Typed, TypeOK, processVars
<1>2. c.names \in Seq(Name)
  BY ClientAssumption DEF Call
<1>3. c.method = "GetFeature" => UnderWay(r)'
  BY <1>1, <1>2, AnswerLooksUp DEF UnderWay, Selects
<1> QED
  BY <1>1, <1>3 DEF CallInv

LEMMA AnswerNotReadyCall ==
  ASSUME Typed, NEW r \in Request, CallInv(r), AnswerNotReady(r)
  PROVE  CallInv(r)'
<1>1. pc'[r] = "answered" /\ start'[r] = 0 /\ result'[r] = << >>
  BY DEF AnswerNotReady, CallInv, Typed, TypeOK
<1> QED
  BY <1>1 DEF CallInv, IsPromised

LEMMA GetFeaturesByNameCall ==
  ASSUME Typed, Typed', NEW r \in Request, CallInv(r), GetFeaturesByName(r)
  PROVE  CallInv(r)'
<1>1. /\ pc'[r] = "running" /\ result'[r] = << >> /\ ready'
      /\ call'[r] = call[r] /\ call[r].method = "GetFeaturesByName"
      /\ todo'[r] = call[r].names /\ found'[r] = {}
  BY DEF GetFeaturesByName, CallInv, Typed, TypeOK, processVars
<1>2. call[r].names \in Seq(Name) /\ ~Selects(call[r])
  BY <1>1, CallIsTyped DEF Selects
<1>3. IsUnderWay(<< >>, {}, call[r].names, history', call[r], From(r)', repo')
  BY <1>2, AnswerLooksUp
<1>4. UnderWay(r)'
  BY <1>1, <1>3 DEF UnderWay
<1> QED
  BY <1>1, <1>4 DEF CallInv

LEMMA SelectCall ==
  ASSUME Typed, NEW r \in Request, RequestInv(r), CallInv(r), Select(r)
  PROVE  CallInv(r)'
<1>1. /\ pc'[r] = "running" /\ ready /\ result[r] = << >> /\ todo[r] = << >>
      /\ UNCHANGED <<history, repo, ready, call, todo, result, start>>
      /\ Selects(call[r])
      /\ found'[r] = {Feature(history[repo], n) :
                        n \in Selected(history[repo], call[r])}
  BY DEF Select, Selects, CallInv, Typed, TypeOK, processVars
<1>2. repo \in From(r) .. repo
  BY <1>1, NewestInWindow DEF RequestInv, Window, From
<1>3. IsUnderWay(<< >>, found'[r], << >>, history, call[r], From(r), repo)
  BY <1>1, <1>2, AnswerSelects
<1>4. From(r)' = From(r)
  BY <1>1 DEF From
<1>5. UnderWay(r)'
  BY <1>1, <1>3, <1>4 DEF UnderWay
<1> QED
  BY <1>1, <1>5 DEF CallInv

LEMMA GetFeatureCall ==
  ASSUME Typed, NEW r \in Request, RequestInv(r), CallInv(r), GetFeature(r)
  PROVE  CallInv(r)'
<1> DEFINE n == Head(todo[r])
<1>1. /\ pc[r] = "running" /\ todo[r] # << >> /\ found[r] = {}
      /\ UNCHANGED <<history, repo, ready, pc, call, result, start>>
      /\ todo'[r] = Tail(todo[r])
      /\ found'[r] = IF ready /\ n \in Configured(history[repo])
                     THEN {Feature(history[repo], n)} ELSE {}
  BY DEF GetFeature, Typed, TypeOK, processVars
<1>2. From(r)' = From(r)
  BY <1>1 DEF From
<1>3. UnderWay(r)
  BY <1>1 DEF CallInv, EmptyHanded
<1>4. CASE ready
  <2>1. repo \in From(r) .. repo
    BY <1>4, NewestInWindow DEF RequestInv, Window, From
  <2>2. IsUnderWay(result[r], {}, todo[r], history, call[r], From(r), repo)
    BY <1>1, <1>3 DEF UnderWay
  <2>3. IsUnderWay(result[r], IF n \in Configured(history[repo])
                              THEN {Feature(history[repo], n)} ELSE {},
                   Tail(todo[r]), history, call[r], From(r), repo)
    BY <1>1, <2>1, <2>2, CallIsTyped, AnswerMovesOn
  <2>4. UnderWay(r)'
    BY <1>1, <1>2, <1>4, <2>3 DEF UnderWay
  <2> QED
    BY <1>1, <1>4, <2>4 DEF CallInv
<1>5. CASE ~ready
  <2>1. call[r].method \in {"GetFeature", "GetFeaturesByName"}
    <3>1. 1 \in DOMAIN todo[r]
      BY <1>1 DEF Typed, TypeOK
    <3> QED
      BY <3>1 DEF RequestInv
  <2>2. call[r].method = "GetFeature" /\ start[r] = 0 /\ ~Selects(call[r])
    BY <1>1, <1>5, <2>1, CallIsTyped DEF CallInv, Selects
  <2>3. IsUnderWay(result[r], {}, todo[r], history, call[r], From(r), repo)
    BY <1>1, <1>3 DEF UnderWay
  <2>4. result[r] = << >> /\ Tail(todo[r]) = << >>
    BY <1>1, <2>2, <2>3, CallIsTyped, OneNameOnly
  <2>5. EmptyHanded(r)'
    BY <1>1, <1>5, <2>2, <2>4 DEF EmptyHanded
  <2>6. pc'[r] = "running" /\ start'[r] = 0
        /\ call'[r].method = "GetFeature"
    BY <1>1, <2>2
  <2> QED
    BY <2>5, <2>6 DEF CallInv
<1> QED
  BY <1>4, <1>5

LEMMA ToUserFeatureCall ==
  ASSUME Typed, NEW r \in Request, NEW f \in found[r], RequestInv(r),
         CallInv(r), ToUserFeature(r, f)
  PROVE  CallInv(r)'
<1>1. /\ pc[r] = "running" /\ ready
      /\ UNCHANGED <<history, repo, ready, pc, call, todo, start>>
      /\ found'[r] = found[r] \ {f}
      /\ result'[r] = Append(result[r], Converted(r, f))
  BY DEF ToUserFeature, RequestInv, Typed, TypeOK, processVars
<1>2. /\ Converted(r, f) = toUserFeature(f, history[repo], call[r].user)
      /\ Converted(r, f) \in Entry
  BY <1>1, CallIsTyped, ConvertedIsEntry DEF Converted
<1>3. UnderWay(r)
  BY <1>1 DEF CallInv, EmptyHanded
<1>4. IsUnderWay(Append(result[r],
                        toUserFeature(f, history[repo], call[r].user)),
                 found[r] \ {f}, todo[r], history, call[r], From(r), repo)
  BY <1>2, <1>3, CallIsTyped, AnswerConverts DEF UnderWay
<1>5. From(r)' = From(r)
  BY <1>1 DEF From
<1>6. UnderWay(r)'
  BY <1>1, <1>2, <1>4, <1>5 DEF UnderWay
<1> QED
  BY <1>1, <1>6 DEF CallInv

LEMMA EndCall ==
  ASSUME Typed, NEW r \in Request, CallInv(r),
         \/ Return(r)
         \/ \E f \in found[r] : Panic(r, f)
         \/ Release(r)
  PROVE  CallInv(r)'
<1>1. CASE Return(r)
  <2>1. /\ pc[r] = "running" /\ pc'[r] = "answered"
        /\ found[r] = {} /\ todo[r] = << >>
        /\ UNCHANGED <<history, repo, ready, call, result, start>>
    BY <1>1 DEF Return, Typed, TypeOK, processVars
  <2>2. UnderWay(r) => IsAnswer(result[r], history, call[r], From(r), repo)
    BY <2>1, CallIsTyped, AnswerEnds DEF UnderWay
  <2>3. IsPromised(r)
    BY <2>1, <2>2 DEF CallInv, EmptyHanded, IsPromised
  <2>4. IsPromised(r)'
    BY <2>1, <2>3 DEF IsPromised, From
  <2> QED
    BY <2>1, <2>4 DEF CallInv
<1>2. ASSUME NEW f \in found[r], Panic(r, f) PROVE CallInv(r)'
  <2>1. pc'[r] = "failed" /\ UNCHANGED <<start, ready>>
    BY <1>2 DEF Panic, Typed, TypeOK, processVars
  <2> QED
    BY <2>1 DEF CallInv
<1>3. CASE Release(r)
  <2>1. pc'[r] = "idle" /\ start'[r] = 0
    BY <1>3 DEF Release, Typed, TypeOK
  <2> QED
    BY <2>1 DEF CallInv
<1> QED
  BY <1>1, <1>2, <1>3

-----------------------------------------------------------------------------
LEMMA InitCalls == Init => PInv
<1> SUFFICES ASSUME Init, NEW r \in Request PROVE CallInv(r)
  BY DEF PInv
<1>1. pc[r] = "idle" /\ start[r] = 0
  BY DEF Init
<1> QED
  BY <1>1 DEF CallInv

LEMMA NextCalls == IInv /\ IInv' /\ PInv /\ [Next]_vars => PInv'
<1> SUFFICES ASSUME IInv, IInv', PInv, [Next]_vars, NEW q \in Request
             PROVE  CallInv(q)'
  BY DEF PInv
<1>1. Typed /\ Typed' /\ RequestInv(q) /\ CallInv(q)
  BY IInvByRequest DEF PInv, IInv, Typed
<1>2. CASE Restart
  <2>1. pc'[q] = "idle" /\ start'[q] = 0
    BY <1>2 DEF Restart, ProcessStarts
  <2> QED
    BY <2>1 DEF CallInv
<1>3. CASE ~Restart
  <2>1. Grows /\ IsExtension(history', history)
    BY <1>1, <1>3, NextGrows, HistoryExtends
  <2>2. CASE Same(q)
    BY <1>1, <2>1, <2>2, UntouchedCall
  <2>3. CASE UNCHANGED requestVars
    BY <2>2, <2>3 DEF requestVars, Same
  <2>4. ASSUME NEW r \in Request,
               (\E c \in Calls : Invoke(r, c)) \/ Step(r) \/ Release(r)
        PROVE  CallInv(q)'
    <3>1. CASE q = r
      BY <1>1, <2>4, <3>1, InvokeCall, AnswerNotReadyCall,
         GetFeaturesByNameCall, SelectCall, GetFeatureCall, ToUserFeatureCall,
         EndCall DEF Step
    <3>2. CASE q # r
      BY <1>1, <2>2, <2>4, <3>2, OthersUntouched
    <3> QED
      BY <3>1, <3>2
  <2>5. ASSUME NEW n \in Name, NEW setting \in Settings \union {Absent},
               Edit(n, setting)
        PROVE  CallInv(q)'
    BY <2>3, <2>5 DEF Edit
  <2> QED
    BY <1>3, <2>3, <2>4, <2>5 DEF Next, Refresh, OnReady, vars, requestVars
<1> QED
  BY <1>2, <1>3

(* The answers of GetFeaturesByPattern and GetFeaturesByStrategy come from *)
(* one version of the server, whole and without repetition.                *)
THEOREM SelectionsAreWhole == Spec => []SelectionIsOneVersion
<1>1. IInv /\ IInv' /\ PInv /\ [Next]_vars => PInv'
  BY NextCalls
<1>2. Spec => []IInv
  BY Invariant
<1>3. PInv => SelectionIsOneVersion
  <2> SUFFICES ASSUME PInv, NEW r \in Request, pc[r] = "answered",
                      Selects(call[r]), ~(start[r] = 0 /\ result[r] = << >>)
               PROVE  \E s \in Window(r) :
                        /\ {result[r][i].name : i \in DOMAIN result[r]}
                             = Selected(history[s], call[r])
                        /\ \A i, j \in DOMAIN result[r] :
                             result[r][i].name = result[r][j].name => i = j
    BY DEF SelectionIsOneVersion, Selects
  <2>1. IsSelection(result[r], history, call[r], From(r), repo)
    BY DEF PInv, CallInv, IsPromised, IsAnswer
  <2>2. Window(r) = From(r) .. repo
    BY DEF Window, From
  <2> QED
    BY <2>1, <2>2 DEF IsSelection
<1> QED
  BY <1>1, <1>2, <1>3, InitCalls, PTL DEF Spec

-----------------------------------------------------------------------------
(* What handlers see, per request.                                         *)
Stage   == [r \in Request |-> PromisedStage(r)]
Replies == [r \in Request |-> PromisedAnswer(r)]

LEMMA SeenOfOne ==
  ASSUME NEW r \in Request, \A q \in Request : q # r => Same(q)
  PROVE  /\ Stage' = [Stage EXCEPT ![r] = PromisedStage(r)']
         /\ Replies' = [Replies EXCEPT ![r] = PromisedAnswer(r)']
<1>1. \A q \in Request : q # r => /\ PromisedStage(q)' = PromisedStage(q)
                                  /\ PromisedAnswer(q)' = PromisedAnswer(q)
  BY DEF Same, PromisedStage, PromisedAnswer
<1> QED
  BY <1>1 DEF Stage, Replies

LEMMA SeenUnchanged ==
  ASSUME UNCHANGED <<pc, result>>
  PROVE  UNCHANGED <<Stage, Replies>>
BY DEF Stage, Replies, PromisedStage, PromisedAnswer

-----------------------------------------------------------------------------
(* Every step is one that the promise allows, or one nobody sees.          *)
LEMMA InitPromised == Init => Promise!Init
<1> SUFFICES ASSUME Init PROVE Promise!Init
  OBVIOUS
<1>1. history \in {<<version>> : version \in Promise!Version}
  BY DEF Init, Promise!Version, Version
<1>2. call \in [Request -> Calls]
  BY FreshTypes DEF Init
<1>3. /\ [r \in Request |-> PromisedStage(r)] = [r \in Request |-> "idle"]
      /\ [r \in Request |-> PromisedAnswer(r)] = [r \in Request |-> << >>]
  BY DEF Init, PromisedStage, PromisedAnswer
<1> QED
  BY <1>1, <1>2, <1>3 DEF Init, Promise!Init

LEMMA ServerStepPromised ==
  ASSUME IInv, IInv',
         \/ \E n \in Name, setting \in Settings \union {Absent} : Edit(n, setting)
         \/ Refresh
         \/ OnReady
         \/ Restart
  PROVE  Promise!Next
<1>1. ASSUME NEW n \in Name, NEW setting \in Settings \union {Absent},
             Edit(n, setting)
      PROVE  Promise!Next
  <2>1. UNCHANGED <<Stage, Replies>>
    BY <1>1, SeenUnchanged DEF Edit, requestVars
  <2>2. Promise!Publish(n, setting)
    BY <1>1, <2>1
    DEF Edit, processVars, requestVars, Promise!Publish, Promise!clientVars,
        Stage, Replies
  <2> QED
    BY <2>2 DEF Promise!Next
<1>2. CASE Refresh
  <2>1. UNCHANGED <<Stage, Replies>>
    BY <1>2, SeenUnchanged DEF Refresh, requestVars
  <2>2. repo' \in repo + 1 .. Len(history)
    BY <1>2 DEF Refresh, IInv, TypeOK
  <2>3. Promise!Advance
    BY <1>2, <2>1, <2>2
    DEF Refresh, requestVars, Promise!Advance, Stage, Replies
  <2> QED
    BY <2>3 DEF Promise!Next
<1>3. CASE OnReady
  <2>1. UNCHANGED <<Stage, Replies>>
    BY <1>3, SeenUnchanged DEF OnReady, requestVars
  <2>2. Promise!BecomeReady
    BY <1>3, <2>1 DEF OnReady, requestVars, Promise!BecomeReady, Stage, Replies
  <2> QED
    BY <2>2 DEF Promise!Next
<1>4. CASE Restart
  <2>1. /\ Stage' = [r \in Request |-> "idle"]
        /\ Replies' = [r \in Request |-> << >>]
    BY <1>4 DEF Restart, ProcessStarts, Stage, Replies, PromisedStage,
                PromisedAnswer
  <2>2. call' \in [Request -> Calls]
    BY DEF IInv, TypeOK
  <2>3. Promise!StartAgain
    BY <1>4, <2>1, <2>2
    DEF Restart, ProcessStarts, Promise!StartAgain, Stage, Replies
  <2> QED
    BY <2>3 DEF Promise!Next
<1> QED
  BY <1>1, <1>2, <1>3, <1>4

(* Between the question and the answer handlers see nothing.               *)
LEMMA OwnStepUnseen ==
  ASSUME IInv, NEW r \in Request,
         \/ GetFeaturesByName(r)
         \/ Select(r)
         \/ GetFeature(r)
         \/ \E f \in found[r] : ToUserFeature(r, f)
  PROVE  UNCHANGED Promise!vars
<1>1. /\ UNCHANGED <<history, repo, ready, call, start>>
      /\ PromisedStage(r)' = PromisedStage(r)
      /\ PromisedAnswer(r)' = PromisedAnswer(r)
  BY DEF IInv, TypeOK, GetFeaturesByName, Select, GetFeature, ToUserFeature,
         processVars, PromisedStage, PromisedAnswer
<1>2. \A q \in Request : q # r => Same(q)
  BY OthersUntouched DEF Step, IInv, Typed
<1>3. UNCHANGED <<Stage, Replies>>
  BY <1>1, <1>2, SeenOfOne DEF Stage, Replies
<1> QED
  BY <1>1, <1>3 DEF Promise!vars, Stage, Replies

LEMMA OwnStepPromised ==
  ASSUME IInv, PInv, NEW r \in Request,
         \/ \E c \in Calls : Invoke(r, c)
         \/ AnswerNotReady(r)
         \/ \E f \in found[r] : Panic(r, f)
         \/ Return(r)
         \/ Release(r)
  PROVE  Promise!Next
<1>0. \A q \in Request : q # r => Same(q)
  BY OthersUntouched DEF Step, IInv, Typed
<1>1. ASSUME NEW c \in Calls, Invoke(r, c) PROVE Promise!Next
  <2>1. /\ pc[r] = "idle" /\ pc'[r] \in {"running", "called"}
        /\ UNCHANGED <<history, repo, ready>>
        /\ call' = [call EXCEPT ![r] = c]
        /\ start' = [start EXCEPT ![r] = IF ready THEN repo ELSE 0]
    BY <1>1 DEF Invoke, processVars, IInv, TypeOK
  <2>2. Stage[r] = "idle" /\ PromisedStage(r)' = "asked"
        /\ PromisedAnswer(r)' = << >> /\ Replies[r] = << >>
    BY <2>1 DEF Stage, Replies, PromisedStage, PromisedAnswer
  <2>3. Stage' = [Stage EXCEPT ![r] = "asked"] /\ Replies' = Replies
    BY <1>0, <2>2, SeenOfOne DEF Replies
  <2>4. Promise!Ask(r, c)
    BY <2>1, <2>2, <2>3 DEF Promise!Ask, Promise!clientVars, Stage, Replies
  <2> QED
    BY <2>4 DEF Promise!Next
<1>2. ASSUME AnswerNotReady(r) \/ Return(r) PROVE Promise!Next
  <2>1. /\ pc[r] \in {"running", "called"} /\ pc'[r] = "answered"
        /\ UNCHANGED <<history, repo, ready, call, start, result>>
    BY <1>2 DEF AnswerNotReady, Return, processVars, IInv, TypeOK
  <2>2. /\ Stage[r] = "asked" /\ PromisedStage(r)' = "answered"
        /\ PromisedAnswer(r)' = result[r]
    BY <2>1 DEF Stage, PromisedStage, PromisedAnswer
  <2>3. /\ Stage' = [Stage EXCEPT ![r] = "answered"]
        /\ Replies' = [Replies EXCEPT ![r] = result[r]]
        /\ Replies'[r] = result[r]
    BY <1>0, <2>2, SeenOfOne DEF Replies
  <2>4. IsPromised(r)
    <3>1. CallInv(r)'
      <4>1. Typed /\ CallInv(r)
        BY DEF IInv, Typed, PInv
      <4> QED
        BY <1>2, <4>1, AnswerNotReadyCall, EndCall
    <3>2. IsPromised(r)'
      BY <2>1, <3>1 DEF CallInv
    <3> QED
      BY <2>1, <3>2 DEF IsPromised, From
  <2>5. Promise!Promised(r, result[r])
    BY <2>4, SameAnswers DEF IsPromised, From, Promise!Promised, Promise!Since
  <2>6. Promise!Answer(r)
    BY <2>1, <2>2, <2>3, <2>5
    DEF Promise!Answer, Promise!clientVars, Stage, Replies
  <2> QED
    BY <2>6 DEF Promise!Next
<1>3. ASSUME NEW f \in found[r], Panic(r, f) PROVE Promise!Next
  <2>1. /\ pc[r] = "running" /\ pc'[r] = "failed" /\ ready
        /\ Panics(history[repo], f.name, call[r].user)
        /\ UNCHANGED <<history, repo, ready, call, start>>
    BY <1>3 DEF Panic, processVars, IInv, TypeOK
  <2>2. PICK s \in Window(r) : f.name \in Selected(history[s], call[r])
    BY DEF IInv, FoundIsSelected
  <2>3. s \in Window(r) /\ repo \in s .. repo
    BY <2>1, <2>2 DEF Window, IInv, TypeOK
  <2>4. /\ Stage[r] = "asked" /\ PromisedStage(r)' = "failed"
        /\ PromisedAnswer(r)' = << >> /\ Replies[r] = << >>
    BY <2>1 DEF Stage, Replies, PromisedStage, PromisedAnswer
  <2>5. Stage' = [Stage EXCEPT ![r] = "failed"] /\ Replies' = Replies
    BY <1>0, <2>4, SeenOfOne DEF Replies
  <2>6. \E t \in Promise!Since(r) .. repo : \E e \in t .. repo :
          \E n \in Promise!Selected(history[t], call[r]) :
            Promise!Panics(history[e], n, call[r].user)
    BY <2>1, <2>2, <2>3, SameSelected, SameUnleash DEF Promise!Since, Window
  <2>7. Promise!Fail(r)
    BY <2>1, <2>4, <2>5, <2>6
    DEF Promise!Fail, Promise!clientVars, Stage, Replies
  <2> QED
    BY <2>7 DEF Promise!Next
<1>4. CASE Release(r)
  <2>1. /\ pc[r] \in {"answered", "failed"} /\ pc'[r] = "idle"
        /\ start' = [start EXCEPT ![r] = 0]
        /\ UNCHANGED <<history, repo, ready, call>>
    BY <1>4 DEF Release, processVars, IInv, TypeOK
  <2>2. /\ Stage[r] \in {"answered", "failed"}
        /\ PromisedStage(r)' = "idle" /\ PromisedAnswer(r)' = << >>
    BY <2>1 DEF Stage, PromisedStage, PromisedAnswer
  <2>3. /\ Stage' = [Stage EXCEPT ![r] = "idle"]
        /\ Replies' = [Replies EXCEPT ![r] = << >>]
    BY <1>0, <2>2, SeenOfOne
  <2>4. Promise!Release(r)
    BY <2>1, <2>2, <2>3
    DEF Promise!Release, Promise!clientVars, Stage, Replies
  <2> QED
    BY <2>4 DEF Promise!Next
<1> QED
  BY <1>1, <1>2, <1>3, <1>4

LEMMA StepPromised ==
  IInv /\ IInv' /\ PInv /\ [Next]_vars => [Promise!Next]_Promise!vars
<1> SUFFICES ASSUME IInv, IInv', PInv, [Next]_vars
             PROVE  Promise!Next \/ UNCHANGED Promise!vars
  OBVIOUS
<1>1. CASE UNCHANGED vars
  <2>1. UNCHANGED <<Stage, Replies>>
    BY <1>1, SeenUnchanged DEF vars
  <2> QED
    BY <1>1, <2>1 DEF vars, Promise!vars, Stage, Replies
<1>2. ASSUME NEW r \in Request, Step(r)
      PROVE  Promise!Next \/ UNCHANGED Promise!vars
  BY <1>2, OwnStepPromised, OwnStepUnseen DEF Step
<1> QED
  BY <1>1, <1>2, ServerStepPromised, OwnStepPromised DEF Next

(* ClientImpl and its listener implement featuretoggles.Client as module   *)
(* TogglesPromise states it: every call that GetFeature or a list method   *)
(* answers is answered once, out of the contents the server had while the  *)
(* call was under way, whatever refreshes, edits, other calls and restarts *)
(* come between its reads.                                                 *)
THEOREM PromiseIsKept == Spec => PromiseKept
<1>1. Spec => []IInv
  BY Invariant
<1>2. IInv /\ IInv' /\ PInv /\ [Next]_vars => PInv'
  BY NextCalls
<1>3. IInv /\ IInv' /\ PInv /\ [Next]_vars => [Promise!Next]_Promise!vars
  BY StepPromised
<1> QED
  BY <1>1, <1>2, <1>3, InitCalls, InitPromised, PTL
  DEF Spec, PromiseKept, Promise!Spec
=============================================================================
