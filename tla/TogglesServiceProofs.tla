------------------------- MODULE TogglesServiceProofs -------------------------
(***************************************************************************)
(* Proof that the toggles client, working step by step while its replica's *)
(* copy is refreshed and callers sign in, give up or lose their replica,   *)
(* gives the controller what FeaturesController takes it to promise.  What *)
(* is proved of the controller's responses then holds of the service.      *)
(***************************************************************************)
EXTENDS TogglesService, FeaturesControllerProofs

-----------------------------------------------------------------------------
(* Features and entries are the same to the controller and to its client.  *)
LEMMA SameLevels ==
  ASSUME NEW d
  PROVE  /\ \A text, default :
              Client(d)!toFeatureLevel(text, default)
                = toFeatureLevel(text, default)
         /\ \A level : Client(d)!fromFeatureLevel(level) = fromFeatureLevel(level)
         /\ \A level, text :
              Client(d)!LevelIsEnabled(level, text) = LevelIsEnabled(level, text)
BY DEF Client!toFeatureLevel, toFeatureLevel, Client!ToLower, ToLower,
       Client!fromFeatureLevel, fromFeatureLevel,
       Client!LevelIsEnabled, LevelIsEnabled,
       Client!unknown, Client!internal, Client!experimental, Client!beta,
       Client!released, unknown, internal, experimental, beta, released,
       Client!InternalLevel, Client!ExperimentalLevel, Client!BetaLevel,
       Client!ReleasedLevel, Client!UnknownLevel, InternalLevel,
       ExperimentalLevel, BetaLevel, ReleasedLevel, UnknownLevel

LEMMA SameStrategies ==
  ASSUME NEW d
  PROVE  \A s, asker :
           /\ Client(d)!StrategyIsEnabled(s, asker)
                = StrategyIsEnabled(s, asker)
           /\ Client(d)!LevelStrategyPanics(s) = LevelStrategyPanics(s)
<1>1. /\ \A text, default :
           Client(d)!toFeatureLevel(text, default)
             = toFeatureLevel(text, default)
      /\ \A level, text :
           Client(d)!LevelIsEnabled(level, text) = LevelIsEnabled(level, text)
  BY SameLevels
<1> QED
  BY <1>1
  DEF Client!StrategyIsEnabled, StrategyIsEnabled,
      Client!LevelStrategyPanics, LevelStrategyPanics,
      Client!EnableByLevelIsEnabled, EnableByLevelIsEnabled,
      Client!EnableByEmailsIsEnabled, EnableByEmailsIsEnabled,
      Client!UserLevel, UserLevel, Client!TrimSpace, TrimSpace,
      Client!EnableByLevel, EnableByLevel,
      Client!EnableByEmails, EnableByEmails,
      Client!DefaultStrategy, DefaultStrategy, Client!NoText, NoText,
      Client!ReleasedLevel, ReleasedLevel, Client!unknown, unknown

LEMMA SameUnleash ==
  ASSUME NEW d
  PROVE  \A version, n, asker :
           /\ Client(d)!IsEnabled(version, n, asker)
                = IsEnabled(version, n, asker)
           /\ Client(d)!Panics(version, n, asker) = Panics(version, n, asker)
BY SameStrategies
DEF Client!IsEnabled, IsEnabled, Client!Panics, Panics,
    Client!UnleashIsEnabled, UnleashIsEnabled,
    Client!UnleashPanics, UnleashPanics

LEMMA SameComputedLevel ==
  ASSUME NEW d
  PROVE  \A setting, internalUser :
           Client(d)!ComputeEnablementLevel(setting, internalUser) =
             ComputeEnablementLevel(setting, internalUser)
<1>1. \A strategies, internalUser :
        Client(d)!RetainedLevels(strategies, internalUser) =
          RetainedLevels(strategies, internalUser)
  <2>1. \A text, default :
          Client(d)!toFeatureLevel(text, default)
            = toFeatureLevel(text, default)
    BY SameLevels
  <2> QED
    BY <2>1
    DEF Client!RetainedLevels, RetainedLevels, Client!Retained, Retained,
        Client!EnableByLevel, EnableByLevel, Client!NoText, NoText,
        Client!unknown, unknown, Client!internal, internal
<1>2. \A levels : Client(d)!HighestLevel(levels) = HighestLevel(levels)
  BY DEF Client!HighestLevel, HighestLevel
<1> QED
  BY <1>1, <1>2, SameLevels
  DEF Client!ComputeEnablementLevel, ComputeEnablementLevel,
      Client!UnknownLevel, UnknownLevel

LEMMA SameEntries ==
  ASSUME NEW d
  PROVE  \A f, version, asker :
           Client(d)!toUserFeature(f, version, asker)
             = toUserFeature(f, version, asker)
BY SameUnleash, SameComputedLevel
DEF Client!toUserFeature, toUserFeature, Client!UserFeature, UserFeature,
    Client!InternalUser, InternalUser

LEMMA SameSelected ==
  ASSUME NEW d
  PROVE  \A version, c :
           /\ Client(d)!Selected(version, c) = Selected(version, c)
           /\ Client(d)!Configured(version) = Configured(version)
           /\ \A n : Client(d)!Feature(version, n) = Feature(version, n)
BY DEF Client!Selected, Selected, Client!Configured, Configured,
       Client!Matches, Matches, Client!HasStrategy, HasStrategy,
       Client!Feature, Feature

-----------------------------------------------------------------------------
(* Every answer to a call is one of those that Lists enumerates: it is no  *)
(* longer than the names asked for, or than there are features.            *)
LEMMA FoundIsShorter ==
  ASSUME NEW S, NEW answers \in Seq(S \union {Absent})
  PROVE  Found(answers) \in Seq(S) /\ Len(Found(answers)) <= Len(answers)
<1>1. PICK n \in Nat : Len(answers) = n
  OBVIOUS
<1>2. PICK f : IsFinding(f, answers, n) /\ Found(answers) = f[n]
  BY <1>1, FoundOfAnswers
<1> DEFINE T == {k \in 0 .. n : ~(f[k] \in Seq(S) /\ Len(f[k]) <= k)}
<1> SUFFICES ASSUME T # {} PROVE FALSE
  <2>1. n \in 0 .. n
    OBVIOUS
  <2> QED
    BY <1>1, <1>2, <2>1
<1>3. PICK k \in T : \A j \in T : k <= j
  <2>1. T \subseteq Nat
    OBVIOUS
  <2> HIDE DEF T
  <2> QED
    BY <2>1, LeastNatural
<1>4. k \in 0 .. n /\ ~(f[k] \in Seq(S) /\ Len(f[k]) <= k)
  OBVIOUS
<1>5. k # 0
  <2>1. << >> \in Seq(S) /\ Len(<< >>) <= 0
    OBVIOUS
  <2> QED
    BY <1>2, <1>4, <2>1, FindingSteps
<1>6. k - 1 \in 0 .. n /\ k - 1 \notin T /\ k \in 1 .. n
  BY <1>3, <1>4, <1>5
<1>7. f[k - 1] \in Seq(S) /\ Len(f[k - 1]) <= k - 1
  BY <1>6
<1>8. f[k] = NextFound(f[k - 1], answers[k])
  BY <1>2, <1>6, FindingSteps
<1>9. answers[k] \in S \union {Absent}
  BY <1>1, <1>6
<1>10. PICK front \in Seq(S) : front = f[k - 1]
  BY <1>7
<1>11. PICK m \in Nat : m = Len(front)
  OBVIOUS
<1>12. m <= k /\ m + 1 <= k
  BY <1>6, <1>7, <1>10, <1>11
<1>13. CASE answers[k] = Absent
  BY <1>4, <1>8, <1>10, <1>11, <1>12, <1>13 DEF NextFound
<1>14. CASE answers[k] # Absent
  <2>1. PICK answer \in S : answer = answers[k]
    BY <1>9, <1>14
  <2>2. Append(front, answer) \in Seq(S) /\ Len(Append(front, answer)) = m + 1
    BY <1>11
  <2> QED
    BY <1>4, <1>8, <1>10, <1>12, <1>14, <2>1, <2>2 DEF NextFound
<1> QED
  BY <1>13, <1>14

LEMMA NoWayIntoSmaller ==
  ASSUME NEW T, IsFiniteSet(T), NEW m \in Nat, Cardinality(T) < m,
         NEW f \in [1 .. m -> T]
  PROVE  \E i, j \in 1 .. m : i # j /\ f[i] = f[j]
<1>1. IsFiniteSet(1 .. m) /\ Cardinality(1 .. m) = m
  <2>1. m \in Int /\ 1 \in Int
    OBVIOUS
  <2>2. /\ IsFiniteSet(1 .. m)
        /\ Cardinality(1 .. m) = IF 1 > m THEN 0 ELSE m - 1 + 1
    BY <2>1, FS_Interval, Zenon
  <2> QED
    BY <2>2
<1>2. Cardinality(T) < Cardinality(1 .. m)
  BY <1>1
<1> QED
  BY <1>1, <1>2, FS_PigeonHole, Zenon

LEMMA SelectionIsSmall ==
  ASSUME NEW list \in Seq(Entry),
         \A i, j \in DOMAIN list : list[i].name = list[j].name => i = j
  PROVE  Cardinality(Name) \in Nat /\ Len(list) <= Cardinality(Name)
<1>1. Cardinality(Name) \in Nat
  BY NamesAssumption, FS_CardinalityType
<1> SUFFICES ASSUME ~(Len(list) <= Cardinality(Name)) PROVE FALSE
  BY <1>1
<1>2. PICK m \in Nat : m = Len(list) /\ DOMAIN list = 1 .. m
  OBVIOUS
<1>3. Cardinality(Name) < m
  BY <1>1, <1>2
<1> DEFINE f == [i \in 1 .. m |-> list[i].name]
<1>4. f \in [1 .. m -> Name]
  <2>1. ASSUME NEW i \in 1 .. m PROVE list[i].name \in Name
    <3>1. list[i] \in Entry
      BY <1>2
    <3> QED
      BY <3>1 DEF Entry
  <2> QED
    BY <2>1
<1>5. \A i \in 1 .. m : f[i] = list[i].name
  OBVIOUS
<1> HIDE DEF f
<1>6. \E i, j \in 1 .. m : i # j /\ f[i] = f[j]
  BY <1>3, <1>4, NamesAssumption, NoWayIntoSmaller
<1> QED
  BY <1>2, <1>5, <1>6

LEMMA AnswerIsListed ==
  ASSUME NEW list \in Seq(Entry), NEW asked, asked.names \in Seq(Name),
         NEW lo, NEW hi, IsAnswer(list, history, asked, lo, hi)
  PROVE  list \in Lists(asked, lo, hi)
<1> DEFINE entries == UNION {Accounts(history, n, asked.user, lo, hi) : n \in Name}
           size == IF Selects(asked) THEN Cardinality(Name)
                                     ELSE Len(asked.names)
<1>1. size \in Nat /\ Len(list) <= size /\ \A i \in DOMAIN list : list[i] \in entries
  <2>1. CASE Selects(asked)
    <3>1. PICK s \in lo .. hi :
            /\ {list[i].name : i \in DOMAIN list} = Selected(history[s], asked)
            /\ \A i, j \in DOMAIN list : list[i].name = list[j].name => i = j
            /\ \A i \in DOMAIN list : \E e \in s .. hi :
                 list[i] = toUserFeature(Feature(history[s], list[i].name),
                                         history[e], asked.user)
      BY <2>1 DEF IsAnswer, IsSelection
    <3>2. ASSUME NEW i \in DOMAIN list PROVE list[i] \in entries
      <4>1. list[i].name \in Configured(history[s]) /\ list[i].name \in Name
        BY <3>1 DEF Selected, Configured
      <4>2. list[i] \in Accounts(history, list[i].name, asked.user, lo, hi)
        BY <3>1, <4>1 DEF Accounts
      <4> QED
        BY <4>1, <4>2
    <3> QED
      BY <2>1, <3>1, <3>2, SelectionIsSmall
  <2>2. CASE ~Selects(asked)
    <3>1. PICK answers \in [DOMAIN asked.names ->
                              {list[i] : i \in DOMAIN list} \union {Absent}] :
            /\ list = Found(answers)
            /\ \A i \in DOMAIN asked.names :
                 answers[i] # Absent =>
                   answers[i] \in
                     Accounts(history, asked.names[i], asked.user, lo, hi)
      BY <2>2 DEF IsAnswer, IsLookUp
    <3>2. ASSUME NEW i \in DOMAIN asked.names
          PROVE  answers[i] \in entries \union {Absent}
      BY <3>1
    <3> HIDE DEF entries
    <3>3. answers \in Seq(entries \union {Absent})
          /\ Len(answers) = Len(asked.names)
      BY <3>1, <3>2
    <3>4. list \in Seq(entries) /\ Len(list) <= Len(asked.names)
      BY <3>1, <3>3, FoundIsShorter
    <3> QED
      BY <2>2, <3>4
  <2> QED
    BY <2>1, <2>2
<1> HIDE DEF entries
<1>2. PICK k \in 0 .. size : list \in [1 .. k -> entries]
  <2>1. PICK k \in Nat : k = Len(list) /\ DOMAIN list = 1 .. k
    OBVIOUS
  <2>2. k \in 0 .. size
    BY <1>1, <2>1
  <2>3. list \in [1 .. k -> entries]
    BY <1>1, <2>1
  <2> QED
    BY <2>2, <2>3
<1> QED
  BY <1>2 DEF Lists, entries

-----------------------------------------------------------------------------
(* How far the call of a request has come.                                 *)
At(c)    == request[c].replica
Asked(c) == Dispatch(request[c].query, user[c])

UnderWay(c) ==
  IsUnderWay(result[c], found[c], todo[c], history, call[c], Since(c),
             repo[At(c)])

(* Only a call made before the client was ready ends without any.          *)
EmptyHanded(c) ==
  start[c] = 0 /\ result[c] = << >> /\ todo[c] = << >> /\ found[c] = {}

IsPromised(c) ==
  \/ start[c] = 0 /\ result[c] = << >>
  \/ IsAnswer(result[c], history, call[c], Since(c), repo[At(c)])

MayFail(c) ==
  \E s, e \in Since(c) .. repo[At(c)] :
    \E n \in Selected(history[s], Asked(c)) :
      s <= e /\ Panics(history[e], n, user[c])

(* A client works for a request while the controller waits for its answer, *)
(* on the question that the controller has, and holds nothing otherwise.   *)
LocalInv(c) ==
  /\ pc[c] = "idle" <=> stage[c] # "asked"
  /\ pc[c] \in {"idle", "called"} =>
       todo[c] = << >> /\ found[c] = {} /\ result[c] = << >>
  /\ stage[c] = "asked" =>
       /\ HasCall(request[c].query)
       /\ call[c] = Asked(c)
       /\ start[c] > 0 => ready[At(c)]
  /\ found[c] # {} => ready[At(c)]
  /\ pc[c] = "running" /\ call[c].method = "GetFeaturesByName" => ready[At(c)]
  /\ pc[c] = "running" => EmptyHanded(c) \/ UnderWay(c)
  /\ pc[c] = "answered" => IsPromised(c)
  /\ pc[c] = "failed" => MayFail(c)

LocalsTyped ==
  /\ pc \in [Caller -> {"idle", "called", "running", "answered", "failed"}]
  /\ call \in [Caller -> ClientCalls \union {NoCall}]
  /\ todo \in [Caller -> Seq(Name)]
  /\ found \in [Caller -> SUBSET [name : Name, setting : Settings]]
  /\ result \in [Caller -> Seq(Entry)]

ReadyIsLoaded == \A p \in Replica : ready[p] => repo[p] > 0

SInv ==
  /\ IInv
  /\ ReadyIsLoaded
  /\ LocalsTyped
  /\ \A c \in Caller : LocalInv(c)

-----------------------------------------------------------------------------
LEMMA DispatchIsCall ==
  ASSUME NEW q \in Query, HasCall(q), NEW u \in Profile \union {Anonymous}
  PROVE  /\ Dispatch(q, u) \in ClientCalls
         /\ Dispatch(q, u).names \in Seq(Name)
         /\ Dispatch(q, u).method \in Method
         /\ Dispatch(q, u).method = "GetFeature" =>
              Len(Dispatch(q, u).names) = 1
         /\ Dispatch(q, u).user = u
<1>1. /\ q.feature # Missing => q.feature \in Name
      /\ q.group # Missing => q.group \in Name
      /\ q.names # Missing => q.names \in Seq(Name)
  BY QueryIsTyped
<1>2. Dispatch(q, u) \in ClientCalls
  BY DEF ClientCalls
<1>3. /\ Dispatch(q, u).names \in Seq(Name)
      /\ Dispatch(q, u).method = "GetFeature" => Len(Dispatch(q, u).names) = 1
      /\ Dispatch(q, u).method \in Method /\ Dispatch(q, u).user = u
  <2>1. CASE q.feature # Missing
    <3>1. <<q.feature>> \in Seq(Name) /\ Len(<<q.feature>>) = 1
      BY <1>1, <2>1
    <3>2. Dispatch(q, u)
            = Ask("GetFeature", <<q.feature>>, DefaultStrategy, u)
      BY <2>1 DEF Dispatch
    <3> QED
      BY <3>1, <3>2 DEF Ask, Method
  <2>2. CASE q.feature = Missing /\ q.group # Missing
    <3>1. <<q.group>> \in Seq(Name)
      BY <1>1, <2>2
    <3>2. Dispatch(q, u)
            = Ask("GetFeaturesByPattern", <<q.group>>, DefaultStrategy, u)
      BY <2>2 DEF Dispatch
    <3> QED
      BY <3>1, <3>2 DEF Ask, Method
  <2>3. CASE q.feature = Missing /\ q.group = Missing /\ q.names # Missing
    <3>1. Dispatch(q, u)
            = Ask("GetFeaturesByName", q.names, DefaultStrategy, u)
      BY <2>3 DEF Dispatch
    <3> QED
      BY <1>1, <2>3, <3>1 DEF Ask, Method
  <2>4. CASE q.feature = Missing /\ q.group = Missing /\ q.names = Missing
    <3>1. << >> \in Seq(Name)
      OBVIOUS
    <3>2. Dispatch(q, u) = Ask("GetFeaturesByStrategy", << >>, q.strategy, u)
      BY <2>4 DEF Dispatch
    <3> QED
      BY <3>1, <3>2 DEF Ask, Method
  <2> QED
    BY <2>1, <2>2, <2>3, <2>4
<1> QED
  BY <1>2, <1>3

(* The values that a step of a request works with.                         *)
LEMMA RequestIsTyped ==
  ASSUME IInv, NEW c \in Caller
  PROVE  /\ request[c].query \in Query /\ At(c) \in Replica
         /\ user[c] \in Profile \union {Anonymous}
         /\ history \in Seq(Version) /\ Len(history) \in Nat
         /\ start[c] \in Nat /\ Since(c) \in Nat \ {0}
         /\ repo[At(c)] \in Nat /\ repo[At(c)] <= Len(history)
         /\ stage[c] = "asked" => start[c] <= repo[At(c)]
<1>1. TypeOK /\ ProgressInv(c)
  BY DEF IInv, RequestInv
<1>2. request[c] \in RequestData
  BY <1>1 DEF TypeOK
<1>3. request[c].query \in Query /\ At(c) \in Replica
  BY <1>2 DEF RequestData, At
<1>4. start[c] \in Nat /\ Since(c) \in Nat \ {0}
  BY <1>1 DEF TypeOK, Since
<1>5. /\ user[c] \in Profile \union {Anonymous}
      /\ history \in Seq(Version) /\ Len(history) \in Nat
      /\ repo[At(c)] \in Nat /\ repo[At(c)] <= Len(history)
  BY <1>1, <1>3 DEF TypeOK
<1>6. stage[c] = "asked" => start[c] <= repo[At(c)]
  BY <1>1 DEF ProgressInv, At
<1> QED
  BY <1>3, <1>4, <1>5, <1>6

LEMMA LocalIsTyped ==
  ASSUME LocalsTyped, NEW c \in Caller
  PROVE  /\ todo[c] \in Seq(Name) /\ result[c] \in Seq(Entry)
         /\ found[c] \subseteq [name : Name, setting : Settings]
BY DEF LocalsTyped

(* A call under way is the one that the controller makes.                  *)
LEMMA CallUnderWay ==
  ASSUME IInv, LocalsTyped, NEW c \in Caller, LocalInv(c), pc[c] # "idle"
  PROVE  /\ stage[c] = "asked" /\ HasCall(request[c].query)
         /\ call[c] = Asked(c)
         /\ call[c].names \in Seq(Name) /\ call[c].method \in Method
         /\ call[c].method = "GetFeature" => Len(call[c].names) = 1
         /\ call[c].user = user[c]
<1>1. stage[c] = "asked" /\ HasCall(request[c].query) /\ call[c] = Asked(c)
  BY DEF LocalInv
<1> QED
  BY <1>1, RequestIsTyped, DispatchIsCall DEF Asked

(* The version a ready client reads now is one of the time of the request. *)
LEMMA NowIsSince ==
  ASSUME IInv, ReadyIsLoaded, NEW c \in Caller, stage[c] = "asked",
         ready[At(c)]
  PROVE  repo[At(c)] \in Since(c) .. repo[At(c)]
<1>1. repo[At(c)] > 0
  BY RequestIsTyped DEF ReadyIsLoaded
<1> QED
  BY <1>1, RequestIsTyped DEF Since

-----------------------------------------------------------------------------
(* The steps of a client, while its controller waits.                      *)
LEMMA WaitingStays ==
  ASSUME UNCHANGED vars, NEW c \in Caller
  PROVE  /\ history' = history /\ stage'[c] = stage[c] /\ start'[c] = start[c]
         /\ request'[c] = request[c] /\ At(c)' = At(c) /\ Asked(c)' = Asked(c)
         /\ Since(c)' = Since(c) /\ repo'[At(c)] = repo[At(c)]
         /\ ready'[At(c)] = ready[At(c)] /\ user'[c] = user[c]
BY DEF vars, serverVars, handlerVars, At, Asked, Since

LEMMA AnswerNotReadyKeeps ==
  ASSUME IInv, LocalsTyped, NEW c \in Caller, LocalInv(c), UNCHANGED vars,
         Client(c)!AnswerNotReady(c)
  PROVE  LocalInv(c)' /\ LocalsTyped'
<1>1. /\ pc[c] = "called" /\ ~ready[At(c)]
      /\ pc' = [pc EXCEPT ![c] = "answered"]
      /\ UNCHANGED <<call, todo, found, result>>
  BY DEF Client!AnswerNotReady, At
<1>2. pc'[c] = "answered" /\ LocalsTyped'
  BY <1>1 DEF LocalsTyped
<1>3. start[c] = 0
  <2>1. start[c] > 0 => ready[At(c)]
    BY <1>1 DEF LocalInv
  <2> QED
    BY <1>1, <2>1, RequestIsTyped
<1>4. start[c] = 0 /\ result[c] = << >> /\ found[c] = {}
  BY <1>1, <1>3 DEF LocalInv
<1>5. IsPromised(c)'
  BY <1>1, <1>4, WaitingStays DEF IsPromised
<1> QED
  BY <1>1, <1>2, <1>4, <1>5, WaitingStays DEF LocalInv

LEMMA GetFeaturesByNameKeeps ==
  ASSUME IInv, LocalsTyped, NEW c \in Caller, LocalInv(c), UNCHANGED vars,
         Client(c)!GetFeaturesByName(c)
  PROVE  LocalInv(c)' /\ LocalsTyped'
<1>1. /\ pc[c] = "called" /\ ready[At(c)]
      /\ call[c].method = "GetFeaturesByName"
      /\ pc' = [pc EXCEPT ![c] = "running"]
      /\ todo' = [todo EXCEPT ![c] = call[c].names]
      /\ UNCHANGED <<call, found, result>>
  BY DEF Client!GetFeaturesByName, At
<1>2. call[c].names \in Seq(Name) /\ ~Selects(call[c])
  BY <1>1, CallUnderWay DEF Selects
<1>3. pc'[c] = "running" /\ todo'[c] = call[c].names /\ LocalsTyped'
  BY <1>1, <1>2 DEF LocalsTyped
<1>4. result'[c] = << >> /\ found'[c] = {}
  BY <1>1 DEF LocalInv
<1>5. IsUnderWay(<< >>, {}, call[c].names, history', call[c], Since(c)',
                 repo'[At(c)])
  BY <1>2, AnswerLooksUp
<1>6. UnderWay(c)'
  BY <1>1, <1>3, <1>4, <1>5, WaitingStays DEF UnderWay
<1> QED
  BY <1>1, <1>3, <1>4, <1>6, WaitingStays DEF LocalInv

LEMMA CopiesOfOneRead ==
  ASSUME NEW copies, NEW versions, NEW asked, Selects(asked), NEW lo, NEW hi,
         NEW s \in lo .. hi,
         \A f : f \in copies <=> \E n \in Selected(versions[s], asked) :
                                  f = Feature(versions[s], n)
  PROVE  IsUnderWay(<< >>, copies, << >>, versions, asked, lo, hi)
<1>1. copies = {Feature(versions[s], n) : n \in Selected(versions[s], asked)}
  OBVIOUS
<1> QED
  BY <1>1, AnswerSelects

LEMMA SelectKeeps ==
  ASSUME IInv, ReadyIsLoaded, LocalsTyped, NEW c \in Caller, LocalInv(c),
         UNCHANGED vars, Client(c)!Select(c)
  PROVE  LocalInv(c)' /\ LocalsTyped'
<1> DEFINE read == {Client(c)!Feature(history[repo[At(c)]], n) :
                      n \in Client(c)!Selected(history[repo[At(c)]], call[c])}
<1>1. /\ pc[c] = "called" /\ ready[At(c)]
      /\ call[c].method \in {"GetFeaturesByPattern", "GetFeaturesByStrategy"}
      /\ pc' = [pc EXCEPT ![c] = "running"]
      /\ found' = [found EXCEPT ![c] = read]
      /\ UNCHANGED <<call, todo, result>>
  BY DEF Client!Select, At
<1>2. \A f : f \in read <=>
               \E n \in Selected(history[repo[At(c)]], call[c]) :
                 f = Feature(history[repo[At(c)]], n)
  <2>1. /\ Client(c)!Selected(history[repo[At(c)]], call[c])
             = Selected(history[repo[At(c)]], call[c])
        /\ \A n : Client(c)!Feature(history[repo[At(c)]], n)
                     = Feature(history[repo[At(c)]], n)
    BY SameSelected
  <2> QED
    BY <2>1
<1> HIDE DEF read
<1>3. stage[c] = "asked" /\ Selects(call[c])
  BY <1>1, CallUnderWay DEF Selects
<1>4. repo[At(c)] \in Since(c) .. repo[At(c)]
  BY <1>1, <1>3, NowIsSince
<1>5. read \subseteq [name : Name, setting : Settings]
  <2>1. history[repo[At(c)]] \in Version
    BY <1>4, RequestIsTyped
  <2>2. ASSUME NEW n \in Selected(history[repo[At(c)]], call[c])
        PROVE  Feature(history[repo[At(c)]], n) \in [name : Name,
                                                     setting : Settings]
    BY <2>1 DEF Feature, Selected, Configured, Version
  <2> QED
    BY <1>2, <2>2
<1>6. IsUnderWay(<< >>, read, << >>, history, call[c], Since(c), repo[At(c)])
  BY <1>2, <1>3, <1>4, CopiesOfOneRead
<1>7. pc'[c] = "running" /\ found'[c] = read /\ LocalsTyped'
  BY <1>1, <1>5 DEF LocalsTyped
<1>8. result'[c] = << >> /\ todo'[c] = << >>
  BY <1>1 DEF LocalInv
<1>9. UnderWay(c)'
  BY <1>1, <1>6, <1>7, <1>8, WaitingStays DEF UnderWay
<1> QED
  BY <1>1, <1>3, <1>7, <1>9, WaitingStays DEF LocalInv

LEMMA ReturnKeeps ==
  ASSUME IInv, LocalsTyped, NEW c \in Caller, LocalInv(c), UNCHANGED vars,
         Client(c)!Return(c)
  PROVE  LocalInv(c)' /\ LocalsTyped'
<1>1. /\ pc[c] = "running" /\ found[c] = {} /\ todo[c] = << >>
      /\ pc' = [pc EXCEPT ![c] = "answered"]
      /\ UNCHANGED <<call, todo, found, result>>
  BY DEF Client!Return
<1>2. pc'[c] = "answered" /\ LocalsTyped'
  BY <1>1 DEF LocalsTyped
<1>3. IsPromised(c)
  <2>1. CASE EmptyHanded(c)
    BY <2>1 DEF EmptyHanded, IsPromised
  <2>2. CASE UnderWay(c)
    <3>1. IsUnderWay(result[c], {}, << >>, history, call[c], Since(c),
                     repo[At(c)])
      BY <1>1, <2>2 DEF UnderWay
    <3>2. call[c].names \in Seq(Name) /\ result[c] \in Seq(Entry)
      BY <1>1, CallUnderWay, LocalIsTyped
    <3> QED
      BY <3>1, <3>2, AnswerEnds DEF IsPromised
  <2> QED
    BY <1>1, <2>1, <2>2 DEF LocalInv
<1>4. IsPromised(c)'
  BY <1>1, <1>3, WaitingStays DEF IsPromised
<1> QED
  BY <1>1, <1>2, <1>4, WaitingStays DEF LocalInv

LEMMA GetFeatureKeeps ==
  ASSUME IInv, ReadyIsLoaded, LocalsTyped, NEW c \in Caller, LocalInv(c),
         UNCHANGED vars, Client(c)!GetFeature(c)
  PROVE  LocalInv(c)' /\ LocalsTyped'
<1> DEFINE n == Head(todo[c])
           now == repo[At(c)]
           copies == IF ready[At(c)] /\ n \in Configured(history[now])
                     THEN {Feature(history[now], n)} ELSE {}
<1>1. /\ pc[c] = "running" /\ todo[c] # << >> /\ found[c] = {}
      /\ found' = [found EXCEPT ![c] = copies]
      /\ todo' = [todo EXCEPT ![c] = Tail(todo[c])]
      /\ UNCHANGED <<pc, call, result>>
  <2>1. /\ Client(c)!Configured(history[now]) = Configured(history[now])
        /\ Client(c)!Feature(history[now], n) = Feature(history[now], n)
    BY SameSelected
  <2> QED
    BY <2>1 DEF Client!GetFeature, At
<1>2. stage[c] = "asked" /\ todo[c] \in Seq(Name) /\ n \in Name
  BY <1>1, CallUnderWay, LocalIsTyped
<1>3. copies \subseteq [name : Name, setting : Settings]
  <2>1. ASSUME ready[At(c)] PROVE history[now] \in Version
    BY <1>2, <2>1, NowIsSince, RequestIsTyped
  <2> QED
    BY <1>2, <2>1 DEF Feature, Configured, Version
<1>4. IsUnderWay(result[c], {}, todo[c], history, call[c], Since(c), now)
  BY <1>1 DEF LocalInv, EmptyHanded, UnderWay
<1> HIDE DEF n, copies
<1>5. found'[c] = copies /\ todo'[c] = Tail(todo[c]) /\ LocalsTyped'
  <2>1. Tail(todo[c]) \in Seq(Name)
    BY <1>1, <1>2
  <2> QED
    BY <1>1, <1>3, <2>1 DEF LocalsTyped
<1>6. CASE ready[At(c)]
  <2>1. now \in Since(c) .. now
    BY <1>2, <1>6, NowIsSince
  <2>2. IsUnderWay(result[c], copies, Tail(todo[c]), history, call[c],
                   Since(c), now)
    BY <1>1, <1>2, <1>4, <1>6, <2>1, AnswerMovesOn DEF copies, n
  <2>3. UnderWay(c)'
    BY <1>1, <1>5, <2>2, WaitingStays DEF UnderWay
  <2> QED
    BY <1>1, <1>5, <1>6, <2>3, WaitingStays DEF LocalInv
<1>7. CASE ~ready[At(c)]
  <2>1. ~Selects(call[c])
    BY <1>1, <1>4 DEF IsUnderWay
  <2>2. call[c].method = "GetFeature" /\ start[c] = 0
    <3>1. call[c].method \in Method /\ call[c].method # "GetFeaturesByName"
      BY <1>1, <1>7, CallUnderWay DEF LocalInv
    <3>2. start[c] > 0 => ready[At(c)]
      BY <1>2 DEF LocalInv
    <3> QED
      BY <1>7, <2>1, <3>1, <3>2, RequestIsTyped DEF Selects, Method
  <2>3. result[c] = << >> /\ Tail(todo[c]) = << >>
    <3>1. call[c].names \in Seq(Name) /\ Len(call[c].names) = 1
      BY <1>1, <2>2, CallUnderWay
    <3> QED
      BY <1>1, <1>2, <1>4, <2>1, <3>1, OneNameOnly
  <2>4. found'[c] = {}
    BY <1>5, <1>7 DEF copies
  <2>5. EmptyHanded(c)'
    BY <1>1, <1>5, <2>2, <2>3, <2>4, WaitingStays DEF EmptyHanded
  <2>6. /\ pc'[c] = "running" /\ call'[c] = call[c]
        /\ HasCall(request[c].query) /\ call[c] = Asked(c)
    BY <1>1, CallUnderWay
  <2>7. /\ stage'[c] = "asked" /\ start'[c] = 0
        /\ HasCall(request'[c].query) /\ call'[c] = Asked(c)'
    BY <1>2, <2>2, <2>6, WaitingStays
  <2>8. call'[c].method # "GetFeaturesByName"
    BY <2>2, <2>6
  <2>9. ~(start'[c] > 0)
    BY <2>7
  <2>10. LocalInv(c)'
    BY <2>4, <2>5, <2>6, <2>7, <2>8, <2>9 DEF LocalInv
  <2> QED
    BY <1>5, <2>10
<1> QED
  BY <1>5, <1>6, <1>7

LEMMA CopyIsEntry ==
  ASSUME NEW f \in [name : Name, setting : Settings], NEW w \in Version,
         NEW asker
  PROVE  toUserFeature(f, w, asker) \in Entry
<1>1. f.name \in Name /\ f.setting \in Setting
  BY FeaturesAssumption
<1>2. f.setting.description \in Description /\ f.setting.enabled \in BOOLEAN
  BY <1>1 DEF Setting
<1>3. \A level : fromFeatureLevel(level) \in LevelName
  BY DEF fromFeatureLevel, LevelName
<1>4. ComputeEnablementLevel(f.setting, InternalUser(asker)) \in LevelName
  BY <1>3 DEF ComputeEnablementLevel, LevelName
<1>5. IsEnabled(w, f.name, asker) \in BOOLEAN
  BY DEF IsEnabled
<1> QED
  BY <1>1, <1>2, <1>4, <1>5 DEF toUserFeature, UserFeature, Entry

LEMMA ToUserFeatureKeeps ==
  ASSUME IInv, ReadyIsLoaded, LocalsTyped, NEW c \in Caller, LocalInv(c),
         UNCHANGED vars, NEW f \in found[c], Client(c)!ToUserFeature(c, f)
  PROVE  LocalInv(c)' /\ LocalsTyped'
<1> DEFINE entry == toUserFeature(f, history[repo[At(c)]], call[c].user)
<1>1. ready[At(c)]
  BY DEF LocalInv
<1>2. /\ pc[c] = "running"
      /\ found' = [found EXCEPT ![c] = found[c] \ {f}]
      /\ result' = [result EXCEPT ![c] = Append(result[c], entry)]
      /\ UNCHANGED <<pc, call, todo>>
  <2>1. Client(c)!toUserFeature(f, history[repo[At(c)]], call[c].user) = entry
    BY SameEntries
  <2> QED
    BY <1>1, <2>1 DEF Client!ToUserFeature, Client!Converted, At
<1>3. /\ stage[c] = "asked" /\ result[c] \in Seq(Entry)
      /\ f \in [name : Name, setting : Settings]
  BY <1>2, CallUnderWay, LocalIsTyped
<1>4. entry \in Entry
  <2>1. history[repo[At(c)]] \in Version
    BY <1>1, <1>3, NowIsSince, RequestIsTyped
  <2> QED
    BY <1>3, <2>1, CopyIsEntry
<1>5. UnderWay(c)
  BY <1>2 DEF LocalInv, EmptyHanded
<1>6. IsUnderWay(Append(result[c], entry), found[c] \ {f}, todo[c], history,
                 call[c], Since(c), repo[At(c)])
  BY <1>3, <1>4, <1>5, RequestIsTyped, AnswerConverts DEF UnderWay
<1> HIDE DEF entry
<1>7. /\ found'[c] = found[c] \ {f} /\ result'[c] = Append(result[c], entry)
      /\ LocalsTyped'
  <2>1. Append(result[c], entry) \in Seq(Entry)
    BY <1>3, <1>4
  <2> QED
    BY <1>2, <2>1 DEF LocalsTyped
<1>8. UnderWay(c)'
  BY <1>2, <1>6, <1>7, WaitingStays DEF UnderWay
<1> QED
  BY <1>1, <1>2, <1>7, <1>8, WaitingStays DEF LocalInv

LEMMA PanicKeepsCall ==
  ASSUME IInv, ReadyIsLoaded, LocalsTyped, NEW c \in Caller, LocalInv(c),
         UNCHANGED vars, NEW f \in found[c], Client(c)!Panic(c, f)
  PROVE  LocalInv(c)' /\ LocalsTyped'
<1>1. /\ pc[c] = "running" /\ ready[At(c)]
      /\ Panics(history[repo[At(c)]], f.name, call[c].user)
      /\ pc' = [pc EXCEPT ![c] = "failed"]
      /\ UNCHANGED <<call, todo, found, result>>
  <2>1. Client(c)!Panics(history[repo[At(c)]], f.name, call[c].user)
          <=> Panics(history[repo[At(c)]], f.name, call[c].user)
    BY SameUnleash
  <2> QED
    BY <2>1 DEF Client!Panic, At
<1>2. pc'[c] = "failed" /\ LocalsTyped'
  BY <1>1 DEF LocalsTyped
<1>3. /\ stage[c] = "asked" /\ call[c] = Asked(c) /\ call[c].user = user[c]
      /\ call[c].names \in Seq(Name)
  BY <1>1, CallUnderWay
<1>4. UnderWay(c)
  BY <1>1 DEF LocalInv, EmptyHanded
<1>5. \E s \in Since(c) .. repo[At(c)] :
        f.name \in Selected(history[s], call[c])
  <2>1. f.name \in Name /\ todo[c] \in Seq(Name)
    BY LocalIsTyped
  <2> QED
    BY <1>3, <1>4, <2>1, CopiesAreSelected DEF UnderWay
<1>6. MayFail(c)
  <2>1. PICK s \in Since(c) .. repo[At(c)] :
          f.name \in Selected(history[s], Asked(c))
    BY <1>3, <1>5
  <2>2. repo[At(c)] \in Since(c) .. repo[At(c)] /\ s <= repo[At(c)]
    BY <1>1, <1>3, <2>1, NowIsSince
  <2> QED
    BY <1>1, <1>3, <2>1, <2>2 DEF MayFail
<1>7. MayFail(c)'
  BY <1>6, WaitingStays DEF MayFail
<1> QED
  BY <1>1, <1>2, <1>7, WaitingStays DEF LocalInv

LEMMA ClientStepKeeps ==
  ASSUME IInv, ReadyIsLoaded, LocalsTyped, NEW c \in Caller, LocalInv(c),
         UNCHANGED vars, Client(c)!Step(c)
  PROVE  LocalInv(c)' /\ LocalsTyped'
<1>1. CASE Client(c)!AnswerNotReady(c)
  BY <1>1, AnswerNotReadyKeeps
<1>2. CASE Client(c)!GetFeaturesByName(c)
  BY <1>2, GetFeaturesByNameKeeps
<1>3. CASE Client(c)!Select(c)
  BY <1>3, SelectKeeps
<1>4. CASE Client(c)!GetFeature(c)
  BY <1>4, GetFeatureKeeps
<1>5. ASSUME NEW f \in found[c], Client(c)!ToUserFeature(c, f)
      PROVE  LocalInv(c)' /\ LocalsTyped'
  BY <1>5, ToUserFeatureKeeps
<1>6. ASSUME NEW f \in found[c], Client(c)!Panic(c, f)
      PROVE  LocalInv(c)' /\ LocalsTyped'
  BY <1>6, PanicKeepsCall
<1>7. CASE Client(c)!Return(c)
  BY <1>7, ReturnKeeps
<1> QED
  BY <1>1, <1>2, <1>3, <1>4, <1>5, <1>6, <1>7 DEF Client!Step

-----------------------------------------------------------------------------
(* A step of somebody else, seen from a request: the client of the request *)
(* is not there, before and after; or it waits where it is, with no less   *)
(* to read; or the request is over and the client has forgotten it.        *)
SameLocals(d) ==
  /\ pc'[d] = pc[d] /\ call'[d] = call[d] /\ todo'[d] = todo[d]
  /\ found'[d] = found[d] /\ result'[d] = result[d]

IsQuiet(d) == SameLocals(d) /\ stage[d] # "asked" /\ stage'[d] # "asked"

IsStill(d) ==
  /\ SameLocals(d)
  /\ stage'[d] = stage[d] /\ request'[d] = request[d]
  /\ user'[d] = user[d] /\ start'[d] = start[d]
  /\ repo'[At(d)] >= repo[At(d)]
  /\ ready[At(d)] => ready'[At(d)]

IsForgotten(d) ==
  /\ stage'[d] # "asked"
  /\ pc'[d] = "idle" /\ todo'[d] = << >> /\ found'[d] = {} /\ result'[d] = << >>

LEMMA QuietKeeps ==
  ASSUME NEW d \in Caller, LocalInv(d), IsQuiet(d)
  PROVE  LocalInv(d)'
BY DEF LocalInv, IsQuiet, SameLocals

LEMMA ForgottenKeeps ==
  ASSUME NEW d \in Caller, IsForgotten(d) PROVE LocalInv(d)'
BY DEF LocalInv, IsForgotten

LEMMA StillKeeps ==
  ASSUME IInv, IInv', IsExtension(history', history), NEW d \in Caller,
         LocalInv(d), IsStill(d)
  PROVE  LocalInv(d)'
<1>1. /\ At(d)' = At(d) /\ Asked(d)' = Asked(d) /\ Since(d)' = Since(d)
      /\ SameLocals(d)
  BY DEF IsStill, At, Asked, Since
<1>2. PICK lo, now, then :
        /\ lo \in Nat \ {0} /\ now \in Nat /\ then \in Nat
        /\ lo = Since(d) /\ now = repo[At(d)] /\ then = repo'[At(d)]
        /\ now <= then /\ now <= Len(history)
  <2>1. repo'[At(d)] \in Nat
    BY RequestIsTyped DEF IInv, TypeOK
  <2> QED
    BY <2>1, RequestIsTyped DEF IsStill
<1>3. EmptyHanded(d) => EmptyHanded(d)'
  BY <1>1 DEF EmptyHanded, IsStill, SameLocals
<1>4. UnderWay(d) => UnderWay(d)'
  <2>1. ASSUME UnderWay(d)
        PROVE  IsUnderWay(result[d], found[d], todo[d], history', call[d], lo,
                          then)
    BY <1>2, <2>1, UnderWayStays DEF UnderWay
  <2> QED
    BY <1>1, <1>2, <2>1 DEF UnderWay, SameLocals
<1>5. IsPromised(d) => IsPromised(d)'
  <2>1. ASSUME IsAnswer(result[d], history, call[d], lo, now)
        PROVE  IsAnswer(result[d], history', call[d], lo, then)
    BY <1>2, <2>1, AnswerStays
  <2> QED
    BY <1>1, <1>2, <2>1 DEF IsPromised, IsStill, SameLocals
<1>6. MayFail(d) => MayFail(d)'
  <2>1. \A s \in lo .. now : s \in lo .. then /\ history'[s] = history[s]
    BY <1>2 DEF IsExtension
  <2>2. ASSUME MayFail(d)
        PROVE  \E s, e \in lo .. then :
                 \E n \in Selected(history'[s], Asked(d)) :
                   s <= e /\ Panics(history'[e], n, user[d])
    BY <1>2, <2>1, <2>2 DEF MayFail
  <2> QED
    BY <1>1, <1>2, <2>2 DEF MayFail, IsStill
<1>7. ready[At(d)] => ready'[At(d)]
  BY DEF IsStill
<1> QED
  BY <1>1, <1>3, <1>4, <1>5, <1>6, <1>7 DEF LocalInv, IsStill, SameLocals

LEMMA ForgetForgets ==
  ASSUME LocalsTyped, NEW callers, Forget(callers)
  PROVE  /\ LocalsTyped'
         /\ \A d \in Caller :
              IF d \in callers
              THEN /\ pc'[d] = "idle" /\ todo'[d] = << >>
                   /\ found'[d] = {} /\ result'[d] = << >>
              ELSE SameLocals(d)
<1>1. /\ pc' \in [Caller -> {"idle", "called", "running", "answered", "failed"}]
      /\ call' \in [Caller -> ClientCalls \union {NoCall}]
      /\ found' \in [Caller -> SUBSET [name : Name, setting : Settings]]
  BY DEF Forget, LocalsTyped
<1>2. todo' \in [Caller -> Seq(Name)] /\ result' \in [Caller -> Seq(Entry)]
  <2>1. << >> \in Seq(Name) /\ << >> \in Seq(Entry)
    OBVIOUS
  <2> QED
    BY <2>1 DEF Forget, LocalsTyped
<1>3. LocalsTyped'
  BY <1>1, <1>2 DEF LocalsTyped
<1> QED
  BY <1>3 DEF Forget, SameLocals

LEMMA ReadyStaysLoaded ==
  ASSUME TypeOK, ReadyIsLoaded, [Next]_vars
  PROVE  ReadyIsLoaded'
<1>1. \A p \in Replica : repo[p] \in Nat /\ repo[p] <= Len(history)
  BY DEF TypeOK
<1>2. CASE UNCHANGED serverVars
  BY <1>2 DEF serverVars, ReadyIsLoaded
<1>3. ASSUME NEW p \in Replica, Refresh(p) PROVE ReadyIsLoaded'
  <2>1. repo'[p] = Len(history) /\ Len(history) > 0
    BY <1>1, <1>3 DEF Refresh, TypeOK
  <2> QED
    BY <1>3, <2>1 DEF Refresh, ReadyIsLoaded, TypeOK
<1>4. ASSUME NEW p \in Replica, OnReady(p) PROVE ReadyIsLoaded'
  BY <1>4 DEF OnReady, ReadyIsLoaded, TypeOK
<1>5. ASSUME NEW p \in Replica, Restart(p) PROVE ReadyIsLoaded'
  BY <1>5 DEF Restart, ReadyIsLoaded, TypeOK
<1>6. ASSUME NEW n, NEW setting, Edit(n, setting) PROVE ReadyIsLoaded'
  BY <1>6 DEF Edit, ReadyIsLoaded
<1>7. ASSUME NEW c \in Caller, Step(c) PROVE UNCHANGED serverVars
  BY <1>7 DEF Step, Prepare, CheckToken, GetUserProfile, ProfileFails,
              AnswerNoQuestion, AskClient, Answer, AnswerWith, Panic, PanicReply
<1> QED
  BY <1>2, <1>3, <1>4, <1>5, <1>6, <1>7
  DEF Next, Surroundings, UpdateProfile, AuthHangs, AuthRecovers, SignIn, Send,
      Receive, Lose, vars

-----------------------------------------------------------------------------
(* Whose client moves, and whose does not.                                 *)
LEMMA ClientOthers ==
  ASSUME LocalsTyped, NEW c \in Caller,
         Client(c)!Step(c) \/ \E asked : Client(c)!Invoke(c, asked)
  PROVE  \A d \in Caller \ {c} : SameLocals(d)
<1> USE DEF SameLocals, LocalsTyped
<1>1. CASE Client(c)!AnswerNotReady(c)
  BY <1>1 DEF Client!AnswerNotReady
<1>2. CASE Client(c)!GetFeaturesByName(c)
  BY <1>2 DEF Client!GetFeaturesByName
<1>3. CASE Client(c)!Select(c)
  BY <1>3 DEF Client!Select
<1>4. CASE Client(c)!GetFeature(c)
  BY <1>4 DEF Client!GetFeature
<1>5. ASSUME NEW f, Client(c)!ToUserFeature(c, f)
      PROVE  \A d \in Caller \ {c} : SameLocals(d)
  BY <1>5 DEF Client!ToUserFeature
<1>6. ASSUME NEW f, Client(c)!Panic(c, f)
      PROVE  \A d \in Caller \ {c} : SameLocals(d)
  BY <1>6 DEF Client!Panic
<1>7. CASE Client(c)!Return(c)
  BY <1>7 DEF Client!Return
<1>8. ASSUME NEW asked, Client(c)!Invoke(c, asked)
      PROVE  \A d \in Caller \ {c} : SameLocals(d)
  BY <1>8 DEF Client!Invoke
<1> QED
  BY <1>1, <1>2, <1>3, <1>4, <1>5, <1>6, <1>7, <1>8 DEF Client!Step

LEMMA StepLeavesServer ==
  ASSUME NEW c \in Caller, Step(c) \/ Lose(c) PROVE UNCHANGED serverVars
BY DEF Step, Prepare, CheckToken, GetUserProfile, ProfileFails,
       AnswerNoQuestion, AskClient, Answer, AnswerWith, Panic, PanicReply, Lose

LEMMA OthersAreStill ==
  ASSUME IInv, NEW c \in Caller, Step(c) \/ Lose(c), NEW d \in Caller \ {c},
         SameLocals(d)
  PROVE  IsStill(d)
<1>1. /\ TypeOK /\ At(d) \in Replica /\ repo[At(d)] \in Nat
  BY RequestIsTyped DEF IInv
<1>2. repo' = repo /\ ready' = ready
  BY StepLeavesServer DEF serverVars
<1>3. /\ stage'[d] = stage[d] /\ request'[d] = request[d]
      /\ user'[d] = user[d] /\ start'[d] = start[d]
  <2>1. CASE Step(c)
    BY <1>1, <2>1, HandlerStepMovesOn
  <2>2. CASE Lose(c)
    BY <2>2, BreakingOffEnds DEF Lose
  <2> QED
    BY <2>1, <2>2
<1> QED
  BY <1>1, <1>2, <1>3 DEF IsStill

LEMMA SurroundingsDisturbNobody ==
  ASSUME IInv, Surroundings, UNCHANGED localVars, NEW d \in Caller
  PROVE  IsQuiet(d) \/ IsStill(d)
<1>1. /\ TypeOK /\ At(d) \in Replica /\ repo[At(d)] \in Nat
      /\ Len(history) \in Nat
  BY RequestIsTyped DEF IInv
<1>2. SameLocals(d)
  BY DEF localVars, SameLocals
<1>3. ASSUME UNCHANGED handlerVars, repo'[At(d)] >= repo[At(d)],
             ready[At(d)] => ready'[At(d)]
      PROVE  IsStill(d)
  BY <1>2, <1>3 DEF IsStill, handlerVars
<1>4. ASSUME NEW n, NEW setting, Edit(n, setting) PROVE IsStill(d)
  BY <1>1, <1>3, <1>4 DEF Edit
<1>5. ASSUME NEW p \in Replica, Refresh(p) PROVE IsStill(d)
  <2>1. repo'[At(d)] >= repo[At(d)]
    BY <1>1, <1>5 DEF Refresh, TypeOK
  <2> QED
    BY <1>3, <1>5, <2>1 DEF Refresh
<1>6. ASSUME NEW p \in Replica, OnReady(p) PROVE IsStill(d)
  <2>1. ready[At(d)] => ready'[At(d)]
    BY <1>1, <1>6 DEF OnReady, TypeOK
  <2> QED
    BY <1>1, <1>3, <1>6, <2>1 DEF OnReady
<1>7. ASSUME NEW person, NEW profile, UpdateProfile(person, profile)
      PROVE  IsStill(d)
  BY <1>1, <1>3, <1>7 DEF UpdateProfile, serverVars
<1>8. ASSUME AuthHangs \/ AuthRecovers PROVE IsStill(d)
  BY <1>1, <1>3, <1>8 DEF AuthHangs, AuthRecovers, serverVars
<1>9. ASSUME NEW c, NEW t, SignIn(c, t) PROVE IsStill(d)
  BY <1>1, <1>3, <1>9 DEF SignIn, serverVars
<1>10. ASSUME NEW c \in Caller, NEW p, NEW q, Send(c, p, q)
       PROVE  IsQuiet(d) \/ IsStill(d)
  <2>1. CASE d = c
    BY <1>1, <1>2, <1>10, <2>1 DEF Send, IsQuiet, TypeOK
  <2>2. CASE d # c
    BY <1>1, <1>2, <1>10, <2>2 DEF Send, IsStill, TypeOK, serverVars
  <2> QED
    BY <2>1, <2>2
<1>11. ASSUME NEW c \in Caller, Receive(c) PROVE IsQuiet(d) \/ IsStill(d)
  <2>1. CASE d = c
    BY <1>2, <1>11, <2>1 DEF Receive, BreakOff, IsQuiet
  <2>2. CASE d # c
    BY <1>1, <1>2, <1>11, <2>2 DEF Receive, BreakOff, IsStill, serverVars
  <2> QED
    BY <2>1, <2>2
<1> QED
  BY <1>4, <1>5, <1>6, <1>7, <1>8, <1>9, <1>10, <1>11 DEF Surroundings

(* A replica that dies takes its requests with it, and no others.          *)
LEMMA RestartForgets ==
  ASSUME IInv, LocalsTyped, NEW p \in Replica, Restart(p),
         Forget({c \in Caller : request[c].replica = p}), NEW d \in Caller
  PROVE  IsForgotten(d) \/ IsStill(d)
<1>1. /\ TypeOK /\ At(d) \in Replica /\ repo[At(d)] \in Nat
  BY RequestIsTyped DEF IInv
<1>2. IF request[d].replica = p
      THEN /\ pc'[d] = "idle" /\ todo'[d] = << >>
           /\ found'[d] = {} /\ result'[d] = << >>
      ELSE SameLocals(d)
  BY ForgetForgets
<1>3. CASE request[d].replica = p
  <2>1. stage'[d] = "idle"
    BY <1>3 DEF Restart, BreakOff
  <2> QED
    BY <1>2, <1>3, <2>1 DEF IsForgotten
<1>4. CASE request[d].replica # p
  <2>1. repo'[At(d)] = repo[At(d)] /\ ready'[At(d)] = ready[At(d)]
    BY <1>1, <1>4 DEF Restart, TypeOK, At
  <2>2. /\ stage'[d] = stage[d] /\ request'[d] = request[d]
        /\ user'[d] = user[d] /\ start'[d] = start[d]
    BY <1>4 DEF Restart, BreakOff
  <2> QED
    BY <1>1, <1>2, <1>4, <2>1, <2>2 DEF IsStill
<1> QED
  BY <1>3, <1>4

LEMMA PrepareIsQuiet ==
  ASSUME TypeOK, NEW c \in Caller, Prepare(c), UNCHANGED localVars
  PROVE  IsQuiet(c)
<1>1. SameLocals(c)
  BY DEF localVars, SameLocals
<1>2. stage[c] # "asked" /\ stage'[c] # "asked"
  <2> USE DEF TypeOK
  <2>1. CASE CheckToken(c)
    BY <2>1 DEF CheckToken, ReplyError, Reply
  <2>2. CASE GetUserProfile(c)
    BY <2>2 DEF GetUserProfile
  <2>3. ASSUME NEW err, ProfileFails(c, err)
        PROVE  stage[c] # "asked" /\ stage'[c] # "asked"
    BY <2>3 DEF ProfileFails, ReplyError, Reply
  <2>4. CASE AnswerNoQuestion(c)
    BY <2>4 DEF AnswerNoQuestion, Reply
  <2> QED
    BY <2>1, <2>2, <2>3, <2>4 DEF Prepare
<1> QED
  BY <1>1, <1>2 DEF IsQuiet

(* The call begins with nothing done, and a ready client has a copy.       *)
LEMMA CallClientKeeps ==
  ASSUME IInv, LocalsTyped, NEW c \in Caller, LocalInv(c), CallClient(c)
  PROVE  LocalInv(c)' /\ LocalsTyped'
<1>1. /\ stage[c] = "checked" /\ stage'[c] = "asked"
      /\ start'[c] = IF ready[At(c)] THEN repo[At(c)] ELSE 0
      /\ HasCall(request[c].query)
      /\ request' = request /\ user' = user /\ history' = history
      /\ repo' = repo /\ ready' = ready
  <2>1. TypeOK
    BY DEF IInv
  <2> QED
    BY <2>1 DEF CallClient, AskClient, serverVars, TypeOK, At
<1> DEFINE looksUp == Asked(c).method = "GetFeature"
<1>2. /\ pc[c] = "idle"
      /\ pc' = [pc EXCEPT ![c] = IF looksUp THEN "running" ELSE "called"]
      /\ call' = [call EXCEPT ![c] = Asked(c)]
      /\ todo' = [todo EXCEPT ![c] = IF looksUp THEN Asked(c).names ELSE << >>]
      /\ UNCHANGED <<found, result>>
  <2>1. Client(c)!Invoke(c, Asked(c))
    BY DEF CallClient, Asked
  <2> QED
    BY <2>1 DEF Client!Invoke
<1>3. /\ Asked(c) \in ClientCalls /\ Asked(c).names \in Seq(Name)
      /\ << >> \in Seq(Name)
  BY <1>1, RequestIsTyped, DispatchIsCall DEF Asked
<1>4. LocalsTyped'
  BY <1>2, <1>3 DEF LocalsTyped
<1>5. /\ pc'[c] = IF looksUp THEN "running" ELSE "called"
      /\ call'[c] = Asked(c)
      /\ todo'[c] = IF looksUp THEN Asked(c).names ELSE << >>
      /\ found'[c] = {} /\ result'[c] = << >>
  BY <1>2 DEF LocalsTyped, LocalInv
<1>6. /\ Asked(c)' = Asked(c) /\ At(c)' = At(c)
      /\ start'[c] > 0 => ready'[At(c)]
  BY <1>1 DEF Asked, At
<1>7. looksUp => UnderWay(c)'
  <2>1. ASSUME looksUp
        PROVE  IsUnderWay(<< >>, {}, Asked(c).names, history', Asked(c),
                          Since(c)', repo'[At(c)])
    BY <1>3, <2>1, AnswerLooksUp DEF Selects
  <2> QED
    BY <1>5, <1>6, <2>1 DEF UnderWay
<1>8. looksUp => Asked(c).method # "GetFeaturesByName"
  OBVIOUS
<1> HIDE DEF looksUp
<1>9. HasCall(request'[c].query) /\ call'[c] = Asked(c)'
  BY <1>1, <1>5, <1>6
<1>10. LocalInv(c)'
  BY <1>1, <1>5, <1>6, <1>7, <1>8, <1>9 DEF LocalInv
<1> QED
  BY <1>4, <1>10

-----------------------------------------------------------------------------
(* What the client returns, or dies of, is what the controller takes it to *)
(* promise.                                                                *)
LEMMA AnswerIsPromised ==
  ASSUME IInv, LocalsTyped, NEW c \in Caller, LocalInv(c), pc[c] = "answered"
  PROVE  result[c] \in Promised(c, user[c])
<1>1. /\ call[c] = Asked(c) /\ call[c].names \in Seq(Name)
      /\ result[c] \in Seq(Entry) /\ IsPromised(c)
  BY CallUnderWay, LocalIsTyped DEF LocalInv
<1>2. CASE start[c] = 0 /\ result[c] = << >>
  BY <1>2 DEF Promised
<1>3. CASE IsAnswer(result[c], history, call[c], Since(c), repo[At(c)])
  <2>1. result[c] \in Lists(call[c], Since(c), repo[At(c)])
    BY <1>1, <1>3, AnswerIsListed
  <2> QED
    BY <1>1, <2>1 DEF Promised, Asked, At
<1> QED
  BY <1>1, <1>2, <1>3 DEF IsPromised

LEMMA AnswerFits ==
  ASSUME SInv, NEW c \in Caller, AnswerResult(c) PROVE Answer(c)
<1>1. stage[c] = "asked" /\ AnswerWith(c, result[c])
  BY DEF AnswerResult, AnswerWith
<1>2. result[c] \in Promised(c, user[c])
  BY AnswerIsPromised DEF AnswerResult, SInv
<1> QED
  BY <1>1, <1>2 DEF Answer

LEMMA PanicFits ==
  ASSUME SInv, NEW c \in Caller, ClientPanics(c) PROVE Panic(c)
<1>1. stage[c] = "asked" /\ PanicReply(c)
  BY DEF ClientPanics, PanicReply
<1>2. MayFail(c)
  BY DEF ClientPanics, SInv, LocalInv
<1> QED
  BY <1>1, <1>2 DEF Panic, MayFail, Asked, At

(* A step of the service is one that the controller takes, or none.        *)
LEMMA ServiceStepFits ==
  ASSUME SInv, [ServiceNext]_serviceVars
  PROVE  [Next]_vars
<1>1. ASSUME NEW c \in Caller, ServiceStep(c) PROVE [Next]_vars
  <2>1. CASE Prepare(c)
    BY <2>1 DEF Next, Step
  <2>2. CASE CallClient(c)
    BY <2>2 DEF Next, Step, CallClient
  <2>3. CASE ClientStep(c)
    BY <2>3 DEF ClientStep
  <2>4. CASE AnswerResult(c)
    BY <2>4, AnswerFits DEF Next, Step
  <2>5. CASE ClientPanics(c)
    BY <2>5, PanicFits DEF Next, Step
  <2> QED
    BY <1>1, <2>1, <2>2, <2>3, <2>4, <2>5 DEF ServiceStep
<1> QED
  BY <1>1 DEF ServiceNext, serviceVars, Next

LEMMA UndisturbedKeeps ==
  ASSUME IInv, IInv', IsExtension(history', history), NEW d \in Caller,
         LocalInv(d), IsQuiet(d) \/ IsStill(d) \/ IsForgotten(d)
  PROVE  LocalInv(d)'
BY QuietKeeps, StillKeeps, ForgottenKeeps

LEMMA ServiceInitInv == ServiceInit => SInv
<1> SUFFICES ASSUME ServiceInit PROVE SInv
  OBVIOUS
<1>1. Init /\ IInv
  BY InitInv DEF ServiceInit
<1>2. ReadyIsLoaded
  BY <1>1 DEF Init, ReadyIsLoaded
<1>3. LocalsTyped
  <2>1. << >> \in Seq(Name) /\ << >> \in Seq(Entry)
    OBVIOUS
  <2> QED
    BY <2>1 DEF ServiceInit, LocalsTyped
<1>4. \A c \in Caller : LocalInv(c)
  BY <1>1 DEF ServiceInit, Init, LocalInv
<1> QED
  BY <1>1, <1>2, <1>3, <1>4 DEF SInv

LEMMA ServiceNextInv == SInv /\ [ServiceNext]_serviceVars => SInv'
<1> SUFFICES ASSUME SInv, [ServiceNext]_serviceVars PROVE SInv'
  OBVIOUS
<1>1. /\ IInv /\ TypeOK /\ ReadyIsLoaded /\ LocalsTyped
      /\ \A c \in Caller : LocalInv(c)
  BY DEF SInv, IInv
<1>2. [Next]_vars /\ IInv' /\ ReadyIsLoaded'
  BY <1>1, ServiceStepFits, NextInv, ReadyStaysLoaded
<1>3. IsExtension(history', history)
  BY <1>1, <1>2, ThreeWays DEF MovesOn
<1> DEFINE Goal == LocalsTyped' /\ \A d \in Caller : LocalInv(d)'
           Undisturbed(d) == IsQuiet(d) \/ IsStill(d) \/ IsForgotten(d)
<1>4. ASSUME NEW d \in Caller, Undisturbed(d) PROVE LocalInv(d)'
  BY <1>1, <1>2, <1>3, <1>4, UndisturbedKeeps
<1>5. ASSUME UNCHANGED localVars PROVE LocalsTyped'
  BY <1>1, <1>5 DEF localVars, LocalsTyped
<1>6. ASSUME Surroundings, UNCHANGED localVars PROVE Goal
  BY <1>1, <1>4, <1>5, <1>6, SurroundingsDisturbNobody
<1>7. ASSUME NEW p \in Replica, Restart(p),
             Forget({c \in Caller : request[c].replica = p})
      PROVE  Goal
  BY <1>1, <1>4, <1>7, RestartForgets, ForgetForgets
<1>8. ASSUME NEW c \in Caller, Forget({c}), Step(c) \/ Lose(c),
             stage'[c] # "asked"
      PROVE  Goal
  <2>1. /\ LocalsTyped' /\ IsForgotten(c)
        /\ \A d \in Caller \ {c} : SameLocals(d)
    BY <1>1, <1>8, ForgetForgets DEF IsForgotten
  <2>2. \A d \in Caller \ {c} : IsStill(d)
    BY <1>1, <1>8, <2>1, OthersAreStill
  <2> QED
    BY <1>4, <2>1, <2>2
<1>9. ASSUME NEW c \in Caller, Lose(c), Forget({c}) PROVE Goal
  <2>1. stage'[c] # "asked"
    BY <1>9 DEF Lose, BreakOff
  <2> QED
    BY <1>8, <1>9, <2>1
<1>10. ASSUME NEW c \in Caller, AnswerResult(c) PROVE Goal
  <2>1. Step(c)
    BY <1>10, AnswerFits DEF Step
  <2>2. stage'[c] # "asked"
    <3>1. PICK sorted : Conditional(c, sorted)
      BY <1>10 DEF AnswerResult, AnswerWith
    <3> QED
      BY <1>1, <3>1 DEF Conditional, Reply, TypeOK
  <2> QED
    BY <1>8, <1>10, <2>1, <2>2 DEF AnswerResult
<1>11. ASSUME NEW c \in Caller, ClientPanics(c) PROVE Goal
  <2>1. Step(c)
    BY <1>11, PanicFits DEF Step
  <2>2. stage'[c] # "asked"
    BY <1>1, <1>11 DEF ClientPanics, PanicReply, Reply, TypeOK
  <2> QED
    BY <1>8, <1>11, <2>1, <2>2 DEF ClientPanics
<1>12. ASSUME NEW c \in Caller, Prepare(c), UNCHANGED localVars PROVE Goal
  <2>1. \A d \in Caller \ {c} : IsStill(d)
    BY <1>1, <1>12, OthersAreStill DEF Step, localVars, SameLocals
  <2> QED
    BY <1>1, <1>4, <1>5, <1>12, <2>1, PrepareIsQuiet
<1>13. ASSUME NEW c \in Caller, CallClient(c) PROVE Goal
  <2>1. \A d \in Caller \ {c} : SameLocals(d)
    BY <1>1, <1>13, ClientOthers DEF CallClient
  <2>2. \A d \in Caller \ {c} : IsStill(d)
    BY <1>1, <1>13, <2>1, OthersAreStill DEF CallClient, Step
  <2> QED
    BY <1>1, <1>4, <1>13, <2>2, CallClientKeeps
<1>14. ASSUME UNCHANGED vars, NEW d \in Caller, SameLocals(d) PROVE IsStill(d)
  <2>1. repo[At(d)] \in Nat
    BY <1>1, RequestIsTyped
  <2> QED
    BY <1>14, <2>1 DEF IsStill, vars, serverVars, handlerVars
<1>15. ASSUME NEW c \in Caller, ClientStep(c) PROVE Goal
  <2>1. \A d \in Caller \ {c} : SameLocals(d)
    BY <1>1, <1>15, ClientOthers DEF ClientStep
  <2>2. \A d \in Caller \ {c} : IsStill(d)
    BY <1>14, <1>15, <2>1 DEF ClientStep
  <2> QED
    BY <1>1, <1>4, <1>15, <2>2, ClientStepKeeps DEF ClientStep
<1>16. ASSUME UNCHANGED serviceVars PROVE Goal
  <2>1. UNCHANGED vars /\ UNCHANGED localVars
    BY <1>16 DEF serviceVars
  <2>2. \A d \in Caller : IsStill(d)
    BY <1>14, <2>1 DEF localVars, SameLocals
  <2> QED
    BY <1>4, <1>5, <2>1, <2>2
<1>17. ASSUME NEW c \in Caller, ServiceStep(c) PROVE Goal
  BY <1>10, <1>11, <1>12, <1>13, <1>15, <1>17 DEF ServiceStep
<1> HIDE DEF Goal
<1>18. Goal
  BY <1>6, <1>7, <1>9, <1>16, <1>17 DEF ServiceNext
<1> QED
  BY <1>2, <1>18 DEF SInv, Goal

-----------------------------------------------------------------------------
(* Whatever a request has come to, in the handler and in the client it     *)
(* calls: the client works for the handler that waits for it and for no    *)
(* other, on its question, with what a copy of the time of the request     *)
(* gave it (features.go:98-121, toggles_client_wrapper.go:86-190).         *)
THEOREM ServiceInvariant == ServiceSpec => []SInv
BY ServiceInitInv, ServiceNextInv, PTL DEF ServiceSpec

(* With the client working step by step the service takes no step that     *)
(* the controller does not take with the client's promise: the answer it   *)
(* gets is among those promised for what it asked, as whom it asked, and   *)
(* if it gets none then for a feature that it asked for                    *)
(* (features.go:98-121, toggles_client_wrapper.go:86-190).                 *)
THEOREM ServiceKeepsController == ServiceSpec => ControllerKept
<1>1. ServiceInit => Init
  BY DEF ServiceInit
<1>2. SInv /\ [ServiceNext]_serviceVars => [Next]_vars
  BY ServiceStepFits
<1> QED
  BY <1>1, <1>2, ServiceInvariant, PTL DEF ServiceSpec, ControllerKept

(* So no caller of the service ends up with an answer to another person or *)
(* another question, or an old one, however the reads of its client and    *)
(* the refreshes of its replica fall out (generator.go:248-279,            *)
(* features.go:98-121), as long as tags tell answers apart.                *)
THEOREM ServiceAnswersAreCurrent ==
  SeparatorsAreFree => (ServiceSpec => []AnswersAreCurrent)
<1> SUFFICES ASSUME SeparatorsAreFree PROVE ServiceSpec => []AnswersAreCurrent
  OBVIOUS
<1>1. SInv => AnswersAreCurrent
  BY AnswersAreExplained DEF SInv
<1> QED
  BY <1>1, ServiceInvariant, PTL

(* The service confirms an answer that is still the present one            *)
(* (features.go:116), although its client reads feature by feature.        *)
THEOREM ServiceConfirmsAnswers ==
  UnknownText \notin Description => (ServiceSpec => []UnchangedIsNotModified)
<1> SUFFICES ASSUME UnknownText \notin Description
             PROVE  ServiceSpec => []UnchangedIsNotModified
  OBVIOUS
<1>1. SInv => UnchangedIsNotModified
  BY UnchangedIsConfirmed DEF SInv
<1> QED
  BY <1>1, ServiceInvariant, PTL

(* The service fails a request for one of the reasons that the controller  *)
(* has (features.go:86-93, enable_by_level_strategy.go:28), and for none   *)
(* that would come from the client's steps falling between others.         *)
THEOREM ServiceErrorsAreCaused == ServiceSpec => []ErrorsHaveACause
<1>1. SInv => ErrorsHaveACause
  BY DEF SInv, IInv, RequestInv, ErrorInv, ErrorsHaveACause
<1> QED
  BY <1>1, ServiceInvariant, PTL
=============================================================================
