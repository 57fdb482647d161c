------------------------- MODULE ComputeLevelProofs --------------------------
(***************************************************************************)
(* Proofs about ComputeLevel, for features with any number of strategies:  *)
(* the loop returns the highest level retained, and that level decides who *)
(* is let in by the level strategies.                                      *)
(***************************************************************************)
EXTENDS ComputeLevel, TLAPS

USE DEF unknown, internal, experimental, beta, released, FeatureLevel

-----------------------------------------------------------------------------
(* Levels and their names.                                                 *)

LEMMA LevelOfText ==
  ASSUME NEW text, NEW defaultLevel \in FeatureLevel
  PROVE  toFeatureLevel(text, defaultLevel) \in FeatureLevel
BY DEF toFeatureLevel

(* A user's level, with the cautious default, is never `unknown'.          *)
LEMMA UserLevelIsKnown ==
  ASSUME NEW text
  PROVE  toFeatureLevel(text, released) \in internal .. released
BY DEF toFeatureLevel

LEMMA NameOfLevel ==
  ASSUME NEW level
  PROVE  fromFeatureLevel(level) \in LevelName
BY DEF fromFeatureLevel, LevelName

(* The two conversions of enablement_level.go are inverse to each other.   *)
LEMMA LevelRoundTrip ==
  ASSUME NEW level \in FeatureLevel
  PROVE  toFeatureLevel(fromFeatureLevel(level), unknown) = level
<1>1. fromFeatureLevel(level) \notin {"Beta", "RELEASED"}
  BY DEF fromFeatureLevel, InternalLevel, ExperimentalLevel, BetaLevel,
         ReleasedLevel, UnknownLevel
<1>2. ToLower(fromFeatureLevel(level)) = fromFeatureLevel(level)
  BY <1>1 DEF ToLower
<1> QED
  BY <1>2 DEF toFeatureLevel, fromFeatureLevel, InternalLevel,
     ExperimentalLevel, BetaLevel, ReleasedLevel, UnknownLevel

(* A level that is in the set and above all others is the highest.         *)
LEMMA HighestIsUnique ==
  ASSUME NEW levels \in SUBSET FeatureLevel, NEW top \in levels,
         \A other \in levels : other <= top
  PROVE  HighestLevel(levels) = top
<1>1. \A level \in levels :
        (\A other \in levels : other <= level) => level = top
  OBVIOUS
<1> QED
  BY <1>1 DEF HighestLevel

-----------------------------------------------------------------------------
(* One more strategy adds at most its own level.                           *)

LEMMA NoStrategyNoLevel ==
  ASSUME NEW isInternal
  PROVE  RetainedLevels(<< >>, isInternal) = {unknown}
BY DEF RetainedLevels

LEMMA OneMoreStrategy ==
  ASSUME NEW strategies \in Seq(Strategy), NEW k \in DOMAIN strategies,
         NEW isInternal
  PROVE  RetainedLevels(SubSeq(strategies, 1, k), isInternal) =
           RetainedLevels(SubSeq(strategies, 1, k - 1), isInternal)
           \union (IF Retained(strategies[k], isInternal)
                   THEN {toFeatureLevel(strategies[k].level, unknown)}
                   ELSE {})
<1> DEFINE now == SubSeq(strategies, 1, k)
           before == SubSeq(strategies, 1, k - 1)
<1>1. /\ DOMAIN now = 1 .. k /\ DOMAIN before = 1 .. k - 1
      /\ \A i \in 1 .. k : now[i] = strategies[i]
      /\ \A i \in 1 .. k - 1 : before[i] = strategies[i]
  OBVIOUS
<1> HIDE DEF now, before
<1>2. ASSUME NEW level, NEW list
      PROVE  level \in RetainedLevels(list, isInternal) <=>
               \/ level = unknown
               \/ \E i \in DOMAIN list :
                    /\ Retained(list[i], isInternal)
                    /\ level = toFeatureLevel(list[i].level, unknown)
  BY DEF RetainedLevels
<1>3. ASSUME NEW level
      PROVE  level \in RetainedLevels(now, isInternal) <=>
               \/ level \in RetainedLevels(before, isInternal)
               \/ /\ Retained(strategies[k], isInternal)
                  /\ level = toFeatureLevel(strategies[k].level, unknown)
  <2>1. 1 .. k = (1 .. k - 1) \union {k}
    OBVIOUS
  <2>2. level \in RetainedLevels(now, isInternal) <=>
          \/ level = unknown
          \/ \E i \in 1 .. k :
               /\ Retained(strategies[i], isInternal)
               /\ level = toFeatureLevel(strategies[i].level, unknown)
    BY <1>1, <1>2
  <2>3. level \in RetainedLevels(before, isInternal) <=>
          \/ level = unknown
          \/ \E i \in 1 .. k - 1 :
               /\ Retained(strategies[i], isInternal)
               /\ level = toFeatureLevel(strategies[i].level, unknown)
    BY <1>1, <1>2
  <2> QED
    BY <2>1, <2>2, <2>3
<1>4. RetainedLevels(now, isInternal) =
        RetainedLevels(before, isInternal)
        \union (IF Retained(strategies[k], isInternal)
                THEN {toFeatureLevel(strategies[k].level, unknown)}
                ELSE {})
  BY <1>3
<1> QED
  BY <1>4 DEF now, before

LEMMA RetainedAreLevels ==
  ASSUME NEW strategies, NEW isInternal
  PROVE  RetainedLevels(strategies, isInternal) \in SUBSET FeatureLevel
BY LevelOfText DEF RetainedLevels

-----------------------------------------------------------------------------
(* The inductive invariant: besides LoopInv, the loop is entered only for  *)
(* an enabled feature with strategies, and the result is set only by the   *)
(* last step.                                                              *)
IInv ==
  /\ TypeOK
  /\ LoopInv
  /\ pc # "done" => result = UnknownLevel
  /\ pc = "loop" => setting.enabled /\ setting.strategies # << >>
  /\ LoopComputesLevel

LEMMA StrategiesTyped ==
  TypeOK => setting.strategies \in Seq(Strategy)
BY SettingsAssumption DEF TypeOK, Setting

LEMMA InitInv == Init => IInv
<1> SUFFICES ASSUME Init PROVE IInv
  OBVIOUS
<1>1. TypeOK
  <2>1. setting.strategies \in Seq(Strategy)
    BY SettingsAssumption DEF Init, Setting
  <2> QED
    BY <2>1 DEF Init, TypeOK, LevelName
<1>2. Visited = << >>
  BY StrategiesTyped, <1>1 DEF Init, Visited
<1> QED
  BY <1>1, <1>2, NoStrategyNoLevel DEF Init, IInv, LoopInv, LoopComputesLevel

LEMMA StartInv == IInv /\ Start => IInv'
<1> SUFFICES ASSUME IInv, Start PROVE IInv'
  OBVIOUS
<1>1. setting.strategies \in Seq(Strategy)
  BY StrategiesTyped DEF IInv
<1>2. TypeOK' /\ LoopInv'
  BY DEF IInv, Start, TypeOK, LoopInv, Visited
<1> QED
  BY <1>1, <1>2 DEF IInv, Start, LoopComputesLevel, ComputeEnablementLevel

LEMMA IterateInv == IInv /\ Iterate => IInv'
<1> SUFFICES ASSUME IInv, Iterate PROVE IInv'
  OBVIOUS
<1> DEFINE s == setting.strategies[next]
           level == toFeatureLevel(s.level, unknown)
<1>1. /\ setting.strategies \in Seq(Strategy)
      /\ next \in DOMAIN setting.strategies
  BY StrategiesTyped DEF IInv, Iterate, TypeOK
<1>2. level \in FeatureLevel /\ enablementLevel \in FeatureLevel
  BY LevelOfText DEF IInv, TypeOK
<1>3. enablementLevel' =
        IF Retained(s, internalUser) /\ level > enablementLevel
        THEN level ELSE enablementLevel
  BY DEF Iterate, Keep, Retained, IInv, TypeOK
<1>4. RetainedLevels(Visited, internalUser)' =
        RetainedLevels(Visited, internalUser)
        \union (IF Retained(s, internalUser) THEN {level} ELSE {})
  <2>1. Visited' = SubSeq(setting.strategies, 1, next)
    BY <1>1 DEF Iterate, Visited, IInv, TypeOK
  <2> QED
    BY <1>1, <2>1, OneMoreStrategy DEF Iterate, Visited
<1>5. LoopInv'
  BY <1>2, <1>3, <1>4, RetainedAreLevels DEF IInv, LoopInv
<1>6. TypeOK'
  BY <1>1, <1>2, <1>3 DEF IInv, Iterate, TypeOK
<1> QED
  BY <1>5, <1>6 DEF IInv, Iterate, LoopComputesLevel

LEMMA FinishInv == IInv /\ Finish => IInv'
<1> SUFFICES ASSUME IInv, Finish PROVE IInv'
  OBVIOUS
<1>1. setting.strategies \in Seq(Strategy)
  BY StrategiesTyped DEF IInv
<1>2. Visited = setting.strategies
  BY <1>1 DEF IInv, Finish, TypeOK, Visited
<1>3. HighestLevel(RetainedLevels(setting.strategies, internalUser))
        = enablementLevel
  BY <1>2, HighestIsUnique, RetainedAreLevels DEF IInv, LoopInv
<1>4. TypeOK' /\ LoopInv'
  BY NameOfLevel DEF IInv, Finish, TypeOK, LoopInv, Visited
<1>5. LoopComputesLevel'
  BY <1>3 DEF IInv, Finish, LoopComputesLevel, ComputeEnablementLevel
<1> QED
  BY <1>4, <1>5 DEF IInv, Finish

(* The inductive invariant: the types, what the loop has found so far, and *)
(* what it returns, for every list of strategies.                          *)
THEOREM LoopInvariant == Spec => []IInv
<1>1. IInv /\ UNCHANGED vars => IInv'
  BY DEF IInv, TypeOK, LoopInv, Visited, LoopComputesLevel, vars
<1>2. IInv /\ [Next]_vars => IInv'
  BY <1>1, StartInv, IterateInv, FinishInv DEF Next
<1> QED
  BY <1>2, InitInv, PTL DEF Spec

(* The variables of the loop keep their types: the level is always one of  *)
(* the five, the index never leaves the list by more than one.             *)
THEOREM LoopTypeCorrect == Spec => []TypeOK
<1>1. IInv => TypeOK
  BY DEF IInv
<1> QED
  BY <1>1, LoopInvariant, PTL

(* After each strategy, `enablementLevel' is the highest of the levels     *)
(* retained so far (enablement_level.go:19-46).                            *)
THEOREM LoopKeepsTheHighest == Spec => []LoopInv
<1>1. IInv => LoopInv
  BY DEF IInv
<1> QED
  BY <1>1, LoopInvariant, PTL

(* ComputeEnablementLevel returns the highest level retained.              *)
THEOREM LoopIsCorrect == Spec => []LoopComputesLevel
<1>1. IInv => LoopComputesLevel
  BY DEF IInv
<1> QED
  BY <1>1, LoopInvariant, PTL

-----------------------------------------------------------------------------
(* A strategy without a level has none.                                    *)
LEMMA NoTextIsNoLevel == toFeatureLevel(NoText, unknown) = unknown
<1>1. NoText \notin {"Beta", "RELEASED"}
  BY DEF NoText
<1>2. ToLower(NoText) = NoText
  BY <1>1 DEF ToLower
<1> QED
  BY <1>2 DEF toFeatureLevel, NoText, InternalLevel, ExperimentalLevel,
     BetaLevel, ReleasedLevel

(* FeatureLevel.IsEnabled asks for the level the user has opted in to.     *)
LEMMA OptedInIsAsked ==
  ASSUME NEW userLevel
  PROVE  toFeatureLevel(userLevel, released) = OptedIn(userLevel)
BY DEF toFeatureLevel, OptedIn

(* Whom the level strategies let in, told from the highest level retained. *)
LEMMA HighestDecides ==
  ASSUME TypeOK, NEW userLevel,
         result = ComputeEnablementLevel(setting, internalUser)
  PROVE  LetInByLevel(userLevel)
           <=> \/ toFeatureLevel(result, unknown) >= OptedIn(userLevel)
               \/ LetInUnshown(userLevel)
<1> DEFINE strategies == setting.strategies
           levels     == RetainedLevels(strategies, internalUser)
           asked      == OptedIn(userLevel)
<1>1. /\ strategies \in Seq(Strategy)
      /\ asked \in internal .. released
      /\ asked = toFeatureLevel(userLevel, released)
  BY StrategiesTyped, UserLevelIsKnown, OptedInIsAsked
<1> HIDE DEF asked
<1>2. CASE ~setting.enabled \/ strategies = << >>
  <2>1. ~LetInByLevel(userLevel) /\ ~LetInUnshown(userLevel)
    BY <1>2 DEF LetInByLevel, LetInUnshown
  <2>2. toFeatureLevel(UnknownLevel, unknown) = unknown
    BY LevelRoundTrip DEF fromFeatureLevel
  <2>3. result = UnknownLevel
    BY <1>2 DEF ComputeEnablementLevel
  <2>4. ~(toFeatureLevel(result, unknown) >= asked)
    BY <1>1, <2>2, <2>3
  <2> QED
    BY <2>1, <2>4 DEF asked
<1>3. CASE setting.enabled /\ strategies # << >>
  <2>1. levels \in SUBSET FeatureLevel /\ unknown \in levels
    BY RetainedAreLevels DEF RetainedLevels
  <2>2. PICK top \in levels : \A other \in levels : other <= top
    BY <2>1
  <2>3. result = fromFeatureLevel(top)
    BY <1>3, <2>1, <2>2, HighestIsUnique DEF ComputeEnablementLevel
  <2>4. toFeatureLevel(result, unknown) = top
    BY <2>1, <2>3, LevelRoundTrip
  <2>5. ASSUME NEW i \in DOMAIN strategies, Retained(strategies[i], internalUser)
        PROVE  toFeatureLevel(strategies[i].level, unknown) \in levels
    BY <2>5 DEF RetainedLevels
  <2>6. ASSUME LetInByLevel(userLevel), ~(top >= asked)
        PROVE  LetInUnshown(userLevel)
    <3>1. PICK i \in DOMAIN strategies :
            /\ strategies[i].name = EnableByLevel
            /\ strategies[i].level # NoText
            /\ toFeatureLevel(strategies[i].level, unknown) >= asked
      BY <1>1, <2>6 DEF LetInByLevel, LevelIsEnabled
    <3> DEFINE level == toFeatureLevel(strategies[i].level, unknown)
    <3>2. level \in FeatureLevel
      BY LevelOfText
    <3> HIDE DEF level
    <3>3. ~Retained(strategies[i], internalUser)
      BY <1>1, <2>1, <2>2, <2>5, <2>6, <3>1, <3>2 DEF level
    <3>4. ~internalUser /\ level = internal
      BY <3>1, <3>3 DEF Retained, level
    <3>5. asked = internal /\ top = unknown
      BY <1>1, <2>1, <2>6, <3>1, <3>4 DEF level
    <3>6. result = UnknownLevel
      BY <2>3, <3>5 DEF fromFeatureLevel
    <3> QED
      BY <1>3, <3>1, <3>4, <3>5, <3>6 DEF LetInUnshown, level, asked
  <2>7. ASSUME top >= asked PROVE LetInByLevel(userLevel)
    <3>1. top # unknown
      BY <1>1, <2>1, <2>7
    <3>2. PICK i \in DOMAIN strategies :
            /\ Retained(strategies[i], internalUser)
            /\ top = toFeatureLevel(strategies[i].level, unknown)
      BY <2>2, <3>1 DEF RetainedLevels
    <3> QED
      BY <1>1, <1>3, <2>7, <3>2 DEF Retained, LetInByLevel, LevelIsEnabled
  <2>8. ASSUME LetInUnshown(userLevel) PROVE LetInByLevel(userLevel)
    <3>1. PICK i \in DOMAIN strategies :
            /\ strategies[i].name = EnableByLevel
            /\ toFeatureLevel(strategies[i].level, unknown) = internal
      BY <2>8 DEF LetInUnshown
    <3>2. strategies[i].level # NoText
      BY <3>1, NoTextIsNoLevel
    <3>3. asked = internal
      BY <2>8 DEF LetInUnshown, asked
    <3> QED
      BY <1>1, <1>3, <3>1, <3>2, <3>3 DEF LetInByLevel, LevelIsEnabled
  <2> QED
    BY <2>4, <2>6, <2>7, <2>8 DEF asked
<1> QED
  BY <1>2, <1>3

(* Which users the level strategies let in follows from the level that     *)
(* ComputeEnablementLevel returns: those whose own level it reaches, and   *)
(* external users with an internal profile, to whom an internal strategy   *)
(* is open although no level is shown to them                              *)
(* (toggles_client_wrapper.go:178-187).                                    *)
THEOREM LevelIsDecisive == Spec => []LevelDecides
<1>1. IInv => LevelDecides
  BY HighestDecides DEF IInv, LoopComputesLevel, LevelDecides
<1> QED
  BY <1>1, LoopInvariant, PTL
=============================================================================
