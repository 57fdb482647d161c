---------------------------- MODULE ComputeLevel -----------------------------
(***************************************************************************)
(* ComputeEnablementLevel (featuretoggles/enablement_level.go) as the loop *)
(* it is: one pass over the strategies of a feature that keeps the highest *)
(* level met so far.  The properties say that the level it returns is the  *)
(* one that decides whether the feature is enabled for a user.             *)
(***************************************************************************)
EXTENDS FeatureLevels

CONSTANT Settings   \* the features the function is called with

ASSUME SettingsAssumption == Settings \subseteq Setting

VARIABLES
  setting,          \* argument: the feature
  internalUser,     \* argument
  next,             \* index of the next strategy of the range loop
  enablementLevel,  \* highest level retained so far
  result,           \* the returned name
  pc

vars == <<setting, internalUser, next, enablementLevel, result, pc>>

TypeOK ==
  /\ setting \in Settings
  /\ internalUser \in BOOLEAN
  /\ next \in 1 .. Len(setting.strategies) + 1
  /\ enablementLevel \in FeatureLevel
  /\ result \in LevelName
  /\ pc \in {"start", "loop", "done"}

Init ==
  /\ setting \in Settings
  /\ internalUser \in BOOLEAN
  /\ next = 1
  /\ enablementLevel = unknown
  /\ result = UnknownLevel
  /\ pc = "start"

Start ==
  /\ pc = "start"
  /\ pc' = IF ~setting.enabled \/ Len(setting.strategies) = 0
           THEN "done" ELSE "loop"
  /\ UNCHANGED <<setting, internalUser, next, enablementLevel, result>>

(* Mistakes: the last level wins instead of the highest; the internal      *)
(* level is retained for everybody.                                        *)
Keep_Last(s, level) ==
  LET featureLevel == toFeatureLevel(s.level, unknown)
  IN  IF /\ s.name = EnableByLevel
         /\ s.level # NoText
         /\ internalUser \/ (~internalUser /\ featureLevel # internal)
      THEN featureLevel
      ELSE level

Keep_ForAll(s, level) ==
  LET featureLevel == toFeatureLevel(s.level, unknown)
  IN  IF s.name = EnableByLevel /\ s.level # NoText /\ featureLevel > level
      THEN featureLevel
      ELSE level

(* The level that one pass through the body leaves behind.                 *)
Keep(s, level) ==
  LET featureLevel == toFeatureLevel(s.level, unknown)
  IN  IF /\ s.name = EnableByLevel
         /\ s.level # NoText
         /\ featureLevel > level
         /\ internalUser \/ (~internalUser /\ featureLevel # internal)
      THEN featureLevel
      ELSE level

Iterate ==
  /\ pc = "loop"
  /\ next <= Len(setting.strategies)
  /\ enablementLevel' = Keep(setting.strategies[next], enablementLevel)
  /\ next' = next + 1
  /\ UNCHANGED <<setting, internalUser, result, pc>>

Finish ==
  /\ pc = "loop"
  /\ next > Len(setting.strategies)
  /\ result' = fromFeatureLevel(enablementLevel)
  /\ pc' = "done"
  /\ UNCHANGED <<setting, internalUser, next, enablementLevel>>

Next == Start \/ Iterate \/ Finish

Spec == Init /\ [][Next]_vars

-----------------------------------------------------------------------------
(* The part of the range the loop of enablement_level.go:44 has behind it. *)
Visited == SubSeq(setting.strategies, 1, next - 1)

(* The loop invariant: what ComputeEnablementLevel keeps in                *)
(* enablementLevel is the highest level retained among the strategies      *)
(* already visited.                                                        *)
LoopInv ==
  /\ enablementLevel \in RetainedLevels(Visited, internalUser)
  /\ \A level \in RetainedLevels(Visited, internalUser) :
       level <= enablementLevel

(* The loop of enablement_level.go returns the highest retained level, in  *)
(* whatever order the strategies come: the closed form that the other      *)
(* modules use.                                                            *)
LoopComputesLevel ==
  pc = "done" => result = ComputeEnablementLevel(setting, internalUser)

(* What the level strategies make of a user, whoever it is: the profile is *)
(* all that isFeatureEnabled hands to them (toggles_client_wrapper.go:178).*)
LetInByLevel(userLevel) ==
  /\ setting.enabled
  /\ \E i \in DOMAIN setting.strategies :
       LET s == setting.strategies[i]
       IN  /\ s.name = EnableByLevel
           /\ s.level # NoText
           /\ LevelIsEnabled(toFeatureLevel(s.level, unknown), userLevel)

(* The level a user has opted in to; a word that is no level, an empty one *)
(* or `unknown' itself is no opt-in at all.                                *)
OptedIn(userLevel) ==
  LET level == toFeatureLevel(userLevel, unknown)
  IN  IF level = unknown THEN released ELSE level

(* An external user whose profile says `internal' is let in by a strategy  *)
(* for internal users, which ComputeEnablementLevel does not show to him.  *)
LetInUnshown(userLevel) ==
  /\ ~internalUser
  /\ OptedIn(userLevel) = internal
  /\ result = UnknownLevel
  /\ setting.enabled
  /\ \E i \in DOMAIN setting.strategies :
       /\ setting.strategies[i].name = EnableByLevel
       /\ toFeatureLevel(setting.strategies[i].level, unknown) = internal

(* Which users the level strategies let in, told from the level returned:  *)
(* those who opted in to it or to a more cautious one, and nobody else     *)
(* (enablement_level.go:36, "the enablement level required to be able to   *)
(* use the given feature"), except for the external users above, who get   *)
(* in without it.  So for an internal user, and for an external one to     *)
(* whom some level is shown, the level returned is the one that decides.   *)
(* And a user whose level is not in the list needs a released feature,     *)
(* although the comment at toggles_client_wrapper.go:172 has such a level  *)
(* count as `unknown', which would let him in everywhere.                  *)
LevelDecides ==
  pc = "done" =>
    \A userLevel \in LevelText :
      LetInByLevel(userLevel)
        <=> \/ toFeatureLevel(result, unknown) >= OptedIn(userLevel)
            \/ LetInUnshown(userLevel)
=============================================================================
