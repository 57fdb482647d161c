--------------------------- MODULE FeatureAnswers ---------------------------
(***************************************************************************)
(* Questions about features and the answers a toggles client may give,     *)
(* from one content of the toggles server or from several in a row.        *)
(*                                                                         *)
(* Sources: featuretoggles/toggles_client_wrapper.go and user_feature.go,  *)
(* and the unleash client library as they use it.  No state.               *)
(***************************************************************************)
EXTENDS FeatureLevels, FiniteSets

CONSTANTS
  Name,         \* names of features: sequences of characters
  Settings,     \* what an administrator can configure for a feature
  Absent        \* no feature of that name is configured

ASSUME FeaturesAssumption ==
  /\ Name \subseteq Seq(STRING)
  /\ Settings \subseteq Setting
  /\ Absent \notin Settings

Method == {"GetFeature", "GetFeaturesByName", "GetFeaturesByPattern",
           "GetFeaturesByStrategy"}

(* `names' holds the one name of GetFeature, the list of names, or the     *)
(* pattern; `strategy' matters to GetFeaturesByStrategy only.              *)
Call == [method : Method, names : Seq(Name), strategy : StrategyName,
         user : User]

-----------------------------------------------------------------------------
(* The content of the server or of the repository at one time.             *)

Version == [Name -> Settings \union {Absent}]

Configured(version) == {n \in Name : version[n] # Absent}

(* unleashapi.Feature: a copy, detached from the repository.               *)
Feature(version, n) == [name |-> n, setting |-> version[n]]

(* The regular expression built from a pattern p as it comes: p alone, or  *)
(* p, a dot and anything.  A dot of p is not quoted, so it stands for any  *)
(* character; names and patterns hold no other special character.          *)
Matches(pattern, n) ==
  /\ Len(pattern) <= Len(n)
  /\ \A i \in DOMAIN pattern : pattern[i] \in {".", n[i]}
  /\ Len(n) = Len(pattern) \/ n[Len(pattern) + 1] = "."

HasStrategy(setting, strategy) ==
  \E i \in DOMAIN setting.strategies : setting.strategies[i].name = strategy

(* The features a call is after.                                           *)
Selected(version, call) ==
  {n \in Configured(version) :
     CASE call.method = "GetFeaturesByPattern"  -> Matches(call.names[1], n)
       [] call.method = "GetFeaturesByStrategy" ->
            HasStrategy(version[n], call.strategy)
       [] OTHER -> \E i \in DOMAIN call.names : call.names[i] = n}

(* UnleashClient.IsEnabled (external) asks its own repository, by name. *)
IsEnabled(version, n, user) ==
  version[n] # Absent /\ UnleashIsEnabled(version[n], user)

Panics(version, n, user) ==
  version[n] # Absent /\ UnleashPanics(version[n], user)

UserFeature(f, userEnabled, enablementLevel) ==
  [name |-> f.name, description |-> f.setting.description,
   enabled |-> f.setting.enabled, userEnabled |-> userEnabled,
   enablementLevel |-> enablementLevel]

Entry == [name : Name, description : Description, enabled : BOOLEAN,
          userEnabled : BOOLEAN, enablementLevel : LevelName]

ASSUME AbsentAssumption == Absent \notin Entry

(* toUserFeature with a ready client: the feature is the copy f, the       *)
(* enablement level is computed from the copy, the user's enablement is    *)
(* asked of the repository as it is now.                                   *)
toUserFeature(f, version, user) ==
  UserFeature(f, IsEnabled(version, f.name, user),
              ComputeEnablementLevel(f.setting, InternalUser(user)))

(* Switched on with a level strategy that has no level: to ask whether     *)
(* such a feature is enabled may panic.                                    *)
Misconfigured(setting) ==
  /\ setting.enabled
  /\ \E i \in DOMAIN setting.strategies :
       /\ setting.strategies[i].name = EnableByLevel
       /\ setting.strategies[i].level = NoText

-----------------------------------------------------------------------------
(* What a client promises.  `versions' are the contents of the server in   *)
(* their order; an answer given between lo and hi is taken from those.     *)

(* An entry for n: the feature of one version, its enablement of the same  *)
(* or a later one.                                                         *)
Accounts(versions, n, user, lo, hi) ==
  UNION {{toUserFeature(Feature(versions[s], n), versions[e], user) :
            e \in s .. hi} :
         s \in {v \in lo .. hi : n \in Configured(versions[v])}}

(* A selection comes from one version: each feature selected in it has one *)
(* entry, in any order.                                                    *)
IsSelection(list, versions, call, lo, hi) ==
  \E s \in lo .. hi :
    /\ {list[i].name : i \in DOMAIN list} = Selected(versions[s], call)
    /\ \A i, j \in DOMAIN list : list[i].name = list[j].name => i = j
    /\ \A i \in DOMAIN list : \E e \in s .. hi :
         list[i] = toUserFeature(Feature(versions[s], list[i].name),
                                 versions[e], call.user)

(* A look-up answers in the order of the names, and leaves one out only if *)
(* some version lacks it.                                                  *)
Found(answers) ==
  LET found[k \in 0 .. Len(answers)] ==
        IF k = 0 THEN << >>
        ELSE IF answers[k] = Absent THEN found[k - 1]
        ELSE Append(found[k - 1], answers[k])
  IN  found[Len(answers)]

IsLookUp(list, versions, call, lo, hi) ==
  \E answers \in [DOMAIN call.names ->
                   {list[i] : i \in DOMAIN list} \union {Absent}] :
    /\ list = Found(answers)
    /\ \A i \in DOMAIN call.names :
         IF answers[i] = Absent
         THEN \E s \in lo .. hi : call.names[i] \notin Configured(versions[s])
         ELSE answers[i] \in
                Accounts(versions, call.names[i], call.user, lo, hi)

Selects(call) ==
  call.method \in {"GetFeaturesByPattern", "GetFeaturesByStrategy"}

IsAnswer(list, versions, call, lo, hi) ==
  IF Selects(call) THEN IsSelection(list, versions, call, lo, hi)
                   ELSE IsLookUp(list, versions, call, lo, hi)

=============================================================================
