---------------------------- MODULE FeatureLevels ----------------------------
(***************************************************************************)
(* The levels of enablement, the two activation strategies and the two     *)
(* questions the service answers about a feature: is it enabled for this   *)
(* user, and which level would the user have to opt in to?                 *)
(*                                                                         *)
(* Sources: featuretoggles/enablement_level.go, enable_by_level_strategy.go*)
(* enable_by_emails_strategy.go and toggles_client_wrapper.go.  No state.  *)
(***************************************************************************)
EXTENDS Integers, Sequences

CONSTANTS
  Email,        \* the addresses that occur in profiles and in strategies
  RedHatEmail,  \* those that end in "@redhat.com"
  Description   \* the descriptions an administrator writes

NoEmail == ""   \* the address of a user who has none, or who is not known

ASSUME EmailAssumption ==
  /\ RedHatEmail \subseteq Email
  /\ NoEmail \notin Email

-----------------------------------------------------------------------------
(* Levels.                                                                 *)

unknown      == 0
internal     == 1
experimental == 2
beta         == 3
released     == 4

FeatureLevel == unknown .. released

InternalLevel     == "internal"
ExperimentalLevel == "experimental"
BetaLevel         == "beta"
ReleasedLevel     == "released"
UnknownLevel      == "unknown"

LevelName ==
  {InternalLevel, ExperimentalLevel, BetaLevel, ReleasedLevel, UnknownLevel}

(* What a strategy or a profile can hold where a level is expected: a name *)
(* in some capitalisation, nothing, or a word that is not a level.         *)
LevelText == LevelName \union {"Beta", "RELEASED", "", "foo"}

ToLower(text) ==
  CASE text = "Beta"     -> BetaLevel
    [] text = "RELEASED" -> ReleasedLevel
    [] OTHER             -> text

toFeatureLevel(text, defaultLevel) ==
  LET word == ToLower(text)
  IN  CASE word = InternalLevel     -> internal
        [] word = ExperimentalLevel -> experimental
        [] word = BetaLevel         -> beta
        [] word = ReleasedLevel     -> released
        [] OTHER                    -> defaultLevel

(* Mistake: the default of the switch is forgotten.                        *)
fromFeatureLevel_NoDefault(level) ==
  CASE level = internal     -> InternalLevel
    [] level = experimental -> ExperimentalLevel
    [] level = beta         -> BetaLevel
    [] level = released     -> ReleasedLevel
    [] OTHER                -> ""

fromFeatureLevel(level) ==
  CASE level = internal     -> InternalLevel
    [] level = experimental -> ExperimentalLevel
    [] level = beta         -> BetaLevel
    [] level = released     -> ReleasedLevel
    [] OTHER                -> UnknownLevel

(* Mistake: the fallback that the comment at toggles_client_wrapper.go:172 *)
(* speaks of.                                                              *)
LevelIsEnabled_Unknown(featureLevel, userLevel) ==
  featureLevel >= toFeatureLevel(userLevel, unknown)

(* FeatureLevel.IsEnabled: a user level that is not a level counts as      *)
(* `released', the most cautious one.                                      *)
LevelIsEnabled(featureLevel, userLevel) ==
  featureLevel >= toFeatureLevel(userLevel, released)

-----------------------------------------------------------------------------
(* Users.  An absent profile, an absent attribute and an empty one are     *)
(* treated alike by isFeatureEnabled; each is written "" (FALSE for the    *)
(* verification flag), so a request without a token is made by Anonymous.  *)

User == [email : Email \union {NoEmail}, emailVerified : BOOLEAN,
         featureLevel : LevelText]

Anonymous == [email |-> NoEmail, emailVerified |-> FALSE, featureLevel |-> ""]

InternalUser(user) == user.emailVerified /\ user.email \in RedHatEmail

UserLevel(user) ==
  IF user.featureLevel = "" THEN ReleasedLevel ELSE user.featureLevel

-----------------------------------------------------------------------------
(* Strategies, as the toggles server delivers them.  `level' is NoText     *)
(* when the parameter is absent or not a string.  `emails' holds what      *)
(* strings.Split returns for the parameter: it is never empty, a blank     *)
(* parameter splits into one blank item; it is {} when the parameter is    *)
(* absent or not a string.                                                 *)

EnableByLevel   == "enableByLevel"
EnableByEmails  == "enableByEmails"
DefaultStrategy == "default"
StrategyName    == {EnableByLevel, EnableByEmails, DefaultStrategy}

NoText == "no text"

Item == [text : Email \union {NoEmail}, padded : BOOLEAN]

TrimSpace(item) == item.text

Strategy == [name : StrategyName, level : LevelText \union {NoText},
             emails : SUBSET Item]

(* unleashapi.Feature without its name.                                    *)
Setting == [description : Description, enabled : BOOLEAN,
            strategies : Seq(Strategy)]

(* EnableByLevelStrategy.IsEnabled converts the parameter to a string      *)
(* without testing that it is one: the conversion panics when it is not.   *)
LevelStrategyPanics(s) == s.name = EnableByLevel /\ s.level = NoText

EnableByLevelIsEnabled(s, user) ==
  /\ s.level # NoText
  /\ LevelIsEnabled(toFeatureLevel(s.level, unknown), UserLevel(user))

EnableByEmailsIsEnabled(s, user) ==
  \E item \in s.emails : user.email = TrimSpace(item)

StrategyIsEnabled(s, user) ==
  \/ s.name = EnableByLevel  /\ EnableByLevelIsEnabled(s, user)
  \/ s.name = EnableByEmails /\ EnableByEmailsIsEnabled(s, user)
  \/ s.name = DefaultStrategy

-----------------------------------------------------------------------------
(* The unleash client's IsEnabled (external): an enabled feature is on for *)
(* a user when one of its strategies accepts the user.  The strategies     *)
(* are asked in order until one accepts, and a panic in one is not caught. *)
(* WithStrategies adds the two strategies of this service to those of the  *)
(* library, of which "default" accepts everybody.                          *)

UnleashIsEnabled(setting, user) ==
  /\ setting.enabled
  /\ \E i \in DOMAIN setting.strategies :
       /\ StrategyIsEnabled(setting.strategies[i], user)
       /\ \A j \in 1 .. i - 1 : ~LevelStrategyPanics(setting.strategies[j])

UnleashPanics(setting, user) ==
  /\ setting.enabled
  /\ \E i \in DOMAIN setting.strategies :
       /\ LevelStrategyPanics(setting.strategies[i])
       /\ \A j \in 1 .. i - 1 : ~StrategyIsEnabled(setting.strategies[j], user)

-----------------------------------------------------------------------------
(* ComputeEnablementLevel.  The loop keeps the highest level its           *)
(* strategies ask for, the internal one only for internal users; module    *)
(* ComputeLevel shows that the loop computes exactly this.                 *)

Retained(s, internalUser) ==
  /\ s.name = EnableByLevel
  /\ s.level # NoText
  /\ toFeatureLevel(s.level, unknown) = internal => internalUser

RetainedLevels(strategies, internalUser) ==
  {unknown} \union
  {toFeatureLevel(strategies[i].level, unknown) :
     i \in {k \in DOMAIN strategies : Retained(strategies[k], internalUser)}}

HighestLevel(levels) ==
  CHOOSE level \in levels : \A other \in levels : other <= level

ComputeEnablementLevel(setting, internalUser) ==
  IF ~setting.enabled \/ setting.strategies = << >>
  THEN UnknownLevel
  ELSE fromFeatureLevel(
         HighestLevel(RetainedLevels(setting.strategies, internalUser)))

=============================================================================
