------------------------ MODULE MCFeaturesController ------------------------
(***************************************************************************)
(* Small instances of FeaturesController: two replicas, one caller, a      *)
(* person who opts in to the beta level and one who does not sign in.      *)
(***************************************************************************)
EXTENDS FeaturesController, TLC

(* Of the instances below; MCEntityTags is one where it does not hold.     *)
ASSUME SeparatorAssumption == SeparatorsAreFree

(* Nobody describes a feature as an unknown one.                           *)
ASSUME TextAssumption == UnknownText \notin Description

Bob == "bob@example.com"
MCEmail == {Bob}

ByLevel(level) == [name |-> EnableByLevel, level |-> level, emails |-> {}]

MCFeature(description, enabled, strategies) ==
  [description |-> description, enabled |-> enabled, strategies |-> strategies]

Plain  == <<"d">>
Barred == <<"d", "|", "true">>
MCDescription == {Plain, Barred}

BetaOn  == MCFeature(Plain, TRUE, <<ByLevel(BetaLevel)>>)
BetaOff == MCFeature(Barred, FALSE, <<ByLevel(BetaLevel)>>)
NoLevel == MCFeature(Plain, TRUE, <<ByLevel(NoText)>>)

TwoSettings   == {BetaOn, BetaOff}
ThreeSettings == {BetaOn, BetaOff, NoLevel}

A  == <<"a">>
AB == <<"a", ".", "b">>
OneName  == {A}
TwoNames == {A, AB}
MCRank   == (A :> 1) @@ (AB :> 2)
MCRankOne == (A :> 1)

BetaUser     == [email |-> Bob, emailVerified |-> TRUE, featureLevel |-> BetaLevel]
ReleasedUser == [email |-> Bob, emailVerified |-> TRUE, featureLevel |-> ""]
OneProfile  == {BetaUser}
TwoProfiles == {BetaUser, ReleasedUser}

-----------------------------------------------------------------------------
Show(n) == [feature |-> n, group |-> Missing, names |-> Missing,
            strategy |-> Missing]
List(group, names, strategy) ==
  [feature |-> Missing, group |-> group, names |-> names,
   strategy |-> strategy]

GroupQuery == List(A, Missing, EnableByLevel)
NamesQuery == List(Missing, <<AB, AB>>, Missing)
NoQuery == List(Missing, Missing, Missing)

ListQueries == {GroupQuery, NamesQuery, NoQuery}
ShowQuery   == {Show(A)}
=============================================================================
