--------------------------- MODULE MCTogglesClient ---------------------------
(***************************************************************************)
(* Small instances of TogglesClient.  The settings are the ones that make  *)
(* a difference to some answer; the users are nobody, an internal user and *)
(* an external one.                                                        *)
(***************************************************************************)
EXTENDS TogglesClient

Ann == "ann@redhat.com"
Bob == "bob@example.com"

MCEmail == {Ann, Bob}
MCRedHatEmail == {Ann}

-----------------------------------------------------------------------------
ByLevel(level) == [name |-> EnableByLevel, level |-> level, emails |-> {}]

ByEmails(emails) ==
  [name |-> EnableByEmails, level |-> NoText,
   emails |-> {[text |-> email, padded |-> TRUE] : email \in emails}]

MCFeature(enabled, strategies) ==
  [description |-> "d", enabled |-> enabled, strategies |-> strategies]

(* A feature at level beta, the same switched off, one for internal users  *)
(* and for bob, one for internal users only, one whose level parameter was *)
(* forgotten, and one with a blank list of addresses.                      *)
BetaOn  == MCFeature(TRUE, <<ByLevel(BetaLevel)>>)
BetaOff == MCFeature(FALSE, <<ByLevel(BetaLevel)>>)
Pilot   == MCFeature(TRUE, <<ByLevel(InternalLevel), ByEmails({Bob})>>)
Inside  == MCFeature(TRUE, <<ByLevel(InternalLevel)>>)
NoLevel == MCFeature(TRUE, <<ByLevel(NoText)>>)
Blank   == MCFeature(TRUE, <<ByEmails({NoEmail})>>)

TwoSettings  == {BetaOn, BetaOff}
FourSettings == {BetaOn, BetaOff, Pilot, NoLevel}
BetaSettings == {BetaOn}
InsideOnly   == {Inside}
BlankOnly    == {Blank}

-----------------------------------------------------------------------------
A  == <<"a">>
AB == <<"a", ".", "b">>
AX == <<"a", "x", "b">>

OneName     == {A}
TwoNames    == {A, AB}
ThreeNames  == {A, AB, AX}

AnnUser == [email |-> Ann, emailVerified |-> TRUE,
            featureLevel |-> InternalLevel]
BobUser == [email |-> Bob, emailVerified |-> TRUE, featureLevel |-> "Beta"]

MCCall(method, names, user) ==
  [method |-> method, names |-> names, strategy |-> EnableByLevel,
   user |-> user]

(* By one name, by two names in either order or the same twice, by pattern *)
(* (with and without a dot) and by strategy.                               *)
Questions(user) ==
  {MCCall("GetFeature", <<A>>, user),
   MCCall("GetFeaturesByName", <<AB, A>>, user),
   MCCall("GetFeaturesByName", <<A, A>>, user),
   MCCall("GetFeaturesByPattern", <<A>>, user),
   MCCall("GetFeaturesByStrategy", << >>, user)}

AnswerCalls ==
  Questions(BobUser) \union
  {MCCall("GetFeaturesByName", <<A, AB>>, AnnUser),
   MCCall("GetFeaturesByPattern", <<A>>, Anonymous)}

(* The pattern with a dot selects the name that has another character      *)
(* there, too.                                                             *)
SelectionCalls ==
  {MCCall("GetFeaturesByPattern", <<A>>, BobUser),
   MCCall("GetFeaturesByPattern", <<AB>>, BobUser),
   MCCall("GetFeaturesByStrategy", << >>, BobUser),
   MCCall("GetFeaturesByName", <<AX, AB>>, BobUser)}

(* Bob, who is external, with `internal' in his profile.                   *)
BobInside == [BobUser EXCEPT !.featureLevel = InternalLevel]

BobCalls       == {MCCall("GetFeature", <<A>>, BobUser)}
InsideCalls    == {MCCall("GetFeature", <<A>>, BobInside)}
AnonymousCalls == {MCCall("GetFeature", <<A>>, Anonymous)}
=============================================================================
