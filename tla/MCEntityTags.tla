---------------------------- MODULE MCEntityTags ----------------------------
(***************************************************************************)
(* An instance of TogglesService in which SeparatorsAreFree does not hold: *)
(* somebody pastes into the description of feature a what the service      *)
(* hashes for a list of it and a feature a.b.                              *)
(***************************************************************************)
EXTENDS TogglesService, TLC

MCEmail == {}

SwitchedOff(description) ==
  [description |-> description, enabled |-> FALSE, strategies |-> << >>]

A  == <<"a">>
AB == <<"a", ".", "b">>
TwoNames == {A, AB}
MCRank   == (A :> 1) @@ (AB :> 2)

First  == <<"x">>
Second == <<"y">>

EntityOf(n, description) ==
  [name |-> n, description |-> description, enabled |-> FALSE,
   userEnabled |-> FALSE, enablementLevel |-> UnknownLevel]

(* The tag text of a list of two, without the name it starts with and the  *)
(* values after the last description.                                      *)
BothTagged == GenerateEntitiesTag(<<EntityOf(A, First), EntityOf(AB, Second)>>)
Values     == Len(generateETagValue(EntityOf(A, First))) - Len(A) - Len(First) - 1
Pasted     == SubSeq(BothTagged, Len(A) + 2, Len(BothTagged) - Values)

MCDescription == {First, Second, Pasted}
MCSettings    == {SwitchedOff(d) : d \in MCDescription}

GroupQuery ==
  [feature |-> Missing, group |-> A, names |-> Missing, strategy |-> Missing]
OneQuery == {GroupQuery}

-----------------------------------------------------------------------------
(* generator.go:293, "ConditionalEntities checks if the entities to return *)
(* changed since the client's last call and returns a "304 Not Modified"   *)
(* response": a caller that is told so has, in its cache, the answer that  *)
(* it would have been sent (generator.go:254-272).                         *)
NotModifiedMeansUnchanged ==
  \A c \in Caller :
    reply[c].status = NotModified =>
      cache[c][request[c].query].body \in
        Bodies(request[c].query, Promised(c, user[c]))
=============================================================================
