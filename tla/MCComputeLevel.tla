--------------------------- MODULE MCComputeLevel ----------------------------
(***************************************************************************)
(* Every feature with up to three strategies out of seven that differ in   *)
(* what the loop looks at: four levels, a word that is no level, no level  *)
(* at all, and a strategy that carries a level but is not by level.        *)
(***************************************************************************)
EXTENDS ComputeLevel

MCEmail == {"ann@redhat.com", "bob@example.com"}
MCRedHatEmail == {"ann@redhat.com"}

MCStrategies ==
  {[name |-> EnableByLevel, level |-> text, emails |-> {}] :
     text \in {InternalLevel, ExperimentalLevel, "Beta", "RELEASED", "foo",
               NoText}}
  \union
  {[name |-> EnableByEmails, level |-> ReleasedLevel,
    emails |-> {[text |-> "bob@example.com", padded |-> TRUE]}]}

MaxStrategies == 3

MCSettings ==
  [description : {"d"}, enabled : BOOLEAN,
   strategies : UNION {[1 .. n -> MCStrategies] : n \in 0 .. MaxStrategies}]
=============================================================================
