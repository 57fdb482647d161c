-------------------------- MODULE MCTogglesService --------------------------
(* Small instances of TogglesService, of the parts of those of the         *)
(* controller.                                                             *)
EXTENDS TogglesService, MCFeaturesController

LevelSettings == {BetaOn, NoLevel}
=============================================================================
