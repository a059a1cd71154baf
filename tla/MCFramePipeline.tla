-------------------------- MODULE MCFramePipeline --------------------------
(***************************************************************************)
(* Levels and settings for TLC: quiet and loud, and settings that differ in *)
(* the threshold and in the release.                                        *)
(***************************************************************************)
EXTENDS FramePipeline

MCStartup == [threshold |-> 1, release |-> 2]
MCSettings == {MCStartup, [threshold |-> 1, release |-> 0],
               [threshold |-> 3, release |-> 1]}
=============================================================================
