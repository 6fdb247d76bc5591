---------------------------- MODULE MCFastImages ----------------------------
(***************************************************************************)
(* The images of the main thread for model checking: frames of two sizes,  *)
(* regions inside of one of them or of both, and one or two values of each *)
(* setting.                                                                *)
(***************************************************************************)
EXTENDS FastImagesProperties

Small == <<2, 2>>
Large == <<3, 3>>
SmallAndLarge == {Small, Large}
OnlySmall == {Small}
SomeRegions == {<<0, 1, 2, 2>>}
=============================================================================
