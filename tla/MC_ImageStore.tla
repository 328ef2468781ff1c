---------------------------- MODULE MC_ImageStore ----------------------------
(* Three uploads, at least two of them of the same menu, can overlap in all  *)
(* ways; one download reads while they do; two steps fail.  A client may     *)
(* register either menu with no picture, with a name that no file has, or    *)
(* with the path of the other menu.                                          *)
EXTENDS ImageStore, TLC
CONSTANTS m1, m2, up1, up2, up3, down1, stray1
MCMenus     == {m1, m2}
MCUploads   == {up1, up2, up3}
MCDownloads == {down1}
MCStrays    == {stray1}
MCSymmetry  == Permutations(MCMenus) \cup Permutations(MCUploads)
=============================================================================
