--------------------------- MODULE MCBatchPreview ---------------------------
(***************************************************************************)
(* Small instances of BatchPreview for TLC.                                *)
(***************************************************************************)
EXTENDS BatchPreview

CONSTANTS v1, v2, p1, unusable, unreadable, raises, noturl

TwoVideos == {v1, v2}
OnePlaylist == {p1}
SmallPages == {1, 2}
=============================================================================
