---------------------------- MODULE MCDownloader ----------------------------
(***************************************************************************)
(* Small instances of Downloader for TLC.                                  *)
(***************************************************************************)
EXTENDS Downloader

CONSTANTS none

TwoLanguages == {"en", "vi"}
ThreeReports == {-1, 50, 140}
TwoTitles == {{}, {"private"}}

AnyLeftovers == SUBSET {"output", "en", "vi"}
NoLeftovers == {{}}
=============================================================================
