------------------------------ MODULE MCIntake ------------------------------
(***************************************************************************)
(* A small instance of Intake for TLC.                                     *)
(***************************************************************************)
EXTENDS Intake

CONSTANTS x, y, nourl, nopath, noid, junk

TwoVideos == {x, y}

F(id, vcodec, acodec, ext) == [id |-> id, vcodec |-> vcodec, acodec |-> acodec, ext |-> ext]

\* Separate streams, a combined one, and an entry that cannot be selected;
\* later, another audio stream.  The other video has no audio of its own.
Rich == {F("137", "avc1", "none", "mp4"), F("140", "none", "mp4a", "m4a"),
         F("18", "avc1", "mp4a", "mp4"), F(noid, "missing", "missing", "webm")}
OtherAudio == {F("137", "avc1", "none", "mp4"), F("251", "none", "opus", "webm")}
Plain == {F("136", "avc1", "none", "mp4"), F("22", "avc1", "mp4a", "mp4")}

TwoOffers == (x :> {Rich, OtherAudio}) @@ (y :> {Plain})

OnePage == {<<y, x>>}

S(video, audio) == [video |-> video, audio |-> audio, bitrate |-> FALSE]

\* A text of sources, repeated fields with a gap, and a broken index.
ThreeScripts == {
  [form  |-> [EmptyForm EXCEPT !.sources = <<x, x, y>>],
   asked |-> <<Payload(x, "none", NoSelection), Payload(y, "none", NoSelection)>>],
  [form  |-> [EmptyForm EXCEPT !.urls = <<nourl, y, x>>,
                               !.durations = <<"fraction", "whole">>,
                               !.videoIds = <<noid, "137">>,
                               !.audioIds = <<noid, noid, "140">>],
   asked |-> <<Payload(y, "whole", S("137", noid)), Payload(x, "none", S(noid, "140"))>>],
  [form  |-> [EmptyForm EXCEPT !.selected = <<junk>>, !.sources = <<x>>],
   asked |-> <<>>]}

NoReports == {0}
NoPaths == {}
=============================================================================
