----------------------------- MODULE Transcript -----------------------------
(***************************************************************************)
(* render_transcript_text (app/services/downloader.py): from the lines of  *)
(* an SRT file to the lines of a transcript.  A line is what the code      *)
(* tells apart: blank, digits only, a timestamp, or other text.            *)
(***************************************************************************)
EXTENDS Integers, Sequences, SequencesExt

Kinds == {"blank", "digits", "time", "text"}

Line(raw, i) == IF i \in DOMAIN raw THEN raw[i] ELSE "blank"

EveryNumber(raw, i) == Line(raw, i) = "digits"   \* mutant: no look ahead

\* A number is the index of a cue only if a timestamp follows.
IsCueHead(raw, i) == Line(raw, i) = "digits" /\ Line(raw, i + 1) = "time"

\* The lines kept from line i on: the loop, with `index' as the argument.
Kept(raw) ==
  LET from[i \in 1 .. (Len(raw) + 2)] ==
        CASE i > Len(raw) -> <<>>
          [] IsCueHead(raw, i) -> from[i + 2]
          [] i <= Len(raw) /\ Line(raw, i) \in {"blank", "time"} -> from[i + 1]
          [] OTHER -> <<raw[i]>> \o from[i + 1]
  IN from[1]

-----------------------------------------------------------------------------
(***************************************************************************)
(* External: the files yt-dlp writes.  In an SRT file each cue is a        *)
(* number, a timestamp, its caption lines, which may be numbers            *)
(* themselves, and a blank line.  A VTT file has a header, no numbers, and *)
(* timestamps with a point, which the code takes for text.                 *)
(***************************************************************************)
Cues(header, lead, captions) ==
  header \o FlattenSeq([n \in DOMAIN captions |-> lead \o captions[n] \o <<"blank">>])

SrtFile(captions) == Cues(<<>>, <<"digits", "time">>, captions)

VttFile(captions) == Cues(<<"text", "blank">>, <<"text">>, captions)

SubtitleFile(format, captions) ==
  IF format = "srt" THEN SrtFile(captions) ELSE VttFile(captions)
=============================================================================
