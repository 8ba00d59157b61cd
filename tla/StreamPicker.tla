----------------------------- MODULE StreamPicker -----------------------------
(***************************************************************************)
(* The formats of a video, as the picker of a card shows them, and as      *)
(* yt-dlp chooses among them later (app/services/downloader.py, the        *)
(* "streamPicker" component of stream_picker_form.html).                   *)
(*                                                                         *)
(* A format is its id, its codecs and its extension; what only labels a    *)
(* row of the picker (resolution, bitrate, size...) is left out.           *)
(***************************************************************************)
EXTENDS Integers

CONSTANT NoId    \* no format id: none reported, or none picked

Known(codec) == codec \notin {"none", "missing"}

StreamKind(f) ==
  CASE f.vcodec = "none" /\ Known(f.acodec) -> "audio"
    [] f.acodec = "none" /\ Known(f.vcodec) -> "video"
    [] OTHER -> "muxed"

\* normalize_formats: a format without an id cannot be selected.
Normalized(formats) == {f \in formats : f.id # NoId}

IdsOfKind(formats, kind) ==
  {f.id : f \in {g \in Normalized(formats) : StreamKind(g) = kind}}

-----------------------------------------------------------------------------
(* The picker. *)

NoFormat == [id |-> NoId, vcodec |-> "none", acodec |-> "none", ext |-> "unknown"]

Format(formats, id) ==
  IF id = NoId THEN NoFormat ELSE CHOOSE f \in formats : f.id = id

\* The containers the MP4 muxer can ingest without remuxing.
FitsMp4(video, audio) ==
  /\ video.ext = "mp4" /\ video.vcodec \in {"avc1", "av01"}
  /\ audio.ext \in {"m4a", "mp4"} /\ audio.acodec = "mp4a"

InferExpectedContainer(video, audio) ==
  CASE video.id = NoId -> audio.ext
    [] video.id # NoId /\ audio.id = NoId -> video.ext
    [] OTHER -> IF FitsMp4(video, audio) THEN "mp4" ELSE "mkv"

ContainersOfPairs(formats) ==     \* mutant: without the "|id" and "id|" keys
  [pair \in IdsOfKind(formats, "video") \X IdsOfKind(formats, "audio") |->
     InferExpectedContainer(Format(formats, pair[1]), Format(formats, pair[2]))]

\* expected_container_by_pair, the pairs with nothing on a side included.
ExpectedContainerByPair(formats) ==
  [pair \in (IdsOfKind(formats, "video") \cup {NoId})
              \X (IdsOfKind(formats, "audio") \cup {NoId}) |->
     InferExpectedContainer(Format(formats, pair[1]), Format(formats, pair[2]))]

\* selectVideo, selectAudio: a second click takes the choice back.
Toggle(selected, id) == IF selected = id THEN NoId ELSE id

\* expectedContainer(): what the card says below its tables.
ExpectedContainer(formats, video, audio) ==
  LET byPair == ExpectedContainerByPair(formats) IN
  IF <<video, audio>> \in DOMAIN byPair THEN byPair[<<video, audio>>] ELSE "unknown"

-----------------------------------------------------------------------------
(***************************************************************************)
(* The selector of a download: alternatives in the order in which yt-dlp   *)
(* tries them.  Each is the set of stream selections that would satisfy it *)
(* with the formats there are; an empty one is passed over.                *)
(***************************************************************************)
Exactly(ids, formats) ==
  IF ids \subseteq {f.id : f \in formats} THEN {ids} ELSE {}

\* "bestaudio[abr<=b]/bestaudio": some stream that is audio and nothing else.
BestAudio(formats) == {{id} : id \in IdsOfKind(formats, "audio")}

\* External: what yt-dlp takes by default, one stream or two.
YtdlpDefault(formats) ==
  LET Of(kind) == IdsOfKind(formats, kind) IN
  {{id} : id \in Of("video") \cup Of("audio") \cup Of("muxed")}
    \cup {{v, a} : v \in Of("video"), a \in Of("audio")}

SelectorFallsBack(s, formats) ==    \* mutant: ".../best" for every choice
  <<Exactly({s.video, s.audio} \ {NoId}, formats), YtdlpDefault(formats)>>

Selector(s, formats) ==
  CASE s.video = NoId /\ s.audio = NoId -> <<YtdlpDefault(formats)>>
    [] s.video # NoId /\ s.audio # NoId /\ s.bitrate ->
         <<Exactly({s.video, s.audio}, formats), BestAudio(formats)>>
    [] OTHER -> <<Exactly({s.video, s.audio} \ {NoId}, formats)>>

\* External: yt-dlp downloads by the first alternative it can satisfy; with
\* none it raises ("Requested format is not available").
Selections(s, formats) ==
  LET alternatives == Selector(s, formats)
      usable == {n \in DOMAIN alternatives : alternatives[n] # {}}
  IN IF usable = {} THEN {}
     ELSE alternatives[CHOOSE n \in usable : \A k \in usable : n <= k]
=============================================================================
