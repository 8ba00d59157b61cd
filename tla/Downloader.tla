----------------------------- MODULE Downloader -----------------------------
(***************************************************************************)
(* One call of run_download (app/services/downloader.py) and what its      *)
(* caller makes of its end (app/services/job_runner.py), from the outside  *)
(* world's side too: yt-dlp downloads subtitles and streams as files of    *)
(* their own, calls the progress hook for each, merges two streams into    *)
(* one file and removes them, and takes for downloaded what is there       *)
(* already.  That part is external: the code selects "video+audio" and     *)
(* expects "the container yt-dlp is most likely to produce after merging". *)
(*                                                                         *)
(* WorkerPool knows this call only as hook calls that end in a result, an  *)
(* error or a cancellation; here is what happens between.                  *)
(***************************************************************************)
EXTENDS Transcript, ErrorMapper

CONSTANTS
  Languages,   \* subtitles yt-dlp may find
  Reports,     \* what _percent_str may stand for; None: no number in it
  Titles,      \* what a title may have of the phrases of ErrorMapper
  Leftovers,   \* sets of files an earlier call may have left
  None,
  MaxCues, MaxCaption   \* bounds: cues of a subtitle, lines of a cue

ASSUME CuesAssumption == MaxCues \in Nat /\ MaxCaption \in Nat
ASSUME ReportsAssumption == Reports \subseteq Int
ASSUME LanguagesAssumption == IsFiniteSet(Languages)

VARIABLES
  phase,       \* "options", "lookup", "streams", "polled" (in the hook, flag seen
               \* down), "merge", "sidecars", "over"
  todo,        \* files yt-dlp has still to download, in order
  disk,        \* files of this title in the downloads directory
  captured,    \* captured_path: the file of the last "finished" call
  percent,     \* the progress stored last
  asked,       \* has the user asked to cancel?
  subtitles,   \* requested_subtitles still to turn into transcripts
  written,     \* transcripts written
  late,        \* history: progress taken after the user asked to cancel
  outcome,     \* what the caller releases the job with
  wanted,      \* history: all the subtitles that name a file
  cause,       \* history: what made the call fail
  title, merges, format, spoken   \* the title, are there two streams to merge?
                                  \* the format of subtitles, the captions

video == <<title, merges, format, spoken>>
local == <<todo, captured, percent, late, subtitles, written>>
vars == <<phase, disk, asked, outcome, cause, wanted, local, video>>

Streams == IF merges THEN <<"video", "audio">> ELSE <<"output">>

Files == {"video", "audio", "output"} \cup Languages

ASSUME NoneAssumption == None \notin Files
ASSUME LeftoversAssumption == Leftovers \subseteq SUBSET Files

Formats == {"srt", "vtt"}

Speech == BoundedSeq(BoundedSeq({"text", "digits"}, MaxCaption), MaxCues)

Outcome(status) == [status |-> status, code |-> "none", path |-> None, size |-> "none"]

\* Each language is found or not; an entry may lack its "filepath".
Found == {s \in BoundedSeq(Languages \X BOOLEAN, Cardinality(Languages)) :
            \A i, k \in DOMAIN s : s[i][1] = s[k][1] => i = k}

Named(s) == {s[n][1] : n \in {k \in DOMAIN s : s[k][2]}}

Init ==
  /\ subtitles \in Found /\ format \in Formats /\ spoken \in Speech
  /\ title \in Titles /\ merges \in BOOLEAN
  /\ disk \in Leftovers
  /\ phase = "options" /\ todo = <<>> /\ captured = None /\ percent = None
  /\ asked = FALSE /\ late = 0 /\ written = {} /\ cause = "none"
  /\ wanted = Named(subtitles) /\ outcome = Outcome("none")

-----------------------------------------------------------------------------
(***************************************************************************)
(* The ends of a call.  The texts of the site's errors and of the          *)
(* operating system's are external; a file's error names the file, and so  *)
(* the title of the video.                                                 *)
(***************************************************************************)
SiteErrors == [private |-> {"private"}, geo |-> {"not available in your country"},
               forbidden |-> {"403"}, timeout |-> {"timed out"}, unknown |-> {}]

\* "can't decode byte ... in position 403": the text has a number in it.
DecodeErrors == {{}, {"403"}}

DiskErrors == [full |-> {"no space left"}, denied |-> {"permission denied"}, io |-> {}]

Ends(o) ==
  /\ phase' = "over" /\ outcome' = o
  /\ UNCHANGED <<disk, asked, wanted, video>>

\* except Exception as exc: friendly_ytdlp_error(str(exc))
Raises(why, raw) ==
  /\ Ends([Outcome("error") EXCEPT !.code = FriendlyYtdlpError(raw)])
  /\ cause' = why
  /\ UNCHANGED local

\* What yt-dlp says, and what the code makes of a transcript's OSError.
OpenFails ==
  \E why \in DOMAIN DiskErrors :
    Raises(why, {"unable to open for writing"} \cup DiskErrors[why] \cup title)

SiteFails == \E why \in DOMAIN SiteErrors : Raises(why, SiteErrors[why])

UserCancels ==
  /\ ~asked /\ phase # "over"
  /\ asked' = TRUE
  /\ UNCHANGED <<phase, disk, outcome, cause, wanted, local, video>>

-----------------------------------------------------------------------------
(* Before the first byte. *)

Templates == [absolute : BOOLEAN, climbs : BOOLEAN]

\* _output_template: a relative one must not lead out of the directory.
Escapes(template) == template.climbs /\ ~template.absolute

Goes(to) == phase' = to /\ UNCHANGED <<disk, asked, outcome, cause, wanted, video>>

Options(template) ==
  /\ phase = "options"
  /\ IF Escapes(template) THEN Raises("template", {})
     ELSE Goes("lookup") /\ UNCHANGED local

DirectoryFails ==
  /\ phase = "options"
  /\ \E why \in DOMAIN DiskErrors : Raises(why, DiskErrors[why])

\* External: what is to be downloaded.  Subtitles come first, in any order; old
\* ones are removed and fetched again, but not the streams of a file that was
\* merged before.
LookUp ==
  /\ phase = "lookup"
  /\ \E texts \in SetToSeqs(Named(subtitles)) :
       todo' = texts \o (IF merges /\ "output" \in disk THEN <<>> ELSE Streams)
  /\ disk' = disk \ Named(subtitles)
  /\ phase' = IF todo' = <<>> THEN "merge" ELSE "streams"
  /\ UNCHANGED <<asked, outcome, cause, wanted, captured, percent, late, subtitles,
                 written, video>>

LookUpFails == phase = "lookup" /\ SiteFails

-----------------------------------------------------------------------------
Clamp(p) == IF p < 0 THEN 0 ELSE IF p > 100 THEN 100 ELSE p

ParsedUnclamped(p) == p      \* mutant: parse_percent does not clamp

Parsed(p) == IF p = None THEN None ELSE Clamp(p)

(***************************************************************************)
(* One call of the hook.  The file of a finished one is captured first;    *)
(* then the cancel flag is polled, in one transaction, and only then the   *)
(* progress is taken and stored, in another: in between the user may ask.  *)
(***************************************************************************)
CaptureFirst(file) ==        \* mutant: only the first finished file is kept
  captured' = IF captured = None THEN file ELSE captured

Capture(file) == captured' = IF file = None THEN captured ELSE file

HookPollsFinished(file) ==   \* mutant: the flag is polled for finished files only
  /\ Capture(file)
  /\ todo' = IF file = None THEN todo ELSE Tail(todo)
  /\ IF asked /\ file # None
     THEN phase' = "over" /\ outcome' = Outcome("cancelled")
     ELSE phase' = "polled" /\ UNCHANGED outcome
  /\ UNCHANGED <<asked, cause, wanted, percent, late, subtitles, written, video>>

HookPoll(file) ==
  /\ Capture(file)
  /\ todo' = IF file = None THEN todo ELSE Tail(todo)
  /\ IF asked
     THEN phase' = "over" /\ outcome' = Outcome("cancelled")
     ELSE phase' = "polled" /\ UNCHANGED outcome
  /\ UNCHANGED <<asked, cause, wanted, percent, late, subtitles, written, video>>

Downloading ==
  /\ phase = "streams"
  /\ HookPoll(None)
  /\ UNCHANGED disk

\* Also at once, for a single stream that is there already.
StreamFinished ==
  /\ phase = "streams"
  /\ HookPoll(Head(todo))
  /\ disk' = disk \cup {Head(todo)}

HookReport(p) ==
  /\ phase = "polled"
  /\ IF Parsed(p) = None THEN UNCHANGED <<percent, late>>
     ELSE percent' = Parsed(p) /\ late' = IF asked THEN late + 1 ELSE late
  /\ phase' = IF todo = <<>> THEN "merge" ELSE "streams"
  /\ UNCHANGED <<disk, asked, outcome, cause, wanted, todo, captured, subtitles,
                 written, video>>

\* A transaction of the hook raises; yt-dlp lets it through.
HookFails == phase = "polled" /\ Raises("unknown", {})

StreamFails == phase = "streams" /\ (SiteFails \/ OpenFails)

\* External: two streams become one file; the hook is not called again.
Merge ==
  /\ phase = "merge"
  /\ disk' = IF "video" \in disk THEN (disk \ {"video", "audio"}) \cup {"output"}
                                 ELSE disk
  /\ phase' = "sidecars"
  /\ UNCHANGED <<asked, outcome, cause, wanted, local, video>>

MergeFails == phase = "merge" /\ merges /\ Raises("unknown", {})

-----------------------------------------------------------------------------
\* The transcript of one subtitle; nothing for one that names no file.
Sidecar(s) ==
  IF s[2] THEN {[language |-> s[1], lines |-> Kept(SubtitleFile(format, spoken))]}
          ELSE {}

WriteUntilGap ==             \* mutant: an entry without a file ends the loop
  /\ phase = "sidecars" /\ subtitles # <<>>
  /\ written' = written \cup Sidecar(Head(subtitles))
  /\ subtitles' = IF Head(subtitles)[2] THEN Tail(subtitles) ELSE <<>>
  /\ UNCHANGED <<phase, disk, asked, outcome, cause, wanted, todo, captured,
                 percent, late, video>>

\* write_transcript_sidecar for the next subtitle.
WriteSidecar ==
  /\ phase = "sidecars" /\ subtitles # <<>>
  /\ written' = written \cup Sidecar(Head(subtitles))
  /\ subtitles' = Tail(subtitles)
  /\ UNCHANGED <<phase, disk, asked, outcome, cause, wanted, todo, captured,
                 percent, late, video>>

\* Reading and writing raise an OSError, which is caught and named; bytes that
\* are no UTF-8 a UnicodeDecodeError, which is not.
SidecarFails ==
  /\ phase = "sidecars" /\ subtitles # <<>> /\ Head(subtitles)[2]
  /\ OpenFails \/ \E raw \in DecodeErrors : Raises("undecodable", raw)

\* _extract_file_metadata: the size on disk, or else yt-dlp's estimate.
Size == IF captured \in disk THEN "measured" ELSE "estimate"

Return ==
  /\ phase = "sidecars" /\ subtitles = <<>>
  /\ Ends([Outcome("done") EXCEPT !.path = captured, !.size = Size])
  /\ UNCHANGED <<cause, local>>

Next ==
  \/ UserCancels
  \/ \E template \in Templates : Options(template)
  \/ DirectoryFails \/ LookUp \/ LookUpFails
  \/ Downloading \/ StreamFinished \/ StreamFails
  \/ (\E p \in Reports \cup {None} : HookReport(p)) \/ HookFails
  \/ Merge \/ MergeFails
  \/ WriteSidecar \/ SidecarFails \/ Return

Spec == Init /\ [][Next]_vars

-----------------------------------------------------------------------------
DownloaderTypeOK ==
  /\ phase \in {"options", "lookup", "streams", "polled", "merge", "sidecars", "over"}
  /\ ToSet(todo) \subseteq Files /\ disk \subseteq Files
  /\ captured \in Files \cup {None}
  /\ percent \in 0 .. 100 \cup {None} /\ late \in Nat
  /\ ToSet(subtitles) \subseteq Languages \X BOOLEAN /\ wanted \subseteq Languages
  /\ outcome \in [status : {"none", "done", "cancelled", "error"},
                  code : Codes \cup {"none"}, path : Files \cup {None},
                  size : {"none", "measured", "estimate"}]

(***************************************************************************)
(* The path a successful call returns is that of the media file, the file  *)
(* is there, and the size is the one it has ("return the output path plus  *)
(* file metadata"): not a subtitle, not a file a later step removed, not   *)
(* nothing because an earlier attempt had left it.  The library serves and *)
(* deletes the file by this path.                                          *)
(***************************************************************************)
NamesOutput ==
  outcome.path = "output" /\ "output" \in disk /\ outcome.size = "measured"

PathIsOutput == outcome.status = "done" => NamesOutput

\* The same of downloads of one stream, with subtitles or without, fetched
\* now or found on disk.
SinglePathIsOutput == outcome.status = "done" /\ ~merges => NamesOutput

(***************************************************************************)
(* A successful call has written a transcript for every subtitle that      *)
(* names its file, found on disk or downloaded; entries without one in     *)
(* between are passed over.                                                *)
(***************************************************************************)
TranscriptsComplete ==
  outcome.status = "done" => {t.language : t \in written} = wanted

\* The elements of s are among those of t, in their order.
Embeds(s, t) ==
  \E place \in [DOMAIN s -> DOMAIN t] :
    \A i, k \in DOMAIN s : t[place[i]] = s[i] /\ (i < k => place[i] < place[k])

(***************************************************************************)
(* A transcript is what was said, spoken numbers included ("drops the      *)
(* index, the timestamp line, and blank separators"): from an SRT file it  *)
(* is nothing else, and from another format, which subtitlesformat admits  *)
(* ("srt/best"), nothing that was said is lost.                            *)
(***************************************************************************)
CaptionsKept ==
  \A t \in written :
    IF format = "srt" THEN t.lines = FlattenSeq(spoken)
                      ELSE Embeds(FlattenSeq(spoken), t.lines)

(***************************************************************************)
(* The code of a failed job names what went wrong, whichever step ran into *)
(* it: a full disk is a full disk for a stream, a transcript and the       *)
(* directory alike ("Order matters: more specific rules come before        *)
(* generic ones").  A title that has a rule's phrase in it is excepted;    *)
(* and the position of an undecodable byte may be taken for a status.      *)
(***************************************************************************)
CodesFor ==
  [private   |-> {"private_or_age_restricted"}, geo |-> {"geo_blocked"},
   forbidden |-> {"http_forbidden"}, timeout |-> {"timeout"},
   full      |-> {"disk_full"},
   denied    |-> {"output_path_unwritable", "permission_denied"},
   io        |-> {"output_path_unwritable", "ytdlp_error"},
   unknown   |-> {"ytdlp_error"}, template |-> {"ytdlp_error"},
   undecodable |-> {"ytdlp_error", "http_forbidden"}]

CodeNamesCause ==
  outcome.status = "error" /\ title = {} => outcome.code \in CodesFor[cause]

(***************************************************************************)
(* What makes them hold from phase to phase: the media file is fetched     *)
(* last, every subtitle is either still to be seen to or has its           *)
(* transcript, and a transcript is what the loop makes of its file.        *)
(***************************************************************************)
QueuesOK ==
  /\ todo \in Seq(Files) /\ subtitles \in Seq(Languages \X BOOLEAN)
  /\ merges \in BOOLEAN
  /\ phase = "streams" => todo # <<>>

EndsOnce == phase = "over" <=> outcome.status # "none"

MediaComesLast ==
  ~merges =>
    /\ (phase = "streams" \/ (phase = "polled" /\ todo # <<>>)) => Last(todo) = "output"
    /\ (phase \in {"merge", "sidecars"} \/ (phase = "polled" /\ todo = <<>>))
         => captured = "output" /\ "output" \in disk

NothingPassedOver == {t.language : t \in written} \cup Named(subtitles) = wanted

\* Progress taken late is that of the hook call that had polled before.
LateIsLast == late \in 0 .. 1 /\ (late = 1 => asked /\ phase # "polled")

WrittenAsRead ==
  /\ format \in Formats /\ spoken \in Speech
  /\ \A t \in written : t.lines = Kept(SubtitleFile(format, spoken))

DownloaderInv ==
  /\ DownloaderTypeOK /\ QueuesOK
  /\ EndsOnce /\ MediaComesLast /\ NothingPassedOver /\ LateIsLast
  /\ SinglePathIsOutput /\ TranscriptsComplete /\ CodeNamesCause

(***************************************************************************)
(* The call is what its caller takes it for (DownloadCall), through every  *)
(* phase of it: whenever the user asks, in the middle of a hook call too,  *)
(* at most one more progress value is taken; cancelled only on request;    *)
(* one end and nothing after it.                                           *)
(***************************************************************************)
Call == INSTANCE DownloadCall WITH status <- outcome.status

KeepsCall == Call!CallSpec
=============================================================================
