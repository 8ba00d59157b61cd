-------------------------- MODULE DownloaderProofs --------------------------
(***************************************************************************)
(* One call of run_download, proved for any languages, any reports, any    *)
(* files an earlier call has left and any captions.                        *)
(***************************************************************************)
EXTENDS Downloader, RecursionLemmas, FiniteSetTheorems

(***************************************************************************)
(* The code of a text is that of the first rule with a phrase in it.       *)
(***************************************************************************)
Matches(n, raw) == Rules[n].phrases \cap raw # {}

LEMMA RulesType == Rules = [n \in 1 .. 7 |-> Rules[n]]
BY DEF Rules

LEMMA FirstRuleWins ==
  ASSUME NEW raw, NEW n \in 1 .. 7, Matches(n, raw),
         \A k \in 1 .. 7 : k < n => ~Matches(k, raw)
  PROVE  FriendlyYtdlpError(raw) = Rules[n].code
<1> DEFINE matching == {k \in DOMAIN Rules : Rules[k].phrases \cap raw # {}}
<1>1. matching = {k \in 1 .. 7 : Matches(k, raw)}
  BY RulesType DEF Matches
<1>2. n \in matching /\ \A k \in matching : n <= k
  BY <1>1
<1> DEFINE least == CHOOSE i \in matching : \A k \in matching : i <= k
<1>3. least \in matching /\ \A k \in matching : least <= k
  BY <1>2
<1>4. least = n
  <2> HIDE DEF least
  <2>1. least <= n /\ n <= least /\ least \in 1 .. 7
    BY <1>1, <1>2, <1>3
  <2> QED BY <2>1
<1> QED BY <1>2, <1>4 DEF FriendlyYtdlpError

LEMMA NoRuleMatches ==
  ASSUME NEW raw, \A k \in 1 .. 7 : ~Matches(k, raw)
  PROVE  FriendlyYtdlpError(raw) = "ytdlp_error"
BY RulesType DEF FriendlyYtdlpError, Matches

LEMMA CodeType ==
  ASSUME NEW raw PROVE FriendlyYtdlpError(raw) \in Codes
<1> DEFINE matching == {k \in 1 .. 7 : Matches(k, raw)}
<1>1. CASE matching = {}
  BY <1>1, NoRuleMatches DEF Codes
<1>2. CASE matching # {}
  <2>1. \E n \in matching : \A k \in matching : n <= k
    <3>1. \/ 1 \in matching \/ 2 \in matching \/ 3 \in matching \/ 4 \in matching
          \/ 5 \in matching \/ 6 \in matching \/ 7 \in matching
      BY <1>2
    <3> QED BY <3>1
  <2>2. PICK n \in matching : \A k \in matching : n <= k
    BY <2>1
  <2>3. FriendlyYtdlpError(raw) = Rules[n].code
    BY <2>2, FirstRuleWins
  <2> QED BY <2>3, RulesType DEF Codes
<1> QED BY <1>1, <1>2

(***************************************************************************)
(* Which texts match which rule.                                           *)
(***************************************************************************)
LEMMA Phrases ==
  ASSUME NEW raw
  PROVE  /\ Matches(1, raw) <=> "private" \in raw
         /\ Matches(2, raw) <=> "not available in your country" \in raw
         /\ Matches(3, raw) <=> "403" \in raw
         /\ Matches(4, raw) <=> "timed out" \in raw
         /\ Matches(5, raw) <=> "no space left" \in raw
         /\ Matches(6, raw) <=> "unable to open for writing" \in raw
         /\ Matches(7, raw) <=> "permission denied" \in raw
BY DEF Matches, Rules, Rule

LEMMA RuleCodes ==
  /\ Rules[1].code = "private_or_age_restricted"
  /\ Rules[2].code = "geo_blocked"
  /\ Rules[3].code = "http_forbidden"
  /\ Rules[4].code = "timeout"
  /\ Rules[5].code = "disk_full"
  /\ Rules[6].code = "output_path_unwritable"
  /\ Rules[7].code = "permission_denied"
BY DEF Rules, Rule

(***************************************************************************)
(* friendly_ytdlp_error as a table: what each rule yields when it is the   *)
(* first to match.                                                         *)
(***************************************************************************)
NoneBefore(n, raw) == \A k \in 1 .. 7 : k < n => ~Matches(k, raw)

LEMMA Decided ==
  ASSUME NEW raw
  PROVE
    /\ Matches(1, raw) /\ NoneBefore(1, raw)
         => FriendlyYtdlpError(raw) = "private_or_age_restricted"
    /\ Matches(2, raw) /\ NoneBefore(2, raw)
         => FriendlyYtdlpError(raw) = "geo_blocked"
    /\ Matches(3, raw) /\ NoneBefore(3, raw)
         => FriendlyYtdlpError(raw) = "http_forbidden"
    /\ Matches(4, raw) /\ NoneBefore(4, raw)
         => FriendlyYtdlpError(raw) = "timeout"
    /\ Matches(5, raw) /\ NoneBefore(5, raw)
         => FriendlyYtdlpError(raw) = "disk_full"
    /\ Matches(6, raw) /\ NoneBefore(6, raw)
         => FriendlyYtdlpError(raw) = "output_path_unwritable"
    /\ Matches(7, raw) /\ NoneBefore(7, raw)
         => FriendlyYtdlpError(raw) = "permission_denied"
BY FirstRuleWins, RuleCodes DEF NoneBefore

LEMMA Before ==
  ASSUME NEW raw
  PROVE  /\ NoneBefore(1, raw)
         /\ NoneBefore(1, raw) /\ ~Matches(1, raw) => NoneBefore(2, raw)
         /\ NoneBefore(2, raw) /\ ~Matches(2, raw) => NoneBefore(3, raw)
         /\ NoneBefore(3, raw) /\ ~Matches(3, raw) => NoneBefore(4, raw)
         /\ NoneBefore(4, raw) /\ ~Matches(4, raw) => NoneBefore(5, raw)
         /\ NoneBefore(5, raw) /\ ~Matches(5, raw) => NoneBefore(6, raw)
         /\ NoneBefore(6, raw) /\ ~Matches(6, raw) => NoneBefore(7, raw)
         /\ NoneBefore(7, raw) /\ ~Matches(7, raw) => NoneBefore(8, raw)
BY DEF NoneBefore

LEMMA EmptyText == FriendlyYtdlpError({}) = "ytdlp_error"
<1>1. NoneBefore(8, {})
  BY Phrases, Before
<1> QED BY <1>1, NoRuleMatches DEF NoneBefore

\* A text with one phrase only.
LEMMA OnePhrase ==
  /\ FriendlyYtdlpError({"private"}) = "private_or_age_restricted"
  /\ FriendlyYtdlpError({"not available in your country"}) = "geo_blocked"
  /\ FriendlyYtdlpError({"403"}) = "http_forbidden"
  /\ FriendlyYtdlpError({"timed out"}) = "timeout"
  /\ FriendlyYtdlpError({"no space left"}) = "disk_full"
  /\ FriendlyYtdlpError({"unable to open for writing"}) = "output_path_unwritable"
  /\ FriendlyYtdlpError({"permission denied"}) = "permission_denied"
<1>1. FriendlyYtdlpError({"private"}) = "private_or_age_restricted"
  <2> DEFINE raw == {"private"}
  <2>1. Matches(1, raw) /\ NoneBefore(1, raw)
    BY Phrases, Before
  <2> QED BY <2>1, Decided
<1>2. FriendlyYtdlpError({"not available in your country"}) = "geo_blocked"
  <2> DEFINE raw == {"not available in your country"}
  <2>1. Matches(2, raw) /\ NoneBefore(2, raw)
    BY Phrases, Before
  <2> QED BY <2>1, Decided
<1>3. FriendlyYtdlpError({"403"}) = "http_forbidden"
  <2> DEFINE raw == {"403"}
  <2>1. Matches(3, raw) /\ NoneBefore(3, raw)
    BY Phrases, Before
  <2> QED BY <2>1, Decided
<1>4. FriendlyYtdlpError({"timed out"}) = "timeout"
  <2> DEFINE raw == {"timed out"}
  <2>1. Matches(4, raw) /\ NoneBefore(4, raw)
    BY Phrases, Before
  <2> QED BY <2>1, Decided
<1>5. FriendlyYtdlpError({"no space left"}) = "disk_full"
  <2> DEFINE raw == {"no space left"}
  <2>1. Matches(5, raw) /\ NoneBefore(5, raw)
    BY Phrases, Before
  <2> QED BY <2>1, Decided
<1>6. FriendlyYtdlpError({"unable to open for writing"})
        = "output_path_unwritable"
  <2> DEFINE raw == {"unable to open for writing"}
  <2>1. Matches(6, raw) /\ NoneBefore(6, raw)
    BY Phrases, Before
  <2> QED BY <2>1, Decided
<1>7. FriendlyYtdlpError({"permission denied"}) = "permission_denied"
  <2> DEFINE raw == {"permission denied"}
  <2>1. Matches(7, raw) /\ NoneBefore(7, raw)
    BY Phrases, Before
  <2> QED BY <2>1, Decided
<1> QED BY <1>1, <1>2, <1>3, <1>4, <1>5, <1>6, <1>7

\* A failing file names the step, a full disk or a missing permission the
\* cause; the earlier of the two rules wins.
LEMMA TwoPhrases ==
  /\ FriendlyYtdlpError({"unable to open for writing", "no space left"}) = "disk_full"
  /\ FriendlyYtdlpError({"unable to open for writing", "permission denied"})
       = "output_path_unwritable"
<1>1. FriendlyYtdlpError({"unable to open for writing", "no space left"})
        = "disk_full"
  <2> DEFINE raw == {"unable to open for writing", "no space left"}
  <2>1. Matches(5, raw) /\ NoneBefore(5, raw)
    BY Phrases, Before
  <2> QED BY <2>1, Decided
<1>2. FriendlyYtdlpError({"unable to open for writing", "permission denied"})
        = "output_path_unwritable"
  <2> DEFINE raw == {"unable to open for writing", "permission denied"}
  <2>1. Matches(6, raw) /\ NoneBefore(6, raw)
    BY Phrases, Before
  <2> QED BY <2>1, Decided
<1> QED BY <1>1, <1>2

(***************************************************************************)
(* Whatever fails, at whichever step, gets a code that names it.           *)
(***************************************************************************)
LEMMA CodesForCauses ==
  /\ CodesFor["private"] = {"private_or_age_restricted"}
  /\ CodesFor["geo"] = {"geo_blocked"}
  /\ CodesFor["forbidden"] = {"http_forbidden"}
  /\ CodesFor["timeout"] = {"timeout"}
  /\ CodesFor["full"] = {"disk_full"}
  /\ CodesFor["denied"] = {"output_path_unwritable", "permission_denied"}
  /\ CodesFor["io"] = {"output_path_unwritable", "ytdlp_error"}
  /\ CodesFor["unknown"] = {"ytdlp_error"}
  /\ CodesFor["template"] = {"ytdlp_error"}
  /\ CodesFor["undecodable"] = {"ytdlp_error", "http_forbidden"}
BY DEF CodesFor

LEMMA SiteCodes ==
  ASSUME NEW why \in DOMAIN SiteErrors
  PROVE  FriendlyYtdlpError(SiteErrors[why]) \in CodesFor[why]
<1>1. why \in {"private", "geo", "forbidden", "timeout", "unknown"}
  BY DEF SiteErrors
<1>2. /\ SiteErrors["private"] = {"private"}
      /\ SiteErrors["geo"] = {"not available in your country"}
      /\ SiteErrors["forbidden"] = {"403"}
      /\ SiteErrors["timeout"] = {"timed out"}
      /\ SiteErrors["unknown"] = {}
  BY DEF SiteErrors
<1>3. CASE why = "private"
  BY <1>2, <1>3, OnePhrase, CodesForCauses
<1>4. CASE why = "geo"
  BY <1>2, <1>4, OnePhrase, CodesForCauses
<1>5. CASE why = "forbidden"
  BY <1>2, <1>5, OnePhrase, CodesForCauses
<1>6. CASE why = "timeout"
  BY <1>2, <1>6, OnePhrase, CodesForCauses
<1>7. CASE why = "unknown"
  BY <1>2, <1>7, EmptyText, CodesForCauses
<1> QED BY <1>1, <1>3, <1>4, <1>5, <1>6, <1>7

LEMMA DiskTexts ==
  /\ DiskErrors["full"] = {"no space left"}
  /\ DiskErrors["denied"] = {"permission denied"}
  /\ DiskErrors["io"] = {}
  /\ DOMAIN DiskErrors = {"full", "denied", "io"}
BY DEF DiskErrors

LEMMA DiskCodes ==
  ASSUME NEW why \in DOMAIN DiskErrors
  PROVE  FriendlyYtdlpError(DiskErrors[why]) \in CodesFor[why]
<1>1. CASE why = "full"
  BY <1>1, DiskTexts, OnePhrase, CodesForCauses
<1>2. CASE why = "denied"
  BY <1>2, DiskTexts, OnePhrase, CodesForCauses
<1>3. CASE why = "io"
  BY <1>3, DiskTexts, EmptyText, CodesForCauses
<1> QED BY <1>1, <1>2, <1>3, DiskTexts

LEMMA OpenCodes ==
  ASSUME NEW why \in DOMAIN DiskErrors, NEW raw,
         raw = {"unable to open for writing"} \cup DiskErrors[why]
  PROVE  FriendlyYtdlpError(raw) \in CodesFor[why]
<1>1. CASE why = "full"
  <2>1. raw = {"unable to open for writing", "no space left"}
    BY <1>1, DiskTexts
  <2> QED BY <1>1, <2>1, TwoPhrases, CodesForCauses
<1>2. CASE why = "denied"
  <2>1. raw = {"unable to open for writing", "permission denied"}
    BY <1>2, DiskTexts
  <2> QED BY <1>2, <2>1, TwoPhrases, CodesForCauses
<1>3. CASE why = "io"
  <2>1. raw = {"unable to open for writing"}
    BY <1>3, DiskTexts
  <2> QED BY <1>3, <2>1, OnePhrase, CodesForCauses
<1> QED BY <1>1, <1>2, <1>3, DiskTexts

-----------------------------------------------------------------------------
(***************************************************************************)
(* Sequences of subtitles and of files.                                    *)
(***************************************************************************)
\* u is s and then t.
Concats(u, s, t) ==
  /\ Len(u) = Len(s) + Len(t) /\ Len(s) \in Nat /\ Len(t) \in Nat
  /\ \A i \in 1 .. Len(s) : u[i] = s[i]
  /\ \A i \in 1 .. Len(t) : u[Len(s) + i] = t[i]

LEMMA ConcatParts ==
  ASSUME NEW S, NEW s \in Seq(S), NEW t \in Seq(S)
  PROVE  s \o t \in Seq(S) /\ Concats(s \o t, s, t)
<1> DEFINE u == s \o t
<1>1. /\ u \in Seq(S) /\ Len(u) = Len(s) + Len(t)
      /\ \A i \in 1 .. Len(s) + Len(t) : u[i] = IF i <= Len(s) THEN s[i] ELSE t[i - Len(s)]
  BY ConcatProperties
<1>2. Len(s) \in Nat /\ Len(t) \in Nat
  BY LenProperties
<1> HIDE DEF u
<1>3. ASSUME NEW i \in 1 .. Len(s) PROVE u[i] = s[i]
  BY <1>1, <1>2
<1>4. ASSUME NEW i \in 1 .. Len(t) PROVE u[Len(s) + i] = t[i]
  <2>1. PICK k \in 1 .. Len(s) + Len(t) : k = Len(s) + i
    BY <1>2
  <2>2. ~(k <= Len(s)) /\ k - Len(s) = i
    BY <1>2, <2>1
  <2>3. u[k] = t[i]
    BY <1>1, <2>2
  <2> QED BY <2>1, <2>3
<1> QED BY <1>1, <1>2, <1>3, <1>4 DEF Concats, u

LEMMA NamedOfTail ==
  ASSUME NEW s \in Seq(Languages \X BOOLEAN), s # <<>>
  PROVE  Named(s) = (IF Head(s)[2] THEN {Head(s)[1]} ELSE {}) \cup Named(Tail(s))
<1>1. /\ Len(s) \in Nat \ {0} /\ DOMAIN s = 1 .. Len(s) /\ Head(s) = s[1]
      /\ Tail(s) \in Seq(Languages \X BOOLEAN) /\ Len(Tail(s)) = Len(s) - 1
      /\ DOMAIN Tail(s) = 1 .. Len(Tail(s))
      /\ \A i \in 1 .. Len(Tail(s)) : Tail(s)[i] = s[i + 1]
  BY HeadTailProperties, EmptySeq, LenProperties
<1>2. ASSUME NEW e \in Named(s)
      PROVE  e \in (IF Head(s)[2] THEN {Head(s)[1]} ELSE {}) \cup Named(Tail(s))
  <2>1. PICK n \in 1 .. Len(s) : s[n][2] /\ e = s[n][1]
    BY <1>1, <1>2 DEF Named
  <2>2. CASE n = 1
    BY <1>1, <2>1, <2>2
  <2>3. CASE n # 1
    <3>1. n - 1 \in 1 .. Len(Tail(s)) /\ Tail(s)[n - 1] = s[n]
      BY <1>1, <2>3
    <3> QED BY <1>1, <2>1, <3>1 DEF Named
  <2> QED BY <2>2, <2>3
<1>3. ASSUME NEW e \in (IF Head(s)[2] THEN {Head(s)[1]} ELSE {}) \cup Named(Tail(s))
      PROVE  e \in Named(s)
  <2>1. CASE e \in Named(Tail(s))
    <3>1. PICK n \in 1 .. Len(Tail(s)) : Tail(s)[n][2] /\ e = Tail(s)[n][1]
      BY <1>1, <2>1 DEF Named
    <3>2. n + 1 \in DOMAIN s /\ s[n + 1] = Tail(s)[n]
      BY <1>1
    <3> QED BY <3>1, <3>2 DEF Named
  <2>2. CASE e \notin Named(Tail(s))
    <3>1. Head(s)[2] /\ e = Head(s)[1]
      BY <1>3, <2>2
    <3>2. 1 \in DOMAIN s /\ s[1] = Head(s)
      BY <1>1
    <3> QED BY <3>1, <3>2 DEF Named
  <2> QED BY <2>1, <2>2
<1> QED BY <1>2, <1>3

LEMMA NamedType ==
  ASSUME NEW s \in Seq(Languages \X BOOLEAN)
  PROVE  Named(s) \subseteq Languages
<1>1. \A n \in DOMAIN s : s[n] \in Languages \X BOOLEAN
  BY LenProperties, ElementOfSeq
<1> QED BY <1>1 DEF Named

LEMMA NothingNamed == Named(<<>>) = {}
BY DEF Named

LEMMA FoundType == Found \subseteq Seq(Languages \X BOOLEAN)
<1>1. Cardinality(Languages) \in Nat
  BY LanguagesAssumption, FS_CardinalityType
<1> QED BY <1>1, SeqDef DEF Found, BoundedSeq, SeqOf

LEMMA PermutationType ==
  ASSUME NEW S \in SUBSET Languages
  PROVE  SetToSeqs(S) \subseteq Seq(Files)
<1>1. IsFiniteSet(S)
  BY LanguagesAssumption, FS_Subset
<1>2. Cardinality(S) \in Nat
  BY <1>1, FS_CardinalityType
<1>3. SetToSeqs(S) \subseteq [1 .. Cardinality(S) -> Files]
  BY DEF SetToSeqs, Files
<1> QED BY <1>2, <1>3, SeqDef

LEMMA SeqToSet ==
  ASSUME NEW S, NEW s \in Seq(S)
  PROVE  ToSet(s) \subseteq S
BY LenProperties, ElementOfSeq DEF ToSet

LEMMA LastOfTail ==
  ASSUME NEW S, NEW s \in Seq(S), s # <<>>
  PROVE  Last(s) = IF Tail(s) = <<>> THEN Head(s) ELSE Last(Tail(s))
<1>1. /\ Len(s) \in Nat \ {0} /\ Head(s) = s[1]
      /\ Tail(s) \in Seq(S) /\ Len(Tail(s)) = Len(s) - 1
      /\ \A i \in 1 .. Len(Tail(s)) : Tail(s)[i] = s[i + 1]
  BY HeadTailProperties, EmptySeq, LenProperties
<1>2. Tail(s) = <<>> <=> Len(Tail(s)) = 0
  BY <1>1, EmptySeq
<1> QED BY <1>1, <1>2 DEF Last

\* A transcript says which subtitle it is of.
LEMMA SidecarLanguages ==
  ASSUME NEW e
  PROVE  {t.language : t \in Sidecar(e)} = IF e[2] THEN {e[1]} ELSE {}
<1> DEFINE t == [language |-> e[1], lines |-> Kept(SubtitleFile(format, spoken))]
<1>1. CASE e[2]
  <2>1. Sidecar(e) = {t} /\ t.language = e[1]
    BY <1>1 DEF Sidecar
  <2> HIDE DEF t
  <2> QED BY <1>1, <2>1
<1>2. CASE ~e[2]
  BY <1>2 DEF Sidecar
<1> QED BY <1>1, <1>2

-----------------------------------------------------------------------------
(***************************************************************************)
(* A step that fails.                                                      *)
(***************************************************************************)
Outcomes == [status : {"none", "done", "cancelled", "error"},
             code : Codes \cup {"none"}, path : Files \cup {None},
             size : {"none", "measured", "estimate"}]

LEMMA OutcomeType ==
  ASSUME NEW status \in {"none", "cancelled"}
  PROVE  Outcome(status) \in Outcomes /\ Outcome(status).status = status
BY DEF Outcome, Outcomes

LEMMA ErrorOutcome ==
  ASSUME NEW c \in Codes, NEW o, o = [Outcome("error") EXCEPT !.code = c]
  PROVE  o \in Outcomes /\ o.status = "error" /\ o.code = c
BY DEF Outcome, Outcomes

LEMMA DoneOutcome ==
  ASSUME DownloaderInv, Return
  PROVE  /\ outcome' \in Outcomes /\ outcome'.status = "done"
         /\ outcome'.path = captured /\ outcome'.size = Size
<1>1. captured \in Files \cup {None} /\ Size \in {"measured", "estimate"}
  BY DEF Size, DownloaderInv, DownloaderTypeOK
<1>2. outcome' = [Outcome("done") EXCEPT !.path = captured, !.size = Size]
  BY DEF Return, Ends
<1>3. outcome' = [status |-> "done", code |-> "none", path |-> captured, size |-> Size]
  BY <1>2 DEF Outcome
<1> QED BY <1>1, <1>3 DEF Outcomes

LEMMA RaisesInv ==
  ASSUME DownloaderInv, phase # "over", NEW why, NEW raw, Raises(why, raw),
         title = {} => FriendlyYtdlpError(raw) \in CodesFor[why]
  PROVE  DownloaderInv'
<1>1. /\ outcome' \in Outcomes /\ outcome'.status = "error"
      /\ outcome'.code = FriendlyYtdlpError(raw)
  BY CodeType, ErrorOutcome DEF Raises, Ends
<1>2. DownloaderTypeOK' /\ QueuesOK' /\ EndsOnce' /\ MediaComesLast'
  BY <1>1 DEF Raises, Ends, local, video, DownloaderInv, DownloaderTypeOK,
              QueuesOK, EndsOnce, MediaComesLast, Outcomes
<1>3. NothingPassedOver' /\ LateIsLast'
  BY DEF Raises, Ends, local, video, DownloaderInv, NothingPassedOver, LateIsLast
<1>4. SinglePathIsOutput' /\ TranscriptsComplete'
  BY <1>1 DEF SinglePathIsOutput, TranscriptsComplete
<1>5. CodeNamesCause'
  BY <1>1 DEF Raises, Ends, video, CodeNamesCause
<1> QED BY <1>2, <1>3, <1>4, <1>5 DEF DownloaderInv

LEMMA OpenFailsInv ==
  ASSUME DownloaderInv, phase # "over", OpenFails
  PROVE  DownloaderInv'
<1>1. PICK why \in DOMAIN DiskErrors :
        Raises(why, {"unable to open for writing"} \cup DiskErrors[why] \cup title)
  BY DEF OpenFails
<1> DEFINE raw == {"unable to open for writing"} \cup DiskErrors[why] \cup title
<1>2. title = {} => raw = {"unable to open for writing"} \cup DiskErrors[why]
  OBVIOUS
<1>3. title = {} => FriendlyYtdlpError(raw) \in CodesFor[why]
  BY <1>2, OpenCodes
<1> QED BY <1>1, <1>3, RaisesInv

LEMMA SiteFailsInv ==
  ASSUME DownloaderInv, phase # "over", SiteFails
  PROVE  DownloaderInv'
BY SiteCodes, RaisesInv DEF SiteFails

LEMMA DirectoryFailsInv ==
  ASSUME DownloaderInv, DirectoryFails PROVE DownloaderInv'
BY DiskCodes, RaisesInv DEF DirectoryFails

LEMMA MergeFailsInv ==
  ASSUME DownloaderInv, MergeFails PROVE DownloaderInv'
BY EmptyText, CodesForCauses, RaisesInv DEF MergeFails

LEMMA HookFailsInv ==
  ASSUME DownloaderInv, HookFails PROVE DownloaderInv'
BY EmptyText, CodesForCauses, RaisesInv DEF HookFails

LEMMA DecodeCodes ==
  ASSUME NEW raw \in DecodeErrors
  PROVE  FriendlyYtdlpError(raw) \in CodesFor["undecodable"]
BY EmptyText, OnePhrase, CodesForCauses DEF DecodeErrors

LEMMA SidecarFailsInv ==
  ASSUME DownloaderInv, SidecarFails PROVE DownloaderInv'
<1>1. CASE OpenFails
  BY <1>1, OpenFailsInv DEF SidecarFails
<1>2. CASE \E raw \in DecodeErrors : Raises("undecodable", raw)
  BY <1>2, DecodeCodes, RaisesInv DEF SidecarFails
<1> QED BY <1>1, <1>2 DEF SidecarFails

LEMMA UserCancelsInv ==
  ASSUME DownloaderInv, UserCancels PROVE DownloaderInv'
BY DEF UserCancels, local, video, DownloaderInv, DownloaderTypeOK, QueuesOK,
       EndsOnce, MediaComesLast, NothingPassedOver, LateIsLast, SinglePathIsOutput,
       TranscriptsComplete, CodeNamesCause, NamesOutput

LEMMA OptionsInv ==
  ASSUME DownloaderInv, NEW template, Options(template) PROVE DownloaderInv'
<1>1. CASE Escapes(template)
  BY <1>1, EmptyText, CodesForCauses, RaisesInv DEF Options
<1>2. CASE ~Escapes(template)
  BY <1>2 DEF Options, Goes, local, video, DownloaderInv, DownloaderTypeOK, QueuesOK,
       EndsOnce, MediaComesLast, NothingPassedOver, LateIsLast, SinglePathIsOutput,
       TranscriptsComplete, CodeNamesCause, NamesOutput
<1> QED BY <1>1, <1>2

-----------------------------------------------------------------------------
(***************************************************************************)
(* A step that goes on.                                                    *)
(***************************************************************************)
LEMMA LookUpInv ==
  ASSUME DownloaderInv, LookUp PROVE DownloaderInv'
<1> DEFINE streams == IF merges /\ "output" \in disk THEN <<>> ELSE Streams
<1>1. PICK texts \in SetToSeqs(Named(subtitles)) : todo' = texts \o streams
  BY DEF LookUp
<1>2. texts \in Seq(Files)
  BY NamedType, PermutationType DEF DownloaderInv, QueuesOK
<1>3. streams \in Seq(Files) /\ (~merges => streams = <<"output">>)
  <2>1. <<>> \in Seq(Files) /\ <<"output">> \in Seq(Files)
        /\ <<"video", "audio">> \in Seq(Files)
    BY DEF Files
  <2> QED BY <2>1 DEF Streams
<1>4. todo' \in Seq(Files)
  BY <1>1, <1>2, <1>3, ConcatProperties
<1>5. ASSUME ~merges PROVE todo' # <<>> /\ Last(todo') = "output"
  <2>1. Len(streams) = 1 /\ streams[1] = "output"
    BY <1>3, <1>5
  <2> HIDE DEF streams
  <2>2. /\ Len(texts \o streams) = Len(texts) + 1 /\ Len(texts) \in Nat
        /\ (texts \o streams)[Len(texts) + 1] = "output"
    <3>1. Concats(texts \o streams, texts, streams) /\ Len(texts) \in Nat
      BY <1>2, <1>3, ConcatParts, LenProperties
    <3> QED BY <2>1, <3>1 DEF Concats
  <2> QED BY <1>1, <1>4, <2>2, EmptySeq DEF Last
<1>6. phase = "lookup" /\ phase' = (IF todo' = <<>> THEN "merge" ELSE "streams")
  BY DEF LookUp
<1>7. DownloaderTypeOK' /\ QueuesOK'
  BY <1>4, <1>6, SeqToSet
     DEF LookUp, video, DownloaderInv, DownloaderTypeOK, QueuesOK
<1>8. MediaComesLast'
  BY <1>5, <1>6 DEF LookUp, video, MediaComesLast
<1>9. EndsOnce' /\ NothingPassedOver' /\ LateIsLast' /\ SinglePathIsOutput'
      /\ TranscriptsComplete' /\ CodeNamesCause'
  BY <1>6 DEF LookUp, video, DownloaderInv, EndsOnce, NothingPassedOver, LateIsLast,
              SinglePathIsOutput, TranscriptsComplete, CodeNamesCause, NamesOutput
<1> QED BY <1>7, <1>8, <1>9 DEF DownloaderInv

LEMMA ParsedType ==
  ASSUME NEW p \in Reports \cup {None}
  PROVE  Parsed(p) = None \/ Parsed(p) \in 0 .. 100
BY ReportsAssumption DEF Parsed, Clamp

\* A hook call, of a file or of none, looks at the flag; a file goes to disk.
LEMMA HookPollInv ==
  ASSUME DownloaderInv, phase = "streams",
         NEW file \in {None, Head(todo)}, HookPoll(file),
         disk' = IF file = None THEN disk ELSE disk \cup {file}
  PROVE  DownloaderInv'
<1>1. /\ todo \in Seq(Files) /\ todo # <<>> /\ Head(todo) \in Files
      /\ Head(todo) # None
      /\ Tail(todo) \in Seq(Files)
      /\ Last(todo) = IF Tail(todo) = <<>> THEN Head(todo) ELSE Last(Tail(todo))
  BY HeadTailProperties, LastOfTail, NoneAssumption DEF DownloaderInv, QueuesOK
<1>2. todo' \in Seq(Files) /\ phase' \in {"polled", "over"}
  BY <1>1 DEF HookPoll
<1>3. captured' \in Files \cup {None} /\ disk' \subseteq Files
  BY <1>1 DEF HookPoll, Capture, DownloaderInv, DownloaderTypeOK
<1>4. outcome' \in Outcomes /\ (phase' = "over" <=> outcome'.status # "none")
      /\ outcome'.status \in {"none", "cancelled"}
  BY <1>2, OutcomeType
     DEF HookPoll, DownloaderInv, DownloaderTypeOK, EndsOnce, Outcomes
<1>5. DownloaderTypeOK' /\ QueuesOK'
  BY <1>2, <1>3, <1>4, SeqToSet
     DEF HookPoll, video, DownloaderInv, DownloaderTypeOK, QueuesOK, Outcomes
<1>6. MediaComesLast'
  <2> SUFFICES ASSUME ~merges, phase' = "polled" PROVE
        /\ todo' # <<>> => Last(todo') = "output"
        /\ todo' = <<>> => captured' = "output" /\ "output" \in disk'
    BY <1>2 DEF HookPoll, video, MediaComesLast
  <2>1. Last(todo) = "output"
    BY DEF DownloaderInv, MediaComesLast
  <2>2. CASE file = None
    BY <1>1, <2>1, <2>2 DEF HookPoll
  <2>3. CASE file # None /\ Tail(todo) = <<>>
    BY <1>1, <2>1, <2>3 DEF HookPoll, Capture
  <2>4. CASE file # None /\ Tail(todo) # <<>>
    BY <1>1, <2>1, <2>4 DEF HookPoll
  <2> QED BY <2>2, <2>3, <2>4
<1>7. LateIsLast'
  <2>1. phase' = "polled" => ~asked
    BY DEF HookPoll
  <2> QED BY <1>2, <2>1 DEF HookPoll, DownloaderInv, LateIsLast
<1>8. EndsOnce' /\ NothingPassedOver' /\ SinglePathIsOutput'
      /\ TranscriptsComplete' /\ CodeNamesCause'
  BY <1>4 DEF HookPoll, video, DownloaderInv, EndsOnce, NothingPassedOver,
              SinglePathIsOutput, TranscriptsComplete, CodeNamesCause
<1> QED BY <1>5, <1>6, <1>7, <1>8 DEF DownloaderInv

LEMMA DownloadingInv ==
  ASSUME DownloaderInv, Downloading PROVE DownloaderInv'
BY HookPollInv DEF Downloading

LEMMA StreamFinishedInv ==
  ASSUME DownloaderInv, StreamFinished PROVE DownloaderInv'
<1>1. Head(todo) # None
  BY HeadTailProperties, NoneAssumption
     DEF StreamFinished, DownloaderInv, QueuesOK
<1> QED BY <1>1, HookPollInv DEF StreamFinished

\* Then it takes the progress, late if the user has asked in between.
LEMMA HookReportInv ==
  ASSUME DownloaderInv, NEW p \in Reports \cup {None}, HookReport(p)
  PROVE  DownloaderInv'
<1>1. percent' \in 0 .. 100 \cup {None}
  BY ParsedType DEF HookReport, DownloaderInv, DownloaderTypeOK
<1>2. late = 0 /\ late' \in 0 .. 1 /\ (late' = 1 => asked)
  BY DEF HookReport, DownloaderInv, LateIsLast
<1>3. phase' = (IF todo = <<>> THEN "merge" ELSE "streams") /\ phase = "polled"
  BY DEF HookReport
<1>4. DownloaderTypeOK' /\ QueuesOK' /\ MediaComesLast' /\ LateIsLast'
  BY <1>1, <1>2, <1>3 DEF HookReport, video, DownloaderInv, DownloaderTypeOK,
     QueuesOK, MediaComesLast, LateIsLast
<1>5. EndsOnce' /\ NothingPassedOver' /\ SinglePathIsOutput'
      /\ TranscriptsComplete' /\ CodeNamesCause'
  BY <1>3 DEF HookReport, video, DownloaderInv, EndsOnce, NothingPassedOver,
              SinglePathIsOutput, TranscriptsComplete, CodeNamesCause
<1> QED BY <1>4, <1>5 DEF DownloaderInv

LEMMA StreamFailsInv ==
  ASSUME DownloaderInv, StreamFails PROVE DownloaderInv'
BY SiteFailsInv, OpenFailsInv DEF StreamFails

LEMMA MergeInv ==
  ASSUME DownloaderInv, Merge PROVE DownloaderInv'
<1>1. disk' \subseteq Files /\ ("output" \in disk => "output" \in disk')
  BY DEF Merge, DownloaderInv, DownloaderTypeOK, Files
<1> QED
  BY <1>1 DEF Merge, local, video, DownloaderInv, DownloaderTypeOK, QueuesOK,
       EndsOnce, MediaComesLast, NothingPassedOver, LateIsLast, SinglePathIsOutput,
       TranscriptsComplete, CodeNamesCause

LEMMA WriteSidecarInv ==
  ASSUME DownloaderInv, WriteSidecar PROVE DownloaderInv'
<1>1. /\ subtitles \in Seq(Languages \X BOOLEAN)
      /\ subtitles' \in Seq(Languages \X BOOLEAN)
  BY HeadTailProperties DEF WriteSidecar, DownloaderInv, QueuesOK
<1>2. NothingPassedOver'
  <2> DEFINE e == Head(subtitles)
  <2>1. {t.language : t \in written'}
          = {t.language : t \in written} \cup {t.language : t \in Sidecar(e)}
    BY DEF WriteSidecar
  <2>2. Named(subtitles) = {t.language : t \in Sidecar(e)} \cup Named(subtitles')
    BY <1>1, NamedOfTail, SidecarLanguages DEF WriteSidecar
  <2> HIDE DEF e
  <2> QED BY <2>1, <2>2 DEF WriteSidecar, DownloaderInv, NothingPassedOver
<1>3. DownloaderTypeOK' /\ QueuesOK'
  BY <1>1, SeqToSet
     DEF WriteSidecar, video, DownloaderInv, DownloaderTypeOK, QueuesOK
<1>4. EndsOnce' /\ MediaComesLast' /\ LateIsLast' /\ SinglePathIsOutput'
      /\ TranscriptsComplete' /\ CodeNamesCause'
  BY DEF WriteSidecar, video, DownloaderInv, EndsOnce, MediaComesLast, LateIsLast,
         SinglePathIsOutput, TranscriptsComplete, CodeNamesCause
<1> QED BY <1>2, <1>3, <1>4 DEF DownloaderInv

LEMMA ReturnInv ==
  ASSUME DownloaderInv, Return PROVE DownloaderInv'
<1>1. /\ outcome' \in Outcomes /\ outcome'.status = "done"
      /\ outcome'.path = captured /\ outcome'.size = Size
  BY DoneOutcome
<1>2. DownloaderTypeOK' /\ QueuesOK' /\ EndsOnce' /\ MediaComesLast'
  BY <1>1 DEF Return, Ends, local, video, DownloaderInv, DownloaderTypeOK, QueuesOK,
              EndsOnce, MediaComesLast, Outcomes
<1>3. NothingPassedOver' /\ LateIsLast'
  BY DEF Return, Ends, local, video, DownloaderInv, NothingPassedOver, LateIsLast
<1>4. SinglePathIsOutput'
  BY <1>1 DEF Return, Ends, Size, video, DownloaderInv, MediaComesLast,
              SinglePathIsOutput, NamesOutput
<1>5. TranscriptsComplete'
  <2>1. {t.language : t \in written} = wanted
    BY NothingNamed DEF Return, DownloaderInv, NothingPassedOver
  <2> QED BY <2>1 DEF Return, Ends, local, TranscriptsComplete
<1>6. CodeNamesCause'
  BY <1>1 DEF CodeNamesCause
<1> QED BY <1>2, <1>3, <1>4, <1>5, <1>6 DEF DownloaderInv

LEMMA DownloaderInit == Init => DownloaderInv
<1> SUFFICES ASSUME Init PROVE DownloaderInv
  OBVIOUS
<1>1. subtitles \in Seq(Languages \X BOOLEAN) /\ Named(subtitles) \subseteq Languages
  BY FoundType, NamedType DEF Init
<1>2. outcome \in Outcomes /\ outcome.status = "none"
  BY OutcomeType DEF Init
<1>3. DownloaderTypeOK /\ QueuesOK
  BY <1>1, <1>2, SeqToSet, LeftoversAssumption
     DEF Init, DownloaderTypeOK, QueuesOK, Outcomes, ToSet
<1>4. EndsOnce /\ MediaComesLast /\ SinglePathIsOutput /\ TranscriptsComplete
      /\ CodeNamesCause
  BY <1>2 DEF Init, EndsOnce, MediaComesLast, SinglePathIsOutput,
              TranscriptsComplete, CodeNamesCause
<1>5. NothingPassedOver /\ LateIsLast
  BY DEF Init, NothingPassedOver, LateIsLast
<1> QED BY <1>3, <1>4, <1>5 DEF DownloaderInv

LEMMA DownloaderStep == DownloaderInv /\ [Next]_vars => DownloaderInv'
<1> SUFFICES ASSUME DownloaderInv, [Next]_vars PROVE DownloaderInv'
  OBVIOUS
<1>1. CASE LookUpFails
  BY <1>1, SiteFailsInv DEF LookUpFails
<1>2. CASE SidecarFails
  BY <1>2, SidecarFailsInv
<1>3. CASE Next
  BY <1>1, <1>2, <1>3, UserCancelsInv, OptionsInv, DirectoryFailsInv, LookUpInv,
     DownloadingInv, StreamFinishedInv, HookReportInv, HookFailsInv, StreamFailsInv, MergeInv, MergeFailsInv,
     WriteSidecarInv, ReturnInv
     DEF Next
<1>4. CASE UNCHANGED vars
  BY <1>4 DEF vars, local, video, DownloaderInv, DownloaderTypeOK, QueuesOK,
       EndsOnce, MediaComesLast, NothingPassedOver, LateIsLast, SinglePathIsOutput,
       TranscriptsComplete, CodeNamesCause, NamesOutput
<1> QED BY <1>3, <1>4

LEMMA DownloaderInvariant == Spec => []DownloaderInv
BY DownloaderInit, DownloaderStep, PTL DEF Spec

-----------------------------------------------------------------------------
(***************************************************************************)
(* A successful call of one stream returns the path of the media file,     *)
(* which is on disk, with its size.                                        *)
(***************************************************************************)
THEOREM SuccessIsComplete == Spec => []SinglePathIsOutput
<1>1. DownloaderInv => SinglePathIsOutput
  BY DEF DownloaderInv
<1> QED BY <1>1, DownloaderInvariant, PTL

(***************************************************************************)
(* A call's variables keep their types: what the hook reports is within    *)
(* 0..100, and only files of the title come and go.                        *)
(***************************************************************************)
THEOREM CallTypes == Spec => []DownloaderTypeOK
<1>1. DownloaderInv => DownloaderTypeOK
  BY DEF DownloaderInv
<1> QED BY <1>1, DownloaderInvariant, PTL

(***************************************************************************)
(* After a successful call every subtitle that names its file has a        *)
(* transcript, entries without a file in between or not.                   *)
(***************************************************************************)
THEOREM NoSubtitleIsPassedOver == Spec => []TranscriptsComplete
<1>1. DownloaderInv => TranscriptsComplete
  BY DEF DownloaderInv
<1> QED BY <1>1, DownloaderInvariant, PTL

(***************************************************************************)
(* The code of a failed call names what went wrong, whichever step of it   *)
(* failed: no rule tried earlier shadows the one that is meant.            *)
(***************************************************************************)
THEOREM ErrorsAreNamed == Spec => []CodeNamesCause
<1>1. DownloaderInv => CodeNamesCause
  BY DEF DownloaderInv
<1> QED BY <1>1, DownloaderInvariant, PTL

(***************************************************************************)
(* A call is what its caller takes it for.  Each step asks to cancel,      *)
(* takes progress, ends the call, or is one the caller does not see; and   *)
(* progress is taken of a call of the hook that had seen the flag down,    *)
(* after which a call that sees it up ends everything.                     *)
(***************************************************************************)
LEMMA RaisesEnds ==
  ASSUME DownloaderInv, phase # "over", NEW why, NEW raw, Raises(why, raw)
  PROVE  Call!End
<1>1. outcome'.status = "error"
  BY CodeType, ErrorOutcome DEF Raises, Ends
<1> QED BY <1>1 DEF Call!End, Raises, Ends, local, DownloaderInv, EndsOnce

LEMMA PollIsCall ==
  ASSUME DownloaderInv, phase = "streams", NEW file, HookPoll(file)
  PROVE  Call!End \/ UNCHANGED Call!callVars
<1>1. outcome.status = "none"
  BY DEF DownloaderInv, EndsOnce
<1>2. CASE asked
  <2>1. outcome'.status = "cancelled"
    BY <1>2, OutcomeType DEF HookPoll
  <2> QED BY <1>1, <1>2, <2>1 DEF HookPoll, Call!End
<1>3. CASE ~asked
  BY <1>3 DEF HookPoll, Call!callVars
<1> QED BY <1>2, <1>3

LEMMA ReportIsCall ==
  ASSUME DownloaderInv, NEW p \in Reports \cup {None}, HookReport(p)
  PROVE  Call!Progress \/ UNCHANGED Call!callVars
<1>1. outcome.status = "none" /\ late = 0
  BY DEF HookReport, DownloaderInv, EndsOnce, LateIsLast
<1>2. CASE Parsed(p) = None
  BY <1>2 DEF HookReport, Call!callVars
<1>3. CASE Parsed(p) # None
  <2>1. Parsed(p) \in 0 .. 100
    BY <1>3, ParsedType
  <2>2. percent' = Parsed(p) /\ late' = IF asked THEN late + 1 ELSE late
    BY <1>3 DEF HookReport
  <2>3. late' = IF asked THEN 1 ELSE 0
    BY <1>1, <2>2
  <2> QED BY <1>1, <2>1, <2>2, <2>3 DEF HookReport, Call!Progress
<1> QED BY <1>2, <1>3

LEMMA StepIsCall ==
  ASSUME DownloaderInv, [Next]_vars
  PROVE  [Call!Ask \/ Call!Progress \/ Call!End]_(Call!callVars)
<1>1. CASE UserCancels
  BY <1>1 DEF UserCancels, local, Call!Ask, DownloaderInv, EndsOnce
<1>2. CASE \E template \in Templates : Options(template)
  BY <1>2, RaisesEnds DEF Options, Goes, local, Call!callVars
<1>3. CASE DirectoryFails \/ LookUpFails \/ HookFails \/ StreamFails \/ MergeFails
             \/ SidecarFails
  BY <1>3, RaisesEnds
     DEF DirectoryFails, LookUpFails, HookFails, StreamFails, MergeFails, SidecarFails,
         SiteFails, OpenFails
<1>4. CASE LookUp \/ Merge \/ WriteSidecar \/ UNCHANGED vars
  BY <1>4 DEF LookUp, Merge, WriteSidecar, vars, local, Call!callVars
<1>5. CASE Downloading \/ StreamFinished
  BY <1>5, PollIsCall DEF Downloading, StreamFinished
<1>6. CASE Return
  <2>1. outcome'.status = "done"
    BY <1>6, DoneOutcome
  <2> QED BY <1>6, <2>1 DEF Return, Ends, local, Call!End, DownloaderInv, EndsOnce
<1>7. CASE \E p \in Reports \cup {None} : HookReport(p)
  BY <1>7, ReportIsCall
<1> QED BY <1>1, <1>2, <1>3, <1>4, <1>5, <1>6, <1>7 DEF Next

THEOREM CallImplementsContract == Spec => KeepsCall
<1>1. Init => Call!CallInit
  BY OutcomeType DEF Init, Call!CallInit
<1>2. DownloaderInv /\ [Next]_vars
        => [Call!Ask \/ Call!Progress \/ Call!End]_(Call!callVars)
  BY StepIsCall
<1> QED BY <1>1, <1>2, DownloaderInvariant, PTL DEF Spec, KeepsCall, Call!CallSpec

-----------------------------------------------------------------------------
(***************************************************************************)
(* The loop of render_transcript_text: what is kept from a line on.        *)
(***************************************************************************)
Reads(from, raw) ==
  /\ from \in [1 .. (Len(raw) + 2) -> Seq(Kinds)] /\ from[Len(raw) + 1] = <<>>
  /\ \A i \in 1 .. Len(raw) :
       /\ IsCueHead(raw, i) => from[i] = from[i + 2]
       /\ ~IsCueHead(raw, i) =>
            from[i] = IF raw[i] \in {"blank", "time"} THEN from[i + 1]
                                                      ELSE <<raw[i]>> \o from[i + 1]

LEMMA KeptReads ==
  ASSUME NEW raw \in Seq(Kinds)
  PROVE  \E from : Reads(from, raw) /\ Kept(raw) = from[1]
<1> DEFINE m == Len(raw)
           next(i, a, b) == CASE i > m -> <<>>
                              [] IsCueHead(raw, i) -> b
                              [] i <= m /\ Line(raw, i) \in {"blank", "time"} -> a
                              [] OTHER -> <<raw[i]>> \o a
           from[i \in 1 .. (m + 2)] ==
             CASE i > m -> <<>>
               [] IsCueHead(raw, i) -> from[i + 2]
               [] i <= m /\ Line(raw, i) \in {"blank", "time"} -> from[i + 1]
               [] OTHER -> <<raw[i]>> \o from[i + 1]
           T == Seq(Kinds) \X Seq(Kinds)
           step == [p \in T \X (1 .. (m + 1)) |->
                      <<next(m + 2 - p[2], p[1][1], p[1][2]), p[1][1]>>]
<1>1. /\ m \in Nat /\ \A i \in 1 .. m : raw[i] \in Kinds /\ Line(raw, i) = raw[i]
      /\ \A i \in Int : i > m => Line(raw, i) = "blank"
  <2>1. m \in Nat /\ DOMAIN raw = 1 .. m
    BY LenProperties
  <2> QED BY <2>1, ElementOfSeq DEF Line
<1>2. Kept(raw) = from[1]
  BY DEF Kept
<1>3. \A i \in 1 .. m : IsCueHead(raw, i) => i + 1 <= m
  <2> SUFFICES ASSUME NEW i \in 1 .. m, IsCueHead(raw, i) PROVE i + 1 <= m
    OBVIOUS
  <2>1. Line(raw, i + 1) = "time"
    BY DEF IsCueHead
  <2> QED BY <1>1, <2>1
<1>4. ASSUME NEW i \in 1 .. (m + 1), NEW a \in Seq(Kinds), NEW b \in Seq(Kinds)
      PROVE  next(i, a, b) \in Seq(Kinds)
  <2>1. CASE i > m
    BY <2>1, EmptySeq
  <2>2. CASE ~(i > m)
    <3>1. raw[i] \in Kinds
      BY <1>1, <2>2
    <3>2. <<raw[i]>> \in Seq(Kinds)
      BY <3>1
    <3>3. <<raw[i]>> \o a \in Seq(Kinds)
      BY <3>2, ConcatProperties
    <3> QED BY <2>2, <3>3
  <2> QED BY <2>1, <2>2
<1>5. /\ \A i \in Int : i > m => \A a, b : next(i, a, b) = <<>>
      /\ \A i \in 1 .. m : \A a, b :
           next(i, a, b) = IF IsCueHead(raw, i) THEN b
                           ELSE IF Line(raw, i) \in {"blank", "time"} THEN a
                           ELSE <<raw[i]>> \o a
  <2>1. ASSUME NEW i \in Int, i > m, NEW a, NEW b PROVE next(i, a, b) = <<>>
    <3>1. ~IsCueHead(raw, i) /\ ~(i <= m)
      BY <1>1, <2>1 DEF IsCueHead
    <3> QED BY <2>1, <3>1
  <2>2. ASSUME NEW i \in 1 .. m, NEW a, NEW b
        PROVE  next(i, a, b) = IF IsCueHead(raw, i) THEN b
                               ELSE IF Line(raw, i) \in {"blank", "time"} THEN a
                               ELSE <<raw[i]>> \o a
    <3>1. /\ ~(i > m) /\ i <= m
          /\ IsCueHead(raw, i) => Line(raw, i) \notin {"blank", "time"}
      BY <1>1 DEF IsCueHead
    <3> QED BY <3>1
  <2> QED BY <2>1, <2>2
<1>6. \A f : [i \in 1 .. (m + 2) |->
                CASE i > m -> <<>>
                  [] IsCueHead(raw, i) -> f[i + 2]
                  [] i <= m /\ Line(raw, i) \in {"blank", "time"} -> f[i + 1]
                  [] OTHER -> <<raw[i]>> \o f[i + 1]]
              = [i \in 1 .. (m + 2) |-> next(i, f[i + 1], f[i + 2])]
  OBVIOUS
<1>7. step \in [T \X (1 .. (m + 1)) -> T]
  <2>1. ASSUME NEW p \in T \X (1 .. (m + 1))
        PROVE  <<next(m + 2 - p[2], p[1][1], p[1][2]), p[1][1]>> \in T
    <3>1. p[1][1] \in Seq(Kinds) /\ p[1][2] \in Seq(Kinds) /\ m + 2 - p[2] \in 1 .. (m + 1)
      BY <1>1, <2>1
    <3> HIDE DEF next
    <3> QED BY <1>4, <3>1
  <2> HIDE DEF next
  <2> QED BY <2>1
<1> HIDE DEF next, m
<1>8. \A t \in T : \A n \in 1 .. (m + 1) :
        step[<<t, n>>] = <<next(m + 2 - n, t[1], t[2]), t[1]>>
  OBVIOUS
<1> HIDE DEF step
<1>9. <<<<>>, <<>>>> \in T
  BY EmptySeq
<1>10. PICK g : Follows(g, m + 1, T, <<<<>>, <<>>>>, step)
  <2>1. m + 1 \in Nat
    BY <1>1
  <2> QED BY <1>7, <1>9, <2>1, RecursionExists
<1>11. /\ g[0] = <<<<>>, <<>>>>
       /\ \A n \in 1 .. (m + 1) :
            /\ g[n][1] = next(m + 2 - n, g[n - 1][1], g[n - 1][2])
            /\ g[n][2] = g[n - 1][1]
  <2>1. g[0] = <<<<>>, <<>>>>
    BY <1>10 DEF Follows
  <2>2. ASSUME NEW n \in 1 .. (m + 1)
        PROVE  /\ g[n][1] = next(m + 2 - n, g[n - 1][1], g[n - 1][2])
               /\ g[n][2] = g[n - 1][1]
    <3>1. n - 1 \in 0 .. (m + 1)
      BY <1>1
    <3>2. g[n - 1] \in T /\ g[n] = step[<<g[n - 1], n>>]
      BY <1>10, <3>1 DEF Follows
    <3>3. step[<<g[n - 1], n>>] = <<next(m + 2 - n, g[n - 1][1], g[n - 1][2]), g[n - 1][1]>>
      BY <1>8, <3>2
    <3> QED BY <3>2, <3>3
  <2> QED BY <2>1, <2>2
<1> DEFINE h == [i \in 1 .. (m + 2) |-> g[m + 2 - i][1]]
<1>12. ASSUME NEW i \in 1 .. (m + 2) PROVE h[i] = next(i, h[i + 1], h[i + 2])
  <2>1. CASE i = m + 2
    <3>1. h[i] = <<>>
      BY <1>1, <1>11, <2>1
    <3> QED BY <1>1, <1>5, <2>1, <3>1
  <2>2. CASE i \in 1 .. (m + 1)
    <3>1. PICK n \in 1 .. (m + 1) : n = m + 2 - i /\ i = m + 2 - n
      BY <1>1, <2>2
    <3>2. h[i] = g[n][1] /\ h[i + 1] = g[n - 1][1]
      <4>1. m + 2 - (i + 1) = n - 1 /\ i + 1 \in 1 .. (m + 2)
        BY <1>1, <2>2, <3>1
      <4>2. h[i + 1] = g[m + 2 - (i + 1)][1]
        BY <4>1
      <4> QED BY <3>1, <4>1, <4>2
    <3>3. g[n][1] = next(i, g[n - 1][1], g[n - 1][2])
      BY <1>11, <3>1
    <3>4. CASE i > m
      BY <1>5, <3>2, <3>3, <3>4
    <3>5. CASE ~(i > m)
      <4>1. n - 1 \in 1 .. (m + 1) /\ i + 2 \in 1 .. (m + 2) /\ m + 2 - (i + 2) = n - 1 - 1
        BY <1>1, <3>1, <3>5
      <4>2. g[n - 1][2] = g[n - 1 - 1][1]
        BY <1>11, <4>1, Zenon
      <4>3. h[i + 2] = g[m + 2 - (i + 2)][1]
        BY <4>1
      <4> QED BY <3>2, <3>3, <4>1, <4>2, <4>3
    <3> QED BY <3>4, <3>5
  <2> QED BY <1>1, <2>1, <2>2
<1>13. h = [i \in 1 .. (m + 2) |-> next(i, h[i + 1], h[i + 2])]
  <2>1. h = [i \in 1 .. (m + 2) |-> h[i]]
    OBVIOUS
  <2> HIDE DEF h
  <2> QED BY <1>12, <2>1
<1> HIDE DEF h
<1>14. from = [i \in 1 .. (m + 2) |-> next(i, from[i + 1], from[i + 2])]
  <2>1. h = [i \in 1 .. (m + 2) |->
               CASE i > m -> <<>>
                 [] IsCueHead(raw, i) -> h[i + 2]
                 [] i <= m /\ Line(raw, i) \in {"blank", "time"} -> h[i + 1]
                 [] OTHER -> <<raw[i]>> \o h[i + 1]]
    BY <1>6, <1>13
  <2>2. from = [i \in 1 .. (m + 2) |->
               CASE i > m -> <<>>
                 [] IsCueHead(raw, i) -> from[i + 2]
                 [] i <= m /\ Line(raw, i) \in {"blank", "time"} -> from[i + 1]
                 [] OTHER -> <<raw[i]>> \o from[i + 1]]
    BY <2>1
  <2> QED BY <1>6, <2>2
<1> HIDE DEF from
<1>15. \A i \in 1 .. (m + 2) : from[i] = next(i, from[i + 1], from[i + 2])
  BY <1>14
<1> DEFINE Typed == {n \in 0 .. (m + 1) :
                       from[m + 2 - n] \in Seq(Kinds)
                         /\ (n > 0 => from[m + 3 - n] \in Seq(Kinds))}
<1>16. from[m + 2] = <<>> /\ from[m + 1] = <<>> /\ <<>> \in Seq(Kinds)
  <2>1. \A i \in {m + 1, m + 2} : i \in 1 .. (m + 2) /\ i \in Int /\ i > m
    BY <1>1
  <2>2. \A i \in {m + 1, m + 2} : from[i] = <<>>
    BY <1>5, <1>15, <2>1
  <2> QED BY <2>2, EmptySeq
<1>17. 0 \in Typed
  <2>1. m + 2 - 0 = m + 2 /\ 0 \in 0 .. (m + 1) /\ ~(0 > 0)
    BY <1>1
  <2> QED BY <1>16, <2>1
<1>18. ASSUME NEW n \in 1 .. (m + 1), n - 1 \in Typed PROVE n \in Typed
  <2> DEFINE i == m + 2 - n
  <2>1. i \in 1 .. (m + 1) /\ n \in 0 .. (m + 1) /\ m + 2 - (n - 1) = i + 1
        /\ m + 3 - n = i + 1 /\ m + 3 - (n - 1) = i + 2 /\ i \in 1 .. (m + 2)
    BY <1>1
  <2>2. from[i + 1] \in Seq(Kinds) /\ (n > 1 => from[i + 2] \in Seq(Kinds))
    BY <1>18, <2>1
  <2>3. from[i] \in Seq(Kinds)
    <3>1. CASE n > 1
      BY <1>4, <1>15, <2>1, <2>2, <3>1
    <3>2. CASE n = 1
      <4>1. i = m + 1
        BY <1>1, <3>2
      <4> QED BY <1>16, <4>1
    <3> QED BY <3>1, <3>2
  <2> QED BY <2>1, <2>2, <2>3
<1> HIDE DEF Typed
<1>19. \A n \in 0 .. (m + 1) : n \in Typed
  <2>1. m + 1 \in Nat
    BY <1>1
  <2> QED BY <1>17, <1>18, <2>1, Induction
<1>20. ASSUME NEW i \in 1 .. (m + 2) PROVE from[i] \in Seq(Kinds)
  <2>1. m + 2 - i \in 0 .. (m + 1) /\ m + 2 - (m + 2 - i) = i
    BY <1>1
  <2> QED BY <1>19, <2>1 DEF Typed
<1>21. from \in [1 .. (m + 2) -> Seq(Kinds)]
  BY <1>14, <1>20
<1>22. ASSUME NEW i \in 1 .. m
       PROVE  /\ IsCueHead(raw, i) => from[i] = from[i + 2]
              /\ ~IsCueHead(raw, i) =>
                   from[i] = IF raw[i] \in {"blank", "time"} THEN from[i + 1]
                                                             ELSE <<raw[i]>> \o from[i + 1]
  <2>1. i \in 1 .. (m + 2) /\ Line(raw, i) = raw[i]
    BY <1>1
  <2>2. from[i] = next(i, from[i + 1], from[i + 2])
    BY <1>15, <2>1
  <2> QED BY <1>5, <2>1, <2>2
<1>23. Reads(from, raw)
  BY <1>16, <1>21, <1>22 DEF Reads, m
<1> QED BY <1>2, <1>23

(***************************************************************************)
(* Where the lines of a cue are in a file.                                 *)
(***************************************************************************)
Starts(s, t) == Len(s) <= Len(t) /\ \A i \in 1 .. Len(s) : t[i] = s[i]

LEMMA JoinsGrow ==
  ASSUME NEW S, NEW seqs \in Seq(Seq(S)), NEW f, Joins(f, seqs, S)
  PROVE  \A n \in 0 .. Len(seqs) : Starts(f[n], f[Len(seqs)])
<1> DEFINE m == Len(seqs)
           Good == {k \in 0 .. m : \A n \in 0 .. k : Starts(f[n], f[k])}
<1>1. /\ m \in Nat /\ \A n \in 0 .. m : f[n] \in Seq(S) /\ Len(f[n]) \in Nat
      /\ \A n \in 1 .. m : seqs[n] \in Seq(S) /\ f[n] = f[n - 1] \o seqs[n]
  <2>1. m \in Nat /\ \A n \in 1 .. m : seqs[n] \in Seq(S)
    BY LenProperties, ElementOfSeq
  <2>2. \A n \in 0 .. m : f[n] \in Seq(S)
    BY DEF Joins
  <2>3. \A n \in 0 .. m : Len(f[n]) \in Nat
    BY <2>2, LenProperties
  <2>4. \A n \in 1 .. m : f[n] = f[n - 1] \o seqs[n]
    BY DEF Joins
  <2> QED BY <2>1, <2>2, <2>3, <2>4
<1> HIDE DEF m
<1>2. 0 \in Good
  BY <1>1 DEF Starts
<1>3. ASSUME NEW k \in 1 .. m, k - 1 \in Good PROVE k \in Good
  <2>1. k \in 0 .. m /\ k - 1 \in 0 .. m
    BY <1>1
  <2>2. Starts(f[k - 1], f[k])
    <3>1. f[k - 1] \in Seq(S) /\ seqs[k] \in Seq(S) /\ f[k] = f[k - 1] \o seqs[k]
      BY <1>1, <2>1
    <3>2. Concats(f[k], f[k - 1], seqs[k])
      BY <3>1, ConcatParts
    <3>3. \A i \in 1 .. Len(f[k - 1]) : f[k][i] = f[k - 1][i]
      BY <3>2, Zenon DEF Concats
    <3>4. ASSUME NEW a \in Nat, NEW b \in Nat PROVE a <= a + b
      OBVIOUS
    <3>5. Len(f[k - 1]) <= Len(f[k])
      BY <3>2, <3>4, Zenon DEF Concats
    <3> QED BY <3>3, <3>5, Zenon DEF Starts
  <2>3. ASSUME NEW n \in 0 .. k PROVE Starts(f[n], f[k])
    <3>1. CASE n = k
      BY <1>1, <2>1, <3>1 DEF Starts
    <3>2. CASE n # k
      <4>1. n \in 0 .. (k - 1) /\ n \in 0 .. m
        BY <1>1, <3>2
      <4>2. Starts(f[n], f[k - 1])
        BY <1>3, <4>1
      <4>3. Len(f[n]) \in Nat /\ Len(f[k - 1]) \in Nat /\ Len(f[k]) \in Nat
        BY <1>1, <2>1, <4>1
      <4> QED BY <2>2, <4>2, <4>3 DEF Starts
    <3> QED BY <3>1, <3>2
  <2> QED BY <2>1, <2>3
<1> HIDE DEF Good
<1>4. \A k \in 0 .. m : k \in Good
  BY <1>1, <1>2, <1>3, Induction
<1>5. m \in 0 .. m
  BY <1>1
<1> QED BY <1>4, <1>5 DEF Good, m

\* The cue whose lines follow the first `at' of raw, up to the first `end'.
CueAt(raw, at, end, lead, caption) ==
  /\ at \in Nat /\ end = at + Len(lead) + Len(caption) + 1 /\ end <= Len(raw)
  /\ \A i \in 1 .. Len(lead) : raw[at + i] = lead[i]
  /\ \A i \in 1 .. Len(caption) : raw[at + Len(lead) + i] = caption[i]
  /\ raw[end] = "blank"

LEMMA CueLines ==
  ASSUME NEW header \in Seq(Kinds), NEW body \in Seq(Kinds), NEW old \in Seq(Kinds),
         NEW lead \in Seq(Kinds), NEW caption \in Seq(Kinds),
         NEW new, new = old \o (lead \o caption \o <<"blank">>), Starts(new, body)
  PROVE  CueAt(header \o body, Len(header) + Len(old), Len(header) + Len(new), lead, caption)
<1> DEFINE both == lead \o caption
           cue == both \o <<"blank">>
           raw == header \o body
           l == Len(lead)
           c == Len(caption)
           h == Len(header)
           o == Len(old)
<1>1. /\ both \in Seq(Kinds) /\ Len(both) = l + c /\ l \in Nat /\ c \in Nat
      /\ \A i \in 1 .. l : both[i] = lead[i]
      /\ \A i \in 1 .. c : both[l + i] = caption[i]
  <2>1. both \in Seq(Kinds) /\ Concats(both, lead, caption)
    BY ConcatParts
  <2> QED BY <2>1, Zenon DEF Concats
<1>2. <<"blank">> \in Seq(Kinds) /\ Len(<<"blank">>) = 1 /\ <<"blank">>[1] = "blank"
  BY DEF Kinds
<1> HIDE DEF both
<1>3. /\ cue \in Seq(Kinds) /\ Len(cue) = Len(both) + Len(<<"blank">>)
      /\ \A i \in 1 .. Len(both) : cue[i] = both[i]
      /\ \A i \in 1 .. Len(<<"blank">>) : cue[Len(both) + i] = <<"blank">>[i]
  <2>1. cue \in Seq(Kinds) /\ Concats(cue, both, <<"blank">>)
    BY <1>1, <1>2, ConcatParts
  <2> QED BY <2>1, Zenon DEF Concats
<1> HIDE DEF cue
<1>4. Len(cue) = l + c + 1 /\ cue[l + c + 1] = "blank" /\ l + c + 1 \in 1 .. Len(cue)
  BY <1>1, <1>2, <1>3
<1>5. /\ Len(new) = o + Len(cue) /\ o \in Nat /\ \A i \in 1 .. Len(cue) : new[o + i] = cue[i]
  <2>1. new = old \o cue
    BY DEF cue, both
  <2>2. Concats(new, old, cue)
    BY <1>3, <2>1, ConcatParts
  <2> QED BY <2>2, Zenon DEF Concats
<1>6. /\ Len(raw) = h + Len(body) /\ h \in Nat /\ Len(body) \in Nat
      /\ \A i \in 1 .. Len(body) : raw[h + i] = body[i]
  <2>1. Concats(raw, header, body)
    BY ConcatParts
  <2> QED BY <2>1, Zenon DEF Concats
<1> HIDE DEF raw
<1>7. Len(new) <= Len(body) /\ \A i \in 1 .. Len(new) : body[i] = new[i]
  BY DEF Starts
<1> HIDE DEF l, c, h, o
<1>8. ASSUME NEW i \in 1 .. Len(cue), NEW at, at = h + o PROVE raw[at + i] = cue[i]
  <2>1. PICK k \in 1 .. Len(new) : k = o + i
    BY <1>1, <1>4, <1>5
  <2>2. k \in 1 .. Len(body) /\ at + i = h + k
    BY <1>1, <1>4, <1>5, <1>6, <1>7, <1>8, <2>1
  <2>3. raw[h + k] = body[k] /\ body[k] = new[k]
    BY <1>6, <1>7, <2>2
  <2>4. new[k] = cue[i]
    BY <1>5, <2>1
  <2> QED BY <2>2, <2>3, <2>4
<1>9. PICK at \in Nat : at = h + o
  BY <1>5, <1>6
<1>10. ASSUME NEW i \in 1 .. l PROVE raw[at + i] = lead[i]
  <2>1. i \in 1 .. Len(cue) /\ i \in 1 .. Len(both)
    BY <1>1, <1>4
  <2> QED BY <1>1, <1>3, <1>8, <1>9, <2>1
<1>11. ASSUME NEW i \in 1 .. c PROVE raw[at + l + i] = caption[i]
  <2>1. PICK k \in 1 .. Len(cue) : k = l + i /\ k \in 1 .. Len(both)
    BY <1>1, <1>4
  <2>2. at + l + i = at + k
    BY <1>1, <1>9, <2>1
  <2>3. raw[at + k] = cue[k] /\ cue[k] = both[k]
    BY <1>3, <1>8, <1>9, <2>1
  <2> QED BY <1>1, <2>1, <2>2, <2>3
<1>12. PICK end \in Nat : end = at + (l + c + 1)
  BY <1>1, <1>9
<1>13. raw[end] = "blank"
  BY <1>4, <1>8, <1>9, <1>12
<1>14. end = h + Len(new) /\ end <= Len(raw) /\ end = at + l + c + 1
  <2>1. PICK n \in Nat : n = Len(new)
    BY <1>1, <1>4, <1>5
  <2>2. n = o + (l + c + 1)
    BY <1>4, <1>5, <2>1
  <2>3. PICK b \in Nat : b = Len(body)
    BY <1>6
  <2>4. n <= b /\ Len(raw) = h + b
    BY <1>6, <1>7, <2>1, <2>3, Zenon
  <2>5. end = h + n /\ end <= h + b /\ end = at + l + c + 1
    BY <1>1, <1>5, <1>6, <1>9, <1>12, <2>2, <2>4
  <2> QED BY <2>1, <2>4, <2>5, Zenon
<1>15. CueAt(raw, at, end, lead, caption)
  BY <1>10, <1>11, <1>13, <1>14 DEF CueAt, l, c
<1> QED BY <1>9, <1>14, <1>15 DEF raw, h, o

\* Where the cues of a file end.
Placed(end, raw, header, lead, captions) ==
  /\ end \in [0 .. Len(captions) -> Nat]
  /\ end[0] = Len(header) /\ end[Len(captions)] = Len(raw)
  /\ \A n \in 1 .. Len(captions) : CueAt(raw, end[n - 1], end[n], lead, captions[n])
  /\ \A i \in 1 .. Len(header) : raw[i] = header[i]

Spoken == {"text", "digits"}

LEMMA CuesArePlaced ==
  ASSUME NEW header \in Seq(Kinds), NEW lead \in Seq(Kinds), NEW captions \in Seq(Seq(Spoken)),
         NEW raw, raw = Cues(header, lead, captions)
  PROVE  raw \in Seq(Kinds) /\ \E end : Placed(end, raw, header, lead, captions)
<1> DEFINE m == Len(captions)
           cue(n) == lead \o captions[n] \o <<"blank">>
           cues == [n \in 1 .. m |-> cue(n)]
           body == FlattenSeq(cues)
<1>1. m \in Nat /\ DOMAIN captions = 1 .. m /\ \A n \in 1 .. m : captions[n] \in Seq(Kinds)
  <2>1. m \in Nat /\ DOMAIN captions = 1 .. m
    BY LenProperties
  <2>2. ASSUME NEW n \in 1 .. m PROVE captions[n] \in Seq(Kinds)
    <3>1. captions[n] \in Seq(Spoken) /\ Spoken \subseteq Kinds
      BY ElementOfSeq DEF Spoken, Kinds
    <3> QED BY <3>1, SeqMonotonic
  <2> QED BY <2>1, <2>2
<1>2. raw = header \o body
  <2>1. cues = [n \in DOMAIN captions |-> lead \o captions[n] \o <<"blank">>]
    BY <1>1
  <2> HIDE DEF cues
  <2> QED BY <2>1 DEF Cues
<1>3. ASSUME NEW n \in 1 .. m PROVE cue(n) \in Seq(Kinds)
  <2>1. lead \o captions[n] \in Seq(Kinds)
    BY <1>1, ConcatProperties
  <2>2. <<"blank">> \in Seq(Kinds)
    BY DEF Kinds
  <2> QED BY <2>1, <2>2, ConcatProperties
<1>4. cues \in Seq(Seq(Kinds)) /\ Len(cues) = m /\ \A n \in 1 .. m : cues[n] = cue(n)
  <2>1. cues \in [1 .. m -> Seq(Kinds)]
    BY <1>3
  <2>2. cues \in UNION {[1 .. k -> Seq(Kinds)] : k \in Nat}
    BY <1>1, <2>1
  <2>3. cues \in Seq(Seq(Kinds))
    BY <2>2, SeqDef
  <2>4. Len(cues) = m
    <3>1. DOMAIN cues = 1 .. m /\ DOMAIN cues = 1 .. Len(cues) /\ Len(cues) \in Nat
      BY <2>3, LenProperties
    <3> HIDE DEF cues
    <3> QED BY <1>1, <3>1
  <2> QED BY <2>3, <2>4
<1> HIDE DEF cue, cues, m
<1>5. PICK f : Joins(f, cues, Kinds) /\ body = f[m]
  BY <1>4, FlattenJoins
<1>6. /\ f[0] = <<>> /\ \A n \in 0 .. m : f[n] \in Seq(Kinds) /\ Starts(f[n], body)
      /\ \A n \in 1 .. m : f[n] = f[n - 1] \o cue(n)
  <2>1. \A n \in 0 .. m : Starts(f[n], body)
    BY <1>4, <1>5, JoinsGrow
  <2>2. f[0] = <<>> /\ \A n \in 0 .. m : f[n] \in Seq(Kinds)
    BY <1>4, <1>5 DEF Joins
  <2>3. \A n \in 1 .. m : f[n] = f[n - 1] \o cue(n)
    BY <1>4, <1>5 DEF Joins
  <2> QED BY <2>1, <2>2, <2>3
<1>7. body \in Seq(Kinds) /\ m \in 0 .. m
  BY <1>1, <1>5, <1>6
<1> HIDE DEF body
<1>8. raw \in Seq(Kinds) /\ Concats(raw, header, body)
  BY <1>2, <1>7, ConcatParts
<1> DEFINE end == [n \in 0 .. m |-> Len(header) + Len(f[n])]
<1>9. end \in [0 .. m -> Nat]
  <2>1. ASSUME NEW n \in 0 .. m PROVE Len(header) + Len(f[n]) \in Nat
    <3>1. Len(header) \in Nat /\ Len(f[n]) \in Nat
      BY <1>6, LenProperties
    <3> QED BY <3>1
  <2> QED BY <2>1
<1>10. end[0] = Len(header) /\ end[m] = Len(raw)
  <2>1. end[0] = Len(header) + Len(f[0]) /\ end[m] = Len(header) + Len(f[m])
    BY <1>1
  <2>2. Len(f[0]) = 0 /\ Len(header) \in Nat /\ Len(raw) = Len(header) + Len(f[m])
    BY <1>5, <1>6, <1>8, EmptySeq DEF Concats
  <2> HIDE DEF end
  <2> QED BY <2>1, <2>2
<1>11. ASSUME NEW n \in 1 .. m PROVE CueAt(raw, end[n - 1], end[n], lead, captions[n])
  <2>1. n \in 0 .. m /\ n - 1 \in 0 .. m
    BY <1>1
  <2>2. end[n - 1] = Len(header) + Len(f[n - 1]) /\ end[n] = Len(header) + Len(f[n])
    BY <2>1
  <2>3. f[n] = f[n - 1] \o (lead \o captions[n] \o <<"blank">>)
    BY <1>6 DEF cue
  <2>4. /\ f[n - 1] \in Seq(Kinds) /\ Starts(f[n], body) /\ captions[n] \in Seq(Kinds)
    BY <1>1, <1>6, <2>1
  <2> HIDE DEF end
  <2>5. CueAt(header \o body, Len(header) + Len(f[n - 1]), Len(header) + Len(f[n]), lead, captions[n])
    BY <1>7, <2>3, <2>4, CueLines
  <2> QED BY <1>2, <2>2, <2>5
<1> HIDE DEF end
<1>12. Placed(end, raw, header, lead, captions)
  BY <1>8, <1>9, <1>10, <1>11, Zenon DEF Placed, Concats, m
<1> QED BY <1>8, <1>12

\* Stated for Kinds: the provers match the operators badly otherwise.
LEMMA Regroup ==
  ASSUME NEW s \in Seq(Kinds), NEW t \in Seq(Kinds), NEW u \in Seq(Kinds)
  PROVE  (s \o t) \o u = s \o (t \o u)
BY ConcatAssociative

(***************************************************************************)
(* What the loop makes of one cue.                                         *)
(***************************************************************************)
LEMMA CaptionRead ==
  ASSUME NEW raw \in Seq(Kinds), NEW from, Reads(from, raw), NEW at \in Nat,
         NEW caption \in Seq(Spoken), at + Len(caption) + 1 <= Len(raw),
         \A i \in 1 .. Len(caption) : raw[at + i] = caption[i],
         raw[at + Len(caption) + 1] = "blank"
  PROVE  from[at + 1] = caption \o from[at + Len(caption) + 2]
<1> DEFINE c == Len(caption)
           m == Len(raw)
           Good == {k \in 0 .. c : from[at + 1] = SubSeq(caption, 1, k) \o from[at + k + 1]}
<1>1. /\ c \in Nat /\ m \in Nat /\ DOMAIN raw = 1 .. m /\ at + c + 1 <= m
      /\ \A i \in 1 .. c : caption[i] \in Spoken
  BY LenProperties, ElementOfSeq
<1>2. \A i \in 1 .. (m + 2) : from[i] \in Seq(Kinds)
  BY DEF Reads
<1>3. caption \in Seq(Kinds)
  <2>1. Spoken \subseteq Kinds
    BY DEF Spoken, Kinds
  <2> QED BY <2>1, SeqMonotonic
<1> HIDE DEF c, m
<1>4. ASSUME NEW k \in 1 .. c, NEW i, i = at + k
      PROVE  from[i] = <<caption[k]>> \o from[i + 1]
  <2>1. i \in 1 .. m /\ i + 1 \in 1 .. m
    BY <1>1, <1>4
  <2>2. raw[i] = caption[k] /\ caption[k] \in Spoken
    BY <1>1, <1>4 DEF c
  <2>3. raw[i + 1] # "time"
    <3>1. CASE k = c
      BY <1>4, <3>1 DEF c
    <3>2. CASE k # c
      <4>1. k + 1 \in 1 .. c /\ i + 1 = at + (k + 1)
        BY <1>1, <1>4, <3>2
      <4>2. raw[i + 1] = caption[k + 1]
        BY <4>1 DEF c
      <4> QED BY <1>1, <4>1, <4>2 DEF Spoken
    <3> QED BY <3>1, <3>2
  <2>4. ~IsCueHead(raw, i)
    BY <1>1, <2>1, <2>3 DEF IsCueHead, Line
  <2>5. raw[i] \notin {"blank", "time"}
    BY <2>2 DEF Spoken
  <2> QED BY <2>1, <2>2, <2>4, <2>5 DEF Reads, m
<1>5. 0 \in Good
  <2>1. SubSeq(caption, 1, 0) = <<>>
    BY SubSeqEmpty
  <2>2. at + 0 + 1 = at + 1 /\ at + 1 \in 1 .. (m + 2) /\ 0 \in 0 .. c
    BY <1>1
  <2>3. <<>> \o from[at + 1] = from[at + 1]
    BY <1>2, <2>2, ConcatEmptySeq
  <2> QED BY <2>1, <2>2, <2>3
<1>6. ASSUME NEW k \in 1 .. c, k - 1 \in Good PROVE k \in Good
  <2>1. PICK i \in 1 .. m : i = at + k /\ i = at + (k - 1) + 1 /\ at + k + 1 = i + 1
                             /\ i + 1 \in 1 .. (m + 2)
    BY <1>1
  <2>2. from[at + 1] = SubSeq(caption, 1, k - 1) \o from[i]
    BY <1>6, <2>1
  <2>3. from[i] = <<caption[k]>> \o from[i + 1]
    BY <1>4, <2>1
  <2>4. SubSeq(caption, 1, k) = SubSeq(caption, 1, k - 1) \o <<caption[k]>>
    <3>1. 1 \in 1 .. c /\ k \in 1 .. c
      BY <1>1
    <3> QED BY <1>3, <3>1, SubSeqRecursiveSecond DEF c
  <2>5. SubSeq(caption, 1, k - 1) \in Seq(Kinds) /\ <<caption[k]>> \in Seq(Kinds)
    <3>1. \A j \in 1 .. (k - 1) : caption[j] \in Kinds
      BY <1>1 DEF Spoken, Kinds
    <3>2. caption[k] \in Kinds /\ k - 1 \in Int /\ 1 \in Int
      BY <1>1 DEF Spoken, Kinds
    <3>3. SubSeq(caption, 1, k - 1) \in Seq(Kinds)
      BY <3>1, <3>2, SubSeqProperties
    <3> QED BY <3>2, <3>3
  <2>6. from[i + 1] \in Seq(Kinds)
    BY <1>2, <2>1
  <2>7. (SubSeq(caption, 1, k - 1) \o <<caption[k]>>) \o from[i + 1]
          = SubSeq(caption, 1, k - 1) \o (<<caption[k]>> \o from[i + 1])
    BY <2>5, <2>6, Regroup
  <2>8. k \in 0 .. c
    BY <1>1
  <2> QED BY <2>1, <2>2, <2>3, <2>4, <2>7, <2>8
<1> HIDE DEF Good
<1>7. \A k \in 0 .. c : k \in Good
  BY <1>1, <1>5, <1>6, Induction
<1>8. from[at + 1] = SubSeq(caption, 1, c) \o from[at + c + 1]
  <2>1. c \in 0 .. c
    BY <1>1
  <2> QED BY <1>7, <2>1 DEF Good
<1>9. SubSeq(caption, 1, c) = caption
  BY <1>3, SubSeqFull DEF c
<1>10. from[at + c + 1] = from[at + c + 2]
  <2>1. PICK i \in 1 .. m : i = at + c + 1 /\ i + 1 = at + c + 2
    BY <1>1
  <2>2. raw[i] = "blank"
    BY <2>1 DEF c
  <2>3. ~IsCueHead(raw, i)
    BY <1>1, <2>1, <2>2 DEF IsCueHead, Line
  <2>4. from[i] = from[i + 1]
    BY <2>1, <2>2, <2>3 DEF Reads, m
  <2> QED BY <2>1, <2>4
<1> QED BY <1>8, <1>9, <1>10 DEF c

\* From the first `at' of raw on, what is kept is s, and then what is kept
\* after the first `end'.
Keeps(raw, from, at, end, s) ==
  end \in Nat /\ end <= Len(raw) /\ from[at + 1] = s \o from[end + 1]

LEMMA NumberedCueRead ==
  ASSUME NEW raw \in Seq(Kinds), NEW from, Reads(from, raw), NEW at, NEW end,
         NEW caption \in Seq(Spoken), NEW lead, lead = <<"digits", "time">>,
         CueAt(raw, at, end, lead, caption)
  PROVE  Keeps(raw, from, at, end, caption)
<1>1. /\ at \in Nat /\ Len(caption) \in Nat /\ Len(raw) \in Nat /\ DOMAIN raw = 1 .. Len(raw)
      /\ end = at + 2 + Len(caption) + 1 /\ end <= Len(raw)
      /\ raw[at + 1] = "digits" /\ raw[at + 2] = "time" /\ raw[end] = "blank"
      /\ \A i \in 1 .. Len(caption) : raw[at + 2 + i] = caption[i]
  <2>1. Len(<<"digits", "time">>) = 2 /\ 1 \in 1 .. 2 /\ 2 \in 1 .. 2
    OBVIOUS
  <2>2. raw[at + 1] = "digits" /\ raw[at + 2] = "time"
    BY <2>1 DEF CueAt
  <2> QED BY <2>1, <2>2, LenProperties DEF CueAt
<1>2. PICK i \in 1 .. Len(raw) : i = at + 1 /\ i + 1 = at + 2 /\ i + 2 = at + 2 + 1
                                  /\ i + 1 \in 1 .. Len(raw)
  BY <1>1
<1>3. IsCueHead(raw, i)
  BY <1>1, <1>2 DEF IsCueHead, Line
<1>4. from[at + 1] = from[at + 2 + 1]
  BY <1>2, <1>3 DEF Reads
<1>5. PICK b \in Nat : b = at + 2
  BY <1>1
<1>6. end = b + Len(caption) + 1 /\ end + 1 = b + Len(caption) + 2 /\ end \in Nat
  BY <1>1, <1>5
<1>7. from[b + 1] = caption \o from[b + Len(caption) + 2]
  <2>1. b + Len(caption) + 1 <= Len(raw) /\ raw[b + Len(caption) + 1] = "blank"
    BY <1>1, <1>5, <1>6
  <2>2. ASSUME NEW k \in 1 .. Len(caption) PROVE raw[b + k] = caption[k]
    BY <1>1, <1>5, <1>6
  <2> QED BY <1>5, <2>1, <2>2, CaptionRead, Zenon
<1>8. from[at + 1] = caption \o from[end + 1]
  BY <1>4, <1>5, <1>6, <1>7
<1> QED BY <1>1, <1>6, <1>8 DEF Keeps

LEMMA UnnumberedCueRead ==
  ASSUME NEW raw \in Seq(Kinds), NEW from, Reads(from, raw), NEW at, NEW end,
         NEW caption \in Seq(Spoken), NEW lead, lead = <<"text">>,
         CueAt(raw, at, end, lead, caption)
  PROVE  Keeps(raw, from, at, end, lead \o caption)
<1>1. /\ at \in Nat /\ Len(caption) \in Nat /\ Len(raw) \in Nat /\ DOMAIN raw = 1 .. Len(raw)
      /\ end = at + 1 + Len(caption) + 1 /\ end <= Len(raw)
      /\ raw[at + 1] = "text" /\ raw[end] = "blank"
      /\ \A i \in 1 .. Len(caption) : raw[at + 1 + i] = caption[i]
  <2>1. Len(<<"text">>) = 1 /\ 1 \in 1 .. 1
    OBVIOUS
  <2>2. raw[at + 1] = "text"
    BY <2>1 DEF CueAt
  <2> QED BY <2>1, <2>2, LenProperties DEF CueAt
<1>2. PICK i \in 1 .. Len(raw) : i = at + 1
  BY <1>1
<1>3. ~IsCueHead(raw, i)
  BY <1>1, <1>2 DEF IsCueHead, Line
<1>4. from[i] = <<"text">> \o from[i + 1]
  BY <1>1, <1>2, <1>3 DEF Reads
<1>5. i \in Nat
  BY <1>1, <1>2
<1>6. end = i + Len(caption) + 1 /\ end + 1 = i + Len(caption) + 2 /\ end \in Nat
  BY <1>1, <1>2
<1>7. from[i + 1] = caption \o from[i + Len(caption) + 2]
  <2>1. i + Len(caption) + 1 <= Len(raw) /\ raw[i + Len(caption) + 1] = "blank"
    BY <1>1, <1>2, <1>6
  <2>2. ASSUME NEW k \in 1 .. Len(caption) PROVE raw[i + k] = caption[k]
    BY <1>1, <1>2, <1>6
  <2> QED BY <1>5, <2>1, <2>2, CaptionRead, Zenon
<1>8. from[at + 1] = lead \o (caption \o from[end + 1])
  BY <1>2, <1>4, <1>6, <1>7
<1>9. lead \in Seq(Kinds) /\ caption \in Seq(Kinds) /\ from[end + 1] \in Seq(Kinds)
  <2>1. Spoken \subseteq Kinds /\ "text" \in Kinds
    BY DEF Spoken, Kinds
  <2>2. end + 1 \in 1 .. (Len(raw) + 2)
    BY <1>1, <1>6
  <2> QED BY <2>1, <2>2, SeqMonotonic DEF Reads
<1>10. (lead \o caption) \o from[end + 1] = lead \o (caption \o from[end + 1])
  BY <1>9, Regroup
<1> QED BY <1>1, <1>6, <1>8, <1>10 DEF Keeps

(***************************************************************************)
(* What it makes of a file, cue by cue.                                    *)
(***************************************************************************)
LEMMA CaptionTypes ==
  ASSUME NEW captions \in Seq(Seq(Spoken)), NEW f, Joins(f, captions, Spoken)
  PROVE  /\ Len(captions) \in Nat /\ f[0] = <<>>
         /\ \A n \in 0 .. Len(captions) : f[n] \in Seq(Kinds)
         /\ \A n \in 1 .. Len(captions) :
              captions[n] \in Seq(Spoken) /\ captions[n] \in Seq(Kinds)
                /\ f[n] = f[n - 1] \o captions[n]
<1>1. Spoken \subseteq Kinds
  BY DEF Spoken, Kinds
<1>2. Seq(Spoken) \subseteq Seq(Kinds)
  BY <1>1, SeqMonotonic
<1>3. Len(captions) \in Nat /\ \A n \in 1 .. Len(captions) : captions[n] \in Seq(Spoken)
  BY LenProperties, ElementOfSeq
<1> QED BY <1>2, <1>3 DEF Joins

LEMMA SrtRead ==
  ASSUME NEW captions \in Seq(Seq(Spoken))
  PROVE  Kept(SrtFile(captions)) = FlattenSeq(captions)
<1> DEFINE raw == SrtFile(captions)
           m == Len(captions)
           lead == <<"digits", "time">>
<1>1. raw = Cues(<<>>, lead, captions) /\ <<>> \in Seq(Kinds) /\ lead \in Seq(Kinds)
  BY EmptySeq DEF SrtFile, Kinds
<1> HIDE DEF raw
<1>2. PICK end : raw \in Seq(Kinds) /\ Placed(end, raw, <<>>, lead, captions)
  BY <1>1, CuesArePlaced
<1>3. PICK from : Reads(from, raw) /\ Kept(raw) = from[1]
  BY <1>2, KeptReads
<1>4. PICK f : Joins(f, captions, Spoken) /\ FlattenSeq(captions) = f[m]
  BY FlattenJoins
<1>5. /\ m \in Nat /\ f[0] = <<>> /\ \A n \in 0 .. m : f[n] \in Seq(Kinds)
      /\ \A n \in 1 .. m : captions[n] \in Seq(Spoken) /\ captions[n] \in Seq(Kinds)
                             /\ f[n] = f[n - 1] \o captions[n]
  BY <1>4, CaptionTypes
<1>6. Len(raw) \in Nat /\ \A i \in 1 .. (Len(raw) + 2) : from[i] \in Seq(Kinds)
  BY <1>2, <1>3, LenProperties DEF Reads
<1>7. end[0] = 0 /\ end[m] = Len(raw)
  BY <1>2, EmptySeq DEF Placed
<1> DEFINE Good == {n \in 0 .. m : from[1] = f[n] \o from[end[n] + 1]}
<1>8. 0 \in Good
  <2>1. 0 \in 0 .. m /\ end[0] + 1 = 1 /\ from[1] \in Seq(Kinds)
    BY <1>5, <1>6, <1>7
  <2>2. <<>> \o from[1] = from[1]
    BY <2>1, ConcatEmptySeq
  <2> QED BY <1>5, <2>1, <2>2
<1>9. ASSUME NEW n \in 1 .. m, n - 1 \in Good PROVE n \in Good
  <2>1. CueAt(raw, end[n - 1], end[n], lead, captions[n])
    BY <1>2, Zenon DEF Placed, m
  <2>2. captions[n] \in Seq(Spoken) /\ captions[n] \in Seq(Kinds) /\ f[n] = f[n - 1] \o captions[n]
    BY <1>5
  <2>3. /\ end[n] \in Nat /\ end[n] <= Len(raw)
        /\ from[end[n - 1] + 1] = captions[n] \o from[end[n] + 1]
    <3>1. Keeps(raw, from, end[n - 1], end[n], captions[n])
      BY <1>2, <1>3, <2>1, <2>2, NumberedCueRead
    <3> QED BY <3>1, Zenon DEF Keeps
  <2>4. from[1] = f[n - 1] \o from[end[n - 1] + 1]
    BY <1>9, Zenon
  <2>5. from[end[n] + 1] \in Seq(Kinds)
    BY <1>6, <2>3
  <2>6. f[n - 1] \in Seq(Kinds) /\ n \in 0 .. m
    BY <1>5
  <2>7. (f[n - 1] \o captions[n]) \o from[end[n] + 1] = f[n - 1] \o (captions[n] \o from[end[n] + 1])
    BY <2>2, <2>5, <2>6, Regroup
  <2>8. from[1] = f[n] \o from[end[n] + 1]
    BY <2>2, <2>3, <2>4, <2>7, Zenon
  <2> QED BY <2>6, <2>8
<1> HIDE DEF Good, m
<1>10. \A n \in 0 .. m : n \in Good
  BY <1>5, <1>8, <1>9, Induction
<1>11. from[1] = f[m] \o from[end[m] + 1] /\ f[m] \in Seq(Kinds)
  <2>1. m \in 0 .. m
    BY <1>5
  <2> QED BY <1>5, <1>10, <2>1 DEF Good
<1>12. from[end[m] + 1] = <<>>
  BY <1>3, <1>7 DEF Reads
<1>13. f[m] \o <<>> = f[m]
  BY <1>11, ConcatEmptySeq
<1>14. Kept(raw) = FlattenSeq(captions)
  BY <1>3, <1>4, <1>11, <1>12, <1>13 DEF m
<1> QED BY <1>14 DEF raw

LEMMA EmbedsGrow ==
  ASSUME NEW S, NEW s \in Seq(S), NEW t \in Seq(S), NEW x \in S, NEW c \in Seq(S),
         Embeds(s, t)
  PROVE  Embeds(s \o c, t \o (<<x>> \o c))
<1> DEFINE u == <<x>> \o c
           s2 == s \o c
           t2 == t \o u
           ls == Len(s)
           lt == Len(t)
           lc == Len(c)
<1>1. PICK place \in [DOMAIN s -> DOMAIN t] :
        \A i, k \in DOMAIN s : t[place[i]] = s[i] /\ (i < k => place[i] < place[k])
  BY DEF Embeds
<1>2. /\ DOMAIN s = 1 .. ls /\ DOMAIN t = 1 .. lt /\ ls \in Nat /\ lt \in Nat /\ lc \in Nat
  BY LenProperties
<1>3. u \in Seq(S) /\ Len(u) = 1 + lc /\ \A i \in 1 .. lc : u[1 + i] = c[i]
  <2>1. <<x>> \in Seq(S) /\ Len(<<x>>) = 1
    OBVIOUS
  <2>2. u \in Seq(S) /\ Concats(u, <<x>>, c)
    BY <2>1, ConcatParts
  <2> QED BY <2>1, <2>2 DEF Concats
<1> HIDE DEF u
<1>4. /\ DOMAIN t2 = 1 .. (lt + (1 + lc))
      /\ \A i \in 1 .. lt : t2[i] = t[i]
      /\ \A i \in 1 .. (1 + lc) : t2[lt + i] = u[i]
  <2>1. t2 \in Seq(S) /\ Concats(t2, t, u)
    BY <1>3, ConcatParts
  <2>2. DOMAIN t2 = 1 .. Len(t2)
    BY <2>1, LenProperties
  <2> HIDE DEF t2
  <2> QED BY <1>3, <2>1, <2>2, Zenon DEF Concats
<1>5. /\ DOMAIN s2 = 1 .. (ls + lc)
      /\ \A i \in 1 .. ls : s2[i] = s[i]
      /\ \A i \in 1 .. lc : s2[ls + i] = c[i]
  <2>1. s2 \in Seq(S) /\ Concats(s2, s, c)
    BY ConcatParts
  <2>2. DOMAIN s2 = 1 .. Len(s2)
    BY <2>1, LenProperties
  <2> HIDE DEF s2
  <2> QED BY <2>1, <2>2, Zenon DEF Concats
<1> HIDE DEF s2, t2, ls, lt, lc
<1> DEFINE there == [i \in 1 .. (ls + lc) |-> IF i <= ls THEN place[i] ELSE lt + 1 + (i - ls)]
<1>6. ASSUME NEW i \in 1 .. (ls + lc)
      PROVE  there[i] \in 1 .. (lt + (1 + lc)) /\ t2[there[i]] = s2[i]
  <2>1. CASE i <= ls
    <3>1. i \in 1 .. ls
      BY <1>2, <2>1
    <3>2. there[i] = place[i] /\ place[i] \in 1 .. lt /\ t[place[i]] = s[i]
      BY <1>1, <1>2, <2>1, <3>1
    <3>3. t2[place[i]] = s[i] /\ s2[i] = s[i]
      BY <1>4, <1>5, <3>1, <3>2
    <3> QED BY <1>2, <3>2, <3>3
  <2>2. CASE ~(i <= ls)
    <3>1. PICK k \in 1 .. lc : i = ls + k /\ i - ls = k
      BY <1>2, <2>2
    <3>2. PICK j \in 1 .. (1 + lc) : j = 1 + k
      BY <1>2, <3>1
    <3>3. there[i] = lt + j
      BY <1>2, <2>2, <3>1, <3>2
    <3>4. t2[lt + j] = c[k]
      BY <1>3, <1>4, <3>1, <3>2
    <3>5. s2[i] = c[k]
      BY <1>5, <3>1
    <3> QED BY <1>2, <3>2, <3>3, <3>4, <3>5
  <2> QED BY <2>1, <2>2
<1>7. ASSUME NEW i \in 1 .. (ls + lc), NEW k \in 1 .. (ls + lc), i < k
      PROVE  there[i] < there[k]
  <2>1. CASE k <= ls
    <3>1. i \in 1 .. ls /\ k \in 1 .. ls
      BY <1>2, <1>7, <2>1
    <3>2. place[i] < place[k]
      BY <1>1, <1>2, <1>7, <3>1
    <3> QED BY <3>1, <3>2
  <2>2. CASE i <= ls /\ ~(k <= ls)
    <3>1. place[i] \in 1 .. lt
      BY <1>1, <1>2, <2>2
    <3> QED BY <1>2, <2>2, <3>1
  <2>3. CASE ~(i <= ls)
    BY <1>2, <1>7, <2>3
  <2> QED BY <1>2, <1>7, <2>1, <2>2, <2>3
<1>8. there \in [DOMAIN s2 -> DOMAIN t2]
  BY <1>4, <1>5, <1>6
<1> HIDE DEF there
<1>9. Embeds(s2, t2)
  BY <1>5, <1>6, <1>7, <1>8 DEF Embeds
<1> QED BY <1>9 DEF s2, t2, u

LEMMA VttRead ==
  ASSUME NEW captions \in Seq(Seq(Spoken))
  PROVE  Embeds(FlattenSeq(captions), Kept(VttFile(captions)))
<1> DEFINE raw == VttFile(captions)
           m == Len(captions)
           header == <<"text", "blank">>
           lead == <<"text">>
<1>1. raw = Cues(header, lead, captions) /\ header \in Seq(Kinds)
      /\ lead \in Seq(Kinds) /\ <<>> \in Seq(Kinds)
  BY EmptySeq DEF VttFile, Kinds
<1> HIDE DEF raw
<1>2. PICK end : raw \in Seq(Kinds) /\ Placed(end, raw, header, lead, captions)
  BY <1>1, CuesArePlaced
<1>3. PICK from : Reads(from, raw) /\ Kept(raw) = from[1]
  BY <1>2, KeptReads
<1>4. PICK f : Joins(f, captions, Spoken) /\ FlattenSeq(captions) = f[m]
  BY FlattenJoins
<1>5. /\ m \in Nat /\ f[0] = <<>> /\ \A n \in 0 .. m : f[n] \in Seq(Kinds)
      /\ \A n \in 1 .. m : captions[n] \in Seq(Spoken) /\ captions[n] \in Seq(Kinds)
                             /\ f[n] = f[n - 1] \o captions[n]
  BY <1>4, CaptionTypes
<1>6. /\ Len(raw) \in Nat /\ DOMAIN raw = 1 .. Len(raw)
      /\ \A i \in 1 .. (Len(raw) + 2) : from[i] \in Seq(Kinds)
  BY <1>2, <1>3, LenProperties DEF Reads
<1>7. /\ end[0] = 2 /\ end[m] = Len(raw) /\ raw[1] = "text" /\ raw[2] = "blank"
  BY <1>2 DEF Placed
<1>8. \A n \in 1 .. m : CueAt(raw, end[n - 1], end[n], lead, captions[n])
  BY <1>2, Zenon DEF Placed, m
<1> HIDE DEF header
<1>9. ASSUME NEW n \in 1 .. m
      PROVE  /\ end[n] \in Nat /\ end[n] <= Len(raw)
             /\ from[end[n - 1] + 1] = (lead \o captions[n]) \o from[end[n] + 1]
  <2>1. captions[n] \in Seq(Spoken) /\ CueAt(raw, end[n - 1], end[n], lead, captions[n])
    BY <1>5, <1>8
  <2>2. Keeps(raw, from, end[n - 1], end[n], lead \o captions[n])
    BY <1>2, <1>3, <2>1, UnnumberedCueRead
  <2> QED BY <2>2, Zenon DEF Keeps
<1>10. end[0] <= Len(raw)
  <2>1. CASE m = 0
    BY <1>6, <1>7, <2>1
  <2>2. CASE m # 0
    <3>1. 1 \in 1 .. m /\ end[1 - 1] = end[0]
      BY <1>5, <2>2
    <3>2. end[1] <= Len(raw) /\ end[1] \in Nat /\ CueAt(raw, end[0], end[1], lead, captions[1])
      BY <1>8, <1>9, <3>1
    <3>3. end[0] <= end[1]
      <4>1. Len(lead) = 1 /\ Len(captions[1]) \in Nat
        BY <1>5, <3>1, LenProperties
      <4> QED BY <1>7, <3>2, <4>1 DEF CueAt
    <3> QED BY <1>6, <1>7, <3>2, <3>3
  <2> QED BY <2>1, <2>2
<1>11. from[1] = lead \o from[end[0] + 1] /\ from[end[0] + 1] \in Seq(Kinds)
  <2>1. ~IsCueHead(raw, 1) /\ ~IsCueHead(raw, 2) /\ 1 \in 1 .. Len(raw) /\ 2 \in 1 .. Len(raw)
    BY <1>6, <1>7, <1>10 DEF IsCueHead, Line
  <2>2. from[1] = lead \o from[2]
    <3>1. from[1] = <<raw[1]>> \o from[1 + 1]
      BY <1>3, <1>7, <2>1, Zenon DEF Reads
    <3> QED BY <1>7, <3>1
  <2>3. from[2] = from[3]
    <3>1. from[2] = from[2 + 1]
      BY <1>3, <1>7, <2>1, Zenon DEF Reads
    <3> QED BY <3>1
  <2>4. end[0] + 1 = 3 /\ 3 \in 1 .. (Len(raw) + 2)
    BY <1>6, <1>7, <2>1
  <2> QED BY <1>6, <2>2, <2>3, <2>4
<1> DEFINE Reached(n, g) == from[1] = g \o from[end[n] + 1] /\ Embeds(f[n], g)
           Good == {n \in 0 .. m : \E g \in Seq(Kinds) : Reached(n, g)}
<1>12. 0 \in Good
  <2>1. Embeds(<<>>, lead)
    <3>1. DOMAIN <<>> = {} /\ [i \in {} |-> 1] \in [{} -> DOMAIN lead]
      OBVIOUS
    <3> QED BY <3>1 DEF Embeds
  <2>2. Reached(0, lead) /\ 0 \in 0 .. m
    BY <1>5, <1>11, <2>1
  <2> QED BY <1>1, <2>2
<1>13. ASSUME NEW n \in 1 .. m, n - 1 \in Good PROVE n \in Good
  <2>1. PICK g \in Seq(Kinds) : Reached(n - 1, g)
    BY <1>13
  <2> DEFINE u == lead \o captions[n]
  <2>2. captions[n] \in Seq(Kinds) /\ f[n] = f[n - 1] \o captions[n] /\ n \in 0 .. m
        /\ f[n - 1] \in Seq(Kinds)
    <3>1. n \in 0 .. m /\ n - 1 \in 0 .. m
      BY <1>5
    <3> QED BY <1>5, <3>1
  <2>3. u \in Seq(Kinds)
    BY <1>1, <2>2, ConcatProperties
  <2>4. from[end[n] + 1] \in Seq(Kinds)
    <3>1. end[n] \in Nat /\ end[n] <= Len(raw)
      BY <1>9
    <3>2. end[n] + 1 \in 1 .. (Len(raw) + 2)
      BY <1>6, <3>1
    <3> QED BY <1>6, <3>2
  <2>5. from[end[n - 1] + 1] = u \o from[end[n] + 1]
    BY <1>9
  <2>6. Embeds(f[n], g \o u)
    <3>1. "text" \in Kinds
      BY DEF Kinds
    <3>2. Embeds(f[n - 1] \o captions[n], g \o (<<"text">> \o captions[n]))
      BY <2>1, <2>2, <3>1, EmbedsGrow
    <3> QED BY <2>2, <3>2, Zenon
  <2> HIDE DEF u
  <2>7. (g \o u) \o from[end[n] + 1] = g \o (u \o from[end[n] + 1]) /\ g \o u \in Seq(Kinds)
    BY <2>3, <2>4, Regroup, ConcatProperties
  <2>8. from[1] = (g \o u) \o from[end[n] + 1]
    BY <2>1, <2>5, <2>7, Zenon
  <2>9. Reached(n, g \o u)
    BY <2>6, <2>8, Zenon
  <2> HIDE DEF Reached
  <2> QED BY <2>2, <2>7, <2>9
<1> HIDE DEF Good, Reached, m
<1>14. \A n \in 0 .. m : n \in Good
  BY <1>5, <1>12, <1>13, Induction
<1>15. PICK g \in Seq(Kinds) : Reached(m, g)
  <2>1. m \in 0 .. m
    BY <1>5
  <2> QED BY <1>14, <2>1 DEF Good
<1>16. from[end[m] + 1] = <<>>
  BY <1>3, <1>7 DEF Reads
<1>17. g \o <<>> = g
  BY ConcatEmptySeq
<1>18. Embeds(FlattenSeq(captions), Kept(raw))
  BY <1>3, <1>4, <1>15, <1>16, <1>17 DEF Reached
<1> QED BY <1>18 DEF raw

-----------------------------------------------------------------------------
(* So with every transcript a call writes. *)

LEMMA SpeechType == Speech \subseteq Seq(Seq(Spoken))
<1> DEFINE Caption == BoundedSeq({"text", "digits"}, MaxCaption)
<1>1. Caption \subseteq Seq(Spoken)
  BY CuesAssumption, SeqDef DEF BoundedSeq, SeqOf, Spoken
<1> HIDE DEF Caption
<1>2. BoundedSeq(Caption, MaxCues) \subseteq Seq(Caption)
  BY CuesAssumption, SeqDef DEF BoundedSeq, SeqOf
<1>3. Seq(Caption) \subseteq Seq(Seq(Spoken))
  BY <1>1, SeqMonotonic
<1>4. Speech = BoundedSeq(Caption, MaxCues)
  BY DEF Speech, Caption
<1> QED BY <1>2, <1>3, <1>4

\* The lines of a transcript say the captions of its file.
LEMMA LinesSayCaptions ==
  ASSUME format \in Formats, spoken \in Speech, NEW lines,
         lines = Kept(SubtitleFile(format, spoken))
  PROVE  IF format = "srt" THEN lines = FlattenSeq(spoken)
                           ELSE Embeds(FlattenSeq(spoken), lines)
<1>1. spoken \in Seq(Seq(Spoken))
  BY SpeechType
<1>2. CASE format = "srt"
  <2>1. SubtitleFile(format, spoken) = SrtFile(spoken)
    BY <1>2 DEF SubtitleFile
  <2> QED BY <1>1, <1>2, <2>1, SrtRead
<1>3. CASE format # "srt"
  <2>1. SubtitleFile(format, spoken) = VttFile(spoken)
    BY <1>3 DEF SubtitleFile
  <2> QED BY <1>1, <1>3, <2>1, VttRead
<1> QED BY <1>2, <1>3

LEMMA SidecarIsRead ==
  ASSUME NEW e, NEW t \in Sidecar(e)
  PROVE  t.lines = Kept(SubtitleFile(format, spoken))
BY DEF Sidecar

LEMMA WrittenAsReadStep ==
  ASSUME WrittenAsRead, [Next]_vars PROVE WrittenAsRead'
<1>1. CASE UNCHANGED <<written, format, spoken>>
  BY <1>1 DEF WrittenAsRead
<1>2. CASE WriteSidecar
  <2>1. /\ written' = written \cup Sidecar(Head(subtitles))
        /\ format' = format /\ spoken' = spoken
    BY <1>2 DEF WriteSidecar, video
  <2>2. \A t \in written' : t.lines = Kept(SubtitleFile(format, spoken))
    BY <2>1, SidecarIsRead DEF WrittenAsRead
  <2>3. SubtitleFile(format, spoken)' = SubtitleFile(format, spoken)
    BY <2>1 DEF SubtitleFile
  <2> QED BY <2>1, <2>2, <2>3 DEF WrittenAsRead
<1>3. WriteSidecar \/ UNCHANGED <<written, format, spoken>>
  BY DEF Next, vars, local, video, UserCancels, Options, Goes, DirectoryFails,
         Raises, Ends, LookUp, LookUpFails, SiteFails, OpenFails, Downloading,
         StreamFinished, StreamFails, HookPoll, HookReport, HookFails, Merge, MergeFails, SidecarFails, Return
<1> QED BY <1>1, <1>2, <1>3

(***************************************************************************)
(* Whatever was said, in however many cues, with a number on a line of its *)
(* own anywhere among them: a transcript of an SRT file is that and        *)
(* nothing else, and one of another format has it all, in its order.       *)
(***************************************************************************)
THEOREM TranscriptsSayWhatWasSaid == Spec => []CaptionsKept
<1>1. Init => WrittenAsRead
  BY DEF Init, WrittenAsRead
<1>2. WrittenAsRead /\ [Next]_vars => WrittenAsRead'
  BY WrittenAsReadStep
<1>3. WrittenAsRead => CaptionsKept
  BY LinesSayCaptions DEF WrittenAsRead, CaptionsKept
<1> QED BY <1>1, <1>2, <1>3, PTL DEF Spec
=============================================================================
