----------------------------- MODULE ErrorMapper -----------------------------
(***************************************************************************)
(* friendly_ytdlp_error (app/services/error_mapper.py): from the text of   *)
(* an exception to a stable code.  A text is the set of the phrases in it  *)
(* that some rule looks for; the rules are tried in order.                 *)
(***************************************************************************)
EXTENDS Integers, Sequences

Rule(code, phrases) == [code |-> code, phrases |-> phrases]

RulesWritableFirst ==     \* mutant: the rule for the output path comes earlier
  << Rule("private_or_age_restricted", {"private"}),
     Rule("output_path_unwritable", {"unable to open for writing"}),
     Rule("geo_blocked", {"not available in your country"}),
     Rule("http_forbidden", {"403"}),
     Rule("timeout", {"timed out"}),
     Rule("disk_full", {"no space left"}),
     Rule("permission_denied", {"permission denied"}) >>

Rules ==
  << Rule("private_or_age_restricted", {"private"}),
     Rule("geo_blocked", {"not available in your country"}),
     Rule("http_forbidden", {"403"}),
     Rule("timeout", {"timed out"}),
     Rule("disk_full", {"no space left"}),
     Rule("output_path_unwritable", {"unable to open for writing"}),
     Rule("permission_denied", {"permission denied"}) >>

Codes == {Rules[n].code : n \in DOMAIN Rules} \cup {"ytdlp_error"}

FriendlyYtdlpError(raw) ==
  LET matching == {n \in DOMAIN Rules : Rules[n].phrases \cap raw # {}} IN
  IF matching = {} THEN "ytdlp_error"
  ELSE Rules[CHOOSE n \in matching : \A k \in matching : n <= k].code
=============================================================================
