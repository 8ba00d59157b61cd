----------------------------- MODULE MCSettings -----------------------------
(***************************************************************************)
(* Small instances of Settings for TLC.  "0" and "90" are out of range;    *)
(* " 2" is an integer to int() but not made of decimal digits only.        *)
(***************************************************************************)
EXTENDS Settings, TLC

CONSTANTS r1, r2, norow, unset

TwoKeys == <<"max_concurrent", "proxy_url">>
ThreeKeys == <<"max_concurrent", "playlist_page_size", "proxy_url">>
Defaults(keys) ==
  [k \in keys |-> CASE k = "max_concurrent" -> "1"
                    [] k = "playlist_page_size" -> "20"
                    [] OTHER -> ""]
TwoDefaults == Defaults({"max_concurrent", "proxy_url"})
ThreeDefaults == Defaults({"max_concurrent", "playlist_page_size", "proxy_url"})

SomeTexts == {"", "1", "20", " 2", "0", "90"}
FewTexts == {"", "1", "5"}
SomeNumbers == ("1" :> 1) @@ ("20" :> 20) @@ (" 2" :> 2) @@ ("0" :> 0)
                 @@ ("90" :> 90)
FewNumbers == ("1" :> 1) @@ ("5" :> 5)
SomeDecimals == {"1", "20", "0", "90"}
FewDecimals == {"1", "5"}
ProxyFromEnv == [k \in TextKeys |-> IF k = "proxy_url" THEN "http" ELSE unset]
OneRequest == {r1}
TwoRequests == {r1, r2}
=============================================================================
