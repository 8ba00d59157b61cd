------------------------------ MODULE Settings ------------------------------
(***************************************************************************)
(* The settings table and its service (app/services/settings.py), with the *)
(* two routes that write it.  PUT /settings/form is an async handler: from *)
(* the parsed form to its reply it has the event loop for itself.  POST    *)
(* /settings/reset is a plain function and runs in a thread of its own.    *)
(*                                                                         *)
(* Both read row after row (each SELECT sees the table as it is then: the  *)
(* driver begins no transaction for it) and commit at the end.  What is    *)
(* written is what SQLAlchemy found changed against the rows it had read:  *)
(* an INSERT for a missing row, an UPDATE for another value, and nothing   *)
(* where the value is the same.                                            *)
(***************************************************************************)
EXTENDS Integers, Sequences

CONSTANTS
  Catalog,    \* the known keys, in the order of SETTINGS_CATALOG
  Default,    \* their defaults
  Texts,      \* texts a form may post or a row may hold
  NumberOf,   \* the integer a text stands for; other texts are no integers
  Decimals,   \* texts of decimal digits only (str.isdecimal)
  NoRow,      \* a key without a row
  Env,        \* what the environment gives for proxy, cookies, directory
  Unset,      \* None
  Requests,   \* requests that may be in flight at once
  Resets      \* does anybody ask for a reset?

Keys == {Catalog[i] : i \in DOMAIN Catalog}

TextKeys == {"proxy_url", "cookies_path", "downloads_dir"}

ASSUME CatalogAssumption ==
  Catalog \in Seq({"max_concurrent", "playlist_page_size"} \cup TextKeys)
ASSUME TextAssumption ==
  /\ NoRow \notin Texts /\ Unset \notin Texts
  /\ DOMAIN NumberOf \subseteq Texts
  /\ \A v \in DOMAIN NumberOf : NumberOf[v] \in Int
  /\ Decimals \subseteq DOMAIN NumberOf
ASSUME ResetsAssumption == Resets \in BOOLEAN

VARIABLES
  stored,    \* the table: key -> text, or NoRow
  request    \* what each request wants, and what it has read

settingsVars == <<stored, request>>

-----------------------------------------------------------------------------
(* _validate: checked when a form is saved. *)

InRange(v, numbers, low, high) ==
  v \in numbers /\ NumberOf[v] \in low .. high

ValidFromZero(k, v) ==     \* mutant: n < 0
  CASE k = "max_concurrent" -> InRange(v, DOMAIN NumberOf, 0, 5)
    [] k = "playlist_page_size" -> InRange(v, Decimals, 0, 50)
    [] OTHER -> TRUE

Valid(k, v) ==
  CASE k = "max_concurrent" -> InRange(v, DOMAIN NumberOf, 1, 5)
    [] k = "playlist_page_size" -> InRange(v, Decimals, 1, 50)
    [] OTHER -> TRUE

Forms == [Keys -> Texts]

ASSUME DefaultAssumption ==
  Default \in Forms /\ \A k \in Keys : Valid(k, Default[k])

Rows == [Keys -> Texts \cup {NoRow}]

Idle == [at |-> "idle", kind |-> "save", want |-> Default, read |-> 0,
         rows |-> [k \in Keys |-> NoRow]]

\* Rows are well-formed and hold what the catalog allows, by any way they
\* were written.
SettingsTypeOK ==
  /\ stored \in Rows
  /\ \A k \in Keys : stored[k] # NoRow =>
       \/ k \in TextKeys
       \/ NumberOf[stored[k]] \in
            1 .. (IF k = "max_concurrent" THEN 5 ELSE 50)
  /\ request \in [Requests -> [at : {"idle", "loading", "saved"},
                               kind : {"save", "reset"}, want : Forms,
                               read : 0 .. Len(Catalog), rows : Rows]]

SettingsInit ==
  /\ stored = [k \in Keys |-> NoRow]
  /\ request = [r \in Requests |-> Idle]

-----------------------------------------------------------------------------
Begin(r, kind, want) ==
  /\ request[r].at = "idle"
  /\ request' = [request EXCEPT ![r] =
                   [Idle EXCEPT !.at = "loading", !.kind = kind, !.want = want]]
  /\ UNCHANGED stored

\* The form is parsed and the event loop is free.  One bad value and nothing
\* is read or written.
Save(r, form) ==
  /\ \A q \in Requests : ~(request[q].at = "loading" /\ request[q].kind = "save")
  /\ \A k \in Keys : Valid(k, form[k])
  /\ Begin(r, "save", form)

Reset(r) == Resets /\ Begin(r, "reset", Default)

\* session.get of the next key.
Load(r) ==
  /\ request[r].at = "loading" /\ request[r].read < Len(Catalog)
  /\ LET k == Catalog[request[r].read + 1] IN
     request' = [request EXCEPT ![r].read = @ + 1, ![r].rows[k] = stored[k]]
  /\ UNCHANGED stored

Loaded(r) == request[r].at = "loading" /\ request[r].read = Len(Catalog)

Changed(r, k) == request[r].rows[k] # request[r].want[k]

\* A row that was missing when it was read and is there now: IntegrityError.
Collides(r) ==
  \E k \in Keys : request[r].rows[k] = NoRow /\ stored[k] # NoRow

CommitUpdates(r) ==           \* mutant: a missing row is not added
  /\ Loaded(r) /\ ~Collides(r)
  /\ stored' = [k \in Keys |-> IF Changed(r, k) /\ stored[k] # NoRow
                               THEN request[r].want[k] ELSE stored[k]]
  /\ request' = [request EXCEPT ![r].at = "saved"]

Commit(r) ==
  /\ Loaded(r) /\ ~Collides(r)
  /\ stored' = [k \in Keys |-> IF Changed(r, k)
                               THEN request[r].want[k] ELSE stored[k]]
  /\ request' = [request EXCEPT ![r].at = "saved"]

\* The transaction is rolled back: a collision, a locked database.
CommitFails(r) ==
  /\ Loaded(r)
  /\ request' = [request EXCEPT ![r] = Idle]
  /\ UNCHANGED stored

\* "Settings saved."
Answer(r) ==
  /\ request[r].at = "saved"
  /\ request' = [request EXCEPT ![r] = Idle]
  /\ UNCHANGED stored

SettingsNext ==
  \E r \in Requests :
    \/ \E form \in Forms : Save(r, form)
    \/ Reset(r) \/ Load(r) \/ Commit(r) \/ CommitFails(r) \/ Answer(r)

SettingsSpec == SettingsInit /\ [][SettingsNext]_settingsVars

-----------------------------------------------------------------------------
(* resolve_runtime_settings: what a job, a preview and the start of the    *)
(* pool read, in one SELECT of the whole table.                            *)

Value(table, k) == IF table[k] = NoRow THEN Default[k] ELSE table[k]

Clamp(n, low, high) == IF n < low THEN low ELSE IF n > high THEN high ELSE n

MaxConcurrent(table) ==
  LET v == Value(table, "max_concurrent") IN
  Clamp(IF v \in DOMAIN NumberOf THEN NumberOf[v] ELSE 1, 1, 5)

PlaylistPageSize(table) ==
  LET v == Value(table, "playlist_page_size") IN
  Clamp(IF v \in Decimals THEN NumberOf[v] ELSE 20, 1, 50)

\* proxy_url, cookies_path, downloads_dir: an empty text is not used.
TextSetting(table, k) ==
  IF Value(table, k) # "" THEN Value(table, k) ELSE Env[k]

-----------------------------------------------------------------------------
(***************************************************************************)
(* A save, or a reset, that is told it succeeded leaves the table as it    *)
(* asked for, every key of it ("Update multiple keys atomically").         *)
(***************************************************************************)
SavesAreAtomic ==
  [][\A r \in Requests :
       request[r].at = "loading" /\ request'[r].at = "saved"
         => stored' = request[r].want]_settingsVars
=============================================================================
