--------------------------- MODULE SettingsProofs ---------------------------
(***************************************************************************)
(* Settings: type correctness, saves that do not mix, and the bounds of    *)
(* what the server resolves.                                               *)
(***************************************************************************)
EXTENDS Settings, TLAPS

RequestType == [at : {"idle", "loading", "saved"}, kind : {"save", "reset"},
                want : Forms, read : 0 .. Len(Catalog), rows : Rows]

Allowed(k, v) ==
  k \in TextKeys
    \/ NumberOf[v] \in 1 .. (IF k = "max_concurrent" THEN 5 ELSE 50)

\* What a request will write is valid: the inductive part of SettingsTypeOK.
SettingsInv ==
  /\ SettingsTypeOK
  /\ \A r \in Requests, k \in Keys : Valid(k, request[r].want[k])

LEMMA CatalogKeys ==
  /\ Len(Catalog) \in Nat
  /\ \A i \in 1 .. Len(Catalog) : Catalog[i] \in Keys
  /\ \A k \in Keys : \E i \in 1 .. Len(Catalog) : Catalog[i] = k
  /\ Keys \subseteq {"max_concurrent", "playlist_page_size"} \cup TextKeys
<1>1. Catalog \in Seq({"max_concurrent", "playlist_page_size"} \cup TextKeys)
  BY CatalogAssumption
<1>2. Len(Catalog) \in Nat /\ DOMAIN Catalog = 1 .. Len(Catalog)
  BY <1>1
<1> QED
  BY <1>1, <1>2 DEF Keys

LEMMA ValidIsAllowed ==
  ASSUME NEW k \in Keys, NEW v, Valid(k, v)
  PROVE  Allowed(k, v)
BY CatalogKeys DEF Valid, InRange, Allowed

LEMMA IdleIsTyped ==
  Idle \in RequestType /\ \A k \in Keys : Valid(k, Idle.want[k])
BY DefaultAssumption, CatalogKeys DEF Idle, RequestType, Rows

\* What Load makes of a request.
AfterLoad(x, n, rows) == [x EXCEPT !.read = n, !.rows = rows]

LEMMA RequestAfterLoad ==
  ASSUME NEW x \in RequestType, NEW n \in 0 .. Len(Catalog), NEW rows \in Rows,
         NEW y, y = AfterLoad(x, n, rows)
  PROVE  /\ y \in RequestType
         /\ y.at = x.at /\ y.kind = x.kind /\ y.want = x.want
         /\ y.read = n /\ y.rows = rows
<1>1. x = [at |-> x.at, kind |-> x.kind, want |-> x.want, read |-> x.read,
           rows |-> x.rows]
  BY DEF RequestType
<1>2. y = [at |-> x.at, kind |-> x.kind, want |-> x.want, read |-> n,
           rows |-> rows]
  BY <1>1 DEF AfterLoad
<1> QED
  BY <1>2 DEF RequestType

\* A commit that wrote nothing but wanted values left the table well-formed.
LEMMA CommitKeepsTable ==
  ASSUME SettingsInv, NEW r \in Requests, Commit(r)
  PROVE  /\ stored' \in Rows
         /\ \A k \in Keys : stored'[k] # NoRow => Allowed(k, stored'[k])
<1>1. request[r] \in RequestType
  BY DEF SettingsInv, SettingsTypeOK, RequestType
<1>2. \A k \in Keys : stored'[k] = request[r].want[k] \/ stored'[k] = stored[k]
  BY DEF Commit
<1>3. \A k \in Keys : request[r].want[k] \in Texts
  BY <1>1 DEF RequestType, Forms
<1>4. \A k \in Keys : stored[k] \in Texts \cup {NoRow}
  BY DEF SettingsInv, SettingsTypeOK, Rows
<1>5. stored' \in Rows
  BY <1>2, <1>3, <1>4 DEF Commit, Rows
<1>6. ASSUME NEW k \in Keys, stored'[k] # NoRow
      PROVE  Allowed(k, stored'[k])
  <2>1. Allowed(k, request[r].want[k])
    BY ValidIsAllowed DEF SettingsInv
  <2>2. stored[k] # NoRow => Allowed(k, stored[k])
    BY DEF SettingsInv, SettingsTypeOK, Allowed
  <2> QED
    BY <1>2, <1>6, <2>1, <2>2
<1> QED
  BY <1>5, <1>6

LEMMA SettingsInvHolds ==
  ASSUME SettingsInv, [SettingsNext]_settingsVars
  PROVE  SettingsInv'
<1>t. request \in [Requests -> RequestType]
  BY DEF SettingsInv, SettingsTypeOK, RequestType
<1>s. /\ stored \in Rows
      /\ \A k \in Keys : stored[k] # NoRow => Allowed(k, stored[k])
  BY DEF SettingsInv, SettingsTypeOK, Allowed
<1> DEFINE RequestsOK(q) ==
      /\ q \in [Requests -> RequestType]
      /\ \A r \in Requests, k \in Keys : Valid(k, q[r].want[k])
<1> SUFFICES /\ stored' \in Rows
             /\ \A k \in Keys : stored'[k] # NoRow => Allowed(k, stored'[k])
             /\ RequestsOK(request')
  BY DEF SettingsInv, SettingsTypeOK, RequestType, Allowed
<1>r. RequestsOK(request)
  BY <1>t DEF SettingsInv
<1>u. ASSUME NEW r \in Requests, NEW x \in RequestType,
             \A k \in Keys : Valid(k, x.want[k]),
             request' = [request EXCEPT ![r] = x]
      PROVE  RequestsOK(request')
  BY <1>r, <1>u
<1>1. CASE UNCHANGED settingsVars
  BY <1>1, <1>s, <1>r DEF settingsVars
<1>2. ASSUME NEW r \in Requests, NEW kind \in {"save", "reset"},
             NEW want \in Forms, \A k \in Keys : Valid(k, want[k]),
             Begin(r, kind, want)
      PROVE  RequestsOK(request') /\ stored' = stored
  <2> DEFINE x == [Idle EXCEPT !.at = "loading", !.kind = kind, !.want = want]
  <2>1. x \in RequestType /\ x.want = want
    BY IdleIsTyped DEF RequestType
  <2>2. request' = [request EXCEPT ![r] = x] /\ stored' = stored
    BY <1>2 DEF Begin
  <2> QED
    BY <2>1, <2>2, <1>2, <1>u
<1>3. ASSUME NEW r \in Requests, NEW form \in Forms, Save(r, form)
      PROVE  RequestsOK(request') /\ stored' = stored
  BY <1>2, <1>3 DEF Save
<1>4. ASSUME NEW r \in Requests, Reset(r)
      PROVE  RequestsOK(request') /\ stored' = stored
  BY <1>2, <1>4, DefaultAssumption DEF Reset
<1>5. ASSUME NEW r \in Requests, Load(r)
      PROVE  RequestsOK(request') /\ stored' = stored
  <2> DEFINE k == Catalog[request[r].read + 1]
             rows == [request[r].rows EXCEPT ![k] = stored[k]]
             x == [request[r] EXCEPT !.read = request[r].read + 1,
                                     !.rows = rows]
  <2>1. request[r] \in RequestType
    BY <1>t
  <2>2. request[r].read + 1 \in 1 .. Len(Catalog) /\ request[r].rows \in Rows
    BY <2>1, <1>5, CatalogKeys DEF Load, RequestType
  <2>3. k \in Keys
    BY <2>2, CatalogKeys
  <2>4. rows \in Rows
    BY <2>2, <2>3, <1>s DEF Rows
  <2>5. x \in RequestType /\ x.want = request[r].want
    <3>1. request[r].read + 1 \in 0 .. Len(Catalog)
      BY <2>2, CatalogKeys
    <3> DEFINE old == request[r]
               n == request[r].read + 1
    <3>2. old \in RequestType /\ n \in 0 .. Len(Catalog)
      BY <2>1, <3>1
    <3>3. x = AfterLoad(old, n, rows) /\ old = request[r]
      BY DEF AfterLoad
    <3> HIDE DEF old, n, rows, x
    <3>4. x \in RequestType /\ x.want = old.want
      BY <3>2, <3>3, <2>4, RequestAfterLoad
    <3> QED
      BY <3>3, <3>4
  <2>6. request' = [request EXCEPT ![r] = x] /\ stored' = stored
    BY <1>5 DEF Load
  <2>7. \A key \in Keys : Valid(key, x.want[key])
    BY <2>5, <1>r
  <2> QED
    BY <2>5, <2>6, <2>7, <1>u
<1>6. ASSUME NEW r \in Requests, Commit(r)
      PROVE  RequestsOK(request')
  <2> DEFINE x == [request[r] EXCEPT !.at = "saved"]
  <2>1. x \in RequestType /\ x.want = request[r].want
    BY <1>t DEF RequestType
  <2>2. request' = [request EXCEPT ![r] = x]
    BY <1>6 DEF Commit
  <2> QED
    BY <2>1, <2>2, <1>r, <1>u
<1>7. ASSUME NEW r \in Requests, CommitFails(r) \/ Answer(r)
      PROVE  RequestsOK(request') /\ stored' = stored
  BY <1>7, <1>u, IdleIsTyped DEF CommitFails, Answer
<1> HIDE DEF RequestsOK
<1>8. ASSUME NEW r \in Requests, Commit(r)
      PROVE  /\ stored' \in Rows
             /\ \A k \in Keys : stored'[k] # NoRow => Allowed(k, stored'[k])
  BY <1>8, CommitKeepsTable
<1>9. CASE SettingsNext
  BY <1>9, <1>3, <1>4, <1>5, <1>6, <1>7, <1>8, <1>s DEF SettingsNext
<1> QED
  BY <1>1, <1>9

(***************************************************************************)
(* Whatever forms are posted and resets asked for, in whatever order their *)
(* steps come: the table holds only what the catalog allows.               *)
(***************************************************************************)
THEOREM SettingsAreValid == SettingsSpec => []SettingsTypeOK
<1>1. SettingsInit => SettingsInv
  <2> SUFFICES ASSUME SettingsInit PROVE SettingsInv
    OBVIOUS
  <2>1. request \in [Requests -> RequestType]
    BY IdleIsTyped DEF SettingsInit
  <2>2. \A r \in Requests : request[r] = Idle
    BY DEF SettingsInit
  <2> QED
    BY <2>1, <2>2, IdleIsTyped
    DEF SettingsInit, SettingsInv, SettingsTypeOK, RequestType, Rows
<1>2. SettingsInv /\ [SettingsNext]_settingsVars => SettingsInv'
  BY SettingsInvHolds
<1>3. SettingsInv => SettingsTypeOK
  BY DEF SettingsInv
<1> QED
  BY <1>1, <1>2, <1>3, PTL DEF SettingsSpec

-----------------------------------------------------------------------------
(***************************************************************************)
(* Without resets only one request at a time is between its first read and *)
(* its commit, so that what it read is what the table holds.               *)
(***************************************************************************)
OneSaveLoads ==
  /\ \A r \in Requests : request[r].at = "loading" => request[r].kind = "save"
  /\ \A q, r \in Requests :
       request[q].at = "loading" /\ request[r].at = "loading" => q = r

ReadIsCurrent ==
  \A r \in Requests : request[r].at = "loading" =>
    \A i \in 1 .. request[r].read :
      request[r].rows[Catalog[i]] = stored[Catalog[i]]

SavesInv == SettingsInv /\ OneSaveLoads /\ ReadIsCurrent

LEMMA SavesInvHolds ==
  ASSUME Resets = FALSE, SavesInv, [SettingsNext]_settingsVars
  PROVE  SavesInv'
<1>i. SettingsInv'
  BY SettingsInvHolds DEF SavesInv
<1>t. request \in [Requests -> RequestType]
  BY DEF SavesInv, SettingsInv, SettingsTypeOK, RequestType
<1>1. CASE UNCHANGED settingsVars
  BY <1>1, <1>i DEF settingsVars, SavesInv, OneSaveLoads, ReadIsCurrent
<1>2. ASSUME NEW r \in Requests, NEW form \in Forms, Save(r, form)
      PROVE  OneSaveLoads' /\ ReadIsCurrent'
  <2> DEFINE x == [Idle EXCEPT !.at = "loading", !.kind = "save", !.want = form]
  <2>1. x.at = "loading" /\ x.kind = "save" /\ x.read = 0
    BY DEF Idle
  <2>2. request' = [request EXCEPT ![r] = x] /\ stored' = stored
    BY <1>2 DEF Save, Begin
  <2>3. /\ request'[r] = x
        /\ \A q \in Requests \ {r} : request'[q] = request[q]
    BY <2>2, <1>t
  <2> HIDE DEF x
  <2>4. \A q \in Requests : request[q].at # "loading"
    BY <1>2 DEF Save, SavesInv, OneSaveLoads
  <2>5. \A q \in Requests : request'[q].at = "loading" => q = r
    BY <2>3, <2>4
  <2>6. OneSaveLoads'
    BY <2>1, <2>3, <2>5 DEF OneSaveLoads
  <2>7. ReadIsCurrent'
    BY <2>1, <2>3, <2>5 DEF ReadIsCurrent
  <2> QED
    BY <2>6, <2>7
<1>3. ASSUME NEW r \in Requests, Load(r)
      PROVE  OneSaveLoads' /\ ReadIsCurrent'
  <2> DEFINE k == Catalog[request[r].read + 1]
             rows == [request[r].rows EXCEPT ![k] = stored[k]]
             x == [request[r] EXCEPT !.read = request[r].read + 1,
                                     !.rows = rows]
  <2>1. request[r] \in RequestType
    BY <1>t
  <2>2. /\ x.at = request[r].at /\ x.kind = request[r].kind
        /\ x.read = request[r].read + 1
        /\ x.rows = rows
    BY <2>1 DEF RequestType
  <2>3. request' = [request EXCEPT ![r] = x] /\ stored' = stored
    BY <1>3 DEF Load
  <2>4. /\ request'[r] = x
        /\ \A q \in Requests \ {r} : request'[q] = request[q]
    BY <2>3, <1>t
  <2>5. request[r].read \in 0 .. (Len(Catalog) - 1) /\ request[r].rows \in Rows
    BY <2>1, <1>3, CatalogKeys DEF Load, RequestType
  <2> HIDE DEF x
  <2>6. OneSaveLoads'
    BY <2>2, <2>4 DEF OneSaveLoads, SavesInv
  <2>7. ASSUME NEW i \in 1 .. (request[r].read + 1), request[r].at = "loading"
        PROVE  x.rows[Catalog[i]] = stored[Catalog[i]]
    <3>1. Catalog[i] \in Keys
      BY <2>5, CatalogKeys
    <3>2. CASE Catalog[i] = k
      BY <2>2, <2>5, <3>1, <3>2 DEF Rows
    <3>3. CASE Catalog[i] # k
      <4>1. i \in 1 .. request[r].read
        BY <3>3, <2>5
      <4>2. request[r].rows[Catalog[i]] = stored[Catalog[i]]
        BY <4>1, <2>7 DEF SavesInv, ReadIsCurrent
      <4> QED
        BY <4>2, <2>2, <2>5, <3>1, <3>3 DEF Rows
    <3> QED
      BY <3>2, <3>3
  <2>8. ReadIsCurrent'
    <3> SUFFICES ASSUME NEW q \in Requests, request'[q].at = "loading",
                        NEW i \in 1 .. request'[q].read
                 PROVE  request'[q].rows[Catalog[i]] = stored[Catalog[i]]
      BY <2>3 DEF ReadIsCurrent
    <3>1. CASE q = r
      BY <3>1, <2>2, <2>4, <2>7
    <3>2. CASE q # r
      BY <3>2, <2>4 DEF ReadIsCurrent, SavesInv
    <3> QED
      BY <3>1, <3>2
  <2> QED
    BY <2>6, <2>8
<1>4. ASSUME NEW r \in Requests,
             \/ CommitFails(r) /\ request'[r].at = "idle"
             \/ Answer(r) /\ request'[r].at = "idle"
             \/ Commit(r) /\ request'[r].at = "saved"
      PROVE  OneSaveLoads' /\ ReadIsCurrent'
  <2>1. \A q \in Requests \ {r} : request'[q] = request[q]
    BY <1>4, <1>t DEF CommitFails, Answer, Commit
  <2>2. request'[r].at # "loading"
    BY <1>4
  <2>3. OneSaveLoads'
    BY <2>1, <2>2 DEF OneSaveLoads, SavesInv
  <2>4. ASSUME Commit(r) PROVE ReadIsCurrent'
    <3>1. \A q \in Requests \ {r} : request[q].at # "loading"
      BY <2>4 DEF Commit, Loaded, SavesInv, OneSaveLoads
    <3> QED
      BY <3>1, <2>1, <2>2 DEF ReadIsCurrent
  <2>5. CASE stored' = stored
    BY <2>1, <2>2, <2>3, <2>5 DEF ReadIsCurrent, SavesInv
  <2>6. Commit(r) \/ stored' = stored
    BY <1>4 DEF CommitFails, Answer
  <2> QED
    BY <2>3, <2>4, <2>5, <2>6
<1>5. ASSUME NEW r \in Requests, CommitFails(r) \/ Answer(r) \/ Commit(r)
      PROVE  OneSaveLoads' /\ ReadIsCurrent'
  <2>1. CASE CommitFails(r) \/ Answer(r)
    <3>1. request'[r].at = "idle"
      BY <2>1, <1>t DEF CommitFails, Answer, Idle
    <3> QED
      BY <2>1, <3>1, <1>4
  <2>2. CASE Commit(r)
    <3>1. request' = [request EXCEPT ![r] = [request[r] EXCEPT !.at = "saved"]]
      BY <2>2 DEF Commit
    <3>2. request'[r].at = "saved"
      BY <3>1, <1>t DEF RequestType
    <3> QED
      BY <2>2, <3>2, <1>4
  <2> QED
    BY <1>5, <2>1, <2>2
<1>6. CASE SettingsNext
  BY <1>6, <1>i, <1>2, <1>3, <1>5 DEF SettingsNext, Reset, SavesInv
<1> QED
  BY <1>1, <1>6

LEMMA CommitWritesWanted ==
  ASSUME SavesInv, NEW r \in Requests, Commit(r)
  PROVE  stored' = request[r].want
<1>1. request[r] \in RequestType
  BY DEF SavesInv, SettingsInv, SettingsTypeOK, RequestType
<1>2. request[r].want \in Forms
  BY <1>1 DEF RequestType
<1>3. ASSUME NEW k \in Keys PROVE request[r].rows[k] = stored[k]
  <2>1. PICK i \in 1 .. Len(Catalog) : Catalog[i] = k
    BY CatalogKeys
  <2>2. request[r].at = "loading" /\ request[r].read = Len(Catalog)
    BY DEF Commit, Loaded
  <2> QED
    BY <2>1, <2>2 DEF SavesInv, ReadIsCurrent
<1>4. stored' = [k \in Keys |-> request[r].want[k]]
  BY <1>3 DEF Commit, Changed
<1> QED
  BY <1>2, <1>4 DEF Forms

(***************************************************************************)
(* Saves that do not meet a reset never mix: each leaves the table as it   *)
(* was posted, however many clients save at the same time.  That rests on  *)
(* the handler holding the event loop between its first read and commit.   *)
(***************************************************************************)
THEOREM SavesDoNotMix ==
  ASSUME Resets = FALSE
  PROVE  SettingsSpec => SavesAreAtomic
<1>1. SettingsInit => SavesInv
  <2> SUFFICES ASSUME SettingsInit PROVE SavesInv
    OBVIOUS
  <2>1. \A r \in Requests : request[r] = Idle
    BY DEF SettingsInit
  <2>2. request \in [Requests -> RequestType]
    BY IdleIsTyped DEF SettingsInit
  <2>3. SettingsInv
    BY <2>1, <2>2, IdleIsTyped
    DEF SettingsInit, SettingsInv, SettingsTypeOK, RequestType, Rows
  <2>4. \A r \in Requests : request[r].at = "idle"
    BY <2>1 DEF Idle
  <2> QED
    BY <2>3, <2>4 DEF SavesInv, OneSaveLoads, ReadIsCurrent
<1>2. SavesInv /\ [SettingsNext]_settingsVars => SavesInv'
  BY SavesInvHolds
<1>3. SavesInv /\ [SettingsNext]_settingsVars
        => [\A r \in Requests :
              request[r].at = "loading" /\ request'[r].at = "saved"
                => stored' = request[r].want]_settingsVars
  <2> SUFFICES ASSUME SavesInv, SettingsNext, NEW r \in Requests,
                      request[r].at = "loading", request'[r].at = "saved"
               PROVE  stored' = request[r].want
    OBVIOUS
  <2>t. request \in [Requests -> RequestType]
    BY DEF SavesInv, SettingsInv, SettingsTypeOK, RequestType
  <2>1. ASSUME NEW q \in Requests, NEW form \in Forms, Save(q, form)
        PROVE  FALSE
    <3> DEFINE x == [Idle EXCEPT !.at = "loading", !.kind = "save", !.want = form]
    <3>1. request' = [request EXCEPT ![q] = x] /\ x.at = "loading"
      BY <2>1 DEF Save, Begin, Idle
    <3> QED
      BY <3>1, <2>t
  <2>2. ASSUME NEW q \in Requests, Load(q) PROVE FALSE
    <3> DEFINE k == Catalog[request[q].read + 1]
               x == [request[q] EXCEPT !.read = request[q].read + 1,
                       !.rows = [request[q].rows EXCEPT ![k] = stored[k]]]
    <3>1. request' = [request EXCEPT ![q] = x]
      BY <2>2 DEF Load
    <3>2. x.at = "loading"
      BY <2>2, <2>t DEF Load, RequestType
    <3> QED
      BY <3>1, <3>2, <2>t
  <2>3. ASSUME NEW q \in Requests, CommitFails(q) \/ Answer(q) PROVE FALSE
    BY <2>3, <2>t DEF CommitFails, Answer, Idle
  <2>4. ASSUME NEW q \in Requests, Commit(q) PROVE stored' = request[r].want
    <3>1. q = r
      BY <2>4 DEF Commit, Loaded, SavesInv, OneSaveLoads
    <3> QED
      BY <2>4, <3>1, CommitWritesWanted
  <2> QED
    BY <2>1, <2>2, <2>3, <2>4 DEF SettingsNext, Reset
<1> QED
  BY <1>1, <1>2, <1>3, PTL DEF SettingsSpec, SavesAreAtomic

-----------------------------------------------------------------------------
(***************************************************************************)
(* Whatever rows the table holds, also ones the service never wrote, the   *)
(* server runs with one to five threads and pages of one to fifty entries. *)
(***************************************************************************)
THEOREM RuntimeIsBounded ==
  ASSUME NEW table
  PROVE  MaxConcurrent(table) \in 1 .. 5 /\ PlaylistPageSize(table) \in 1 .. 50
<1>1. MaxConcurrent(table) \in 1 .. 5
  <2> DEFINE v == Value(table, "max_concurrent")
             n == IF v \in DOMAIN NumberOf THEN NumberOf[v] ELSE 1
  <2>1. n \in Int
    BY TextAssumption
  <2>2. MaxConcurrent(table) = Clamp(n, 1, 5)
    BY DEF MaxConcurrent
  <2> HIDE DEF n
  <2> QED
    BY <2>1, <2>2 DEF Clamp
<1>2. PlaylistPageSize(table) \in 1 .. 50
  <2> DEFINE v == Value(table, "playlist_page_size")
             n == IF v \in Decimals THEN NumberOf[v] ELSE 20
  <2>1. n \in Int
    BY TextAssumption
  <2>2. PlaylistPageSize(table) = Clamp(n, 1, 50)
    BY DEF PlaylistPageSize
  <2> HIDE DEF n
  <2> QED
    BY <2>1, <2>2 DEF Clamp
<1> QED
  BY <1>1, <1>2
=============================================================================
