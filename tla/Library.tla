------------------------------- MODULE Library -------------------------------
(***************************************************************************)
(* Deleting from the library while the server works (delete_from_library,  *)
(* app/services/library.py; library_delete, app/routes/pages.py), composed *)
(* with WorkerPool: the same table, and the files its rows name.           *)
(*                                                                         *)
(* A delete request runs in a thread of its own and is three steps: load   *)
(* the row (a SELECT, which holds no lock), remove the file it names,      *)
(* delete the row BY ID and commit.  Any other step may come in between,   *)
(* and the id of a deleted last row is handed out again.                   *)
(***************************************************************************)
EXTENDS WorkerPoolProperties

CONSTANT Requests   \* delete requests that may be in flight at once

VARIABLES
  files,     \* the output files on disk
  request    \* what each delete request has loaded and how far it got

libVars == <<vars, files, request>>

Idle == [at |-> "idle", id |-> 0, path |-> NoPath]

LibraryTypeOK ==
  /\ TypeOK
  /\ files \subseteq Paths
  /\ request \in [Requests -> [at : {"idle", "loaded", "removed"},
                               id : Ids \cup {0}, path : Paths \cup {NoPath}]]

LibraryInit == Init /\ files = {} /\ request = [r \in Requests |-> Idle]

-----------------------------------------------------------------------------
Ask(r, j) ==
  /\ server = "serving"
  /\ request[r] = Idle
  /\ request' = [request EXCEPT ![r] =
                   [at |-> "loaded", id |-> j, path |-> downloads[j].file_path]]
  /\ UNCHANGED <<vars, files>>

LoadAnyRow(r, j) == Exists(j) /\ Ask(r, j)    \* mutant: status not checked

\* A request for a missing row, or one that is not done, changes nothing.
LoadRow(r, j) == downloads[j].status = "done" /\ Ask(r, j)

\* os.remove raised: "delete_failed", the row stays.
RemoveFails(r) ==
  /\ request[r].at = "loaded"
  /\ request[r].path # NoPath
  /\ request' = [request EXCEPT ![r] = Idle]
  /\ UNCHANGED <<vars, files>>

RemoveOnlyPresent(r) ==   \* mutant: a missing file is a failure to delete
  /\ request[r].at = "loaded"
  /\ request' = [request EXCEPT ![r] =
                   IF request[r].path \in files \cup {NoPath}
                   THEN [@ EXCEPT !.at = "removed"] ELSE Idle]
  /\ files' = files \ {request[r].path}
  /\ UNCHANGED vars

RemoveDirectory(r) ==     \* mutant: without a path, the directory goes
  /\ request[r].at = "loaded"
  /\ request' = [request EXCEPT ![r].at = "removed"]
  /\ files' = IF request[r].path = NoPath THEN {} ELSE files \ {request[r].path}
  /\ UNCHANGED vars

\* A row without a path has no file to remove; a missing file is tolerated.
RemoveFile(r) ==
  /\ request[r].at = "loaded"
  /\ request' = [request EXCEPT ![r].at = "removed"]
  /\ files' = files \ {request[r].path}
  /\ UNCHANGED vars

\* DELETE ... WHERE id = ?  Nothing is deleted, and nobody told, if the row
\* went away; whatever row has the id now is deleted.
DeleteRow(r) ==
  /\ request[r].at = "removed"
  /\ downloads' = [downloads EXCEPT ![request[r].id] = Absent]
  /\ request' = [request EXCEPT ![r] = Idle]
  /\ UNCHANGED <<server, threads, stops, files>>

\* The commit raises: the file is gone, the row is still there.
CommitFails(r) ==
  /\ Faults
  /\ request[r].at = "removed"
  /\ request' = [request EXCEPT ![r] = Idle]
  /\ UNCHANGED <<vars, files>>

(***************************************************************************)
(* The rest of the server.  A finished download leaves its file; a         *)
(* graceful stop waits for the requests, a crash takes them along.         *)
(***************************************************************************)
Produced == {result'[w] : w \in {v \in Workers : result'[v] # result[v]}}

ServerStep ==
  /\ Next
  /\ Stop => \A r \in Requests : request[r] = Idle
  /\ files' = files \cup (Produced \ {NoPath})
  /\ request' = IF server' = "down" THEN [r \in Requests |-> Idle] ELSE request

Delete(r) ==
  \/ \E j \in Ids : LoadRow(r, j)
  \/ RemoveFails(r) \/ RemoveFile(r) \/ DeleteRow(r) \/ CommitFails(r)

LibraryNext == ServerStep \/ \E r \in Requests : Delete(r)

LibrarySpec == LibraryInit /\ [][LibraryNext]_libVars

-----------------------------------------------------------------------------
(***************************************************************************)
(* Only a done row is ever deleted ("A non-done row cannot be deleted from *)
(* the library", tests/unit/test_library.py), at the moment the DELETE     *)
(* commits and not only when its status was looked at.                     *)
(***************************************************************************)
OnlyDoneRowsDeleted ==
  [][\A j \in Ids : downloads[j].status \notin {"done", "absent"}
                      => downloads'[j].status # "absent"]_libVars

(***************************************************************************)
(* A file goes only with a row that still names it: whatever happened to   *)
(* the row since the request loaded it, its path is not stale when the     *)
(* file is removed, and a file no such row names is left alone.  (Rows     *)
(* that share a path lose it together: nothing counts the references.)     *)
(***************************************************************************)
FilesGoWithTheirRows ==
  [][\A p \in files \ files' :
       \E r \in Requests, j \in Ids :
         /\ request[r].at = "loaded" /\ request[r].id = j
         /\ downloads[j].status = "done" /\ downloads[j].file_path = p]_libVars

(***************************************************************************)
(* An id that is handed out again is the id of nobody's job: a thread that *)
(* still works for the row that had it before would report into, and end,  *)
(* the row that has it now.                                                *)
(***************************************************************************)
ReusedIdsAreFree ==
  [][\A j \in Ids : ~Exists(j) /\ Exists(j)'
                      => \A w \in Workers : ~Holds(w, j)]_libVars

(***************************************************************************)
(* A deletion that was cut short between the file and the row (a crash, a  *)
(* commit that raised) can be taken up again: if the row's deletion is     *)
(* asked for again and again, it goes.                                     *)
(***************************************************************************)
RemoveFor(r, j) == request[r].id = j /\ RemoveFile(r)
DeleteFor(r, j) == request[r].id = j /\ DeleteRow(r)

AskedFor(r, j) ==
  SF_libVars(LoadRow(r, j)) /\ SF_libVars(RemoveFor(r, j)) /\ SF_libVars(DeleteFor(r, j))

AskedAgain == \A r \in Requests, j \in Ids : AskedFor(r, j)

RetrySpec ==
  /\ LibrarySpec /\ AskedAgain
  /\ WF_libVars(ServerStep /\ Recover) /\ WF_libVars(ServerStep /\ StartPool)
  /\ WF_libVars(ServerStep /\ Exit)

DeletionCompletes ==
  \A j \in Ids : downloads[j].status = "done" ~> downloads[j].status # "done"

-----------------------------------------------------------------------------
(***************************************************************************)
(* The inductive invariant.  What a request has loaded stays true of the   *)
(* row while no other request deletes it: the row has ended, so the pool   *)
(* does not write it again, and its id is not given away.  Hence nothing   *)
(* the pool relies on is disturbed.                                        *)
(***************************************************************************)
OneAtATime == \A r, s \in Requests : r = s

LoadedIsDone ==
  \A r \in Requests : request[r] # Idle =>
    /\ request[r].id \in Ids
    /\ downloads[request[r].id].status = "done"
    /\ downloads[request[r].id].file_path = request[r].path

LibraryInv == PoolInv /\ LibraryTypeOK /\ LoadedIsDone
=============================================================================
