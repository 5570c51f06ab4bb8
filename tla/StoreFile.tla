------------------------------ MODULE StoreFile -------------------------------
(***************************************************************************)
(* How a snapshot reaches the disk (persistence/store.hpp save_snapshot,   *)
(* coordinator.cpp save_state, load_state).  Each SAVE request runs on its *)
(* own connection thread with no lock: it copies the state, writes         *)
(* path.tmp, renames it over path.  All savers use the same path.tmp.      *)
(*                                                                         *)
(* A file's content is the version of the fleet state it holds, Torn when  *)
(* it is truncated, half written or mixed, or NoFile.  A crash kills the   *)
(* process at any point; what the file system already has, it keeps.       *)
(*                                                                         *)
(* The file system is external, with the semantics of the Windows          *)
(* toolchain the project is built with: two threads may open one file for  *)
(* writing, rename fails if its target exists or its source is open, and   *)
(* remove fails on an open file.                                           *)
(*                                                                         *)
(* overlapped is a history variable, which no operation reads: whether two *)
(* saves were ever under way on the disk at once.                          *)
(***************************************************************************)
EXTENDS Naturals

CONSTANTS
  Savers,          \* threads that handle a SAVE
  Torn, NoFile,    \* contents that are no snapshot
  MaxVersion,      \* bound on the versions of the fleet state
  MaxCrashes       \* bound on crashes

ASSUME StoreFileAssumption ==
  /\ MaxVersion \in Nat /\ MaxCrashes \in Nat
  /\ Torn \notin 0..MaxVersion /\ NoFile \notin 0..MaxVersion /\ Torn # NoFile

VARIABLES
  version,   \* the fleet state's current version
  path,      \* content of the store file
  tmp,       \* content of path.tmp
  pc,        \* where each saver is
  copy,      \* the version each saver has copied
  shared,    \* savers that had path.tmp open together with another
  up,        \* "running", "down" or "failed": start() refused the store file
  crashes,
  overlapped

files == <<path, tmp, shared, overlapped>>
vars == <<version, files, pc, copy, up, crashes>>

Versions == 0..MaxVersion
Content == Versions \cup {Torn, NoFile}

(* A saver is idle, has copied the state, has path.tmp open and truncated, *)
(* has closed it, has seen rename fail, has removed path, has renamed      *)
(* path.tmp and has the reply still to send.                               *)
PC == {"idle", "copied", "open", "closed", "refused", "removed", "done"}

TypeOK ==
  /\ version \in Versions
  /\ path \in Content /\ tmp \in Content
  /\ shared \subseteq Savers
  /\ pc \in [Savers -> PC]
  /\ copy \in [Savers -> Versions]
  /\ up \in {"running", "down", "failed"}
  /\ crashes \in 0..MaxCrashes
  /\ overlapped \in BOOLEAN

Init ==
  /\ version = 0
  /\ path = NoFile /\ tmp = NoFile /\ shared = {}
  /\ pc = [s \in Savers |-> "idle"]
  /\ copy = [s \in Savers |-> 0]
  /\ up = "running"
  /\ crashes = 0
  /\ overlapped = FALSE

(* The save is past its copy of the state and not yet answered.            *)
OnDisk(s) == pc[s] \notin {"idle", "copied"}

OpenBy == {s \in Savers : pc[s] = "open"}

(* External: rename(path.tmp, path) and remove(path.tmp) can go through.   *)
CanRename == tmp # NoFile /\ path = NoFile /\ OpenBy = {}

TmpAfterRemove(others) == IF others = {} THEN NoFile ELSE tmp

-----------------------------------------------------------------------------
(* Any operation that changes the fleet state.                             *)
Change ==
  /\ up = "running"
  /\ version < MaxVersion
  /\ version' = version + 1
  /\ UNCHANGED <<files, pc, copy, up, crashes>>

Goto(s, there) == pc' = [pc EXCEPT ![s] = there]

(* save_state: a snapshot under the store's lock; what follows is not.     *)
CopyState(s) ==
  /\ pc[s] = "idle"
  /\ copy' = [copy EXCEPT ![s] = version]
  /\ Goto(s, "copied")
  /\ UNCHANGED <<version, files, up, crashes>>

(* fopen(tmp, "wb") truncates whatever path.tmp holds.                     *)
OpenTmp(s) ==
  /\ pc[s] = "copied"
  /\ tmp' = Torn
  /\ shared' = IF OpenBy = {} THEN shared ELSE shared \cup OpenBy \cup {s}
  /\ overlapped' = (overlapped \/ \E t \in Savers : OnDisk(t))
  /\ Goto(s, "open")
  /\ UNCHANGED <<version, path, copy, up, crashes>>

(* fopen fails: the save reports an error.                                 *)
OpenFails(s) ==
  /\ pc[s] = "copied"
  /\ Goto(s, "idle")
  /\ UNCHANGED <<version, files, copy, up, crashes>>

(* fwrite, fflush, fclose.  Savers that write over each other leave a      *)
(* snapshot only if the bytes happen to end up being one saver's.          *)
WriteTmp(s) ==
  /\ pc[s] = "open"
  /\ tmp' \in IF s \in shared THEN {copy[s], Torn} ELSE {copy[s]}
  /\ shared' = shared \ {s}
  /\ Goto(s, "closed")
  /\ UNCHANGED <<version, path, copy, up, crashes, overlapped>>

(* A failed write goes unnoticed. *)
Mut_WriteFails_unchecked(s) ==
  /\ pc[s] = "open"
  /\ shared' = shared \ {s}
  /\ Goto(s, "closed")
  /\ UNCHANGED <<version, path, tmp, copy, up, crashes, overlapped>>

(* The write fails: path.tmp is removed and an error reported.             *)
WriteFails(s) ==
  /\ pc[s] = "open"
  /\ tmp' = TmpAfterRemove(OpenBy \ {s})
  /\ shared' = shared \ {s}
  /\ Goto(s, "idle")
  /\ UNCHANGED <<version, path, copy, up, crashes, overlapped>>

MoveIntoPlace(s) ==
  /\ CanRename
  /\ path' = tmp
  /\ tmp' = NoFile
  /\ Goto(s, "done")

(* The fallback is skipped and a refused rename taken for success. *)
Mut_RenameTmp_ignores_refusal(s) ==
  /\ pc[s] = "closed"
  /\ Goto(s, "done")
  /\ IF CanRename THEN path' = tmp /\ tmp' = NoFile ELSE UNCHANGED <<path, tmp>>
  /\ UNCHANGED <<version, shared, copy, up, crashes, overlapped>>

(* The first rename.  It is refused whenever there is a store file, and    *)
(* like any file operation it may fail.                                    *)
RenameTmp(s) ==
  /\ pc[s] = "closed"
  /\ \/ MoveIntoPlace(s)
     \/ Goto(s, "refused") /\ UNCHANGED <<path, tmp>>
  /\ UNCHANGED <<version, shared, copy, up, crashes, overlapped>>

(* "use remove+rename best effort": the store file goes first.  Whether    *)
(* remove worked is not looked at.                                         *)
RemovePath(s) ==
  /\ pc[s] = "refused"
  /\ path' \in {path, NoFile}
  /\ Goto(s, "removed")
  /\ UNCHANGED <<version, tmp, shared, copy, up, crashes, overlapped>>

(* The second rename; if it fails too, path.tmp is removed and the save    *)
(* reports an error.                                                       *)
RenameAgain(s) ==
  /\ pc[s] = "removed"
  /\ \/ MoveIntoPlace(s)
     \/ /\ tmp' = TmpAfterRemove(OpenBy)
        /\ Goto(s, "idle")
        /\ UNCHANGED path
  /\ UNCHANGED <<version, shared, copy, up, crashes, overlapped>>

(* dispatch answers the SAVE with success.                                 *)
Reply(s) ==
  /\ pc[s] = "done"
  /\ Goto(s, "idle")
  /\ UNCHANGED <<version, files, copy, up, crashes>>

(* The process dies; open handles close, files stay as they are.           *)
Crash ==
  /\ up = "running"
  /\ crashes < MaxCrashes
  /\ crashes' = crashes + 1
  /\ up' = "down"
  /\ pc' = [s \in Savers |-> "idle"]
  /\ shared' = {}
  /\ UNCHANGED <<version, path, tmp, copy, overlapped>>

(* What path holds becomes the state, whatever it is. *)
Mut_Start_unchecked ==
  /\ up = "down"
  /\ version' = path /\ up' = "running"
  /\ UNCHANGED <<files, pc, copy, crashes>>

(* start, load_state: no file is a fresh store (version 0), a damaged file *)
(* is refused (load_snapshot checks length and CRC), a snapshot is         *)
(* recovered.  path.tmp is never looked at.                                *)
Start ==
  /\ up = "down"
  /\ version' = CASE path \in Versions -> path
                  [] path = NoFile -> 0
                  [] path = Torn -> version
  /\ up' = IF path = Torn THEN "failed" ELSE "running"
  /\ UNCHANGED <<files, pc, copy, crashes>>

SaverStep(s) ==
  /\ up = "running"
  /\ \/ CopyState(s) \/ OpenTmp(s) \/ OpenFails(s) \/ WriteTmp(s) \/ WriteFails(s)
     \/ RenameTmp(s) \/ RemovePath(s) \/ RenameAgain(s) \/ Reply(s)

Next == Change \/ Crash \/ Start \/ \E s \in Savers : SaverStep(s)

Spec == Init /\ [][Next]_vars

-----------------------------------------------------------------------------
(* Properties *)

(* Only saves that overlap can damage the store: whatever instant a save   *)
(* is cut short, however often, path holds a complete snapshot or nothing, *)
(* and load_snapshot has nothing to refuse, as long as no SAVE reached the *)
(* disk while another was there.  Both limits are the code's: nothing      *)
(* keeps two SAVE requests apart, and "nothing" is what a crash between    *)
(* the removal of path and the second rename leaves of the earlier         *)
(* snapshot, although "Writes are atomic (temp file + rename)" (store.hpp).*)
DamageNeedsOverlap == path = Torn \/ up = "failed" => overlapped

(* A save about to be reported as done has its own snapshot in place,      *)
(* whichever of the two renames got it there, unless saves overlapped.     *)
SavedIsStored == \A s \in Savers : pc[s] = "done" => path = copy[s] \/ overlapped
=============================================================================
