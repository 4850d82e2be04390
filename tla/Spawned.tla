-------------------------------- MODULE Spawned --------------------------------
(***************************************************************************)
(* A file of a call, opened by processes that the body starts fresh        *)
(* (_PENDING_MODULE in protocol/worker.py): each waits until the worker    *)
(* has placed the file, and copies it before it writes, for a placed file  *)
(* is a link to the cache's blob.  The worker's own opens are DataStream's *)
(* subject.                                                                *)
(***************************************************************************)
EXTENDS Integers, FiniteSets

CONSTANTS Children,   \* processes the body starts
          MaxInodes,  \* files the disk has room for
          OneWriter   \* whether the children open the file for writing one after the other

VARIABLES
  manifest,    \* whether the manifest could be written, and the child has its environment
  cached,      \* the inode of the cache's blob, or 0
  path,        \* the inode at the file's path, or 0
  inodes,      \* inodes used so far
  written,     \* per inode the children whose writes it holds
  child,       \* per child: starts, patched, plain, waits, copies, replaces, opens, holds, done, error
  writes,      \* per child whether it opens for writing
  copy, fd,    \* per child the inode of its partial copy, and of what it has open
  failed,      \* the blob will not come
  fell,        \* a copy failed, so a child wrote through the link
  over         \* the call has ended

spawnVars == <<manifest, cached, path, inodes, written, child, writes, copy, fd, failed, fell, over>>

Inodes == 1 .. MaxInodes
SpawnInit ==
  /\ manifest \in BOOLEAN /\ cached = 0 /\ path = 0 /\ inodes = 0 /\ written = [i \in Inodes |-> {}]
  /\ child = [c \in Children |-> "starts"] /\ writes \in [Children -> BOOLEAN]
  /\ copy = [c \in Children |-> 0] /\ fd = [c \in Children |-> 0] /\ failed = FALSE
  /\ fell = FALSE /\ over = FALSE

Goes(c, where) == child' = [child EXCEPT ![c] = where]
Links(i) == (IF path = i THEN 1 ELSE 0) + (IF cached = i THEN 1 ELSE 0)

\* Mutant: no link is told from a file of its own.
SharesNever == FALSE
\* convert: a link count above one says that the cache has it too.
Shares == Links(path) >= 2

-----------------------------------------------------------------------------
(* The worker. *)

\* _data_write_manifest; the child reads it once, when it starts.
Starts(c) ==
  /\ child[c] = "starts" /\ Goes(c, IF manifest THEN "patched" ELSE "plain")
  /\ UNCHANGED <<manifest, cached, path, inodes, written, writes, copy, fd, failed, fell, over>>
\* The last piece of the blob, and _data_place_now: the link is made beside and renamed.
Places ==
  /\ ~over /\ cached = 0 /\ path = 0 /\ ~failed /\ inodes' = inodes + 1 /\ cached' = inodes + 1 /\ path' = inodes + 1
  /\ UNCHANGED <<manifest, written, child, writes, copy, fd, failed, fell, over>>
Evicted ==
  /\ cached > 0 /\ cached' = 0
  /\ UNCHANGED <<manifest, path, inodes, written, child, writes, copy, fd, failed, fell, over>>
Fails ==
  /\ ~over /\ cached = 0 /\ path = 0 /\ failed' = TRUE
  /\ UNCHANGED <<manifest, cached, path, inodes, written, child, writes, copy, fd, fell, over>>

\* Mutant: a converted path is taken for one that never was a link.
EndsConverted ==
  /\ ~over /\ (\A c \in Children : child[c] \in {"starts", "patched", "plain", "done", "error"})
  /\ over' = TRUE /\ cached' = IF cached = path THEN 0 ELSE cached
  /\ UNCHANGED <<manifest, path, inodes, written, child, writes, copy, fd, failed, fell>>
\* The call returns when its children are done; _data_check_cache drops a blob that was
\* written through a link.
Ends ==
  /\ ~over /\ (\A c \in Children : child[c] \in {"starts", "patched", "plain", "done", "error"})
  /\ over' = TRUE /\ cached' = IF cached > 0 /\ written[cached] # {} THEN 0 ELSE cached
  /\ UNCHANGED <<manifest, path, inodes, written, child, writes, copy, fd, failed, fell>>

-----------------------------------------------------------------------------
(* A child. *)

Writing(c) == writes[c] /\ child[c] \in {"waits", "copies", "replaces", "opens", "holds"}
Open(c) ==
  /\ child[c] = "patched" /\ ~over /\ Goes(c, "waits")
  /\ (OneWriter /\ writes[c] => \A d \in Children \ {c} : ~Writing(d))
  /\ UNCHANGED <<manifest, cached, path, inodes, written, writes, copy, fd, failed, fell, over>>
\* Without the patch the file is what it is.
OpenPlain(c) ==
  /\ child[c] = "plain" /\ ~over /\ Goes(c, IF path = 0 THEN "error" ELSE "opens")
  /\ (OneWriter /\ writes[c] => \A d \in Children \ {c} : ~Writing(d))
  /\ fell' = (fell \/ (writes[c] /\ Shares))
  /\ UNCHANGED <<manifest, cached, path, inodes, written, writes, copy, fd, failed, over>>
Finds(c) ==
  /\ child[c] = "waits" /\ path > 0 /\ Goes(c, IF writes[c] /\ Shares THEN "copies" ELSE "opens")
  /\ UNCHANGED <<manifest, cached, path, inodes, written, writes, copy, fd, failed, fell, over>>
NeverArrives(c) ==
  /\ child[c] = "waits" /\ path = 0 /\ Goes(c, "error")
  /\ UNCHANGED <<manifest, cached, path, inodes, written, writes, copy, fd, failed, fell, over>>
\* A copy that fails is given up, and the link is opened as it is.
CopyFails(c) ==
  /\ child[c] = "copies" /\ Goes(c, "opens") /\ fell' = TRUE
  /\ UNCHANGED <<manifest, cached, path, inodes, written, writes, copy, fd, failed, over>>
Copies(c) ==
  /\ child[c] = "copies" /\ inodes < MaxInodes
  /\ inodes' = inodes + 1 /\ copy' = [copy EXCEPT ![c] = inodes + 1]
  /\ written' = [written EXCEPT ![inodes + 1] = written[path]] /\ Goes(c, "replaces")
  /\ UNCHANGED <<manifest, cached, path, writes, fd, failed, fell, over>>
Replaces(c) ==
  /\ child[c] = "replaces" /\ path' = copy[c] /\ copy' = [copy EXCEPT ![c] = 0] /\ Goes(c, "opens")
  /\ UNCHANGED <<manifest, cached, inodes, written, writes, fd, failed, fell, over>>
Opens(c) ==
  /\ child[c] = "opens" /\ fd' = [fd EXCEPT ![c] = path] /\ Goes(c, "holds")
  /\ UNCHANGED <<manifest, cached, path, inodes, written, writes, copy, failed, fell, over>>
Writes(c) ==
  /\ child[c] = "holds" /\ Goes(c, "done") /\ fd' = [fd EXCEPT ![c] = 0]
  /\ written' = IF writes[c] THEN [written EXCEPT ![fd[c]] = @ \cup {c}] ELSE written
  /\ UNCHANGED <<manifest, cached, path, inodes, writes, copy, failed, fell, over>>

SpawnNext ==
  \/ Places \/ Evicted \/ Fails \/ Ends
  \/ \E c \in Children : Starts(c) \/ Open(c) \/ OpenPlain(c) \/ Finds(c) \/ NeverArrives(c) \/ Copies(c) \/ CopyFails(c)
                         \/ Replaces(c) \/ Opens(c) \/ Writes(c)
SpawnSpec == SpawnInit /\ [][SpawnNext]_spawnVars

-----------------------------------------------------------------------------
\* A child's write reaches the cache's blob only when its copy failed, and never outlives the
\* call there; and what a child wrote is in the file at the path (worker.py:1588 "a write
\* through it writes into the cache", _data_check_cache).
CopiesOnWrite ==
  /\ cached > 0 /\ (over \/ ~fell) => written[cached] = {}
  /\ \A c \in Children : child[c] = "done" /\ writes[c] => c \in written[path]
=============================================================================
