----------------------------- MODULE ContentStore -----------------------------
(***************************************************************************)
(* A content addressed store (letify/store): a checkpoint or an            *)
(* environment archive is put under the digest of its contents, and then   *)
(* the name that stands for the newest one is moved to that digest.  On a  *)
(* directory a blob is written beside its place and renamed; an object     *)
(* store takes it in one request.                                          *)
(***************************************************************************)
EXTENDS Integers, FiniteSets

CONSTANTS Savers,    \* calls of put_checkpoint, absorb or cache_env, in any number of processes
          Digests,   \* what there is to save
          Together   \* whether two of them may put the same digest at once

VARIABLES kind,      \* "files" or "objects", the backend of the store
          blob,      \* per digest the contents under its name: none, cut, whole
          partial,   \* per digest the contents of the file beside it
          ref,       \* what the name points at: a digest, "none", or "cut"
          saver      \* per saver where it is, what it saves, and the file it has open

storeVars == <<kind, blob, partial, ref, saver>>

StoreInit ==
  /\ kind \in {"files", "objects"} /\ ref = "none"
  /\ blob = [d \in Digests |-> "none"] /\ partial = [d \in Digests |-> "none"]
  /\ saver \in [Savers -> [at : {"start"}, of : Digests, file : {"none"}, clean : {TRUE}]]

Of(s) == saver[s].of
On(d, file) == {s \in Savers : Of(s) = d /\ saver[s].at = "writing" /\ saver[s].file = file}
Putting(s) == saver[s].at \in {"putting", "writing", "replacing"}
Goes(s, at) == saver' = [saver EXCEPT ![s].at = at]

\* Mutant: the file beside the blob passes for it.
LooksBeside(s) ==
  /\ saver[s].at = "start"
  /\ ~Together => \A o \in Savers \ {s} : Putting(o) => Of(o) # Of(s)
  /\ Goes(s, IF blob[Of(s)] = "none" /\ partial[Of(s)] = "none" THEN "putting" ELSE "pointing")
  /\ UNCHANGED <<kind, blob, partial, ref>>
\* Store.put_bytes: what the backend has is not put again.
Looks(s) ==
  /\ saver[s].at = "start"
  /\ ~Together => \A o \in Savers \ {s} : Putting(o) => Of(o) # Of(s)
  /\ Goes(s, IF blob[Of(s)] = "none" THEN "putting" ELSE "pointing")
  /\ UNCHANGED <<kind, blob, partial, ref>>
PutsObject(s) ==
  /\ kind = "objects" /\ saver[s].at = "putting" /\ blob' = [blob EXCEPT ![Of(s)] = "whole"] /\ Goes(s, "pointing")
  /\ UNCHANGED <<kind, partial, ref>>

\* FilesystemBackend.put: the file beside the blob is opened, which empties it, is written, and
\* takes the blob's place with every handle open on it.
OpensPartial(s) ==
  /\ kind = "files" /\ saver[s].at = "putting" /\ partial' = [partial EXCEPT ![Of(s)] = "cut"]
  /\ saver' = [o \in Savers |-> IF o = s THEN [saver[s] EXCEPT !.at = "writing", !.file = "partial", !.clean = TRUE]
                                ELSE IF o \in On(Of(s), "partial") THEN [saver[o] EXCEPT !.clean = FALSE] ELSE saver[o]]
  /\ UNCHANGED <<kind, blob, ref>>
WritesPartial(s) ==
  /\ saver[s].at = "writing" /\ Goes(s, "replacing")
  /\ partial' = IF saver[s].clean /\ saver[s].file = "partial" THEN [partial EXCEPT ![Of(s)] = "whole"] ELSE partial
  /\ blob' = IF saver[s].clean /\ saver[s].file = "blob" THEN [blob EXCEPT ![Of(s)] = "whole"] ELSE blob
  /\ UNCHANGED <<kind, ref>>
Replaces(s) ==
  /\ saver[s].at = "replacing"
  /\ IF partial[Of(s)] = "none"     \* another saver has renamed it
     THEN Goes(s, "failed") /\ UNCHANGED <<blob, partial>>
     ELSE /\ blob' = [blob EXCEPT ![Of(s)] = partial[Of(s)]] /\ partial' = [partial EXCEPT ![Of(s)] = "none"]
          /\ saver' = [o \in Savers |-> IF o = s THEN [saver[s] EXCEPT !.at = "pointing"]
                         ELSE IF o \in On(Of(s), "partial") THEN [saver[o] EXCEPT !.file = "blob"]
                         ELSE IF o \in On(Of(s), "blob") THEN [saver[o] EXCEPT !.file = "gone"] ELSE saver[o]]
  /\ UNCHANGED <<kind, ref>>

\* Store.point: in a directory the old name is gone before the new one is there.
Points(s) ==
  /\ saver[s].at = "pointing"
  /\ IF kind = "objects" THEN ref' = Of(s) /\ Goes(s, "done") ELSE ref' = "cut" /\ Goes(s, "naming")
  /\ UNCHANGED <<kind, blob, partial>>
Names(s) == /\ saver[s].at = "naming" /\ ref' = Of(s) /\ Goes(s, "done") /\ UNCHANGED <<kind, blob, partial>>
\* Mutant: the blob it was saving is removed.
DiesCleaning(s) ==
  /\ saver[s].at \notin {"done", "failed", "dead"} /\ Goes(s, "dead") /\ blob' = [blob EXCEPT ![Of(s)] = "none"]
  /\ UNCHANGED <<kind, partial, ref>>
\* A process ends, and leaves what it was writing.
Dies(s) == /\ saver[s].at \notin {"done", "failed", "dead"} /\ Goes(s, "dead") /\ UNCHANGED <<kind, blob, partial, ref>>

StoreNext == \E s \in Savers : Looks(s) \/ PutsObject(s) \/ OpensPartial(s) \/ WritesPartial(s) \/ Replaces(s)
                              \/ Points(s) \/ Names(s) \/ Dies(s)
StoreSpec == StoreInit /\ [][StoreNext]_storeVars
-----------------------------------------------------------------------------
\* filesystem.py:35 "a reader never sees a partial blob": whoever finds a digest finds all of
\* its contents, whatever process ended while it wrote.
BlobsWhole == \A d \in Digests : blob[d] \in {"none", "whole"}

\* A name that can be read points at a digest the store has.
RefResolves == ref \in Digests => blob[ref] = "whole"

\* Savers at the same time lose no contents: what was saved stays, whoever wins the name.
SavedStays == [][\A s \in Savers : saver[s].at = "done" => blob'[Of(s)] = "whole"]_storeVars
=============================================================================
