------------------------------ MODULE Materialize ------------------------------
(***************************************************************************)
(* Volume.materialize (store/volume.py) on a machine that keeps its disk:  *)
(* a blob is written to a path, and the manifest beside it remembers the   *)
(* digest with the size and the modification time, so that a later session *)
(* skips a file that is still the same.                                    *)
(***************************************************************************)
EXTENDS Integers, FiniteSets

CONSTANTS Calls,     \* calls of materialize or resume that name the same path
          Blobs,     \* what they ask for
          Together,  \* whether two calls may be between their first step and their last
          MaxWrites  \* how often the file may be written

VARIABLES file,      \* the file: what it holds, and the stamp of its last write, 0 for no file
          partial,   \* what the file beside it holds, where the machine pulls
          entry,     \* the manifest's entry [digest, stamp] for the path
          call       \* per call where it is, its digest and how its bytes come, and what it returned

materializeVars == <<file, partial, entry, call>>
Absent == [holds |-> "nothing", stamp |-> 0]
NoEntry == [digest |-> "nothing", stamp |-> 0]

MaterializeInit ==
  /\ file = Absent /\ partial = "nothing" /\ entry = NoEntry
  /\ call \in [Calls -> [at : {"start"}, digest : Blobs, way : {"pull", "put"}]]

Moves(c, at) == call' = [call EXCEPT ![c].at = at]
Written(holds) == file' = [holds |-> holds, stamp |-> file.stamp + 1]
Busy(c) == call[c].at \in {"writing", "recording"}

\* _held_source: an entry stands while the file has the size and the time it had.
Checks(c) ==
  /\ call[c].at = "start" /\ (~Together => \A o \in Calls : ~Busy(o))
  /\ Moves(c, IF file.stamp # 0 /\ entry = [digest |-> call[c].digest, stamp |-> file.stamp] THEN "held" ELSE "writing")
  /\ UNCHANGED <<file, partial, entry>>

\* _op_pull writes beside the file and renames it; _op_put_file writes the file itself.
PullsPart(c) ==
  /\ call[c].at = "writing" /\ call[c].way = "pull" /\ partial = "nothing" /\ partial' = "part"
  /\ UNCHANGED <<file, entry, call>>
Pulled(c) ==
  /\ call[c].at = "writing" /\ call[c].way = "pull" /\ partial # "nothing" /\ file.stamp < MaxWrites
  /\ Written(call[c].digest) /\ partial' = "nothing" /\ Moves(c, "recording")
  /\ UNCHANGED entry
PutsPart(c) ==
  /\ call[c].at = "writing" /\ call[c].way = "put" /\ file.holds # "part" /\ file.stamp < MaxWrites
  /\ Written("part") /\ UNCHANGED <<partial, entry, call>>
Put(c) ==
  /\ call[c].at = "writing" /\ call[c].way = "put" /\ file.holds = "part" /\ file.stamp < MaxWrites
  /\ Written(call[c].digest) /\ Moves(c, "recording") /\ UNCHANGED <<partial, entry>>

\* Mutant: the entry is made before the bytes are there.
RecordsEarly(c) ==
  /\ call[c].at \in {"writing", "recording"} /\ entry' = [digest |-> call[c].digest, stamp |-> file.stamp]
  /\ call' = [call EXCEPT ![c].at = IF @ = "recording" THEN "done" ELSE @] /\ UNCHANGED <<file, partial>>
\* _record_source takes the size and the time of whatever is there by then.
Records(c) ==
  /\ call[c].at = "recording" /\ entry' = [digest |-> call[c].digest, stamp |-> file.stamp] /\ Moves(c, "done")
  /\ UNCHANGED <<file, partial>>

\* The session ends between any two steps.
Ends(c) == Busy(c) /\ Moves(c, "ended") /\ UNCHANGED <<file, partial, entry>>

\* The body of a call writes the file once it is there.  Assumed: no body writes it while a
\* materialize of the path is under way.  One that writes between Put and Records has its own
\* stamp recorded with the digest that was put, and EntrySound fails.
BodyWrites ==
  /\ \E c \in Calls : call[c].at \in {"done", "held"}
  /\ (\A c \in Calls : ~Busy(c)) /\ file.stamp < MaxWrites
  /\ Written("own") /\ UNCHANGED <<partial, entry, call>>

MaterializeNext == BodyWrites \/ \E c \in Calls : Checks(c) \/ PullsPart(c) \/ Pulled(c) \/ PutsPart(c) \/ Put(c)
                                                 \/ Records(c) \/ Ends(c)
MaterializeSpec == MaterializeInit /\ [][MaterializeNext]_materializeVars
-----------------------------------------------------------------------------
\* What the manifest vouches for is in the file, whoever has written it since and whatever
\* session ended half way: a call that is told the file is held finds its digest there.
EntrySound == entry.stamp # 0 /\ entry.stamp = file.stamp => file.holds = entry.digest
=============================================================================
