------------------------------- MODULE ArgBlobs -------------------------------
(***************************************************************************)
(* Large arguments (runtime/session.py, protocol/worker.py): an argument   *)
(* travels once, and later calls name its digest.  The caller remembers    *)
(* what the worker has; on a machine that keeps its disk the worker writes *)
(* every blob there too, within a limit, where the next session finds it.  *)
(***************************************************************************)
EXTENDS Integers, Sequences, SequencesExt, FiniteSets

CONSTANTS Args,      \* arguments, by digest
          ArgSize,   \* the bytes of each
          Limit,     \* BLOB_DISK_LIMIT
          MaxPlan,   \* how many large arguments a call has at most
          Shared     \* whether two sessions run on the machine at once

Sessions == IF Shared THEN {1, 2} ELSE {1}

VARIABLES disk,      \* the files in the blob directory, in the order of their modification times
          known,     \* Runtime._blobs, per session
          memory,    \* the worker's _BLOBS, per session
          call,      \* per session where its call is, its arguments, and those still to send
          astray     \* per session what was known but not in memory when a call last ended early

argVars == <<disk, known, memory, call, astray>>
NoCall == [at |-> "none", plan |-> {}, left |-> {}]

ArgInit ==
  /\ disk = <<>> /\ known = [s \in Sessions |-> {}] /\ memory = [s \in Sessions |-> {}]
  /\ call = [s \in Sessions |-> NoCall] /\ astray = [s \in Sessions |-> {}]

OnDisk == ToSet(disk)
Bytes(files) == FoldLeft(LAMBDA total, d : total + ArgSize[d], 0, files)

\* _externalize, and the first lines of _upload_blobs: what is known is not asked for.
Begins(s, plan) ==
  /\ call[s].at = "none"
  /\ call' = [call EXCEPT ![s] = [at |-> IF plan \subseteq known[s] THEN "sent" ELSE "asking", plan |-> plan,
                                  left |-> plan \ known[s]]]
  /\ UNCHANGED <<disk, known, memory, astray>>

\* Mutant: a file that is asked for stays as old as it is.
Untouched(files, asked) == files
\* _op_have: a file that is asked for counts as new again.
Touched(files, asked) ==
  FoldLeft(LAMBDA all, d : Append(RemoveFirst(all, d), d), files, SetToSeq(ToSet(files) \intersect asked))
Asks(s) ==
  /\ call[s].at = "asking"
  /\ LET held == call[s].left \intersect (memory[s] \union OnDisk)
     IN  /\ known' = [known EXCEPT ![s] = @ \union held]
         /\ disk' = Touched(disk, call[s].left \ memory[s])
         /\ call' = [call EXCEPT ![s].left = @ \ held, ![s].at = IF call[s].left = held THEN "sent" ELSE "sending"]
  /\ UNCHANGED <<memory, astray>>

\* _disk_write and _disk_evict: the oldest files go until the rest fits, but never the new one.
Fits(files, d) == {n \in 0 .. Len(files) : Bytes(SubSeq(files, n + 1, Len(files))) + ArgSize[d] <= Limit \/ n = Len(files)}
Kept(files, d) == LET n == CHOOSE k \in Fits(files, d) : \A j \in Fits(files, d) : k <= j
                  IN  Append(SubSeq(files, n + 1, Len(files)), d)
Stored(d) == IF d \in OnDisk THEN disk ELSE Kept(disk, d)
PutsBlob(s, d) ==
  /\ call[s].at = "sending" /\ d \in call[s].left
  /\ memory' = [memory EXCEPT ![s] = @ \union {d}] /\ known' = [known EXCEPT ![s] = @ \union {d}]
  /\ disk' = Stored(d)
  /\ call' = [call EXCEPT ![s].left = @ \ {d}, ![s].at = IF call[s].left = {d} THEN "sent" ELSE "sending"]
  /\ UNCHANGED astray

\* _resolve: from memory, or from the disk into memory, one by one up to the first that is nowhere.
Resolves(s) ==
  /\ call[s].at = "sent"
  /\ IF call[s].plan \subseteq memory[s] \union OnDisk
     THEN memory' = [memory EXCEPT ![s] = @ \union call[s].plan] /\ call' = [call EXCEPT ![s] = NoCall]
     ELSE /\ \E some \in SUBSET (call[s].plan \intersect OnDisk) : memory' = [memory EXCEPT ![s] = @ \union some]
          /\ call' = [call EXCEPT ![s].at = "unresolved"]
  /\ UNCHANGED <<disk, known, astray>>

\* A question fails or is late; an upload fails before the disk, after it or before the memory; a
\* function does not pickle or does not load, or an argument does not, and some are loaded by then.
Halfway(s) ==
  CASE call[s].at = "asking" -> disk' \in {disk, Touched(disk, call[s].left \ memory[s])} /\ UNCHANGED memory
    [] call[s].at = "sending" -> \/ UNCHANGED <<disk, memory>>
                                \/ \E d \in call[s].left :
                                     \/ memory' = [memory EXCEPT ![s] = @ \union {d}] /\ UNCHANGED disk
                                     \/ disk' = Stored(d) /\ UNCHANGED memory
    [] call[s].at = "sent" -> /\ \E some \in SUBSET (call[s].plan \intersect OnDisk) :
                                   memory' = [memory EXCEPT ![s] = @ \union some]
                              /\ UNCHANGED disk
    [] call[s].at = "unresolved" -> UNCHANGED <<disk, memory>>

\* The call ends early wherever it is; the session goes on, and what is known stays known.
GivesUp(s) ==
  /\ call[s].at # "none" /\ Halfway(s)
  /\ call' = [call EXCEPT ![s] = NoCall] /\ astray' = [astray EXCEPT ![s] = known[s] \ memory'[s]]
  /\ UNCHANGED known

\* The session ends, and the next one on this machine starts with nothing but the disk.
NextSession(s) ==
  /\ known' = [known EXCEPT ![s] = {}] /\ memory' = [memory EXCEPT ![s] = {}]
  /\ call' = [call EXCEPT ![s] = NoCall] /\ astray' = [astray EXCEPT ![s] = {}]
  /\ UNCHANGED disk

ArgNext == \E s \in Sessions :
  \/ \E plan \in SUBSET Args : plan # {} /\ Cardinality(plan) <= MaxPlan /\ Begins(s, plan)
  \/ Asks(s) \/ GivesUp(s) \/ Resolves(s) \/ NextSession(s)
  \/ \E d \in Args : PutsBlob(s, d)
ArgSpec == ArgInit /\ [][ArgNext]_argVars
-----------------------------------------------------------------------------
\* A call whose large arguments fit on the disk together finds every one of them, held in memory
\* or on the disk from an earlier session, unless another session shares the disk, or one of them
\* was never loaded because a call of this session ended early after it was counted as held.
FittingResolve == ~Shared =>
  \A s \in Sessions : call[s].at = "unresolved" =>
    Bytes(SetToSeq(call[s].plan)) > Limit \/ call[s].plan \intersect astray[s] # {}
=============================================================================
