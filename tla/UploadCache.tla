------------------------------ MODULE UploadCache ------------------------------
(***************************************************************************)
(* The upload cache of a forwarded program: the client keeps the digests   *)
(* of the tensors the executor holds and sends a digest in place of bytes  *)
(* (Client._place); the executor keeps the bytes in the same order         *)
(* (Executor._resolve).  Each side evicts by itself, so they must agree    *)
(* without ever talking about it.                                          *)
(***************************************************************************)
EXTENDS Integers, Sequences, SequencesExt, FiniteSets

CONSTANTS Blobs,      \* the tensors a program uploads
          Size,       \* the bytes of each
          CacheMin,   \* CACHE_MIN_BYTES
          Budgets,    \* the budgets set_upload_cache_bytes is called with, the default among them
          MaxBlobs,   \* how many tensors one message uploads at most
          MaxBatches  \* how many messages may be on their way

VARIABLES uploads, budget, unsaid,   \* Client._uploads, oldest first, _upload_budget, _budget_unsent
          batches,                   \* messages on their way
          table, limit, lacked       \* Executor._uploads and _upload_budget, and a digest it had not

uploadVars == <<uploads, budget, unsaid, batches, table, limit, lacked>>
NoBudget == -1

UploadTypeOK ==
  /\ uploads \in Seq(Blobs) /\ table \in Seq(Blobs) /\ IsInjective(uploads) /\ IsInjective(table)
  /\ budget \in Budgets /\ limit \in Budgets /\ unsaid \in Budgets \union {NoBudget}
  /\ Len(batches) <= MaxBatches /\ lacked \in BOOLEAN

UploadInit ==
  /\ uploads = <<>> /\ unsaid = NoBudget /\ batches = <<>> /\ table = <<>> /\ lacked = FALSE
  /\ budget \in Budgets /\ limit = budget

Bytes(s) == FoldLeft(LAMBDA total, b : total + Size[b], 0, s)
\* _evict_uploads drops the oldest until the rest fits.
Evicted(s, most) ==
  LET fits == {i \in 1 .. Len(s) + 1 : Bytes(SubSeq(s, i, Len(s))) <= most}
      from == CHOOSE i \in fits : \A j \in fits : i <= j
  IN  SubSeq(s, from, Len(s))
Latest(s, b) == Append(RemoveFirst(s, b), b)

\* _place: a blob worth caching goes as its digest when it is held, else as its bytes.
Cached(b) == CacheMin <= Size[b] /\ Size[b] <= budget
Placed(acc, b) ==
  IF ~Cached(b) THEN [acc EXCEPT !.sent = Append(@, <<"bytes", b>>)]
  ELSE [uploads |-> Evicted(Latest(acc.uploads, b), budget),
        sent |-> Append(acc.sent, <<IF Contains(acc.uploads, b) THEN "digest" ELSE "place", b>>)]

\* A message uploads some tensors, and tells the budget that changed since the last one.
Sends ==
  /\ Len(batches) < MaxBatches
  /\ \E blobs \in UNION {[1 .. n -> Blobs] : n \in 1 .. MaxBlobs} :
       LET all == FoldLeft(Placed, [uploads |-> uploads, sent |-> <<>>], blobs)
       IN  uploads' = all.uploads /\ batches' = Append(batches, [cache |-> unsaid, blobs |-> all.sent])
  /\ unsaid' = NoBudget
  /\ UNCHANGED <<budget, table, limit, lacked>>

\* Mutant: only the table is cut.
SetsBudgetQuietly ==
  \E most \in Budgets :
    /\ budget' = most /\ uploads' = Evicted(uploads, most)
    /\ UNCHANGED <<unsaid, batches, table, limit, lacked>>
SetsBudget ==
  \E most \in Budgets :
    /\ budget' = most /\ uploads' = Evicted(uploads, most) /\ unsaid' = most
    /\ UNCHANGED <<batches, table, limit, lacked>>

\* _apply_uploads and _resolve.
Resolved(most, acc, sent) ==
  CASE sent[1] = "bytes" -> acc
    [] sent[1] = "place" -> [acc EXCEPT !.table = Evicted(Latest(@, sent[2]), most)]
    [] OTHER -> [table |-> Latest(acc.table, sent[2]),
                 lacked |-> acc.lacked \/ ~Contains(acc.table, sent[2])]
Applies ==
  /\ batches # <<>> /\ batches' = Tail(batches)
  /\ LET message == Head(batches)
         most == IF message.cache = NoBudget THEN limit ELSE message.cache
         done == FoldLeft(LAMBDA acc, sent : Resolved(most, acc, sent),
                          [table |-> Evicted(table, most), lacked |-> lacked], message.blobs)
     IN  limit' = most /\ table' = done.table /\ lacked' = done.lacked
  /\ UNCHANGED <<uploads, budget, unsaid>>

UploadNext == Sends \/ SetsBudget \/ Applies
UploadSpec == UploadInit /\ [][UploadNext]_uploadVars

-----------------------------------------------------------------------------
\* A digest the client sends names bytes the executor still holds, whatever was evicted and
\* whichever budgets were set in between: _place and _resolve keep the same table.
DigestsHeld == ~lacked

\* Once every message is applied, what the client takes for held is the newest part of what the
\* executor holds, in the same order, and neither is over the budget in force.  (Of two budgets
\* set between two messages the executor hears the last, so it may hold more.)
TablesAgree == batches = <<>> /\ unsaid = NoBudget =>
                 IsSuffix(uploads, table) /\ limit = budget /\ Bytes(table) <= limit
=============================================================================
