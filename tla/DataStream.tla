----------------------------- MODULE DataStream -----------------------------
(***************************************************************************)
(* Project data on its way to a running call (store/pathdata.py, the data  *)
(* operations of protocol/worker.py, runtime/session.py).                  *)
(*                                                                         *)
(* Sessions share one machine, hence one cache of file blobs.  Each call   *)
(* names some files; the blobs the machine lacks are sent in order, a      *)
(* first wave before the call and the rest on a thread beside it, while    *)
(* the body opens files, waits for those that have not arrived and asks    *)
(* for them.  A file is named by its digest; a blob goes in two pieces.    *)
(***************************************************************************)
EXTENDS Naturals, Sequences, FiniteSets, SequencesExt

CONSTANTS Session,    \* sessions of one user on one machine
          File,       \* digests
          None,       \* no file, no transfer
          Programs,   \* which calls the sessions make, a list of file sets for each
          Native,     \* files bodies write to
          MaxWants,   \* wants that may be left unread
          Overlong,   \* sessions whose transfers may outlast the minute a cancel waits
          Listers,    \* sessions whose bodies list directories
          Editable,   \* files the user may save during a call
          Hashing     \* whether the worker can hash what arrives

ASSUME StreamAssumption ==
  /\ None \notin File /\ Native \cup Editable \subseteq File /\ Overlong \cup Listers \subseteq Session
  /\ Programs \subseteq [Session -> Seq(SUBSET File)]
  /\ MaxWants \in Nat /\ Hashing \in BOOLEAN

Final == 2     \* the second and last piece of a blob
Threads == {"now", "old"}     \* the sender of this call, and one a cancel gave up on

VARIABLES
  route,     \* how this machine is reached: "pieces", "ranges" or "bucket"
  blob,      \* the cache: digest -> "none", "whole" or "foreign" (other bytes)
  partial,   \* the one partial file of a parallel transfer, by digest
  torn,      \* blobs whose partial file was written between the hash and the rename of a seal
  open,      \* digests whose partial file the worker of each session appends to
  edited,    \* files changed on the client since they were hashed
  native,    \* files bodies also write to in ways that avoid the patched open
  hidden,    \* blobs whose writer took a private copy after it wrote through the link
  phase,     \* "idle", "wave", "running" or "over", by session
  todo,      \* the calls still to come, by session
  files,     \* the files of the call, plan.files
  queue, sent, sender, flight, fault,   \* the call's Stream
  wants,     \* data_want messages the client's connection has not handed out
  at,        \* the runtime path: "pending", placed "whole" or "foreign", or "spoiled" since
  shared,    \* paths that are still links to a blob
  snap,      \* the pending names a listing has read, before it reads the disk
  gone       \* blobs a call counts on, removed before they were placed for it

setting == <<route, native>>
cache == <<blob, partial, torn, open, hidden>>
stream == <<queue, sent, sender, flight, fault, wants>>
body == <<at, shared, snap>>
vars == <<setting, edited, phase, todo, files, gone, cache, stream, body>>

Pending(s) == {f \in files[s] : at[s][f] = "pending"}
Placed(s) == files[s] \ Pending(s)
Linked(f) == \E s \in Session : f \in shared[s]
Running == {s \in Session : phase[s] = "running"}

\* A transfer in progress and what it does next.  With ranges, 0 makes the file and 1 fills its
\* ranges; the seal hashes it at 2 and then renames it at Renames or removes it at Removes.
Carrying(f, n) == [file |-> f, next |-> n]
Renames == 3
Removes == 4
Flying(s, f) == \E t \in Threads : flight[s][t] # None /\ flight[s][t].file = f
FirstPiece == IF route = "ranges" THEN 0 ELSE 1

TypeOK ==
  /\ route \in {"pieces", "ranges", "bucket"}
  /\ blob \in [File -> {"none", "whole", "foreign"}]
  /\ partial \in [File -> {"none", "holes", "full", "other"}]
  /\ edited \cup native \cup hidden \cup torn \subseteq File
  /\ phase \in [Session -> {"idle", "wave", "running", "over"}]
  /\ sender \in [Session -> {"off", "on", "failed", "done"}]
  /\ \A s \in Session :
       /\ todo[s] \in Seq(SUBSET File)
       /\ shared[s] \cup open[s] \cup gone[s] \cup sent[s] \subseteq File
       /\ Range(wants[s]) \subseteq File
       /\ sender[s] # "off" => phase[s] \in {"running", "over"}
       /\ at[s] \in [File -> {"pending", "whole", "foreign", "spoiled"}]

Init ==
  /\ route \in {"pieces", "ranges", "bucket"} /\ native \in SUBSET Native
  /\ blob = [f \in File |-> "none"] /\ partial = [f \in File |-> "none"]
  /\ open = [s \in Session |-> {}]
  /\ edited = {} /\ hidden = {} /\ torn = {}
  /\ phase = [s \in Session |-> "idle"] /\ todo \in Programs
  /\ files = [s \in Session |-> {}]
  /\ queue = [s \in Session |-> <<>>] /\ wants = [s \in Session |-> <<>>]
  /\ sent = [s \in Session |-> {}] /\ sender = [s \in Session |-> "off"]
  /\ flight = [s \in Session |-> [t \in Threads |-> None]]
  /\ fault = [s \in Session |-> FALSE]
  /\ at = [s \in Session |-> [f \in File |-> "pending"]]
  /\ shared = [s \in Session |-> {}]
  /\ snap = [s \in Session |-> None]
  /\ gone = [s \in Session |-> {}]

-----------------------------------------------------------------------------
(* The cache on the machine. *)

Waits(s, f) == s \in Running /\ f \in Pending(s)

\* _data_arrived: a committed blob is placed for the running call of the worker that
\* received it, if that waits for it.  The link, the stamp and the end of "pending" are one
\* step of the data thread's lock; the other workers learn nothing, and their links to a
\* blob of the same name now lead elsewhere.
Arrives(s, f, kind) ==
  LET here == Waits(s, f) IN
  /\ blob' = [blob EXCEPT ![f] = kind] /\ hidden' = hidden \ {f}
  /\ at' = IF here THEN [at EXCEPT ![s][f] = kind] ELSE at
  /\ gone' = [gone EXCEPT ![s] = @ \ {f}]
  /\ shared' = [r \in Session |->
                 IF here /\ r = s THEN shared[s] \cup {f} ELSE shared[r] \ {f}]

\* An error reply reaches the pipeline of this call, or the one nobody reads any more.
Refuse(s, t) ==
  /\ fault' = [fault EXCEPT ![s] = @ \/ t = "now"]
  /\ UNCHANGED <<blob, hidden, gone, at, shared>>

\* Mutant: whatever arrived is committed.
CommitUnchecked(s, t, f, kind) == Arrives(s, f, kind) /\ UNCHANGED fault

\* What the bytes sent under the name of f are, and whether _data_commit takes them.
Kind(f) == IF f \in edited THEN "foreign" ELSE "whole"
Commit(s, t, f, kind) ==
  IF Hashing /\ kind = "foreign" THEN Refuse(s, t)
  ELSE Arrives(s, f, kind) /\ UNCHANGED fault

\* The names blobs are removed under: a link elsewhere keeps the bytes, not the name.
Forget(fs) ==
  /\ blob' = [f \in File |-> IF f \in fs THEN "none" ELSE blob[f]]
  /\ hidden' = hidden \ fs
  /\ shared' = [s \in Session |-> shared[s] \ fs]

Lost(fs) == [s \in Session |-> gone[s] \cup (IF phase[s] = "over" THEN {} ELSE fs \cap Pending(s))]

\* _op_data_evict on behalf of s: blobs over the budget, but none that is linked or named
\* by a call of this worker process.  Ten minutes, after which a use no longer protects a
\* blob, may pass between any two steps.
Evictable(s) == {f \in File : blob[f] # "none" /\ ~Linked(f)
                              /\ ~(phase[s] = "running" /\ f \in files[s])}

\* `letify` clearing the cache through some session: every blob no call links.
Clear ==
  /\ LET free == {f \in File : blob[f] # "none" /\ ~Linked(f)} IN
       free # {} /\ Forget(free) /\ gone' = Lost(free)
  /\ UNCHANGED <<setting, edited, partial, torn, open, phase, todo, files, stream,
                 at, snap>>

\* The user saves a file while a call that hashed it still has it to send.
Edit(f) ==
  /\ f \in Editable \ edited /\ \E s \in Session : phase[s] \in {"wave", "running"} /\ f \in files[s]
  /\ edited' = edited \cup {f}
  /\ UNCHANGED <<setting, phase, todo, files, gone, cache, stream, body>>

-----------------------------------------------------------------------------
(* The client's side of a call: prepare, the first wave, the sender, the end. *)

\* The local files the pickled call names, each under the digest of its bytes.
Named(s) == Head(todo[s])
Hashed(fs) == fs \cap edited = {}

\* The order the call is predicted to read them in: nothing of it is relied upon.
Predicted(fs) == SetToSeqs(fs)

\* prepare: the digests the machine does not hold with the right size are queued.
Prepare(s) ==
  /\ phase[s] = "idle" /\ todo[s] # <<>> /\ Hashed(Named(s))
  /\ \E q \in Predicted({f \in Named(s) : blob[f] = "none"}) : queue' = [queue EXCEPT ![s] = q]
  /\ phase' = [phase EXCEPT ![s] = "wave"] /\ todo' = [todo EXCEPT ![s] = Tail(@)]
  /\ files' = [files EXCEPT ![s] = Named(s)]
  /\ UNCHANGED <<setting, edited, gone, cache, sent, sender, flight, wants, fault, body>>

\* The digests asked for go to the front, those already sent are passed over.
Asked(s) == IF phase[s] = "wave" THEN <<>> ELSE wants[s]
Line(s) == Asked(s) \o queue[s]
Unsent(s) == {i \in DOMAIN Line(s) : Line(s)[i] \notin sent[s]}

\* place and _pump: take the next blob and start on it.  A digest that is not of this
\* call's plan has no file here, and the lookup ends the thread.
Take(s) ==
  /\ phase[s] = "wave" \/ sender[s] = "on"
  /\ flight[s]["now"] = None
  /\ \E i \in Unsent(s) : LET f == Line(s)[i] IN
       /\ \A j \in Unsent(s) : i <= j
       /\ sent' = [sent EXCEPT ![s] = @ \cup {f}]
       /\ queue' = [queue EXCEPT ![s] = SubSeq(Line(s), i + 1, Len(Line(s)))]
       /\ IF f \in files[s]
          THEN flight' = [flight EXCEPT ![s]["now"] = Carrying(f, FirstPiece)] /\ UNCHANGED sender
          ELSE sender' = [sender EXCEPT ![s] = "failed"] /\ UNCHANGED flight
  /\ wants' = [wants EXCEPT ![s] = IF phase[s] = "wave" THEN @ ELSE <<>>]
  /\ UNCHANGED <<setting, edited, phase, todo, files, gone, cache, fault, body>>

\* Nothing is left to send: the thread reads the last replies and is over for this call.
Exhausted(s) ==
  /\ sender[s] = "on" /\ flight[s]["now"] = None /\ Unsent(s) = {}
  /\ sender' = [sender EXCEPT ![s] = IF fault[s] THEN "failed" ELSE "done"]
  /\ wants' = [wants EXCEPT ![s] = <<>>]
  /\ UNCHANGED <<setting, edited, phase, todo, files, gone, cache, queue, sent, flight, fault,
                 body>>

\* The call is over on the client, and its Stream with it; unread wants stay.
Leave(s) ==
  /\ phase' = [phase EXCEPT ![s] = "idle"] /\ files' = [files EXCEPT ![s] = {}]
  /\ queue' = [queue EXCEPT ![s] = <<>>] /\ sent' = [sent EXCEPT ![s] = {}]
  /\ sender' = [sender EXCEPT ![s] = "off"] /\ fault' = [fault EXCEPT ![s] = FALSE]

\* A refused piece is noticed at a later piece: beside the call it only ends the thread,
\* before the call it is raised to the caller.
Noticed(s) ==
  /\ fault[s] /\ (phase[s] = "wave" \/ sender[s] = "on")
  /\ flight' = [flight EXCEPT ![s]["now"] = None]
  /\ IF phase[s] = "wave"
     THEN Leave(s) /\ gone' = [gone EXCEPT ![s] = {}]
     ELSE /\ sender' = [sender EXCEPT ![s] = "failed"]
          /\ UNCHANGED <<phase, files, gone, queue, sent, fault>>
  /\ UNCHANGED <<setting, edited, todo, cache, wants, body>>

\* One piece of a blob as the worker handles it, and the transfer goes on or is over.
MovesTo(s, t, n) == flight' = [flight EXCEPT ![s][t] = Carrying(@.file, n)]
IsDone(s, t) == flight' = [flight EXCEPT ![s][t] = None]

\* data_put: the first piece truncates, every other is appended to whatever is open.
Put(s, t) ==
  LET f == flight[s][t].file  n == flight[s][t].next IN
  /\ route = "pieces"
  /\ open' = [open EXCEPT ![s] = IF n = 1 THEN @ \cup {f} ELSE @ \ {f}]
  /\ IF n = Final THEN IsDone(s, t) ELSE MovesTo(s, t, n + 1)
  /\ CASE n # 1 /\ f \notin open[s] -> Refuse(s, t)
       [] n = Final /\ f \in open[s] -> Commit(s, t, f, Kind(f))
       [] OTHER -> UNCHANGED <<fault, blob, hidden, gone, at, shared>>
  /\ UNCHANGED <<partial, torn>>

\* The data thread of a worker is in the middle of a seal, and somebody is in one of f.
Sealing(s) == \E t \in Threads : flight[s][t] # None /\ flight[s][t].next \in {Renames, Removes}
Sealed(f) == \E s \in Session, t \in Threads :
               flight[s][t] # None /\ flight[s][t].file = f /\ flight[s][t].next = Renames

\* The partial file is one for the whole machine, and no lock is held from the hash of a seal
\* to its rename.
Overwrites(f, bytes) ==
  /\ partial' = [partial EXCEPT ![f] = bytes]
  /\ torn' = IF Sealed(f) /\ partial[f] # bytes THEN torn \cup {f} ELSE torn

\* data_begin truncates the file or makes it; data_put_at, on a connection of its own, opens
\* it by name and writes what the client reads now.
BeginsAt(s, t, f) ==
  /\ flight[s][t].next = 0 /\ ~Sealing(s) /\ Overwrites(f, "holes") /\ MovesTo(s, t, 1)
  /\ UNCHANGED <<fault, blob, hidden, gone, at, shared>>
FillsAt(s, t, f) ==
  /\ flight[s][t].next = 1 /\ partial[f] # "none" /\ MovesTo(s, t, 2)
  /\ Overwrites(f, IF f \in edited THEN "other" ELSE "full")
  /\ UNCHANGED <<fault, blob, hidden, gone, at, shared>>

\* data_seal reads the file for its digest, and then renames what has its name or removes it.
HashesAt(s, t, f) ==
  /\ flight[s][t].next = 2 /\ ~Sealing(s) /\ partial[f] # "none"
  /\ MovesTo(s, t, IF Hashing /\ partial[f] # "full" THEN Removes ELSE Renames)
  /\ UNCHANGED <<fault, blob, hidden, gone, at, shared, partial, torn>>
RenamesAt(s, t, f) ==
  /\ flight[s][t].next = Renames /\ partial[f] # "none" /\ partial' = [partial EXCEPT ![f] = "none"]
  /\ Arrives(s, f, IF partial[f] = "full" THEN "whole" ELSE "foreign") /\ IsDone(s, t)
  /\ UNCHANGED <<fault, torn>>

\* Without a partial file every step but the first fails, one that a seal has made read-only
\* is not opened for writing, and a removal always reports an error.
FailsAt(s, t, f) ==
  LET n == flight[s][t].next IN
  /\ \/ n \in {1, 2, Renames} /\ partial[f] = "none"
     \/ n \in {0, 1} /\ Sealed(f)
     \/ n = Removes
  /\ n \in {0, 2} => ~Sealing(s)
  /\ partial' = IF n = Removes THEN [partial EXCEPT ![f] = "none"] ELSE partial
  /\ Refuse(s, t) /\ IsDone(s, t) /\ UNCHANGED torn

PutAt(s, t) ==
  LET f == flight[s][t].file IN
  /\ route = "ranges" /\ UNCHANGED open
  /\ BeginsAt(s, t, f) \/ FillsAt(s, t, f) \/ HashesAt(s, t, f) \/ RenamesAt(s, t, f) \/ FailsAt(s, t, f)

\* data_pull: the machine downloads what the client uploaded to the bucket, or fails to.
Pull(s, t) ==
  /\ route = "bucket" /\ IsDone(s, t)
  /\ \/ Commit(s, t, flight[s][t].file, Kind(flight[s][t].file))
     \/ Refuse(s, t)
  /\ UNCHANGED <<open, partial, torn>>

Piece(s, t) ==
  /\ flight[s][t] # None
  /\ Put(s, t) \/ PutAt(s, t) \/ Pull(s, t)
  /\ UNCHANGED <<setting, edited, phase, todo, files, queue, sent, sender, wants, snap>>

\* The wave is placed: the call goes out, and the worker registers it and places what the
\* cache holds now, which may be less than it held when it was asked.
BeginCall(s) ==
  /\ phase[s] = "wave" /\ flight[s]["now"] = None /\ ~fault[s]
  /\ LET here == {f \in files[s] : blob[f] # "none"} IN
       /\ at' = [at EXCEPT ![s] = [f \in File |-> IF f \in here THEN blob[f] ELSE "pending"]]
       /\ shared' = [shared EXCEPT ![s] = here]
  /\ phase' = [phase EXCEPT ![s] = "running"]
  /\ gone' = [gone EXCEPT ![s] = @ \cap {f \in File : blob[f] = "none"}]
  /\ sender' = [sender EXCEPT ![s] = IF queue[s] = <<>> /\ sent[s] = {} THEN "off" ELSE "on"]
  /\ UNCHANGED <<setting, edited, todo, files, blob, partial, torn, open, hidden, queue, sent,
                 flight, wants, fault, snap>>

\* cancel waits a minute for the thread, then leaves it to finish its blob; a call that
\* sent something asks for an eviction.
Finish(s) ==
  /\ phase[s] = "over"
  /\ flight[s]["now"] = None \/ (s \in Overlong /\ flight[s]["old"] = None)
  /\ flight' = IF flight[s]["now"] = None THEN flight
               ELSE [flight EXCEPT ![s] = [now |-> None, old |-> @.now]]
  /\ \E fs \in (IF sent[s] = {} THEN {{}} ELSE SUBSET Evictable(s)) :
       Forget(fs) /\ gone' = [Lost(fs) EXCEPT ![s] = {}]
  /\ Leave(s)
  /\ UNCHANGED <<setting, edited, todo, partial, torn, open, wants, at, snap>>

-----------------------------------------------------------------------------
(* The body of the call on the machine. *)

Asks(s, f) ==
  /\ phase[s] = "running" /\ f \in Pending(s) /\ Len(wants[s]) < MaxWants
  /\ wants' = [wants EXCEPT ![s] = Append(@, f)]
  /\ UNCHANGED <<setting, edited, phase, todo, files, gone, cache, queue, sent, sender, flight,
                 fault, body>>

\* A reader opened a file that is not there and waits for it; the wrapped data loader
\* reports what it will read next.  Nothing answers either.
Wait(s, f) == Asks(s, f)
Observe(s, f) == Asks(s, f)

\* A patched listing: first the pending names, then the directory.
\* Mutant: the listing forgets the pending names.
NamesPlaced(s) == Placed(s)
Names(s) == Pending(s)
OnDisk(s) == Placed(s)
ListBegin(s) ==
  /\ phase[s] = "running" /\ s \in Listers /\ snap[s] = None /\ snap' = [snap EXCEPT ![s] = Names(s)]
  /\ UNCHANGED <<setting, edited, phase, todo, files, gone, cache, stream, at, shared>>
ListEnd(s) ==
  /\ snap[s] # None /\ snap' = [snap EXCEPT ![s] = None]
  /\ UNCHANGED <<setting, edited, phase, todo, files, gone, cache, stream, at, shared>>

\* Opened for writing: the path gets a copy of its own.
Private(s, f) ==
  /\ phase[s] = "running" /\ f \in shared[s] \cap Native
  /\ shared' = [shared EXCEPT ![s] = @ \ {f}]
  /\ hidden' = IF at[s][f] = "spoiled" THEN hidden \cup {f} ELSE hidden
  /\ UNCHANGED <<setting, edited, phase, todo, files, gone, blob, partial, torn, open, stream,
                 at, snap>>

\* A library opens the file itself and writes into the link.
WriteThrough(s, f) ==
  /\ phase[s] = "running" /\ f \in shared[s] \cap native
  /\ blob' = [blob EXCEPT ![f] = "foreign"]
  /\ at' = [r \in Session |-> IF f \in shared[r] THEN [at[r] EXCEPT ![f] = "spoiled"] ELSE at[r]]
  /\ UNCHANGED <<setting, edited, phase, todo, files, gone, partial, torn, open, hidden,
                 stream, shared, snap>>

\* The blobs whose stamp is not what it was when they were placed.
Tampered(s) == {f \in shared[s] : at[s][f] = "spoiled"}

\* The body is over, also because a reader waited longer than it may: the call is
\* unregistered, blobs written through its links are dropped, and its directory is removed.
Return(s) ==
  /\ phase[s] = "running" /\ snap' = [snap EXCEPT ![s] = None]
  /\ LET bad == Tampered(s) IN
       /\ blob' = [f \in File |-> IF f \in bad THEN "none" ELSE blob[f]]
       /\ shared' = [r \in Session |-> IF r = s THEN {} ELSE shared[r] \ bad]
       /\ hidden' = hidden \ bad /\ gone' = [Lost(bad) EXCEPT ![s] = {}]
  /\ at' = [at EXCEPT ![s] = [f \in File |-> "pending"]]
  /\ phase' = [phase EXCEPT ![s] = "over"]
  /\ UNCHANGED <<setting, edited, todo, files, partial, torn, open, stream>>

-----------------------------------------------------------------------------
SenderNext(s) == Take(s) \/ Exhausted(s) \/ Noticed(s) \/ \E t \in Threads : Piece(s, t)
CallNext(s) == BeginCall(s) \/ Return(s) \/ Finish(s)

Next ==
  \/ \E s \in Session : Prepare(s) \/ SenderNext(s) \/ CallNext(s) \/ ListBegin(s) \/ ListEnd(s)
  \/ \E s \in Session, f \in File : Wait(s, f) \/ Observe(s, f) \/ Private(s, f) \/ WriteThrough(s, f)
  \/ \E f \in File : Edit(f)
  \/ Clear

Spec == Init /\ [][Next]_vars

-----------------------------------------------------------------------------
\* A body never reads other bytes than the file it was given, unless a library wrote into a
\* link or a seal was torn: whatever other races, retries and truncations the transfers meet.
ReadsWhole ==
  Hashing => \A s \in Session, f \in File \ (native \cup torn) : at[s][f] \in {"pending", "whole"}

\* worker.py:868 "Hash a file assembled by parallel senders, then commit it as ``data_put``
\* does.", which commits what it has hashed: where the digest can be checked, a blob with other
\* bytes is in the cache only while the call that wrote through its link is running, or was
\* hidden by its private copy.
WroteThrough(f) == f \in hidden \/ \E s \in Session : f \in shared[s] /\ at[s][f] = "spoiled"
BlobsNamed == Hashing => \A f \in File : blob[f] = "foreign" => WroteThrough(f)

\* The same, but for the blobs of torn seals: nothing else puts other bytes under a digest.
CacheSound == Hashing => \A f \in File : blob[f] = "foreign" => WroteThrough(f) \/ f \in torn

\* Whoever opens a file of a running call waits for something that comes: its blob is in
\* flight or queued on a live sender, or the sender failed, or the blob was removed after
\* the call was told it is held.
PendingReachable ==
  \A s \in Running : \A f \in Pending(s) :
    \/ Flying(s, f)
    \/ sender[s] = "on" /\ f \in Range(queue[s])
    \/ fault[s] \/ sender[s] = "failed" \/ f \in gone[s]

\* A sender only fails when the worker refused what it sent.
FailsOnRefusal == \A s \in Session : sender[s] = "failed" => fault[s]

\* Every listing of a running call names every file of the call, whether it was placed
\* before, during or after the listing.
ListingWhole ==
  [][\A s \in Session : snap[s] # None /\ snap'[s] = None /\ phase'[s] = "running"
        => snap[s] \cup OnDisk(s) = files[s]]_vars
=============================================================================
