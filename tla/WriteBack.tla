------------------------------ MODULE WriteBack ------------------------------
(***************************************************************************)
(* One output file of a running call on its way back to the client         *)
(* (store/pathdata.py, protocol/worker.py): a thread of the client polls   *)
(* for versions that are complete and fetches them beside the call, and    *)
(* the end of the call collects and fetches the last one.  The body writes *)
(* versions 1, 2, ... of one size; version v half written is -v.           *)
(***************************************************************************)
EXTENDS Integers, FiniteSets

CONSTANTS Versions,   \* how many versions the body writes
          Procfs      \* whether the machine shows which files are open

VARIABLES
  file, writing,   \* the output on the machine, and whether some process has it open
  blobs,           \* cached outputs, <<the version their digest names, the version they hold>>
  seen, reported,  \* _DATA_POLL_SEEN and _DATA_POLL_SENT: the stamps of the last polls
  poll,            \* the poll being served, or Idle
  body,            \* "running", "returned", "failed"
  listed,          \* what data_written will answer: 0 or a version
  back, got,       \* the client's poller and the version it is about to fetch
  cancelled,
  sent,            \* the version the poller delivered last
  client,          \* the file on the client
  call,            \* the call on the client: "open", "joining", "done", "lost"
  reopened         \* versions begun between the look of a poll and its digest

vars == <<file, writing, blobs, seen, reported, poll, body, listed, back, got, cancelled, sent,
          client, call, reopened>>
machine == <<file, writing, blobs, seen, reported, poll, body, listed, reopened>>
caller == <<back, got, cancelled, sent, client, call>>

Stamps == -Versions .. Versions

\* A poll has read which files are open, looked at the output, or hashed it.
Idle == [at |-> "idle", open |-> FALSE, digest |-> 0]
Polls == [at : {"idle", "opened", "looked", "hashed"}, open : BOOLEAN, digest : Stamps]

TypeOK ==
  /\ file \in Stamps /\ writing \in BOOLEAN /\ blobs \subseteq Stamps \X Stamps
  /\ {seen, reported, listed, got, sent, client} \subseteq Stamps /\ poll \in Polls
  /\ reopened \subseteq 1 .. Versions
  /\ body \in {"running", "returned", "failed"}
  /\ back \in {"resting", "polling", "answered", "fetching", "over"} /\ cancelled \in BOOLEAN
  /\ call \in {"open", "joining", "done", "lost"}
  /\ call # "open" => cancelled

Init ==
  /\ file = 0 /\ writing = FALSE /\ blobs = {} /\ seen = 0 /\ reported = 0 /\ poll = Idle
  /\ body = "running" /\ listed = 0
  /\ back = "resting" /\ got = 0 /\ cancelled = FALSE /\ sent = 0 /\ client = 0 /\ call = "open"
  /\ reopened = {}

-----------------------------------------------------------------------------
(* The machine. *)

\* The body writes the next version in two writes, with a pause, then closes the file.
Begins ==
  /\ body = "running" /\ ~writing /\ file < Versions
  /\ file' = -(file + 1) /\ writing' = TRUE
  /\ reopened' = IF poll.at = "looked" THEN reopened \cup {file + 1} ELSE reopened
  /\ UNCHANGED <<blobs, seen, reported, poll, body, listed, caller>>
Closes ==
  /\ body = "running" /\ writing /\ file' = -file /\ writing' = FALSE
  /\ UNCHANGED <<blobs, seen, reported, poll, body, listed, reopened, caller>>

\* data_output_poll, on the data thread beside the body: first which files are open.
Serving(at) == back = "polling" /\ body = "running" /\ poll.at = at
PollOpens ==
  /\ Serving("idle") /\ poll' = [Idle EXCEPT !.at = "opened", !.open = Procfs /\ writing]
  /\ UNCHANGED <<file, writing, blobs, seen, reported, body, listed, reopened, caller>>

\* Then the stamp: complete when nobody had it open and the stamp is the last poll's.
Complete == file # 0 /\ ~poll.open /\ file = seen /\ file # reported
PollLooks ==
  /\ Serving("opened") /\ seen' = file
  /\ IF Complete THEN poll' = [poll EXCEPT !.at = "looked"] /\ UNCHANGED back
     ELSE poll' = Idle /\ back' = "resting"
  /\ UNCHANGED <<file, writing, blobs, reported, body, listed, reopened, got, cancelled, sent, client, call>>

\* The digest is of whatever the file holds by then, and for the copy the file is read again:
\* a body that writes in between leaves other bytes under the digest.
PollHashes ==
  /\ Serving("looked") /\ poll' = [poll EXCEPT !.at = "hashed", !.digest = file]
  /\ UNCHANGED <<file, writing, blobs, seen, reported, body, listed, reopened, caller>>
Named(digest) == \E b \in blobs : b[1] = digest
PollCopies ==
  /\ Serving("hashed") /\ poll' = Idle /\ reported' = seen /\ got' = poll.digest /\ back' = "answered"
  /\ blobs' = IF Named(poll.digest) THEN blobs ELSE blobs \cup {<<poll.digest, file>>}
  /\ UNCHANGED <<file, writing, seen, body, listed, reopened, cancelled, sent, client, call>>

\* _data_collect and the end of the call's directory; a body that failed lists nothing.
Collect(ok) ==
  /\ body = "running" /\ ~writing
  /\ body' = IF ok THEN "returned" ELSE "failed"
  /\ listed' = IF ok THEN file ELSE 0
  /\ blobs' = IF ok /\ file # 0 /\ ~Named(file) THEN blobs \cup {<<file, file>>} ELSE blobs
  /\ UNCHANGED <<file, writing, seen, reported, poll, reopened, caller>>

\* Another session's eviction: an output keeps the time of the body's own write, so its
\* age does not protect it.
Evicts(b) ==
  /\ b \in blobs /\ blobs' = blobs \ {b}
  /\ UNCHANGED <<file, writing, seen, reported, poll, body, listed, reopened, caller>>

-----------------------------------------------------------------------------
(* The client. *)

BackPolls ==
  /\ back = "resting" /\ back' = IF cancelled THEN "over" ELSE "polling"
  /\ UNCHANGED <<machine, got, cancelled, sent, client, call>>

\* A poll of a call that has ended finds no directory and nothing to send.
BackIdle ==
  /\ back = "polling" /\ body # "running" /\ poll' = Idle /\ back' = "resting"
  /\ UNCHANGED <<file, writing, blobs, seen, reported, body, listed, reopened, got, cancelled, sent, client, call>>

\* Mutant: an answer is fetched although the call has ended.
BackTakesLate ==
  /\ back = "answered" /\ back' = IF sent = got THEN "resting" ELSE "fetching"
  /\ UNCHANGED <<machine, got, cancelled, sent, client, call>>

\* An answer is dropped once the call has ended; a version sent before is not sent again.
BackTakes ==
  /\ back = "answered"
  /\ back' = IF cancelled THEN "over" ELSE IF sent = got THEN "resting" ELSE "fetching"
  /\ UNCHANGED <<machine, got, cancelled, sent, client, call>>

\* _get: the whole blob into a file of its own, checked against the digest, and renamed
\* over the target; without that nothing of the target changes and the thread ends.
Fetchable(v) == <<v, v>> \in blobs
BackFetches ==
  /\ back = "fetching"
  /\ \/ Fetchable(got) /\ client' = got /\ sent' = got /\ back' = "resting"
     \/ back' = "over" /\ UNCHANGED <<client, sent>>
  /\ UNCHANGED <<machine, got, cancelled, call>>

\* The call's reply, and cancel: it waits a minute for the poller, which may be in the
\* middle of a long transfer.
Replied ==
  /\ call = "open" /\ body # "running" /\ cancelled' = TRUE
  /\ call' = IF body = "failed" THEN "lost" ELSE "joining"
  /\ UNCHANGED <<machine, back, got, sent, client>>

\* Mutant: a file the poller has delivered once is skipped.
WritesBackOnce ==
  /\ call = "joining" /\ back # "fetching"
  /\ IF listed = 0 \/ sent # 0 THEN call' = "done" /\ UNCHANGED client
     ELSE IF Fetchable(listed) THEN call' = "done" /\ client' = listed
     ELSE call' = "lost" /\ UNCHANGED client
  /\ UNCHANGED <<machine, back, got, cancelled, sent>>

\* write_back: what the poller has delivered is left alone, the rest is fetched under the
\* lock of the output, which the poller holds while it fetches.
WritesBack ==
  /\ call = "joining" /\ back # "fetching"
  /\ IF listed = 0 \/ sent = listed THEN call' = "done" /\ UNCHANGED client
     ELSE IF Fetchable(listed) THEN call' = "done" /\ client' = listed
     ELSE call' = "lost" /\ UNCHANGED client
  /\ UNCHANGED <<machine, back, got, cancelled, sent>>

Next ==
  \/ Begins \/ Closes \/ PollOpens \/ PollLooks \/ PollHashes \/ PollCopies \/ Collect(TRUE) \/ Collect(FALSE)
  \/ \E b \in blobs : Evicts(b)
  \/ BackPolls \/ BackIdle \/ BackTakes \/ BackFetches \/ Replied \/ WritesBack

Spec == Init /\ [][Next]_vars

-----------------------------------------------------------------------------
\* A call that reports success has the body's last version on the client, however its
\* polls, copies and transfers met the body's writes.
OutputFresh == call = "done" => client = file

\* Where the machine shows which files are open, a version is delivered half written only when
\* the body began it between the look of a poll, which found the file closed, and its digest.
OutputComplete == Procfs => client >= 0 \/ -client \in reopened

\* Neither the poller nor the end of the call replaces a version by an older one, nor a whole
\* one by a half of itself: a version written half comes after the one before it.
Rank(v) == IF v < 0 THEN -2 * v - 1 ELSE 2 * v
NoOlderVersion == [][client' # client => Rank(client') > Rank(client)]_vars

\* pathdata.py:1026 "so a half-written file is never sent": what is on the client is whole.
NeverHalf == client >= 0
=============================================================================
