------------------------------ MODULE DataProofs ------------------------------
(***************************************************************************)
(* Proofs about what letify keeps in files:  a child's write stays out of  *)
(* the cache's blob, a name resolves and what was saved stays, the         *)
(* manifest of a volume vouches for what is there, an output comes back    *)
(* whole, fresh and never older, a large argument a call has sent is there *)
(* when it is opened, and the editor's history holds what was spent.  They *)
(* hold for any number of children, savers, digests, calls, versions,      *)
(* arguments and refreshes.                                                *)
(***************************************************************************)
EXTENDS MCData, LibraryProofs

-----------------------------------------------------------------------------
(* The processes a call spawns. *)

Busy == {"waits", "copies", "replaces", "opens", "holds"}

SpawnTypeOK ==
  /\ inodes \in 0 .. MaxInodes /\ cached \in 0 .. inodes /\ path \in 0 .. inodes
  /\ written \in [Inodes -> SUBSET Children]
  /\ child \in [Children -> Busy \cup {"starts", "patched", "plain", "done", "error"}]
  /\ writes \in [Children -> BOOLEAN]
  /\ copy \in [Children -> 0 .. MaxInodes] /\ fd \in [Children -> 0 .. MaxInodes]
  /\ fell \in BOOLEAN /\ over \in BOOLEAN

\* Until the file is placed nothing is made, and nobody is past the wait.
NothingYet ==
  path = 0 =>
    /\ inodes = 0 /\ cached = 0 /\ \A i \in Inodes : written[i] = {}
    /\ \A c \in Children : child[c] \notin (Busy \ {"waits"}) \cup {"done"}

\* Children that write do not overlap, and none is at work once the call has ended.
InTurn ==
  /\ \A c, d \in Children : writes[c] /\ writes[d] /\ child[c] \in Busy /\ child[d] \in Busy => c = d
  /\ over => \A c \in Children : child[c] \notin Busy

\* A copy holds what the file holds, and is neither the blob nor anybody else's.
CopySound(c) ==
  /\ child[c] \in {"copies", "replaces"} => writes[c]
  /\ child[c] = "replaces" =>
       copy[c] \in 1 .. inodes /\ copy[c] # cached /\ written[copy[c]] = written[path]

\* What a child writes to is the file at the path, and not the blob unless a copy failed.
OwnFile(c) ==
  /\ child[c] = "holds" => fd[c] \in 1 .. inodes
  /\ writes[c] /\ child[c] = "holds" => fd[c] = path
  /\ writes[c] /\ child[c] \in {"opens", "holds"} /\ ~fell => path # cached

SpawnInv ==
  /\ SpawnTypeOK /\ NothingYet /\ InTurn /\ CopiesOnWrite
  /\ \A c \in Children : CopySound(c) /\ OwnFile(c)

-----------------------------------------------------------------------------
\* A file is a link exactly when the cache has it too.
LEMMA SharesIs == ASSUME path # 0 PROVE Shares <=> cached = path
  BY DEF Shares, Links

LEMMA SpawnStart ==
  ASSUME MaxInodes \in Nat \ {0}, SpawnInit
  PROVE  SpawnInv
<1> USE DEF SpawnInit, Inodes, Busy
<1>1. SpawnTypeOK
  <2>1. 0 \in 0 .. MaxInodes /\ 0 \in 0 .. 0
    OBVIOUS
  <2>2. copy \in [Children -> 0 .. MaxInodes] /\ fd \in [Children -> 0 .. MaxInodes]
    BY <2>1
  <2> QED
    BY <2>1, <2>2 DEF SpawnTypeOK
<1>2. NothingYet /\ InTurn /\ CopiesOnWrite
  BY DEF NothingYet, InTurn, CopiesOnWrite
<1> QED
  BY <1>1, <1>2 DEF SpawnInv, CopySound, OwnFile

\* Each step of the worker and of a child keeps the invariant.
LEMMA SpawnStep ==
  ASSUME MaxInodes \in Nat \ {0}, OneWriter, SpawnInv, [SpawnNext]_spawnVars
  PROVE  SpawnInv'
<1> USE DEF SpawnInv, SpawnTypeOK, NothingYet, InTurn, CopiesOnWrite, CopySound, OwnFile, Inodes, Busy, Goes
<1>1. CASE UNCHANGED spawnVars
  BY <1>1 DEF spawnVars
<1>2. CASE Places
  <2>1. SpawnTypeOK'
    BY <1>2 DEF Places
  <2>2. NothingYet' /\ InTurn'
    BY <1>2 DEF Places
  <2>3. CopiesOnWrite'
    BY <1>2 DEF Places
  <2>4. ASSUME NEW d \in Children PROVE CopySound(d)' /\ OwnFile(d)'
    BY <1>2 DEF Places
  <2> QED
    BY <2>1, <2>2, <2>3, <2>4
<1>3. CASE Evicted
  BY <1>3 DEF Evicted
<1>4. CASE Fails
  BY <1>4 DEF Fails
<1>5. CASE Ends
  <2>1. SpawnTypeOK'
    BY <1>5 DEF Ends
  <2>2. NothingYet' /\ InTurn'
    BY <1>5 DEF Ends
  <2>3. CopiesOnWrite'
    BY <1>5 DEF Ends
  <2>4. ASSUME NEW d \in Children PROVE CopySound(d)' /\ OwnFile(d)'
    BY <1>5 DEF Ends
  <2> QED
    BY <2>1, <2>2, <2>3, <2>4
<1>6. ASSUME NEW c \in Children, Starts(c) PROVE SpawnInv'
  BY <1>6 DEF Starts
<1>7. ASSUME NEW c \in Children, Open(c) PROVE SpawnInv'
  BY <1>7 DEF Open, Writing
<1>8. ASSUME NEW c \in Children, OpenPlain(c) PROVE SpawnInv'
  BY <1>8, SharesIs DEF OpenPlain, Writing
<1>9. ASSUME NEW c \in Children, Finds(c) PROVE SpawnInv'
  BY <1>9, SharesIs DEF Finds
<1>10. ASSUME NEW c \in Children, NeverArrives(c) PROVE SpawnInv'
  BY <1>10 DEF NeverArrives
<1>11. ASSUME NEW c \in Children, Copies(c) PROVE SpawnInv'
  BY <1>11 DEF Copies
<1>12. ASSUME NEW c \in Children, CopyFails(c) PROVE SpawnInv'
  BY <1>12 DEF CopyFails
<1>13. ASSUME NEW c \in Children, Replaces(c) PROVE SpawnInv'
  <2>1. SpawnTypeOK'
    BY <1>13 DEF Replaces
  <2>2. NothingYet' /\ InTurn'
    BY <1>13 DEF Replaces
  <2>3. CopiesOnWrite'
    BY <1>13 DEF Replaces
  <2>4. ASSUME NEW d \in Children PROVE CopySound(d)' /\ OwnFile(d)'
    BY <1>13 DEF Replaces
  <2> QED
    BY <2>1, <2>2, <2>3, <2>4
<1>14. ASSUME NEW c \in Children, Opens(c) PROVE SpawnInv'
  BY <1>14 DEF Opens
<1>15. ASSUME NEW c \in Children, Writes(c) PROVE SpawnInv'
  BY <1>15 DEF Writes
<1> QED
  BY <1>1, <1>2, <1>3, <1>4, <1>5, <1>6, <1>7, <1>8, <1>9, <1>10, <1>11, <1>12, <1>13, <1>14, <1>15
     DEF SpawnNext

-----------------------------------------------------------------------------
\* A child's write reaches the cache's blob only when its copy failed, and never outlives the
\* call there; what a child wrote is in the file at the path (_PENDING_MODULE.convert,
\* _data_check_cache).
THEOREM WritesApart == MaxInodes \in Nat \ {0} /\ OneWriter => (SpawnSpec => []CopiesOnWrite)
<1> SUFFICES ASSUME MaxInodes \in Nat \ {0}, OneWriter PROVE SpawnSpec => []CopiesOnWrite
  OBVIOUS
<1>1. SpawnInit => SpawnInv
  BY SpawnStart
<1>2. SpawnInv /\ [SpawnNext]_spawnVars => SpawnInv'
  BY SpawnStep
<1>3. SpawnInv => CopiesOnWrite
  BY DEF SpawnInv
<1> QED
  BY <1>1, <1>2, <1>3, PTL DEF SpawnSpec

-----------------------------------------------------------------------------
(* The content store. *)

Marks == {"none", "cut"}
Stages == {"start", "putting", "writing", "replacing", "pointing", "naming", "done", "failed", "dead"}

\* No two processes put one digest at once, and a digest is not a mark.
StoreAlone == ~Together /\ Marks \cap Digests = {}

StoreTypeOK ==
  /\ stored \in [Digests -> {"none", "whole"}] /\ beside \in [Digests -> {"none", "cut", "whole"}]
  /\ saver \in [Savers -> [at : Stages, of : Digests, file : {"none", "partial"}, clean : BOOLEAN]]
  /\ ref \in Digests \cup Marks

\* Nobody else is at the digest a saver puts, so the file beside the blob is its own until it is
\* renamed, and what it points at is there.
SaverSound(s) ==
  /\ \A o \in Savers : Store!Putting(s) /\ Store!Putting(o) /\ saver[o].of = saver[s].of => o = s
  /\ saver[s].at = "writing" => saver[s].file = "partial" /\ saver[s].clean
  /\ saver[s].at = "replacing" => beside[saver[s].of] = "whole"
  /\ saver[s].at \in {"pointing", "naming", "done"} => stored[saver[s].of] = "whole"

StoreInv == StoreTypeOK /\ Store!RefResolves /\ \A s \in Savers : SaverSound(s)

LEMMA StoreStart == ASSUME StoreAlone, MCInit PROVE StoreInv
  BY DEF StoreAlone, MCInit, Store!StoreInit, StoreInv, StoreTypeOK, Store!RefResolves, SaverSound, Marks, Stages,
         Store!Putting

\* A saver that opens its file is still a saver.
LEMMA SaverOpens ==
  ASSUME NEW r \in [at : Stages, of : Digests, file : {"none", "partial"}, clean : BOOLEAN]
  PROVE  [r EXCEPT !.at = "writing", !.file = "partial", !.clean = TRUE]
           \in [at : Stages, of : Digests, file : {"none", "partial"}, clean : BOOLEAN]
  BY DEF Stages

\* Each step of a saver keeps the invariant.
LEMMA StoreStep == ASSUME StoreAlone, StoreInv, Store!StoreNext PROVE StoreInv'
<1> USE DEF StoreAlone, StoreInv, StoreTypeOK, Store!RefResolves, SaverSound, Marks, Stages, Store!Putting, Store!Of,
            Store!Goes
<1>1. ASSUME NEW s \in Savers, Store!Looks(s) PROVE StoreInv'
  BY <1>1 DEF Store!Looks
<1>2. ASSUME NEW s \in Savers, Store!PutsObject(s) PROVE StoreInv'
  BY <1>2 DEF Store!PutsObject
<1>3. ASSUME NEW s \in Savers, Store!OpensPartial(s) PROVE StoreInv'
  <2>1. Store!On(saver[s].of, "partial") = {}
    BY <1>3 DEF Store!OpensPartial, Store!On
  <2>2. saver' = [o \in Savers |-> IF o = s THEN [saver[s] EXCEPT !.at = "writing", !.file = "partial", !.clean = TRUE]
                                 ELSE saver[o]]
    BY <1>3, <2>1 DEF Store!OpensPartial
  <2>3. saver'[s].at = "writing" /\ saver'[s].of = saver[s].of /\ saver'[s].file = "partial" /\ saver'[s].clean
    BY <2>2
  <2>4. saver' \in [Savers -> [at : Stages, of : Digests, file : {"none", "partial"}, clean : BOOLEAN]]
    <3>1. saver \in [Savers -> [at : Stages, of : Digests, file : {"none", "partial"}, clean : BOOLEAN]]
      OBVIOUS
    <3> QED
      BY ONLY <2>2, <3>1, SaverOpens, s \in Savers
  <2>5. stored' = stored /\ ref' = ref /\ beside' = [beside EXCEPT ![saver[s].of] = "cut"]
    BY <1>3 DEF Store!OpensPartial
  <2> QED
    BY <1>3, <2>2, <2>3, <2>4, <2>5 DEF Store!OpensPartial
<1>4. ASSUME NEW s \in Savers, Store!WritesPartial(s) PROVE StoreInv'
  BY <1>4 DEF Store!WritesPartial
<1>5. ASSUME NEW s \in Savers, Store!Replaces(s) PROVE StoreInv'
  BY <1>5 DEF Store!Replaces, Store!On
<1>6. ASSUME NEW s \in Savers, Store!Points(s) PROVE StoreInv'
  BY <1>6 DEF Store!Points
<1>7. ASSUME NEW s \in Savers, Store!Names(s) PROVE StoreInv'
  BY <1>7 DEF Store!Names
<1>8. ASSUME NEW s \in Savers, Store!Dies(s) PROVE StoreInv'
  BY <1>8 DEF Store!Dies
<1> QED
  BY <1>1, <1>2, <1>3, <1>4, <1>5, <1>6, <1>7, <1>8 DEF Store!StoreNext

LEMMA StoreKept == ASSUME StoreAlone, StoreInv, [MCNext]_<<part, dataVars, outputVars, keepVars>> PROVE StoreInv'
<1>1. CASE Store!StoreNext
  BY <1>1, StoreStep
<1>2. CASE UNCHANGED storeVars
  BY <1>2 DEF storeVars, StoreInv, StoreTypeOK, Store!RefResolves, SaverSound, Store!Putting
<1> QED
  BY <1>1, <1>2 DEF MCNext, keepVars

-----------------------------------------------------------------------------
(* The requests that wait for one held blob. *)

\* The call that writes the file is the only one between its first step and its last, an entry
\* is never ahead of the file, and what is about to be recorded is in the file.
HeldInv ==
  /\ target \in [holds : Digests \cup {"nothing", "part", "own"}, stamp : Nat]
  /\ entry \in [digest : Digests \cup {"nothing"}, stamp : Nat] /\ entry.stamp <= target.stamp
  /\ asks \in [Calls -> [at : {"start", "held", "writing", "recording", "done", "ended"}, digest : Digests,
                         way : {"pull", "put"}]]
  /\ \A c, o \in Calls : Held!Busy(c) /\ Held!Busy(o) => c = o
  /\ \A c \in Calls : asks[c].at = "recording" => target.holds = asks[c].digest
  /\ Held!EntrySound

LEMMA HeldStart == ASSUME MCInit PROVE HeldInv
  BY DEF MCInit, Held!MaterializeInit, Held!Absent, Held!NoEntry, HeldInv, Held!Busy, Held!EntrySound

\* Each step of a call and of its body keeps the invariant.
LEMMA HeldStep == ASSUME ~Together, HeldInv, Held!MaterializeNext PROVE HeldInv'
<1> USE DEF HeldInv, Held!Busy, Held!EntrySound, Held!Moves, Held!Written
<1>1. CASE Held!BodyWrites
  BY <1>1 DEF Held!BodyWrites
<1>2. ASSUME NEW c \in Calls, Held!Checks(c) PROVE HeldInv'
  BY <1>2 DEF Held!Checks
<1>3. ASSUME NEW c \in Calls, Held!PullsPart(c) PROVE HeldInv'
  BY <1>3 DEF Held!PullsPart
<1>4. ASSUME NEW c \in Calls, Held!Pulled(c) PROVE HeldInv'
  BY <1>4 DEF Held!Pulled
<1>5. ASSUME NEW c \in Calls, Held!PutsPart(c) PROVE HeldInv'
  BY <1>5 DEF Held!PutsPart
<1>6. ASSUME NEW c \in Calls, Held!Put(c) PROVE HeldInv'
  BY <1>6 DEF Held!Put
<1>7. ASSUME NEW c \in Calls, Held!Records(c) PROVE HeldInv'
  BY <1>7 DEF Held!Records
<1>8. ASSUME NEW c \in Calls, Held!Ends(c) PROVE HeldInv'
  BY <1>8 DEF Held!Ends
<1> QED
  BY <1>1, <1>2, <1>3, <1>4, <1>5, <1>6, <1>7, <1>8 DEF Held!MaterializeNext

LEMMA HeldKept == ASSUME ~Together, HeldInv, [MCNext]_<<part, dataVars, outputVars, keepVars>> PROVE HeldInv'
<1>1. CASE Held!MaterializeNext
  BY <1>1, HeldStep
<1>2. CASE UNCHANGED materializeVars
  BY <1>2 DEF materializeVars, HeldInv, Held!Busy, Held!EntrySound
<1> QED
  BY <1>1, <1>2 DEF MCNext, keepVars

-----------------------------------------------------------------------------
(* The output that goes back while the body writes it. *)

\* The versions that the answer, the thread and the client are at, each behind the one it takes
\* from, and what a poll has seen.
Behind(v, w) == Output!Rank(v) <= Output!Rank(w)
InOrder ==
  /\ Behind(delivered, got) /\ Behind(got, file) /\ Behind(seen, file)
  /\ poll.at = "hashed" => Behind(got, poll.digest) /\ Behind(poll.digest, file)
  /\ back = "fetching" => delivered # got

\* What the call has collected is the body's last version, and what the client has is what the
\* thread delivered, until the end of the call replaces it.
Collected ==
  /\ writing <=> file < 0
  /\ work = "returned" => listed = file /\ ~writing
  /\ reply \in {"joining", "done"} => work = "returned"
  /\ cancelled <=> reply # "open"
  /\ IF reply = "done" THEN local = file /\ back # "fetching" ELSE local = delivered

\* A version that is taken half written was begun between a look and its digest.
Half(v) == v < 0 => -v \in reopened
HalvesKnown ==
  /\ poll.at = "opened" /\ ~poll.open /\ file < 0 => seen # file
  /\ poll.at = "looked" => Half(file)
  /\ poll.at = "hashed" => Half(poll.digest)
  /\ Half(got) /\ Half(delivered)

OutputInv == Output!TypeOK /\ InOrder /\ Collected /\ HalvesKnown

LEMMA OutputStart == ASSUME Versions \in Nat, MCInit PROVE OutputInv
<1>1. Output!Init
  BY DEF MCInit
<1>2. Output!TypeOK
  <2>1. 0 \in Output!Stamps
    BY DEF Output!Stamps
  <2>2. writing \in BOOLEAN /\ cancelled \in BOOLEAN /\ Output!Idle \in Output!Polls
    BY <1>1, <2>1 DEF Output!Init, Output!Idle, Output!Polls
  <2> QED
    BY ONLY <1>1, <2>1, <2>2 DEF Output!Init, Output!TypeOK
<1> QED
  BY ONLY <1>1, <1>2 DEF Output!Init, OutputInv, InOrder, Collected, HalvesKnown, Half, Behind, Output!Rank, Output!Idle

\* Later versions have higher ranks, the half of a version one less than the whole.
LEMMA RanksRise ==
  ASSUME Versions \in Nat, NEW v \in Output!Stamps
  PROVE  /\ Output!Rank(v) \in Int
         /\ \A w \in Output!Stamps : Output!Rank(v) = Output!Rank(w) => v = w
         /\ v >= 0 /\ v < Versions =>
              -(v + 1) \in Output!Stamps /\ v + 1 \in 1 .. Versions /\ Output!Rank(-(v + 1)) = Output!Rank(v) + 1
         /\ v < 0 => -v \in Output!Stamps /\ Output!Rank(-v) = Output!Rank(v) + 1
  BY DEF Output!Stamps, Output!Rank

\* Each step of the machine and of the client keeps the invariant, and never goes back.
LEMMA OutputStep ==
  ASSUME Versions \in Nat, OutputInv, Output!Next
  PROVE  OutputInv' /\ (local' # local => Output!Rank(local') > Output!Rank(local))
<1> DEFINE Good == OutputInv' /\ (local' # local => Output!Rank(local') > Output!Rank(local))
<1>0. Output!TypeOK /\ InOrder /\ Collected /\ HalvesKnown
  BY DEF OutputInv
<1> USE DEF Output!machine, Output!caller
<1>a. file \in Output!Stamps /\ seen \in Output!Stamps /\ got \in Output!Stamps /\ delivered \in Output!Stamps
      /\ local \in Output!Stamps /\ listed \in Output!Stamps /\ poll \in Output!Polls /\ poll.digest \in Output!Stamps
      /\ Output!Idle \in Output!Polls /\ Output!Idle.at = "idle"
  BY <1>0 DEF Output!TypeOK, Output!Polls, Output!Idle, Output!Stamps
<1>b. /\ Output!Rank(file) \in Int /\ Output!Rank(seen) \in Int /\ Output!Rank(got) \in Int
      /\ Output!Rank(delivered) \in Int /\ Output!Rank(poll.digest) \in Int
  BY <1>a, RanksRise
<1>1. CASE Output!Begins
  <2>1. file >= 0 /\ file < Versions /\ poll' = poll /\ seen' = seen /\ got' = got /\ delivered' = delivered
        /\ back' = back /\ local' = local /\ file' = -(file + 1) /\ writing' = TRUE /\ work = "running"
        /\ reopened \subseteq reopened' /\ (poll.at = "looked" => file + 1 \in reopened')
    BY <1>0, <1>1, <1>a DEF Output!Begins, Output!TypeOK, Output!Stamps, Collected
  <2>2. file' \in Output!Stamps /\ file + 1 \in 1 .. Versions /\ Output!Rank(file') = Output!Rank(file) + 1
        /\ file' < 0 /\ -file' = file + 1
    BY <1>a, <2>1, RanksRise DEF Output!Stamps
  <2>3. Output!TypeOK'
    BY <1>0, <1>1, <2>2 DEF Output!Begins, Output!TypeOK, Output!Stamps, Output!Polls
  <2>4. InOrder'
    BY <1>0, <1>b, <2>1, <2>2 DEF InOrder, Behind, Output!Rank
  <2>5. Collected'
    BY <1>0, <1>1, <2>1, <2>2 DEF Output!Begins, Collected
  <2>6. seen # file'
    BY <1>0, <1>b, <2>2 DEF InOrder, Behind
  <2> QED
    BY <1>0, <2>1, <2>2, <2>3, <2>4, <2>5, <2>6 DEF HalvesKnown, Half, OutputInv
<1>2. CASE Output!Closes
  <2>1. file < 0 /\ file' = -file /\ ~writing' /\ work = "running" /\ poll' = poll /\ seen' = seen /\ got' = got
        /\ delivered' = delivered /\ back' = back /\ local' = local /\ reopened' = reopened
    BY <1>0, <1>2 DEF Output!Closes, Collected
  <2>2. file' \in Output!Stamps /\ Output!Rank(file') = Output!Rank(file) + 1 /\ ~(file' < 0)
    BY <1>a, <2>1, RanksRise DEF Output!Stamps
  <2>3. Output!TypeOK'
    BY <1>0, <1>2, <2>2 DEF Output!Closes, Output!TypeOK, Output!Stamps, Output!Polls
  <2>4. InOrder'
    BY <1>0, <1>b, <2>1, <2>2 DEF InOrder, Behind, Output!Rank
  <2>5. Collected'
    BY <1>0, <1>2, <2>1, <2>2 DEF Output!Closes, Collected
  <2> QED
    BY <1>0, <2>1, <2>2, <2>3, <2>4, <2>5 DEF HalvesKnown, Half, OutputInv
<1>3. CASE Output!PollOpens
  <2>1. poll'.at = "opened" /\ poll' \in Output!Polls /\ poll'.open = writing
    BY <1>0, <1>3, <1>a DEF Output!PollOpens, Output!Idle, Output!Polls, Output!TypeOK
  <2>2. Output!TypeOK'
    BY <1>0, <1>3, <2>1 DEF Output!PollOpens, Output!TypeOK, Output!Stamps
  <2> QED
    BY <1>0, <1>3, <2>1, <2>2 DEF Output!PollOpens, InOrder, Behind, Output!Rank, Collected, HalvesKnown, Half, OutputInv
<1>4. CASE Output!PollLooks
  <2>1. seen' = file /\ poll.at = "opened" /\ poll' \in Output!Polls
        /\ \/ poll'.at = "looked" /\ ~poll.open /\ file = seen /\ back' = back
           \/ poll'.at = "idle" /\ back' = "resting"
    BY <1>4, <1>a DEF Output!PollLooks, Output!Serving, Output!Complete, Output!Polls
  <2>2. Output!TypeOK'
    BY <1>0, <1>4, <1>a, <2>1 DEF Output!PollLooks, Output!TypeOK, Output!Stamps
  <2>3. poll'.at = "looked" => ~(file < 0)
    BY <1>0, <2>1 DEF HalvesKnown
  <2>4. InOrder' /\ Collected'
    BY <1>0, <1>4, <1>b, <2>1 DEF Output!PollLooks, InOrder, Behind, Output!Rank, Collected
  <2> QED
    BY <1>0, <1>4, <2>1, <2>2, <2>3, <2>4 DEF Output!PollLooks, HalvesKnown, Half, OutputInv
<1>5. CASE Output!PollHashes
  <2>1. poll.at = "looked" /\ poll'.at = "hashed" /\ poll'.digest = file /\ poll' \in Output!Polls
    BY <1>5, <1>a DEF Output!PollHashes, Output!Serving, Output!Polls
  <2>2. Output!TypeOK'
    BY <1>0, <1>5, <2>1 DEF Output!PollHashes, Output!TypeOK, Output!Stamps
  <2>3. InOrder' /\ Collected'
    BY <1>0, <1>5, <1>b, <2>1 DEF Output!PollHashes, InOrder, Behind, Output!Rank, Collected
  <2> QED
    BY <1>0, <1>5, <2>1, <2>2, <2>3 DEF Output!PollHashes, HalvesKnown, Half, OutputInv
<1>6. CASE Output!PollCopies
  <2>1. poll.at = "hashed" /\ poll' = Output!Idle /\ got' = poll.digest /\ reported' = seen /\ back' = "answered"
        /\ back = "polling" /\ blobs' \subseteq blobs \cup {<<poll.digest, file>>}
    BY <1>6 DEF Output!PollCopies, Output!Serving
  <2>2. Output!TypeOK'
    BY <1>0, <1>6, <1>a, <2>1 DEF Output!PollCopies, Output!TypeOK, Output!Stamps
  <2>3. InOrder'
    BY <1>0, <1>6, <1>a, <1>b, <2>1 DEF Output!PollCopies, InOrder, Behind, Output!Rank
  <2>4. Collected' /\ HalvesKnown' /\ local' = local
    BY <1>0, <1>6, <1>a, <2>1 DEF Output!PollCopies, Collected, HalvesKnown, Half
  <2> QED
    BY <2>2, <2>3, <2>4 DEF OutputInv
<1>7. ASSUME NEW ok \in BOOLEAN, Output!Collect(ok) PROVE Good
  <2>1. Output!TypeOK'
    BY <1>0, <1>7, <1>a DEF Output!Collect, Output!TypeOK, Output!Stamps, Output!Polls
  <2>2. InOrder' /\ Collected' /\ HalvesKnown' /\ local' = local
    BY <1>0, <1>7 DEF Output!Collect, InOrder, Behind, Output!Rank, Collected, HalvesKnown, Half
  <2> QED
    BY <2>1, <2>2 DEF OutputInv
<1>8. ASSUME NEW b \in blobs, Output!Evicts(b) PROVE Good
  <2>1. Output!TypeOK'
    BY <1>0, <1>8 DEF Output!Evicts, Output!TypeOK, Output!Stamps, Output!Polls
  <2>2. InOrder' /\ Collected' /\ HalvesKnown' /\ local' = local
    BY <1>0, <1>8 DEF Output!Evicts, InOrder, Behind, Output!Rank, Collected, HalvesKnown, Half
  <2> QED
    BY <2>1, <2>2 DEF OutputInv
<1>9. CASE Output!BackPolls \/ Output!BackIdle \/ Output!BackTakes \/ Output!Replied
  <2>1. local' = local /\ poll' \in {poll, Output!Idle}
    BY <1>9 DEF Output!BackPolls, Output!BackIdle, Output!BackTakes, Output!Replied
  <2>2. Output!TypeOK'
    BY <1>0, <1>9, <1>a DEF Output!BackPolls, Output!BackIdle, Output!BackTakes, Output!Replied, Output!TypeOK, Output!Stamps
  <2>3. InOrder' /\ HalvesKnown'
    BY <1>0, <1>9, <1>a DEF Output!BackPolls, Output!BackIdle, Output!BackTakes, Output!Replied, InOrder, Behind,
                       Output!Rank, HalvesKnown, Half
  <2>4. Collected'
    <3>1. CASE Output!BackPolls
      BY <1>0, <3>1 DEF Output!BackPolls, Collected
    <3>2. CASE Output!BackIdle
      BY <1>0, <3>2 DEF Output!BackIdle, Collected
    <3>3. CASE Output!BackTakes
      BY <1>0, <3>3 DEF Output!BackTakes, Collected
    <3>4. CASE Output!Replied
      <4>1. work \in {"running", "returned", "failed"}
        BY <1>0 DEF Output!TypeOK
      <4> QED
        BY <1>0, <3>4, <4>1 DEF Output!Replied, Collected
    <3> QED
      BY <1>9, <3>1, <3>2, <3>3, <3>4
  <2> QED
    BY <2>1, <2>2, <2>3, <2>4 DEF OutputInv
<1>10. CASE Output!BackFetches
  <2>1. Output!TypeOK'
    BY <1>0, <1>10, <1>a DEF Output!BackFetches, Output!TypeOK, Output!Stamps, Output!Polls
  <2>2. InOrder' /\ HalvesKnown'
    BY <1>0, <1>10, <1>b DEF Output!BackFetches, InOrder, Behind, Output!Rank, HalvesKnown, Half
  <2>3. Collected' /\ (local' # local => local' = got /\ local = delivered)
    BY <1>0, <1>10 DEF Output!BackFetches, Collected
  <2>4. Output!Rank(delivered) < Output!Rank(got)
    <3>1. delivered # got /\ Output!Rank(delivered) <= Output!Rank(got)
      BY <1>0, <1>10 DEF Output!BackFetches, InOrder, Behind
    <3> QED
      BY <1>a, <1>b, <3>1, RanksRise
  <2> QED
    BY <2>1, <2>2, <2>3, <2>4 DEF OutputInv
<1>11. CASE Output!WritesBack
  <2>1. work = "returned" /\ listed = file /\ local = delivered
    BY <1>0, <1>11 DEF Output!WritesBack, Collected
  <2>2. Output!TypeOK'
    BY <1>0, <1>11, <1>a DEF Output!WritesBack, Output!TypeOK, Output!Stamps, Output!Polls
  <2>3. InOrder' /\ HalvesKnown'
    BY <1>0, <1>11 DEF Output!WritesBack, InOrder, Behind, Output!Rank, HalvesKnown, Half
  <2>4. Collected' /\ (local' # local => local' = file)
    <3>1. listed = 0 => delivered = file
      <4>1. listed = 0 => Output!Rank(delivered) <= 0
        BY <1>0, <1>b, <2>1 DEF InOrder, Behind, Output!Rank
      <4> QED
        BY <1>a, <2>1, <4>1 DEF Output!Rank, Output!Stamps
    <3> QED
      BY <1>0, <1>11, <2>1, <3>1 DEF Output!WritesBack, Collected
  <2>5. Output!Rank(delivered) <= Output!Rank(file) /\ (delivered # file => Output!Rank(delivered) # Output!Rank(file))
    BY <1>0, <1>a, <1>b, RanksRise DEF InOrder, Behind
  <2> QED
    BY <1>b, <2>1, <2>2, <2>3, <2>4, <2>5 DEF OutputInv
<1> QED
  BY <1>1, <1>2, <1>3, <1>4, <1>5, <1>6, <1>7, <1>8, <1>9, <1>10, <1>11 DEF Output!Next

LEMMA OutputKept ==
  ASSUME Versions \in Nat, OutputInv, [MCNext]_<<part, dataVars, outputVars, keepVars>>
  PROVE  OutputInv' /\ (local' # local => Output!Rank(local') > Output!Rank(local))
<1>1. CASE Output!Next
  BY <1>1, OutputStep
<1>2. CASE UNCHANGED outputVars
  BY <1>2 DEF outputVars, OutputInv, Output!TypeOK, Output!Polls, Output!Stamps, InOrder, Behind, Output!Rank,
              Collected, HalvesKnown, Half
<1> QED
  BY <1>1, <1>2 DEF MCNext

-----------------------------------------------------------------------------
(* The accounts a login or a logout leaves. *)

HomeFiles == [account : [Aliases -> Targets \cup {None}], devices : [Aliases -> Targets \cup {None}]]
CommandPlaces == {"idle", "failed", "done", "checks", "stores", "signed", "declares", "rewrites", "asks", "records",
                  "names", "drops", "clears", "forgets"}
Commands == [at : CommandPlaces, cmd : {"none", "login", "again", "logout"}, alias : Aliases \cup {None},
             target : Targets \cup {None}, text : HomeFiles \cup {None}, found : Targets \cup {None},
             next : 1 .. 4, ok : BOOLEAN, existed : BOOLEAN]

\* One command runs at a time, and None is neither a target nor an alias nor what a file holds.
OneCommand ==
  /\ \A p, q \in Procs : p = q
  /\ None \notin Targets \cup Aliases \cup HomeFiles
  /\ Kinds \subseteq {"shell", "tunnel", "password", "elice", "kaggle", "modal", "colab"}

\* The account a can be used for t: its machine trusts the key, or every credential is kept.
Ready(a, t) == IF login[a] \in Logins!ByKey THEN t \in trusts ELSE \A n \in Logins!Names(a) : Logins!Kept(a, n)

\* How far the command of p is, and what that says of the files.
LoginSound(p) ==
  /\ job[p].at \in {"checks", "stores", "signed", "declares"} => job[p].cmd = "login" /\ job[p].target \in Targets
  /\ job[p].at = "checks" => wrote[p] = {} /\ job[p].next = 1
  /\ job[p].at = "stores" =>
       /\ login[job[p].alias] \in {"password", "elice", "kaggle"}
       /\ job[p].next \in DOMAIN Logins!Keeps[login[job[p].alias]]
       /\ \A i \in 1 .. job[p].next - 1 : Logins!Kept(job[p].alias, Logins!Keeps[login[job[p].alias]][i])
  /\ job[p].at = "signed" =>
       /\ login[job[p].alias] \in {"modal", "colab"}
       /\ login[job[p].alias] = "colab" /\ job[p].ok => Logins!Kept(job[p].alias, "token.json")
       /\ login[job[p].alias] = "modal" =>
            IF job[p].existed THEN wrote[p] = {} ELSE home.account[job[p].alias] = None
  /\ job[p].at = "declares" => Ready(job[p].alias, job[p].target)

AgainSound(p) ==
  /\ job[p].at \in {"rewrites", "asks"} => job[p].cmd = "again"
  /\ job[p].at = "rewrites" => job[p].target = home.account[job[p].alias]
  /\ job[p].at \in {"rewrites", "asks", "records", "names"} =>
       job[p].cmd # "logout" /\ home.account[job[p].alias] # None

LogoutSound(p) ==
  /\ job[p].at \in {"drops", "clears", "forgets"} => job[p].cmd = "logout"
  /\ job[p].at \in {"clears", "forgets"} => home.account[job[p].alias] = None
  /\ job[p].at = "forgets" => home.devices[job[p].alias] = None

CommandSound(p) ==
  /\ job[p].at \notin Logins!Resting => job[p].alias \in Aliases
  /\ job[p].text # None => job[p].text = home
  /\ LoginSound(p) /\ AgainSound(p) /\ LogoutSound(p)

AccountsInv ==
  /\ Logins!AccountsTypeOK /\ job \in [Procs -> Commands] /\ DOMAIN wrote = Procs
  /\ Logins!AccountsUsable /\ Logins!LoadsUnlessOut /\ Logins!CommandsWhole
  /\ \A p \in Procs : CommandSound(p)

\* What a login of each kind keeps.
LEMMA KeepsIs ==
  ASSUME NEW a
  PROVE  /\ login[a] = "password" => Logins!Names(a) = {"password"}
         /\ login[a] = "elice" => Logins!Names(a) = {"access_token"}
         /\ login[a] = "kaggle" => Logins!Names(a) = {"cookie", "access_token", "username"}
         /\ login[a] = "modal" => Logins!Names(a) = {"modal.toml"}
         /\ login[a] = "colab" => Logins!Names(a) = {"token.json"}
  BY DEF Logins!Names, Logins!Keeps

LEMMA AccountsStart == ASSUME OneCommand, MCInit PROVE AccountsInv
<1>1. Logins!AccountsInit
  BY DEF MCInit
<1>2. job \in [Procs -> Commands]
  <2>1. [at |-> "idle", cmd |-> "none", alias |-> None, target |-> None, text |-> None, found |-> None,
         next |-> 1, ok |-> FALSE, existed |-> FALSE] \in Commands
    BY DEF Commands, CommandPlaces
  <2> QED
    BY <1>1, <2>1 DEF Logins!AccountsInit, Logins!Idle
<1>3. Logins!AccountsTypeOK /\ DOMAIN wrote = Procs
  BY <1>1 DEF Logins!AccountsInit, Logins!AccountsTypeOK, Logins!NoEntries, Logins!Idle
<1>4. Logins!AccountsUsable /\ Logins!LoadsUnlessOut /\ Logins!CommandsWhole
  BY <1>1 DEF Logins!AccountsInit, Logins!AccountsUsable, Logins!LoadsUnlessOut, Logins!Spoils, Logins!CommandsWhole,
              Logins!NoEntries, Logins!Idle, Logins!At
<1>5. \A p \in Procs : CommandSound(p)
  BY <1>1 DEF Logins!AccountsInit, Logins!Idle, Logins!Resting, CommandSound, LoginSound, AgainSound, LogoutSound
<1> QED
  BY <1>2, <1>3, <1>4, <1>5 DEF AccountsInv

\* A command that only goes on keeps all else of it.
LEMMA CommandGoes ==
  ASSUME NEW p \in Procs, NEW place \in CommandPlaces, job \in [Procs -> Commands], Logins!Goes(p, place)
  PROVE  /\ job' \in [Procs -> Commands]
         /\ job'[p].at = place /\ job'[p].text = None
         /\ job'[p].cmd = job[p].cmd /\ job'[p].alias = job[p].alias /\ job'[p].target = job[p].target
         /\ job'[p].found = job[p].found /\ job'[p].next = job[p].next /\ job'[p].ok = job[p].ok
         /\ job'[p].existed = job[p].existed
  BY DEF Logins!Goes, Commands

\* A command that begins.
Started(p, place, cmd, a, t) ==
  job' = [job EXCEPT ![p] = [Logins!Idle EXCEPT !.at = place, !.cmd = cmd, !.alias = a, !.target = t]]
LEMMA CommandBegins ==
  ASSUME NEW p \in Procs, job \in [Procs -> Commands], NEW place \in CommandPlaces,
         NEW cmd \in {"login", "again", "logout"}, NEW a \in Aliases, NEW t \in Targets \cup {None},
         Started(p, place, cmd, a, t)
  PROVE  /\ job' \in [Procs -> Commands]
         /\ job'[p].at = place /\ job'[p].cmd = cmd /\ job'[p].alias = a /\ job'[p].target = t
         /\ job'[p].text = None /\ job'[p].next = 1
<1>1. ASSUME NEW r \in Commands
      PROVE  [r EXCEPT !.at = place, !.cmd = cmd, !.alias = a, !.target = t] \in Commands
  BY DEF Commands
<1>2. Logins!Idle \in Commands /\ Logins!Idle.text = None /\ Logins!Idle.next = 1
  BY DEF Commands, CommandPlaces, Logins!Idle
<1>3. [Logins!Idle EXCEPT !.at = place, !.cmd = cmd, !.alias = a, !.target = t] \in Commands
  BY <1>1, <1>2
<1>4. job' \in [Procs -> Commands]
  BY <1>3 DEF Started
<1>5. job'[p] = [Logins!Idle EXCEPT !.at = place, !.cmd = cmd, !.alias = a, !.target = t]
  BY DEF Started
<1> QED
  BY <1>2, <1>4, <1>5 DEF Commands

\* A command that has asked a machine for its cards.
LEMMA CommandFinds ==
  ASSUME NEW p \in Procs, NEW place \in CommandPlaces, NEW cards \in Targets \cup {None},
         job \in [Procs -> Commands],
         \/ job' = [job EXCEPT ![p].at = place, ![p].found = cards]
         \/ job' = [job EXCEPT ![p].found = cards, ![p].at = place]
  PROVE  /\ job' \in [Procs -> Commands]
         /\ job'[p].at = place /\ job'[p].cmd = job[p].cmd /\ job'[p].alias = job[p].alias
         /\ job'[p].target = job[p].target /\ job'[p].text = job[p].text /\ job'[p].found = cards
<1>1. ASSUME NEW r \in Commands
      PROVE  /\ [r EXCEPT !.at = place] \in Commands
             /\ [r EXCEPT !.found = cards] \in Commands
  BY DEF Commands
<1>2. CASE job' = [job EXCEPT ![p].at = place, ![p].found = cards]
  <2>1. [[job[p] EXCEPT !.at = place] EXCEPT !.found = cards] \in Commands
    BY <1>1
  <2>2. job' = [job EXCEPT ![p] = [[job[p] EXCEPT !.at = place] EXCEPT !.found = cards]]
    BY <1>2
  <2> QED
    BY <2>1, <2>2 DEF Commands
<1>3. CASE job' = [job EXCEPT ![p].found = cards, ![p].at = place]
  <2>1. [[job[p] EXCEPT !.found = cards] EXCEPT !.at = place] \in Commands
    BY <1>1
  <2>2. job' = [job EXCEPT ![p] = [[job[p] EXCEPT !.found = cards] EXCEPT !.at = place]]
    BY <1>3
  <2> QED
    BY <2>1, <2>2 DEF Commands
<1> QED
  BY <1>2, <1>3

\* What makes an account ready is among its credentials and the trusted keys.
LEMMA ReadySame ==
  ASSUME UNCHANGED <<login, secrets>>, trusts \subseteq trusts'
  PROVE  /\ \A a : Logins!Names(a)' = Logins!Names(a)
         /\ \A a, n : Logins!Kept(a, n)' <=> Logins!Kept(a, n)
         /\ \A a, t : Ready(a, t) => Ready(a, t)'
<1>1. \A a : Logins!Names(a)' = Logins!Names(a)
  BY DEF Logins!Names
<1>2. \A a, n : Logins!Kept(a, n)' <=> Logins!Kept(a, n)
  BY DEF Logins!Kept
<1> QED
  BY <1>1, <1>2 DEF Ready

\* A step that leaves the files alone, but for a key that is installed, leaves the accounts as
\* they were.
LEMMA FilesSame ==
  ASSUME AccountsInv, UNCHANGED <<login, home, project, secrets, out>>, trusts \subseteq trusts',
         trusts' \subseteq Targets, job' \in [Procs -> Commands]
  PROVE  Logins!AccountsTypeOK' /\ Logins!AccountsUsable' /\ Logins!LoadsUnlessOut'
<1>1. Logins!AccountsTypeOK'
  BY DEF AccountsInv, Logins!AccountsTypeOK, Commands, Logins!Names
<1>2. Logins!AccountsUsable'
  BY DEF AccountsInv, Logins!AccountsUsable, Logins!Names, Logins!Kept
<1>3. Logins!LoadsUnlessOut'
  BY DEF AccountsInv, Logins!LoadsUnlessOut, Logins!Spoils
<1> QED
  BY <1>1, <1>2, <1>3

\* A credential that is put is kept, and no other one is lost.
LEMMA PutsKeeps ==
  ASSUME NEW p, NEW a, a = job[p].alias, NEW n, NEW t \in Targets, Logins!Puts(p, n, t)
  PROVE  (\A b, m : Logins!Kept(b, m) => Logins!Kept(b, m)') /\ Logins!Kept(a, n)'
<1>1. secrets' = {s \in secrets : ~(s[1] = a /\ s[2] = n)} \cup {<<a, n, t>>}
  BY DEF Logins!Puts, Logins!Mine
<1>2. ASSUME NEW b, NEW m, Logins!Kept(b, m) PROVE Logins!Kept(b, m)'
  <2>1. CASE b = a /\ m = n
    BY <1>1, <2>1 DEF Logins!Kept
  <2>2. CASE b # a \/ m # n
    BY <1>1, <1>2, <2>2 DEF Logins!Kept
  <2> QED
    BY <2>1, <2>2
<1> QED
  BY <1>1, <1>2 DEF Logins!Kept

\* Credentials of one account that go leave those of the others.
LEMMA ForgetsOwn ==
  ASSUME NEW a, secrets' = {s \in secrets : s[1] # a}
  PROVE  \A b, m : b # a => (Logins!Kept(b, m)' <=> Logins!Kept(b, m))
  BY DEF Logins!Kept

LEMMA KeepsSeq ==
  ASSUME NEW k \in {"password", "elice", "kaggle"}
  PROVE  Len(Logins!Keeps[k]) \in 1 .. 3 /\ DOMAIN Logins!Keeps[k] = 1 .. Len(Logins!Keeps[k])
  BY DEF Logins!Keeps

\* The home file with one table changed.
LEMMA HomeWritten ==
  ASSUME home \in HomeFiles, NEW a \in Aliases, NEW v \in Targets \cup {None}
  PROVE  /\ home' = [home EXCEPT !["account"][a] = v] =>
              /\ home' \in HomeFiles /\ home'.devices = home.devices /\ home'.account[a] = v
              /\ \A b \in Aliases \ {a} : home'.account[b] = home.account[b]
         /\ home' = [home EXCEPT !["devices"][a] = v] =>
              /\ home' \in HomeFiles /\ home'.account = home.account /\ home'.devices[a] = v
              /\ \A b \in Aliases \ {a} : home'.devices[b] = home.devices[b]
  BY DEF HomeFiles

\* With one command, what holds of it holds of all.
CommandWhole(p) ==
  /\ job[p].at = "done" /\ job[p].cmd = "logout" =>
       /\ home.account[job[p].alias] = None /\ home.devices[job[p].alias] = None
       /\ ~\E s \in secrets : s[1] = job[p].alias
  /\ job[p].at = "failed" /\ ~(job[p].alias # None /\ login[job[p].alias] \in {"colab"}) => wrote[p] = {}
LEMMA OneForAll ==
  ASSUME OneCommand, NEW p \in Procs, Logins!AccountsTypeOK', Logins!AccountsUsable', Logins!LoadsUnlessOut',
         job' \in [Procs -> Commands], DOMAIN wrote' = Procs, CommandWhole(p)', CommandSound(p)'
  PROVE  AccountsInv'
<1>1. \A q \in Procs : q = p
  BY DEF OneCommand
<1>2. \A q \in Procs : CommandSound(q)'
  BY <1>1
<1>3. Logins!CommandsWhole'
  BY <1>1 DEF Logins!CommandsWhole, CommandWhole, Logins!At, Logins!Mine, Logins!Is
<1> QED
  BY <1>2, <1>3 DEF AccountsInv

\* Each step of a command keeps the invariant.
LEMMA AccountsStep == ASSUME OneCommand, AccountsInv, Logins!AccountsNext PROVE AccountsInv'
<1> USE DEF AccountsInv
<1>1. ASSUME NEW p \in Procs, NEW a \in Aliases, NEW t \in Targets, Logins!LoginBegins(p, a, t) PROVE AccountsInv'
  <2>1. /\ job' \in [Procs -> Commands]
        /\ job'[p].at = "checks" /\ job'[p].cmd = "login" /\ job'[p].alias = a /\ job'[p].target = t
        /\ job'[p].text = None /\ job'[p].next = 1
    <3>1. Started(p, "checks", "login", a, t)
      BY <1>1 DEF Logins!LoginBegins, Started
    <3> QED
      BY <3>1, CommandBegins DEF CommandPlaces
  <2>2. wrote'[p] = {} /\ DOMAIN wrote' = Procs /\ UNCHANGED <<login, home, project, secrets, trusts, out>>
    BY <1>1 DEF Logins!LoginBegins
  <2>3. Logins!AccountsTypeOK' /\ Logins!AccountsUsable' /\ Logins!LoadsUnlessOut'
    BY <2>1, <2>2, FilesSame DEF Logins!AccountsTypeOK
  <2>4. CommandWhole(p)' /\ CommandSound(p)'
    BY <2>1, <2>2 DEF CommandWhole, CommandSound, LoginSound, AgainSound, LogoutSound, Logins!Resting
  <2> QED
    BY <2>1, <2>2, <2>3, <2>4, OneForAll
<1>R. ASSUME NEW p \in Procs, Logins!Refused(p) PROVE AccountsInv'
  <2>1. Logins!Goes(p, "failed") /\ job[p].at = "checks"
    BY <1>R DEF Logins!Refused, Logins!At
  <2>2. /\ job' \in [Procs -> Commands] /\ job'[p].at = "failed" /\ job'[p].text = None
        /\ job'[p].alias = job[p].alias
    BY <2>1, CommandGoes DEF CommandPlaces
  <2>3. trusts \subseteq trusts' /\ trusts' \subseteq Targets
    BY <1>R, <2>1 DEF Logins!Refused, Logins!AccountsTypeOK, CommandSound, LoginSound
  <2>4. UNCHANGED <<login, home, project, secrets, out, wrote>>
    BY <1>R DEF Logins!Refused
  <2>5. Logins!AccountsTypeOK' /\ Logins!AccountsUsable' /\ Logins!LoadsUnlessOut'
    BY <2>2, <2>3, <2>4, FilesSame
  <2>6. CommandWhole(p)' /\ CommandSound(p)'
    BY <2>1, <2>2, <2>4 DEF CommandWhole, CommandSound, LoginSound, AgainSound, LogoutSound, Logins!Resting
  <2> QED
    BY <2>2, <2>4, <2>5, <2>6, OneForAll
<1>A. ASSUME NEW p \in Procs, NEW a \in Aliases, Logins!LoginAgain(p, a) PROVE AccountsInv'
  <2>1. PICK place \in {"names", "rewrites", "asks"} : Started(p, place, "again", a, home.account[a])
    BY <1>A DEF Logins!LoginAgain, Started
  <2>2. home.account[a] \in Targets /\ home.account[a] # None
    BY <1>A DEF Logins!LoginAgain, Logins!AccountsTypeOK
  <2>3. /\ job' \in [Procs -> Commands] /\ job'[p].at = place /\ job'[p].cmd = "again"
        /\ job'[p].alias = a /\ job'[p].target = home.account[a] /\ job'[p].text = None
    BY <2>1, <2>2, CommandBegins DEF CommandPlaces
  <2>4. wrote'[p] = {} /\ DOMAIN wrote' = Procs /\ UNCHANGED <<login, home, project, secrets, trusts, out>>
    BY <1>A DEF Logins!LoginAgain
  <2>5. Logins!AccountsTypeOK' /\ Logins!AccountsUsable' /\ Logins!LoadsUnlessOut'
    BY <2>3, <2>4, FilesSame DEF Logins!AccountsTypeOK
  <2>6. CommandWhole(p)' /\ CommandSound(p)'
    BY <2>2, <2>3, <2>4 DEF CommandWhole, CommandSound, LoginSound, AgainSound, LogoutSound, Logins!Resting
  <2> QED
    BY <2>3, <2>4, <2>5, <2>6, OneForAll
<1>B. ASSUME NEW p \in Procs, NEW a \in Aliases, Logins!LogoutBegins(p, a) PROVE AccountsInv'
  <2>1. job' = [job EXCEPT ![p] = [Logins!Idle EXCEPT !.at = "drops", !.cmd = "logout", !.alias = a]]
    BY <1>B DEF Logins!LogoutBegins
  <2>2. Logins!Idle \in Commands /\ Logins!Idle.text = None
    BY DEF Commands, CommandPlaces, Logins!Idle
  <2>3. ASSUME NEW r \in Commands PROVE [r EXCEPT !.at = "drops", !.cmd = "logout", !.alias = a] \in Commands
    BY DEF Commands, CommandPlaces
  <2>4. /\ job' \in [Procs -> Commands] /\ job'[p].at = "drops" /\ job'[p].cmd = "logout"
        /\ job'[p].alias = a /\ job'[p].text = None
    <3>1. [Logins!Idle EXCEPT !.at = "drops", !.cmd = "logout", !.alias = a] \in Commands
      BY <2>2, <2>3
    <3> QED
      BY <2>1, <2>2, <3>1 DEF Commands
  <2>5. wrote'[p] = {} /\ DOMAIN wrote' = Procs /\ UNCHANGED <<login, home, project, secrets, trusts, out>>
    BY <1>B DEF Logins!LogoutBegins
  <2>6. Logins!AccountsTypeOK' /\ Logins!AccountsUsable' /\ Logins!LoadsUnlessOut'
    BY <2>4, <2>5, FilesSame DEF Logins!AccountsTypeOK
  <2>7. CommandWhole(p)' /\ CommandSound(p)'
    BY <2>4, <2>5 DEF CommandWhole, CommandSound, LoginSound, AgainSound, LogoutSound, Logins!Resting
  <2> QED
    BY <2>4, <2>5, <2>6, <2>7, OneForAll
<1>K. ASSUME NEW p \in Procs, Logins!KeyFlow(p), Logins!Is(p, Logins!ByKey) PROVE AccountsInv'
  <2>1. /\ job[p].at = "checks" /\ login[job[p].alias] \in Logins!ByKey
        /\ job[p].cmd = "login" /\ job[p].target \in Targets /\ job[p].alias \in Aliases /\ wrote[p] = {}
    BY <1>K DEF Logins!KeyFlow, Logins!At, Logins!Is, Logins!Mine, CommandWhole, CommandSound, LoginSound, AgainSound, LogoutSound, Logins!Resting
  <2>2. PICK cards \in Targets \cup {None} : job' = [job EXCEPT ![p].at = "declares", ![p].found = cards]
    BY <1>K, <2>1 DEF Logins!KeyFlow, Logins!Detects
  <2>3. /\ job' \in [Procs -> Commands] /\ job'[p].at = "declares" /\ job'[p].cmd = job[p].cmd
        /\ job'[p].alias = job[p].alias /\ job'[p].target = job[p].target /\ job'[p].text = job[p].text
    BY <2>2, CommandFinds DEF CommandPlaces
  <2>4. trusts \subseteq trusts' /\ trusts' \subseteq Targets /\ job[p].target \in trusts'
    BY <1>K, <2>1 DEF Logins!KeyFlow, Logins!AccountsTypeOK
  <2>5. UNCHANGED <<login, home, project, secrets, out, wrote>>
    BY <1>K DEF Logins!KeyFlow
  <2>6. Logins!AccountsTypeOK' /\ Logins!AccountsUsable' /\ Logins!LoadsUnlessOut'
    BY <2>3, <2>4, <2>5, FilesSame
  <2>7. Ready(job[p].alias, job[p].target)'
    BY <2>1, <2>3, <2>4, <2>5 DEF Ready
  <2>8. CommandWhole(p)' /\ CommandSound(p)'
    BY <2>1, <2>3, <2>5, <2>7 DEF CommandWhole, CommandSound, LoginSound, AgainSound, LogoutSound, Logins!Resting
  <2> QED
    BY <2>3, <2>5, <2>6, <2>8, OneForAll
<1>C. ASSUME NEW p \in Procs, Logins!Checked(p), Logins!Is(p, {"password", "elice", "kaggle"}) PROVE AccountsInv'
  <2>1. /\ job[p].at = "checks" /\ login[job[p].alias] \in {"password", "elice", "kaggle"}
        /\ Logins!Goes(p, "stores")
    BY <1>C DEF Logins!Checked, Logins!At, Logins!Is, Logins!Mine
  <2>2. /\ job' \in [Procs -> Commands] /\ job'[p].at = "stores" /\ job'[p].cmd = job[p].cmd
        /\ job'[p].alias = job[p].alias /\ job'[p].target = job[p].target /\ job'[p].text = None
        /\ job'[p].next = job[p].next
    BY <2>1, CommandGoes DEF CommandPlaces
  <2>3. UNCHANGED <<login, home, project, secrets, trusts, out, wrote>>
    BY <1>C DEF Logins!Checked
  <2>4. Logins!AccountsTypeOK' /\ Logins!AccountsUsable' /\ Logins!LoadsUnlessOut'
    BY <2>2, <2>3, FilesSame DEF Logins!AccountsTypeOK
  <2>5. job[p].next = 1 /\ 1 \in DOMAIN Logins!Keeps[login[job[p].alias]]
    BY <2>1 DEF CommandSound, LoginSound, Logins!Keeps
  <2>6. CommandWhole(p)' /\ CommandSound(p)'
    BY <2>1, <2>2, <2>3, <2>5 DEF CommandWhole, CommandSound, LoginSound, AgainSound, LogoutSound, Logins!Resting
  <2> QED
    BY <2>2, <2>3, <2>4, <2>6, OneForAll
<1>L. ASSUME NEW p \in Procs, Logins!ColabFlow(p) PROVE AccountsInv'
  <2>1. /\ job[p].at = "signed" /\ login[job[p].alias] = "colab" /\ job[p].alias # None
        /\ Logins!Goes(p, IF job[p].ok THEN "declares" ELSE "failed")
    BY <1>L DEF Logins!ColabFlow, Logins!At, Logins!Is, Logins!Mine
  <2>2. /\ job' \in [Procs -> Commands] /\ job'[p].at = (IF job[p].ok THEN "declares" ELSE "failed")
        /\ job'[p].cmd = job[p].cmd /\ job'[p].alias = job[p].alias /\ job'[p].target = job[p].target
        /\ job'[p].text = None
    BY <2>1, CommandGoes DEF CommandPlaces
  <2>3. UNCHANGED <<login, home, project, secrets, trusts, out, wrote>>
    BY <1>L DEF Logins!ColabFlow
  <2>4. Logins!AccountsTypeOK' /\ Logins!AccountsUsable' /\ Logins!LoadsUnlessOut'
    BY <2>2, <2>3, FilesSame DEF Logins!AccountsTypeOK
  <2>5. job[p].ok => Ready(job[p].alias, job[p].target)'
    <3>1. Logins!Names(job[p].alias) = {"token.json"} /\ login[job[p].alias] \notin Logins!ByKey
      BY <2>1, KeepsIs DEF Logins!ByKey
    <3>2. job[p].ok => Logins!Kept(job[p].alias, "token.json")
      BY <2>1 DEF CommandSound, LoginSound
    <3>3. job[p].ok => Ready(job[p].alias, job[p].target)
      BY <3>1, <3>2 DEF Ready
    <3> QED
      BY <3>3, <2>2, <2>3, ReadySame
  <2>6. CommandWhole(p)' /\ CommandSound(p)'
    BY <2>1, <2>2, <2>3, <2>5 DEF CommandWhole, CommandSound, LoginSound, AgainSound, LogoutSound, Logins!Resting
  <2> QED
    BY <2>2, <2>3, <2>4, <2>6, OneForAll
<1>E. ASSUME NEW p \in Procs, Logins!Reads(p) PROVE AccountsInv'
  <2>1. job' = [job EXCEPT ![p].text = home] /\ job[p].at \notin Logins!Resting
    BY <1>E DEF Logins!Reads, Logins!Resting
  <2>2. home \in HomeFiles
    BY DEF Logins!AccountsTypeOK, HomeFiles
  <2>3. /\ job' \in [Procs -> Commands] /\ job'[p].at = job[p].at /\ job'[p].cmd = job[p].cmd
        /\ job'[p].alias = job[p].alias /\ job'[p].target = job[p].target /\ job'[p].text = home
        /\ job'[p].next = job[p].next /\ job'[p].ok = job[p].ok /\ job'[p].existed = job[p].existed
    BY <2>1, <2>2 DEF Commands
  <2>4. UNCHANGED <<login, home, project, secrets, trusts, out, wrote>>
    BY <1>E DEF Logins!Reads
  <2>5. Logins!AccountsTypeOK' /\ Logins!AccountsUsable' /\ Logins!LoadsUnlessOut'
    BY <2>3, <2>4, FilesSame DEF Logins!AccountsTypeOK
  <2>6. job[p].at = "declares" => Ready(job[p].alias, job[p].target)'
    BY <2>3, <2>4, ReadySame DEF CommandSound, LoginSound
  <2>7. CommandWhole(p)' /\ CommandSound(p)'
    BY <1>E, <2>1, <2>3, <2>4, <2>6 DEF Logins!Reads, CommandWhole, CommandSound, LoginSound, AgainSound, LogoutSound, Logins!Resting
  <2> QED
    BY <2>3, <2>4, <2>5, <2>7, OneForAll
<1>F. ASSUME NEW p \in Procs, Logins!AsksAgain(p) PROVE AccountsInv'
  <2>1. /\ job[p].at = "asks" /\ job[p].cmd = "again" /\ job[p].alias \in Aliases
        /\ home.account[job[p].alias] # None
    BY <1>F DEF Logins!AsksAgain, Logins!At, CommandWhole, CommandSound, LoginSound, AgainSound, LogoutSound, Logins!Resting
  <2>2. PICK cards \in {None, job[p].target} :
          job' = [job EXCEPT ![p].found = cards, ![p].at = IF cards = None THEN "names" ELSE "records"]
    BY <1>F DEF Logins!AsksAgain, Logins!Detects
  <2>3. /\ job' \in [Procs -> Commands] /\ job'[p].at \in {"names", "records"} /\ job'[p].cmd = job[p].cmd
        /\ job'[p].alias = job[p].alias /\ job'[p].text = job[p].text
    <3>1. cards \in Targets \cup {None}
      BY DEF Commands
    <3>2. CASE cards = None
      <4>1. job' = [job EXCEPT ![p].found = cards, ![p].at = "names"]
        BY <2>2, <3>2
      <4> QED
        BY <4>1, <3>1, CommandFinds DEF CommandPlaces
    <3>3. CASE cards # None
      BY <2>2, <3>1, <3>3, CommandFinds DEF CommandPlaces
    <3> QED
      BY <3>2, <3>3
  <2>4. UNCHANGED <<login, home, project, secrets, trusts, out, wrote>>
    BY <1>F DEF Logins!AsksAgain
  <2>5. Logins!AccountsTypeOK' /\ Logins!AccountsUsable' /\ Logins!LoadsUnlessOut'
    BY <2>3, <2>4, FilesSame DEF Logins!AccountsTypeOK
  <2>6. CommandWhole(p)' /\ CommandSound(p)'
    BY <2>1, <2>3, <2>4 DEF CommandWhole, CommandSound, LoginSound, AgainSound, LogoutSound, Logins!Resting
  <2> QED
    BY <2>3, <2>4, <2>5, <2>6, OneForAll
<1>G. ASSUME NEW p \in Procs, Logins!Dies(p) PROVE AccountsInv'
  <2>1. job' = [job EXCEPT ![p] = Logins!Idle] /\ wrote' = [wrote EXCEPT ![p] = {}]
    BY <1>G DEF Logins!Dies
  <2>2. job' \in [Procs -> Commands] /\ job'[p].at = "idle" /\ job'[p].text = None
    BY <2>1 DEF Logins!Idle, Commands, CommandPlaces
  <2>3. UNCHANGED <<login, home, project, secrets, trusts, out>> /\ DOMAIN wrote' = Procs
    BY <1>G, <2>1 DEF Logins!Dies
  <2>4. Logins!AccountsTypeOK' /\ Logins!AccountsUsable' /\ Logins!LoadsUnlessOut'
    BY <2>2, <2>3, FilesSame DEF Logins!AccountsTypeOK
  <2>5. CommandWhole(p)' /\ CommandSound(p)'
    BY <2>2, <2>3 DEF CommandWhole, CommandSound, LoginSound, AgainSound, LogoutSound, Logins!Resting
  <2> QED
    BY <2>2, <2>3, <2>4, <2>5, OneForAll
<1>H. ASSUME NEW p \in Procs, Logins!Stores(p) PROVE AccountsInv'
  <2>0. PICK a, k, j, n : /\ a = job[p].alias /\ k = Logins!Keeps[login[a]] /\ j = job[p].next /\ n = k[j]
    OBVIOUS
  <2>1. /\ job[p].at = "stores" /\ a \in Aliases /\ job[p].target \in Targets /\ job[p].cmd = "login"
        /\ login[a] \in {"password", "elice", "kaggle"} /\ j \in DOMAIN k
        /\ \A i \in 1 .. j - 1 : Logins!Kept(a, k[i])
    BY <1>H, <2>0 DEF Logins!Stores, Logins!At, CommandWhole, CommandSound, LoginSound, AgainSound, LogoutSound, Logins!Resting
  <2>2. Logins!Puts(p, n, job[p].target) /\ UNCHANGED <<login, home, project, trusts, out>>
    BY <1>H, <2>0 DEF Logins!Stores, Logins!Mine
  <2>3. job' = [job EXCEPT ![p].next = j + 1, ![p].at = IF j = Len(k) THEN "declares" ELSE job[p].at]
    BY <1>H, <2>0 DEF Logins!Stores, Logins!Mine, Commands
  <2>4. j \in 1 .. Len(k) /\ Len(k) \in 1 .. 3
        /\ DOMAIN k = 1 .. Len(k)
    BY <2>0, <2>1, KeepsSeq
  <2>5. /\ job' \in [Procs -> Commands] /\ job'[p].at = (IF j = Len(k) THEN "declares" ELSE "stores")
        /\ job'[p].next = j + 1 /\ job'[p].cmd = job[p].cmd /\ job'[p].alias = a
        /\ job'[p].target = job[p].target /\ job'[p].text = job[p].text
    <3>1. j + 1 \in 1 .. 4
      BY <2>4
    <3>2. PICK place \in {"declares", "stores"} : place = IF j = Len(k) THEN "declares" ELSE "stores"
      OBVIOUS
    <3>3. ASSUME NEW r \in Commands
          PROVE  [r EXCEPT !.next = j + 1] \in Commands /\ [r EXCEPT !.at = place] \in Commands
      BY <3>1 DEF Commands, CommandPlaces
    <3>4. job' = [job EXCEPT ![p] = [[job[p] EXCEPT !.next = j + 1] EXCEPT !.at = place]]
      BY <2>1, <2>3, <3>2
    <3>5. [[job[p] EXCEPT !.next = j + 1] EXCEPT !.at = place] \in Commands
      BY <3>3
    <3> QED
      BY <2>0, <3>2, <3>4, <3>5 DEF Commands
  <2>6. (\A b, m : Logins!Kept(b, m) => Logins!Kept(b, m)') /\ Logins!Kept(a, n)'
    BY <2>0, <2>1, <2>2, PutsKeeps
  <2>7. \A b : Logins!Names(b)' = Logins!Names(b)
    BY <2>2 DEF Logins!Names
  <2>8. DOMAIN wrote' = Procs
    BY <2>2 DEF Logins!Puts
  <2>9. Logins!AccountsTypeOK'
    <3>1. n \in Logins!Names(a)
      BY <2>0, <2>1 DEF Logins!Names
    <3>2. \A s \in secrets' : s[1] \in Aliases /\ s[2] \in Logins!Names(s[1]) /\ s[3] \in Targets
      <4>1. \A s \in secrets' : s \in secrets \/ s = <<a, n, job[p].target>>
        BY <2>0, <2>2 DEF Logins!Puts, Logins!Mine
      <4> QED
        BY <3>1, <4>1, <2>1 DEF Logins!AccountsTypeOK
    <3> QED
      BY <3>2, <2>2, <2>5, <2>7 DEF Logins!AccountsTypeOK, Commands
  <2>10. Logins!AccountsUsable'
    BY <2>2, <2>6, <2>7 DEF Logins!AccountsUsable
  <2>11. Logins!LoadsUnlessOut'
    BY <2>2 DEF Logins!LoadsUnlessOut, Logins!Spoils
  <2>12. j = Len(k) => Ready(a, job[p].target)'
    <3>1. ASSUME j = Len(k), NEW m \in Logins!Names(a) PROVE Logins!Kept(a, m)'
      <4>1. PICK i \in DOMAIN k : m = k[i]
        BY <2>0, <3>1 DEF Logins!Names
      <4>2. i \in 1 .. j - 1 \/ i = j
        <5>1. i \in 1 .. Len(k) /\ j = Len(k) /\ Len(k) \in 1 .. 3
          BY <2>0, <2>4, <3>1, <4>1
        <5> QED
          BY ONLY <5>1
      <4> QED
        BY <2>0, <2>1, <2>6, <4>1, <4>2
    <3> QED
      BY <3>1, <2>1, <2>2, <2>5, <2>7 DEF Ready, Logins!ByKey
  <2>13. j # Len(k) => /\ job'[p].next \in DOMAIN k
                  /\ \A i \in 1 .. job'[p].next - 1 : Logins!Kept(a, k[i])'
    BY <2>0, <2>1, <2>4, <2>5, <2>6
  <2>14. CommandWhole(p)' /\ CommandSound(p)'
    BY <2>0, <2>1, <2>2, <2>5, <2>12, <2>13 DEF CommandWhole, CommandSound, LoginSound, AgainSound, LogoutSound, Logins!Resting
  <2> QED
    BY <2>5, <2>8, <2>9, <2>10, <2>11, <2>14, OneForAll
<1>M. ASSUME NEW p \in Procs, Logins!ModalFlow(p) PROVE AccountsInv'
  <2> DEFINE a == job[p].alias
             signed == job[p].ok /\ Logins!Kept(a, "modal.toml")
  <2>1. /\ job[p].at = "signed" /\ login[a] = "modal" /\ a \in Aliases
        /\ job[p].target \in Targets /\ job[p].cmd = "login"
        /\ IF job[p].existed THEN wrote[p] = {} ELSE home.account[a] = None
    BY <1>M DEF Logins!ModalFlow, Logins!At, Logins!Is, Logins!Mine, CommandWhole, CommandSound, LoginSound, AgainSound, LogoutSound, Logins!Resting
  <2>2. Logins!Goes(p, IF signed THEN "declares" ELSE "failed")
    BY <1>M DEF Logins!ModalFlow, Logins!Mine
  <2>3. /\ job' \in [Procs -> Commands] /\ job'[p].at = (IF signed THEN "declares" ELSE "failed")
        /\ job'[p].cmd = job[p].cmd /\ job'[p].alias = a /\ job'[p].target = job[p].target
        /\ job'[p].text = None
    BY <2>2, CommandGoes DEF CommandPlaces
  <2>4. UNCHANGED <<login, home, project, trusts, out>>
    BY <1>M DEF Logins!ModalFlow
  <2>5. CASE signed \/ job[p].existed
    <3>1. UNCHANGED <<secrets, wrote>>
      BY <1>M, <2>5 DEF Logins!ModalFlow, Logins!Mine
    <3>2. Logins!AccountsTypeOK' /\ Logins!AccountsUsable' /\ Logins!LoadsUnlessOut'
      BY <2>3, <2>4, <3>1, FilesSame DEF Logins!AccountsTypeOK
    <3>3. signed => Ready(a, job[p].target)
      BY <2>1, KeepsIs DEF Ready, Logins!ByKey
    <3>4. signed => Ready(a, job[p].target)'
      BY <3>1, <3>3, <2>3, <2>4, ReadySame
    <3>5. CommandWhole(p)' /\ CommandSound(p)'
      BY <2>1, <2>3, <2>4, <2>5, <3>1, <3>4 DEF CommandWhole, CommandSound, LoginSound, AgainSound, LogoutSound, Logins!Resting
    <3> QED
      BY <2>3, <3>1, <3>2, <3>5, OneForAll
  <2>6. CASE ~signed /\ ~job[p].existed
    <3>1. secrets' = {s \in secrets : s[1] # a} /\ wrote' = [wrote EXCEPT ![p] = {}]
      BY <1>M, <2>6 DEF Logins!ModalFlow, Logins!Mine
    <3>2. Logins!AccountsTypeOK'
      BY <2>3, <2>4, <3>1 DEF Logins!AccountsTypeOK, Commands, Logins!Names
    <3>3. Logins!AccountsUsable'
      BY <2>1, <2>4, <2>6, <3>1, ForgetsOwn DEF Logins!AccountsUsable, Logins!Names
    <3>4. Logins!LoadsUnlessOut'
      BY <2>4 DEF Logins!LoadsUnlessOut, Logins!Spoils
    <3>5. CommandWhole(p)' /\ CommandSound(p)'
      BY <2>1, <2>3, <2>4, <2>6, <3>1 DEF CommandWhole, CommandSound, LoginSound, AgainSound, LogoutSound, Logins!Resting
    <3> QED
      BY <2>3, <3>1, <3>2, <3>3, <3>4, <3>5, OneForAll
  <2> QED
    BY <2>5, <2>6
<1>S. ASSUME NEW p \in Procs, NEW tool \in {"modal", "colab"}, Logins!SignsIn(p, tool) PROVE AccountsInv'
  <2>0. PICK a, n, t, had : /\ a = job[p].alias /\ n = Logins!Keeps[tool][1] /\ t = job[p].target
                           /\ had = Logins!Kept(a, n)
    OBVIOUS
  <2>1. /\ job[p].at = "checks" /\ login[a] = tool /\ a \in Aliases /\ t \in Targets /\ job[p].cmd = "login"
        /\ wrote[p] = {}
    BY <1>S, <2>0 DEF Logins!SignsIn, Logins!At, Logins!Is, Logins!Mine, CommandWhole, CommandSound, LoginSound, AgainSound, LogoutSound, Logins!Resting
  <2>2. Logins!Names(a) = {n} /\ n = (IF tool = "modal" THEN "modal.toml" ELSE "token.json")
    BY <2>0, <2>1, KeepsIs DEF Logins!Keeps
  <2>3. PICK ok \in BOOLEAN, put \in BOOLEAN :
          /\ ok /\ tool = "colab" => put \/ Logins!Kept(a, "token.json")
          /\ job' = [job EXCEPT ![p].at = "signed", ![p].ok = ok, ![p].existed = Logins!Kept(a, n)]
          /\ IF put THEN Logins!Puts(p, n, t) ELSE UNCHANGED <<secrets, wrote>>
    BY <1>S, <2>0 DEF Logins!SignsIn, Logins!Mine
  <2>4. UNCHANGED <<login, home, project, trusts, out>>
    BY <1>S DEF Logins!SignsIn
  <2>5. /\ job' \in [Procs -> Commands] /\ job'[p].at = "signed" /\ job'[p].cmd = job[p].cmd
        /\ job'[p].alias = a /\ job'[p].target = t /\ job'[p].text = job[p].text
        /\ job'[p].ok = ok /\ job'[p].existed = Logins!Kept(a, n)
    <3>1. Logins!Kept(a, n) \in BOOLEAN
      BY DEF Logins!Kept
    <3>2. ASSUME NEW r \in Commands, NEW b \in BOOLEAN
          PROVE  /\ [r EXCEPT !.at = "signed"] \in Commands /\ [r EXCEPT !.ok = b] \in Commands
                 /\ [r EXCEPT !.existed = b] \in Commands
      BY DEF Commands, CommandPlaces
    <3>3. [[[job[p] EXCEPT !.at = "signed"] EXCEPT !.ok = ok] EXCEPT !.existed = Logins!Kept(a, n)] \in Commands
      BY <3>1, <3>2
    <3>4. job' = [job EXCEPT ![p] =
                    [[[job[p] EXCEPT !.at = "signed"] EXCEPT !.ok = ok] EXCEPT !.existed = Logins!Kept(a, n)]]
      BY <2>3
    <3> QED
      BY <2>0, <3>3, <3>4 DEF Commands
  <2>6. /\ \A b, m : Logins!Kept(b, m) => Logins!Kept(b, m)'
        /\ put => Logins!Kept(a, n)'
        /\ DOMAIN wrote' = Procs /\ (Logins!Kept(a, n) => wrote'[p] = {})
        /\ \A s \in secrets' : s \in secrets \/ s = <<a, n, t>>
    <3>1. CASE put
      <4>1. Logins!Puts(p, n, t)
        BY <2>3, <3>1
      <4>2. wrote' = [wrote EXCEPT ![p] = IF Logins!Kept(a, n) THEN wrote[p] ELSE wrote[p] \cup {n}]
        BY <4>1, <2>0 DEF Logins!Puts, Logins!Mine
      <4>3. \A s \in secrets' : s \in secrets \/ s = <<a, n, t>>
        BY <4>1, <2>0 DEF Logins!Puts, Logins!Mine
      <4> QED
        BY <4>1, <4>2, <4>3, <2>0, <2>1, PutsKeeps
    <3>2. CASE ~put
      BY <2>1, <2>3, <3>2 DEF Logins!Kept
    <3> QED
      BY <3>1, <3>2
  <2>7. \A b : Logins!Names(b)' = Logins!Names(b)
    BY <2>4 DEF Logins!Names
  <2>8. Logins!AccountsTypeOK'
    <3>1. \A s \in secrets' : s[1] \in Aliases /\ s[2] \in Logins!Names(s[1]) /\ s[3] \in Targets
      BY <2>1, <2>2, <2>6 DEF Logins!AccountsTypeOK
    <3> QED
      BY <3>1, <2>4, <2>5, <2>7 DEF Logins!AccountsTypeOK, Commands
  <2>9. Logins!AccountsUsable' /\ Logins!LoadsUnlessOut'
    BY <2>4, <2>6, <2>7 DEF Logins!AccountsUsable, Logins!LoadsUnlessOut, Logins!Spoils
  <2>10. tool = "modal" /\ ~Logins!Kept(a, n) => home.account[a] = None
    BY <2>1, <2>2 DEF Logins!AccountsUsable, Logins!ByKey
  <2>11. tool = "colab" /\ ok => Logins!Kept(a, "token.json")'
    BY <2>2, <2>3, <2>6
  <2>12. CommandWhole(p)' /\ CommandSound(p)'
    BY <2>1, <2>4, <2>5, <2>6, <2>10, <2>11 DEF CommandWhole, CommandSound, LoginSound, AgainSound, LogoutSound, Logins!Resting
  <2> QED
    BY <2>5, <2>6, <2>8, <2>9, <2>12, OneForAll
<1>D. ASSUME NEW p \in Procs, Logins!Declares(p) PROVE AccountsInv'
  <2> DEFINE a == job[p].alias
             t == job[p].target
  <2>1. /\ job[p].at = "declares" /\ a \in Aliases /\ t \in Targets /\ job[p].cmd = "login" /\ job[p].text = home
        /\ Ready(a, t)
    BY <1>D DEF Logins!Declares, Logins!At, Logins!Holds, CommandWhole, CommandSound, LoginSound, AgainSound, LogoutSound, Logins!Resting
  <2>2. home' = [home EXCEPT !["account"][a] = t]
    BY <1>D, <2>1 DEF Logins!Declares, Logins!Writes, Logins!Mine
  <2>3. Logins!Goes(p, IF job[p].found = None THEN "names" ELSE "records")
    BY <1>D DEF Logins!Declares
  <2>4. /\ job' \in [Procs -> Commands] /\ job'[p].at \in {"names", "records"}
        /\ job'[p].cmd = job[p].cmd /\ job'[p].alias = a /\ job'[p].target = t /\ job'[p].text = None
    BY <2>3, CommandGoes DEF CommandPlaces
  <2>5. UNCHANGED <<login, project, secrets, trusts>> /\ out' = out \ {a} /\ DOMAIN wrote' = Procs
    BY <1>D DEF Logins!Declares, Logins!Mine
  <2>6. /\ home' \in HomeFiles /\ home'.devices = home.devices /\ home'.account[a] = t
        /\ \A b \in Aliases \ {a} : home'.account[b] = home.account[b]
    BY <2>1, <2>2, HomeWritten DEF Logins!AccountsTypeOK, HomeFiles
  <2>7. t # None
    BY <2>1 DEF OneCommand
  <2>8. Logins!AccountsTypeOK'
    BY <2>4, <2>5, <2>6 DEF Logins!AccountsTypeOK, Commands, HomeFiles, Logins!Names
  <2>9. Logins!AccountsUsable'
    BY <2>1, <2>5, <2>6 DEF Logins!AccountsUsable, Ready, Logins!Names, Logins!Kept
  <2>10. Logins!LoadsUnlessOut'
    BY <2>5, <2>6, <2>7 DEF Logins!LoadsUnlessOut, Logins!Spoils
  <2>11. CommandWhole(p)' /\ CommandSound(p)'
    BY <2>1, <2>4, <2>6, <2>7 DEF CommandWhole, CommandSound, LoginSound, AgainSound, LogoutSound, Logins!Resting
  <2> QED
    BY <2>4, <2>5, <2>8, <2>9, <2>10, <2>11, OneForAll
<1>W. ASSUME NEW p \in Procs, Logins!Rewrites(p) PROVE AccountsInv'
  <2> DEFINE a == job[p].alias
             t == job[p].target
  <2>1. /\ job[p].at = "rewrites" /\ a \in Aliases /\ t = home.account[a] /\ t # None /\ job[p].cmd = "again"
        /\ job[p].text = home /\ t \in Targets
    BY <1>W DEF Logins!Rewrites, Logins!At, Logins!Holds, Logins!AccountsTypeOK, CommandWhole, CommandSound, LoginSound, AgainSound, LogoutSound, Logins!Resting
  <2>2. home' = [home EXCEPT !["account"][a] = t]
    BY <1>W, <2>1 DEF Logins!Rewrites, Logins!Writes, Logins!Mine
  <2>3. PICK place \in {"names", "asks"} : Logins!Goes(p, place)
    BY <1>W DEF Logins!Rewrites
  <2>4. /\ job' \in [Procs -> Commands] /\ job'[p].at \in {"names", "asks"}
        /\ job'[p].cmd = job[p].cmd /\ job'[p].alias = a /\ job'[p].target = t /\ job'[p].text = None
    BY <2>3, CommandGoes DEF CommandPlaces
  <2>5. UNCHANGED <<login, project, secrets, trusts, wrote>> /\ out' = out \ {a}
    BY <1>W DEF Logins!Rewrites, Logins!Mine
  <2>6. /\ home' \in HomeFiles /\ home'.devices = home.devices /\ home'.account[a] = t
        /\ \A b \in Aliases \ {a} : home'.account[b] = home.account[b]
    BY <2>1, <2>2, HomeWritten DEF Logins!AccountsTypeOK, HomeFiles
  <2>8. Logins!AccountsTypeOK'
    BY <2>4, <2>5, <2>6 DEF Logins!AccountsTypeOK, Commands, HomeFiles, Logins!Names
  <2>9. Logins!AccountsUsable'
    BY <2>1, <2>5, <2>6 DEF Logins!AccountsUsable, Logins!Names, Logins!Kept
  <2>10. Logins!LoadsUnlessOut'
    BY <2>1, <2>5, <2>6 DEF Logins!LoadsUnlessOut, Logins!Spoils
  <2>11. CommandWhole(p)' /\ CommandSound(p)'
    BY <2>1, <2>4, <2>6 DEF CommandWhole, CommandSound, LoginSound, AgainSound, LogoutSound, Logins!Resting
  <2> QED
    BY <2>4, <2>5, <2>8, <2>9, <2>10, <2>11, OneForAll
<1>Y. ASSUME NEW p \in Procs, Logins!Records(p) PROVE AccountsInv'
  <2> DEFINE a == job[p].alias
  <2>1. /\ job[p].at = "records" /\ a \in Aliases /\ home.account[a] # None /\ job[p].cmd # "logout"
        /\ job[p].text = home /\ job[p].found \in Targets \cup {None}
    BY <1>Y DEF Logins!Records, Logins!At, Logins!Holds, Commands, CommandWhole, CommandSound, LoginSound, AgainSound, LogoutSound, Logins!Resting
  <2>2. home' = [home EXCEPT !["devices"][a] = job[p].found]
    BY <1>Y, <2>1 DEF Logins!Records, Logins!Writes, Logins!Mine
  <2>3. Logins!Goes(p, "names")
    BY <1>Y DEF Logins!Records
  <2>4. /\ job' \in [Procs -> Commands] /\ job'[p].at = "names"
        /\ job'[p].cmd = job[p].cmd /\ job'[p].alias = a /\ job'[p].text = None
    BY <2>3, CommandGoes DEF CommandPlaces
  <2>5. UNCHANGED <<login, project, secrets, trusts, out, wrote>>
    BY <1>Y DEF Logins!Records
  <2>6. /\ home' \in HomeFiles /\ home'.account = home.account
        /\ \A b \in Aliases \ {a} : home'.devices[b] = home.devices[b]
    BY <2>1, <2>2, HomeWritten DEF Logins!AccountsTypeOK, HomeFiles
  <2>8. Logins!AccountsTypeOK'
    BY <2>4, <2>5, <2>6 DEF Logins!AccountsTypeOK, Commands, HomeFiles, Logins!Names
  <2>9. Logins!AccountsUsable'
    BY <2>1, <2>5, <2>6 DEF Logins!AccountsUsable, Logins!Names, Logins!Kept
  <2>10. Logins!LoadsUnlessOut'
    BY <2>1, <2>5, <2>6 DEF Logins!LoadsUnlessOut, Logins!Spoils
  <2>11. CommandWhole(p)' /\ CommandSound(p)'
    BY <2>1, <2>4, <2>6 DEF CommandWhole, CommandSound, LoginSound, AgainSound, LogoutSound, Logins!Resting
  <2> QED
    BY <2>4, <2>5, <2>8, <2>9, <2>10, <2>11, OneForAll
<1>N. ASSUME NEW p \in Procs, Logins!NamesAccount(p) PROVE AccountsInv'
  <2> DEFINE a == job[p].alias
  <2>1. job[p].at = "names" /\ a \in Aliases /\ home.account[a] # None /\ job[p].cmd # "logout"
    BY <1>N DEF Logins!NamesAccount, Logins!At, CommandWhole, CommandSound, LoginSound, AgainSound, LogoutSound, Logins!Resting
  <2>2. Logins!Goes(p, "done") /\ project' = project \cup {a} /\ UNCHANGED <<login, home, secrets, trusts, out, wrote>>
    BY <1>N DEF Logins!NamesAccount, Logins!Mine
  <2>3. /\ job' \in [Procs -> Commands] /\ job'[p].at = "done"
        /\ job'[p].cmd = job[p].cmd /\ job'[p].alias = a /\ job'[p].text = None
    BY <2>2, CommandGoes DEF CommandPlaces
  <2>4. Logins!AccountsTypeOK'
    BY <2>1, <2>2, <2>3 DEF Logins!AccountsTypeOK, Commands, Logins!Names
  <2>5. Logins!AccountsUsable'
    BY <2>2 DEF Logins!AccountsUsable, Logins!Names, Logins!Kept
  <2>6. Logins!LoadsUnlessOut'
    BY <2>1, <2>2 DEF Logins!LoadsUnlessOut, Logins!Spoils
  <2>7. CommandWhole(p)' /\ CommandSound(p)'
    BY <2>1, <2>3 DEF CommandWhole, CommandSound, LoginSound, AgainSound, LogoutSound, Logins!Resting
  <2> QED
    BY <2>2, <2>3, <2>4, <2>5, <2>6, <2>7, OneForAll
<1>O. ASSUME NEW p \in Procs, Logins!Drops(p) PROVE AccountsInv'
  <2> DEFINE a == job[p].alias
  <2>1. /\ job[p].at = "drops" /\ a \in Aliases /\ job[p].cmd = "logout" /\ job[p].text = home
        /\ (job[p].at = "clears" => home.account[a] = None)
    BY <1>O DEF Logins!Drops, Logins!At, Logins!Holds, CommandWhole, CommandSound, LoginSound, AgainSound, LogoutSound, Logins!Resting
  <2>2. home' = [home EXCEPT !["account"][a] = None]
    BY <1>O, <2>1 DEF Logins!Drops, Logins!Writes, Logins!Mine
  <2>3. Logins!Goes(p, "clears")
    BY <1>O DEF Logins!Drops
  <2>4. /\ job' \in [Procs -> Commands] /\ job'[p].at = "clears"
        /\ job'[p].cmd = job[p].cmd /\ job'[p].alias = a /\ job'[p].text = None
    BY <2>3, CommandGoes DEF CommandPlaces
  <2>5. UNCHANGED <<login, project, secrets, trusts, wrote>> /\ out' = out \cup {a}
    BY <1>O DEF Logins!Drops, Logins!Mine
  <2>6. /\ home' \in HomeFiles /\ home'.devices = home.devices /\ home'.account[a] = None
        /\ \A b \in Aliases \ {a} : home'.account[b] = home.account[b]
    BY <2>1, <2>2, HomeWritten DEF Logins!AccountsTypeOK, HomeFiles
  <2>7. Logins!AccountsTypeOK'
    BY <2>1, <2>4, <2>5, <2>6 DEF Logins!AccountsTypeOK, Commands, HomeFiles, Logins!Names
  <2>8. Logins!AccountsUsable'
    <3>1. \A b \in Aliases : home'.account[b] # None => home'.account[b] = home.account[b] /\ b # a
      BY <2>5, <2>6
    <3>2. \A b \in Aliases : Logins!Names(b)' = Logins!Names(b)
      BY <2>5 DEF Logins!Names
    <3>3. \A b \in Aliases : \A m : b # a => (Logins!Kept(b, m)' <=> Logins!Kept(b, m))
      BY <2>5 DEF Logins!Kept
    <3> QED
      BY <2>5, <3>1, <3>2, <3>3 DEF Logins!AccountsUsable
  <2>9. Logins!LoadsUnlessOut'
    BY <2>1, <2>5, <2>6 DEF Logins!LoadsUnlessOut, Logins!Spoils
  <2>10. CommandWhole(p)' /\ CommandSound(p)'
    BY <2>1, <2>4, <2>6 DEF CommandWhole, CommandSound, LoginSound, AgainSound, LogoutSound, Logins!Resting
  <2> QED
    BY <2>4, <2>5, <2>7, <2>8, <2>9, <2>10, OneForAll
<1>P. ASSUME NEW p \in Procs, Logins!ClearsDevices(p) PROVE AccountsInv'
  <2> DEFINE a == job[p].alias
  <2>1. /\ job[p].at = "clears" /\ a \in Aliases /\ job[p].cmd = "logout" /\ job[p].text = home
        /\ (job[p].at = "clears" => home.account[a] = None)
    BY <1>P DEF Logins!ClearsDevices, Logins!At, Logins!Holds, CommandWhole, CommandSound, LoginSound, AgainSound, LogoutSound, Logins!Resting
  <2>2. home' = [home EXCEPT !["devices"][a] = None]
    BY <1>P, <2>1 DEF Logins!ClearsDevices, Logins!Writes, Logins!Mine
  <2>3. Logins!Goes(p, "forgets")
    BY <1>P DEF Logins!ClearsDevices
  <2>4. /\ job' \in [Procs -> Commands] /\ job'[p].at = "forgets"
        /\ job'[p].cmd = job[p].cmd /\ job'[p].alias = a /\ job'[p].text = None
    BY <2>3, CommandGoes DEF CommandPlaces
  <2>5. UNCHANGED <<login, project, secrets, trusts, wrote>> /\ out' = out
    BY <1>P DEF Logins!ClearsDevices, Logins!Mine
  <2>6. /\ home' \in HomeFiles /\ home'.account = home.account /\ home'.devices[a] = None
        /\ \A b \in Aliases \ {a} : home'.devices[b] = home.devices[b]
    BY <2>1, <2>2, HomeWritten DEF Logins!AccountsTypeOK, HomeFiles
  <2>7. Logins!AccountsTypeOK'
    BY <2>1, <2>4, <2>5, <2>6 DEF Logins!AccountsTypeOK, Commands, HomeFiles, Logins!Names
  <2>8. Logins!AccountsUsable'
    <3>1. /\ \A b : Logins!Names(b)' = Logins!Names(b)
          /\ \A b, m : Logins!Kept(b, m)' <=> Logins!Kept(b, m)
      BY <2>5, ReadySame
    <3> QED
      BY <2>5, <2>6, <3>1 DEF Logins!AccountsUsable
  <2>9. Logins!LoadsUnlessOut'
    BY <2>1, <2>5, <2>6 DEF Logins!LoadsUnlessOut, Logins!Spoils
  <2>10. CommandWhole(p)' /\ CommandSound(p)'
    BY <2>1, <2>4, <2>6 DEF CommandWhole, CommandSound, LoginSound, AgainSound, LogoutSound, Logins!Resting
  <2> QED
    BY <2>4, <2>5, <2>7, <2>8, <2>9, <2>10, OneForAll
<1>T. ASSUME NEW p \in Procs, Logins!Forgets(p) PROVE AccountsInv'
  <2> DEFINE a == job[p].alias
  <2>1. /\ job[p].at = "forgets" /\ a \in Aliases /\ home.account[a] = None /\ home.devices[a] = None
        /\ job[p].cmd = "logout"
    BY <1>T DEF Logins!Forgets, Logins!At, CommandWhole, CommandSound, LoginSound, AgainSound, LogoutSound, Logins!Resting
  <2>2. /\ Logins!Goes(p, "done") /\ secrets' = {s \in secrets : s[1] # a}
        /\ UNCHANGED <<login, home, project, trusts, out, wrote>>
    BY <1>T DEF Logins!Forgets, Logins!Mine
  <2>3. /\ job' \in [Procs -> Commands] /\ job'[p].at = "done"
        /\ job'[p].cmd = job[p].cmd /\ job'[p].alias = a /\ job'[p].text = None
    BY <2>2, CommandGoes DEF CommandPlaces
  <2>4. Logins!AccountsTypeOK'
    BY <2>2, <2>3 DEF Logins!AccountsTypeOK, Commands, Logins!Names
  <2>5. Logins!AccountsUsable'
    <3>1. \A b \in Aliases : home'.account[b] # None => home'.account[b] = home.account[b] /\ b # a
      BY <2>1, <2>2
    <3>2. \A b \in Aliases : Logins!Names(b)' = Logins!Names(b)
      BY <2>2 DEF Logins!Names
    <3>3. \A b \in Aliases : \A m : b # a => (Logins!Kept(b, m)' <=> Logins!Kept(b, m))
      BY <2>2 DEF Logins!Kept
    <3> QED
      BY <2>2, <3>1, <3>2, <3>3 DEF Logins!AccountsUsable
  <2>6. Logins!LoadsUnlessOut'
    BY <2>2 DEF Logins!LoadsUnlessOut, Logins!Spoils
  <2>7. CommandWhole(p)' /\ CommandSound(p)'
    BY <2>1, <2>2, <2>3 DEF CommandWhole, CommandSound, LoginSound, AgainSound, LogoutSound, Logins!Resting
  <2> QED
    BY <2>2, <2>3, <2>4, <2>5, <2>6, <2>7, OneForAll
<1> QED
  <2>1. ASSUME NEW p \in Procs, Logins!ShellFlow(p) \/ Logins!TunnelFlow(p) PROVE AccountsInv'
    <3>1. Logins!Is(p, Logins!ByKey) /\ Logins!KeyFlow(p)
      BY <2>1 DEF Logins!ShellFlow, Logins!TunnelFlow, Logins!Is, Logins!ByKey
    <3> QED
      BY <3>1, <1>K
  <2>2. ASSUME NEW p \in Procs, Logins!PasswordFlow(p) \/ Logins!EliceFlow(p) \/ Logins!KaggleFlow(p)
        PROVE  AccountsInv'
    <3>1. Logins!Is(p, {"password", "elice", "kaggle"}) /\ Logins!Checked(p)
      BY <2>2 DEF Logins!PasswordFlow, Logins!EliceFlow, Logins!KaggleFlow, Logins!Is
    <3> QED
      BY <3>1, <1>C
  <2> QED
    BY <2>1, <2>2, <1>1, <1>R, <1>A, <1>B, <1>L, <1>E, <1>F, <1>G, <1>H, <1>M, <1>S, <1>D, <1>W, <1>Y, <1>N, <1>O,
       <1>P, <1>T DEF Logins!AccountsNext

LEMMA AccountsKept ==
  ASSUME OneCommand, AccountsInv, [MCNext]_<<part, dataVars, outputVars, keepVars>>
  PROVE  AccountsInv'
<1>1. CASE Logins!AccountsNext
  BY <1>1, AccountsStep
<1>2. CASE UNCHANGED accountVars
  <2>1. UNCHANGED <<login, home, project, secrets, trusts, job, out, wrote>>
    BY <1>2 DEF accountVars
  <2>2. Logins!AccountsTypeOK' /\ Logins!AccountsUsable' /\ Logins!LoadsUnlessOut'
    BY <2>1, FilesSame DEF AccountsInv, Logins!AccountsTypeOK
  <2>3. Logins!CommandsWhole'
    BY <2>1 DEF AccountsInv, Logins!CommandsWhole, Logins!At, Logins!Mine, Logins!Is
  <2>4. \A p \in Procs : CommandSound(p)'
    BY <2>1, ReadySame DEF AccountsInv, CommandSound, LoginSound, AgainSound, LogoutSound, Logins!Kept
  <2> QED
    BY <2>1, <2>2, <2>3, <2>4 DEF AccountsInv
<1> QED
  BY <1>1, <1>2 DEF MCNext, keepVars, homeVars

-----------------------------------------------------------------------------
(* The data stream. *)

\* The digests are finitely many, and no transfer is taken for the absence of one.
Streams == IsFiniteSet(File) /\ None \notin [file : File, next : Nat]

LastPiece == IF route = "ranges" THEN Removes ELSE Final
Carried == [file : File, next : FirstPiece .. LastPiece]
Partials == {"none", "holes", "full", "other"}

FilesTypes ==
  /\ route \in {"pieces", "ranges", "bucket"}
  /\ blob \in [File -> {"none", "whole", "foreign"}]
  /\ partial \in [File -> Partials] /\ torn \in SUBSET File
  /\ edited \in SUBSET File /\ native \in SUBSET Native /\ hidden \in SUBSET File
  /\ phase \in [Session -> {"idle", "wave", "running", "over"}]
  /\ sender \in [Session -> {"off", "on", "failed", "done"}]
  /\ at \in [Session -> [File -> {"pending", "whole", "foreign", "spoiled"}]]
  /\ todo \in [Session -> Seq(SUBSET File)]
  /\ files \in [Session -> SUBSET File] /\ sent \in [Session -> SUBSET File] /\ open \in [Session -> SUBSET File]
  /\ shared \in [Session -> SUBSET File] /\ gone \in [Session -> SUBSET File]
  /\ queue \in [Session -> Seq(File)] /\ wants \in [Session -> Seq(File)]
  /\ fault \in [Session -> BOOLEAN] /\ DOMAIN snap = Session
  /\ flight \in [Session -> [Threads -> Carried \cup {None}]]

\* What a session keeps in each phase of its call:  links, listings and waits belong to a running
\* body, the queue and the sender to a call, and a first wave sends files of the call alone.
PhaseSound(s) ==
  /\ phase[s] # "running" => shared[s] = {} /\ snap[s] = None /\ \A f \in File : at[s][f] = "pending"
  /\ phase[s] = "idle" =>
       sent[s] = {} /\ queue[s] = <<>> /\ ~fault[s] /\ flight[s]["now"] = None /\ sender[s] = "off"
  /\ phase[s] = "wave" => (\A i \in 1 .. Len(queue[s]) : queue[s][i] \in files[s]) /\ sender[s] = "off"

\* A link is to a blob that holds what the path shows, and only a library spoils it.
LinkSound(s, f) ==
  /\ f \in shared[s] => /\ f \in files[s] /\ at[s][f] # "pending"
                        /\ blob[f] = IF at[s][f] = "whole" THEN "whole" ELSE "foreign"
  /\ at[s][f] = "spoiled" => f \in native

Queued(s, f) == f \notin sent[s] /\ \E i \in 1 .. Len(queue[s]) : queue[s][i] = f
Reached(s, f) ==
  \/ flight[s]["now"] # None /\ flight[s]["now"].file = f
  \/ fault[s] \/ f \in gone[s]

\* Where a file of a call is that the machine does not have yet.
Accounted(s, f) ==
  /\ phase[s] = "wave" /\ blob[f] = "none" => Reached(s, f) \/ Queued(s, f)
  /\ phase[s] = "running" /\ at[s][f] = "pending" =>
       Reached(s, f) \/ sender[s] = "failed" \/ (sender[s] = "on" /\ Queued(s, f))

ListSound(s) == snap[s] # None => snap[s] \subseteq files[s] /\ Pending(s) \subseteq snap[s]

\* A transfer that is about to rename its file has hashed it, and it still holds those bytes but
\* for a torn seal, if it is there at all.
SealSound ==
  Hashing => \A s \in Session, t \in Threads :
    flight[s][t] # None /\ flight[s][t].next = Renames =>
      flight[s][t].file \in torn \/ partial[flight[s][t].file] \in {"full", "none"}

FilesInv ==
  /\ FilesTypes /\ ReadsWhole /\ CacheSound /\ hidden \subseteq native
  /\ \A s \in Session : PhaseSound(s) /\ ListSound(s)
  /\ \A s \in Session, f \in File : LinkSound(s, f)
  /\ \A s \in Session : \A f \in files[s] : Accounted(s, f)

-----------------------------------------------------------------------------
LEMMA RangeOf ==
  ASSUME NEW S, NEW q \in Seq(S)
  PROVE  /\ \A i \in 1 .. Len(q) : q[i] \in S
         /\ Range(q) = {q[i] : i \in 1 .. Len(q)} /\ Range(q) \subseteq S
  BY DEF Range

\* Whatever order is predicted, every file is in it.
LEMMA PredictsAll ==
  ASSUME Streams, NEW fs \in SUBSET File, NEW q \in Predicted(fs)
  PROVE  /\ q \in Seq(File) /\ \A i \in 1 .. Len(q) : q[i] \in fs
         /\ \A f \in fs : \E i \in 1 .. Len(q) : q[i] = f
<1>1. IsFiniteSet(fs)
  BY FS_Subset DEF Streams
<1> DEFINE n == Cardinality(fs)
<1>2. n \in Nat
  BY <1>1, FS_CardinalityType
<1>3. q \in [1 .. n -> fs] /\ \A i, j \in 1 .. n : i # j => q[i] # q[j]
  BY DEF Predicted, SetToSeqs
<1>4. q \in Injection(1 .. n, fs)
  BY <1>3 DEF Injection, IsInjective
<1>5. IsFiniteSet(1 .. n) /\ Cardinality(1 .. n) = n
  BY <1>2, FS_Interval
<1>6. q \in Surjection(1 .. n, fs)
  BY <1>1, <1>4, <1>5, FS_Injection
<1>7. \A f \in fs : \E i \in 1 .. n : q[i] = f
  BY <1>6 DEF Surjection
<1>8. q \in Seq(fs) /\ Len(q) = n
  BY <1>2, <1>3
<1> QED
  BY <1>3, <1>7, <1>8

LEMMA FilesStart == ASSUME Streams, Init PROVE FilesInv
<1> USE DEF Init
<1>1. FilesTypes
  <2>1. todo \in [Session -> Seq(SUBSET File)]
    BY StreamAssumption DEF StreamAssumption
  <2>2. flight \in [Session -> [Threads -> Carried \cup {None}]]
    OBVIOUS
  <2>3. native \in SUBSET Native /\ queue \in [Session -> Seq(File)] /\ wants \in [Session -> Seq(File)]
    OBVIOUS
  <2> QED
    BY <2>1, <2>2, <2>3 DEF FilesTypes, Partials
<1>2. ReadsWhole /\ CacheSound /\ hidden \subseteq native
  BY DEF ReadsWhole, CacheSound, WroteThrough
<1>3. \A s \in Session : PhaseSound(s) /\ ListSound(s)
  BY DEF PhaseSound, ListSound, Threads
<1>4. \A s \in Session, f \in File : LinkSound(s, f)
  BY DEF LinkSound
<1> QED
  BY <1>1, <1>2, <1>3, <1>4 DEF FilesInv

LEMMA SealStart == ASSUME Init PROVE SealSound
  BY DEF Init, SealSound

\* With nothing it speaks of changed the invariant stays.
LEMMA FilesStill == ASSUME FilesInv, UNCHANGED vars PROVE FilesInv'
<1> USE DEF vars, setting, cache, stream, body
<1>1. FilesTypes'
  BY DEF FilesInv, FilesTypes, Carried, FirstPiece, LastPiece
<1>2. ReadsWhole' /\ CacheSound' /\ (hidden \subseteq native)'
  BY DEF FilesInv, ReadsWhole, CacheSound, WroteThrough
<1>3. \A s \in Session : PhaseSound(s)' /\ ListSound(s)'
  BY DEF FilesInv, PhaseSound, ListSound, Pending
<1>4. \A s \in Session, f \in File : LinkSound(s, f)'
  BY DEF FilesInv, LinkSound
<1>5. \A s \in Session : \A f \in files'[s] : Accounted(s, f)'
  BY DEF FilesInv, Accounted, Reached, Queued
<1> QED
  BY <1>1, <1>2, <1>3, <1>4, <1>5 DEF FilesInv


\* A call is prepared: every file of it that the machine lacks is queued.
LEMMA PrepareKeeps == ASSUME Streams, FilesInv, NEW s \in Session, Prepare(s) PROVE FilesInv'
<1> USE DEF Prepare, setting, cache, body
<1>1. PICK q \in Predicted({f \in Named(s) : blob[f] = "none"}) : queue' = [queue EXCEPT ![s] = q]
  OBVIOUS
<1>2. Named(s) \in SUBSET File /\ Tail(todo[s]) \in Seq(SUBSET File)
  BY DEF FilesInv, FilesTypes, Named
<1>3. /\ q \in Seq(File) /\ \A i \in 1 .. Len(q) : q[i] \in Named(s)
      /\ \A f \in Named(s) : blob[f] = "none" => \E i \in 1 .. Len(q) : q[i] = f
  <2> DEFINE lacks == {f \in Named(s) : blob[f] = "none"}
  <2>1. lacks \in SUBSET File
    BY <1>2
  <2>2. /\ q \in Seq(File) /\ \A i \in 1 .. Len(q) : q[i] \in lacks
        /\ \A f \in lacks : \E i \in 1 .. Len(q) : q[i] = f
    <3>1. q \in Predicted(lacks)
      OBVIOUS
    <3> HIDE DEF lacks
    <3> QED
      BY <2>1, <3>1, PredictsAll
  <2> QED
    BY <2>2
<1>4. FilesTypes'
  BY <1>1, <1>2, <1>3 DEF FilesInv, FilesTypes, Carried, FirstPiece, LastPiece
<1>5. ReadsWhole' /\ CacheSound' /\ (hidden \subseteq native)'
  BY DEF FilesInv, ReadsWhole, CacheSound, WroteThrough
<1>6. \A r \in Session : PhaseSound(r)' /\ ListSound(r)'
  BY <1>1, <1>3 DEF FilesInv, FilesTypes, PhaseSound, ListSound, Pending
<1>7. \A r \in Session, f \in File : LinkSound(r, f)'
  <2>1. shared[s] = {}
    BY DEF FilesInv, PhaseSound
  <2>2. files' = [files EXCEPT ![s] = Named(s)] /\ files \in [Session -> SUBSET File]
    BY DEF FilesInv, FilesTypes
  <2> QED
    BY <2>1, <2>2 DEF FilesInv, LinkSound
<1>8. \A r \in Session : \A f \in files'[r] : Accounted(r, f)'
  BY <1>1, <1>3 DEF FilesInv, FilesTypes, Accounted, Reached, Queued, PhaseSound
<1> QED
  BY <1>4, <1>5, <1>6, <1>7, <1>8 DEF FilesInv

\* The sender passes over what it has sent and what is asked for goes first, so only the file
\* it starts on leaves the line.
LEMMA TakeKeeps == ASSUME Streams, FilesInv, NEW s \in Session, Take(s) PROVE FilesInv'
<1> DEFINE line == Line(s)
<1>1. PICK i \in Unsent(s) : LET f == line[i] IN
       /\ \A j \in Unsent(s) : i <= j
       /\ sent' = [sent EXCEPT ![s] = @ \cup {f}]
       /\ queue' = [queue EXCEPT ![s] = SubSeq(line, i + 1, Len(line))]
       /\ IF f \in files[s]
          THEN flight' = [flight EXCEPT ![s]["now"] = Carrying(f, FirstPiece)] /\ UNCHANGED sender
          ELSE sender' = [sender EXCEPT ![s] = "failed"] /\ UNCHANGED flight
  BY DEF Take
<1>2. /\ flight[s]["now"] = None /\ (phase[s] = "wave" \/ sender[s] = "on")
      /\ wants' = [wants EXCEPT ![s] = IF phase[s] = "wave" THEN @ ELSE <<>>]
      /\ UNCHANGED <<setting, edited, phase, todo, files, gone, cache, fault, body>>
  BY DEF Take
<1> USE DEF setting, cache, body
<1>3. line \in Seq(File) /\ queue[s] \in Seq(File)
  BY DEF FilesInv, FilesTypes, Line, Asked
<1>4. i \in 1 .. Len(line) /\ line[i] \in File /\ SubSeq(line, i + 1, Len(line)) \in Seq(File)
  BY <1>3 DEF Unsent
<1>A. FirstPiece \in 0 .. 1
  BY DEF FirstPiece
<1>5. FilesTypes'
  <2>1. flight' \in [Session -> [Threads -> Carried \cup {None}]]
    <3>1. Carrying(line[i], FirstPiece) \in Carried
      BY <1>4, <1>A DEF Carrying, Carried, LastPiece, Final, Removes
    <3>2. flight \in [Session -> [Threads -> Carried \cup {None}]]
      BY DEF FilesInv, FilesTypes
    <3>3. flight' = [flight EXCEPT ![s]["now"] = Carrying(line[i], FirstPiece)] \/ flight' = flight
      BY <1>1
    <3> QED
      BY ONLY <3>1, <3>2, <3>3, s \in Session DEF Threads
  <2>2. sender' \in [Session -> {"off", "on", "failed", "done"}] /\ wants' \in [Session -> Seq(File)]
    <3>1. sender' = sender \/ sender' = [sender EXCEPT ![s] = "failed"]
      BY <1>1
    <3>2. wants' = wants \/ wants' = [wants EXCEPT ![s] = <<>>]
      BY <1>2 DEF FilesInv, FilesTypes
    <3>3. sender \in [Session -> {"off", "on", "failed", "done"}] /\ wants \in [Session -> Seq(File)] /\ <<>> \in Seq(File)
      BY DEF FilesInv, FilesTypes
    <3> QED
      BY ONLY <3>1, <3>2, <3>3, s \in Session
  <2>3. sent' \in [Session -> SUBSET File] /\ queue' \in [Session -> Seq(File)]
    BY <1>1, <1>4 DEF FilesInv, FilesTypes
  <2> QED
    BY <1>2, <2>1, <2>2, <2>3 DEF FilesInv, FilesTypes, Carried, FirstPiece, LastPiece
<1>6. ReadsWhole' /\ CacheSound' /\ (hidden \subseteq native)'
  BY <1>2 DEF FilesInv, ReadsWhole, CacheSound, WroteThrough
\* In the first wave the line is the queue, and what is left of it are files of the call.
<1>7. phase[s] = "wave" => line[i] \in files[s] /\ \A k \in 1 .. Len(queue'[s]) : queue'[s][k] \in files[s]
  <2>1. ASSUME phase[s] = "wave" PROVE line = queue[s] /\ \A k \in 1 .. Len(queue[s]) : queue[s][k] \in files[s]
    BY <1>3, <2>1 DEF Line, Asked, FilesInv, PhaseSound
  <2>2. queue'[s] = SubSeq(line, i + 1, Len(line))
    BY <1>1 DEF FilesInv, FilesTypes
  <2> HIDE DEF line
  <2> SUFFICES ASSUME phase[s] = "wave"
               PROVE line[i] \in files[s] /\ \A k \in 1 .. Len(queue'[s]) : queue'[s][k] \in files[s]
    OBVIOUS
  <2>3. \A k \in 1 .. Len(line) : line[k] \in files[s]
    BY <2>1
  <2>4. ASSUME NEW k \in 1 .. Len(queue'[s]) PROVE queue'[s][k] = line[i + k] /\ i + k \in 1 .. Len(line)
    BY <1>3, <1>4, <2>2
  <2> QED
    BY <1>4, <2>3, <2>4
<1>8. \A r \in Session : PhaseSound(r)' /\ ListSound(r)'
  <2>1. \A r \in Session : ListSound(r)'
    BY <1>2 DEF FilesInv, ListSound, Pending
  <2>2. phase[s] # "idle"
    BY <1>2 DEF FilesInv, PhaseSound
  <2>3. PhaseSound(s)'
    <3>1. PhaseSound(s)
      BY DEF FilesInv
    <3>2. phase[s] = "wave" => sender' = sender
      BY <1>1, <1>7
    <3> QED
      BY <1>2, <1>7, <2>2, <3>1, <3>2 DEF PhaseSound
  <2>4. ASSUME NEW r \in Session, r # s PROVE PhaseSound(r)'
    <3>1. queue'[r] = queue[r] /\ sent'[r] = sent[r] /\ flight'[r] = flight[r] /\ sender'[r] = sender[r]
      BY <1>1, <2>4 DEF FilesInv, FilesTypes
    <3> QED
      BY <1>2, <3>1 DEF FilesInv, PhaseSound
  <2> QED
    BY <2>1, <2>3, <2>4
<1>9. \A r \in Session, f \in File : LinkSound(r, f)'
  BY <1>2 DEF FilesInv, LinkSound
\* What waits in the queue behind the file taken still waits there.
<1>B. \A f \in File : Queued(s, f) => f = line[i] \/ Queued(s, f)'
  <2>1. SUFFICES ASSUME NEW f \in File, Queued(s, f), f # line[i] PROVE Queued(s, f)'
    OBVIOUS
  <2>2. PICK k \in 1 .. Len(queue[s]) : queue[s][k] = f
    BY <2>1 DEF Queued
  <2>3. PICK j \in 1 .. Len(line) : line[j] = f
    <3>1. Asked(s) \in Seq(File)
      BY DEF FilesInv, FilesTypes, Asked
    <3>2. Len(Asked(s)) + k \in 1 .. Len(line) /\ line[Len(Asked(s)) + k] = f
      BY <1>3, <2>2, <3>1 DEF Line
    <3> QED
      BY <3>2
  <2>4. j \in Unsent(s)
    BY <2>1, <2>3, <1>3 DEF Unsent, Queued
  <2>5. i < j
    BY <1>1, <1>4, <2>1, <2>3, <2>4
  <2>6. queue'[s] = SubSeq(line, i + 1, Len(line)) /\ sent'[s] = sent[s] \cup {line[i]}
    BY <1>1 DEF FilesInv, FilesTypes
  <2>7. j - i \in 1 .. Len(queue'[s]) /\ queue'[s][j - i] = f
    <3> HIDE DEF line
    <3>1. line \in Seq(File) /\ i \in 1 .. Len(line) /\ j \in 1 .. Len(line) /\ i < j
      BY <1>3, <1>4, <2>3, <2>4, <2>5 DEF Unsent
    <3>2. ASSUME NEW q \in Seq(File), NEW m \in 1 .. Len(q), NEW n \in 1 .. Len(q), m < n
          PROVE  n - m \in 1 .. Len(SubSeq(q, m + 1, Len(q))) /\ SubSeq(q, m + 1, Len(q))[n - m] = q[n]
      <4>1. Len(q) \in Nat /\ Len(SubSeq(q, m + 1, Len(q))) = Len(q) - m /\ n - m \in 1 .. Len(q) - m
        BY <3>2
      <4>2. \A l \in 1 .. Len(q) - m : SubSeq(q, m + 1, Len(q))[l] = q[m + l]
        BY <3>2
      <4>3. m + (n - m) = n
        OBVIOUS
      <4>4. SubSeq(q, m + 1, Len(q))[n - m] = q[m + (n - m)]
        BY <4>1, <4>2
      <4> QED
        BY <4>1, <4>3, <4>4
    <3>3. j - i \in 1 .. Len(SubSeq(line, i + 1, Len(line))) /\ SubSeq(line, i + 1, Len(line))[j - i] = line[j]
      BY <3>1, <3>2
    <3> QED
      BY <2>3, <2>6, <3>3
  <2> QED
    BY <2>1, <2>6, <2>7 DEF Queued
<1>C. \A r \in Session : \A f \in files'[r] : Accounted(r, f)'
  <2>1. ASSUME NEW r \in Session, r # s, NEW f \in files[r] PROVE Accounted(r, f)'
    <3>1. queue'[r] = queue[r] /\ sent'[r] = sent[r] /\ flight'[r] = flight[r] /\ sender'[r] = sender[r]
      BY <1>1, <2>1 DEF FilesInv, FilesTypes
    <3> QED
      BY <1>2, <3>1 DEF FilesInv, Accounted, Reached, Queued
  <2>2. ASSUME NEW f \in files[s] PROVE Accounted(s, f)'
    <3>1. f \in File
      BY DEF FilesInv, FilesTypes
    <3>2. Accounted(s, f) /\ PhaseSound(s)
      BY DEF FilesInv
    <3>3. CASE line[i] \in files[s]
      <4>1. flight'[s]["now"] = Carrying(line[i], FirstPiece) /\ sender' = sender
        BY <1>1, <3>3 DEF FilesInv, FilesTypes, Threads
      <4>2. flight'[s]["now"] # None /\ flight'[s]["now"].file = line[i]
        BY <4>1, <1>4, <1>A DEF Carrying, Streams, Final
      <4>3. f = line[i] => Reached(s, f)'
        BY <4>2 DEF Reached
      <4>4. Reached(s, f) => Reached(s, f)'
        BY <1>2 DEF Reached
      <4> QED
        BY <1>2, <1>B, <3>1, <3>2, <4>1, <4>3, <4>4 DEF Accounted
    <3>4. CASE line[i] \notin files[s]
      <4>1. phase[s] # "wave" /\ sender'[s] = "failed"
        BY <1>1, <1>7, <3>4 DEF FilesInv, FilesTypes
      <4> QED
        BY <1>2, <4>1 DEF Accounted
    <3> QED
      BY <3>3, <3>4
  <2> QED
    BY <1>2, <2>1, <2>2
<1> QED
  BY <1>5, <1>6, <1>8, <1>9, <1>C DEF FilesInv

\* With nothing left in line the sender is over, and no file of the call waits in it.
LEMMA ExhaustedKeeps == ASSUME Streams, FilesInv, NEW s \in Session, Exhausted(s) PROVE FilesInv'
<1> USE DEF Exhausted, setting, cache, body
<1>1. FilesTypes'
  BY DEF FilesInv, FilesTypes, Carried, FirstPiece, LastPiece
<1>2. ReadsWhole' /\ CacheSound' /\ (hidden \subseteq native)'
  BY DEF FilesInv, ReadsWhole, CacheSound, WroteThrough
<1>3. sender' = [sender EXCEPT ![s] = IF fault[s] THEN "failed" ELSE "done"] /\ sender \in [Session -> {"off", "on", "failed", "done"}]
  BY DEF FilesInv, FilesTypes
<1>4. \A r \in Session : PhaseSound(r)' /\ ListSound(r)'
  BY <1>3 DEF FilesInv, PhaseSound, ListSound, Pending
<1>5. \A r \in Session, f \in File : LinkSound(r, f)'
  BY DEF FilesInv, LinkSound
<1>6. \A f \in File : ~Queued(s, f)
  <2>1. Asked(s) \in Seq(File) /\ queue[s] \in Seq(File)
    BY DEF FilesInv, FilesTypes, Asked
  <2>2. ASSUME NEW k \in 1 .. Len(queue[s]) PROVE queue[s][k] \in sent[s]
    <3>1. Len(Asked(s)) + k \in 1 .. Len(Line(s)) /\ Line(s)[Len(Asked(s)) + k] = queue[s][k]
      BY <2>1 DEF Line
    <3> QED
      BY <3>1, <2>1 DEF Unsent, Line
  <2> QED
    BY <2>2 DEF Queued
<1>7. \A r \in Session : \A f \in files'[r] : Accounted(r, f)'
  <2>1. \A r \in Session : files[r] \subseteq File
    BY DEF FilesInv, FilesTypes
  <2>2. ASSUME NEW r \in Session, NEW f \in files[r] PROVE Accounted(r, f)'
    <3>1. Reached(r, f)' <=> Reached(r, f)
      BY DEF Reached
    <3>2. Queued(r, f)' <=> Queued(r, f)
      BY DEF Queued
    <3> QED
      BY <1>3, <1>6, <2>1, <3>1, <3>2 DEF FilesInv, Accounted
  <2> QED
    BY <2>2
<1> QED
  BY <1>1, <1>2, <1>4, <1>5, <1>7 DEF FilesInv


\* A refusal that is noticed ends the sender, or the call before its body began.
LEMMA NoticedKeeps == ASSUME Streams, FilesInv, NEW s \in Session, Noticed(s) PROVE FilesInv'
<1> USE DEF setting, cache, body
<1>1. /\ fault[s] /\ (phase[s] = "wave" \/ sender[s] = "on")
      /\ flight' = [flight EXCEPT ![s]["now"] = None]
      /\ UNCHANGED <<route, native, edited, todo, blob, partial, torn, open, hidden, wants, at, shared, snap>>
  BY DEF Noticed
<1>2. ~(phase[s] = "idle")
  BY <1>1 DEF FilesInv, PhaseSound
<1>3. flight' \in [Session -> [Threads -> Carried \cup {None}]] /\ flight'[s]["now"] = None
      /\ \A r \in Session \ {s} : flight'[r] = flight[r]
  BY <1>1 DEF FilesInv, FilesTypes, Threads
<1>4. ReadsWhole' /\ CacheSound' /\ (hidden \subseteq native)'
  BY <1>1 DEF FilesInv, ReadsWhole, CacheSound, WroteThrough
<1>5. CASE phase[s] = "wave"
  <2>1. Leave(s) /\ gone' = [gone EXCEPT ![s] = {}]
    BY <1>5 DEF Noticed
  <2>2. FilesTypes'
    BY <1>1, <1>3, <2>1 DEF FilesInv, FilesTypes, Carried, FirstPiece, LastPiece, Leave
  <2>3. \A r \in Session \ {s} : /\ phase'[r] = phase[r] /\ files'[r] = files[r] /\ queue'[r] = queue[r]
                                 /\ sent'[r] = sent[r] /\ sender'[r] = sender[r] /\ fault'[r] = fault[r]
                                 /\ gone'[r] = gone[r]
    BY <2>1 DEF FilesInv, FilesTypes, Leave
  <2>4. /\ phase'[s] = "idle" /\ files'[s] = {} /\ queue'[s] = <<>> /\ sent'[s] = {} /\ sender'[s] = "off"
        /\ ~fault'[s] /\ gone'[s] = {}
    BY <2>1 DEF FilesInv, FilesTypes, Leave
  <2>5. shared[s] = {} /\ snap[s] = None /\ \A f \in File : at[s][f] = "pending"
    BY <1>5 DEF FilesInv, PhaseSound
  <2>6. \A r \in Session : PhaseSound(r)'
    BY <1>1, <1>3, <2>3, <2>4, <2>5 DEF FilesInv, PhaseSound
  <2>7. \A r \in Session : ListSound(r)'
    BY <1>1, <2>3, <2>5 DEF FilesInv, ListSound, Pending
  <2>8. \A r \in Session, f \in File : LinkSound(r, f)'
    BY <1>1, <2>3, <2>5 DEF FilesInv, LinkSound
  <2>9. \A r \in Session : \A f \in files'[r] : Accounted(r, f)'
    BY <1>1, <1>3, <2>3, <2>4 DEF FilesInv, Accounted, Reached, Queued
  <2> QED
    BY <1>4, <2>2, <2>6, <2>7, <2>8, <2>9 DEF FilesInv
<1>6. CASE phase[s] # "wave"
  <2>1. sender' = [sender EXCEPT ![s] = "failed"] /\ UNCHANGED <<phase, files, gone, queue, sent, fault>>
    BY <1>6 DEF Noticed
  <2>2. FilesTypes'
    BY <1>1, <1>3, <2>1 DEF FilesInv, FilesTypes, Carried, FirstPiece, LastPiece
  <2>3. \A r \in Session : PhaseSound(r)' /\ ListSound(r)'
    BY <1>1, <1>2, <1>3, <1>6, <2>1 DEF FilesInv, FilesTypes, PhaseSound, ListSound, Pending
  <2>4. \A r \in Session, f \in File : LinkSound(r, f)'
    BY <1>1, <2>1 DEF FilesInv, LinkSound
  <2>5. \A r \in Session : \A f \in files'[r] : Accounted(r, f)'
    BY <1>1, <1>3, <1>6, <2>1 DEF FilesInv, FilesTypes, Accounted, Reached, Queued
  <2> QED
    BY <1>4, <2>2, <2>3, <2>4, <2>5 DEF FilesInv
<1> QED
  BY <1>5, <1>6

\* A question, a listing and a file the user saves move nothing the invariant speaks of.
LEMMA AsksKeeps == ASSUME FilesInv, NEW s \in Session, NEW f \in File, Asks(s, f) PROVE FilesInv'
<1> USE DEF Asks, setting, cache, body
<1>1. FilesTypes'
  BY DEF FilesInv, FilesTypes, Carried, FirstPiece, LastPiece
<1>2. ReadsWhole' /\ CacheSound' /\ (hidden \subseteq native)'
  BY DEF FilesInv, ReadsWhole, CacheSound, WroteThrough
<1>3. \A r \in Session : PhaseSound(r)' /\ ListSound(r)'
  BY DEF FilesInv, PhaseSound, ListSound, Pending
<1>4. \A r \in Session, g \in File : LinkSound(r, g)'
  BY DEF FilesInv, LinkSound
<1>5. \A r \in Session : \A g \in files'[r] : Accounted(r, g)'
  BY DEF FilesInv, Accounted, Reached, Queued
<1> QED
  BY <1>1, <1>2, <1>3, <1>4, <1>5 DEF FilesInv

LEMMA ListKeeps == ASSUME Streams, FilesInv, NEW s \in Session, ListBegin(s) \/ ListEnd(s) PROVE FilesInv'
<1> USE DEF ListBegin, ListEnd, setting, cache, body, stream
<1>1. FilesTypes'
  BY DEF FilesInv, FilesTypes, Carried, FirstPiece, LastPiece
<1>2. ReadsWhole' /\ CacheSound' /\ (hidden \subseteq native)'
  BY DEF FilesInv, ReadsWhole, CacheSound, WroteThrough
<1>3. \A r \in Session \ {s} : snap'[r] = snap[r]
  BY DEF FilesInv, FilesTypes
<1>4. phase[s] = "running" /\ (snap'[s] = None \/ snap'[s] = Pending(s))
  BY DEF FilesInv, FilesTypes, PhaseSound, Names
<1>5. \A r \in Session : PhaseSound(r)' /\ ListSound(r)'
  BY <1>3, <1>4 DEF FilesInv, PhaseSound, ListSound, Pending
<1>6. \A r \in Session, g \in File : LinkSound(r, g)'
  BY DEF FilesInv, LinkSound
<1>7. \A r \in Session : \A g \in files'[r] : Accounted(r, g)'
  BY DEF FilesInv, Accounted, Reached, Queued
<1> QED
  BY <1>1, <1>2, <1>5, <1>6, <1>7 DEF FilesInv

LEMMA EditKeeps == ASSUME FilesInv, NEW f \in File, Edit(f) PROVE FilesInv'
<1> USE DEF Edit, setting, cache, body, stream
<1>1. FilesTypes'
  BY DEF FilesInv, FilesTypes, Carried, FirstPiece, LastPiece
<1>2. ReadsWhole' /\ CacheSound' /\ (hidden \subseteq native)'
  BY DEF FilesInv, ReadsWhole, CacheSound, WroteThrough
<1>3. \A r \in Session : PhaseSound(r)' /\ ListSound(r)'
  BY DEF FilesInv, PhaseSound, ListSound, Pending
<1>4. \A r \in Session, g \in File : LinkSound(r, g)'
  BY DEF FilesInv, LinkSound
<1>5. \A r \in Session : \A g \in files'[r] : Accounted(r, g)'
  BY DEF FilesInv, Accounted, Reached, Queued
<1> QED
  BY <1>1, <1>2, <1>3, <1>4, <1>5 DEF FilesInv

\* A path that gets a copy of its own hides what a library wrote through the link.
LEMMA PrivateKeeps == ASSUME FilesInv, NEW s \in Session, NEW f \in File, Private(s, f) PROVE FilesInv'
<1> USE DEF Private, setting, stream
<1>1. FilesTypes'
  BY DEF FilesInv, FilesTypes, Carried, FirstPiece, LastPiece
<1>2. shared' = [shared EXCEPT ![s] = shared[s] \ {f}] /\ shared \in [Session -> SUBSET File]
  BY DEF FilesInv, FilesTypes
<1>3. hidden \subseteq hidden' /\ (at[s][f] = "spoiled" => f \in hidden') /\ hidden' \subseteq hidden \cup {f}
  OBVIOUS
<1>4. ReadsWhole' /\ (hidden \subseteq native)'
  BY DEF FilesInv, ReadsWhole, LinkSound
<1>5. CacheSound'
  BY <1>2, <1>3 DEF FilesInv, CacheSound, WroteThrough
<1>6. \A r \in Session : PhaseSound(r)' /\ ListSound(r)'
  BY <1>2 DEF FilesInv, PhaseSound, ListSound, Pending
<1>7. \A r \in Session, g \in File : LinkSound(r, g)'
  BY <1>2 DEF FilesInv, LinkSound
<1>8. \A r \in Session : \A g \in files'[r] : Accounted(r, g)'
  BY DEF FilesInv, Accounted, Reached, Queued
<1> QED
  BY <1>1, <1>4, <1>5, <1>6, <1>7, <1>8 DEF FilesInv

\* A library that writes into the link spoils it for every call that shares it.
LEMMA WriteThroughKeeps == ASSUME FilesInv, NEW s \in Session, NEW f \in File, WriteThrough(s, f) PROVE FilesInv'
<1> USE DEF WriteThrough, setting, stream
<1>1. FilesTypes'
  BY DEF FilesInv, FilesTypes, Carried, FirstPiece, LastPiece
<1>2. /\ blob' = [blob EXCEPT ![f] = "foreign"] /\ blob \in [File -> {"none", "whole", "foreign"}]
      /\ f \in native /\ f \in shared[s] /\ phase[s] = "running"
  BY DEF FilesInv, FilesTypes
<1>3. \A r \in Session, g \in File :
        at'[r][g] = IF g = f /\ f \in shared[r] THEN "spoiled" ELSE at[r][g]
  BY DEF FilesInv, FilesTypes
<1>4. ReadsWhole' /\ CacheSound' /\ (hidden \subseteq native)'
  BY <1>2, <1>3 DEF FilesInv, ReadsWhole, CacheSound, WroteThrough
<1>5. \A r \in Session : PhaseSound(r)'
  BY <1>2, <1>3 DEF FilesInv, PhaseSound
<1>6. \A r \in Session, g \in File : LinkSound(r, g)'
  BY <1>2, <1>3 DEF FilesInv, LinkSound
<1>7. \A r \in Session : \A g \in files[r] : at'[r][g] = "pending" <=> at[r][g] = "pending"
  BY <1>3 DEF FilesInv, FilesTypes, LinkSound
<1>8. \A r \in Session : ListSound(r)'
  BY <1>7 DEF FilesInv, ListSound, Pending
<1>9. \A r \in Session : \A g \in files'[r] : Accounted(r, g)'
  <2>1. \A r \in Session : \A g \in files[r] : blob'[g] = "none" => blob[g] = "none"
    BY <1>2 DEF FilesInv, FilesTypes
  <2> QED
    BY <1>7, <2>1 DEF FilesInv, Accounted, Reached, Queued
<1> QED
  BY <1>1, <1>4, <1>5, <1>6, <1>8, <1>9 DEF FilesInv


\* Who misses a blob that is removed is told so: it is among what the call lost.
LEMMA RemovedKeeps ==
  ASSUME FilesInv, NEW fs \in SUBSET File, Forget(fs), NEW r \in Session, NEW g \in files[r],
         gone'[r] = Lost(fs)[r], phase'[r] = phase[r], at'[r] = at[r], files'[r] = files[r], fault'[r] = fault[r],
         queue'[r] = queue[r], sent'[r] = sent[r], sender'[r] = sender[r], flight'[r]["now"] = flight[r]["now"]
  PROVE  Accounted(r, g)'
<1>1. g \in File /\ Accounted(r, g) /\ PhaseSound(r)
  BY DEF FilesInv, FilesTypes
<1>2. gone'[r] = gone[r] \cup (IF phase[r] = "over" THEN {} ELSE fs \cap Pending(r))
  BY DEF Lost
<1>3. Reached(r, g) => Reached(r, g)'
  BY <1>2 DEF Reached
<1>4. Queued(r, g) => Queued(r, g)'
  BY DEF Queued
<1>5. blob'[g] = IF g \in fs THEN "none" ELSE blob[g]
  BY <1>1 DEF Forget
<1>6. CASE phase[r] = "wave"
  <2>1. g \in fs => Reached(r, g)'
    BY <1>1, <1>2, <1>6 DEF Reached, Pending, PhaseSound
  <2> QED
    BY <1>1, <1>3, <1>4, <1>5, <1>6, <2>1 DEF Accounted
<1>7. CASE phase[r] # "wave"
  BY <1>1, <1>3, <1>4, <1>7 DEF Accounted
<1> QED
  BY <1>6, <1>7

LEMMA ClearKeeps == ASSUME Streams, FilesInv, Clear PROVE FilesInv'
<1> DEFINE free == {f \in File : blob[f] # "none" /\ ~Linked(f)}
<1>1. /\ Forget(free) /\ gone' = Lost(free) /\ free \in SUBSET File
      /\ UNCHANGED <<setting, edited, partial, torn, open, phase, todo, files, stream, at, snap>>
  BY DEF Clear
<1>2. \A f \in free, r \in Session : f \notin shared[r]
  BY DEF Linked
<1> HIDE DEF free
<1> USE DEF setting, stream
<1>3. /\ \A f \in File : blob'[f] = IF f \in free THEN "none" ELSE blob[f]
      /\ hidden' = hidden \ free /\ \A r \in Session : shared'[r] = shared[r]
  BY <1>1, <1>2 DEF Forget, FilesInv, FilesTypes
<1>4. FilesTypes'
  <2>1. blob' \in [File -> {"none", "whole", "foreign"}] /\ shared' \in [Session -> SUBSET File] /\ hidden' \in SUBSET File
    BY <1>1 DEF FilesInv, FilesTypes, Forget
  <2>2. gone' \in [Session -> SUBSET File]
    BY <1>1 DEF FilesInv, FilesTypes, Lost, Pending
  <2> QED
    BY <1>1, <2>1, <2>2 DEF FilesInv, FilesTypes, Carried, FirstPiece, LastPiece
<1>5. ReadsWhole' /\ CacheSound' /\ (hidden \subseteq native)'
  BY <1>1, <1>3 DEF FilesInv, ReadsWhole, CacheSound, WroteThrough
<1>6. \A r \in Session : PhaseSound(r)' /\ ListSound(r)'
  BY <1>1, <1>3 DEF FilesInv, PhaseSound, ListSound, Pending
<1>7. \A r \in Session, g \in File : LinkSound(r, g)'
  BY <1>1, <1>2, <1>3 DEF FilesInv, LinkSound
<1>8. \A r \in Session : \A g \in files'[r] : Accounted(r, g)'
  BY <1>1, RemovedKeeps
<1> QED
  BY <1>4, <1>5, <1>6, <1>7, <1>8 DEF FilesInv

\* The client's call is over: its links went with its body, and what is evicted is linked by nobody.
LEMMA FinishKeeps == ASSUME Streams, FilesInv, NEW s \in Session, Finish(s) PROVE FilesInv'
<1>1. PICK fs \in (IF sent[s] = {} THEN {{}} ELSE SUBSET Evictable(s)) :
        Forget(fs) /\ gone' = [Lost(fs) EXCEPT ![s] = {}]
  BY DEF Finish
<1>2. fs \in SUBSET File /\ \A f \in fs, r \in Session : f \notin shared[r]
  BY <1>1 DEF Evictable, Linked
<1>3. /\ phase[s] = "over" /\ Leave(s)
      /\ flight' = IF flight[s]["now"] = None THEN flight
                   ELSE [flight EXCEPT ![s] = [now |-> None, old |-> @.now]]
      /\ UNCHANGED <<route, native, edited, todo, partial, torn, open, wants, at, snap>>
  BY DEF Finish, setting
<1>4. /\ \A f \in File : blob'[f] = IF f \in fs THEN "none" ELSE blob[f]
      /\ hidden' = hidden \ fs /\ \A r \in Session : shared'[r] = shared[r]
  BY <1>1, <1>2 DEF Forget, FilesInv, FilesTypes
<1>5. flight' \in [Session -> [Threads -> Carried \cup {None}]] /\ flight'[s]["now"] = None
      /\ \A r \in Session \ {s} : flight'[r] = flight[r]
  <2>1. flight \in [Session -> [Threads -> Carried \cup {None}]]
    BY DEF FilesInv, FilesTypes
  <2>2. CASE flight[s]["now"] = None
    BY <1>3, <2>1, <2>2
  <2>3. CASE flight[s]["now"] # None
    <3>1. [now |-> None, old |-> flight[s].now] \in [Threads -> Carried \cup {None}]
      BY <2>1 DEF Threads
    <3>2. flight' = [flight EXCEPT ![s] = [now |-> None, old |-> flight[s].now]]
      BY <1>3, <2>3
    <3> QED
      BY <2>1, <3>1, <3>2
  <2> QED
    BY <2>2, <2>3
<1>6. \A r \in Session \ {s} : /\ phase'[r] = phase[r] /\ files'[r] = files[r] /\ queue'[r] = queue[r]
                               /\ sent'[r] = sent[r] /\ sender'[r] = sender[r] /\ fault'[r] = fault[r]
                               /\ gone'[r] = Lost(fs)[r]
  BY <1>1, <1>3 DEF FilesInv, FilesTypes, Leave, Lost
<1>7. /\ phase'[s] = "idle" /\ files'[s] = {} /\ queue'[s] = <<>> /\ sent'[s] = {} /\ sender'[s] = "off"
      /\ ~fault'[s] /\ gone'[s] = {}
  BY <1>1, <1>3 DEF FilesInv, FilesTypes, Leave, Lost
<1>8. FilesTypes'
  <2>1. blob' \in [File -> {"none", "whole", "foreign"}] /\ shared' \in [Session -> SUBSET File] /\ hidden' \in SUBSET File
    BY <1>1, <1>2 DEF FilesInv, FilesTypes, Forget
  <2>2. gone' \in [Session -> SUBSET File]
    BY <1>1, <1>2 DEF FilesInv, FilesTypes, Lost, Pending
  <2>3. /\ phase' \in [Session -> {"idle", "wave", "running", "over"}]
        /\ sender' \in [Session -> {"off", "on", "failed", "done"}]
        /\ files' \in [Session -> SUBSET File] /\ sent' \in [Session -> SUBSET File]
        /\ queue' \in [Session -> Seq(File)] /\ fault' \in [Session -> BOOLEAN]
    BY <1>3 DEF FilesInv, FilesTypes, Leave
  <2>4. Carried' = Carried
    BY <1>3 DEF Carried, FirstPiece, LastPiece
  <2> QED
    BY <1>3, <1>5, <2>1, <2>2, <2>3, <2>4 DEF FilesInv, FilesTypes
<1>9. ReadsWhole' /\ CacheSound' /\ (hidden \subseteq native)'
  BY <1>3, <1>4 DEF FilesInv, ReadsWhole, CacheSound, WroteThrough
<1>A. shared[s] = {} /\ snap[s] = None /\ \A f \in File : at[s][f] = "pending"
  BY <1>3 DEF FilesInv, PhaseSound
<1>B. \A r \in Session : PhaseSound(r)' /\ ListSound(r)'
  <2>1. PhaseSound(s)' /\ ListSound(s)'
    BY <1>3, <1>4, <1>5, <1>7, <1>A DEF PhaseSound, ListSound
  <2>2. \A r \in Session \ {s} : PhaseSound(r)' /\ ListSound(r)'
    BY <1>3, <1>4, <1>5, <1>6 DEF FilesInv, PhaseSound, ListSound, Pending
  <2> QED
    BY <2>1, <2>2
<1>C. \A r \in Session, g \in File : LinkSound(r, g)'
  BY <1>2, <1>3, <1>4, <1>6, <1>A DEF FilesInv, LinkSound
<1>D. \A r \in Session : \A g \in files'[r] : Accounted(r, g)'
  <2>1. \A g \in files'[s] : Accounted(s, g)'
    BY <1>7
  <2>2. ASSUME NEW r \in Session \ {s}, NEW g \in files'[r] PROVE Accounted(r, g)'
    BY <1>1, <1>2, <1>3, <1>5, <1>6, RemovedKeeps
  <2> QED
    BY <2>1, <2>2
<1> QED
  BY <1>8, <1>9, <1>B, <1>C, <1>D DEF FilesInv

\* The body is over: what was written through its links is dropped, and whoever shared it keeps
\* the bytes without the name.
LEMMA ReturnKeeps == ASSUME Streams, FilesInv, NEW s \in Session, Return(s) PROVE FilesInv'
<1> DEFINE bad == Tampered(s)
<1>1. /\ phase[s] = "running" /\ snap' = [snap EXCEPT ![s] = None]
      /\ blob' = [f \in File |-> IF f \in bad THEN "none" ELSE blob[f]]
      /\ shared' = [r \in Session |-> IF r = s THEN {} ELSE shared[r] \ bad]
      /\ hidden' = hidden \ bad /\ gone' = [Lost(bad) EXCEPT ![s] = {}]
      /\ at' = [at EXCEPT ![s] = [f \in File |-> "pending"]]
      /\ phase' = [phase EXCEPT ![s] = "over"]
      /\ UNCHANGED <<setting, edited, todo, files, partial, torn, open, stream>>
  BY DEF Return
<1>2. bad \in SUBSET File /\ \A f \in bad : f \in shared[s] /\ at[s][f] = "spoiled"
  BY DEF Tampered, FilesInv, FilesTypes
<1>3. \A f \in shared[s] : at[s][f] = "spoiled" => f \in bad
  BY DEF Tampered
<1> HIDE DEF bad
<1> USE DEF setting, stream
<1>4. \A r \in Session \ {s} : at'[r] = at[r] /\ phase'[r] = phase[r] /\ snap'[r] = snap[r]
                               /\ shared'[r] = shared[r] \ bad /\ gone'[r] = Lost(bad)[r]
  BY <1>1 DEF FilesInv, FilesTypes, Lost
<1>5. shared'[s] = {} /\ snap'[s] = None /\ phase'[s] = "over" /\ \A f \in File : at'[s][f] = "pending"
  BY <1>1 DEF FilesInv, FilesTypes
<1>6. FilesTypes'
  <2>1. blob' \in [File -> {"none", "whole", "foreign"}] /\ shared' \in [Session -> SUBSET File] /\ hidden' \in SUBSET File
    BY <1>1, <1>2 DEF FilesInv, FilesTypes
  <2>2. gone' \in [Session -> SUBSET File]
    BY <1>1, <1>2 DEF FilesInv, FilesTypes, Lost, Pending
  <2>3. at' \in [Session -> [File -> {"pending", "whole", "foreign", "spoiled"}]]
    BY <1>1 DEF FilesInv, FilesTypes
  <2> QED
    BY <1>1, <2>1, <2>2, <2>3 DEF FilesInv, FilesTypes, Carried, FirstPiece, LastPiece
<1>7. ReadsWhole' /\ (hidden \subseteq native)'
  BY <1>1, <1>4, <1>5 DEF FilesInv, ReadsWhole
<1>8. CacheSound'
  <2>1. SUFFICES ASSUME Hashing, NEW f \in File, blob'[f] = "foreign"
                 PROVE  f \in hidden' \cup torn \/ \E r \in Session : f \in shared'[r] /\ at'[r][f] = "spoiled"
    BY <1>1 DEF CacheSound, WroteThrough
  <2>2. f \notin bad /\ blob[f] = "foreign"
    BY <1>1, <2>1
  <2>3. CASE f \in hidden
    BY <1>1, <2>2, <2>3
  <2>4. ASSUME NEW r \in Session, f \in shared[r], at[r][f] = "spoiled"
        PROVE  \E o \in Session : f \in shared'[o] /\ at'[o][f] = "spoiled"
    BY <1>3, <1>4, <2>2, <2>4
  <2> QED
    BY <2>1, <2>2, <2>3, <2>4 DEF FilesInv, CacheSound, WroteThrough
<1>9. \A r \in Session : PhaseSound(r)' /\ ListSound(r)'
  <2>1. PhaseSound(s)' /\ ListSound(s)'
    BY <1>1, <1>5 DEF PhaseSound, ListSound
  <2>2. \A r \in Session \ {s} : PhaseSound(r)' /\ ListSound(r)'
    BY <1>1, <1>4 DEF FilesInv, PhaseSound, ListSound, Pending
  <2> QED
    BY <2>1, <2>2
<1>A. \A r \in Session, g \in File : LinkSound(r, g)'
  <2>1. \A g \in File : LinkSound(s, g)'
    BY <1>5 DEF LinkSound
  <2>2. \A r \in Session \ {s}, g \in File : LinkSound(r, g)'
    BY <1>1, <1>4 DEF FilesInv, LinkSound
  <2> QED
    BY <2>1, <2>2
<1>B. \A r \in Session : \A g \in files'[r] : Accounted(r, g)'
  <2>1. \A g \in files'[s] : Accounted(s, g)'
    BY <1>5 DEF Accounted
  <2>2. ASSUME NEW r \in Session \ {s}, NEW g \in files'[r] PROVE Accounted(r, g)'
    <3>1. g \in File /\ Accounted(r, g) /\ PhaseSound(r)
      BY <1>1 DEF FilesInv, FilesTypes
    <3>2. gone'[r] = gone[r] \cup (IF phase[r] = "over" THEN {} ELSE bad \cap Pending(r))
      BY <1>4 DEF Lost
    <3>3. Reached(r, g) => Reached(r, g)'
      BY <1>1, <3>2 DEF Reached
    <3>4. Queued(r, g) => Queued(r, g)'
      BY <1>1 DEF Queued
    <3>5. phase[r] = "wave" /\ g \in bad => Reached(r, g)'
      BY <1>1, <3>1, <3>2 DEF Reached, Pending, PhaseSound
    <3> QED
      BY <1>1, <1>4, <3>1, <3>3, <3>4, <3>5 DEF Accounted
  <2> QED
    BY <2>1, <2>2
<1> QED
  BY <1>6, <1>7, <1>8, <1>9, <1>A, <1>B DEF FilesInv


\* The call goes out: what is placed at once is what the cache holds, and whatever it holds of a
\* file no library writes to is whole.
LEMMA BeginKeeps == ASSUME Streams, FilesInv, NEW s \in Session, BeginCall(s) PROVE FilesInv'
<1> DEFINE here == {f \in files[s] : blob[f] # "none"}
<1>1. /\ phase[s] = "wave" /\ flight[s]["now"] = None /\ ~fault[s]
      /\ at' = [at EXCEPT ![s] = [f \in File |-> IF f \in here THEN blob[f] ELSE "pending"]]
      /\ shared' = [shared EXCEPT ![s] = here]
      /\ phase' = [phase EXCEPT ![s] = "running"]
      /\ gone' = [gone EXCEPT ![s] = gone[s] \cap {f \in File : blob[f] = "none"}]
      /\ sender' = [sender EXCEPT ![s] = IF queue[s] = <<>> /\ sent[s] = {} THEN "off" ELSE "on"]
      /\ UNCHANGED <<setting, edited, todo, files, blob, partial, torn, open, hidden, queue, sent,
                     flight, wants, fault, snap>>
  BY DEF BeginCall, FilesInv, FilesTypes
<1> USE DEF setting
<1>2. \A r \in Session \ {s} : at'[r] = at[r] /\ shared'[r] = shared[r] /\ phase'[r] = phase[r] /\ gone'[r] = gone[r]
                               /\ sender'[r] = sender[r]
  BY <1>1 DEF FilesInv, FilesTypes
<1>3. /\ \A f \in File : at'[s][f] = IF f \in here THEN blob[f] ELSE "pending"
      /\ shared'[s] = here /\ phase'[s] = "running" /\ gone'[s] = gone[s] \cap {f \in File : blob[f] = "none"}
      /\ sender'[s] = IF queue[s] = <<>> /\ sent[s] = {} THEN "off" ELSE "on"
  BY <1>1 DEF FilesInv, FilesTypes
<1>4. here \in SUBSET File
  BY DEF FilesInv, FilesTypes
<1>5. FilesTypes'
  <2>1. at' \in [Session -> [File -> {"pending", "whole", "foreign", "spoiled"}]]
    BY <1>1 DEF FilesInv, FilesTypes
  <2>2. shared' \in [Session -> SUBSET File] /\ gone' \in [Session -> SUBSET File]
    BY <1>1, <1>4 DEF FilesInv, FilesTypes
  <2>3. phase' \in [Session -> {"idle", "wave", "running", "over"}] /\ sender' \in [Session -> {"off", "on", "failed", "done"}]
    BY <1>1 DEF FilesInv, FilesTypes
  <2> QED
    BY <1>1, <2>1, <2>2, <2>3 DEF FilesInv, FilesTypes, Carried, FirstPiece, LastPiece
<1>6. shared[s] = {} /\ snap[s] = None
  BY <1>1 DEF FilesInv, PhaseSound
<1>7. \A f \in File : Hashing /\ blob[f] = "foreign" => f \in native \cup torn
  BY DEF FilesInv, CacheSound, WroteThrough, LinkSound
<1>8. ReadsWhole' /\ CacheSound' /\ (hidden \subseteq native)'
  <2>1. ReadsWhole'
    BY <1>1, <1>2, <1>3, <1>7 DEF FilesInv, FilesTypes, ReadsWhole
  <2>2. CacheSound'
    BY <1>1, <1>2, <1>6 DEF FilesInv, CacheSound, WroteThrough
  <2> QED
    BY <1>1, <2>1, <2>2 DEF FilesInv
<1>9. \A r \in Session : PhaseSound(r)' /\ ListSound(r)'
  <2>1. PhaseSound(s)' /\ ListSound(s)'
    BY <1>1, <1>3, <1>6 DEF PhaseSound, ListSound
  <2>2. \A r \in Session \ {s} : PhaseSound(r)' /\ ListSound(r)'
    BY <1>1, <1>2 DEF FilesInv, PhaseSound, ListSound, Pending
  <2> QED
    BY <2>1, <2>2
<1>A. \A r \in Session, g \in File : LinkSound(r, g)'
  <2>1. \A g \in File : LinkSound(s, g)'
    BY <1>1, <1>3 DEF LinkSound, FilesInv, FilesTypes
  <2>2. \A r \in Session \ {s}, g \in File : LinkSound(r, g)'
    BY <1>1, <1>2 DEF FilesInv, LinkSound
  <2> QED
    BY <2>1, <2>2
<1>B. \A r \in Session : \A g \in files'[r] : Accounted(r, g)'
  <2>1. ASSUME NEW g \in files[s] PROVE Accounted(s, g)'
    <3>1. g \in File /\ Accounted(s, g)
      BY DEF FilesInv, FilesTypes
    <3>2. CASE blob[g] # "none"
      BY <1>3, <3>1, <3>2 DEF Accounted, FilesInv, FilesTypes
    <3>3. CASE blob[g] = "none"
      <4>1. Reached(s, g) => Reached(s, g)'
        BY <1>1, <1>3, <3>1, <3>3 DEF Reached
      <4>2. Queued(s, g) => Queued(s, g)' /\ sender'[s] = "on"
        BY <1>1, <1>3 DEF Queued
      <4> QED
        BY <1>1, <1>3, <3>1, <3>3, <4>1, <4>2 DEF Accounted
    <3> QED
      BY <3>2, <3>3
  <2>2. \A r \in Session \ {s} : \A g \in files[r] : Accounted(r, g)'
    BY <1>1, <1>2 DEF FilesInv, Accounted, Reached, Queued
  <2> QED
    BY <1>1, <2>1, <2>2
<1> QED
  BY <1>5, <1>8, <1>9, <1>A, <1>B DEF FilesInv

-----------------------------------------------------------------------------
\* What becomes of a piece: it is refused, its blob arrives, or the transfer goes on.  Where the
\* digest can be checked only the right bytes arrive, or those of a torn seal.
Arrived(s, f) ==
  \E bytes \in {"whole", "foreign"} :
    (Hashing => bytes = "whole" \/ f \in torn) /\ Arrives(s, f, bytes) /\ UNCHANGED fault
Proceeds(s, t) == UNCHANGED <<fault, blob, hidden, gone, at, shared>> /\ \E n \in Nat : MovesTo(s, t, n)

\* A piece moves one transfer alone; one that ends leaves its sender free.
LEMMA PieceMoves ==
  ASSUME Streams, FilesInv, NEW s \in Session, NEW t \in Threads, Piece(s, t)
  PROVE  /\ flight' \in [Session -> [Threads -> Carried \cup {None}]]
         /\ \A r \in Session, o \in Threads : r # s \/ o # t => flight'[r][o] = flight[r][o]
         /\ flight[s][t] # None /\ flight[s][t] \in Carried /\ flight[s][t].file \in File
         /\ \/ flight'[s][t] = None
            \/ flight'[s][t] # None /\ flight'[s][t].file = flight[s][t].file
         /\ \A n \in Nat : MovesTo(s, t, n) => flight'[s][t] # None
         /\ UNCHANGED <<route, native, edited, phase, todo, files, queue, sent, sender, wants, snap>>
<1>1. flight \in [Session -> [Threads -> Carried \cup {None}]] /\ flight[s][t] \in Carried /\ flight[s][t] # None
      /\ flight[s][t].file \in File /\ flight[s][t].next \in FirstPiece .. LastPiece
  BY DEF Piece, FilesInv, FilesTypes, Carried
<1>2. FirstPiece \in 0 .. 1 /\ LastPiece \in {Final, Removes} /\ \A f \in File, n \in Nat : Carrying(f, n) # None
  BY DEF FirstPiece, LastPiece, Streams, Carrying
<1>3. UNCHANGED <<route, native, edited, phase, todo, files, queue, sent, sender, wants, snap>>
  BY DEF Piece, setting
<1>4. IsDone(s, t) \/ \E n \in FirstPiece .. LastPiece : MovesTo(s, t, n)
  <2>1. CASE Put(s, t)
    <3>1. FirstPiece = 1 /\ LastPiece = Final
      BY <2>1 DEF Put, FirstPiece, LastPiece
    <3> QED
      BY <1>1, <2>1, <3>1 DEF Put, Final
  <2>2. CASE PutAt(s, t)
    <3>1. FirstPiece = 0 /\ LastPiece = Removes
      BY <2>2 DEF PutAt, FirstPiece, LastPiece
    <3> QED
      BY <2>2, <3>1 DEF PutAt, BeginsAt, FillsAt, HashesAt, RenamesAt, FailsAt, Renames, Removes
  <2>3. CASE Pull(s, t)
    BY <2>3 DEF Pull
  <2> QED
    BY <2>1, <2>2, <2>3 DEF Piece
<1>5. ASSUME NEW n \in Nat, MovesTo(s, t, n)
      PROVE  flight' = [flight EXCEPT ![s][t] = Carrying(flight[s][t].file, n)]
             /\ flight'[s][t] = Carrying(flight[s][t].file, n) /\ flight'[s][t] # None
  BY <1>1, <1>2, <1>5 DEF MovesTo
<1>6. CASE IsDone(s, t)
  <2>1. flight' = [flight EXCEPT ![s][t] = None]
    BY <1>6 DEF IsDone
  <2> QED
    BY <1>1, <1>3, <1>5, <2>1
<1>7. ASSUME NEW n \in FirstPiece .. LastPiece, MovesTo(s, t, n)
      PROVE  /\ flight' \in [Session -> [Threads -> Carried \cup {None}]]
             /\ \A r \in Session, o \in Threads : r # s \/ o # t => flight'[r][o] = flight[r][o]
             /\ flight'[s][t] # None /\ flight'[s][t].file = flight[s][t].file
  <2> DEFINE c == Carrying(flight[s][t].file, n)
  <2>1. n \in Nat
    BY <1>2 DEF Final, Removes
  <2>2. c \in Carried /\ c.file = flight[s][t].file
    BY <1>1 DEF Carried, Carrying
  <2>3. flight' = [flight EXCEPT ![s][t] = c] /\ flight'[s][t] = c /\ flight'[s][t] # None
    BY <1>5, <1>7, <2>1
  <2> HIDE DEF c
  <2> QED
    BY <1>1, <2>2, <2>3
<1> QED
  BY <1>1, <1>3, <1>4, <1>5, <1>6, <1>7

LEMMA PieceEnds ==
  ASSUME Streams, FilesInv, SealSound, NEW s \in Session, NEW t \in Threads, Piece(s, t)
  PROVE  /\ Refuse(s, t) \/ Arrived(s, flight[s][t].file) \/ Proceeds(s, t)
         /\ open' \in [Session -> SUBSET File] /\ partial' \in [File -> Partials]
         /\ torn' \in SUBSET File /\ torn \subseteq torn'
<1> DEFINE f == flight[s][t].file  n == flight[s][t].next
<1>1. flight[s][t] \in Carried /\ f \in File /\ n \in FirstPiece .. LastPiece
  BY DEF Piece, FilesInv, FilesTypes, Carried
<1>2. ASSUME Commit(s, t, f, Kind(f)) PROVE Refuse(s, t) \/ Arrived(s, f)
  <2>1. Kind(f) \in {"whole", "foreign"}
    BY DEF Kind
  <2> QED
    BY <1>2, <2>1 DEF Commit, Arrived
<1>3. open \in [Session -> SUBSET File] /\ partial \in [File -> Partials] /\ torn \in SUBSET File
  BY DEF FilesInv, FilesTypes
<1>4. \A bytes \in {"holes", "full", "other"} :
        Overwrites(f, bytes) => partial' \in [File -> Partials] /\ torn' \in SUBSET File /\ torn \subseteq torn'
  BY <1>1, <1>3 DEF Overwrites, Partials
<1>5. [partial EXCEPT ![f] = "none"] \in [File -> Partials]
  BY <1>1, <1>3 DEF Partials
<1>6. FirstPiece \in 0 .. 1 /\ LastPiece \in {Final, Removes} /\ n \in Nat
  BY <1>1 DEF FirstPiece, LastPiece, Final, Removes
<1> HIDE DEF f, n
<1>7. CASE Put(s, t)
  <2>1. /\ route = "pieces" /\ UNCHANGED <<partial, torn>>
        /\ open' = [open EXCEPT ![s] = IF n = 1 THEN open[s] \cup {f} ELSE open[s] \ {f}]
        /\ \/ Refuse(s, t)
           \/ Commit(s, t, f, Kind(f))
           \/ UNCHANGED <<fault, blob, hidden, gone, at, shared>> /\ (n = 1 \/ f \in open[s]) /\ ~(n = Final /\ f \in open[s])
        /\ n = Final \/ MovesTo(s, t, n + 1)
    BY <1>3, <1>7 DEF Put, f, n
  <2>2. open' \in [Session -> SUBSET File]
    BY <1>1, <1>3, <2>1
  <2>3. (n = 1 \/ f \in open[s]) /\ ~(n = Final /\ f \in open[s]) => n # Final
    BY <1>6 DEF Final
  <2>4. n + 1 \in Nat
    BY <1>6
  <2> QED
    BY <1>2, <1>3, <2>1, <2>2, <2>3, <2>4 DEF f, Proceeds
<1>8. CASE PutAt(s, t)
  <2>1. open' = open /\ (BeginsAt(s, t, f) \/ FillsAt(s, t, f) \/ HashesAt(s, t, f) \/ RenamesAt(s, t, f) \/ FailsAt(s, t, f))
    BY <1>8 DEF PutAt, f
  <2>2. CASE BeginsAt(s, t, f)
    BY <1>3, <1>4, <2>1, <2>2 DEF BeginsAt, Proceeds
  <2>3. CASE FillsAt(s, t, f)
    BY <1>3, <1>4, <2>1, <2>3 DEF FillsAt, Proceeds
  <2>4. CASE HashesAt(s, t, f)
    BY <1>3, <2>1, <2>4 DEF HashesAt, Proceeds, Renames, Removes
  <2>5. CASE RenamesAt(s, t, f)
    <3> DEFINE bytes == IF partial[f] = "full" THEN "whole" ELSE "foreign"
    <3>1. flight[s][t].next = Renames /\ partial[f] # "none" /\ Arrives(s, f, bytes) /\ fault' = fault /\ torn' = torn
          /\ partial' = [partial EXCEPT ![f] = "none"]
      BY <2>5 DEF RenamesAt
    <3>2. bytes \in {"whole", "foreign"} /\ (Hashing => bytes = "whole" \/ f \in torn)
      BY <3>1 DEF SealSound, Piece, f
    <3>3. Arrived(s, f)
      BY <3>1, <3>2 DEF Arrived
    <3> QED
      BY <1>3, <1>5, <2>1, <3>1, <3>3 DEF f
  <2>6. CASE FailsAt(s, t, f)
    BY <1>3, <1>5, <2>1, <2>6 DEF FailsAt
  <2> QED
    BY <2>1, <2>2, <2>3, <2>4, <2>5, <2>6
<1>9. CASE Pull(s, t)
  <2>1. (Refuse(s, t) \/ Commit(s, t, f, Kind(f))) /\ UNCHANGED <<open, partial, torn>>
    BY <1>9 DEF Pull, f
  <2> QED
    BY <1>2, <1>3, <2>1 DEF f
<1> QED
  BY <1>7, <1>8, <1>9 DEF Piece


\* With blobs and paths as they were, more torn seals spoil nothing.
LEMMA TornKeeps ==
  ASSUME FilesInv, UNCHANGED <<native, blob, hidden, at, shared>>, torn \subseteq torn'
  PROVE  ReadsWhole' /\ CacheSound' /\ (hidden \subseteq native)'
<1>1. ReadsWhole'
  BY DEF FilesInv, ReadsWhole
<1>2. CacheSound'
  BY DEF FilesInv, CacheSound, WroteThrough
<1> QED
  BY <1>1, <1>2 DEF FilesInv

\* A refusal reaches the call it is for, which answers for whatever was in flight.
LEMMA PieceRefused ==
  ASSUME Streams, FilesInv, SealSound, NEW s \in Session, NEW t \in Threads, Piece(s, t), Refuse(s, t)
  PROVE  FilesInv'
<1>1. /\ fault' = [fault EXCEPT ![s] = fault[s] \/ t = "now"] /\ UNCHANGED <<blob, hidden, gone, at, shared>>
      /\ UNCHANGED <<route, native, edited, phase, todo, files, queue, sent, sender, wants, snap>>
  BY PieceMoves DEF Refuse
<1>2. fault' \in [Session -> BOOLEAN] /\ \A r \in Session : fault[r] => fault'[r]
  BY <1>1 DEF FilesInv, FilesTypes
<1>3. \A r \in Session \ {s} : fault'[r] = fault[r] /\ flight'[r]["now"] = flight[r]["now"]
  BY <1>1, PieceMoves DEF FilesInv, FilesTypes, Threads
<1>4. t = "now" => fault'[s]
  BY <1>1 DEF FilesInv, FilesTypes
<1>5. t # "now" => flight'[s]["now"] = flight[s]["now"] /\ fault'[s] = fault[s]
  BY <1>1, PieceMoves DEF FilesInv, FilesTypes, Threads
<1>6. FilesTypes'
  BY <1>1, <1>2, PieceMoves, PieceEnds DEF FilesInv, FilesTypes, Carried, FirstPiece, LastPiece
<1>7. ReadsWhole' /\ CacheSound' /\ (hidden \subseteq native)'
  BY <1>1, PieceEnds, TornKeeps
<1>8. \A r \in Session : PhaseSound(r)' /\ ListSound(r)'
  <2>1. t = "now" => phase[s] # "idle"
    BY PieceMoves DEF FilesInv, PhaseSound
  <2> QED
    BY <1>1, <1>3, <1>5, <2>1 DEF FilesInv, PhaseSound, ListSound, Pending
<1>9. \A r \in Session, g \in File : LinkSound(r, g)'
  BY <1>1 DEF FilesInv, LinkSound
<1>A. \A r \in Session : \A g \in files'[r] : Accounted(r, g)'
  <2>1. \A r \in Session, g \in File : Queued(r, g) <=> Queued(r, g)'
    BY <1>1 DEF Queued
  <2>2. \A r \in Session, g \in File : Reached(r, g) => Reached(r, g)'
    BY <1>1, <1>2, <1>3, <1>4, <1>5 DEF Reached
  <2>3. \A r \in Session : files[r] \subseteq File
    BY DEF FilesInv, FilesTypes
  <2> QED
    BY <1>1, <2>1, <2>2, <2>3 DEF FilesInv, Accounted
<1> QED
  BY <1>6, <1>7, <1>8, <1>9, <1>A DEF FilesInv

\* A blob that arrives is there for every call, and at once at the path of the call that waits for it.
LEMMA PieceArrives ==
  ASSUME Streams, FilesInv, SealSound, NEW s \in Session, NEW t \in Threads, Piece(s, t), Arrived(s, flight[s][t].file)
  PROVE  FilesInv'
<1> DEFINE f == flight[s][t].file  here == Waits(s, f)
<1>1. PICK bytes \in {"whole", "foreign"} : (Hashing => bytes = "whole" \/ f \in torn) /\ Arrives(s, f, bytes) /\ UNCHANGED fault
  BY DEF Arrived
<1>2. /\ UNCHANGED <<route, native, edited, phase, todo, files, queue, sent, sender, wants, snap>>
      /\ f \in File
  BY PieceMoves, PieceEnds
<1>3. here <=> phase[s] = "running" /\ f \in files[s] /\ at[s][f] = "pending"
  BY DEF Waits, Running, Pending
<1>4. /\ blob' = [blob EXCEPT ![f] = bytes] /\ hidden' = hidden \ {f}
      /\ gone' = [gone EXCEPT ![s] = gone[s] \ {f}]
      /\ (here /\ at' = [at EXCEPT ![s][f] = bytes]) \/ (~here /\ at' = at)
      /\ shared' = [r \in Session |-> IF here /\ r = s THEN shared[s] \cup {f} ELSE shared[r] \ {f}]
  BY <1>1 DEF Arrives
<1> HIDE DEF f, here
<1>5. /\ \A g \in File : blob'[g] = IF g = f THEN bytes ELSE blob[g]
      /\ \A r \in Session, g \in File : at'[r][g] = IF here /\ r = s /\ g = f THEN bytes ELSE at[r][g]
      /\ \A r \in Session, g \in File : g # f => (g \in shared'[r] <=> g \in shared[r]) /\ (g \in gone'[r] <=> g \in gone[r])
      /\ \A r \in Session : (f \in shared'[r] <=> here /\ r = s) /\ (r # s => gone'[r] = gone[r])
  BY <1>2, <1>4 DEF FilesInv, FilesTypes
<1>6. FilesTypes'
  <2>1. at' \in [Session -> [File -> {"pending", "whole", "foreign", "spoiled"}]]
    <3>1. at \in [Session -> [File -> {"pending", "whole", "foreign", "spoiled"}]]
      BY DEF FilesInv, FilesTypes
    <3>2. CASE at' = [at EXCEPT ![s][f] = bytes]
      BY <1>2, <3>1, <3>2
    <3> QED
      BY <1>4, <3>1, <3>2
  <2>2. shared' \in [Session -> SUBSET File] /\ gone' \in [Session -> SUBSET File] /\ hidden' \in SUBSET File
    BY <1>2, <1>4 DEF FilesInv, FilesTypes
  <2>3. blob' \in [File -> {"none", "whole", "foreign"}] /\ fault' = fault
    BY <1>1, <1>2, <1>4 DEF FilesInv, FilesTypes
  <2> QED
    BY <1>2, <2>1, <2>2, <2>3, PieceMoves, PieceEnds DEF FilesInv, FilesTypes, Carried, FirstPiece, LastPiece
<1>7. ReadsWhole' /\ CacheSound' /\ (hidden \subseteq native)'
  <2>0. torn \subseteq torn' /\ native' = native
    BY <1>2, PieceEnds
  <2>1. ReadsWhole'
    <3>1. SUFFICES ASSUME Hashing, NEW r \in Session, NEW g \in File, g \notin native, g \notin torn'
                   PROVE  at'[r][g] \in {"pending", "whole"}
      BY <2>0 DEF ReadsWhole
    <3>2. at[r][g] \in {"pending", "whole"} /\ g \notin torn
      BY <2>0, <3>1 DEF FilesInv, ReadsWhole
    <3> QED
      BY <1>1, <1>5, <3>1, <3>2
  <2>2. CacheSound'
    <3>1. SUFFICES ASSUME Hashing, NEW g \in File, blob'[g] = "foreign", g \notin torn'
                   PROVE  g \in hidden' \/ \E r \in Session : g \in shared'[r] /\ at'[r][g] = "spoiled"
      BY DEF CacheSound, WroteThrough
    <3>2. g # f /\ blob[g] = "foreign" /\ g \notin torn
      BY <1>1, <1>5, <2>0, <3>1
    <3>3. g \in hidden \/ \E r \in Session : g \in shared[r] /\ at[r][g] = "spoiled"
      BY <3>1, <3>2 DEF FilesInv, CacheSound, WroteThrough
    <3> QED
      BY <1>4, <1>5, <3>2, <3>3
  <2>3. (hidden \subseteq native)'
    BY <1>4, <2>0 DEF FilesInv
  <2> QED
    BY <2>1, <2>2, <2>3
<1>8. \A r \in Session : shared'[r] \subseteq File /\ shared[r] \subseteq File
  BY <1>6 DEF FilesTypes, FilesInv
<1>9. \A r \in Session : PhaseSound(r)'
  <2>1. ASSUME NEW r \in Session, phase'[r] # "running"
        PROVE  shared'[r] = {} /\ snap'[r] = None /\ \A g \in File : at'[r][g] = "pending"
    BY <1>2, <1>3, <1>5, <1>8, <2>1 DEF FilesInv, PhaseSound
  <2>2. ASSUME NEW r \in Session, phase'[r] = "idle" PROVE flight'[r]["now"] = None
    BY <1>2, <2>2, PieceMoves DEF FilesInv, PhaseSound, Threads
  <2> QED
    BY <1>1, <1>2, <2>1, <2>2 DEF FilesInv, PhaseSound
<1>A. \A r \in Session : ListSound(r)'
  <2>1. ASSUME NEW r \in Session PROVE Pending(r)' \subseteq Pending(r)
    <3>1. files[r] \subseteq File
      BY DEF FilesInv, FilesTypes
    <3> QED
      BY <1>1, <1>2, <1>5, <3>1 DEF Pending
  <2> QED
    BY <1>2, <2>1 DEF FilesInv, ListSound
<1>B. \A r \in Session, g \in File : LinkSound(r, g)'
  BY <1>1, <1>2, <1>3, <1>5 DEF FilesInv, LinkSound
<1>C. \A r \in Session : \A g \in files'[r] : Accounted(r, g)'
  <2>1. SUFFICES ASSUME NEW r \in Session, NEW g \in files[r] PROVE Accounted(r, g)'
    BY <1>2
  <2>2. g \in File /\ Accounted(r, g)
    BY DEF FilesInv, FilesTypes
  <2>3. Queued(r, g) <=> Queued(r, g)'
    BY <1>2 DEF Queued
  <2>4. CASE g = f /\ r = s
    <3>1. blob'[g] # "none"
      BY <1>5, <2>2, <2>4
    <3>2. phase[r] = "running" => at'[r][g] # "pending"
      BY <1>3, <1>5, <2>2, <2>4
    <3> QED
      BY <1>2, <3>1, <3>2 DEF Accounted
  <2>5. CASE ~(g = f /\ r = s)
    <3>1. Reached(r, g) => Reached(r, g)'
      <4>1. g \in gone[r] => g \in gone'[r]
        BY <1>5, <2>2, <2>5
      <4>2. flight[r]["now"] # None /\ flight[r]["now"].file = g => flight'[r]["now"] = flight[r]["now"]
        BY <2>5, PieceMoves DEF Threads, f
      <4> QED
        BY <1>1, <4>1, <4>2 DEF Reached
    <3>2. at'[r][g] = at[r][g] /\ (blob'[g] = "none" => blob[g] = "none")
      BY <1>5, <2>2, <2>5
    <3> QED
      BY <1>2, <2>2, <2>3, <3>1, <3>2 DEF Accounted
  <2> QED
    BY <2>4, <2>5
<1> QED
  BY <1>6, <1>7, <1>9, <1>A, <1>B, <1>C DEF FilesInv

\* A transfer that goes on still carries the file it carried.
LEMMA PieceGoesOn ==
  ASSUME Streams, FilesInv, SealSound, NEW s \in Session, NEW t \in Threads, Piece(s, t), Proceeds(s, t)
  PROVE  FilesInv'
<1>1. /\ UNCHANGED <<route, native, edited, phase, todo, files, queue, sent, sender, wants, snap>>
      /\ UNCHANGED <<fault, blob, hidden, gone, at, shared>> /\ flight'[s][t] # None
  BY PieceMoves DEF Proceeds
<1>2. \A r \in Session : flight[r]["now"] # None => flight'[r]["now"] # None /\ flight'[r]["now"].file = flight[r]["now"].file
  BY <1>1, PieceMoves DEF Threads
<1>3. \A r \in Session : flight[r]["now"] = None => flight'[r]["now"] = None
  BY PieceMoves DEF Threads
<1>4. FilesTypes'
  BY <1>1, PieceMoves, PieceEnds DEF FilesInv, FilesTypes, Carried, FirstPiece, LastPiece
<1>5. ReadsWhole' /\ CacheSound' /\ (hidden \subseteq native)'
  BY <1>1, PieceEnds, TornKeeps
<1>6. \A r \in Session : PhaseSound(r)' /\ ListSound(r)'
  BY <1>1, <1>3 DEF FilesInv, PhaseSound, ListSound, Pending
<1>7. \A r \in Session, g \in File : LinkSound(r, g)'
  BY <1>1 DEF FilesInv, LinkSound
<1>8. \A r \in Session : \A g \in files'[r] : Accounted(r, g)'
  BY <1>1, <1>2 DEF FilesInv, Accounted, Reached, Queued
<1> QED
  BY <1>4, <1>5, <1>6, <1>7, <1>8 DEF FilesInv

-----------------------------------------------------------------------------
\* Every step keeps the invariant.
LEMMA FilesStep == ASSUME Streams, FilesInv, SealSound, Next PROVE FilesInv'
<1>1. ASSUME NEW s \in Session, SenderNext(s) PROVE FilesInv'
  <2>1. ASSUME NEW t \in Threads, Piece(s, t) PROVE FilesInv'
    BY <2>1, PieceEnds, PieceRefused, PieceArrives, PieceGoesOn
  <2> QED
    BY <1>1, <2>1, TakeKeeps, ExhaustedKeeps, NoticedKeeps DEF SenderNext
<1>2. ASSUME NEW s \in Session, CallNext(s) PROVE FilesInv'
  BY <1>2, BeginKeeps, ReturnKeeps, FinishKeeps DEF CallNext
<1>3. ASSUME NEW s \in Session, NEW f \in File, Wait(s, f) \/ Observe(s, f) \/ Private(s, f) \/ WriteThrough(s, f)
      PROVE  FilesInv'
  BY <1>3, AsksKeeps, PrivateKeeps, WriteThroughKeeps DEF Wait, Observe
<1> QED
  BY <1>1, <1>2, <1>3, PrepareKeeps, ListKeeps, EditKeeps, ClearKeeps DEF Next

\* A seal stays sound: whoever writes the file between its hash and its rename tears it, and a
\* transfer begins with no seal.
LEMMA SealWhole == ASSUME Streams, FilesInv, SealSound, Next PROVE SealSound'
<1>1. flight \in [Session -> [Threads -> Carried \cup {None}]]
  BY DEF FilesInv, FilesTypes
<1>2. ASSUME UNCHANGED <<partial, torn>>,
             \A r \in Session, o \in Threads :
               flight'[r][o] = None \/ flight'[r][o].next # Renames \/ \E q \in Threads : flight'[r][o] = flight[r][q]
      PROVE  SealSound'
  BY <1>2 DEF SealSound
<1>3. UNCHANGED <<partial, torn, flight>> => SealSound'
  BY DEF SealSound
<1>4. ASSUME NEW s \in Session, Take(s) PROVE SealSound'
  <2>1. UNCHANGED <<partial, torn>> /\ \E f : flight' \in {flight, [flight EXCEPT ![s]["now"] = Carrying(f, FirstPiece)]}
    BY <1>4 DEF Take, cache
  <2>2. PICK f : flight' \in {flight, [flight EXCEPT ![s]["now"] = Carrying(f, FirstPiece)]}
    BY <2>1
  <2>3. Carrying(f, FirstPiece).next # Renames
    BY DEF Carrying, FirstPiece, Renames
  <2> QED
    BY <1>1, <1>2, <2>1, <2>2, <2>3 DEF Threads
<1>5. ASSUME NEW s \in Session, Noticed(s) PROVE SealSound'
  BY <1>1, <1>2, <1>5 DEF Noticed, cache, Threads
<1>6. ASSUME NEW s \in Session, Finish(s) PROVE SealSound'
  <2>1. UNCHANGED <<partial, torn>>
    BY <1>6 DEF Finish
  <2>2. flight' \in {flight, [flight EXCEPT ![s] = [now |-> None, old |-> flight[s].now]]}
    BY <1>6 DEF Finish
  <2> QED
    BY <1>1, <1>2, <2>1, <2>2 DEF Threads
<1>7. ASSUME NEW s \in Session, NEW t \in Threads, Piece(s, t) PROVE SealSound'
  <2> DEFINE f == flight[s][t].file
  <2>1. /\ \A r \in Session, o \in Threads : r # s \/ o # t => flight'[r][o] = flight[r][o]
        /\ f \in File /\ \A n \in Nat : MovesTo(s, t, n) => flight'[s][t] = Carrying(f, n)
    BY <1>1, <1>7, PieceMoves DEF MovesTo
  <2>2. \A n \in Nat : Carrying(f, n).next = n /\ Carrying(f, n).file = f
    BY DEF Carrying
  <2>3. IsDone(s, t) => flight'[s][t] = None
    BY <1>1 DEF IsDone
  <2>4. partial \in [File -> Partials]
    BY DEF FilesInv, FilesTypes
  <2> HIDE DEF f
  <2>5. CASE Put(s, t) \/ Pull(s, t)
    <3>1. UNCHANGED <<partial, torn>>
      BY <2>5 DEF Put, Pull
    <3>2. flight'[s][t] = None \/ flight'[s][t].next # Renames
      <4>1. CASE Pull(s, t)
        BY <2>3, <4>1 DEF Pull
      <4>2. CASE Put(s, t)
        <5>1. flight[s][t].next \in 1 .. Final
          <6>1. flight[s][t] \in Carried /\ route = "pieces"
            BY <1>1, <1>7, <4>2 DEF Piece, Put
          <6> QED
            BY <6>1 DEF Carried, FirstPiece, LastPiece
        <5>2. flight[s][t].next + 1 \in Nat /\ (flight[s][t].next # Final => flight[s][t].next + 1 # Renames)
          BY <5>1 DEF Final, Renames
        <5> QED
          BY <2>1, <2>2, <2>3, <4>2, <5>2 DEF Put
      <4> QED
        BY <2>5, <4>1, <4>2
    <3> QED
      BY <1>2, <2>1, <3>1, <3>2
  <2>6. CASE PutAt(s, t)
    <3>1. BeginsAt(s, t, f) \/ FillsAt(s, t, f) \/ HashesAt(s, t, f) \/ RenamesAt(s, t, f) \/ FailsAt(s, t, f)
      BY <2>6 DEF PutAt, f
    <3>2. ASSUME NEW bytes \in {"holes", "full", "other"}, NEW n \in {1, 2}, Overwrites(f, bytes), MovesTo(s, t, n)
          PROVE  SealSound'
      <4>1. flight'[s][t].next # Renames
        BY <2>1, <2>2, <3>2 DEF Renames
      <4>2. ASSUME Hashing, NEW r \in Session, NEW o \in Threads, flight'[r][o] # None, flight'[r][o].next = Renames
            PROVE  flight'[r][o].file \in torn' \/ partial'[flight'[r][o].file] \in {"full", "none"}
        <5>1. flight'[r][o] = flight[r][o] /\ flight[r][o].file \in File
          BY <1>1, <2>1, <4>1, <4>2 DEF Carried
        <5>2. flight[r][o].file \in torn \/ partial[flight[r][o].file] \in {"full", "none"}
          BY <4>2, <5>1 DEF SealSound
        <5>3. CASE flight[r][o].file = f
          BY <2>4, <3>2, <4>2, <5>1, <5>2, <5>3 DEF Overwrites, Sealed
        <5>4. CASE flight[r][o].file # f
          BY <2>4, <3>2, <5>1, <5>2, <5>4 DEF Overwrites
        <5> QED
          BY <5>3, <5>4
      <4> QED
        BY <4>2 DEF SealSound
    <3>3. CASE BeginsAt(s, t, f)
      BY <3>2, <3>3 DEF BeginsAt
    <3>4. CASE FillsAt(s, t, f)
      BY <3>2, <3>4 DEF FillsAt
    <3>5. CASE HashesAt(s, t, f)
      <4>1. UNCHANGED <<partial, torn>> /\ (MovesTo(s, t, Renames) \/ MovesTo(s, t, Removes))
            /\ (MovesTo(s, t, Renames) /\ Hashing => partial[f] = "full" \/ MovesTo(s, t, Removes))
        BY <3>5 DEF HashesAt
      <4>2. flight'[s][t] # None /\ flight'[s][t].next = Renames /\ Hashing => flight'[s][t].file = f /\ partial[f] = "full"
        BY <2>1, <2>2, <4>1 DEF Renames, Removes
      <4> QED
        BY <2>1, <4>1, <4>2 DEF SealSound
    <3>6. CASE RenamesAt(s, t, f) \/ FailsAt(s, t, f)
      <4>1. IsDone(s, t) /\ torn' = torn /\ partial' \in {partial, [partial EXCEPT ![f] = "none"]}
        BY <3>6 DEF RenamesAt, FailsAt
      <4>2. \A g \in File : partial'[g] \in {partial[g], "none"}
        BY <2>4, <4>1
      <4>3. \A r \in Session, o \in Threads : flight[r][o] # None => flight[r][o].file \in File
        BY <1>1 DEF Carried
      <4> QED
        BY <2>1, <2>3, <4>1, <4>2, <4>3 DEF SealSound
    <3> QED
      BY <3>1, <3>3, <3>4, <3>5, <3>6
  <2> QED
    BY <1>7, <2>5, <2>6 DEF Piece
<1>8. ASSUME NEW s \in Session, Prepare(s) \/ Exhausted(s) \/ BeginCall(s) \/ Return(s) \/ ListBegin(s) \/ ListEnd(s)
      PROVE  SealSound'
  BY <1>3, <1>8 DEF Prepare, Exhausted, BeginCall, Return, ListBegin, ListEnd, cache, stream
<1>9. ASSUME NEW s \in Session, NEW f \in File, Wait(s, f) \/ Observe(s, f) \/ Private(s, f) \/ WriteThrough(s, f)
      PROVE  SealSound'
  BY <1>3, <1>9 DEF Wait, Observe, Asks, Private, WriteThrough, cache, stream
<1>10. ASSUME Clear \/ \E f \in File : Edit(f) PROVE SealSound'
  BY <1>3, <1>10 DEF Clear, Edit, cache, stream
<1> QED
  BY <1>4, <1>5, <1>6, <1>7, <1>8, <1>9, <1>10 DEF Next, SenderNext, CallNext

LEMMA FilesKept ==
  ASSUME Streams, FilesInv, SealSound, [MCNext]_<<part, dataVars, outputVars, keepVars>>
  PROVE  FilesInv' /\ SealSound'
<1>1. UNCHANGED dataVars => UNCHANGED vars
  BY DEF dataVars, vars, setting, cache, stream, body
<1>2. UNCHANGED vars => SealSound'
  BY DEF vars, cache, stream, SealSound
<1> QED
  BY <1>1, <1>2, FilesStep, FilesStill, SealWhole DEF MCNext

\* What a sound state gives: the bytes are right and whoever waits, waits for something.
LEMMA FilesAre == ASSUME FilesInv PROVE FilesSound
<1>1. TypeOK
  <2>1. \A s \in Session : Range(wants[s]) \subseteq File
    BY RangeOf DEF FilesInv, FilesTypes
  <2>2. \A s \in Session : sender[s] # "off" => phase[s] \in {"running", "over"}
    BY DEF FilesInv, FilesTypes, PhaseSound
  <2>3. edited \cup native \cup hidden \cup torn \subseteq File
    BY StreamAssumption DEF StreamAssumption, FilesInv, FilesTypes
  <2>4. \A s \in Session :
          /\ todo[s] \in Seq(SUBSET File) /\ shared[s] \cup open[s] \cup gone[s] \cup sent[s] \subseteq File
          /\ at[s] \in [File -> {"pending", "whole", "foreign", "spoiled"}]
    BY DEF FilesInv, FilesTypes
  <2> QED
    BY <2>1, <2>2, <2>3, <2>4 DEF FilesInv, FilesTypes, Partials, TypeOK
<1>2. PendingReachable
  <2>1. SUFFICES ASSUME NEW s \in Running, NEW f \in Pending(s)
                 PROVE  \/ Flying(s, f)
                        \/ sender[s] = "on" /\ f \in Range(queue[s])
                        \/ fault[s] \/ sender[s] = "failed" \/ f \in gone[s]
    BY DEF PendingReachable
  <2>2. Accounted(s, f) /\ phase[s] = "running" /\ at[s][f] = "pending"
    BY DEF FilesInv, Running, Pending
  <2>3. Queued(s, f) => f \in Range(queue[s])
    BY RangeOf DEF FilesInv, FilesTypes, Queued, Running
  <2>4. flight[s]["now"] # None /\ flight[s]["now"].file = f => Flying(s, f)
    BY DEF Flying, Threads
  <2>5. \/ Reached(s, f) \/ sender[s] = "failed"
        \/ sender[s] = "on" /\ Queued(s, f)
    BY <2>2 DEF Accounted
  <2> QED
    BY <2>3, <2>4, <2>5 DEF Reached
<1> QED
  BY <1>1, <1>2 DEF FilesInv, FilesSound

\* A listing that ends has named what was missing when it began, and the rest is on the disk.
LEMMA ListingStep ==
  ASSUME Streams, FilesInv, [MCNext]_<<part, dataVars, outputVars, keepVars>>, NEW s \in Session,
         snap[s] # None, snap'[s] = None, phase'[s] = "running"
  PROVE  snap[s] \cup OnDisk(s) = files[s]
  BY DEF FilesInv, ListSound, OnDisk, Placed, Pending

-----------------------------------------------------------------------------
\* A blob that is whole stays whole, whatever a saver does.
LEMMA StoreKeeps ==
  ASSUME StoreInv, Store!StoreNext, NEW s \in Savers, saver[s].at = "done"
  PROVE  stored'[Store!Of(s)] = "whole"
<1>1. /\ stored \in [Digests -> {"none", "whole"}] /\ saver[s].of \in Digests /\ stored[saver[s].of] = "whole"
      /\ \A o \in Savers : saver[o].of \in Digests
  BY DEF StoreInv, StoreTypeOK, SaverSound
<1>2. stored' = stored \/ \E o \in Savers : stored' = [stored EXCEPT ![saver[o].of] = "whole"]
  <2>1. ASSUME NEW o \in Savers, Store!WritesPartial(o) PROVE stored' = stored
    BY <2>1 DEF Store!WritesPartial, StoreInv, SaverSound
  <2>2. ASSUME NEW o \in Savers, Store!Replaces(o)
        PROVE  stored' = stored \/ stored' = [stored EXCEPT ![saver[o].of] = "whole"]
    BY <2>2 DEF Store!Replaces, Store!Of, StoreInv, SaverSound
  <2>3. ASSUME NEW o \in Savers, Store!PutsObject(o) PROVE stored' = [stored EXCEPT ![saver[o].of] = "whole"]
    BY <2>3 DEF Store!PutsObject, Store!Of
  <2>4. ASSUME NEW o \in Savers, Store!Looks(o) \/ Store!OpensPartial(o) \/ Store!Points(o) \/ Store!Names(o) \/ Store!Dies(o)
        PROVE  stored' = stored
    BY <2>4 DEF Store!Looks, Store!OpensPartial, Store!Points, Store!Names, Store!Dies
  <2> QED
    BY <2>1, <2>2, <2>3, <2>4 DEF Store!StoreNext
<1> QED
  BY <1>1, <1>2 DEF Store!Of

-----------------------------------------------------------------------------
(* The arguments a call sends through the store. *)

LEMMA SizeOf ==
  ASSUME NEW s \in Once(Args)
  PROVE  Weighed(MCArgSize, ToSet(s)) /\ Large!Bytes(s) = Total(MCArgSize, ToSet(s)) /\ Large!Bytes(s) \in Nat
<1>1. \A d \in Args : MCArgSize[d] \in Nat
  BY DEF MCArgSize
<1>2. Large!Bytes(s) = SumSeq(MCArgSize, s)
  BY DEF Large!Bytes, Large!FoldLeft, Large!MapThenFoldSet, Large!Max, SumSeq, FoldLeft, MapThenFoldSet, Max
<1>3. Weighed(MCArgSize, ToSet(s)) /\ SumSeq(MCArgSize, s) = Total(MCArgSize, ToSet(s))
  BY <1>1, SumSeqIs DEF Once
<1> QED
  BY <1>2, <1>3, TotalNat

LEMMA ListsAlike ==
  ASSUME NEW u
  PROVE  Large!SetToSeq(u) = SetToSeq(u)
<1>1. Large!Cardinality(u) = Cardinality(u)
  BY DEF Large!Cardinality, Cardinality
<1> QED
  BY <1>1 DEF Large!SetToSeq, Large!IsInjective, SetToSeq, IsInjective

\* What is asked for becomes the end of the files.
LEMMA Touches ==
  ASSUME IsFiniteSet(Args), NEW s \in Once(Args), NEW asked \in SUBSET Args
  PROVE  /\ Large!Touched(s, asked) \in Once(Args) /\ ToSet(Large!Touched(s, asked)) = ToSet(s)
         /\ \E q \in Once(Args) : ToSet(q) = ToSet(s) \cap asked /\ IsEnd(q, Large!Touched(s, asked))
<1> DEFINE u == ToSet(s) \cap asked
           q == SetToSeq(u)
<1>1. IsFiniteSet(u) /\ u \subseteq Args
  BY FS_Subset
<1> HIDE DEF u
<1>2. q \in Once(u) /\ ToSet(q) = u
  BY <1>1, Listed
<1>3. q \in Once(Args)
  BY <1>1, <1>2 DEF Once
<1>4. Large!Touched(s, asked) = MovedAll(s, q)
  <2>1. Large!ToSet(s) \cap asked = u
    BY DEF Large!ToSet, ToSet, u
  <2>2. Large!SetToSeq(u) = SetToSeq(u)
    BY ListsAlike
  <2>3. Large!SetToSeq(Large!ToSet(s) \cap asked) = q
    BY <2>1, <2>2
  <2> DEFINE Moves(p) == Large!FoldLeft(LAMBDA all, d : Append(Large!RemoveFirst(all, d), d), s, p)
  <2>4. \A p : Moves(p) = MovedAll(s, p)
    BY DEF Large!FoldLeft, Large!MapThenFoldSet, Large!Max, Large!RemoveFirst, Large!RemoveAt,
           Large!SelectInSeq, Large!Min, MovedAll, FoldLeft, MapThenFoldSet, Max, RemoveFirst, RemoveAt,
           SelectInSeq, Min
  <2>5. Large!Touched(s, asked) = Moves(Large!SetToSeq(Large!ToSet(s) \cap asked))
    BY DEF Large!Touched
  <2> HIDE DEF Moves, q
  <2> QED
    BY <2>3, <2>4, <2>5
<1> HIDE DEF q
<1>5. ToSet(q) \subseteq ToSet(s)
  BY <1>2 DEF u
<1> QED
  BY <1>2, <1>3, <1>4, <1>5, MovedAllEnds DEF u

\* The oldest files go until the rest fits with the new one, and no more than that.
LEMMA KeepsEnds ==
  ASSUME Limit \in Nat, NEW s \in Once(Args), NEW d \in Args, d \notin ToSet(s)
  PROVE  /\ Large!Kept(s, d) \in Once(Args)
         /\ \A u \in Once(Args) :
              IsEnd(u, s) /\ Large!Bytes(u) + MCArgSize[d] <= Limit => IsEnd(Append(u, d), Large!Kept(s, d))
<1> DEFINE fits == {n \in 0 .. Len(s) :
                      Large!Bytes(SubSeq(s, n + 1, Len(s))) + MCArgSize[d] <= Limit \/ n = Len(s)}
           least == CHOOSE k \in fits : \A j \in fits : k <= j
           e == SubSeq(s, least + 1, Len(s))
<1>1. Large!Kept(s, d) = Append(e, d)
  BY DEF Large!Kept, Large!Fits
<1>2. s \in Seq(Args) /\ Len(s) \in Nat
  BY DEF Once
<1>3. least \in fits /\ \A j \in fits : least <= j
  <2>1. fits \subseteq Nat /\ Len(s) \in fits
    BY <1>2
  <2> HIDE DEF fits
  <2>2. \E k \in fits : \A j \in fits : k <= j
    BY <2>1, LeastNat
  <2> QED
    BY <2>2
<1>4. least \in 0 .. Len(s)
  BY <1>3
<1> HIDE DEF least
<1>5. least + 1 \in 1 .. Len(s) + 1
  BY <1>2, <1>4
<1>6. e \in Once(Args) /\ Len(e) = Len(s) + 1 - (least + 1) /\ IsEnd(e, s)
  BY <1>5, EndFrom
<1> HIDE DEF e
<1>7. ASSUME NEW u \in Once(Args), IsEnd(u, s), Large!Bytes(u) + MCArgSize[d] <= Limit
      PROVE  IsEnd(u, e)
  <2>1. /\ Len(s) - Len(u) + 1 \in 1 .. Len(s) + 1 /\ u = SubSeq(s, Len(s) - Len(u) + 1, Len(s))
        /\ u \in Seq(Args) /\ e \in Seq(Args) /\ Len(u) \in Nat /\ Len(e) \in Nat
    BY <1>6, <1>7, EndIs DEF Once
  <2> DEFINE k == Len(s) - Len(u)
  <2>2. k \in 0 .. Len(s) /\ u = SubSeq(s, k + 1, Len(s))
    BY <1>2, <2>1
  <2> HIDE DEF k
  <2>3. k \in fits
    BY <1>7, <2>2
  <2>4. least <= k
    BY <1>3, <2>3
  <2>5. Len(u) <= Len(e) /\ Len(s) - Len(e) = least
    BY <1>2, <1>4, <1>6, <2>1, <2>4 DEF k
  <2>6. ASSUME NEW i \in 1 .. Len(u) PROVE u[i] = e[Len(e) - Len(u) + i]
    <3>1. Len(e) - Len(u) + i \in 1 .. Len(e) /\ Len(s) - Len(e) + (Len(e) - Len(u) + i) = Len(s) - Len(u) + i
      BY <1>2, <2>1, <2>5
    <3>2. e[Len(e) - Len(u) + i] = s[Len(s) - Len(e) + (Len(e) - Len(u) + i)]
      BY <1>6, <3>1 DEF IsEnd
    <3>3. u[i] = s[Len(s) - Len(u) + i]
      BY <1>7 DEF IsEnd
    <3> QED
      BY <3>1, <3>2, <3>3
  <2> QED
    BY <2>5, <2>6 DEF IsEnd
<1>8. ToSet(e) \subseteq ToSet(s)
  BY <1>6, EndIs
<1>9. ~Contains(e, d)
  <2>1. e \in Seq(Args)
    BY <1>6 DEF Once
  <2> QED
    <3>1. \A i \in 1 .. Len(e) : e[i] \in ToSet(e)
      BY <2>1 DEF ToSet
    <3> QED
      BY <1>8, <3>1 DEF Contains
<1>10. Append(e, d) \in Once(Args)
  <2>1. e \in Once(Args)
    BY <1>6
  <2>2. Moved(e, d) = Append(e, d) /\ Moved(e, d) \in Once(Args)
    BY <1>9, <2>1, MovedNew
  <2> QED
    BY <2>2
<1>11. \A u \in Once(Args) :
         IsEnd(u, s) /\ Large!Bytes(u) + MCArgSize[d] <= Limit => IsEnd(Append(u, d), Append(e, d))
  BY <1>6, <1>7, EndsAppend DEF Once
<1> QED
  BY <1>1, <1>10, <1>11

\* The disk ends with the files of the call that were not sent in this session: those that were
\* asked for and those that were put.
Covered(kept, has, c) ==
  \E u \in Once(Args) :
    IsEnd(u, kept) /\ ToSet(u) \subseteq c.plan /\ c.plan \ (has \cup c.left) \subseteq ToSet(u)

\* What is known is in memory but for what went astray, and what a call in progress was told; a
\* call that fits and whose arguments did not go astray is covered.
Sure(c, lost) == Total(MCArgSize, c.plan) <= Limit /\ c.plan \cap lost = {}
CallSound(kept, knows, has, lost, c) ==
  /\ c.at \in {"none", "asking"} => knows \subseteq has \cup lost
  /\ c.at = "asking" => c.left = c.plan \ knows
  /\ c.at \in {"sending", "sent"} =>
       /\ c.left \subseteq c.plan /\ knows \subseteq has \cup lost \cup c.plan
       /\ Sure(c, lost) => Covered(kept, has, c)
  /\ c.at = "sent" => c.left = {}
  /\ c.at = "unresolved" => ~Sure(c, lost)

ArgCall == [at : {"none", "asking", "sending", "sent", "unresolved"}, plan : SUBSET Args, left : SUBSET Args]
LargeTypes ==
  /\ disk \in Once(Args)
  /\ known \in [Large!Sessions -> SUBSET Args] /\ memory \in [Large!Sessions -> SUBSET Args]
  /\ uses \in [Large!Sessions -> ArgCall] /\ astray \in [Large!Sessions -> SUBSET Args]
LargeInv ==
  /\ LargeTypes
  /\ Shared \/ \A s \in Large!Sessions : CallSound(disk, known[s], memory[s], astray[s], uses[s])

ArgsCounted == IsFiniteSet(Args) /\ Limit \in Nat

LEMMA BulkOf ==
  ASSUME ArgsCounted, NEW p \in SUBSET Args
  PROVE  Weighed(MCArgSize, p) /\ Total(MCArgSize, p) \in Nat /\ Large!Bytes(Large!SetToSeq(p)) = Total(MCArgSize, p)
<1>1. IsFiniteSet(p)
  BY FS_Subset DEF ArgsCounted
<1>2. SetToSeq(p) \in Once(Args) /\ ToSet(SetToSeq(p)) = p
  BY <1>1, Listed DEF Once
<1>3. Large!SetToSeq(p) = SetToSeq(p)
  BY ListsAlike
<1> QED
  BY <1>2, <1>3, SizeOf, TotalNat

LEMMA LargeStart == ASSUME Large!ArgInit PROVE LargeInv
<1>1. <<>> \in Once(Args)
  BY DEF Once, IsInjective
<1>2. Large!NoCall \in ArgCall /\ Large!NoCall.at = "none"
  BY DEF Large!NoCall, ArgCall
<1>3. \A s \in Large!Sessions : CallSound(disk, known[s], memory[s], astray[s], uses[s])
  BY <1>2 DEF Large!ArgInit, CallSound
<1> QED
  BY <1>1, <1>2, <1>3 DEF Large!ArgInit, LargeInv, LargeTypes

\* Without sharing there is one session, and what is said of it is said of all.
LEMMA LargeMoves ==
  ASSUME NEW s \in Large!Sessions, disk' \in Once(Args),
         known' \in [Large!Sessions -> SUBSET Args], memory' \in [Large!Sessions -> SUBSET Args],
         uses' \in [Large!Sessions -> ArgCall], astray' \in [Large!Sessions -> SUBSET Args],
         Shared \/ CallSound(disk', known'[s], memory'[s], astray'[s], uses'[s])
  PROVE  LargeInv'
<1>1. ~Shared => \A t \in Large!Sessions : t = s
  BY DEF Large!Sessions
<1>2. Shared \/ \A t \in Large!Sessions : CallSound(disk', known'[t], memory'[t], astray'[t], uses'[t])
  BY <1>1
<1> QED
  BY <1>2 DEF LargeInv, LargeTypes

LEMMA CallBegins ==
  ASSUME ArgsCounted, LargeInv, NEW s \in Large!Sessions, NEW plan \in SUBSET Args, Large!Begins(s, plan)
  PROVE  LargeInv'
<1>1. /\ uses[s].at = "none" /\ disk' = disk /\ known' = known /\ memory' = memory /\ astray' = astray
      /\ uses' = [uses EXCEPT ![s] = [at |-> IF plan \subseteq known[s] THEN "sent" ELSE "asking", plan |-> plan,
                                      left |-> plan \ known[s]]]
  BY DEF Large!Begins
<1>2. /\ disk \in Once(Args) /\ known \in [Large!Sessions -> SUBSET Args]
      /\ memory \in [Large!Sessions -> SUBSET Args] /\ uses \in [Large!Sessions -> ArgCall]
      /\ astray \in [Large!Sessions -> SUBSET Args]
  BY DEF LargeInv, LargeTypes
<1> DEFINE c == [at |-> IF plan \subseteq known[s] THEN "sent" ELSE "asking", plan |-> plan, left |-> plan \ known[s]]
<1>3. c \in ArgCall /\ uses'[s] = c
  BY <1>1, <1>2 DEF ArgCall
<1>4. ASSUME ~Shared PROVE CallSound(disk, known[s], memory[s], astray[s], c)
  <2>1. known[s] \subseteq memory[s] \cup astray[s]
    BY <1>1, <1>4 DEF LargeInv, CallSound
  <2>2. CASE plan \subseteq known[s]
    <3>1. c.at = "sent" /\ c.plan = plan /\ c.left = {} /\ plan \subseteq memory[s] \cup astray[s]
      BY <2>1, <2>2
    <3>2. <<>> \in Once(Args) /\ IsEnd(<<>>, disk) /\ ToSet(<<>>) = {}
      BY <1>2 DEF Once, IsInjective, IsEnd, ToSet
    <3> HIDE DEF c
    <3>3. Sure(c, astray[s]) => Covered(disk, memory[s], c)
      BY <3>1, <3>2 DEF Covered, Sure
    <3> QED
      BY <2>1, <3>1, <3>3 DEF CallSound
  <2>3. CASE ~(plan \subseteq known[s])
    <3>1. c.at = "asking" /\ c.plan = plan /\ c.left = plan \ known[s]
      BY <2>3
    <3> HIDE DEF c
    <3> QED
      BY <2>1, <3>1 DEF CallSound
  <2> QED
    BY <2>2, <2>3
<1>5. uses' \in [Large!Sessions -> ArgCall]
  <2> HIDE DEF c
  <2>1. uses' = [uses EXCEPT ![s] = c]
    BY <1>1 DEF c
  <2> QED
    BY <1>2, <1>3, <2>1
<1> HIDE DEF c
<1>6. Shared \/ CallSound(disk', known'[s], memory'[s], astray'[s], uses'[s])
  BY <1>1, <1>3, <1>4
<1> QED
  BY <1>1, <1>2, <1>5, <1>6, LargeMoves

LEMMA CallAsks ==
  ASSUME ArgsCounted, LargeInv, NEW s \in Large!Sessions, Large!Asks(s)
  PROVE  LargeInv'
<1> DEFINE left == uses[s].left
           found == left \cap (memory[s] \cup Large!OnDisk)
           c == [uses[s] EXCEPT !.left = @ \ found, !.at = IF left = found THEN "sent" ELSE "sending"]
<1>1. /\ uses[s].at = "asking" /\ disk' = Large!Touched(disk, left \ memory[s])
      /\ known' = [known EXCEPT ![s] = @ \cup found]
      /\ uses' = [uses EXCEPT ![s].left = @ \ found, ![s].at = IF left = found THEN "sent" ELSE "sending"]
      /\ memory' = memory /\ astray' = astray
  BY DEF Large!Asks
<1>2. /\ disk \in Once(Args) /\ known \in [Large!Sessions -> SUBSET Args]
      /\ memory \in [Large!Sessions -> SUBSET Args] /\ uses \in [Large!Sessions -> ArgCall]
      /\ astray \in [Large!Sessions -> SUBSET Args]
  BY DEF LargeInv, LargeTypes
<1>3. left \subseteq Args /\ found \subseteq left /\ uses[s] \in ArgCall
  BY <1>2 DEF ArgCall
<1>4. c \in ArgCall /\ c.plan = uses[s].plan /\ c.left = left \ found /\ c.at \in {"sent", "sending"}
      /\ (c.at = "sent" => c.left = {})
  BY <1>3 DEF ArgCall
<1>5. uses' = [uses EXCEPT ![s] = c]
  BY <1>1, <1>2, <1>3 DEF ArgCall
<1> HIDE DEF c
<1>6. uses'[s] = c /\ uses' \in [Large!Sessions -> ArgCall]
  BY <1>2, <1>4, <1>5
<1>7. known'[s] = known[s] \cup found /\ known' \in [Large!Sessions -> SUBSET Args]
  BY <1>1, <1>2, <1>3
<1>8. Large!OnDisk = ToSet(disk)
  BY DEF Large!OnDisk, Large!ToSet, ToSet
<1>9. left \ memory[s] \in SUBSET Args
  BY <1>3
<1>10. disk' \in Once(Args)
       /\ \E q \in Once(Args) : ToSet(q) = ToSet(disk) \cap (left \ memory[s]) /\ IsEnd(q, disk')
  <2> DEFINE asked == left \ memory[s]
  <2>1. asked \in SUBSET Args /\ disk' = Large!Touched(disk, asked)
    BY <1>1, <1>9
  <2> HIDE DEF asked
  <2>2. IsFiniteSet(Args)
    BY DEF ArgsCounted
  <2>3. Large!Touched(disk, asked) \in Once(Args)
        /\ \E q \in Once(Args) : ToSet(q) = ToSet(disk) \cap asked /\ IsEnd(q, Large!Touched(disk, asked))
    BY <1>2, <2>1, <2>2, Touches
  <2> QED
    BY <2>1, <2>3 DEF asked
<1>11. ASSUME ~Shared PROVE CallSound(disk', known[s] \cup found, memory[s], astray[s], c)
  <2>1. known[s] \subseteq memory[s] \cup astray[s] /\ left = uses[s].plan \ known[s]
    BY <1>1, <1>11 DEF LargeInv, CallSound
  <2>2. PICK q \in Once(Args) : ToSet(q) = ToSet(disk) \cap (left \ memory[s]) /\ IsEnd(q, disk')
    BY <1>10
  <2>3. /\ ToSet(q) \subseteq c.plan
        /\ c.plan \cap astray[s] = {} => c.plan \ (memory[s] \cup c.left) \subseteq ToSet(q)
    <3> HIDE DEF left
    <3> QED
      BY <1>4, <1>8, <2>1, <2>2
  <2>4. Sure(c, astray[s]) => Covered(disk', memory[s], c)
    BY <2>2, <2>3 DEF Covered, Sure
  <2>5. c.left \subseteq c.plan /\ known[s] \cup found \subseteq memory[s] \cup astray[s] \cup c.plan
    <3> HIDE DEF left
    <3> QED
      BY <1>4, <2>1
  <2> QED
    BY <1>4, <2>4, <2>5 DEF CallSound
<1> HIDE DEF found, left
<1>12. Shared \/ CallSound(disk', known'[s], memory'[s], astray'[s], uses'[s])
  BY <1>1, <1>6, <1>7, <1>11
<1>13. memory' \in [Large!Sessions -> SUBSET Args] /\ astray' \in [Large!Sessions -> SUBSET Args]
  BY <1>1, <1>2
<1> QED
  BY <1>6, <1>7, <1>10, <1>12, <1>13, LargeMoves

LEMMA CallPuts ==
  ASSUME ArgsCounted, LargeInv, NEW s \in Large!Sessions, NEW d \in Args, Large!PutsBlob(s, d)
  PROVE  LargeInv'
<1> DEFINE left == uses[s].left
           c == [uses[s] EXCEPT !.left = @ \ {d}, !.at = IF left = {d} THEN "sent" ELSE "sending"]
           has == memory[s] \cup {d}
           knows == known[s] \cup {d}
<1>1. /\ uses[s].at = "sending" /\ d \in left
      /\ disk' = IF d \in Large!OnDisk THEN disk ELSE Large!Kept(disk, d)
      /\ known' = [known EXCEPT ![s] = @ \cup {d}] /\ memory' = [memory EXCEPT ![s] = @ \cup {d}]
      /\ uses' = [uses EXCEPT ![s].left = @ \ {d}, ![s].at = IF left = {d} THEN "sent" ELSE "sending"]
      /\ astray' = astray
  BY DEF Large!PutsBlob, Large!Stored
<1>2. /\ disk \in Once(Args) /\ known \in [Large!Sessions -> SUBSET Args]
      /\ memory \in [Large!Sessions -> SUBSET Args] /\ uses \in [Large!Sessions -> ArgCall]
      /\ astray \in [Large!Sessions -> SUBSET Args]
  BY DEF LargeInv, LargeTypes
<1>3. left \subseteq Args /\ uses[s] \in ArgCall /\ uses[s].plan \in SUBSET Args
  BY <1>2 DEF ArgCall
<1>4. c \in ArgCall /\ c.plan = uses[s].plan /\ c.left = left \ {d} /\ c.at \in {"sent", "sending"}
      /\ (c.at = "sent" => c.left = {})
  BY <1>3 DEF ArgCall
<1>5. uses' = [uses EXCEPT ![s] = c]
  BY <1>1, <1>2, <1>3 DEF ArgCall
<1> HIDE DEF c
<1>6. uses'[s] = c /\ uses' \in [Large!Sessions -> ArgCall]
  BY <1>2, <1>4, <1>5
<1>7. /\ known'[s] = knows /\ known' \in [Large!Sessions -> SUBSET Args]
      /\ memory'[s] = has /\ memory' \in [Large!Sessions -> SUBSET Args]
  BY <1>1, <1>2
<1>8. Large!OnDisk = ToSet(disk)
  BY DEF Large!OnDisk, Large!ToSet, ToSet
<1>9. disk' \in Once(Args)
  <2>1. CASE d \in ToSet(disk)
    BY <1>1, <1>2, <1>8, <2>1
  <2>2. CASE d \notin ToSet(disk)
    <3>1. Large!Kept(disk, d) \in Once(Args)
      BY <1>2, <2>2, KeepsEnds DEF ArgsCounted
    <3> QED
      BY <1>1, <1>8, <2>2, <3>1
  <2> QED
    BY <2>1, <2>2
<1>10. ASSUME Covered(disk, memory[s], uses[s]), Total(MCArgSize, uses[s].plan) <= Limit, left \subseteq uses[s].plan
       PROVE  Covered(disk', has, c)
  <2>1. PICK u \in Once(Args) :
          IsEnd(u, disk) /\ ToSet(u) \subseteq uses[s].plan /\ uses[s].plan \ (memory[s] \cup left) \subseteq ToSet(u)
    BY <1>10 DEF Covered
  <2>2. c.plan \ (has \cup c.left) \subseteq ToSet(u)
    BY <1>4, <2>1
  <2>3. CASE d \in ToSet(disk)
    <3>1. disk' = disk
      BY <1>1, <1>8, <2>3
    <3> HIDE DEF left, has
    <3> QED
      BY <1>4, <2>1, <2>2, <3>1 DEF Covered
  <2>4. CASE d \notin ToSet(disk)
    <3>1. disk' = Large!Kept(disk, d)
      BY <1>1, <1>8, <2>4
    <3>2. ToSet(u) \subseteq ToSet(disk)
      BY <1>2, <2>1, EndIs
    <3>3. d \notin ToSet(u) /\ ToSet(u) \cup {d} \subseteq uses[s].plan
      BY <1>1, <1>10, <2>1, <2>4, <3>2
    <3>4. Total(MCArgSize, ToSet(u) \cup {d}) <= Total(MCArgSize, uses[s].plan)
          /\ Weighed(MCArgSize, ToSet(u) \cup {d})
      BY <1>3, <3>3, BulkOf, TotalGrows
    <3>5. Total(MCArgSize, ToSet(u) \cup {d}) = MCArgSize[d] + Total(MCArgSize, ToSet(u))
      BY <3>3, <3>4, TotalWith
    <3>6. Large!Bytes(u) + MCArgSize[d] <= Limit
      <4>1. Large!Bytes(u) = Total(MCArgSize, ToSet(u)) /\ Large!Bytes(u) \in Nat
        BY SizeOf
      <4>2. Total(MCArgSize, uses[s].plan) \in Nat /\ Limit \in Nat /\ MCArgSize[d] \in Nat
        BY <1>3, BulkOf DEF ArgsCounted, MCArgSize
      <4> QED
        BY <1>10, <3>4, <3>5, <4>1, <4>2
    <3>7. IsEnd(Append(u, d), Large!Kept(disk, d))
      BY <1>2, <2>1, <2>4, <3>6, KeepsEnds DEF ArgsCounted
    <3>8. Append(u, d) \in Once(Args) /\ ToSet(Append(u, d)) = ToSet(u) \cup {d}
      <4>1. \A i \in 1 .. Len(u) : u[i] \in ToSet(u)
        BY DEF Once, ToSet
      <4>2. ~Contains(u, d)
        BY <3>3, <4>1 DEF Contains
      <4>3. Moved(u, d) = Append(u, d) /\ Moved(u, d) \in Once(Args) /\ ToSet(Moved(u, d)) = ToSet(u) \cup {d}
        BY <4>2, MovedNew
      <4> QED
        BY <4>3
    <3>9. ToSet(u) \cup {d} \subseteq c.plan /\ c.plan \ (has \cup c.left) \subseteq ToSet(u) \cup {d}
      BY <1>4, <2>2, <3>3
    <3> HIDE DEF has, left
    <3> QED
      BY <3>1, <3>7, <3>8, <3>9 DEF Covered
  <2> QED
    BY <2>3, <2>4
<1>11. ASSUME ~Shared PROVE CallSound(disk', knows, has, astray[s], c)
  <2>1. /\ left \subseteq uses[s].plan /\ known[s] \subseteq memory[s] \cup astray[s] \cup uses[s].plan
        /\ Sure(uses[s], astray[s]) => Covered(disk, memory[s], uses[s])
    BY <1>1, <1>11 DEF LargeInv, CallSound
  <2>2. Sure(c, astray[s]) => Covered(disk', has, c)
    BY <1>4, <1>10, <2>1 DEF Sure
  <2>3. c.left \subseteq c.plan /\ knows \subseteq has \cup astray[s] \cup c.plan
    BY <1>4, <2>1
  <2> HIDE DEF knows, has
  <2> QED
    BY <1>4, <2>2, <2>3 DEF CallSound
<1> HIDE DEF knows, has, left
<1>12. Shared \/ CallSound(disk', known'[s], memory'[s], astray'[s], uses'[s])
  BY <1>1, <1>6, <1>7, <1>11
<1>13. astray' \in [Large!Sessions -> SUBSET Args]
  BY <1>1, <1>2
<1> QED
  BY <1>6, <1>7, <1>9, <1>12, <1>13, LargeMoves

LEMMA CallResolves ==
  ASSUME ArgsCounted, LargeInv, NEW s \in Large!Sessions, Large!Resolves(s)
  PROVE  LargeInv'
<1>1. uses[s].at = "sent" /\ disk' = disk /\ known' = known /\ astray' = astray
  BY DEF Large!Resolves
<1>2. /\ disk \in Once(Args) /\ known \in [Large!Sessions -> SUBSET Args]
      /\ memory \in [Large!Sessions -> SUBSET Args] /\ uses \in [Large!Sessions -> ArgCall]
      /\ astray \in [Large!Sessions -> SUBSET Args] /\ uses[s] \in ArgCall /\ uses[s].plan \in SUBSET Args
  BY DEF LargeInv, LargeTypes, ArgCall
<1>3. Large!OnDisk = ToSet(disk)
  BY DEF Large!OnDisk, Large!ToSet, ToSet
<1>4. CASE uses[s].plan \subseteq memory[s] \cup Large!OnDisk
  <2>1. memory' = [memory EXCEPT ![s] = @ \cup uses[s].plan] /\ uses' = [uses EXCEPT ![s] = Large!NoCall]
    BY <1>4 DEF Large!Resolves
  <2>2. Large!NoCall \in ArgCall /\ Large!NoCall.at = "none"
    BY DEF Large!NoCall, ArgCall
  <2>3. /\ memory' \in [Large!Sessions -> SUBSET Args] /\ memory'[s] = memory[s] \cup uses[s].plan
        /\ uses' \in [Large!Sessions -> ArgCall] /\ uses'[s] = Large!NoCall
    BY <1>2, <2>1, <2>2
  <2>4. ASSUME ~Shared
        PROVE  CallSound(disk, known[s], memory[s] \cup uses[s].plan, astray[s], Large!NoCall)
    <3>1. known[s] \subseteq memory[s] \cup uses[s].plan \cup astray[s]
      BY <1>1, <2>4 DEF LargeInv, CallSound
    <3> QED
      BY <2>2, <3>1 DEF CallSound
  <2>5. Shared \/ CallSound(disk', known'[s], memory'[s], astray'[s], uses'[s])
    BY <1>1, <2>3, <2>4
  <2> QED
    BY <1>1, <1>2, <2>3, <2>5, LargeMoves
<1>5. CASE ~(uses[s].plan \subseteq memory[s] \cup Large!OnDisk)
  <2> DEFINE c == [uses[s] EXCEPT !.at = "unresolved"]
  <2>1. uses' = [uses EXCEPT ![s].at = "unresolved"]
    BY <1>5 DEF Large!Resolves
  <2>9. memory' \in [Large!Sessions -> SUBSET Args]
    <3>1. PICK some \in SUBSET (uses[s].plan \cap Large!OnDisk) : memory' = [memory EXCEPT ![s] = @ \cup some]
      BY <1>5 DEF Large!Resolves
    <3> QED
      BY <1>2, <3>1
  <2>2. c \in ArgCall /\ c.at = "unresolved" /\ c.plan = uses[s].plan
    BY <1>2 DEF ArgCall
  <2>3. uses' = [uses EXCEPT ![s] = c]
    BY <1>2, <2>1 DEF ArgCall
  <2> HIDE DEF c
  <2>4. uses' \in [Large!Sessions -> ArgCall] /\ uses'[s] = c
    BY <1>2, <2>2, <2>3
  <2>5. ASSUME ~Shared PROVE CallSound(disk', known'[s], memory'[s], astray'[s], c)
    <3>1. uses[s].left = {} /\ (Sure(uses[s], astray[s]) => Covered(disk, memory[s], uses[s]))
      BY <1>1, <2>5 DEF LargeInv, CallSound
    <3>2. ~Covered(disk, memory[s], uses[s])
      <4> SUFFICES ASSUME NEW u \in Once(Args), IsEnd(u, disk),
                          uses[s].plan \ (memory[s] \cup uses[s].left) \subseteq ToSet(u)
                   PROVE  FALSE
        BY DEF Covered
      <4>1. ToSet(u) \subseteq ToSet(disk)
        BY <1>2, EndIs
      <4> QED
        BY <1>3, <1>5, <3>1, <4>1
    <3>3. ~Sure(c, astray[s])
      BY <2>2, <3>1, <3>2 DEF Sure
    <3> QED
      BY <1>1, <2>2, <3>3 DEF CallSound
  <2>6. Shared \/ CallSound(disk', known'[s], memory'[s], astray'[s], uses'[s])
    BY <2>4, <2>5
  <2>7. /\ known' \in [Large!Sessions -> SUBSET Args] /\ memory' \in [Large!Sessions -> SUBSET Args]
        /\ astray' \in [Large!Sessions -> SUBSET Args] /\ disk' \in Once(Args)
    BY <1>1, <1>2, <2>9
  <2> QED
    BY <2>4, <2>6, <2>7, LargeMoves
<1> QED
  BY <1>4, <1>5

\* However far it got, what is known then is in memory or went astray.
LEMMA CallGivesUp ==
  ASSUME ArgsCounted, LargeInv, NEW s \in Large!Sessions, Large!GivesUp(s)
  PROVE  LargeInv'
<1>1. /\ known' = known /\ uses' = [uses EXCEPT ![s] = Large!NoCall] /\ Large!Halfway(s)
      /\ astray' = [astray EXCEPT ![s] = known[s] \ memory'[s]] /\ uses[s].at # "none"
  BY DEF Large!GivesUp
<1>2. /\ disk \in Once(Args) /\ known \in [Large!Sessions -> SUBSET Args]
      /\ memory \in [Large!Sessions -> SUBSET Args] /\ uses \in [Large!Sessions -> ArgCall]
      /\ astray \in [Large!Sessions -> SUBSET Args] /\ uses[s] \in ArgCall
      /\ uses[s].plan \in SUBSET Args /\ uses[s].left \in SUBSET Args
  BY DEF LargeInv, LargeTypes, ArgCall
<1>3. Large!OnDisk = ToSet(disk)
  BY DEF Large!OnDisk, Large!ToSet, ToSet
<1>4. ASSUME NEW d \in Args PROVE Large!Stored(d) \in Once(Args)
  <2>1. CASE d \in ToSet(disk)
    BY <1>2, <1>3, <2>1 DEF Large!Stored
  <2>2. CASE d \notin ToSet(disk)
    <3>1. Large!Kept(disk, d) \in Once(Args)
      BY <1>2, <2>2, KeepsEnds DEF ArgsCounted
    <3> QED
      BY <1>3, <2>2, <3>1 DEF Large!Stored
  <2> QED
    BY <2>1, <2>2
<1>5. Large!Touched(disk, uses[s].left \ memory[s]) \in Once(Args)
  <2>1. uses[s].left \ memory[s] \in SUBSET Args /\ IsFiniteSet(Args)
    BY <1>2 DEF ArgsCounted
  <2> QED
    BY <1>2, <2>1, Touches
<1>6. disk' \in Once(Args) /\ memory' \in [Large!Sessions -> SUBSET Args]
  <2>1. CASE uses[s].at = "asking"
    BY <1>1, <1>2, <1>5, <2>1 DEF Large!Halfway
  <2>2. CASE uses[s].at = "sending"
    <3>1. \/ disk' = disk /\ memory' = memory
          \/ \E d \in uses[s].left : memory' = [memory EXCEPT ![s] = @ \cup {d}] /\ disk' = disk
          \/ \E d \in uses[s].left : disk' = Large!Stored(d) /\ memory' = memory
      BY <1>1, <2>2 DEF Large!Halfway
    <3>2. CASE disk' = disk /\ memory' = memory
      BY <1>2, <3>2
    <3>3. ASSUME NEW d \in uses[s].left, memory' = [memory EXCEPT ![s] = @ \cup {d}], disk' = disk
          PROVE  disk' \in Once(Args) /\ memory' \in [Large!Sessions -> SUBSET Args]
      BY <1>2, <3>3
    <3>4. ASSUME NEW d \in uses[s].left, disk' = Large!Stored(d), memory' = memory
          PROVE  disk' \in Once(Args) /\ memory' \in [Large!Sessions -> SUBSET Args]
      BY <1>2, <1>4, <3>4
    <3> QED
      BY <3>1, <3>2, <3>3, <3>4
  <2>3. CASE uses[s].at = "sent"
    <3>1. disk' = disk /\ \E some \in SUBSET (uses[s].plan \cap Large!OnDisk) :
                            memory' = [memory EXCEPT ![s] = @ \cup some]
      BY <1>1, <2>3 DEF Large!Halfway
    <3> QED
      BY <1>2, <3>1
  <2>4. CASE uses[s].at = "unresolved"
    BY <1>1, <1>2, <2>4 DEF Large!Halfway
  <2> QED
    BY <1>1, <1>2, <2>1, <2>2, <2>3, <2>4 DEF ArgCall
<1>7. Large!NoCall \in ArgCall /\ Large!NoCall.at = "none"
  BY DEF Large!NoCall, ArgCall
<1>8. /\ uses' \in [Large!Sessions -> ArgCall] /\ uses'[s] = Large!NoCall
      /\ astray' \in [Large!Sessions -> SUBSET Args] /\ astray'[s] = known[s] \ memory'[s]
  BY <1>1, <1>2, <1>7
<1>9. known[s] \subseteq memory'[s] \cup astray'[s]
  BY <1>8
<1>10. CallSound(disk', known'[s], memory'[s], astray'[s], uses'[s])
  BY <1>1, <1>7, <1>8, <1>9 DEF CallSound
<1> QED
  BY <1>1, <1>2, <1>6, <1>8, <1>10, LargeMoves

LEMMA NextStarts ==
  ASSUME LargeInv, NEW s \in Large!Sessions, Large!NextSession(s)
  PROVE  LargeInv'
<1>1. /\ disk \in Once(Args) /\ known \in [Large!Sessions -> SUBSET Args]
      /\ memory \in [Large!Sessions -> SUBSET Args] /\ uses \in [Large!Sessions -> ArgCall]
      /\ astray \in [Large!Sessions -> SUBSET Args]
  BY DEF LargeInv, LargeTypes
<1>2. Large!NoCall \in ArgCall /\ Large!NoCall.at = "none"
  BY DEF Large!NoCall, ArgCall
<1>3. /\ disk' = disk /\ known' = [known EXCEPT ![s] = {}] /\ memory' = [memory EXCEPT ![s] = {}]
      /\ uses' = [uses EXCEPT ![s] = Large!NoCall] /\ astray' = [astray EXCEPT ![s] = {}]
  BY DEF Large!NextSession
<1>4. /\ uses' \in [Large!Sessions -> ArgCall] /\ uses'[s] = Large!NoCall
      /\ astray' \in [Large!Sessions -> SUBSET Args]
      /\ known' \in [Large!Sessions -> SUBSET Args] /\ known'[s] = {}
      /\ memory' \in [Large!Sessions -> SUBSET Args] /\ memory'[s] = {}
  BY <1>1, <1>2, <1>3
<1>5. CallSound(disk', known'[s], memory'[s], astray'[s], uses'[s])
  BY <1>2, <1>4 DEF CallSound
<1> QED
  BY <1>1, <1>3, <1>4, <1>5, LargeMoves

LEMMA LargeKept ==
  ASSUME ArgsCounted, LargeInv, [MCNext]_<<part, dataVars, outputVars, keepVars>>
  PROVE  LargeInv'
<1>1. CASE Large!ArgNext
  BY <1>1, CallBegins, CallAsks, CallPuts, CallResolves, CallGivesUp, NextStarts DEF Large!ArgNext
<1>2. CASE UNCHANGED argVars
  BY <1>2 DEF argVars, LargeInv, LargeTypes
<1> QED
  BY <1>1, <1>2 DEF MCNext, keepVars, homeVars

LEMMA LargeHolds == ASSUME ArgsCounted, LargeInv PROVE Large!FittingResolve
<1> SUFFICES ASSUME ~Shared, NEW s \in Large!Sessions, uses[s].at = "unresolved", uses[s].plan \cap astray[s] = {}
             PROVE  Large!Bytes(Large!SetToSeq(uses[s].plan)) > Limit
  BY DEF Large!FittingResolve
<1>1. ~Sure(uses[s], astray[s]) /\ uses[s].plan \in SUBSET Args
  BY DEF LargeInv, LargeTypes, CallSound, ArgCall
<1>2. ~(Total(MCArgSize, uses[s].plan) <= Limit)
  BY <1>1 DEF Sure
<1>3. Large!Bytes(Large!SetToSeq(uses[s].plan)) = Total(MCArgSize, uses[s].plan) /\ Total(MCArgSize, uses[s].plan) \in Nat
  BY <1>1, BulkOf
<1> QED
  BY <1>2, <1>3 DEF ArgsCounted

-----------------------------------------------------------------------------
(* The editor's history: the days that are kept, and what was spent on them. *)

Shown == 0 .. Full \cup {None}
Bucket == [day : Nat \ {0}, spent : Nat, last : Shown]
HistoryKept == Ordered /\ Full \in Nat /\ Days \in Nat \ {0} /\ None \notin Nat

SpentOf(days) == Polls!MapThenSumSet(LAMBDA i : days[i].spent, DOMAIN days)
LastOf(days) == IF days = <<>> THEN None ELSE days[Len(days)].last
Fall(last, value) == IF last # None /\ value # None /\ value < last THEN last - value ELSE 0

\* The days are in order, none is after now.
Spaced(days, now) ==
  /\ days \in Seq(Bucket)
  /\ \A i \in 1 .. Len(days) :
       days[i].day <= now /\ \A j \in i .. Len(days) : days[j].day - days[i].day >= j - i

\* g holds what was spent up to each day.
Adds(days, g) ==
  /\ g \in [0 .. Len(days) -> Int] /\ g[0] = 0
  /\ \A i \in 1 .. Len(days) : g[i] = g[i - 1] + days[i].spent

LEMMA SpentAdds ==
  ASSUME NEW days \in Seq(Bucket)
  PROVE  \E g \in [0 .. Len(days) -> Nat] : Adds(days, g) /\ SpentOf(days) = g[Len(days)]
<1> DEFINE n == Len(days)
           w == [i \in 1 .. n |-> days[i].spent]
           g == [i \in 0 .. n |-> Total(w, 1 .. i)]
           Is(f) == f = [s \in SUBSET (1 .. n) |-> IF s = {} THEN 0 ELSE days[Pick(s)].spent + f[s \ {Pick(s)}]]
           c == CHOOSE f : Is(f)
<1>1. n \in Nat /\ DOMAIN days = 1 .. n /\ \A i \in 1 .. n : days[i] \in Bucket
  OBVIOUS
<1>2. \A i \in 1 .. n : days[i].spent \in Nat
  BY <1>1 DEF Bucket
<1>3. \A i \in 1 .. n : w[i] = days[i].spent /\ w[i] \in Nat
  BY <1>2
<1>4. SpentOf(days) = c[1 .. n]
  BY <1>1 DEF SpentOf, Polls!MapThenSumSet, Polls!MapThenFoldSet, Pick
<1> HIDE DEF w
<1>5. \A i \in 0 .. n : Weighed(w, 1 .. i)
  <2> SUFFICES ASSUME NEW i \in 0 .. n PROVE Weighed(w, 1 .. i)
    OBVIOUS
  <2>1. IsFiniteSet(1 .. i)
    BY FS_Interval
  <2> QED
    BY <1>1, <1>3, <2>1 DEF Weighed
<1>6. IsFiniteSet(1 .. n)
  BY <1>1, FS_Interval
<1>7. PICK f : Sums(w, f, 1 .. n)
  BY <1>6, SumsExist
<1>8. \A s \in SUBSET (1 .. n) : s # {} => Pick(s) \in 1 .. n
  BY DEF Pick
<1>9. Is(f)
  <2>1. \A s \in SUBSET (1 .. n) : s # {} => w[Pick(s)] = days[Pick(s)].spent
    BY <1>3, <1>8
  <2> HIDE DEF n
  <2>2. f = [s \in SUBSET (1 .. n) |-> IF s = {} THEN 0 ELSE w[Pick(s)] + f[s \ {Pick(s)}]]
    BY <1>7 DEF Sums
  <2> QED
    BY <2>1, <2>2
<1>10. Is(c)
  BY <1>9
<1>11. Sums(w, c, 1 .. n)
  <2>1. \A s \in SUBSET (1 .. n) : s # {} => w[Pick(s)] = days[Pick(s)].spent
    BY <1>3, <1>8
  <2> HIDE DEF n, c
  <2> QED
    BY <1>10, <2>1 DEF Sums
<1>12. c[1 .. n] = Total(w, 1 .. n)
  <2> DEFINE all == 1 .. n
             t == CHOOSE h : Sums(w, h, all)
  <2>1. Sums(w, t, all) /\ Sums(w, c, all)
    BY <1>11
  <2>2. all \in SUBSET (all \cap all) /\ IsFiniteSet(all)
    BY <1>6
  <2> HIDE DEF all, t, c
  <2>3. c[all] = t[all]
    BY <2>1, <2>2, SumsAgree
  <2> QED
    BY <2>3 DEF Total, t, all
<1>13. \A i \in 0 .. n : g[i] \in Nat
  BY <1>5, TotalNat
<1>14. g[0] = 0
  <2>1. 1 .. 0 = {} /\ 0 \in 0 .. n
    BY <1>1
  <2> QED
    BY <2>1, TotalOf
<1>15. ASSUME NEW i \in 1 .. n PROVE g[i] = g[i - 1] + days[i].spent
  <2>1. i \in 0 .. n /\ i - 1 \in 0 .. n /\ i \in 1 .. i /\ (1 .. i) \ {i} = 1 .. i - 1
    BY <1>1
  <2>2. Total(w, 1 .. i) = w[i] + Total(w, (1 .. i) \ {i})
    BY <1>5, <2>1, TotalWithout
  <2>3. g[i] = w[i] + g[i - 1]
    BY <2>1, <2>2
  <2> QED
    BY <1>2, <1>3, <1>13, <2>1, <2>3
<1>16. g[n] = Total(w, 1 .. n)
  BY <1>1
<1> HIDE DEF g, c
<1>17. g \in [0 .. n -> Nat]
  BY <1>13 DEF g
<1> QED
  BY <1>4, <1>12, <1>14, <1>15, <1>16, <1>17 DEF Adds

\* They say what was spent.
LEMMA AddsAgree ==
  ASSUME NEW days \in Seq(Bucket), NEW g, Adds(days, g)
  PROVE  SpentOf(days) = g[Len(days)]
<1>1. PICK h \in [0 .. Len(days) -> Nat] : Adds(days, h) /\ SpentOf(days) = h[Len(days)]
  BY SpentAdds
<1> DEFINE n == Len(days)
           Same == {i \in 0 .. n : g[i] = h[i]}
<1>2. n \in Nat
  OBVIOUS
<1>3. 0 \in Same
  BY <1>1, <1>2 DEF Adds
<1>4. ASSUME NEW i \in 1 .. n, i - 1 \in Same PROVE i \in Same
  BY <1>1, <1>4 DEF Adds
<1> HIDE DEF Same
<1>5. n \in Same
  <2>1. \A i \in 0 .. n : i \in Same
    BY <1>2, <1>3, <1>4, Along
  <2> QED
    BY <1>2, <2>1
<1> QED
  BY <1>1, <1>5 DEF Same

\* A day that begins has the last value of the day before, and nothing was spent on it.
Opened(days) ==
  IF Len(days) > 0 /\ days[Len(days)].day = today THEN days
  ELSE Append(days, [day |-> today, spent |-> 0, last |-> IF Len(days) = 0 THEN None ELSE days[Len(days)].last])

LEMMA OpensDay ==
  ASSUME HistoryKept, today \in Nat \ {0}, NEW days, Spaced(days, today)
  PROVE  LET all == Opened(days)
         IN  /\ Spaced(all, today) /\ Len(all) \in Nat \ {0} /\ all[Len(all)].day = today
             /\ all[Len(all)].last = LastOf(days) /\ SpentOf(all) = SpentOf(days)
<1> DEFINE n == Len(days)
<1>1. days \in Seq(Bucket) /\ n \in Nat /\ DOMAIN days = 1 .. n /\ \A i \in 1 .. n : days[i] \in Bucket
  BY DEF Spaced
<1>2. CASE n > 0 /\ days[n].day = today
  <2>1. Opened(days) = days
    BY <1>2 DEF Opened
  <2>2. LastOf(days) = days[n].last
    BY <1>1, <1>2 DEF LastOf
  <2> QED
    BY <1>1, <1>2, <2>1, <2>2
<1>3. CASE ~(n > 0 /\ days[n].day = today)
  <2> DEFINE bucket == [day |-> today, spent |-> 0, last |-> IF n = 0 THEN None ELSE days[n].last]
             all == Append(days, bucket)
  <2>1. Opened(days) = all
    BY <1>3 DEF Opened
  <2>2. (IF n = 0 THEN None ELSE days[n].last) = LastOf(days) /\ LastOf(days) \in Shown
    <3>1. CASE n = 0
      BY <1>1, <3>1 DEF LastOf, Shown
    <3>2. CASE n # 0
      <4>1. n \in 1 .. n /\ days # <<>>
        BY <1>1, <3>2
      <4> QED
        BY <1>1, <3>2, <4>1 DEF LastOf, Bucket
    <3> QED
      BY <3>1, <3>2
  <2>3. bucket \in Bucket /\ bucket.day = today /\ bucket.spent = 0 /\ bucket.last = LastOf(days)
    BY <2>2 DEF Bucket
  <2> HIDE DEF bucket
  <2>4. /\ all \in Seq(Bucket) /\ Len(all) = n + 1 /\ all[n + 1] = bucket
        /\ \A i \in 1 .. n : all[i] = days[i]
    BY <1>1, <2>3
  <2> HIDE DEF all
  <2>5. Spaced(all, today)
    <3>1. ASSUME NEW i \in 1 .. n PROVE today - days[i].day >= (n + 1) - i
      <4>1. n \in i .. n /\ n \in 1 .. n
        BY <1>1
      <4>2. days[n].day - days[i].day >= n - i /\ days[n].day <= today
        BY <4>1 DEF Spaced
      <4>3. days[n].day \in Nat /\ days[i].day \in Nat /\ days[n].day # today
        BY <1>1, <1>3, <4>1 DEF Bucket
      <4> QED
        BY <1>1, <4>2, <4>3
    <3>2. ASSUME NEW i \in 1 .. n + 1
          PROVE  all[i].day <= today /\ \A j \in i .. n + 1 : all[j].day - all[i].day >= j - i
      <4>1. CASE i = n + 1
        BY <1>1, <2>3, <2>4, <4>1
      <4>2. CASE i # n + 1
        <5>1. i \in 1 .. n /\ all[i] = days[i] /\ days[i].day <= today
          BY <1>1, <2>4, <4>2 DEF Spaced
        <5>2. \A j \in i .. n : all[j] = days[j] /\ days[j].day - days[i].day >= j - i
          BY <1>1, <2>4, <5>1 DEF Spaced
        <5>3. all[n + 1].day - all[i].day >= (n + 1) - i
          BY <2>3, <2>4, <3>1, <5>1
        <5>4. ASSUME NEW j \in i .. n + 1 PROVE all[j].day - all[i].day >= j - i
          <6>1. j = n + 1 \/ j \in i .. n
            BY <1>1
          <6> QED
            BY <5>1, <5>2, <5>3, <6>1
        <5> QED
          BY <5>1, <5>4
      <4> QED
        BY <4>1, <4>2
    <3> QED
      BY <2>4, <3>2 DEF Spaced
  <2>6. SpentOf(all) = SpentOf(days)
    <3>1. PICK g \in [0 .. n -> Nat] : Adds(days, g) /\ SpentOf(days) = g[n]
      BY <1>1, SpentAdds
    <3> DEFINE h == [i \in 0 .. n + 1 |-> IF i = n + 1 THEN g[n] ELSE g[i]]
    <3>2. n \in 0 .. n /\ h \in [0 .. n + 1 -> Int] /\ h[n + 1] = g[n] /\ \A i \in 0 .. n : h[i] = g[i]
      BY <1>1, <3>1
    <3> HIDE DEF h
    <3>3. h[0] = 0
      BY <1>1, <3>1, <3>2 DEF Adds
    <3>4. ASSUME NEW i \in 1 .. n + 1 PROVE h[i] = h[i - 1] + all[i].spent
      <4>1. CASE i = n + 1
        <5>1. i - 1 = n
          BY <1>1, <4>1
        <5> QED
          BY <2>3, <2>4, <3>1, <3>2, <4>1, <5>1
      <4>2. CASE i # n + 1
        <5>1. i \in 1 .. n /\ i \in 0 .. n /\ i - 1 \in 0 .. n
          BY <1>1, <4>2
        <5> QED
          BY <2>4, <3>1, <3>2, <5>1 DEF Adds
      <4> QED
        BY <4>1, <4>2
    <3>5. Adds(all, h)
      BY <2>4, <3>2, <3>3, <3>4 DEF Adds
    <3>6. SpentOf(all) = h[n + 1]
      BY <2>4, <3>5, AddsAgree
    <3> QED
      BY <3>1, <3>2, <3>6
  <2> QED
    BY <1>1, <2>1, <2>3, <2>4, <2>5, <2>6
<1> QED
  BY <1>2, <1>3

\* What was spent is added to the day that is open.
Filled(days, fall, value) ==
  [days EXCEPT ![Len(days)] =
     [days[Len(days)] EXCEPT !.spent = @ + fall, !.last = IF value = None THEN @ ELSE value]]

LEMMA FillsDay ==
  ASSUME HistoryKept, NEW days, Spaced(days, today), Len(days) \in Nat \ {0}, NEW fall \in Nat, NEW value \in Shown
  PROVE  LET all == Filled(days, fall, value)
         IN  /\ Spaced(all, today) /\ Len(all) = Len(days) /\ all[Len(days)].day = days[Len(days)].day
             /\ LastOf(all) = (IF value = None THEN days[Len(days)].last ELSE value)
             /\ SpentOf(all) = SpentOf(days) + fall
<1> DEFINE n == Len(days)
           filled == [days[n] EXCEPT !.spent = @ + fall, !.last = IF value = None THEN @ ELSE value]
           all == [days EXCEPT ![n] = filled]
<1>1. days \in Seq(Bucket) /\ n \in Nat /\ n \in 1 .. n /\ DOMAIN days = 1 .. n /\ \A i \in 1 .. n : days[i] \in Bucket
  BY DEF Spaced
<1>9. Filled(days, fall, value) = all
  BY DEF Filled
<1>2. days[n] \in Bucket
  BY <1>1
<1>3. /\ filled \in Bucket /\ filled.day = days[n].day /\ filled.spent = days[n].spent + fall
      /\ filled.last = IF value = None THEN days[n].last ELSE value
  <2> DEFINE b == days[n]
             last == IF value = None THEN b.last ELSE value
             spent == b.spent + fall
  <2>1. filled = [[b EXCEPT !.spent = spent] EXCEPT !.last = last]
    OBVIOUS
  <2>2. b \in Bucket
    BY <1>2
  <2> HIDE DEF b
  <2>3. last \in Shown /\ spent \in Nat
    BY <2>2 DEF Bucket
  <2> HIDE DEF last, spent
  <2>4. filled \in Bucket /\ filled.day = b.day /\ filled.spent = spent /\ filled.last = last
    BY <2>1, <2>2, <2>3 DEF Bucket
  <2> QED
    BY <2>4 DEF b, last, spent
<1> HIDE DEF filled
<1>4. /\ all \in Seq(Bucket) /\ Len(all) = n /\ all[n] = filled
      /\ \A i \in 1 .. n : i # n => all[i] = days[i]
  BY <1>1, <1>3
<1> HIDE DEF all
<1>5. \A i \in 1 .. n : all[i].day = days[i].day
  BY <1>3, <1>4
<1>6. Spaced(all, today)
  <2>1. \A i \in 1 .. n : days[i].day <= today /\ \A j \in i .. n : days[j].day - days[i].day >= j - i /\ j \in 1 .. n
    BY <1>1 DEF Spaced
  <2> QED
    BY <1>4, <1>5, <2>1 DEF Spaced
<1>7. LastOf(all) = filled.last
  <2>1. all # <<>>
    BY <1>1, <1>4
  <2> QED
    BY <1>4, <2>1 DEF LastOf
<1>8. SpentOf(all) = SpentOf(days) + fall
  <2>1. PICK g \in [0 .. n -> Nat] : Adds(days, g) /\ SpentOf(days) = g[n]
    BY <1>1, SpentAdds
  <2> DEFINE h == [i \in 0 .. n |-> IF i = n THEN g[n] + fall ELSE g[i]]
  <2>2. n \in 0 .. n /\ h \in [0 .. n -> Int] /\ h[n] = g[n] + fall /\ \A i \in 0 .. n : i # n => h[i] = g[i]
    <3>1. n \in 0 .. n /\ \A i \in 0 .. n : g[i] \in Nat
      BY <1>1, <2>1
    <3> HIDE DEF n
    <3> QED
      BY <3>1
  <2> HIDE DEF h
  <2>3. h[0] = 0
    <3>1. 0 \in 0 .. n /\ n # 0
      BY <1>1
    <3> QED
      BY <2>1, <2>2, <3>1 DEF Adds
  <2>4. ASSUME NEW i \in 1 .. n PROVE h[i] = h[i - 1] + all[i].spent
    <3>1. i \in 0 .. n /\ i - 1 \in 0 .. n /\ i - 1 # n
      BY <1>1
    <3>2. h[i - 1] = g[i - 1] /\ g[i] = g[i - 1] + days[i].spent
      BY <2>1, <2>2, <3>1 DEF Adds
    <3>3. days[i].spent \in Nat /\ g[i - 1] \in Nat /\ g[i] \in Nat
      BY <1>1, <2>1, <3>1 DEF Bucket
    <3>4. CASE i = n
      <4>1. h[i] = g[i] + fall /\ all[i].spent = days[i].spent + fall
        BY <1>3, <1>4, <2>2, <3>4
      <4> QED
        BY <3>2, <3>3, <4>1
    <3>5. CASE i # n
      BY <1>4, <2>2, <3>1, <3>2, <3>5
    <3> QED
      BY <3>4, <3>5
  <2>5. Adds(all, h)
    BY <1>4, <2>2, <2>3, <2>4 DEF Adds
  <2>6. SpentOf(all) = h[n]
    BY <1>4, <2>5, AddsAgree
  <2> QED
    BY <2>1, <2>2, <2>6
<1> QED
  BY <1>1, <1>3, <1>4, <1>6, <1>7, <1>8, <1>9

\* The days that are too old are the first ones, and in the first Days days there are none.
LEMMA KeepsRecent ==
  ASSUME HistoryKept, today \in Nat \ {0}, NEW days, Spaced(days, today), Len(days) \in Nat \ {0},
         days[Len(days)].day = today
  PROVE  LET all == Polls!Recent(days)
         IN  /\ Spaced(all, today) /\ Len(all) \in 1 .. Days /\ LastOf(all) = LastOf(days)
             /\ SpentOf(all) <= SpentOf(days) /\ (today <= Days => SpentOf(all) = SpentOf(days))
<1> DEFINE n == Len(days)
           kept == {i \in 1 .. n : days[i].day > today - Days}
           k == Polls!Min(kept)
           all == SubSeq(days, k, n)
<1>1. days \in Seq(Bucket) /\ n \in Nat /\ n \in 1 .. n /\ DOMAIN days = 1 .. n /\ \A i \in 1 .. n : days[i] \in Bucket
  BY DEF Spaced
<1>2. Polls!Recent(days) = all
  BY <1>1 DEF Polls!Recent
<1>3. Days \in Nat \ {0} /\ today \in Nat /\ None \notin Nat
  BY DEF HistoryKept
<1>4. n \in kept /\ kept \subseteq Nat
  BY <1>1, <1>3
<1>5. k \in kept
  <2> HIDE DEF kept
  <2>1. \E i \in kept : \A j \in kept : i <= j
    BY <1>4, LeastNat
  <2> QED
    BY <2>1 DEF Polls!Min
<1>6. k \in 1 .. n /\ days[k].day > today - Days /\ days[k].day \in Nat \ {0}
  BY <1>1, <1>5 DEF Bucket
<1>7. today <= Days => k = 1
  <2> SUFFICES ASSUME today <= Days PROVE k = 1
    OBVIOUS
  <2>1. 1 \in 1 .. n /\ days[1].day \in Nat \ {0}
    BY <1>1 DEF Bucket
  <2>2. 1 \in kept
    BY <1>3, <2>1
  <2>3. \A j \in kept : 1 <= j
    OBVIOUS
  <2> HIDE DEF kept
  <2>4. k <= 1
    <3>1. \A j \in kept : k <= j
      BY <2>2, <2>3 DEF Polls!Min
    <3> QED
      BY <2>2, <3>1
  <2> QED
    BY <1>6, <2>4
<1> HIDE DEF k
<1> DEFINE m == n - k + 1
<1>8. m \in Nat \ {0} /\ k - 1 + m = n /\ k - 1 \in 0 .. n
  BY <1>1, <1>6
<1>9. all \in Seq(Bucket) /\ Len(all) = m /\ \A i \in 1 .. m : all[i] = days[k - 1 + i]
  <2>1. k \in Nat /\ k >= 1 /\ k <= n + 1
    BY <1>1, <1>6
  <2> QED
    BY <1>1, <2>1
<1>10. \A i \in 1 .. m : k - 1 + i \in 1 .. n
  BY <1>1, <1>6
<1> HIDE DEF all
<1>11. Spaced(all, today)
  <2>1. ASSUME NEW i \in 1 .. m, NEW j \in i .. m PROVE all[j].day - all[i].day >= j - i
    <3>1. j \in 1 .. m /\ k - 1 + j \in k - 1 + i .. n /\ k - 1 + i \in 1 .. n /\ (k - 1 + j) - (k - 1 + i) = j - i
      BY <1>6, <1>8
    <3>2. days[k - 1 + j].day - days[k - 1 + i].day >= (k - 1 + j) - (k - 1 + i)
      BY <3>1 DEF Spaced
    <3> QED
      BY <1>9, <3>1, <3>2
  <2>2. \A i \in 1 .. m : all[i].day <= today
    BY <1>9, <1>10 DEF Spaced
  <2> HIDE DEF m
  <2> QED
    BY <1>9, <2>1, <2>2 DEF Spaced
<1>12. m <= Days
  <2>1. 1 \in 1 .. m /\ m \in 1 .. m
    BY <1>8
  <2>2. all[m] = days[n] /\ all[1] = days[k]
    <3>1. k - 1 + 1 = k
      BY <1>6
    <3> QED
      BY <1>8, <1>9, <2>1, <3>1
  <2>3. all[m].day - all[1].day >= m - 1
    BY <1>9, <1>8, <1>11, <2>1 DEF Spaced
  <2>4. today - days[k].day >= m - 1 /\ today - days[k].day < Days
    BY <1>3, <1>6, <2>2, <2>3
  <2> HIDE DEF m
  <2> QED
    BY <1>3, <1>6, <1>8, <2>4
<1>13. LastOf(all) = LastOf(days)
  <2>1. all # <<>> /\ days # <<>> /\ m \in 1 .. m
    BY <1>1, <1>8, <1>9
  <2>2. all[m] = days[n]
    BY <1>8, <1>9, <2>1
  <2> QED
    BY <1>9, <2>1, <2>2 DEF LastOf
<1>14. PICK g \in [0 .. n -> Nat] : Adds(days, g) /\ SpentOf(days) = g[n]
  BY <1>1, SpentAdds
<1> DEFINE h == [i \in 0 .. m |-> g[k - 1 + i] - g[k - 1]]
<1>15. \A i \in 0 .. m : k - 1 + i \in 0 .. n
  BY <1>1, <1>6
<1>16. h \in [0 .. m -> Int] /\ \A i \in 0 .. m : h[i] = g[k - 1 + i] - g[k - 1]
  BY <1>8, <1>14, <1>15
<1> HIDE DEF h
<1>17. h[0] = 0
  BY <1>8, <1>14, <1>16
<1>18. ASSUME NEW i \in 1 .. m PROVE h[i] = h[i - 1] + all[i].spent
  <2>1. i \in 0 .. m /\ i - 1 \in 0 .. m /\ k - 1 + i \in 1 .. n /\ k - 1 + (i - 1) = (k - 1 + i) - 1
    BY <1>6, <1>8, <1>10
  <2>2. g[k - 1 + i] = g[(k - 1 + i) - 1] + days[k - 1 + i].spent
    BY <1>14, <2>1 DEF Adds
  <2>3. h[i] = g[k - 1 + i] - g[k - 1] /\ h[i - 1] = g[(k - 1 + i) - 1] - g[k - 1] /\ all[i] = days[k - 1 + i]
    BY <1>9, <1>16, <2>1
  <2>4. days[k - 1 + i].spent \in Nat /\ g[(k - 1 + i) - 1] \in Nat /\ g[k - 1] \in Nat
    BY <1>1, <1>8, <1>14, <1>15, <2>1 DEF Bucket
  <2> QED
    BY <2>2, <2>3, <2>4
<1>19. SpentOf(all) = h[m]
  <2> HIDE DEF m
  <2>1. Adds(all, h)
    BY <1>9, <1>16, <1>17, <1>18 DEF Adds
  <2> QED
    BY <1>9, <2>1, AddsAgree
<1>20. h[m] = g[n] - g[k - 1] /\ g[n] \in Nat /\ g[k - 1] \in Nat /\ (k = 1 => g[k - 1] = 0)
  <2>1. m \in 0 .. m /\ n \in 0 .. n
    BY <1>1, <1>8
  <2>2. h[m] = g[k - 1 + m] - g[k - 1]
    BY <1>16, <2>1
  <2>3. k = 1 => g[k - 1] = 0
    BY <1>14 DEF Adds
  <2> QED
    BY <1>8, <1>14, <2>1, <2>2, <2>3
<1>21. SpentOf(all) <= SpentOf(days) /\ (today <= Days => SpentOf(all) = SpentOf(days))
  BY <1>7, <1>14, <1>19, <1>20
<1>22. Len(all) \in 1 .. Days
  BY <1>3, <1>8, <1>9, <1>12
<1> QED
  BY <1>2, <1>11, <1>13, <1>21, <1>22

\* What recordSample does with the history and one value.
LEMMA Records ==
  ASSUME HistoryKept, today \in Nat \ {0}, NEW days, Spaced(days, today), LastOf(days) \in Shown, NEW value \in Shown
  PROVE  LET all == Polls!RecordSample(days, value)
             fall == Fall(LastOf(days), value)
         IN  /\ Spaced(all, today) /\ Len(all) \in 1 .. Days
             /\ LastOf(all) = (IF value = None THEN LastOf(days) ELSE value)
             /\ SpentOf(all) <= SpentOf(days) + fall /\ (today <= Days => SpentOf(all) = SpentOf(days) + fall)
<1> DEFINE opened == Opened(days)
           m == Len(opened)
           bucket == opened[m]
           fall == IF bucket.last # None /\ value # None /\ value < bucket.last THEN bucket.last - value ELSE 0
           full == Filled(opened, fall, value)
<1>1. Polls!RecordSample(days, value) = Polls!Recent(full)
  BY DEF Polls!RecordSample, Opened, Filled
<1>2. /\ Spaced(opened, today) /\ m \in Nat \ {0} /\ bucket.day = today
      /\ bucket.last = LastOf(days) /\ SpentOf(opened) = SpentOf(days)
  BY OpensDay
<1>3. fall = Fall(LastOf(days), value) /\ fall \in Nat
  <2>1. fall = Fall(LastOf(days), value)
    BY <1>2 DEF Fall
  <2>2. Fall(LastOf(days), value) \in Nat
    BY DEF Fall, Shown, HistoryKept
  <2> HIDE DEF fall
  <2> QED
    BY <2>1, <2>2
<1> HIDE DEF opened, fall
<1>4. /\ Spaced(full, today) /\ Len(full) = m /\ full[m].day = bucket.day
      /\ LastOf(full) = (IF value = None THEN bucket.last ELSE value)
      /\ SpentOf(full) = SpentOf(opened) + fall
  BY <1>2, <1>3, FillsDay
<1> HIDE DEF full, m
<1>5. LET all == Polls!Recent(full)
      IN  /\ Spaced(all, today) /\ Len(all) \in 1 .. Days /\ LastOf(all) = LastOf(full)
          /\ SpentOf(all) <= SpentOf(full) /\ (today <= Days => SpentOf(all) = SpentOf(full))
  <2>1. Spaced(full, today) /\ Len(full) \in Nat \ {0} /\ full[Len(full)].day = today
    BY <1>2, <1>4
  <2> QED
    BY <2>1, KeepsRecent
<1> QED
  BY <1>1, <1>2, <1>3, <1>4, <1>5

\* A value that was read before another when m, and the other when n, had been spent in all:  the
\* quota rises by a top up and falls by what is spent.
Before(v, m, w, n) == m <= n /\ (v # None /\ w # None => v + m <= w + n)
Exact(v, m) == topped = 0 /\ v # None => v + m = Full

\* What had been spent when the last sample, the usage shown and each waiting answer were read.
Ages(l, u, a) ==
  /\ Before(LastOf(history), l, usage, u) /\ Before(LastOf(history), l, quota, spending)
  /\ Before(usage, u, quota, spending)
  /\ \A i \in ToSet(answers) :
       /\ Before(LastOf(history), l, refresh[i].value, a[i]) /\ Before(usage, u, refresh[i].value, a[i])
       /\ Before(refresh[i].value, a[i], quota, spending) /\ Exact(refresh[i].value, a[i])
  /\ \A p, q \in DOMAIN answers :
       p < q => Before(refresh[answers[p]].value, a[answers[p]], refresh[answers[q]].value, a[answers[q]])
  /\ Exact(LastOf(history), l) /\ Exact(usage, u) /\ Exact(quota, spending)
  /\ SpentOf(history) <= l

Refresh == [stage : {"idle", "runs", "read", "failed", "shown", "saving"}, by : {"timer", "all"}, value : Shown]

PollsTyped ==
  /\ quota \in 0 .. Full /\ spending \in Nat /\ topped \in Nat /\ today \in Nat \ {0}
  /\ usage \in Shown /\ first \in Shown /\ refreshing \in BOOLEAN /\ refresh \in [Slots -> Refresh]
  /\ answers \in Once(Slots) /\ ToSet(answers) = {i \in Slots : refresh[i].stage = "read"}
  /\ Spaced(history, today) /\ Len(history) <= Days

OneRefreshes ==
  /\ \A i \in Slots : refresh[i].stage = "idle" => refresh[i].by = "timer"
  /\ \A i, j \in Slots : refresh[i].by = "all" /\ refresh[j].by = "all" => i = j
  /\ refreshing <=> \E i \in Slots : refresh[i].by = "all"

Reckoned ==
  /\ first = None <=> LastOf(history) = None
  /\ LastOf(history) = None => SpentOf(history) = 0
  /\ topped = 0 /\ today <= Days /\ first # None => SpentOf(history) = first - LastOf(history)
  /\ \E l, u \in Nat : \E a \in [Slots -> Nat] : Ages(l, u, a)

PollsInv == PollsTyped /\ OneRefreshes /\ Reckoned

LEMMA LastIs ==
  ASSUME NEW days, NEW now, Spaced(days, now)
  PROVE  LastOf(days) \in Shown /\ SpentOf(days) \in Nat
<1>1. days \in Seq(Bucket) /\ Len(days) \in Nat
  BY DEF Spaced
<1>2. LastOf(days) \in Shown
  <2>1. CASE days = <<>>
    BY <2>1 DEF LastOf, Shown
  <2>2. CASE days # <<>>
    <3>1. days[Len(days)] \in Bucket
      BY <1>1, <2>2
    <3> QED
      BY <2>2, <3>1 DEF LastOf, Bucket
  <2> QED
    BY <2>1, <2>2
<1>3. PICK g \in [0 .. Len(days) -> Nat] : Adds(days, g) /\ SpentOf(days) = g[Len(days)]
  BY <1>1, SpentAdds
<1> QED
  BY <1>1, <1>2, <1>3

LEMMA PollsStart == ASSUME HistoryKept, Polls!PollsInit PROVE PollsInv
<1>1. /\ quota = Full /\ spending = 0 /\ topped = 0 /\ today = 1
      /\ usage = None /\ refreshing = FALSE /\ refresh = [i \in Slots |-> Polls!Resting]
      /\ history = <<>> /\ first = None /\ answers = <<>>
  BY DEF Polls!PollsInit
<1>2. Polls!Resting \in Refresh /\ Polls!Resting.stage = "idle" /\ Polls!Resting.by = "timer"
  BY DEF Polls!Resting, Refresh, Shown
<1>3. <<>> \in Once(Slots) /\ ToSet(<<>>) = {}
  BY DEF Once, IsInjective, ToSet
<1>4. Spaced(<<>>, 1) /\ Len(<<>>) = 0
  BY DEF Spaced
<1>5. PollsTyped
  <2>1. quota \in 0 .. Full /\ spending \in Nat /\ topped \in Nat /\ today \in Nat \ {0}
    BY <1>1 DEF HistoryKept
  <2>2. usage \in Shown /\ first \in Shown /\ refreshing \in BOOLEAN
    BY <1>1 DEF Shown
  <2>3. refresh \in [Slots -> Refresh] /\ {i \in Slots : refresh[i].stage = "read"} = {}
    BY <1>1, <1>2
  <2>4. Spaced(history, today) /\ Len(history) <= Days
    BY <1>1, <1>4 DEF HistoryKept
  <2> QED
    BY <1>1, <1>3, <2>1, <2>2, <2>3, <2>4 DEF PollsTyped
<1>6. OneRefreshes
  BY <1>1, <1>2 DEF OneRefreshes
<1>7. LastOf(<<>>) = None
  BY DEF LastOf
<1>8. SpentOf(<<>>) = 0
  <2> DEFINE none == <<>>
  <2>1. none \in Seq(Bucket) /\ Len(none) = 0
    OBVIOUS
  <2> HIDE DEF none
  <2>2. PICK g \in [0 .. Len(none) -> Nat] : Adds(none, g) /\ SpentOf(none) = g[Len(none)]
    BY <2>1, SpentAdds
  <2>3. SpentOf(none) = 0
    BY <2>1, <2>2 DEF Adds
  <2> QED
    BY <2>3 DEF none
<1>9. \E l, u \in Nat : \E a \in [Slots -> Nat] : Ages(l, u, a)
  <2> DEFINE a == [i \in Slots |-> 0]
  <2>1. a \in [Slots -> Nat]
    OBVIOUS
  <2> HIDE DEF a
  <2>2. Ages(0, 0, a)
    <3>1. \A p \in DOMAIN answers : FALSE
      BY <1>1
    <3>2. ToSet(answers) = {}
      BY <1>1, <1>3
    <3> QED
      BY <1>1, <1>7, <1>8, <3>1, <3>2 DEF Ages, Before, Exact, HistoryKept
  <2> QED
    BY <2>1, <2>2
<1>10. Reckoned
  BY <1>1, <1>7, <1>8, <1>9 DEF Reckoned
<1> QED
  BY <1>5, <1>6, <1>10 DEF PollsInv

LEMMA PollsHold ==
  ASSUME HistoryKept, PollsInv
  PROVE  Polls!PollsTypeOK /\ Polls!SpentHonest /\ Polls!SpendingCounted /\ Polls!RefreshGuarded
<1>1. PollsTyped /\ OneRefreshes /\ Reckoned
  BY DEF PollsInv
<1>2. SpentOf(history) = Polls!Spent /\ SpentOf(history) \in Nat
  BY <1>1, LastIs DEF SpentOf, Polls!Spent, Polls!MapThenSumSet, Polls!MapThenFoldSet, PollsTyped
<1>3. Polls!PollsTypeOK
  <2>1. \A i \in DOMAIN history : history[i].spent \in Nat
    <3>1. history \in Seq(Bucket)
      BY <1>1 DEF PollsTyped, Spaced
    <3>2. \A i \in DOMAIN history : history[i] \in Bucket
      BY <3>1
    <3> QED
      BY <3>2 DEF Bucket
  <2>2. \A i \in Slots : refresh[i].stage \in {"idle", "runs", "read", "failed", "shown", "saving"}
    BY <1>1 DEF PollsTyped, Refresh
  <2> QED
    BY <1>1, <2>1, <2>2 DEF Polls!PollsTypeOK, PollsTyped, Shown
<1>4. Polls!SpentHonest
  <2>1. PICK l \in Nat, u \in Nat, a \in [Slots -> Nat] : Ages(l, u, a)
    BY <1>1 DEF Reckoned
  <2>2. SpentOf(history) <= l /\ l <= spending
    BY <2>1 DEF Ages, Before
  <2>3. SpentOf(history) \in Nat /\ spending \in Nat
    BY <1>1, <1>2 DEF PollsTyped
  <2>4. SpentOf(history) <= spending
    BY <2>2, <2>3
  <2> QED
    BY <1>2, <2>4 DEF Polls!SpentHonest
<1>5. Polls!SpendingCounted
  <2> SUFFICES ASSUME topped = 0, today <= Days, first # None
               PROVE  history[Len(history)].last # None /\ Polls!Spent = first - history[Len(history)].last
    BY DEF Polls!SpendingCounted
  <2>1. LastOf(history) # None /\ SpentOf(history) = first - LastOf(history)
    BY <1>1 DEF Reckoned
  <2>2. LastOf(history) = history[Len(history)].last
    BY <2>1 DEF LastOf
  <2> QED
    BY <1>2, <2>1, <2>2
<1>6. Polls!RefreshGuarded
  BY <1>1 DEF OneRefreshes, Polls!RefreshGuarded
<1> QED
  BY <1>3, <1>4, <1>5, <1>6

LEMMA AgesStay ==
  ASSUME NEW l \in Nat, NEW u \in Nat, NEW a \in [Slots -> Nat], Ages(l, u, a),
         quota' = quota, spending' = spending, topped' = topped, usage' = usage, history' = history, answers' = answers,
         \A i \in ToSet(answers) : refresh'[i].value = refresh[i].value
  PROVE  Ages(l, u, a)'
<1>1. \A p \in DOMAIN answers : answers[p] \in ToSet(answers)
  BY DEF ToSet
<1>2. \A p \in DOMAIN answers : refresh'[answers[p]].value = refresh[answers[p]].value
  BY <1>1
<1>3. /\ Before(LastOf(history), l, usage, u) /\ Before(LastOf(history), l, quota, spending)
      /\ Before(usage, u, quota, spending)
      /\ Exact(LastOf(history), l) /\ Exact(usage, u) /\ Exact(quota, spending)
      /\ SpentOf(history) <= l
  BY DEF Ages
<1>4. \A i \in ToSet(answers) :
        /\ Before(LastOf(history), l, refresh'[i].value, a[i]) /\ Before(usage, u, refresh'[i].value, a[i])
        /\ Before(refresh'[i].value, a[i], quota, spending) /\ Exact(refresh'[i].value, a[i])
  BY DEF Ages
<1>5. \A p, q \in DOMAIN answers :
        p < q => Before(refresh'[answers[p]].value, a[answers[p]], refresh'[answers[q]].value, a[answers[q]])
  BY <1>2 DEF Ages
<1> QED
  BY <1>3, <1>4, <1>5 DEF Ages, Exact

LEMMA BeforeOn ==
  ASSUME HistoryKept, NEW v \in Shown, NEW m \in Nat, NEW w \in Nat, NEW n \in Nat, NEW x \in Nat, NEW k \in Nat,
         Before(v, m, w, n), k >= n, x + k >= w + n
  PROVE  Before(v, m, x, k)
<1>1. w # None /\ m <= n /\ (v # None => v \in Nat /\ v + m <= w + n)
  BY DEF Before, Shown, HistoryKept
<1> QED
  BY <1>1 DEF Before

LEMMA WorldKeeps ==
  ASSUME HistoryKept, PollsInv, Polls!World,
         UNCHANGED <<usage, refreshing, refresh, history, first, answers>>
  PROVE  PollsInv'
<1>1. PollsTyped /\ OneRefreshes /\ Reckoned
  BY DEF PollsInv
<1>2. /\ quota' \in 0 .. Full /\ spending' \in Nat /\ topped' \in Nat /\ today' \in Nat \ {0} /\ today' >= today
      /\ topped' = 0 => topped = 0 /\ quota' + spending' = quota + spending
      /\ spending' >= spending /\ quota' + spending' >= quota + spending
      /\ quota \in Nat /\ spending \in Nat /\ today \in Nat /\ topped \in Nat
  BY <1>1 DEF Polls!World, Polls!Spends, Polls!TopsUp, Polls!Midnight, PollsTyped, HistoryKept
<1>3. PollsTyped'
  <2>1. Spaced(history, today')
    <3>1. history \in Seq(Bucket) /\ \A i \in 1 .. Len(history) : history[i] \in Bucket
      BY <1>1 DEF PollsTyped, Spaced
    <3>2. \A i \in 1 .. Len(history) : history[i].day \in Nat /\ history[i].day <= today
      BY <1>1, <3>1 DEF PollsTyped, Spaced, Bucket
    <3>3. \A i \in 1 .. Len(history) : history[i].day <= today'
      BY <1>2, <3>2
    <3> QED
      BY <1>1, <3>3 DEF PollsTyped, Spaced
  <2> QED
    BY <1>1, <1>2, <2>1 DEF PollsTyped
<1>4. OneRefreshes'
  BY <1>1 DEF OneRefreshes
<1>5. PICK l \in Nat, u \in Nat, a \in [Slots -> Nat] : Ages(l, u, a)
  BY <1>1 DEF Reckoned
<1>6. None \notin Nat /\ Full \in Nat
  BY DEF HistoryKept
<1>7. ASSUME NEW v \in Shown, NEW m \in Nat, Before(v, m, quota, spending) PROVE Before(v, m, quota', spending')
  <2>1. quota \in Nat /\ spending \in Nat /\ quota' \in Nat /\ spending' \in Nat
    BY ONLY <1>2, <1>6
  <2>2. spending' >= spending /\ quota' + spending' >= quota + spending
    BY ONLY <1>2
  <2> QED
    BY <1>7, <2>1, <2>2, BeforeOn
<1>8. \A v, m : Exact(v, m) => Exact(v, m)'
  BY <1>2 DEF Exact
<1>9. Exact(quota, spending)'
  BY <1>2, <1>5, <1>6 DEF Ages, Exact, PollsTyped
<1>10. LastOf(history) \in Shown /\ usage \in Shown /\ ToSet(answers) \subseteq Slots
       /\ \A i \in Slots : refresh[i].value \in Shown
  BY <1>1, LastIs DEF PollsTyped, Refresh
<1>11. Ages(l, u, a)'
  <2>1. Before(LastOf(history), l, quota', spending') /\ Before(usage, u, quota', spending')
    BY <1>5, <1>7, <1>10 DEF Ages
  <2>2. \A i \in ToSet(answers) : Before(refresh[i].value, a[i], quota', spending')
    <3>1. \A i \in ToSet(answers) : a[i] \in Nat /\ refresh[i].value \in Shown /\ Before(refresh[i].value, a[i], quota, spending)
      BY <1>5, <1>10 DEF Ages
    <3> QED
      BY <1>7, <3>1
  <2>3. Exact(LastOf(history), l)' /\ Exact(usage, u)' /\ \A i \in ToSet(answers) : Exact(refresh[i].value, a[i])'
    BY <1>2, <1>5 DEF Ages, Exact
  <2> QED
    BY <1>5, <1>9, <2>1, <2>2, <2>3 DEF Ages, Exact
<1>12. Reckoned'
  <2>1. topped' = 0 /\ today' <= Days => topped = 0 /\ today <= Days
    BY <1>2 DEF HistoryKept
  <2> QED
    BY <1>1, <1>5, <1>11, <2>1 DEF Reckoned
<1> QED
  BY <1>3, <1>4, <1>12 DEF PollsInv

\* A step of one refresh that reads and shows nothing.
LEMMA RefreshKeeps ==
  ASSUME HistoryKept, PollsInv, NEW i \in Slots, NEW r \in Refresh, refresh' = [refresh EXCEPT ![i] = r],
         refresh[i].stage # "read", r.stage # "read", refreshing' \in BOOLEAN,
         quota' = quota, spending' = spending, topped' = topped, today' = today,
         usage' = usage, history' = history, first' = first, answers' = answers
  PROVE  PollsTyped' /\ Reckoned'
<1>1. PollsTyped /\ Reckoned
  BY DEF PollsInv
<1>2. refresh' \in [Slots -> Refresh] /\ refresh'[i] = r /\ \A j \in Slots : j # i => refresh'[j] = refresh[j]
  BY <1>1 DEF PollsTyped
<1>3. {j \in Slots : refresh'[j].stage = "read"} = {j \in Slots : refresh[j].stage = "read"}
  BY <1>2
<1>4. PollsTyped'
  BY <1>1, <1>2, <1>3 DEF PollsTyped
<1>5. PICK l \in Nat, u \in Nat, a \in [Slots -> Nat] : Ages(l, u, a)
  BY <1>1 DEF Reckoned
<1>6. \A j \in ToSet(answers) : refresh'[j].value = refresh[j].value
  <2>1. \A j \in ToSet(answers) : j \in Slots /\ j # i
    BY <1>1 DEF PollsTyped
  <2> QED
    BY <1>2, <2>1
<1>7. Ages(l, u, a)'
  BY <1>5, <1>6, AgesStay
<1>8. Reckoned'
  BY <1>1, <1>5, <1>7 DEF Reckoned
<1> QED
  BY <1>4, <1>8

LEMMA StartsKeep ==
  ASSUME HistoryKept, PollsInv, NEW i \in Slots, Polls!TimerFires(i) \/ Polls!RefreshAll(i),
         UNCHANGED <<quota, spending, topped, today, usage, history, first, answers>>
  PROVE  PollsInv'
<1>1. PollsTyped /\ OneRefreshes
  BY DEF PollsInv
<1>2. refresh[i].stage = "idle" /\ refresh[i].by = "timer" /\ refresh \in [Slots -> Refresh] /\ refreshing \in BOOLEAN
  BY <1>1 DEF Polls!TimerFires, Polls!RefreshAll, Polls!At, OneRefreshes, PollsTyped
<1>3. Polls!Resting \in Refresh /\ Polls!Resting.by = "timer" /\ Polls!Resting.stage = "idle"
  BY DEF Polls!Resting, Refresh, Shown
<1>4. CASE Polls!TimerFires(i)
  <2> DEFINE r == [Polls!Resting EXCEPT !.stage = "runs"]
  <2>1. refresh' = [refresh EXCEPT ![i] = r] /\ refreshing' = refreshing
    BY <1>4 DEF Polls!TimerFires
  <2>2. r \in Refresh /\ r.stage = "runs" /\ r.by = "timer"
    BY <1>3 DEF Refresh
  <2> HIDE DEF r
  <2>3. PollsTyped' /\ Reckoned'
    BY <1>2, <2>1, <2>2, RefreshKeeps
  <2>4. refresh'[i] = r /\ \A j \in Slots : j # i => refresh'[j] = refresh[j]
    BY <1>2, <2>1
  <2>5. \A j \in Slots : refresh'[j].by = refresh[j].by
    BY <1>2, <2>2, <2>4
  <2>6. \A j \in Slots : refresh'[j].stage = "idle" => refresh[j].stage = "idle"
    BY <2>2, <2>4
  <2>7. OneRefreshes'
    BY <1>1, <2>1, <2>5, <2>6 DEF OneRefreshes
  <2> QED
    BY <2>3, <2>7 DEF PollsInv
<1>5. CASE Polls!RefreshAll(i)
  <2> DEFINE r == [Polls!Resting EXCEPT !.stage = "runs", !.by = "all"]
  <2>1. refresh' = [refresh EXCEPT ![i] = r] /\ refreshing' = TRUE /\ ~refreshing
    BY <1>5 DEF Polls!RefreshAll
  <2>2. r \in Refresh /\ r.stage = "runs" /\ r.by = "all"
    BY <1>3 DEF Refresh
  <2> HIDE DEF r
  <2>3. PollsTyped' /\ Reckoned'
    BY <1>2, <2>1, <2>2, RefreshKeeps
  <2>4. refresh'[i] = r /\ \A j \in Slots : j # i => refresh'[j] = refresh[j]
    BY <1>2, <2>1
  <2>5. \A j \in Slots : refresh[j].by # "all"
    BY <1>1, <2>1 DEF OneRefreshes
  <2>6. \A j \in Slots : refresh'[j].by = "all" <=> j = i
    BY <2>2, <2>4, <2>5
  <2>7. \A j \in Slots : refresh'[j].stage = "idle" => refresh'[j].by = "timer"
    BY <1>1, <2>2, <2>4 DEF OneRefreshes
  <2>8. OneRefreshes'
    BY <2>1, <2>6, <2>7 DEF OneRefreshes
  <2> QED
    BY <2>3, <2>8 DEF PollsInv
<1> QED
  BY <1>4, <1>5

LEMMA EndsKeep ==
  ASSUME HistoryKept, PollsInv, NEW i \in Slots, Polls!Ends(i),
         UNCHANGED <<quota, spending, topped, today, usage, history, first, answers>>
  PROVE  PollsInv'
<1>1. PollsTyped /\ OneRefreshes
  BY DEF PollsInv
<1> DEFINE r == Polls!Resting
<1>2. refresh[i].stage = "saving" /\ refresh \in [Slots -> Refresh] /\ refreshing \in BOOLEAN
      /\ refreshing' = (IF refresh[i].by = "all" THEN FALSE ELSE refreshing) /\ refresh' = [refresh EXCEPT ![i] = r]
  BY <1>1 DEF Polls!Ends, Polls!At, PollsTyped
<1>3. r \in Refresh /\ r.by = "timer" /\ r.stage = "idle"
  BY DEF Polls!Resting, Refresh, Shown
<1> HIDE DEF r
<1>4. PollsTyped' /\ Reckoned'
  BY <1>2, <1>3, RefreshKeeps
<1>5. refresh'[i] = r /\ \A j \in Slots : j # i => refresh'[j] = refresh[j]
  BY <1>2
<1>6. \A j \in Slots : refresh'[j].stage = "idle" => refresh'[j].by = "timer"
  BY <1>1, <1>3, <1>5 DEF OneRefreshes
<1>7. \A j \in Slots : refresh'[j].by = "all" <=> refresh[j].by = "all" /\ j # i
  BY <1>3, <1>5
<1>8. refreshing' <=> \E j \in Slots : refresh'[j].by = "all"
  <2>1. CASE refresh[i].by = "all"
    <3>1. \A j \in Slots : refresh'[j].by # "all"
      BY <1>1, <1>7, <2>1 DEF OneRefreshes
    <3> QED
      BY <1>2, <2>1, <3>1
  <2>2. CASE refresh[i].by # "all"
    <3>1. \A j \in Slots : refresh'[j].by = "all" <=> refresh[j].by = "all"
      BY <1>7, <2>2
    <3>2. refreshing' = refreshing
      BY <1>2, <2>2
    <3> QED
      BY <1>1, <3>1, <3>2 DEF OneRefreshes
  <2> QED
    BY <2>1, <2>2
<1>9. OneRefreshes'
  BY <1>1, <1>6, <1>7, <1>8 DEF OneRefreshes
<1> QED
  BY <1>4, <1>9 DEF PollsInv

\* A refresh goes on, started by who it was.
LEMMA ByStays ==
  ASSUME PollsInv, NEW i \in Slots, NEW r \in Refresh, refresh' = [refresh EXCEPT ![i] = r],
         r.by = refresh[i].by, r.stage # "idle", refreshing' = refreshing
  PROVE  OneRefreshes'
<1>1. OneRefreshes /\ refresh \in [Slots -> Refresh]
  BY DEF PollsInv, PollsTyped
<1>2. refresh'[i] = r /\ \A j \in Slots : j # i => refresh'[j] = refresh[j]
  BY <1>1
<1>3. \A j \in Slots : refresh'[j].by = refresh[j].by
  BY <1>2
<1>4. \A j \in Slots : refresh'[j].stage = "idle" => refresh[j].stage = "idle"
  BY <1>2
<1> QED
  BY <1>1, <1>3, <1>4 DEF OneRefreshes

LEMMA ReadsKeep ==
  ASSUME HistoryKept, PollsInv, NEW i \in Slots, Polls!Reads(i),
         UNCHANGED <<quota, spending, topped, today, usage, refreshing, history, first>>
  PROVE  PollsInv'
<1>1. PollsTyped /\ OneRefreshes /\ Reckoned
  BY DEF PollsInv
<1>2. refresh[i].stage = "runs" /\ refresh \in [Slots -> Refresh] /\ refresh[i] \in Refresh /\ refreshing' \in BOOLEAN
  BY <1>1 DEF Polls!Reads, Polls!At, PollsTyped
<1>3. ASSUME Polls!Goes(i, "failed"), answers' = answers PROVE PollsInv'
  <2> DEFINE r == [refresh[i] EXCEPT !.stage = "failed"]
  <2>1. refresh' = [refresh EXCEPT ![i] = r]
    BY <1>2, <1>3 DEF Polls!Goes
  <2>2. r \in Refresh /\ r.stage = "failed" /\ r.by = refresh[i].by
    BY <1>2 DEF Refresh
  <2> HIDE DEF r
  <2>3. PollsTyped' /\ Reckoned'
    BY <1>2, <1>3, <2>1, <2>2, RefreshKeeps
  <2>4. OneRefreshes'
    BY <2>1, <2>2, ByStays
  <2> QED
    BY <2>3, <2>4 DEF PollsInv
<1>4. ASSUME NEW value \in {quota, None},
             refresh' = [refresh EXCEPT ![i].stage = "read", ![i].value = value], answers' = Append(answers, i)
      PROVE  PollsInv'
  <2> DEFINE r == [refresh[i] EXCEPT !.stage = "read", !.value = value]
             n == Len(answers)
  <2>1. refresh' = [refresh EXCEPT ![i] = r]
    BY <1>2, <1>4
  <2>2. value \in Shown /\ r \in Refresh /\ r.stage = "read" /\ r.by = refresh[i].by /\ r.value = value
    BY <1>1, <1>2 DEF Refresh, PollsTyped, Shown
  <2> HIDE DEF r
  <2>3. OneRefreshes'
    BY <2>1, <2>2, ByStays
  <2>4. refresh' \in [Slots -> Refresh] /\ refresh'[i] = r /\ \A j \in Slots : j # i => refresh'[j] = refresh[j]
    BY <1>2, <2>1, <2>2
  <2>5. answers \in Once(Slots) /\ answers \in Seq(Slots) /\ DOMAIN answers = 1 .. n /\ n \in Nat
        /\ i \notin ToSet(answers) /\ \A p \in 1 .. n : answers[p] \in ToSet(answers)
    BY <1>1, <1>2 DEF PollsTyped, Once, ToSet
  <2>6. answers' \in Once(Slots) /\ ToSet(answers') = ToSet(answers) \cup {i}
    <3>1. ~Contains(answers, i)
      BY <2>5 DEF Contains
    <3>2. Moved(answers, i) = Append(answers, i) /\ Moved(answers, i) \in Once(Slots)
          /\ ToSet(Moved(answers, i)) = ToSet(answers) \cup {i}
      BY <2>5, <3>1, MovedNew
    <3> QED
      BY <1>4, <3>2
  <2>7. DOMAIN answers' = 1 .. n + 1 /\ answers'[n + 1] = i /\ \A p \in 1 .. n : answers'[p] = answers[p] /\ answers[p] # i
    BY <1>4, <2>5
  <2>8. PollsTyped'
    <3>1. {j \in Slots : refresh'[j].stage = "read"} = ToSet(answers')
      BY <1>1, <2>2, <2>4, <2>6 DEF PollsTyped
    <3> QED
      BY <1>1, <2>4, <2>6, <3>1 DEF PollsTyped
  <2>9. PICK l \in Nat, u \in Nat, a \in [Slots -> Nat] : Ages(l, u, a)
    BY <1>1 DEF Reckoned
  <2>10. PICK b \in [Slots -> Nat] : b[i] = spending /\ \A j \in Slots : j # i => b[j] = a[j]
    <3>1. [a EXCEPT ![i] = spending] \in [Slots -> Nat]
      BY <1>1 DEF PollsTyped
    <3> QED
      BY <3>1
  <2>11. Before(value, spending, quota, spending) /\ Exact(value, spending)
    <3>1. spending <= spending /\ quota + spending <= quota + spending
      BY <1>1 DEF PollsTyped
    <3>2. Exact(quota, spending)
      BY <2>9 DEF Ages
    <3>3. CASE value = quota
      BY <3>1, <3>2, <3>3 DEF Before
    <3>4. CASE value = None
      BY <3>1, <3>4 DEF Before, Exact
    <3> QED
      BY <1>4, <3>3, <3>4
  <2>12. \A v, m : Before(v, m, quota, spending) => Before(v, m, value, spending)
    BY DEF Before
  <2>13. \A j \in ToSet(answers) : j \in Slots /\ j # i /\ refresh'[j] = refresh[j] /\ b[j] = a[j]
    BY <1>1, <2>4, <2>5, <2>10 DEF PollsTyped
  <2>14. ASSUME NEW j \in ToSet(answers')
         PROVE  /\ Before(LastOf(history), l, refresh'[j].value, b[j]) /\ Before(usage, u, refresh'[j].value, b[j])
                /\ Before(refresh'[j].value, b[j], quota, spending) /\ Exact(refresh'[j].value, b[j])
    <3>1. CASE j = i
      <4>1. refresh'[j].value = value /\ b[j] = spending
        BY <2>2, <2>4, <2>10, <3>1
      <4>2. Before(LastOf(history), l, quota, spending) /\ Before(usage, u, quota, spending)
        BY <2>9 DEF Ages
      <4> QED
        BY <2>11, <2>12, <4>1, <4>2
    <3>2. CASE j # i
      <4>1. j \in ToSet(answers) /\ refresh'[j].value = refresh[j].value /\ b[j] = a[j]
        BY <2>6, <2>13, <3>2
      <4> QED
        BY <2>9, <4>1 DEF Ages
    <3> QED
      BY <3>1, <3>2
  <2>15. ASSUME NEW p \in DOMAIN answers', NEW q \in DOMAIN answers', p < q
         PROVE  Before(refresh'[answers'[p]].value, b[answers'[p]], refresh'[answers'[q]].value, b[answers'[q]])
    <3>1. p \in 1 .. n /\ answers'[p] = answers[p] /\ answers[p] \in ToSet(answers)
      BY <2>5, <2>7, <2>15
    <3>2. refresh'[answers'[p]].value = refresh[answers[p]].value /\ b[answers'[p]] = a[answers[p]]
      BY <2>13, <3>1
    <3>3. CASE q = n + 1
      <4>1. refresh'[answers'[q]].value = value /\ b[answers'[q]] = spending
        BY <2>2, <2>4, <2>7, <2>10, <3>3
      <4>2. Before(refresh[answers[p]].value, a[answers[p]], quota, spending)
        BY <2>9, <3>1 DEF Ages
      <4>3. Before(refresh[answers[p]].value, a[answers[p]], value, spending)
        BY <2>12, <4>2
      <4> QED
        BY <3>2, <4>1, <4>3
    <3>4. CASE q # n + 1
      <4>1. q \in 1 .. n /\ answers'[q] = answers[q] /\ answers[q] \in ToSet(answers)
        BY <2>5, <2>7, <3>4
      <4>2. refresh'[answers'[q]].value = refresh[answers[q]].value /\ b[answers'[q]] = a[answers[q]]
        BY <2>13, <4>1
      <4>3. Before(refresh[answers[p]].value, a[answers[p]], refresh[answers[q]].value, a[answers[q]])
        BY <2>5, <2>9, <2>15, <3>1, <4>1 DEF Ages
      <4> QED
        BY <3>2, <4>2, <4>3
    <3> QED
      BY <3>3, <3>4
  <2>16. Ages(l, u, b)'
    <3>1. /\ Before(LastOf(history), l, usage, u) /\ Before(LastOf(history), l, quota, spending)
          /\ Before(usage, u, quota, spending)
          /\ Exact(LastOf(history), l) /\ Exact(usage, u) /\ Exact(quota, spending)
          /\ SpentOf(history) <= l
      BY <2>9 DEF Ages
    <3>2. quota' = quota /\ spending' = spending /\ topped' = topped /\ usage' = usage /\ history' = history
      OBVIOUS
    <3> QED
      BY ONLY <2>14, <2>15, <3>1, <3>2 DEF Ages, Exact
  <2>17. Reckoned'
    <3>1. topped' = topped /\ today' = today /\ history' = history /\ first' = first
      OBVIOUS
    <3>2. \E v, w \in Nat : \E c \in [Slots -> Nat] : Ages(v, w, c)'
      BY <2>9, <2>10, <2>16
    <3>3. /\ first = None <=> LastOf(history) = None
          /\ LastOf(history) = None => SpentOf(history) = 0
          /\ topped = 0 /\ today <= Days /\ first # None => SpentOf(history) = first - LastOf(history)
      BY <1>1 DEF Reckoned
    <3> QED
      BY ONLY <3>1, <3>2, <3>3 DEF Reckoned
  <2> QED
    BY <2>3, <2>8, <2>17 DEF PollsInv
<1> QED
  BY <1>3, <1>4 DEF Polls!Reads

LEMMA ShowsKeep ==
  ASSUME HistoryKept, PollsInv, NEW i \in Slots, Polls!Shows(i),
         UNCHANGED <<quota, spending, topped, today, refreshing, history, first>>
  PROVE  PollsInv'
<1> DEFINE r == [refresh[i] EXCEPT !.stage = "shown"]
           n == Len(answers)
<1>1. PollsTyped /\ OneRefreshes /\ Reckoned
  BY DEF PollsInv
<1>2. /\ refresh[i].stage \in {"read", "failed"} /\ refresh \in [Slots -> Refresh] /\ refresh[i] \in Refresh
      /\ refreshing' \in BOOLEAN /\ refresh[i].value \in Shown
      /\ answers \in Once(Slots) /\ answers \in Seq(Slots) /\ DOMAIN answers = 1 .. n /\ n \in Nat
  BY <1>1 DEF Polls!Shows, PollsTyped, Once, Refresh
<1>3. refresh' = [refresh EXCEPT ![i] = r]
  BY <1>2 DEF Polls!Shows, Polls!Goes
<1>4. r \in Refresh /\ r.stage = "shown" /\ r.by = refresh[i].by
  BY <1>2 DEF Refresh
<1> HIDE DEF r
<1>5. OneRefreshes'
  BY <1>3, <1>4, ByStays DEF Polls!Shows
<1>6. refresh' \in [Slots -> Refresh] /\ refresh'[i] = r /\ \A j \in Slots : j # i => refresh'[j] = refresh[j]
  BY <1>2, <1>3, <1>4
<1>7. answers' = RemoveFirst(answers, i)
  BY DEF Polls!Shows, Polls!RemoveFirst, Polls!RemoveAt, Polls!SelectInSeq, Polls!Min, RemoveFirst, RemoveAt,
         SelectInSeq, Min
<1>8. CASE refresh[i].stage = "failed"
  <2>1. \A p \in 1 .. n : answers[p] # i
    BY <1>1, <1>2, <1>8 DEF PollsTyped, ToSet
  <2>2. answers' = answers /\ usage' = usage
    BY <1>7, <1>8, <2>1 DEF RemoveFirst, Polls!Shows, Polls!At
  <2>3. PollsTyped' /\ Reckoned'
    BY <1>2, <1>3, <1>4, <1>8, <2>2, RefreshKeeps
  <2> QED
    BY <1>5, <2>3 DEF PollsInv
<1>9. CASE refresh[i].stage = "read"
  <2>1. i \in ToSet(answers) /\ Head(answers) = i /\ usage' = refresh[i].value
    BY <1>1, <1>9 DEF Polls!Shows, Polls!At, PollsTyped, HistoryKept
  <2>2. answers # <<>> /\ n # 0 /\ 1 \in 1 .. n /\ answers[1] = i
    BY <1>2, <2>1 DEF ToSet
  <2>3. /\ answers' \in Once(Slots) /\ Len(answers') = n - 1 /\ ToSet(answers') = ToSet(answers) \ {i}
        /\ \A p \in 1 .. Len(answers') : answers'[p] = answers[p + 1]
    BY <1>2, <1>7, <2>1, <2>2, HeadGone
  <2>4. DOMAIN answers' = 1 .. n - 1 /\ \A p \in 1 .. n - 1 : answers'[p] = answers[p + 1] /\ p + 1 \in 1 .. n
    BY <1>2, <2>3 DEF Once
  <2>5. PollsTyped'
    <3>1. {j \in Slots : refresh'[j].stage = "read"} = ToSet(answers')
      BY <1>1, <1>4, <1>6, <2>3 DEF PollsTyped
    <3> QED
      BY <1>1, <1>2, <1>6, <2>1, <2>3, <3>1 DEF PollsTyped
  <2>6. PICK l \in Nat, u \in Nat, a \in [Slots -> Nat] : Ages(l, u, a)
    BY <1>1 DEF Reckoned
  <2>7. a[i] \in Nat
    BY <2>6
  <2>8. \A j \in ToSet(answers') : j \in ToSet(answers) /\ j # i /\ refresh'[j].value = refresh[j].value
    BY <1>1, <1>6, <2>3 DEF PollsTyped
  <2>9. \A p \in 1 .. n : answers[p] \in ToSet(answers)
    BY <1>2 DEF ToSet
  <2>10. \A p \in 1 .. n - 1 : answers'[p] \in ToSet(answers')
    BY <2>4 DEF ToSet
  <2>11. ASSUME NEW j \in ToSet(answers') PROVE Before(refresh[i].value, a[i], refresh[j].value, a[j])
    <3>1. PICK p \in 1 .. n - 1 : answers'[p] = j
      BY <2>4 DEF ToSet
    <3>2. p + 1 \in DOMAIN answers /\ 1 \in DOMAIN answers /\ 1 < p + 1 /\ answers[p + 1] = j
      BY <1>2, <2>2, <2>4, <3>1
    <3> QED
      BY <2>2, <2>6, <3>2 DEF Ages
  <2>12. ASSUME NEW p \in DOMAIN answers', NEW q \in DOMAIN answers', p < q
         PROVE  Before(refresh'[answers'[p]].value, a[answers'[p]], refresh'[answers'[q]].value, a[answers'[q]])
    <3>1. p \in 1 .. n - 1 /\ q \in 1 .. n - 1
      BY <2>4
    <3>2. p + 1 \in DOMAIN answers /\ q + 1 \in DOMAIN answers /\ p + 1 < q + 1
      BY <1>2, <2>4, <2>12, <3>1
    <3>3. Before(refresh[answers[p + 1]].value, a[answers[p + 1]], refresh[answers[q + 1]].value, a[answers[q + 1]])
      BY <2>6, <3>2 DEF Ages
    <3>4. answers'[p] = answers[p + 1] /\ answers'[q] = answers[q + 1]
      BY <2>4, <3>1
    <3>5. refresh'[answers'[p]].value = refresh[answers[p + 1]].value
          /\ refresh'[answers'[q]].value = refresh[answers[q + 1]].value
      BY <2>8, <2>10, <3>1, <3>4
    <3> QED
      BY <3>3, <3>4, <3>5
  <2>13. Ages(l, a[i], a)'
    <3>1. /\ Before(LastOf(history), l, usage', a[i]) /\ Before(usage', a[i], quota, spending) /\ Exact(usage', a[i])
          /\ Before(LastOf(history), l, quota, spending) /\ Exact(LastOf(history), l) /\ Exact(quota, spending)
          /\ SpentOf(history) <= l
      BY <2>1, <2>6 DEF Ages
    <3>2. \A j \in ToSet(answers') :
            /\ Before(LastOf(history), l, refresh'[j].value, a[j]) /\ Before(usage', a[i], refresh'[j].value, a[j])
            /\ Before(refresh'[j].value, a[j], quota, spending) /\ Exact(refresh'[j].value, a[j])
      BY <2>1, <2>6, <2>8, <2>11 DEF Ages
    <3> QED
      BY <2>12, <3>1, <3>2 DEF Ages, Exact
  <2>14. Reckoned'
    BY <1>1, <2>6, <2>7, <2>13 DEF Reckoned
  <2> QED
    BY <1>5, <2>5, <2>14 DEF PollsInv
<1> QED
  BY <1>2, <1>8, <1>9

LEMMA SamplesKeep ==
  ASSUME HistoryKept, PollsInv, NEW i \in Slots, Polls!Samples(i),
         UNCHANGED <<quota, spending, topped, today, usage, refreshing, answers>>
  PROVE  PollsInv'
<1> DEFINE r == [refresh[i] EXCEPT !.stage = "saving"]
           L == LastOf(history)
           fall == Fall(L, usage)
           M == LastOf(history')
<1>1. PollsTyped /\ OneRefreshes /\ Reckoned
  BY DEF PollsInv
<1>2. refresh[i].stage = "shown" /\ refresh \in [Slots -> Refresh] /\ refresh[i] \in Refresh
  BY <1>1 DEF Polls!Samples, Polls!At, PollsTyped
<1>3. /\ refresh' = [refresh EXCEPT ![i] = r]
      /\ history' = Polls!RecordSample(history, usage) /\ first' = IF first = None THEN usage ELSE first
  BY <1>2 DEF Polls!Samples, Polls!Goes
<1>4. r \in Refresh /\ r.stage = "saving" /\ r.by = refresh[i].by
  BY <1>2 DEF Refresh
<1> HIDE DEF r
<1>5. OneRefreshes'
  BY <1>3, <1>4, ByStays
<1>6. refresh' \in [Slots -> Refresh] /\ refresh'[i] = r /\ \A j \in Slots : j # i => refresh'[j] = refresh[j]
  BY <1>2, <1>3, <1>4
<1>7. /\ usage \in Shown /\ first \in Shown /\ today \in Nat \ {0} /\ Spaced(history, today)
      /\ L \in Shown /\ SpentOf(history) \in Nat
  BY <1>1, LastIs DEF PollsTyped
<1>8. /\ Spaced(history', today) /\ Len(history') \in 1 .. Days
      /\ M = (IF usage = None THEN L ELSE usage)
      /\ SpentOf(history') <= SpentOf(history) + fall
      /\ today <= Days => SpentOf(history') = SpentOf(history) + fall
  BY <1>3, <1>7, Records
<1>9. SpentOf(history') \in Nat
  BY <1>8, LastIs
<1>10. PollsTyped'
  <2>1. {j \in Slots : refresh'[j].stage = "read"} = {j \in Slots : refresh[j].stage = "read"}
    BY <1>2, <1>4, <1>6
  <2>2. Len(history') <= Days
    BY <1>8 DEF HistoryKept
  <2>3. first' \in Shown
    BY <1>3, <1>7
  <2> QED
    BY <1>1, <1>6, <1>8, <2>1, <2>2, <2>3 DEF PollsTyped
<1>11. PICK l \in Nat, u \in Nat, a \in [Slots -> Nat] : Ages(l, u, a)
  BY <1>1 DEF Reckoned
<1>12. PICK k \in Nat : k = IF usage = None THEN l ELSE u
  OBVIOUS
<1>13. /\ Before(L, l, usage, u) /\ Exact(L, l) /\ Exact(usage, u) /\ SpentOf(history) <= l
  BY <1>11 DEF Ages
<1>14. None \notin Nat /\ Full \in Nat /\ Days \in Nat
  BY DEF HistoryKept
<1>15. usage # None => usage \in Nat
  BY <1>7, <1>14 DEF Shown
<1>16. L # None => L \in Nat
  BY <1>7, <1>14 DEF Shown
<1>17. fall \in Nat /\ l + fall <= k /\ k \in Nat
  <2>1. CASE usage = None
    BY <1>11, <1>12, <2>1 DEF Fall
  <2>2. CASE usage # None /\ L = None
    BY <1>11, <1>13, <1>12, <2>2 DEF Fall, Before
  <2>3. CASE usage # None /\ L # None
    <3>1. L \in Nat /\ usage \in Nat /\ L + l <= usage + u /\ l <= u /\ k = u
      BY <1>13, <1>15, <1>16, <1>12, <2>3 DEF Before
    <3>2. fall = IF usage < L THEN L - usage ELSE 0
      BY <2>3 DEF Fall
    <3> HIDE DEF fall, L
    <3> QED
      BY <1>11, <3>1, <3>2
  <2> QED
    BY <2>1, <2>2, <2>3
<1>18. Ages(k, u, a)'
  <2>1. Before(M, k, usage, u)
    <3>1. CASE usage = None
      BY <1>8, <1>13, <1>12, <3>1
    <3>2. CASE usage # None
      <4>1. M = usage /\ k = u /\ u <= u /\ usage + u <= usage + u
        BY <1>8, <1>11, <1>15, <1>12, <3>2
      <4> QED
        BY <4>1 DEF Before
    <3> QED
      BY <3>1, <3>2
  <2>2. ASSUME NEW w, NEW n, Before(L, l, w, n), Before(usage, u, w, n)
        PROVE  Before(M, k, w, n)
    BY <1>8, <1>12, <2>2
  <2>3. Exact(M, k)
    BY <1>8, <1>13, <1>12
  <2>4. SpentOf(history') <= k
    <3> HIDE DEF fall
    <3> QED
      BY <1>7, <1>8, <1>9, <1>11, <1>13, <1>17
  <2>5. \A j \in ToSet(answers) : refresh'[j].value = refresh[j].value
    <3>1. \A j \in ToSet(answers) : j \in Slots /\ j # i
      BY <1>1, <1>2 DEF PollsTyped
    <3> QED
      BY <1>6, <3>1
  <2>6. /\ Before(L, l, quota, spending) /\ Before(usage, u, quota, spending) /\ Exact(usage, u) /\ Exact(quota, spending)
        /\ \A j \in ToSet(answers) :
             /\ Before(L, l, refresh[j].value, a[j]) /\ Before(usage, u, refresh[j].value, a[j])
             /\ Before(refresh[j].value, a[j], quota, spending) /\ Exact(refresh[j].value, a[j])
        /\ \A p, q \in DOMAIN answers :
             p < q => Before(refresh[answers[p]].value, a[answers[p]], refresh[answers[q]].value, a[answers[q]])
    BY <1>11 DEF Ages
  <2> HIDE DEF L
  <2>7. Before(M, k, quota, spending) /\ \A j \in ToSet(answers) : Before(M, k, refresh'[j].value, a[j])
    BY <2>2, <2>5, <2>6
  <2>8. \A j \in ToSet(answers) :
          /\ Before(usage, u, refresh'[j].value, a[j])
          /\ Before(refresh'[j].value, a[j], quota, spending) /\ Exact(refresh'[j].value, a[j])
    BY <2>5, <2>6
  <2>9. \A p, q \in DOMAIN answers :
          p < q => Before(refresh'[answers[p]].value, a[answers[p]], refresh'[answers[q]].value, a[answers[q]])
    <3>1. \A p \in DOMAIN answers : answers[p] \in ToSet(answers)
      BY DEF ToSet
    <3>2. \A p \in DOMAIN answers : refresh'[answers[p]].value = refresh[answers[p]].value
      BY <2>5, <3>1
    <3> QED
      BY <2>6, <3>2
  <2>10. quota' = quota /\ spending' = spending /\ topped' = topped /\ usage' = usage /\ answers' = answers
    OBVIOUS
  <2> QED
    BY ONLY <2>1, <2>3, <2>4, <2>6, <2>7, <2>8, <2>9, <2>10 DEF Ages, Exact
<1>19. first' = None <=> M = None
  <2>1. first = None <=> L = None
    BY <1>1 DEF Reckoned
  <2> HIDE DEF L, M
  <2> QED
    BY <1>3, <1>8, <2>1
<1>20. ASSUME M = None PROVE SpentOf(history') = 0
  <2>1. usage = None /\ L = None
    BY <1>8, <1>20
  <2>2. SpentOf(history) = 0
    BY <1>1, <2>1 DEF Reckoned
  <2>3. fall = 0
    BY <2>1 DEF Fall
  <2> HIDE DEF fall
  <2> QED
    BY <1>8, <1>9, <2>2, <2>3
<1>21. ASSUME topped = 0, today <= Days, first' # None PROVE SpentOf(history') = first' - M
  <2>1. SpentOf(history') = SpentOf(history) + fall
    BY <1>8, <1>21
  <2>2. first = None <=> L = None
    BY <1>1 DEF Reckoned
  <2>3. CASE first = None
    <3>1. usage # None /\ L = None /\ first' = usage /\ M = usage /\ usage \in Nat
      BY <1>3, <1>8, <1>15, <1>21, <2>2, <2>3
    <3>2. SpentOf(history) = 0
      BY <1>1, <3>1 DEF Reckoned
    <3>3. fall = 0
      BY <3>1 DEF Fall
    <3> HIDE DEF fall, M, L
    <3> QED
      BY <2>1, <3>1, <3>2, <3>3
  <2>4. CASE first # None
    <3>1. SpentOf(history) = first - L /\ first' = first /\ L # None
      BY <1>1, <1>3, <1>21, <2>2, <2>4 DEF Reckoned
    <3>2. first \in Nat /\ L \in Nat
      BY <1>7, <1>14, <1>16, <2>4, <3>1 DEF Shown
    <3>3. CASE usage = None
      <4>1. fall = 0 /\ M = L
        BY <1>8, <3>3 DEF Fall
      <4> HIDE DEF fall, M, L
      <4> QED
        BY <2>1, <3>1, <3>2, <4>1
    <3>4. CASE usage # None
      <4>1. M = usage /\ usage \in Nat /\ L + l = Full /\ usage + u = Full /\ l <= u
        BY <1>8, <1>13, <1>15, <1>21, <3>1, <3>4 DEF Exact, Before
      <4>2. usage <= L /\ (usage < L \/ L - usage = 0)
        <5> HIDE DEF L
        <5> QED
          BY <1>11, <1>14, <3>2, <4>1
      <4>3. fall = L - usage
        BY <3>1, <3>4, <4>2 DEF Fall
      <4> HIDE DEF fall, M, L
      <4> QED
        BY <2>1, <3>1, <3>2, <4>1, <4>3
    <3> QED
      BY <3>3, <3>4
  <2> QED
    BY <2>3, <2>4
<1>22. Reckoned'
  <2>1. \E v, w \in Nat : \E c \in [Slots -> Nat] : Ages(v, w, c)'
    BY <1>11, <1>17, <1>18
  <2>2. topped' = topped /\ today' = today
    OBVIOUS
  <2> QED
    BY ONLY <1>19, <1>20, <1>21, <2>1, <2>2 DEF Reckoned
<1> QED
  BY <1>5, <1>10, <1>22 DEF PollsInv

\* Every step of the files' part keeps the accounts of the polls.
LEMMA PollsKept ==
  ASSUME HistoryKept, PollsInv, [MCNext]_<<part, dataVars, outputVars, keepVars>>
  PROVE  PollsInv'
<1>1. CASE UNCHANGED pollVars
  <2>1. /\ quota' = quota /\ spending' = spending /\ topped' = topped /\ today' = today /\ usage' = usage
        /\ refreshing' = refreshing /\ refresh' = refresh /\ history' = history /\ first' = first /\ answers' = answers
    BY <1>1 DEF pollVars
  <2>2. PollsTyped /\ OneRefreshes /\ Reckoned
    BY DEF PollsInv
  <2>3. PollsTyped'
    BY ONLY <2>1, <2>2 DEF PollsTyped
  <2>4. OneRefreshes'
    BY ONLY <2>1, <2>2 DEF OneRefreshes
  <2>5. PICK l \in Nat, u \in Nat, a \in [Slots -> Nat] : Ages(l, u, a)
    BY <2>2 DEF Reckoned
  <2>6. Ages(l, u, a)'
    BY <2>1, <2>5, AgesStay
  <2>7. Reckoned'
    BY ONLY <2>1, <2>2, <2>5, <2>6 DEF Reckoned
  <2> QED
    BY <2>3, <2>4, <2>7 DEF PollsInv
<1>2. CASE Polls!PollsNext
  <2>1. CASE Polls!World /\ UNCHANGED <<usage, refreshing, refresh, history, first, answers>>
    BY <2>1, WorldKeeps
  <2>2. ASSUME NEW i \in Slots, Polls!TimerFires(i) \/ Polls!RefreshAll(i),
               UNCHANGED <<quota, spending, topped, today, usage, history, first, answers>>
        PROVE  PollsInv'
    BY <2>2, StartsKeep
  <2>3. ASSUME NEW i \in Slots, Polls!Runs(i) PROVE PollsInv'
    <3>1. UNCHANGED <<quota, spending, topped, today>>
      BY <2>3 DEF Polls!Runs
    <3>2. CASE Polls!Reads(i) /\ UNCHANGED <<usage, refreshing, history, first>>
      BY <3>1, <3>2, ReadsKeep
    <3>3. CASE Polls!Shows(i) /\ UNCHANGED <<refreshing, history, first>>
      BY <3>1, <3>3, ShowsKeep
    <3>4. CASE Polls!Samples(i) /\ UNCHANGED <<usage, refreshing, answers>>
      BY <3>1, <3>4, SamplesKeep
    <3>5. CASE Polls!Ends(i) /\ UNCHANGED <<usage, history, first, answers>>
      BY <3>1, <3>5, EndsKeep
    <3> QED
      BY <2>3, <3>2, <3>3, <3>4, <3>5 DEF Polls!Runs
  <2> QED
    BY <1>2, <2>1, <2>2, <2>3 DEF Polls!PollsNext
<1>3. UNCHANGED pollVars \/ Polls!PollsNext
  BY DEF MCNext, keepVars, homeVars
<1> QED
  BY <1>1, <1>2, <1>3

-----------------------------------------------------------------------------
(* The theorems. *)

\* Whoever opens a file of a call reads the bytes it was given, the cache has other bytes only
\* while the call that wrote them runs, both but for a blob whose partial file another session
\* wrote between the hash and the rename of its seal, and a file a body waits for is on its way
\* unless its sender failed or it was removed:  for any sessions, files and programs of calls, with
\* every step of a seal apart (_data_arrived, _op_data_seal, Stream._take, _op_data_evict).
THEOREM FilesCorrect == Streams => (MCSpec => []FilesSound)
<1> SUFFICES ASSUME Streams PROVE MCSpec => []FilesSound
  OBVIOUS
<1>1. MCInit => FilesInv /\ SealSound
  BY FilesStart, SealStart DEF MCInit
<1>2. FilesInv /\ SealSound /\ [MCNext]_<<part, dataVars, outputVars, keepVars>> => FilesInv' /\ SealSound'
  BY FilesKept
<1>3. FilesInv => FilesSound
  BY FilesAre
<1> QED
  BY <1>1, <1>2, <1>3, PTL DEF MCSpec

\* A patched listing names every file of its call, though it reads the pending names before the
\* directory and files arrive between the two (the patched listdir of the worker).
THEOREM ListingCorrect == Streams => (MCSpec => ListingWhole)
<1> SUFFICES ASSUME Streams PROVE MCSpec => ListingWhole
  OBVIOUS
<1>1. MCInit => FilesInv /\ SealSound
  BY FilesStart, SealStart DEF MCInit
<1>2. FilesInv /\ SealSound /\ [MCNext]_<<part, dataVars, outputVars, keepVars>> => FilesInv' /\ SealSound'
  BY FilesKept
<1>3. FilesInv /\ [MCNext]_<<part, dataVars, outputVars, keepVars>> =>
        [\A s \in Session : snap[s] # None /\ snap'[s] = None /\ phase'[s] = "running"
           => snap[s] \cup OnDisk(s) = files[s]]_vars
  BY ListingStep
<1> QED
  BY <1>1, <1>2, <1>3, PTL DEF MCSpec, ListingWhole

\* A call that succeeds leaves the body's last version of its output on the client, complete, and
\* before its end a half written version is on the client only where the body began it after a
\* poll saw the output closed and before the poll read it:  for any number of versions, polls and
\* retries (the poller of pathdata.py, _Call.changed, _op_data_outputs and _data_serve).
THEOREM OutputCorrect == Versions \in Nat => (MCSpec => []OutputHonest)
<1> SUFFICES ASSUME Versions \in Nat PROVE MCSpec => []OutputHonest
  OBVIOUS
<1>1. MCInit => OutputInv
  BY OutputStart
<1>2. OutputInv /\ [MCNext]_<<part, dataVars, outputVars, keepVars>> => OutputInv'
  BY OutputKept
<1>3. OutputInv => OutputHonest
  <2>1. SUFFICES ASSUME OutputInv PROVE OutputHonest
    OBVIOUS
  <2>2. Output!OutputFresh
    BY <2>1 DEF OutputInv, Collected, Output!OutputFresh
  <2>3. Output!OutputComplete
    <3>1. CASE reply = "done"
      BY <2>1, <3>1 DEF OutputInv, Collected, Output!OutputComplete, Output!TypeOK, Output!Stamps
    <3>2. CASE reply # "done"
      BY <2>1, <3>2 DEF OutputInv, HalvesKnown, Half, Collected, Output!OutputComplete, Output!TypeOK, Output!Stamps
    <3> QED
      BY <3>1, <3>2
  <2> QED
    BY <2>1, <2>2, <2>3 DEF OutputInv, OutputHonest
<1> QED
  BY <1>1, <1>2, <1>3, PTL DEF MCSpec

\* A name in the store resolves and a manifest entry says what its file holds, for any savers,
\* digests and calls, as long as no two processes put one digest at once (filesystem.py, cas.py,
\* _op_vol_have).
THEOREM StoredCorrect == StoreAlone => (MCSpec => []StoredSound)
<1> SUFFICES ASSUME StoreAlone PROVE MCSpec => []StoredSound
  OBVIOUS
<1>1. MCInit => StoreInv /\ HeldInv
  BY StoreStart, HeldStart
<1>2. StoreInv /\ HeldInv /\ [MCNext]_<<part, dataVars, outputVars, keepVars>> => StoreInv' /\ HeldInv'
  BY StoreKept, HeldKept DEF StoreAlone
<1>3. StoreInv /\ HeldInv => StoredSound
  BY DEF StoreInv, HeldInv, StoredSound
<1> QED
  BY <1>1, <1>2, <1>3, PTL DEF MCSpec

\* No version of an output on the client is replaced by an older one, nor a complete one by a half
\* of itself, wherever the body writes between a poll's look, its digest and its copy, and what a
\* call has saved stays in the store, whoever saves beside it (_Call.changed, filesystem.py).
THEOREM NothingLost == Versions \in Nat /\ StoreAlone => (MCSpec => NothingGoesBack)
<1> SUFFICES ASSUME Versions \in Nat, StoreAlone PROVE MCSpec => NothingGoesBack
  OBVIOUS
<1>1. MCInit => StoreInv /\ OutputInv
  BY StoreStart, OutputStart
<1>2. StoreInv /\ OutputInv /\ [MCNext]_<<part, dataVars, outputVars, keepVars>> => StoreInv' /\ OutputInv'
  BY StoreKept, OutputKept
<1>3. OutputInv /\ [MCNext]_<<part, dataVars, outputVars, keepVars>> =>
        [local' # local => Output!Rank(local') > Output!Rank(local)]_(Output!vars)
  BY OutputKept
<1>4. StoreInv /\ [MCNext]_<<part, dataVars, outputVars, keepVars>> =>
        [\A s \in Savers : saver[s].at = "done" => stored'[Store!Of(s)] = "whole"]_(Store!storeVars)
  <2>1. SUFFICES ASSUME StoreInv, [MCNext]_<<part, dataVars, outputVars, keepVars>>, Store!storeVars' # Store!storeVars
                 PROVE  Store!StoreNext
    BY StoreKeeps
  <2>2. ~UNCHANGED storeVars
    BY <2>1 DEF storeVars, Store!storeVars
  <2> QED
    BY <2>1, <2>2 DEF MCNext, keepVars
<1> QED
  BY <1>1, <1>2, <1>3, <1>4, PTL DEF MCSpec, NothingGoesBack, Output!NoOlderVersion, Store!SavedStays

\* A login or logout that ends anywhere, even between the three files it writes, leaves only
\* accounts that work and the load of every project whole, for any aliases, machines and kinds
\* (config/login.py, config/writer.py).
THEOREM AccountsCorrect == OneCommand => (MCSpec => []AccountsSound)
<1> SUFFICES ASSUME OneCommand PROVE MCSpec => []AccountsSound
  OBVIOUS
<1>1. MCInit => AccountsInv
  BY AccountsStart
<1>2. AccountsInv /\ [MCNext]_<<part, dataVars, outputVars, keepVars>> => AccountsInv'
  BY AccountsKept
<1>3. AccountsInv => AccountsSound
  BY DEF AccountsInv, AccountsSound
<1> QED
  BY <1>1, <1>2, <1>3, PTL DEF MCSpec

\* A call whose large arguments fit on the disk finds every one of them, whatever the sessions
\* before left there and wherever earlier calls of its own ended early, as long as one session uses
\* the machine and the call names no blob such a call left counted and unloaded (_externalize,
\* _op_have, _disk_evict, _resolve).  The editor's history holds what was spent, no more and
\* nothing lost, when answers are shown in the order in which they were read (recordSample, poll).
THEOREM TotalsCorrect == ArgsCounted /\ HistoryKept => (MCSpec => []TotalsHonest)
<1> SUFFICES ASSUME ArgsCounted, HistoryKept PROVE MCSpec => []TotalsHonest
  OBVIOUS
<1>1. MCInit => LargeInv /\ PollsInv
  BY LargeStart, PollsStart DEF MCInit
<1>2. LargeInv /\ PollsInv /\ [MCNext]_<<part, dataVars, outputVars, keepVars>> => LargeInv' /\ PollsInv'
  BY LargeKept, PollsKept
<1>3. LargeInv /\ PollsInv => TotalsHonest
  BY LargeHolds, PollsHold DEF TotalsHonest
<1> QED
  BY <1>1, <1>2, <1>3, PTL DEF MCSpec
=============================================================================
