-------------------------------- MODULE MCData --------------------------------
(***************************************************************************)
(* What letify keeps in files, for TLC.  A behaviour runs one of eight     *)
(* parts, chosen at the start, that share no state in the code:  the files *)
(* and the session that opens them (DataStream), the processes a call      *)
(* spawns (Spawned), the output that goes back while the body writes it    *)
(* (WriteBack), the content store (ContentStore), the requests that wait   *)
(* for one held blob (Materialize), the arguments a call sends through     *)
(* the store (ArgBlobs), and at home the accounts (Accounts) and the       *)
(* editor's history (EditorPolls).  The parts that do not run keep their   *)
(* initial state.                                                          *)
(***************************************************************************)
EXTENDS DataStream, Spawned, TLC

CONSTANTS s1, s2, f1, f2,
          Versions, Savers, Digests, Together, Calls, MaxWrites, Args, Limit, MaxPlan, Shared,
          Procs, Aliases, Targets, Kinds, Slots, Full, Days, Events, Ordered

VARIABLES part,
  file, writing, blobs, seen, reported, poll, work, listed, back, got, cancelled, delivered, local, reply, reopened,
  kind, stored, beside, ref, saver,
  target, pulled, entry, asks,
  disk, known, memory, uses, astray,
  login, home, project, secrets, trusts, job, out, wrote,
  quota, spending, topped, today, usage, refreshing, refresh, history, first, answers

outputVars == <<file, writing, blobs, seen, reported, poll, work, listed, back, got, cancelled, delivered,
                local, reply, reopened>>
storeVars == <<kind, stored, beside, ref, saver>>
materializeVars == <<target, pulled, entry, asks>>
argVars == <<disk, known, memory, uses, astray>>
accountVars == <<login, home, project, secrets, trusts, job, out, wrote>>
pollVars == <<quota, spending, topped, today, usage, refreshing, refresh, history, first, answers>>
homeVars == <<accountVars, pollVars>>
keepVars == <<storeVars, materializeVars, argVars, spawnVars, homeVars>>
dataVars == <<route, blob, partial, torn, open, edited, native, hidden, phase, todo, files, queue, sent, sender,
              flight, fault, wants, at, shared, snap, gone>>

\* One session that makes two calls, over its own leftovers, or two sessions at once.
MCPrograms == { s1 :> <<{f1, f2}, {f1}>> @@ s2 :> <<>>, s1 :> <<{f1}, {f2}>> @@ s2 :> <<>>,
                s1 :> <<{f1}>> @@ s2 :> <<{f1}>> }
\* One small argument among larger ones.
MCArgSize == [d \in Args |-> IF d = CHOOSE a \in Args : TRUE THEN 1 ELSE 2]

Output == INSTANCE WriteBack WITH Procfs <- TRUE, body <- work, sent <- delivered, client <- local, call <- reply
Store == INSTANCE ContentStore WITH blob <- stored, partial <- beside
Held == INSTANCE Materialize WITH Blobs <- Digests, file <- target, partial <- pulled, call <- asks
Large == INSTANCE ArgBlobs WITH ArgSize <- MCArgSize, call <- uses
Logins == INSTANCE Accounts WITH kind <- login
Polls == INSTANCE EditorPolls

MCInit ==
  /\ part \in {"files", "output", "store", "held", "large", "spawned", "accounts", "polls"}
  /\ Init /\ (part # "files" => /\ route = "pieces" /\ todo = CHOOSE t \in Programs : TRUE
                                /\ edited = {} /\ native = {} /\ \A f \in File : blob[f] = "none")
  /\ Output!Init
  /\ Store!StoreInit
  /\ (part # "store" => kind = "files" /\ \A s \in Savers : saver[s].of = CHOOSE d \in Digests : TRUE)
  /\ Held!MaterializeInit
  /\ (part # "held" => \A c \in Calls : asks[c].digest = (CHOOSE d \in Digests : TRUE) /\ asks[c].way = "put")
  /\ Large!ArgInit
  /\ SpawnInit /\ (part # "spawned" => manifest /\ \A c \in Children : writes[c])
  /\ Logins!AccountsInit
  \* The second alias is there for the files it shares; one kind of it is enough.
  /\ login[CHOOSE a \in Aliases : TRUE] = "elice"
  /\ (part # "accounts" => \A a \in Aliases : login[a] = "elice")
  /\ Polls!PollsInit

MCNext ==
  /\ UNCHANGED part
  /\ \/ part = "files" /\ Next /\ UNCHANGED <<outputVars, keepVars>>
     \/ part = "output" /\ Output!Next /\ UNCHANGED <<dataVars, keepVars>>
     \/ part = "store" /\ Store!StoreNext /\ UNCHANGED <<dataVars, outputVars, materializeVars, argVars, spawnVars, homeVars>>
     \/ part = "held" /\ Held!MaterializeNext /\ UNCHANGED <<dataVars, outputVars, storeVars, argVars, spawnVars, homeVars>>
     \/ part = "large" /\ Large!ArgNext /\ UNCHANGED <<dataVars, outputVars, storeVars, materializeVars, spawnVars, homeVars>>
     \/ part = "spawned" /\ SpawnNext /\ UNCHANGED <<dataVars, outputVars, storeVars, materializeVars, argVars, homeVars>>
     \/ part = "accounts" /\ Logins!AccountsNext /\ UNCHANGED <<dataVars, outputVars, storeVars, materializeVars,
                                                               argVars, spawnVars, pollVars>>
     \/ part = "polls" /\ Polls!PollsNext /\ UNCHANGED <<dataVars, outputVars, storeVars, materializeVars,
                                                         argVars, spawnVars, accountVars>>

MCSpec == MCInit /\ [][MCNext]_<<part, dataVars, outputVars, keepVars>>

-----------------------------------------------------------------------------
\* But for torn seals a body reads the bytes it was given, and the cache holds other bytes only
\* while the call that wrote them runs; a file a body waits for is on its way unless it was refused or removed.
FilesSound == TypeOK /\ ReadsWhole /\ CacheSound /\ PendingReachable

\* A call that succeeds leaves the body's last version of an output on the client, and a half
\* written version is delivered only where the body began it under a poll's digest.
OutputHonest == Output!TypeOK /\ Output!OutputFresh /\ Output!OutputComplete

\* No output on the client is replaced by an older version, and what a call has saved stays in
\* the store, whoever saves beside it.
NothingGoesBack == Output!NoOlderVersion /\ Store!SavedStays

\* The name of the newest checkpoint or environment points at contents the store has, and a file
\* the manifest of a volume vouches for holds what it says.
StoredSound == Store!RefResolves /\ Held!EntrySound

\* A login or logout, wherever it ends, leaves only accounts that work, spoils the load of a
\* project by no account that was not logged out, and does what it says when it says so.
AccountsSound ==
  Logins!AccountsTypeOK /\ Logins!AccountsUsable /\ Logins!LoadsUnlessOut /\ Logins!CommandsWhole

\* A call whose large arguments fit on the disk finds every one of them, unless a call that ended
\* early left them counted as held without loading them, and the editor's history
\* says what was spent.
TotalsHonest ==
  Large!FittingResolve /\ Polls!PollsTypeOK /\ Polls!SpentHonest /\ Polls!SpendingCounted /\ Polls!RefreshGuarded

\* pathdata.py:1026 "so a half-written file is never sent", of the output as the client has it.
NeverHalf == Output!NeverHalf

\* filesystem.py:35 "Write beside the target and rename, so a reader never sees a partial blob."
BlobsWhole == Store!BlobsWhole
=============================================================================
