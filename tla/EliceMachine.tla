----------------------------- MODULE EliceMachine -----------------------------
(***************************************************************************)
(* The one machine an Elice account runs its sessions on (elice.py): a     *)
(* start finds, launches or starts it, later starts join it, and the last  *)
(* stop ends it.  The sessions are of one process, which counts them; the  *)
(* machine can also be taken back by Elice when its price is "spot".       *)
(***************************************************************************)
EXTENDS Integers, FiniteSets

CONSTANTS Users,    \* the threads that start and stop sessions of the account
          Serial    \* whether starts and stops of one account come one at a time

VARIABLES
  spot, declared, persistent,  \* price_type, machine_id and persistence of the account
  vm, ours,                    \* the machine, and whether letify set it running
  pc, mine,                    \* each thread, and whether its Runtime has the machine's name
  holders,                     \* Elice._holders
  starting, pending,           \* Elice._starting and _pending_machine, shared by all starts
  stopped, preempted,          \* Elice._stopped and _preempted
  told                         \* the user was told the command that ends the machine

account == <<spot, declared, persistent>>
shared == <<starting, pending, stopped, preempted>>
eliceVars == <<account, vm, ours, pc, mine, holders, shared, told>>

Working == {"finding", "launching", "starting", "reached", "booting", "releasing", "ending"}

TypeOK ==
  /\ {spot, declared, persistent, ours, starting, pending, stopped, preempted, told} \subseteq BOOLEAN
  /\ vm \in {"none", "idle", "started"} /\ mine \in [Users -> BOOLEAN]
  /\ pc \in [Users -> Working \union {"out", "live", "lost"}]
  /\ holders \in 0 .. Cardinality(Users)

Init ==
  /\ spot \in BOOLEAN /\ declared \in BOOLEAN /\ persistent \in BOOLEAN
  /\ vm \in {"none", "idle", "started"} /\ (declared => vm # "none") /\ ours = FALSE
  /\ pc = [u \in Users |-> "out"] /\ mine = [u \in Users |-> FALSE] /\ holders = 0
  /\ starting = FALSE /\ pending = FALSE /\ stopped = FALSE /\ preempted = FALSE /\ told = FALSE

Alone(u) == Serial => \A v \in Users \ {u} : pc[v] \notin Working
Goes(u, where) == pc' = [pc EXCEPT ![u] = where]

-----------------------------------------------------------------------------
\* Elice.start forgets what an earlier start was doing.
Begins(u) ==
  /\ pc[u] = "out" /\ Alone(u) /\ Goes(u, "finding")
  /\ starting' = FALSE /\ pending' = FALSE
  /\ UNCHANGED <<account, vm, ours, mine, holders, stopped, preempted, told>>

\* create_session: a machine that is not there is launched, one that is off is started.
Finds(u) ==
  /\ pc[u] = "finding"
  /\ \/ vm = "none" /\ declared /\ Goes(u, "releasing") /\ UNCHANGED starting
     \/ vm = "none" /\ ~declared /\ Goes(u, "launching") /\ starting' = TRUE
     \/ vm = "idle" /\ Goes(u, "starting") /\ starting' = TRUE
     \/ vm = "started" /\ Goes(u, "reached") /\ UNCHANGED starting
  /\ UNCHANGED <<account, vm, ours, mine, holders, pending, stopped, preempted, told>>

\* No instance type has the shape, the quota is 0 or the zone is full: nothing is launched.
Refuses(u) ==
  /\ pc[u] = "launching" /\ Goes(u, "releasing") /\ starting' = FALSE
  /\ UNCHANGED <<account, vm, ours, mine, holders, pending, stopped, preempted, told>>
\* _launch makes the machine, whether the command says so or not.
Launches(u) ==
  /\ pc[u] = "launching"
  /\ \/ vm = "none" /\ vm' \in {"idle", "started"} /\ ours' = TRUE /\ told' = FALSE
        /\ Goes(u, "starting") /\ UNCHANGED starting
     \/ vm = "none" /\ vm' = "idle" /\ ours' = TRUE /\ told' = FALSE
        /\ Goes(u, "releasing") /\ UNCHANGED starting
     \/ vm # "none" /\ Goes(u, "releasing") /\ UNCHANGED <<vm, ours, told, starting>>
  /\ UNCHANGED <<account, mine, holders, pending, stopped, preempted>>

\* _ensure_started and _wait_for: the machine starts in time, late, or not at all.
StartsUp(u) ==
  /\ pc[u] = "starting"
  /\ \/ /\ vm # "none" /\ vm' = "started" /\ ours' = (ours \/ vm = "idle")
        /\ told' = (told /\ vm = "started")
        /\ Goes(u, "reached") \/ Goes(u, "releasing")
     \/ Goes(u, "releasing") /\ UNCHANGED <<vm, ours, told>>
  /\ UNCHANGED <<account, mine, holders, shared>>

\* SSH answers and has the key: the session counts as one on the machine.
Counts(u) ==
  /\ pc[u] = "reached" /\ Goes(u, "booting")
  /\ pending' = TRUE /\ holders' = holders + 1 /\ stopped' = FALSE /\ preempted' = FALSE
  /\ UNCHANGED <<account, vm, ours, mine, starting, told>>

\* The runtime is given the machine's name only after it has booted.
Boots(u) ==
  /\ pc[u] = "booting" /\ Goes(u, "live") /\ starting' = FALSE /\ mine' = [mine EXCEPT ![u] = pending]
  /\ UNCHANGED <<account, vm, ours, holders, pending, stopped, preempted, told>>

\* No SSH or no key before it is counted, no session after; stop then knows no machine.
Breaks(u) ==
  /\ pc[u] \in {"finding", "reached", "booting"} /\ Goes(u, "releasing")
  /\ UNCHANGED <<account, vm, ours, mine, holders, shared, told>>

\* Mutant: it looks at the machine of a counted start only.
ReleasesPending(u) ==
  /\ pc[u] = "releasing" /\ starting' = FALSE
  /\ holders' = IF pending /\ holders > 0 THEN holders - 1 ELSE holders
  /\ Goes(u, IF pending /\ holders' = 0 THEN "ending" ELSE "out")
  /\ UNCHANGED <<account, vm, ours, mine, pending, stopped, preempted, told>>
\* _release_failed_start: the machine this start made, started or joined, unless it is held.
Releases(u) ==
  /\ pc[u] = "releasing" /\ starting' = FALSE
  /\ holders' = IF pending /\ holders > 0 THEN holders - 1 ELSE holders
  /\ Goes(u, IF (pending \/ starting) /\ holders' = 0 THEN "ending" ELSE "out")
  /\ UNCHANGED <<account, vm, ours, mine, pending, stopped, preempted, told>>

\* Mutant: whoever stops ends the machine.
StopsAll(u) ==
  /\ pc[u] \in {"live", "lost"} /\ Alone(u) /\ mine' = [mine EXCEPT ![u] = FALSE]
  /\ holders' = IF mine[u] /\ holders > 0 THEN holders - 1 ELSE holders
  /\ Goes(u, IF mine[u] /\ ~preempted THEN "ending" ELSE "out")
  /\ UNCHANGED <<account, vm, ours, shared, told>>
\* stop: the last one on the machine ends it, unless Elice already has.
Stops(u) ==
  /\ pc[u] \in {"live", "lost"} /\ Alone(u) /\ mine' = [mine EXCEPT ![u] = FALSE]
  /\ holders' = IF mine[u] /\ holders > 0 THEN holders - 1 ELSE holders
  /\ Goes(u, IF mine[u] /\ holders' = 0 /\ ~preempted THEN "ending" ELSE "out")
  /\ UNCHANGED <<account, vm, ours, shared, told>>

\* _end_machine: deleted, or kept stopped when it is persistent or the user's; a failure is told.
EndsMachine(u) ==
  /\ pc[u] = "ending" /\ stopped' = TRUE /\ Goes(u, "out")
  /\ \/ /\ vm' = IF (~persistent /\ ~declared) \/ vm = "none" THEN "none" ELSE "idle"
        /\ ours' = FALSE /\ UNCHANGED told
     \/ told' = TRUE /\ UNCHANGED <<vm, ours>>
  /\ UNCHANGED <<account, mine, holders, starting, pending, preempted>>

\* Elice takes a spot machine back, with or without its disk.
Preempts ==
  /\ spot /\ vm = "started" /\ vm' \in {"none", "idle"} /\ ours' = FALSE
  /\ UNCHANGED <<account, pc, mine, holders, shared, told>>
\* diagnose: a call failed on a spot machine letify did not end and that is not running.
Diagnoses(u) ==
  /\ pc[u] = "live" /\ vm # "started" /\ Goes(u, "lost")
  /\ preempted' = (preempted \/ (mine[u] /\ ~stopped /\ spot))
  /\ UNCHANGED <<account, vm, ours, mine, holders, starting, pending, stopped, told>>

Next ==
  \/ \E u \in Users :
       \/ Begins(u) \/ Finds(u) \/ Refuses(u) \/ Launches(u) \/ StartsUp(u) \/ Counts(u) \/ Boots(u) \/ Breaks(u)
       \/ Releases(u) \/ Stops(u) \/ EndsMachine(u) \/ Diagnoses(u)
  \/ Preempts

Spec == Init /\ [][Next]_eliceVars

-----------------------------------------------------------------------------
\* With no session and no start left, a machine that letify set running is off, or the user was
\* told the command that ends it.  The exception: Elice took it back from a session that had not
\* ended yet and another start set it running again (elice.py: _release_failed_start, stop).
NothingLeftRunning ==
  (\A u \in Users : pc[u] = "out") /\ vm = "started" /\ ours => told \/ preempted

\* letify never ends the machine under a session that is on it (elice.py: _holders, "so one
\* stop does not end another").
EndsUnused ==
  [][\A u, v \in Users : pc[u] = "ending" /\ vm = "started" /\ vm' # "started" /\ u # v
       /\ pc'[u] = "out" => pc[v] # "live"]_eliceVars
=============================================================================
