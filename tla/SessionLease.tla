---------------------------- MODULE SessionLease ----------------------------
(***************************************************************************)
(* The lease of one session (letify/runtime/lease.py), from the first      *)
(* renewal in Runtime.boot to Runtime.shutdown (letify/runtime/session.py),*)
(* and the worker's deadline (_op_lease in letify/protocol/worker.py), over*)
(* a link that may drop and a client process that may die.                 *)
(*                                                                         *)
(* Every timer is an age that Tick advances, None while it does not run,   *)
(* and no tick passes a moment at which something is due.  A link delays   *)
(* what is on it and loses nothing; the connection is the one Connection   *)
(* models, of which only the renewal's request is kept here.               *)
(***************************************************************************)
EXTENDS Naturals

CONSTANTS
  Interval,   \* lease.INTERVAL
  Grace,      \* lease.GRACE
  Timeout,    \* the timeout of a renewal request
  Poll,       \* how often the worker looks at its deadline
  MaxDrop,    \* the longest the link stays down
  MaxMove,    \* the longest a move to another interpreter holds the gate
  Moves,      \* whether the session moves to the project's interpreter
  None

ASSUME Durations ==
  /\ {Interval, Grace, Timeout, Poll} \subseteq Nat \ {0}
  /\ {MaxDrop, MaxMove} \subseteq Nat
  /\ Moves \in BOOLEAN /\ None \notin Nat

\* A move takes less than a renewal waits, and two renewals fit into the grace period.
ASSUME Margins == MaxMove < Timeout /\ Interval + Timeout + Timeout <= Grace

VARIABLES
  main,    \* Runtime.boot and Runtime.shutdown
  held,    \* how long a move has held the gate
  renewer, \* the thread of Lease._loop; boot itself while main = "arming"
  stop,    \* Lease._stop
  waited,  \* how long the renewing thread has waited
  flight,  \* where its request is: "none", "gate", "request", "reply" or, unawaited, "late"
  asked,   \* the age of its timer
  conn,    \* the channel: "open", "broken" (the process was killed) or "closed"
  client,  \* the local process: "up", "dead", or "gone" with its machine, telling nobody
  down,    \* how long the link has been down
  worker,  \* whether the worker runs
  renewed, \* how long ago its _LEASE deadline was pushed
  look,    \* how long ago its watch thread looked at it
  bare,    \* how long ago a move took its deadline away, until the next renewal
  orphan,  \* how long nobody has kept the worker
  revived  \* the age of the lease of a worker started by a request after close

mainVars == <<main, held>>
loopVars == <<renewer, stop, waited, flight, asked>>
netVars == <<conn, client, down>>
workerVars == <<worker, renewed, look, bare>>
vars == <<mainVars, loopVars, netVars, workerVars, orphan, revived>>

\* The longest a worker may outlive whoever kept it, and the bound of the ages.
Outlives == MaxDrop + Grace + Poll
Oldest == MaxDrop + Interval + Timeout + Grace + Poll + 1

AgeUpTo(n) == (0 .. n) \cup {None}

Up == client = "up"

LinkUp == down = None

\* The gate is held while the worker moves to another interpreter.
Gated == main \in {"moving", "moved"}

TypeOK ==
  /\ main \in {"arming", "building", "moving", "moved", "ready", "stopping", "closing", "closed"}
  /\ renewer \in {"waiting", "woken", "asking", "ended"}
  /\ stop \in BOOLEAN /\ flight \in {"none", "gate", "request", "reply", "late"}
  /\ conn \in {"open", "broken", "closed"} /\ client \in {"up", "dead", "gone"}
  /\ worker \in BOOLEAN
  /\ held \in AgeUpTo(MaxMove) /\ waited \in AgeUpTo(Interval) /\ asked \in AgeUpTo(Timeout)
  /\ down \in AgeUpTo(MaxDrop) /\ renewed \in AgeUpTo(Oldest) /\ look \in AgeUpTo(Poll)
  /\ bare \in AgeUpTo(Oldest) /\ orphan \in AgeUpTo(Oldest)
  /\ revived \in AgeUpTo(Grace + Poll)
  /\ (held # None <=> Gated) /\ (waited # None <=> renewer = "waiting")
  /\ (asked # None <=> renewer = "asking")
  /\ (look # None <=> renewed # None) /\ (bare # None => worker /\ renewed = None)

\* Boot has started the channel and makes the first renewal.
Init ==
  /\ main = "arming" /\ held = None /\ renewer = "asking" /\ stop = FALSE
  /\ waited = None /\ flight = "gate" /\ asked = 0
  /\ conn = "open" /\ client = "up" /\ down = None
  /\ worker = TRUE /\ renewed = None /\ look = None /\ bare = None
  /\ orphan = None /\ revived = None

---------------------------------------------------------------------------
(* Lease._loop and Lease._renew *)

\* From now on nobody keeps the worker, unless it already was so.
Orphan == orphan' = IF orphan = None THEN 0 ELSE orphan

\* _stop.wait returned because the interval passed, or because of release.
Wake ==
  /\ renewer = "waiting" /\ (waited = Interval \/ stop)
  /\ renewer' = IF stop THEN "ended" ELSE "woken"
  /\ waited' = None
  /\ UNCHANGED <<mainVars, stop, flight, asked, netVars, workerVars, orphan, revived>>

\* Runtime.request finds the channel, and the timer starts before the gate.
Ask ==
  /\ renewer = "woken" /\ conn = "open"
  /\ renewer' = "asking" /\ flight' = "gate" /\ asked' = 0
  /\ UNCHANGED <<mainVars, stop, waited, netVars, workerVars, orphan, revived>>

\* The process was killed, so the session is gone; or the channel is, and the loop sees stop.
AskLost ==
  /\ renewer = "woken" /\ (conn = "broken" \/ (conn = "closed" /\ (main = "closed" \/ ~LinkUp)))
  /\ renewer' = "ended"
  /\ UNCHANGED <<mainVars, stop, waited, flight, asked, netVars, workerVars, orphan, revived>>

\* PersistentChannel.request finds no process while close still waits for the old one, and
\* starts another, whose lease it sets.
Revive ==
  /\ renewer = "woken" /\ conn = "closed" /\ main = "closing" /\ LinkUp
  /\ revived' = 0
  /\ renewer' = "ended"
  /\ UNCHANGED <<mainVars, stop, waited, flight, asked, netVars, workerVars, orphan>>

\* The request is written once the gate is free.
Send ==
  /\ flight = "gate" /\ ~Gated /\ conn = "open"
  /\ flight' = "request"
  /\ UNCHANGED <<mainVars, renewer, stop, waited, asked, netVars, workerVars, orphan, revived>>

\* Mutated form of RenewDeadline: only the first request sets the deadline.
RenewDeadlineOnce ==
  /\ renewed' = IF renewed = None THEN 0 ELSE renewed
  /\ look' = IF look = None THEN 0 ELSE look

\* _op_lease pushes the deadline, and starts the watch thread the first time.
RenewDeadline ==
  /\ renewed' = 0
  /\ look' = IF look = None THEN 0 ELSE look

\* The kernel delivers what was written, even after the client process died.
Deliver ==
  /\ flight \in {"request", "late"} /\ LinkUp /\ worker
  /\ RenewDeadline /\ bare' = None
  /\ flight' = IF flight = "request" THEN "reply" ELSE "none"
  /\ UNCHANGED <<mainVars, renewer, stop, waited, asked, netVars, worker, orphan, revived>>

\* A renewal ended: boot goes on and starts the loop, the loop waits its interval.
Renewed ==
  /\ renewer' = "waiting" /\ waited' = 0 /\ asked' = None
  /\ flight' = IF flight = "request" THEN "late" ELSE "none"
  /\ main' = IF main = "arming" THEN "building" ELSE main

Return ==
  /\ flight = "reply" /\ LinkUp /\ conn = "open"
  /\ Renewed
  /\ UNCHANGED <<held, stop, netVars, workerVars, orphan, revived>>

\* The timer kills the process of the channel; the loop takes it for a slow cycle.
Kill ==
  /\ asked = Timeout
  /\ conn' = IF conn = "open" THEN "broken" ELSE conn
  /\ Renewed /\ Orphan
  /\ UNCHANGED <<held, stop, client, down, workerVars, revived>>

\* The connection ended under the request, which fails.
Dropped ==
  /\ asked # None /\ LinkUp /\ (conn # "open" \/ ~worker)
  /\ conn' = IF conn = "open" THEN "broken" ELSE conn
  /\ Renewed /\ Orphan
  /\ UNCHANGED <<held, stop, client, down, workerVars, revived>>

---------------------------------------------------------------------------
(* Runtime.boot after the first renewal, and Runtime.shutdown *)

\* The environment is built with requests that do not hold the gate, for as long as it takes;
\* the move takes the gate when nothing is being sent.
Build ==
  /\ main = "building" /\ conn = "open" /\ LinkUp /\ flight # "request"
  /\ IF Moves THEN main' = "moving" /\ held' = 0 ELSE main' = "ready" /\ held' = held
  /\ UNCHANGED <<loopVars, netVars, workerVars, orphan, revived>>

\* The worker replies and execs the project's interpreter: _LEASE and its thread are gone.
Exec ==
  /\ main = "moving" /\ LinkUp /\ worker /\ conn = "open"
  /\ main' = "moved"
  /\ renewed' = None /\ look' = None /\ bare' = 0
  /\ UNCHANGED <<held, loopVars, netVars, worker, orphan, revived>>

\* Its hello arrived, behind any reply to a renewal, and the gate is free again.
Moved ==
  /\ main = "moved" /\ LinkUp /\ conn = "open" /\ flight # "reply"
  /\ main' = "ready" /\ held' = None
  /\ UNCHANGED <<loopVars, netVars, workerVars, orphan, revived>>

\* Runtime.shutdown releases the lease, also when a step of boot failed ...
Release ==
  /\ main \in {"building", "moving", "moved", "ready"}
  /\ main' = "stopping" /\ held' = None /\ stop' = TRUE
  /\ UNCHANGED <<renewer, waited, flight, asked, netVars, workerVars, orphan, revived>>

\* ... and closes the channel, which forgets the process and ends its input ...
Close ==
  /\ main = "stopping"
  /\ main' = "closing" /\ conn' = "closed"
  /\ Orphan
  /\ UNCHANGED <<held, loopVars, client, down, workerVars, revived>>

\* ... and drops the channel when the process ended or was killed.
Closed ==
  /\ main = "closing"
  /\ main' = "closed"
  /\ UNCHANGED <<held, loopVars, netVars, workerVars, orphan, revived>>

---------------------------------------------------------------------------
(* The worker *)

WorkerGone == worker' = FALSE /\ renewed' = None /\ look' = None /\ bare' = None

\* End of input: the worker stops after the job it runs, whenever that is.
InputEnds ==
  /\ worker /\ LinkUp /\ (conn # "open" \/ client = "dead")
  /\ WorkerGone
  /\ UNCHANGED <<mainVars, loopVars, netVars, orphan, revived>>

\* Mutated form of Look: the watch thread looks at the deadline once.
LookOnce ==
  /\ worker /\ look = Poll
  /\ IF renewed > Grace THEN WorkerGone ELSE look' = None /\ UNCHANGED <<worker, renewed, bare>>
  /\ UNCHANGED <<mainVars, loopVars, netVars, orphan, revived>>

\* The watch thread exits the process if the deadline has passed.
Look ==
  /\ worker /\ look = Poll
  /\ IF renewed > Grace THEN WorkerGone ELSE look' = 0 /\ UNCHANGED <<worker, renewed, bare>>
  /\ UNCHANGED <<mainVars, loopVars, netVars, orphan, revived>>

\* The revived worker is renewed by nobody.
RevivedEnds ==
  /\ revived # None /\ revived >= Grace
  /\ revived' = None
  /\ UNCHANGED <<mainVars, loopVars, netVars, workerVars, orphan>>

---------------------------------------------------------------------------
(* The link, the client and the clock *)

\* What a drop delayed gets through before the link drops again; a drop in the middle of a
\* move counts as part of MaxMove.
LinkDrops ==
  /\ LinkUp /\ MaxDrop > 0 /\ ~Gated /\ asked \in {None, 0} /\ flight # "late"
  /\ down' = 0
  /\ UNCHANGED <<mainVars, loopVars, conn, client, workerVars, orphan, revived>>

LinkReturns ==
  /\ ~LinkUp /\ down > 0
  /\ down' = None
  /\ UNCHANGED <<mainVars, loopVars, conn, client, workerVars, orphan, revived>>

\* kill -9 ends the process and its connections; a power cut tells nobody.
Die ==
  /\ Up
  /\ \E how \in {"dead", "gone"} :
       /\ client' = how
       /\ flight' = IF flight \in {"request", "late"} /\ how = "dead" THEN "late" ELSE "none"
  /\ main' = "closed" /\ held' = None
  /\ renewer' = "ended" /\ waited' = None /\ asked' = None
  /\ Orphan
  /\ UNCHANGED <<stop, conn, down, workerVars, revived>>

\* Something happens at this very moment: a thread runs, a timer or a poll is due, a byte
\* arrives, the link or the move has taken as long as it may.
Due ==
  \/ renewer = "woken" \/ main = "stopping"
  \/ renewer = "waiting" /\ (waited = Interval \/ stop)
  \/ held = MaxMove \/ asked = Timeout \/ down = MaxDrop \/ look = Poll
  \/ flight = "gate" /\ ~Gated /\ conn = "open"
  \/ flight = "reply" /\ LinkUp
  \/ asked # None /\ LinkUp /\ (conn # "open" \/ ~worker)
  \/ flight \in {"request", "late"} /\ LinkUp /\ worker
  \/ revived = Grace + Poll

Later(age, most) == IF age = None \/ age = most THEN age ELSE age + 1

Tick ==
  /\ ~Due
  /\ held' = Later(held, MaxMove) /\ waited' = Later(waited, Interval)
  /\ asked' = Later(asked, Timeout) /\ down' = Later(down, MaxDrop)
  /\ renewed' = Later(renewed, Oldest) /\ look' = Later(look, Poll)
  /\ bare' = Later(bare, Oldest)
  /\ orphan' = Later(orphan, Oldest) /\ revived' = Later(revived, Grace + Poll)
  /\ UNCHANGED <<main, renewer, stop, flight, conn, client, worker>>

Next ==
  \/ Wake \/ Ask \/ AskLost \/ Revive \/ Send \/ Deliver \/ Return \/ Kill \/ Dropped
  \/ Build \/ Exec \/ Moved \/ Release \/ Close \/ Closed
  \/ InputEnds \/ Look \/ RevivedEnds
  \/ LinkDrops \/ LinkReturns \/ Die \/ Tick

Spec == Init /\ [][Next]_vars

---------------------------------------------------------------------------
(* Properties *)

\* A living session loses its connection or its worker only to the timer of a renewal that
\* was written and is stuck on the link: the deadline never ends it, and no renewal that
\* waits out a move at the gate does (Lease._loop, _Watchdog, _op_lease).
LostOnlyByDrop ==
  [][conn = "open" /\ worker /\ Up /\ main \notin {"stopping", "closing", "closed"}
       => \/ (conn' = "open" /\ worker') \/ client' # "up"
          \/ (asked = Timeout /\ flight \in {"request", "reply"})]_vars

\* A worker that holds a deadline ends within the grace period and one poll of the moment
\* nobody keeps it any more, plus a drop after which a renewal written before that moment
\* arrives; one that a late renewal started after close ends too, one interval later at
\* most (_op_lease, PersistentChannel.request).
OrphanEnds ==
  /\ worker /\ renewed # None /\ orphan # None => orphan <= Outlives
  /\ revived # None => orphan # None /\ orphan <= Interval + Grace + Poll

\* A worker whose client is alive is without the deadline a move took away for at most one
\* interval and one renewal (Lease._loop, _reexec).
BareBriefly == Up /\ conn = "open" /\ bare # None => bare <= Interval + Timeout

\* While the client lives and does not end the session, the session stays, however the link
\* flickers within the grace period, as lease.py and its GRACE have it.
DropTolerated ==
  Up /\ main \notin {"stopping", "closing", "closed"} => conn = "open" /\ worker

\* Every worker that was given a deadline ends within the grace period and one poll of the
\* moment nobody keeps it, as lease.py has it.
EveryOrphanEnds ==
  worker /\ orphan # None /\ (renewed # None \/ bare # None) => orphan <= Outlives

=============================================================================
