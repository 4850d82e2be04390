---------------------------- MODULE RuntimePool ----------------------------
(***************************************************************************)
(* The pool that hands out runtimes (letify/runtime/pool.py), the device   *)
(* reservations of one provider account (letify/providers/base.py), and    *)
(* the callers that drive them: a declared function's call with its        *)
(* retries (letify/declare/function.py), let.keep_alive() blocks and the   *)
(* exit handler (letify/launcher.py).                                      *)
(*                                                                         *)
(* Every step is one critical section of the code (RuntimePool._guard or   *)
(* Provider._devices_guard) or one blocking operation outside both.        *)
(* One accelerator of one provider is modelled: pool and provider index    *)
(* all card bookkeeping by that pair, so two accelerators share nothing    *)
(* but the hold depth.                                                     *)
(***************************************************************************)
EXTENDS Naturals, FiniteSets

CONSTANTS
  Calls,      \* invocations of declared functions, each on a thread of its own
  Blocks,     \* let.keep_alive() blocks
  Exit,       \* the thread that runs RuntimePool.shutdown (atexit or a signal)
  None,       \* no value
  Keys,       \* pool keys, "instance.key|env.key"
  KeyOf,      \* the pool key each call asks for
  Width,      \* instance.devices of each key
  Parent,     \* the block or host="local" call whose thread makes a call, or None
  Local,      \* calls whose body runs in this process (Function._run_here)
  Movers,     \* Function.session(): borrow the session without an invocation
  Retries,    \* Function.retries
  Indices,    \* registered device indices, {} where the provider assigns the device
  Count,      \* Devices.count of the inventory entry
  MayExit,    \* whether RuntimePool.shutdown may run
  Shared      \* registered indices another user may compute on

Threads == Calls \cup Blocks \cup {Exit}

\* A call starts at most one session per attempt, so the pair names the session.
Session == Calls \X (0 .. Retries)

SKey(s) == KeyOf[s[1]]

ASSUME Threading ==
  /\ Calls \cap Blocks = {} /\ Exit \notin Calls \cup Blocks
  /\ None \notin Session /\ None \notin Threads

ASSUME Declarations ==
  /\ KeyOf \in [Calls -> Keys] /\ Width \in [Keys -> Nat \ {0}]
  /\ Local \subseteq Calls /\ Movers \subseteq Calls
  /\ Parent \in [Calls -> Local \cup Blocks \cup {None}]
  /\ Retries \in Nat /\ MayExit \in BOOLEAN

\* Devices.read: indices alone give the count, and both must agree.
ASSUME Inventory ==
  /\ Indices \subseteq Nat /\ IsFiniteSet(Indices) /\ Shared \subseteq Indices
  /\ Count \in Nat \ {0}
  /\ Indices # {} => Count = Cardinality(Indices)

VARIABLES
  pc,        \* where each thread is
  ret,       \* where a thread goes on when RuntimePool.discard returns
  attempt,   \* the attempt number in Function._run_one
  rt,        \* the runtime a call was handed
  outcome,   \* how a call ended
  cand,      \* candidates a sweep or a shutdown still has to end
  drop,      \* the runtime a thread is discarding
  bucket,    \* runtimes registered in RuntimePool._runtimes
  busy,      \* runtimes whose busy flag is set
  depth,     \* RuntimePool._hold_depth
  starting,  \* RuntimePool._starting of this accelerator
  held,      \* Runtime.held_devices
  reserved,  \* Provider._reserved of this accelerator
  taken,     \* Provider._taken of this accelerator
  live,      \* sessions that exist at the provider
  others     \* indices another user is computing on

poolVars == <<bucket, busy, depth, starting>>
cardVars == <<held, reserved, taken>>
callVars == <<attempt, rt, outcome>>
workVars == <<ret, cand, drop>>
vars == <<pc, workVars, callVars, poolVars, cardVars, live, others>>

Labels == {"out", "look", "count", "reserve", "create", "boot", "giveback", "uncount",
           "decide", "wait", "run", "release", "dropidle", "discard", "unreserve", "stop",
           "retry", "leave", "snapshot", "sweep", "open", "purge", "done", "dead"}

Outcomes == {"none", "returned", "lost", "nostart", "refused", "unsupported"}

TypeOK ==
  /\ pc \in [Threads -> Labels]
  /\ ret \in [Threads -> Labels]
  /\ attempt \in [Calls -> 0 .. Retries]
  /\ rt \in [Calls -> Session \cup {None}]
  /\ outcome \in [Calls -> Outcomes]
  /\ cand \in [Threads -> SUBSET Session]
  /\ drop \in [Threads -> Session \cup {None}]
  /\ bucket \subseteq Session /\ busy \subseteq Session
  /\ depth \in Nat /\ starting \in Nat
  /\ held \in [Session -> SUBSET Indices]
  /\ reserved \subseteq Indices /\ taken \in Nat
  /\ live \subseteq Session
  /\ others \subseteq Indices

Init ==
  /\ pc = [t \in Threads |-> "out"]
  /\ ret = [t \in Threads |-> "out"]
  /\ attempt = [c \in Calls |-> 0]
  /\ rt = [c \in Calls |-> None]
  /\ outcome = [c \in Calls |-> "none"]
  /\ cand = [t \in Threads |-> {}]
  /\ drop = [t \in Threads |-> None]
  /\ bucket = {} /\ busy = {} /\ depth = 0 /\ starting = 0
  /\ held = [s \in Session |-> {}]
  /\ reserved = {} /\ taken = 0
  /\ live = {}
  /\ others = {}

---------------------------------------------------------------------------
(* Helpers *)

\* The session call c starts at its current attempt.
Mine(c) == <<c, attempt[c]>>

\* Nothing runs once the process has died.
Alive == pc[Exit] # "dead"

At(t, label) == Alive /\ pc[t] = label

Goto(t, label) == pc' = [pc EXCEPT ![t] = label]

\* Move on and notify_all on RuntimePool._free: every waiter looks again.
GotoNotify(t, label) ==
  pc' = [u \in Threads |-> IF u = t THEN label
                           ELSE IF pc[u] = "wait" THEN "look" ELSE pc[u]]

Monus(m, n) == IF m > n THEN m - n ELSE 0

ChoosesIndices == Indices # {}

\* Mutated form of Free: the reservations of this process are not looked at.
FreeOfOthers == Indices \ others

\* Provider.free: registered, not reserved here, not computed on by another user.
Free == Indices \ (reserved \cup others)

\* S is available[:n] of the sorted indices T.
IsFirst(S, T, n) ==
  S \subseteq T /\ Cardinality(S) = n /\ \A i \in S : \A j \in T \ S : i < j

\* instance.devices: how many devices the session of call c takes.
Wanted(c) == Width[KeyOf[c]]

\* Calls made on the thread of t that have not returned.
Active(t) == {c \in Calls : Parent[c] = t /\ pc[c] \notin {"out", "done"}}

\* The thread that makes call c has reached it.
Reached(c) ==
  \/ Parent[c] = None
  \/ Parent[c] \in Blocks /\ pc[Parent[c]] = "open"
  \/ Parent[c] \in Calls /\ pc[Parent[c]] = "run"

\* A retry starts a fresh session; Function._run_here is never retried.
AttemptsLeft(c) == c \notin Local /\ attempt[c] < Retries

---------------------------------------------------------------------------
(* Entering: Launcher.invocation, Launcher.keep_alive, Function.session *)

EnterCall(c) ==
  /\ At(c, "out") /\ Reached(c) /\ c \notin Movers
  /\ depth' = depth + 1
  /\ Goto(c, "look")
  /\ UNCHANGED <<workVars, callVars, bucket, busy, starting, cardVars, live, others>>

\* Function.session refuses unless something holds the pool, and holds nothing itself.
EnterMover(c) ==
  /\ At(c, "out") /\ Reached(c) /\ c \in Movers
  /\ \/ depth > 0 /\ Goto(c, "look") /\ UNCHANGED outcome
     \/ depth = 0 /\ Goto(c, "done") /\ outcome' = [outcome EXCEPT ![c] = "unsupported"]
  /\ UNCHANGED <<workVars, attempt, rt, poolVars, cardVars, live, others>>

OpenBlock(b) ==
  /\ At(b, "out")
  /\ depth' = depth + 1
  /\ Goto(b, "open")
  /\ UNCHANGED <<workVars, callVars, bucket, busy, starting, cardVars, live, others>>

CloseBlock(b) ==
  /\ At(b, "open") /\ Active(b) = {}
  /\ Goto(b, "leave")
  /\ UNCHANGED <<workVars, callVars, poolVars, cardVars, live, others>>

---------------------------------------------------------------------------
(* RuntimePool.acquire *)

\* An idle session with the key of call c.
CanReuse(c) == \E s \in bucket \ busy : SKey(s) = KeyOf[c]

\* The first guarded section: reuse an idle session with the same key.
Reuse(c, s) ==
  /\ At(c, "look")
  /\ s \in bucket \ busy /\ SKey(s) = KeyOf[c]
  /\ busy' = busy \cup {s}
  /\ rt' = [rt EXCEPT ![c] = s]
  /\ Goto(c, "run")
  /\ UNCHANGED <<workVars, attempt, outcome, bucket, depth, starting, cardVars, live, others>>

LookFails(c) ==
  /\ At(c, "look") /\ ~CanReuse(c)
  /\ Goto(c, "count")
  /\ UNCHANGED <<workVars, callVars, poolVars, cardVars, live, others>>

\* The second guarded section: announce the start before holding its cards.
CountStart(c) ==
  /\ At(c, "count")
  /\ starting' = starting + 1
  /\ Goto(c, "reserve")
  /\ UNCHANGED <<workVars, callVars, bucket, busy, depth, cardVars, live, others>>

\* Provider.reserve finds enough cards and takes all of them, or none.
Reserve(c) ==
  /\ At(c, "reserve")
  /\ \/ /\ ChoosesIndices
        /\ \E got \in SUBSET Free :
             /\ IsFirst(got, Free, Wanted(c))
             /\ held' = [held EXCEPT ![Mine(c)] = got]
             /\ reserved' = reserved \cup got
        /\ UNCHANGED taken
     \/ /\ ~ChoosesIndices
        /\ taken + Wanted(c) <= Count
        /\ taken' = taken + Wanted(c)
        /\ UNCHANGED <<held, reserved>>
  /\ Goto(c, "create")
  /\ UNCHANGED <<workVars, callVars, poolVars, live, others>>

ReserveFails(c) ==
  /\ At(c, "reserve")
  /\ \/ ChoosesIndices /\ Cardinality(Free) < Wanted(c)
     \/ ~ChoosesIndices /\ taken + Wanted(c) > Count
  /\ Goto(c, "uncount")
  /\ UNCHANGED <<workVars, callVars, poolVars, cardVars, live, others>>

\* The machine is asked who else is on its cards and does not answer (Shell.busy).
ReserveRaises(c) ==
  /\ At(c, "reserve") /\ ChoosesIndices
  /\ outcome' = [outcome EXCEPT ![c] = "nostart"]
  /\ Goto(c, "uncount")
  /\ UNCHANGED <<workVars, attempt, rt, poolVars, cardVars, live, others>>

\* Provider.start: create_session is where the provider starts to bill.
CreateSession(c) ==
  /\ At(c, "create")
  /\ live' = live \cup {Mine(c)}
  /\ Goto(c, "boot")
  /\ UNCHANGED <<workVars, callVars, poolVars, cardVars, others>>

\* Mutated form of BootOk: the new runtime is registered without being marked busy.
BootUnmarked(c) ==
  /\ At(c, "boot")
  /\ bucket' = bucket \cup {Mine(c)}
  /\ rt' = [rt EXCEPT ![c] = Mine(c)]
  /\ Goto(c, "uncount")
  /\ UNCHANGED <<workVars, attempt, outcome, busy, depth, starting, cardVars, live, others>>

\* Runtime.boot succeeds and RuntimePool._start registers the runtime, already busy.
BootOk(c) ==
  /\ At(c, "boot")
  /\ bucket' = bucket \cup {Mine(c)}
  /\ busy' = busy \cup {Mine(c)}
  /\ rt' = [rt EXCEPT ![c] = Mine(c)]
  /\ Goto(c, "uncount")
  /\ UNCHANGED <<workVars, attempt, outcome, depth, starting, cardVars, live, others>>

\* A refused declaration or a failed boot: the session is shut down before the raise.
StartFails(c) ==
  /\ At(c, "create") \/ At(c, "boot")
  /\ live' = live \ {Mine(c)}
  /\ outcome' = [outcome EXCEPT ![c] = "nostart"]
  /\ Goto(c, "giveback")
  /\ UNCHANGED <<workVars, attempt, rt, poolVars, cardVars, others>>

\* Provider.unreserve for the cards of session s.
Unreserve(s) ==
  \/ held[s] # {} /\ reserved' = reserved \ held[s] /\ UNCHANGED <<held, taken>>
  \/ held[s] = {} /\ taken' = Monus(taken, Width[SKey(s)]) /\ UNCHANGED <<held, reserved>>

GiveBack(c) ==
  /\ At(c, "giveback")
  /\ Unreserve(Mine(c))
  /\ Goto(c, "uncount")
  /\ UNCHANGED <<workVars, callVars, poolVars, live, others>>

\* The finally block of acquire, then: run, raise, or look for a reason to wait.
Uncount(c) ==
  /\ At(c, "uncount")
  /\ starting' = starting - 1
  /\ GotoNotify(c, IF rt[c] # None THEN "run"
                   ELSE IF outcome[c] = "nostart" THEN "leave" ELSE "decide")
  /\ UNCHANGED <<workVars, callVars, bucket, busy, depth, cardVars, live, others>>

\* RuntimePool._unallocatable is None: a session here will give a card back.
WorthWaiting(c) ==
  /\ Wanted(c) <= Count
  /\ bucket \cap busy # {} \/ starting > 0

Decide(c) ==
  /\ At(c, "decide")
  /\ \/ CanReuse(c) /\ Goto(c, "look") /\ UNCHANGED outcome
     \/ ~CanReuse(c) /\ WorthWaiting(c) /\ Goto(c, "wait") /\ UNCHANGED outcome
     \/ /\ ~CanReuse(c) /\ ~WorthWaiting(c)
        /\ Goto(c, "leave")
        /\ outcome' = [outcome EXCEPT ![c] = "refused"]
  /\ UNCHANGED <<workVars, attempt, rt, poolVars, cardVars, live, others>>

\* Condition.wait(timeout=POLL_INTERVAL) runs out.
PollTimeout(c) ==
  /\ At(c, "wait")
  /\ Goto(c, "look")
  /\ UNCHANGED <<workVars, callVars, poolVars, cardVars, live, others>>

---------------------------------------------------------------------------
(* Function._run_one, Function._run_here and the release rule *)

\* The body returned or raised by itself; a mover hands the session straight back.
RunEnds(c) ==
  /\ At(c, "run") /\ Active(c) = {}
  /\ c \in Movers \/ rt[c] \in live
  /\ outcome' = [outcome EXCEPT ![c] = "returned"]
  /\ Goto(c, "release")
  /\ UNCHANGED <<workVars, attempt, rt, poolVars, cardVars, live, others>>

\* RuntimeFailure or ProtocolError: the session is no longer trusted.
RunFails(c) ==
  /\ At(c, "run") /\ Active(c) = {} /\ c \notin Movers
  /\ Goto(c, "discard")
  /\ UNCHANGED <<workVars, callVars, poolVars, cardVars, live, others>>

\* Mutated form of Release: the busy flag is not cleared.
ReleaseStillBusy(c) ==
  /\ At(c, "release")
  /\ \/ depth > 0 /\ GotoNotify(c, "leave")
     \/ depth = 0 /\ Goto(c, "dropidle")
  /\ UNCHANGED <<workVars, callVars, poolVars, cardVars, live, others>>

\* RuntimePool.release: the session stays only while a hold is open.
Release(c) ==
  /\ At(c, "release")
  /\ busy' = busy \ {rt[c]}
  /\ \/ depth > 0 /\ GotoNotify(c, "leave")
     \/ depth = 0 /\ Goto(c, "dropidle")
  /\ UNCHANGED <<workVars, callVars, bucket, depth, starting, cardVars, live, others>>

\* Mutated forms of MayDropIdle: the session may be gone already, or a hold may be open.
MayDropGone(s) == s \notin busy /\ depth = 0

MayDropHeld(s) == s \in bucket \ busy

\* The guarded section of RuntimePool.discard(idle_only=True) lets runtime s go.
MayDropIdle(s) == s \in bucket \ busy /\ depth = 0

StartDrop(t, s, back) ==
  /\ bucket' = bucket \ {s}
  /\ drop' = [drop EXCEPT ![t] = s]
  /\ ret' = [ret EXCEPT ![t] = back]

DropIdle(c) ==
  /\ At(c, "dropidle")
  /\ \/ MayDropIdle(rt[c]) /\ StartDrop(c, rt[c], "leave") /\ Goto(c, "unreserve")
     \/ ~MayDropIdle(rt[c]) /\ Goto(c, "leave") /\ UNCHANGED <<bucket, drop, ret>>
  /\ UNCHANGED <<cand, callVars, busy, depth, starting, cardVars, live, others>>

\* Mutated form of Discard: a runtime no longer registered gives its cards back again.
DiscardTwice(c) ==
  /\ At(c, "discard")
  /\ StartDrop(c, rt[c], "retry")
  /\ Goto(c, "unreserve")
  /\ UNCHANGED <<cand, callVars, busy, depth, starting, cardVars, live, others>>

\* RuntimePool.discard of a failed session, whatever state it is in. A runtime that
\* shutdown already took out of the pool gives no card back a second time.
Discard(c) ==
  /\ At(c, "discard")
  /\ StartDrop(c, rt[c], "retry")
  /\ Goto(c, IF rt[c] \in bucket THEN "unreserve" ELSE "stop")
  /\ UNCHANGED <<cand, callVars, busy, depth, starting, cardVars, live, others>>

\* The cards go back before the session is shut down.
DropUnreserve(t) ==
  /\ At(t, "unreserve")
  /\ Unreserve(drop[t])
  /\ Goto(t, "stop")
  /\ UNCHANGED <<workVars, callVars, poolVars, live, others>>

\* Runtime.shutdown returns, and discard notifies.
DropStop(t) ==
  /\ At(t, "stop")
  /\ live' = live \ {drop[t]}
  /\ drop' = [drop EXCEPT ![t] = None]
  /\ ret' = [ret EXCEPT ![t] = "out"]
  /\ GotoNotify(t, ret[t])
  /\ UNCHANGED <<cand, callVars, poolVars, cardVars, others>>

Retry(c) ==
  /\ At(c, "retry")
  /\ \/ /\ AttemptsLeft(c)
        /\ attempt' = [attempt EXCEPT ![c] = @ + 1]
        /\ Goto(c, "look")
        /\ UNCHANGED outcome
     \/ /\ ~AttemptsLeft(c)
        /\ outcome' = [outcome EXCEPT ![c] = "lost"]
        /\ Goto(c, "leave")
        /\ UNCHANGED attempt
  /\ rt' = [rt EXCEPT ![c] = None]
  /\ UNCHANGED <<workVars, poolVars, cardVars, live, others>>

---------------------------------------------------------------------------
(* Leaving: RuntimePool.unhold and RuntimePool.release_idle *)

\* Mutated form of Leave: a call that could not start does not reach unhold.
LeaveStarted(t) ==
  /\ At(t, "leave")
  /\ IF t \in Calls /\ (t \in Movers \/ outcome[t] \in {"nostart", "refused"})
       THEN Goto(t, "done") /\ UNCHANGED depth
       ELSE depth' = Monus(depth, 1) /\ Goto(t, IF depth' = 0 THEN "snapshot" ELSE "done")
  /\ rt' = [c \in Calls |-> IF c = t THEN None ELSE rt[c]]
  /\ UNCHANGED <<workVars, attempt, outcome, bucket, busy, starting, cardVars, live, others>>

\* Mutated form of Leave: the depth is compared before it is lowered.
LeaveEarly(t) ==
  /\ At(t, "leave")
  /\ depth' = Monus(depth, 1)
  /\ Goto(t, IF depth = 0 THEN "snapshot" ELSE "done")
  /\ rt' = [c \in Calls |-> IF c = t THEN None ELSE rt[c]]
  /\ UNCHANGED <<workVars, attempt, outcome, bucket, busy, starting, cardVars, live, others>>

Leave(t) ==
  /\ At(t, "leave")
  /\ \/ t \in Movers /\ Goto(t, "done") /\ UNCHANGED depth
     \/ /\ t \notin Movers
        /\ depth' = Monus(depth, 1)
        /\ Goto(t, IF depth' = 0 THEN "snapshot" ELSE "done")
  /\ rt' = [c \in Calls |-> IF c = t THEN None ELSE rt[c]]
  /\ UNCHANGED <<workVars, attempt, outcome, bucket, busy, starting, cardVars, live, others>>

Snapshot(t) ==
  /\ At(t, "snapshot")
  /\ cand' = [cand EXCEPT ![t] = bucket \ busy]
  /\ Goto(t, "sweep")
  /\ UNCHANGED <<ret, drop, callVars, poolVars, cardVars, live, others>>

Sweep(t, s) ==
  /\ At(t, "sweep") /\ s \in cand[t]
  /\ cand' = [cand EXCEPT ![t] = @ \ {s}]
  /\ \/ MayDropIdle(s) /\ StartDrop(t, s, "sweep") /\ Goto(t, "unreserve")
     \/ ~MayDropIdle(s) /\ UNCHANGED <<bucket, drop, ret, pc>>
  /\ UNCHANGED <<callVars, busy, depth, starting, cardVars, live, others>>

SweepDone(t) ==
  /\ At(t, "sweep") /\ cand[t] = {}
  /\ Goto(t, "done")
  /\ UNCHANGED <<workVars, callVars, poolVars, cardVars, live, others>>

---------------------------------------------------------------------------
(* RuntimePool.shutdown, from atexit or from the SIGTERM and SIGHUP handlers *)

Shutdown ==
  /\ MayExit /\ At(Exit, "out")
  /\ cand' = [cand EXCEPT ![Exit] = bucket]
  /\ bucket' = {}
  /\ depth' = 0
  /\ Goto(Exit, "purge")
  /\ UNCHANGED <<ret, drop, callVars, busy, starting, cardVars, live, others>>

Purge(s) ==
  /\ At(Exit, "purge") /\ s \in cand[Exit]
  /\ cand' = [cand EXCEPT ![Exit] = @ \ {s}]
  /\ drop' = [drop EXCEPT ![Exit] = s]
  /\ ret' = [ret EXCEPT ![Exit] = "purge"]
  /\ Goto(Exit, "unreserve")
  /\ UNCHANGED <<callVars, poolVars, cardVars, live, others>>

\* The process dies, or a previous handler lets it go on.
PurgeDone ==
  /\ At(Exit, "purge") /\ cand[Exit] = {}
  /\ \E end \in {"dead", "done"} : GotoNotify(Exit, end)
  /\ UNCHANGED <<workVars, callVars, poolVars, cardVars, live, others>>

---------------------------------------------------------------------------
(* Other users of a shared machine *)

OtherTakes(i) ==
  /\ Alive /\ i \in Shared \ others
  /\ others' = others \cup {i}
  /\ UNCHANGED <<pc, workVars, callVars, poolVars, cardVars, live>>

OtherLeaves(i) ==
  /\ Alive /\ i \in others
  /\ others' = others \ {i}
  /\ UNCHANGED <<pc, workVars, callVars, poolVars, cardVars, live>>

---------------------------------------------------------------------------
CallStep(c) ==
  \/ EnterCall(c) \/ EnterMover(c)
  \/ (\E s \in Session : Reuse(c, s)) \/ LookFails(c) \/ CountStart(c)
  \/ Reserve(c) \/ ReserveFails(c) \/ ReserveRaises(c)
  \/ CreateSession(c) \/ BootOk(c) \/ StartFails(c) \/ GiveBack(c) \/ Uncount(c) \/ Decide(c) \/ PollTimeout(c)
  \/ RunEnds(c) \/ RunFails(c) \/ Release(c) \/ DropIdle(c) \/ Discard(c) \/ Retry(c)

\* The steps a call and a block have in common.
EndStep(t) ==
  \/ Leave(t) \/ Snapshot(t) \/ (\E s \in Session : Sweep(t, s)) \/ SweepDone(t)

DropStep(t) == DropUnreserve(t) \/ DropStop(t)

BlockStep(b) == OpenBlock(b) \/ CloseBlock(b)

ExitStep == Shutdown \/ (\E s \in Session : Purge(s)) \/ PurgeDone

OtherStep == \E i \in Shared : OtherTakes(i) \/ OtherLeaves(i)

Next ==
  \/ \E c \in Calls : CallStep(c)
  \/ \E b \in Blocks : BlockStep(b)
  \/ \E t \in Calls \cup Blocks : EndStep(t)
  \/ \E t \in Threads : DropStep(t)
  \/ ExitStep
  \/ OtherStep

Spec == Init /\ [][Next]_vars

\* Threads are scheduled, a boot and a body end, and the poll interval runs out. Nothing
\* obliges the program to make a call, to open or close a block, or to exit.
CallWork(c) == CallStep(c) /\ pc[c] # "out"

Fairness ==
  /\ \A c \in Calls : WF_vars(CallWork(c))
  /\ \A t \in Calls \cup Blocks : WF_vars(EndStep(t))
  /\ \A t \in Threads : WF_vars(DropStep(t))

FairSpec == Spec /\ Fairness

---------------------------------------------------------------------------
(* Properties *)

\* The sessions whose cards are on the provider's books: registered ones, one being
\* started, one on its way out, and those RuntimePool.shutdown still has to end.
Starting == {c \in Calls : pc[c] \in {"create", "boot", "giveback"}}

Leaving == {t \in Threads : pc[t] = "unreserve"}

Holders == bucket \cup {Mine(c) : c \in Starting} \cup {drop[t] : t \in Leaving} \cup cand[Exit]

(***************************************************************************)
(* Where letify chooses the cards, Provider._reserved is exactly the cards *)
(* of the sessions that hold one, and no card is held twice. Failed boots, *)
(* discards, idle sweeps and a shutdown running against any of them keep   *)
(* it so.                                                                  *)
(***************************************************************************)
CardsAccounted ==
  ChoosesIndices =>
    /\ reserved = UNION {held[s] : s \in Holders}
    /\ \A s, u \in Holders : s # u => held[s] \cap held[u] = {}

\* Who owns each card, as CardLedger sees it.
Owner(i) ==
  IF \E s \in Holders : i \in held[s] THEN CHOOSE s \in Holders : i \in held[s] ELSE None

ledgerOwner == [i \in Indices |-> Owner(i)]

Demand == [s \in Session |-> {S \in SUBSET Indices : Cardinality(S) = Width[SKey(s)]}]

Ledger == INSTANCE CardLedger WITH Cards <- Indices, Sessions <- Session, NoOne <- None,
                                   Requests <- Demand, owner <- ledgerOwner

(***************************************************************************)
(* The pool and the provider together implement CardLedger: cards go from  *)
(* nobody to one session, all that it asked for in one step, and come back *)
(* from it in one step.                                                    *)
(***************************************************************************)
LedgerSpec == Ledger!Spec

Slots(s) == {s} \X (1 .. Width[SKey(s)])

(***************************************************************************)
(* Where the provider assigns the device, Provider._taken counts exactly   *)
(* the devices of the sessions that hold one, so max(0, ...) in unreserve  *)
(* never hides a device given back twice, and it never passes the declared *)
(* count.                                                                  *)
(***************************************************************************)
TakenAccounted ==
  ~ChoosesIndices =>
    /\ taken = Cardinality(UNION {Slots(s) : s \in Holders})
    /\ taken <= Count

Serves(c, s) == rt[c] = s /\ pc[c] \in {"uncount", "run", "release", "discard"}

(***************************************************************************)
(* A registered session marked busy is being used by a call that will give *)
(* it back, and no session is ever handed to two calls at once.            *)
(***************************************************************************)
BusyServed ==
  /\ \A s \in bucket \cap busy : \E c \in Calls : Serves(c, s)
  /\ \A c, d \in Calls : \A s \in Session : Serves(c, s) /\ Serves(d, s) => c = d

\* Between pool.hold and the guarded section of pool.unhold.
Sweeping(t) ==
  \/ pc[t] \in {"snapshot", "sweep"}
  \/ pc[t] \in {"unreserve", "stop"} /\ ret[t] = "sweep"

Holding(t) ==
  /\ t \in Calls \cup Blocks /\ t \notin Movers
  /\ pc[t] \notin {"out", "done"} /\ ~Sweeping(t)

(***************************************************************************)
(* Until a shutdown, the hold depth is the number of invocations and       *)
(* keep_alive blocks that are open, and no idle session is taken out of    *)
(* the pool while one is.                                                  *)
(***************************************************************************)
HoldDepth == pc[Exit] = "out" => depth = Cardinality({t \in Threads : Holding(t)})

KeptWhileHeld ==
  [][(\E t \in Threads : Holding(t)) /\ pc'[Exit] = "out" => bucket \ busy \subseteq bucket']_vars

(***************************************************************************)
(* Once every call has returned and every block has closed, nothing is     *)
(* left: no session, no reservation, no start and no hold, whether or not  *)
(* a shutdown that the process survived ran in between.                    *)
(***************************************************************************)
Quiescent ==
  /\ pc[Exit] \in {"out", "done"}
  /\ \A t \in Calls \cup Blocks : pc[t] \in {"out", "done"}

NothingLeft ==
  Quiescent => /\ bucket = {} /\ live = {} /\ reserved = {}
               /\ taken = 0 /\ starting = 0 /\ depth = 0

\* The hold depth counts the holds that are open, and nothing is left once all is quiet.
HoldsSettle == TypeOK /\ HoldDepth /\ NothingLeft

(***************************************************************************)
(* Every call that was made ends, with a value, an error or a refusal.     *)
(***************************************************************************)
CallsSettle == \A c \in Calls : pc[c] = "look" ~> pc[c] = "done"

(***************************************************************************)
(* A session costs money only until its work is done or a block ends.      *)
(***************************************************************************)
SessionsEnd ==
  \A s \in Session : s \in live ~> (s \notin live \/ \E b \in Blocks : pc[b] = "open")

---------------------------------------------------------------------------
(* What the documentation says of the pool, and the code does not do. *)

Refused(c) == outcome[c] # "refused" /\ outcome'[c] = "refused"

(***************************************************************************)
(* errors.py, InsufficientDevices: raised over idle sessions only while a  *)
(* let.keep_alive() block keeps them.                                      *)
(***************************************************************************)
RefusedOverABlock ==
  [][\A c \in Calls :
       Refused(c) /\ bucket # {} /\ Wanted(c) <= Count => \E b \in Blocks : pc[b] = "open"]_vars

(***************************************************************************)
(* docs/guide/05-concurrency.md: a call waits rather than asking the       *)
(* provider for a machine it would refuse, so the sessions that exist      *)
(* never need more devices than the account has.                           *)
(***************************************************************************)
WithinInventory == Cardinality(UNION {Slots(s) : s \in live}) <= Count

(***************************************************************************)
(* launcher.py, _register_at_exit: nothing survives this process.          *)
(***************************************************************************)
NothingSurvives == pc[Exit] = "dead" => live = {}
=============================================================================
