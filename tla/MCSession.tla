------------------------------ MODULE MCSession ------------------------------
(***************************************************************************)
(* What a session stands on: its machine at a cloud provider               *)
(* (CloudSessions, EliceMachine), how the provider connects to it          *)
(* (LinkRace), a connection through two NATs (Punch, dialled from both     *)
(* sides or back) and the QUIC carrier, its environment (EnvBuild), and    *)
(* the lease that ends it (SessionLease).  A behaviour is about one of     *)
(* these parts; the others stay as they begin.                             *)
(***************************************************************************)
EXTENDS SessionLease, EnvBuild

CONSTANTS Strategies, Held, Worlds, Floor, Beaten, RejectShare, CacheShare, Attempts, Sessions, MaxConns, Commands,
          Procs, Starts, Providers, Overlaps, Users, Serial

VARIABLES part,
  world, kept, pc, attempt, link, outcomes, first, seen, offered, floored, expired, decided, cancels, chosen,
  back, conns, dialler, agent, took, got, sock, session,
  connect, serve, peer, sshd, upward, downward,
  provider, owner, alive, step, machine, record, rewrite, sweep, recent, cookie, keeper, known, helper,
  skewed, said,
  spot, declared, persistent, vm, ours, user, mine, holders, starting, pending, stopped, preempted, told

raceVars == <<world, kept, pc, attempt, link, outcomes, first, seen, offered, floored, expired,
              decided, cancels, chosen>>
punchVars == <<back, conns, dialler, agent, took, got, sock, session>>
carrierVars == <<connect, serve, peer, sshd, upward, downward>>
cloudVars == <<provider, owner, alive, step, machine, record, rewrite, sweep, recent, cookie, keeper,
               known, helper, skewed, said>>
eliceVars == <<spot, declared, persistent, vm, ours, user, mine, holders, starting, pending, stopped,
               preempted, told>>
linkVars == <<raceVars, punchVars, carrierVars>>
placeVars == <<cloudVars, eliceVars, buildVars>>

\* Speeds up and down, as the probe finds them, and what each strategy will do.
Probed(u, d) == [up |-> u, down |-> d]
Fates == { [fate |-> "connects", probe |-> Probed(8, 8)], [fate |-> "connects", probe |-> Probed(20, 4)],
           [fate |-> "stubborn", probe |-> Probed(4, 20)], [fate |-> "connects", probe |-> Probed(1, 8)],
           [fate |-> "fails", probe |-> Probed(8, 8)], [fate |-> "hangs", probe |-> Probed(8, 8)],
           [fate |-> "connects", probe |-> [carried |-> TRUE]],
           [fate |-> "connects", probe |-> [carried |-> FALSE]] }
\* The last of three strategies is the provider's fallback, which is not probed.
MCWorlds == UNION {[1 .. n -> Fates] : n \in 0 .. 1} \cup
            {w \in [1 .. 3 -> Fates] : w[3].probe = [carried |-> FALSE]}

\* The strategies that apply are numbered by their place among those declared.
ASSUME RaceConstants == Strategies \subseteq Nat /\ \A w \in Worlds : DOMAIN w \subseteq Strategies
\* The first session is dialled by attempt 1.
ASSUME FirstAttempt == 1 \in Attempts

Race == INSTANCE LinkRace
Dial == INSTANCE Punch WITH client <- dialler
Quic == INSTANCE QuicCarrier WITH up <- upward, down <- downward

Cloud == INSTANCE CloudSessions
Elice == INSTANCE EliceMachine WITH pc <- user

MCInit ==
  /\ part \in {"lease", "race", "punch", "quic", "cloud", "elice", "build"}
  /\ Init /\ Quic!CarrierInit
  /\ Dial!PunchInit /\ (part # "punch" => ~back)
  /\ Race!RaceInit /\ (part # "race" => world = <<>> /\ kept.strategy = 0)
  /\ Cloud!Init
  /\ owner[CHOOSE s \in Starts : TRUE] = CHOOSE p \in Procs : TRUE   \* nothing tells the processes apart
  /\ (part # "cloud" => \A s \in Starts : owner[s] = CHOOSE p \in Procs : TRUE)
  /\ (part # "cloud" => provider = CHOOSE p \in Providers : TRUE)
  /\ Elice!Init /\ (part # "elice" => ~spot /\ ~declared /\ ~persistent /\ vm = "none")
  /\ BuildInit /\ (part # "build" => ~keeps /\ ~managed /\ ~travels)

MCNext ==
  /\ UNCHANGED part
  /\ \/ part = "lease" /\ Next /\ UNCHANGED <<linkVars, placeVars>>
     \/ part = "race" /\ Race!RaceNext /\ UNCHANGED <<vars, punchVars, carrierVars, placeVars>>
     \/ part = "punch" /\ Dial!PunchNext /\ UNCHANGED <<vars, raceVars, carrierVars, placeVars>>
     \/ part = "quic" /\ Quic!CarrierNext /\ UNCHANGED <<vars, raceVars, punchVars, placeVars>>
     \/ part = "cloud" /\ Cloud!Next /\ UNCHANGED <<vars, linkVars, eliceVars, buildVars>>
     \/ part = "elice" /\ Elice!Next /\ UNCHANGED <<vars, linkVars, cloudVars, buildVars>>
     \/ part = "build" /\ BuildNext /\ UNCHANGED <<vars, linkVars, cloudVars, eliceVars>>

\* Fairness, for the part that runs: the thread of connect and its clock; the carrier's own
\* steps and its clock; a provider that reclaims an idle machine, and a keep-alive process.
MCSpec ==
  /\ MCInit /\ [][MCNext]_<<part, vars, linkVars, placeVars>>
  /\ WF_raceVars(part = "race" /\ Race!RaceMain) /\ WF_raceVars(part = "race" /\ Race!Expires)
  /\ WF_carrierVars(part = "quic" /\ Quic!CarrierRuns)
  /\ \A s \in Starts : /\ WF_cloudVars(part = "cloud" /\ Cloud!Reclaims(s))
                       /\ WF_cloudVars(part = "cloud" /\ Cloud!KeeperEnds(s))

-----------------------------------------------------------------------------
\* Pipeline.connect never settles for a link below the floor and closes every link that
\* _choose was offered and did not take; both sides of a punch settle on one connection and
\* close all the others, and two SSH sessions never share one, nor take an unverified one.
LinksSettle ==
  /\ Race!FloorHeld /\ Race!OfferedClosed
  /\ Dial!PunchAgrees /\ Dial!PunchClosed /\ Dial!SessionsApart

\* Pipeline.connect ends, however many attempts hang and however many rounds are in vain.
ConnectEnds == part = "race" => Race!ConnectEnds

\* tests/test_transport.py:393 "a strategy that connects after the choice is closed".
LosersClosed == Race!LosersClosed

\* letify-quic serve ends with the command it serves.
CarrierEnds == Quic!CarrierEnds

\* transport/link.py:3 "an SSH command line for the worker channel and for bulk transfer".
LinkCarries == Quic!LinkCarries

\* What is left of a session of an account of its own is in the record or ends by itself, and
\* when no start or stop is under way and nobody holds it, the shared machine does not run.
MachinesFound == Cloud!TypeOK /\ Cloud!Findable /\ Elice!TypeOK /\ Elice!NothingLeftRunning

\* Only its own process, or the sweep once that process is gone, deletes a notebook; and a
\* shared machine is only ended when no session uses it.
EndsUnused == Cloud!SweepSafe /\ Elice!EndsUnused

\* A sandbox or Colab session nobody has any more ends by itself.
AbandonedEnds == Cloud!AbandonedEnds
=============================================================================
