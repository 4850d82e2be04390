------------------------------- MODULE LinkRace -------------------------------
(***************************************************************************)
(* How a provider connects to a machine (transport/pipeline.py): the       *)
(* strategy kept from the last time is tried alone, and when that does not *)
(* hold all strategies race on threads of their own.  Rounds of choosing   *)
(* measure what has connected, drop what is slow, and close what is not    *)
(* taken.  A world fixes what each strategy will do and how fast it is.    *)
(***************************************************************************)
EXTENDS Integers, FiniteSets

CONSTANTS Strategies,  \* 1 .. n, in the order of their ranks
          Held,        \* those that are not probed: the provider's fallback
          Worlds,      \* functions from strategies to [fate, probe]
          Floor,       \* LinkFloor.min_bps
          Beaten,      \* LinkFloor.fallback_bps, 0 for none
          RejectShare, \* 1 / REJECT_RATIO
          CacheShare   \* 1 / CACHE_RATIO

VARIABLES world,     \* the strategies that apply, and what each does
          kept,      \* link.json: [strategy, probe] when it fits this network and is fresh
          pc,        \* where connect is
          attempt,   \* per strategy its thread: idle, running, opened, ended
          link,      \* per strategy its link: none, open, closed
          outcomes,  \* strategies whose outcome was recorded before the choice
          first,     \* whether a probed strategy has connected since the last round
          seen, offered,      \* strategies already offered to _choose, and those offered now
          floored,   \* strategies a reason says are below the floor
          expired,   \* the deadline has passed
          decided, cancels,   \* the choice is made, and who was told to stop
          chosen     \* the strategy connect returned, or 0

raceVars == <<world, kept, pc, attempt, link, outcomes, first, seen, offered, floored, expired,
              decided, cancels, chosen>>

Applicable == DOMAIN world
Probed == Applicable \ Held
Probe(s) == world[s].probe
Measured(s) == DOMAIN Probe(s) = {"up", "down"}   \* else the probe fails, or cannot be carried
Lowest(S) == CHOOSE s \in S : \A t \in S : s <= t

RaceInit ==
  /\ world \in Worlds
  /\ kept \in {[strategy |-> 0]} \union {[strategy |-> s, up |-> n] : s \in Applicable, n \in {Floor, 2 * Floor}}
  /\ pc = "start" /\ outcomes = {} /\ first = FALSE /\ seen = {} /\ offered = {} /\ floored = {}
  /\ attempt = [s \in Strategies |-> "idle"] /\ link = [s \in Strategies |-> "none"]
  /\ expired = FALSE /\ decided = FALSE /\ cancels = {} /\ chosen = 0

Closed(S) == [s \in Strategies |-> IF s \in S THEN "closed" ELSE link[s]]

\* LinkFloor.violations, and kept_below: a slow link is kept when the fallback is slower.
BelowFloor(s) ==
  /\ Probe(s).up < Floor \/ Probe(s).down < Floor
  /\ ~(Beaten > 0 /\ Probe(s).up > Beaten /\ Probe(s).down > Beaten)

-----------------------------------------------------------------------------
\* One strategy alone is assumed to work, and only a measured one is held to the floor.
Alone ==
  /\ pc = "start" /\ Cardinality(Applicable) = 1
  /\ LET s == Lowest(Applicable)
         fine == s \in Held \/ ~Measured(s) \/ ~BelowFloor(s)
     IN  /\ world[s].fate = "connects"
         /\ link' = [link EXCEPT ![s] = IF fine THEN "open" ELSE "closed"]
         /\ IF fine THEN pc' = "done" /\ chosen' = s /\ UNCHANGED floored
            ELSE pc' = "failed" /\ floored' = {s} /\ UNCHANGED chosen
  /\ UNCHANGED <<world, kept, attempt, outcomes, first, seen, offered, expired, decided, cancels>>
NoneApplies ==
  /\ pc = "start" /\ pc' = "failed"
  /\ \A s \in Applicable : Cardinality(Applicable) = 1 /\ world[s].fate # "connects"
  /\ UNCHANGED <<world, kept, attempt, link, outcomes, first, seen, offered, floored, expired, decided, cancels, chosen>>

\* _from_cache: the kept strategy is tried alone; below the floor is a reason that stays.
CacheHolds(s) == /\ Measured(s) /\ ~BelowFloor(s)
                 /\ CacheShare * Probe(s).up >= kept.up /\ CacheShare * Probe(s).down >= kept.up
FromCache ==
  /\ pc = "start" /\ Cardinality(Applicable) > 1
  /\ LET s == kept.strategy
         connects == s # 0 /\ world[s].fate = "connects"
     IN  IF connects /\ CacheHolds(s)
         THEN pc' = "done" /\ chosen' = s /\ link' = [link EXCEPT ![s] = "open"] /\ UNCHANGED <<floored, attempt>>
         ELSE /\ pc' = "waiting" /\ attempt' = [a \in Strategies |-> IF a \in Applicable THEN "running" ELSE "idle"]
              /\ floored' = IF connects /\ Measured(s) /\ BelowFloor(s) THEN {s} ELSE {}
              /\ UNCHANGED <<chosen, link>>
  /\ UNCHANGED <<world, kept, outcomes, first, seen, offered, expired, decided, cancels>>

-----------------------------------------------------------------------------
\* The thread of one attempt: the link is open before its outcome is recorded.
Opens(s) ==
  /\ attempt[s] = "running" /\ world[s].fate \in {"connects", "stubborn"}
  /\ world[s].fate = "connects" => s \notin cancels
  /\ attempt' = [attempt EXCEPT ![s] = "opened"] /\ link' = [link EXCEPT ![s] = "open"]
  /\ UNCHANGED <<world, kept, pc, outcomes, first, seen, offered, floored, expired, decided, cancels, chosen>>
Records(s) ==
  /\ attempt[s] = "opened" /\ attempt' = [attempt EXCEPT ![s] = "ended"]
  /\ IF decided
     THEN link' = [link EXCEPT ![s] = "closed"] /\ UNCHANGED <<outcomes, first>>
     ELSE outcomes' = outcomes \union {s} /\ first' = (first \/ s \notin Held) /\ UNCHANGED link
  /\ UNCHANGED <<world, kept, pc, seen, offered, floored, expired, decided, cancels, chosen>>
FailsOrStops(s) ==
  /\ attempt[s] = "running" /\ (world[s].fate = "fails" \/ s \in cancels)
  /\ attempt' = [attempt EXCEPT ![s] = "ended"]
  /\ outcomes' = IF s \in cancels \/ decided THEN outcomes ELSE outcomes \union {s}
  /\ UNCHANGED <<world, kept, pc, link, first, seen, offered, floored, expired, decided, cancels, chosen>>

Expires == /\ pc \in {"waiting", "choosing"} /\ ~expired /\ expired' = TRUE
           /\ UNCHANGED <<world, kept, pc, attempt, link, outcomes, first, seen, offered, floored, decided, cancels, chosen>>

\* The wait of _race ends when all have answered, when only unprobed links are left, after the
\* grace a first probed link gives the others, or at the deadline.
Fresh == {s \in outcomes \ seen : link[s] = "open"}
WaitOver == \/ outcomes = Applicable
            \/ ~first /\ Probed \subseteq outcomes /\ Fresh # {}
            \/ first \/ expired
\* Both ends of _race set decided, and tell every strategy not yet offered to stop.
Decides(asked) == decided' = TRUE /\ cancels' = Applicable \ asked
\* Mutant: the deadline is not looked at again.
NoMoreRounds(s) == s = Applicable
NoMore(s) == s = Applicable \/ expired
Looks ==
  /\ pc = "waiting" /\ WaitOver
  /\ offered' = Fresh /\ seen' = seen \union outcomes
  /\ CASE Fresh # {} -> pc' = "choosing" /\ UNCHANGED <<first, decided, cancels>>
       [] Fresh = {} /\ NoMore(seen') -> pc' = "failed" /\ Decides(seen') /\ UNCHANGED first
       [] OTHER -> first' = FALSE /\ UNCHANGED <<pc, decided, cancels>>
  /\ UNCHANGED <<world, kept, attempt, link, outcomes, floored, expired, chosen>>

-----------------------------------------------------------------------------
\* _choose: the links offered that are measured and above the floor, and those of them that
\* are within the share of the fastest in both directions.
Low == {s \in offered : Measured(s) /\ BelowFloor(s) /\ s \notin Held}
Above == {s \in offered : Measured(s)} \ Low
Close(s) == /\ \A t \in Above : RejectShare * Probe(s).up >= Probe(t).up
            /\ \A t \in Above : RejectShare * Probe(s).down >= Probe(t).down
Uncarried == {s \in offered : Probe(s) = [carried |-> FALSE]}

\* Mutant: what was below the floor is forgotten with its round.
TakesUnmeasured ==
  IF Cardinality(offered) = 1 THEN offered \ (Low \union Above) ELSE IF Low = {} THEN Uncarried ELSE {}
\* An unmeasured link is taken only when nothing has been below the floor: alone even when its
\* probe failed, among others when it cannot carry one.
Unmeasured ==
  IF floored \union Low # {} THEN {}
  ELSE IF Cardinality(offered) = 1 THEN offered \ Above ELSE Uncarried

Takes(s) ==
  /\ link' = Closed(offered \ {s}) /\ chosen' = s /\ pc' = "done" /\ Decides(seen)
  /\ UNCHANGED first
Chooses ==
  /\ pc = "choosing"
  /\ floored' = floored \union Low
  /\ LET within == {s \in Above : Close(s)}
     IN  CASE within # {} -> Takes(Lowest(within))
           [] Above = {} /\ Unmeasured # {} -> Takes(Lowest(Unmeasured))
           [] Above # {} /\ within = {} -> pc' = "crashed" /\ link' = Closed(Low \union {s \in offered : Probe(s) = [carried |-> TRUE]})
                                           /\ UNCHANGED <<chosen, first, decided, cancels>>
           [] Above = {} /\ Unmeasured = {} /\ floored' = {} ->   \* every probe failed
                pc' = "failed" /\ link' = Closed(offered) /\ UNCHANGED <<chosen, first, decided, cancels>>
           [] OTHER ->                                            \* _BelowFloor: a further round
                /\ link' = Closed(offered) /\ UNCHANGED chosen
                /\ IF NoMore(seen) THEN pc' = "failed" /\ Decides(seen) /\ UNCHANGED first
                   ELSE pc' = "waiting" /\ first' = FALSE /\ UNCHANGED <<decided, cancels>>
  /\ UNCHANGED <<world, kept, attempt, outcomes, seen, offered, expired>>

RaceMain == Alone \/ NoneApplies \/ FromCache \/ Looks \/ Chooses
RaceNext == RaceMain \/ Expires \/ \E s \in Applicable : Opens(s) \/ Records(s) \/ FailsOrStops(s)
RaceSpec == RaceInit /\ [][RaceNext]_raceVars
-----------------------------------------------------------------------------
Ended == pc \in {"done", "failed", "crashed"}

\* Pipeline.connect never settles for a link that was measured below the floor, nor for one that
\* was not measured when another was below it, in this round, an earlier one or from the cache.
FloorHeld == pc = "done" =>
  IF Measured(chosen) THEN chosen \in Held \/ ~BelowFloor(chosen) ELSE floored = {}

\* Every link that was offered to _choose and not taken is closed when connect has returned or
\* found nothing.
OfferedClosed == pc \in {"done", "failed"} => \A s \in seen \ {chosen} : link[s] # "open"

\* tests/test_transport.py:393 "a strategy that connects after the choice is closed": once every
\* attempt is over, the link connect returned is the only one open.
LosersClosed == Ended /\ (\A s \in Applicable : attempt[s] \in {"idle", "ended"}) =>
  \A s \in Strategies \ {chosen} : link[s] # "open"

\* Pipeline.connect ends, however many attempts hang and however many rounds are in vain.
ConnectEnds == <>Ended
=============================================================================
