----------------------------- MODULE SessionProofs -----------------------------
(***************************************************************************)
(* Proofs about a session (MCSession): its lease, for any durations within *)
(* Margins - types, the end of every worker that holds a deadline, how     *)
(* long a move leaves one without, and what may end a living session;      *)
(* what is left of it at a provider can be found or ends by itself, its    *)
(* machine is not ended under it, and its environment is whole, for any    *)
(* number of sessions, processes, threads and volumes; the race of the     *)
(* strategies never settles for a link below the floor and closes those it *)
(* does not take, and a punch leaves both sides with one connection, for   *)
(* any number of strategies, attempts, connections and sessions.           *)
(***************************************************************************)
EXTENDS MCSession, Sequences, TLAPS, FiniteSetTheorems

-----------------------------------------------------------------------------
(* The lease. *)

\* What the threads, the connection and the request on it say of each other.
Agree ==
  /\ asked # None <=> flight \in {"gate", "request", "reply"}
  /\ client # "up" => renewer = "ended" /\ main = "closed"
  /\ main = "arming" => renewer = "asking"
  /\ asked # None => conn # "broken"
  /\ orphan # None <=> conn # "open" \/ client # "up"
  /\ conn = "closed" /\ Up => stop /\ main \in {"closing", "closed"}
  /\ main \in {"stopping", "closing"} => stop
  /\ conn = "open" /\ Up /\ (stop \/ renewer = "ended") => main = "stopping"

\* A renewal written before the worker was orphaned arrives within one drop.
Written ==
  /\ flight \in {"request", "late"} /\ worker /\ orphan # None =>
       orphan <= MaxDrop /\ (down # None => orphan <= down)
  /\ flight = "request" /\ orphan # None => orphan <= asked

\* The watch thread misses a passed deadline by one poll, and nothing but a written renewal
\* pushes the deadline of an orphan.
Watched ==
  /\ worker /\ renewed # None => renewed <= Grace + look
  /\ worker /\ renewed # None /\ orphan # None => orphan <= MaxDrop + renewed

\* A thread that was not told to stop looks at the session within its interval.
Noticed ==
  /\ renewer = "waiting" /\ ~stop /\ orphan # None => orphan <= waited
  /\ renewer = "woken" /\ orphan # None => orphan <= Interval
  /\ revived # None => orphan # None /\ orphan <= Interval + revived

\* Only a move keeps a renewal at the gate.
AtGate ==
  flight = "gate" /\ conn = "open" =>
    /\ asked <= MaxMove
    /\ Gated => asked <= held
    /\ main \in {"arming", "building"} => asked = 0

\* The renewal under way tells how long ago a move took the deadline away.
BareFor ==
  conn = "open" /\ Up /\ bare # None =>
    /\ bare <= Interval + Timeout
    /\ renewer = "waiting" => bare <= waited
    /\ renewer = "woken" => bare <= Interval
    /\ flight \in {"gate", "request"} => bare <= Interval + asked
    /\ flight = "reply" => bare = 0 /\ (main = "stopping" \/ (main = "moved" /\ LinkUp))

\* ... and how long ago the deadline was pushed.
RenewedFor ==
  conn = "open" /\ Up /\ renewed # None =>
    /\ renewed <= Interval + Timeout + Timeout
    /\ renewer = "waiting" => renewed <= Timeout + waited
    /\ renewer = "woken" => renewed <= Timeout + Interval
    /\ flight \in {"gate", "request"} => renewed <= Interval + Timeout + asked
    /\ flight = "reply" => renewed <= asked

\* The inductive invariant of the lease.
LeaseInv ==
  TypeOK /\ Agree /\ Written /\ Watched /\ Noticed /\ AtGate /\ BareFor /\ RenewedFor

---------------------------------------------------------------------------
\* An age may be None, or zero.
LEMMA NoAge == \A n \in Nat : None \in AgeUpTo(n) /\ 0 \in AgeUpTo(n)
  BY DEF AgeUpTo

\* The bounds of the ages are natural numbers.
LEMMA Bounds == Oldest \in Nat /\ Outlives \in Nat /\ Grace + Poll \in Nat
  BY Durations DEF Oldest, Outlives

\* A worker that ends takes its clocks along.
LEMMA TypeGone ==
  ASSUME TypeOK, WorkerGone, UNCHANGED <<mainVars, loopVars, netVars, orphan, revived>>
  PROVE  TypeOK'
<1>1. renewed' \in AgeUpTo(Oldest) /\ look' \in AgeUpTo(Poll) /\ bare' \in AgeUpTo(Oldest)
  BY NoAge, Bounds, Durations DEF WorkerGone
<1>2. worker' \in BOOLEAN /\ renewed' = None /\ look' = None /\ bare' = None
  BY DEF WorkerGone
<1> QED
  BY <1>1, <1>2 DEF TypeOK, Gated, AgeUpTo, Up, LinkUp, mainVars, loopVars, netVars

\* Every step keeps every variable in its type and every clock running when it should.
LEMMA TypeStep ==
  ASSUME TypeOK, [Next]_vars
  PROVE  TypeOK'
<1> USE Durations, Margins DEF TypeOK, AgeUpTo, Outlives, Oldest, Up, LinkUp, Gated,
        mainVars, loopVars, netVars, workerVars
<1>1. CASE Wake
  BY <1>1 DEF Wake
<1>2. CASE Ask
  BY <1>2 DEF Ask
<1>3. CASE AskLost
  BY <1>3 DEF AskLost
<1>4. CASE Revive
  BY <1>4 DEF Revive
<1>5. CASE Send
  BY <1>5 DEF Send
<1>6. CASE Deliver
  BY <1>6 DEF Deliver, RenewDeadline
<1>7. CASE Return
  BY <1>7 DEF Return, Renewed
<1>8. CASE Kill
  BY <1>8 DEF Kill, Renewed, Orphan
<1>9. CASE Dropped
  BY <1>9 DEF Dropped, Renewed, Orphan
<1>10. CASE Build
  BY <1>10 DEF Build
<1>11. CASE Exec
  BY <1>11 DEF Exec
<1>12. CASE Moved
  BY <1>12 DEF Moved
<1>13. CASE Release
  BY <1>13 DEF Release
<1>14. CASE Close
  BY <1>14 DEF Close, Orphan
<1>15. CASE Closed
  BY <1>15 DEF Closed
<1>16. CASE InputEnds
  <2>1. WorkerGone /\ UNCHANGED <<mainVars, loopVars, netVars, orphan, revived>>
    BY <1>16 DEF InputEnds
  <2> QED
    BY <2>1, TypeGone
<1>17. CASE Look
  <2>1. CASE renewed > Grace
    BY <1>17, <2>1, TypeGone DEF Look
  <2>2. CASE ~(renewed > Grace)
    BY <1>17, <2>2 DEF Look
  <2> QED
    BY <2>1, <2>2
<1>18. CASE RevivedEnds
  BY <1>18 DEF RevivedEnds
<1>19. CASE LinkDrops
  BY <1>19 DEF LinkDrops
<1>20. CASE LinkReturns
  BY <1>20 DEF LinkReturns
<1>21. CASE Die
  BY <1>21 DEF Die, Orphan
<1>22. CASE Tick
  BY <1>22 DEF Tick, Due, Later
<1>23. CASE UNCHANGED vars
  BY <1>23 DEF vars
<1> QED
  BY <1>1, <1>2, <1>3, <1>4, <1>5, <1>6, <1>7, <1>8, <1>9, <1>10, <1>11, <1>12, <1>13, <1>14,
     <1>15, <1>16, <1>17, <1>18, <1>19, <1>20, <1>21, <1>22, <1>23 DEF Next

\* Every step keeps what the threads, the connection and the request say of each other.
LEMMA AgreeStep ==
  ASSUME TypeOK, Agree, [Next]_vars
  PROVE  Agree'
<1> USE Durations, Margins DEF TypeOK, AgeUpTo, Outlives, Oldest, Up, LinkUp, Gated, Agree,
        mainVars, loopVars, netVars, workerVars
<1>1. CASE Wake
  BY <1>1 DEF Wake
<1>2. CASE Ask
  BY <1>2 DEF Ask
<1>3. CASE AskLost
  BY <1>3 DEF AskLost
<1>4. CASE Revive
  BY <1>4 DEF Revive
<1>5. CASE Send
  BY <1>5 DEF Send
<1>6. CASE Deliver
  BY <1>6 DEF Deliver, RenewDeadline
<1>7. CASE Return
  BY <1>7 DEF Return, Renewed
<1>8. CASE Kill
  BY <1>8 DEF Kill, Renewed, Orphan
<1>9. CASE Dropped
  BY <1>9 DEF Dropped, Renewed, Orphan
<1>10. CASE Build
  BY <1>10 DEF Build
<1>11. CASE Exec
  BY <1>11 DEF Exec
<1>12. CASE Moved
  BY <1>12 DEF Moved
<1>13. CASE Release
  BY <1>13 DEF Release
<1>14. CASE Close
  BY <1>14 DEF Close, Orphan
<1>15. CASE Closed
  BY <1>15 DEF Closed
<1>16. CASE InputEnds
  BY <1>16 DEF InputEnds, WorkerGone
<1>17. CASE Look
  BY <1>17 DEF Look, WorkerGone
<1>18. CASE RevivedEnds
  BY <1>18 DEF RevivedEnds
<1>19. CASE LinkDrops
  BY <1>19 DEF LinkDrops
<1>20. CASE LinkReturns
  BY <1>20 DEF LinkReturns
<1>21. CASE Die
  BY <1>21 DEF Die, Orphan
<1>22. CASE Tick
  BY <1>22 DEF Tick, Due, Later
<1>23. CASE UNCHANGED vars
  BY <1>23 DEF vars
<1> QED
  BY <1>1, <1>2, <1>3, <1>4, <1>5, <1>6, <1>7, <1>8, <1>9, <1>10, <1>11, <1>12, <1>13, <1>14,
     <1>15, <1>16, <1>17, <1>18, <1>19, <1>20, <1>21, <1>22, <1>23 DEF Next

\* Every step keeps the bound on a renewal that outlives its client.
LEMMA WrittenStep ==
  ASSUME TypeOK, Agree, Written, [Next]_vars
  PROVE  Written'
<1> USE Durations, Margins DEF TypeOK, AgeUpTo, Outlives, Oldest, Up, LinkUp, Gated, Agree, Written,
        mainVars, loopVars, netVars, workerVars
<1>1. CASE Wake
  BY <1>1 DEF Wake
<1>2. CASE Ask
  BY <1>2 DEF Ask
<1>3. CASE AskLost
  BY <1>3 DEF AskLost
<1>4. CASE Revive
  BY <1>4 DEF Revive
<1>5. CASE Send
  BY <1>5 DEF Send
<1>6. CASE Deliver
  BY <1>6 DEF Deliver, RenewDeadline
<1>7. CASE Return
  BY <1>7 DEF Return, Renewed
<1>8. CASE Kill
  BY <1>8 DEF Kill, Renewed, Orphan
<1>9. CASE Dropped
  BY <1>9 DEF Dropped, Renewed, Orphan
<1>10. CASE Build
  BY <1>10 DEF Build
<1>11. CASE Exec
  BY <1>11 DEF Exec
<1>12. CASE Moved
  BY <1>12 DEF Moved
<1>13. CASE Release
  BY <1>13 DEF Release
<1>14. CASE Close
  BY <1>14 DEF Close, Orphan
<1>15. CASE Closed
  BY <1>15 DEF Closed
<1>16. CASE InputEnds
  BY <1>16 DEF InputEnds, WorkerGone
<1>17. CASE Look
  BY <1>17 DEF Look, WorkerGone
<1>18. CASE RevivedEnds
  BY <1>18 DEF RevivedEnds
<1>19. CASE LinkDrops
  BY <1>19 DEF LinkDrops
<1>20. CASE LinkReturns
  BY <1>20 DEF LinkReturns
<1>21. CASE Die
  BY <1>21 DEF Die, Orphan
<1>22. CASE Tick
  BY <1>22 DEF Tick, Due, Later
<1>23. CASE UNCHANGED vars
  BY <1>23 DEF vars
<1> QED
  BY <1>1, <1>2, <1>3, <1>4, <1>5, <1>6, <1>7, <1>8, <1>9, <1>10, <1>11, <1>12, <1>13, <1>14,
     <1>15, <1>16, <1>17, <1>18, <1>19, <1>20, <1>21, <1>22, <1>23 DEF Next

\* Every step keeps the deadline watched and its distance from the moment of orphaning.
LEMMA WatchedStep ==
  ASSUME TypeOK, Agree, Written, Watched, [Next]_vars
  PROVE  Watched'
<1> USE Durations, Margins DEF TypeOK, AgeUpTo, Outlives, Oldest, Up, LinkUp, Gated, Agree, Written, Watched,
        mainVars, loopVars, netVars, workerVars
<1>1. CASE Wake
  BY <1>1 DEF Wake
<1>2. CASE Ask
  BY <1>2 DEF Ask
<1>3. CASE AskLost
  BY <1>3 DEF AskLost
<1>4. CASE Revive
  BY <1>4 DEF Revive
<1>5. CASE Send
  BY <1>5 DEF Send
<1>6. CASE Deliver
  BY <1>6 DEF Deliver, RenewDeadline
<1>7. CASE Return
  BY <1>7 DEF Return, Renewed
<1>8. CASE Kill
  BY <1>8 DEF Kill, Renewed, Orphan
<1>9. CASE Dropped
  BY <1>9 DEF Dropped, Renewed, Orphan
<1>10. CASE Build
  BY <1>10 DEF Build
<1>11. CASE Exec
  BY <1>11 DEF Exec
<1>12. CASE Moved
  BY <1>12 DEF Moved
<1>13. CASE Release
  BY <1>13 DEF Release
<1>14. CASE Close
  BY <1>14 DEF Close, Orphan
<1>15. CASE Closed
  BY <1>15 DEF Closed
<1>16. CASE InputEnds
  BY <1>16 DEF InputEnds, WorkerGone
<1>17. CASE Look
  <2>1. CASE renewed > Grace
    BY <1>17, <2>1 DEF Look, WorkerGone
  <2>2. CASE ~(renewed > Grace)
    BY <1>17, <2>2 DEF Look
  <2> QED
    BY <2>1, <2>2
<1>18. CASE RevivedEnds
  BY <1>18 DEF RevivedEnds
<1>19. CASE LinkDrops
  BY <1>19 DEF LinkDrops
<1>20. CASE LinkReturns
  BY <1>20 DEF LinkReturns
<1>21. CASE Die
  BY <1>21 DEF Die, Orphan
<1>22. CASE Tick
  BY <1>22 DEF Tick, Due, Later
<1>23. CASE UNCHANGED vars
  BY <1>23 DEF vars
<1> QED
  BY <1>1, <1>2, <1>3, <1>4, <1>5, <1>6, <1>7, <1>8, <1>9, <1>10, <1>11, <1>12, <1>13, <1>14,
     <1>15, <1>16, <1>17, <1>18, <1>19, <1>20, <1>21, <1>22, <1>23 DEF Next

\* Every step keeps the bound after which the renewing thread notices the end.
LEMMA NoticedStep ==
  ASSUME TypeOK, Agree, Noticed, [Next]_vars
  PROVE  Noticed'
<1> USE Durations, Margins DEF TypeOK, AgeUpTo, Outlives, Oldest, Up, LinkUp, Gated, Agree, Noticed,
        mainVars, loopVars, netVars, workerVars
<1>1. CASE Wake
  BY <1>1 DEF Wake
<1>2. CASE Ask
  BY <1>2 DEF Ask
<1>3. CASE AskLost
  BY <1>3 DEF AskLost
<1>4. CASE Revive
  BY <1>4 DEF Revive
<1>5. CASE Send
  BY <1>5 DEF Send
<1>6. CASE Deliver
  BY <1>6 DEF Deliver, RenewDeadline
<1>7. CASE Return
  BY <1>7 DEF Return, Renewed
<1>8. CASE Kill
  BY <1>8 DEF Kill, Renewed, Orphan
<1>9. CASE Dropped
  BY <1>9 DEF Dropped, Renewed, Orphan
<1>10. CASE Build
  BY <1>10 DEF Build
<1>11. CASE Exec
  BY <1>11 DEF Exec
<1>12. CASE Moved
  BY <1>12 DEF Moved
<1>13. CASE Release
  BY <1>13 DEF Release
<1>14. CASE Close
  BY <1>14 DEF Close, Orphan
<1>15. CASE Closed
  BY <1>15 DEF Closed
<1>16. CASE InputEnds
  BY <1>16 DEF InputEnds, WorkerGone
<1>17. CASE Look
  BY <1>17 DEF Look, WorkerGone
<1>18. CASE RevivedEnds
  BY <1>18 DEF RevivedEnds
<1>19. CASE LinkDrops
  BY <1>19 DEF LinkDrops
<1>20. CASE LinkReturns
  BY <1>20 DEF LinkReturns
<1>21. CASE Die
  BY <1>21 DEF Die, Orphan
<1>22. CASE Tick
  BY <1>22 DEF Tick, Due, Later
<1>23. CASE UNCHANGED vars
  BY <1>23 DEF vars
<1> QED
  BY <1>1, <1>2, <1>3, <1>4, <1>5, <1>6, <1>7, <1>8, <1>9, <1>10, <1>11, <1>12, <1>13, <1>14,
     <1>15, <1>16, <1>17, <1>18, <1>19, <1>20, <1>21, <1>22, <1>23 DEF Next

\* Every step keeps the bound on a renewal's wait at the gate.
LEMMA AtGateStep ==
  ASSUME TypeOK, Agree, AtGate, [Next]_vars
  PROVE  AtGate'
<1> USE Durations, Margins DEF TypeOK, AgeUpTo, Outlives, Oldest, Up, LinkUp, Gated, Agree, AtGate,
        mainVars, loopVars, netVars, workerVars
<1>1. CASE Wake
  BY <1>1 DEF Wake
<1>2. CASE Ask
  BY <1>2 DEF Ask
<1>3. CASE AskLost
  BY <1>3 DEF AskLost
<1>4. CASE Revive
  BY <1>4 DEF Revive
<1>5. CASE Send
  BY <1>5 DEF Send
<1>6. CASE Deliver
  BY <1>6 DEF Deliver, RenewDeadline
<1>7. CASE Return
  BY <1>7 DEF Return, Renewed
<1>8. CASE Kill
  BY <1>8 DEF Kill, Renewed, Orphan
<1>9. CASE Dropped
  BY <1>9 DEF Dropped, Renewed, Orphan
<1>10. CASE Build
  BY <1>10 DEF Build
<1>11. CASE Exec
  BY <1>11 DEF Exec
<1>12. CASE Moved
  BY <1>12 DEF Moved
<1>13. CASE Release
  BY <1>13 DEF Release
<1>14. CASE Close
  BY <1>14 DEF Close, Orphan
<1>15. CASE Closed
  BY <1>15 DEF Closed
<1>16. CASE InputEnds
  BY <1>16 DEF InputEnds, WorkerGone
<1>17. CASE Look
  BY <1>17 DEF Look, WorkerGone
<1>18. CASE RevivedEnds
  BY <1>18 DEF RevivedEnds
<1>19. CASE LinkDrops
  BY <1>19 DEF LinkDrops
<1>20. CASE LinkReturns
  BY <1>20 DEF LinkReturns
<1>21. CASE Die
  BY <1>21 DEF Die, Orphan
<1>22. CASE Tick
  BY <1>22 DEF Tick, Due, Later
<1>23. CASE UNCHANGED vars
  BY <1>23 DEF vars
<1> QED
  BY <1>1, <1>2, <1>3, <1>4, <1>5, <1>6, <1>7, <1>8, <1>9, <1>10, <1>11, <1>12, <1>13, <1>14,
     <1>15, <1>16, <1>17, <1>18, <1>19, <1>20, <1>21, <1>22, <1>23 DEF Next

\* Every step keeps the bound on the time without the deadline a move took away.
LEMMA BareStep ==
  ASSUME TypeOK, Agree, BareFor, [Next]_vars
  PROVE  BareFor'
<1> USE Durations, Margins DEF TypeOK, AgeUpTo, Outlives, Oldest, Up, LinkUp, Gated, Agree, BareFor,
        mainVars, loopVars, netVars, workerVars
<1>1. CASE Wake
  BY <1>1 DEF Wake
<1>2. CASE Ask
  BY <1>2 DEF Ask
<1>3. CASE AskLost
  BY <1>3 DEF AskLost
<1>4. CASE Revive
  BY <1>4 DEF Revive
<1>5. CASE Send
  BY <1>5 DEF Send
<1>6. CASE Deliver
  BY <1>6 DEF Deliver, RenewDeadline
<1>7. CASE Return
  BY <1>7 DEF Return, Renewed
<1>8. CASE Kill
  BY <1>8 DEF Kill, Renewed, Orphan
<1>9. CASE Dropped
  BY <1>9 DEF Dropped, Renewed, Orphan
<1>10. CASE Build
  BY <1>10 DEF Build
<1>11. CASE Exec
  BY <1>11 DEF Exec
<1>12. CASE Moved
  BY <1>12 DEF Moved
<1>13. CASE Release
  BY <1>13 DEF Release
<1>14. CASE Close
  BY <1>14 DEF Close, Orphan
<1>15. CASE Closed
  BY <1>15 DEF Closed
<1>16. CASE InputEnds
  BY <1>16 DEF InputEnds, WorkerGone
<1>17. CASE Look
  BY <1>17 DEF Look, WorkerGone
<1>18. CASE RevivedEnds
  BY <1>18 DEF RevivedEnds
<1>19. CASE LinkDrops
  BY <1>19 DEF LinkDrops
<1>20. CASE LinkReturns
  BY <1>20 DEF LinkReturns
<1>21. CASE Die
  BY <1>21 DEF Die, Orphan
<1>22. CASE Tick
  BY <1>22 DEF Tick, Due, Later
<1>23. CASE UNCHANGED vars
  BY <1>23 DEF vars
<1> QED
  BY <1>1, <1>2, <1>3, <1>4, <1>5, <1>6, <1>7, <1>8, <1>9, <1>10, <1>11, <1>12, <1>13, <1>14,
     <1>15, <1>16, <1>17, <1>18, <1>19, <1>20, <1>21, <1>22, <1>23 DEF Next

\* Every step keeps a living session's deadline far enough away.
LEMMA RenewedStep ==
  ASSUME TypeOK, Agree, RenewedFor, [Next]_vars
  PROVE  RenewedFor'
<1> USE Durations, Margins DEF TypeOK, AgeUpTo, Outlives, Oldest, Up, LinkUp, Gated, Agree, RenewedFor,
        mainVars, loopVars, netVars, workerVars
<1>1. CASE Wake
  BY <1>1 DEF Wake
<1>2. CASE Ask
  BY <1>2 DEF Ask
<1>3. CASE AskLost
  BY <1>3 DEF AskLost
<1>4. CASE Revive
  BY <1>4 DEF Revive
<1>5. CASE Send
  BY <1>5 DEF Send
<1>6. CASE Deliver
  BY <1>6 DEF Deliver, RenewDeadline
<1>7. CASE Return
  BY <1>7 DEF Return, Renewed
<1>8. CASE Kill
  BY <1>8 DEF Kill, Renewed, Orphan
<1>9. CASE Dropped
  BY <1>9 DEF Dropped, Renewed, Orphan
<1>10. CASE Build
  BY <1>10 DEF Build
<1>11. CASE Exec
  BY <1>11 DEF Exec
<1>12. CASE Moved
  BY <1>12 DEF Moved
<1>13. CASE Release
  BY <1>13 DEF Release
<1>14. CASE Close
  BY <1>14 DEF Close, Orphan
<1>15. CASE Closed
  BY <1>15 DEF Closed
<1>16. CASE InputEnds
  BY <1>16 DEF InputEnds, WorkerGone
<1>17. CASE Look
  BY <1>17 DEF Look, WorkerGone
<1>18. CASE RevivedEnds
  BY <1>18 DEF RevivedEnds
<1>19. CASE LinkDrops
  BY <1>19 DEF LinkDrops
<1>20. CASE LinkReturns
  BY <1>20 DEF LinkReturns
<1>21. CASE Die
  BY <1>21 DEF Die, Orphan
<1>22. CASE Tick
  BY <1>22 DEF Tick, Due, Later
<1>23. CASE UNCHANGED vars
  BY <1>23 DEF vars
<1> QED
  BY <1>1, <1>2, <1>3, <1>4, <1>5, <1>6, <1>7, <1>8, <1>9, <1>10, <1>11, <1>12, <1>13, <1>14,
     <1>15, <1>16, <1>17, <1>18, <1>19, <1>20, <1>21, <1>22, <1>23 DEF Next

\* The invariant holds of the initial state and of every step.
THEOREM LeaseInvariance == Spec => []LeaseInv
<1>1. ASSUME Init PROVE LeaseInv
  <2>1. TypeOK
    <3>1. None # 0 /\ {MaxMove, Interval, Timeout, MaxDrop, Poll} \subseteq Nat
      BY Durations
    <3>2. /\ held \in AgeUpTo(MaxMove) /\ waited \in AgeUpTo(Interval) /\ asked \in AgeUpTo(Timeout)
          /\ down \in AgeUpTo(MaxDrop) /\ renewed \in AgeUpTo(Oldest) /\ look \in AgeUpTo(Poll)
          /\ bare \in AgeUpTo(Oldest) /\ orphan \in AgeUpTo(Oldest)
          /\ revived \in AgeUpTo(Grace + Poll)
      BY <1>1, <3>1, NoAge, Bounds DEF Init
    <3> QED
      BY <1>1, <3>1, <3>2 DEF Init, TypeOK, Gated
  <2>2. Agree /\ Written /\ Watched /\ Noticed /\ AtGate /\ BareFor /\ RenewedFor
    BY <1>1, Durations DEF Init, Agree, Written, Watched, Noticed, AtGate, BareFor, RenewedFor, Up, LinkUp, Gated
  <2> QED
    BY <2>1, <2>2 DEF LeaseInv
<1>2. LeaseInv /\ [Next]_vars => LeaseInv'
  BY TypeStep, AgreeStep, WrittenStep, WatchedStep, NoticedStep, AtGateStep, BareStep, RenewedStep
     DEF LeaseInv
<1> QED
  BY <1>1, <1>2, PTL DEF Spec

---------------------------------------------------------------------------
\* Every clock of the lease stays in its type, and runs exactly while it should.
THEOREM LeaseTypeCorrect == Spec => []TypeOK
<1>1. LeaseInv => TypeOK
  BY DEF LeaseInv
<1> QED
  BY <1>1, LeaseInvariance, PTL

\* A worker that holds a deadline does not outlive whoever kept it by more than the grace
\* period, one poll and one drop; nor does one that a late renewal started (_op_lease).
THEOREM OrphansEnd == Spec => []OrphanEnds
<1>1. LeaseInv => OrphanEnds
  BY Durations DEF LeaseInv, TypeOK, Watched, Noticed, OrphanEnds, AgeUpTo, Outlives, Oldest
<1> QED
  BY <1>1, LeaseInvariance, PTL

\* A move leaves a worker without a deadline for one interval and one renewal at most.
THEOREM DeadlineReturns == Spec => []BareBriefly
<1>1. LeaseInv => BareBriefly
  BY DEF LeaseInv, BareFor, BareBriefly
<1> QED
  BY <1>1, LeaseInvariance, PTL

\* Nothing but a renewal that was written and is stuck on the link ends a living session.
THEOREM SessionKept == Spec => LostOnlyByDrop
<1> DEFINE Step ==
      conn = "open" /\ worker /\ Up /\ main \notin {"stopping", "closing", "closed"}
        => \/ (conn' = "open" /\ worker') \/ client' # "up"
           \/ (asked = Timeout /\ flight \in {"request", "reply"})
<1>1. LeaseInv /\ [Next]_vars => [Step]_vars
  <2> SUFFICES ASSUME LeaseInv, [Next]_vars, ~Step PROVE FALSE
    OBVIOUS
  <2> USE Durations, Margins DEF LeaseInv, TypeOK, Agree, AtGate, RenewedFor, AgeUpTo, Up
  <2>1. CASE Kill
    BY <2>1 DEF Kill
  <2>2. CASE Dropped
    BY <2>2 DEF Dropped, Up
  <2>3. CASE Look
    <3>1. worker /\ conn = "open" /\ Up /\ renewed # None
      BY <2>3 DEF Look
    <3>2. renewed \in Nat /\ renewed <= Grace
      BY <3>1
    <3>3. ~(renewed > Grace)
      BY <3>2, Durations
    <3>4. worker' = worker /\ conn' = conn
      BY <2>3, <3>3 DEF Look, netVars
    <3> QED
      BY <3>1, <3>4
  <2>4. CASE Close \/ InputEnds
    BY <2>4 DEF Close, InputEnds
  <2>5. CASE UNCHANGED <<conn, worker>>
    BY <2>5
  <2>6. CASE Die
    BY <2>6 DEF Die
  <2> QED
    BY <2>1, <2>2, <2>3, <2>4, <2>5, <2>6 DEF Next, vars, netVars, workerVars, Wake, Ask, AskLost, Revive,
       Send, Deliver, Return, Build, Exec, Moved, Release, Closed, RevivedEnds, LinkDrops, LinkReturns, Tick
<1> QED
  BY <1>1, LeaseInvariance, PTL DEF Spec, LostOnlyByDrop

-----------------------------------------------------------------------------
(* The environment. *)

Booted == {"moves", "version", "packs", "attaches", "ready"}

BuildTypeOK ==
  /\ {keeps, managed, travels} \subseteq BOOLEAN
  /\ at \in [Builds -> Out \cup Booted \cup {"cards", "files", "probe", "looks", "checks", "extras"}]
  /\ tree \in [Builds -> {"none", "part", "alien", "bare", "whole"}]
  /\ source \in [Builds -> {"none", "archive", "sync"}]
  /\ archive \in [1 .. Archives -> {"none", "whole"}]

\* On a machine that keeps its disk nobody boots beside a session.
OneOnDisk == keeps => \A s, q \in Builds : at[s] \notin Out /\ at[q] \notin Out => s = q

\* What a step may find of the tree: a restored archive is whole or does not start, and past
\* the extras there is nothing less than all of it.
TreeFits(s) ==
  /\ at[s] = "checks" => ~keeps /\ Tree(s) \in {"whole", "alien"}
  /\ at[s] \in Booted /\ ~managed => Tree(s) = "whole"

\* Where the account names the interpreter nothing is built, and so nothing is packed.
NoneBuilt ==
  managed => \A s \in Builds : source[s] = "none" /\ at[s] \in Out \cup {"cards", "version", "attaches", "ready"}

BuildInv == BuildTypeOK /\ OneOnDisk /\ NoneBuilt /\ \A s \in Builds : TreeFits(s)

-----------------------------------------------------------------------------
\* A session that only moves on, to where its tree fits, keeps the invariant.
LEMMA MovesOn ==
  ASSUME BuildInv, NEW s \in Builds, at[s] \notin Out, NEW where, Goes(s, where),
         where \in Out \cup Booted \cup {"cards", "files", "probe", "looks", "checks", "extras"},
         UNCHANGED <<settings, tree, archive>>,
         \/ UNCHANGED source
         \/ ~managed /\ \E from \in {"archive", "sync"} : source' = [source EXCEPT ![s] = from],
         where = "checks" => ~keeps /\ Tree(s) \in {"whole", "alien"},
         where \in Booted /\ ~managed => Tree(s) = "whole",
         managed => where \in Out \cup {"cards", "version", "attaches", "ready"}
  PROVE  BuildInv'
<1>1. BuildTypeOK'
  BY DEF BuildInv, BuildTypeOK, Goes, settings
<1>2. OneOnDisk'
  BY DEF BuildInv, BuildTypeOK, OneOnDisk, Goes, settings
<1>3. NoneBuilt'
  BY DEF BuildInv, BuildTypeOK, NoneBuilt, Goes, settings
<1>4. ASSUME NEW q \in Builds PROVE TreeFits(q)'
  BY <1>4 DEF BuildInv, BuildTypeOK, TreeFits, Tree, Machine, Goes, settings
<1> QED
  BY <1>1, <1>2, <1>3, <1>4 DEF BuildInv

\* A session that leaves its machine another tree and goes where that fits disturbs no other.
LEMMA Rebuilds ==
  ASSUME BuildInv, NEW s \in Builds, at[s] \notin Out, ~managed,
         NEW where \in {"failed", "checks", "extras", "moves"}, Goes(s, where),
         NEW left \in {"none", "part", "alien", "bare", "whole"}, Leaves(s, left),
         UNCHANGED <<settings, archive>>,
         \/ UNCHANGED source
         \/ source' = [source EXCEPT ![s] = "sync"],
         where = "checks" => ~keeps /\ left \in {"whole", "alien"},
         where = "moves" => left = "whole"
  PROVE  BuildInv'
<1>0. Machine(s) \in Builds
  BY DEF Machine
<1>1. BuildTypeOK'
  BY <1>0 DEF BuildInv, BuildTypeOK, Goes, Leaves, settings, Out, Booted
<1>2. OneOnDisk'
  BY DEF BuildInv, BuildTypeOK, OneOnDisk, Goes, settings
<1>3. NoneBuilt'
  BY DEF BuildInv, NoneBuilt, settings
<1>4. ASSUME NEW q \in Builds PROVE TreeFits(q)'
  <2>1. CASE q = s
    BY <1>0, <2>1 DEF BuildInv, BuildTypeOK, TreeFits, Tree, Machine, Goes, Leaves, settings, Booted
  <2>2. CASE q # s /\ keeps
    <3>1. at'[q] \in Out
      BY <2>2 DEF BuildInv, BuildTypeOK, OneOnDisk, Goes
    <3> QED
      BY <3>1 DEF TreeFits, Out, Booted
  <2>3. CASE q # s /\ ~keeps
    BY <1>0, <2>3 DEF BuildInv, BuildTypeOK, TreeFits, Tree, Machine, Goes, Leaves, settings
  <2> QED
    BY <2>1, <2>2, <2>3 DEF BuildInv, BuildTypeOK
<1> QED
  BY <1>1, <1>2, <1>3, <1>4 DEF BuildInv

\* A boot begins when nobody else is on the disk, or on a machine of its own.
LEMMA Begins ==
  ASSUME BuildInv, OneBoot, NEW s \in Builds, BootBegins(s)
  PROVE  BuildInv'
<1>0. Machine(s) \in Builds
  BY DEF Machine
<1>1. BuildTypeOK'
  BY <1>0 DEF BuildInv, BuildTypeOK, BootBegins, Goes, Leaves, settings
<1>2. OneOnDisk'
  BY DEF BuildInv, BuildTypeOK, OneOnDisk, BootBegins, Goes, settings, Out
<1>3. NoneBuilt'
  BY DEF BuildInv, BuildTypeOK, NoneBuilt, BootBegins, Goes, settings
<1>4. ASSUME NEW q \in Builds PROVE TreeFits(q)'
  <2>1. CASE q = s
    BY <2>1 DEF BuildInv, BuildTypeOK, TreeFits, BootBegins, Goes, Booted
  <2>2. CASE q # s /\ keeps
    BY <2>2 DEF BuildInv, BuildTypeOK, TreeFits, Tree, Machine, BootBegins, Goes, Booted, Out, settings
  <2>3. CASE q # s /\ ~keeps
    BY <1>0, <2>3 DEF BuildInv, BuildTypeOK, TreeFits, Tree, Machine, BootBegins, Goes, Leaves, settings
  <2> QED
    BY <2>1, <2>2, <2>3 DEF BuildInv, BuildTypeOK
<1> QED
  BY <1>1, <1>2, <1>3, <1>4 DEF BuildInv

\* A whole tree is packed for the next machine.
LEMMA Packed ==
  ASSUME BuildInv, NEW s \in Builds, Packs(s)
  PROVE  BuildInv'
<1>1. ~managed /\ Tree(s) = "whole" /\ at[s] \notin Out
  BY DEF BuildInv, BuildTypeOK, NoneBuilt, TreeFits, Packs, Booted, Out
<1>2. CASE archive' = [archive EXCEPT ![1] = Tree(s)] /\ Goes(s, "attaches")
  <2>1. BuildTypeOK'
    BY <1>1, <1>2 DEF BuildInv, BuildTypeOK, Packs, Goes, settings, Booted
  <2>2. OneOnDisk' /\ NoneBuilt'
    BY <1>1, <1>2 DEF BuildInv, BuildTypeOK, OneOnDisk, NoneBuilt, Packs, Goes, settings
  <2>3. ASSUME NEW q \in Builds PROVE TreeFits(q)'
    BY <1>1, <1>2 DEF BuildInv, BuildTypeOK, TreeFits, Tree, Machine, Packs, Goes, settings
  <2> QED
    BY <2>1, <2>2, <2>3 DEF BuildInv
<1>3. CASE Goes(s, "failed") /\ UNCHANGED archive
  BY <1>1, <1>3, MovesOn DEF Packs, Out, Booted
<1> QED
  BY <1>2, <1>3 DEF Packs

LEMMA BuildStep ==
  ASSUME BuildInv, OneBoot, [BuildNext]_buildVars
  PROVE  BuildInv'
<1> USE DEF Out, Booted
<1>1. CASE UNCHANGED buildVars
  BY <1>1 DEF BuildInv, BuildTypeOK, OneOnDisk, NoneBuilt, TreeFits, Tree, Machine, buildVars, settings
<1>2. ASSUME NEW s \in Builds, Cards(s) PROVE BuildInv'
  <2>1. at[s] = "cards" /\ UNCHANGED <<settings, volume, tree, source, archive>>
    BY <1>2 DEF Cards
  <2>2. PICK where \in {"failed", "version", "files"} :
          Goes(s, where) /\ (where = "version" <=> managed /\ where # "failed")
    BY <1>2 DEF Cards, BuildInv, BuildTypeOK
  <2> QED
    BY <2>1, <2>2, MovesOn
<1>3. ASSUME NEW s \in Builds, Files(s) PROVE BuildInv'
  BY <1>3, MovesOn DEF Files, BuildInv, NoneBuilt
<1>4. ASSUME NEW s \in Builds, Probes(s) PROVE BuildInv'
  BY <1>4, MovesOn DEF Probes, BuildInv, NoneBuilt
<1>5. ASSUME NEW s \in Builds, NotCached(s) PROVE BuildInv'
  BY <1>5 DEF NotCached, BuildInv, BuildTypeOK, OneOnDisk, NoneBuilt, TreeFits, Tree, Machine, settings
<1>6. ASSUME NEW s \in Builds, Unpacks(s) PROVE BuildInv'
  <2>1. ~managed /\ ~keeps /\ at[s] = "looks" /\ archive[volume[s]] = "whole"
    BY <1>6 DEF Unpacks, BuildInv, BuildTypeOK, NoneBuilt, Volumes
  <2>2. \E where \in {"failed", "checks"}, left \in {"none", "part", "alien", "bare", "whole"} :
          /\ Goes(s, where) /\ Leaves(s, left)
          /\ where = "checks" => left \in {"whole", "alien"}
    <3>1. Tree(s) \in {"none", "part", "alien", "bare", "whole"}
      BY DEF Tree, Machine, BuildInv, BuildTypeOK
    <3> QED
      BY <1>6, <2>1, <3>1 DEF Unpacks
  <2> QED
    BY <1>6, <2>1, <2>2, Rebuilds DEF Unpacks
<1>7. ASSUME NEW s \in Builds, ChecksRestored(s) PROVE BuildInv'
  <2>1. ~managed /\ ~keeps /\ Tree(s) \in {"whole", "alien"} /\ at[s] = "checks"
    BY <1>7 DEF ChecksRestored, BuildInv, NoneBuilt, TreeFits
  <2>2. CASE InterpreterStarts(s)
    <3>1. /\ Goes(s, "moves") /\ source' = [source EXCEPT ![s] = "archive"]
          /\ UNCHANGED <<settings, tree, archive>>
      BY <1>7, <2>2 DEF ChecksRestored
    <3> QED
      BY <2>1, <2>2, <3>1, MovesOn DEF InterpreterStarts
  <2>3. CASE ~InterpreterStarts(s)
    <3>1. Goes(s, "looks") /\ UNCHANGED <<settings, source, tree, archive>>
      BY <1>7, <2>3 DEF ChecksRestored
    <3> QED
      BY <2>1, <3>1, MovesOn
  <2> QED
    BY <2>2, <2>3
<1>8. ASSUME NEW s \in Builds, Syncs(s) PROVE BuildInv'
  <2>1. ~managed /\ at[s] = "looks" /\ Tree(s) \in {"none", "part", "alien", "bare", "whole"}
    BY <1>8 DEF Syncs, BuildInv, BuildTypeOK, NoneBuilt, Tree, Machine
  <2> QED
    BY <1>8, <2>1, Rebuilds DEF Syncs
<1>9. ASSUME NEW s \in Builds, Extras(s) PROVE BuildInv'
  <2>1. ~managed /\ at[s] = "extras"
    BY <1>9 DEF Extras, BuildInv, NoneBuilt
  <2>2. CASE Goes(s, "moves") /\ Leaves(s, "whole") /\ source' = [source EXCEPT ![s] = "sync"]
    BY <1>9, <2>1, <2>2, Rebuilds DEF Extras
  <2>3. CASE Goes(s, "failed") /\ UNCHANGED <<tree, source>>
    BY <1>9, <2>1, <2>3, MovesOn DEF Extras
  <2> QED
    BY <1>9, <2>2, <2>3 DEF Extras
<1>10. ASSUME NEW s \in Builds, Enters(s) PROVE BuildInv'
  BY <1>10, MovesOn DEF Enters, BuildInv, NoneBuilt, TreeFits
<1>11. ASSUME NEW s \in Builds, Version(s) PROVE BuildInv'
  <2>1. \E where \in {"packs", "attaches", "failed"} : Goes(s, where) /\ (managed => where # "packs")
    BY <1>11 DEF Version, BuildInv, NoneBuilt
  <2> QED
    BY <1>11, <2>1, MovesOn DEF Version, BuildInv, TreeFits
<1>12. ASSUME NEW s \in Builds, Attaches(s) PROVE BuildInv'
  BY <1>12, MovesOn DEF Attaches, BuildInv, TreeFits
<1>13. ASSUME NEW s \in Builds, Stops(s) PROVE BuildInv'
  BY <1>13, MovesOn DEF Stops
<1> QED
  BY <1>1, <1>2, <1>3, <1>4, <1>5, <1>6, <1>7, <1>8, <1>9, <1>10, <1>11, <1>12, <1>13, Begins, Packed
     DEF BuildNext

-----------------------------------------------------------------------------
\* A session in use has the whole environment and every archive is of a whole one, whichever
\* steps fail in whichever sessions (Runtime.install_env, Volume.cache_env_from).
THEOREM EnvironmentsWhole == OneBoot => (BuildSpec => []EnvWhole)
<1> SUFFICES ASSUME OneBoot PROVE BuildSpec => []EnvWhole
  OBVIOUS
<1>1. BuildInit => BuildInv
  BY DEF BuildInit, BuildInv, BuildTypeOK, OneOnDisk, NoneBuilt, TreeFits, Out, Booted
<1>2. BuildInv /\ [BuildNext]_buildVars => BuildInv'
  BY BuildStep
<1>3. BuildInv => EnvWhole
  BY DEF BuildInv, BuildTypeOK, TreeFits, EnvWhole, Booted
<1> QED
  BY <1>1, <1>2, <1>3, PTL DEF BuildSpec

-----------------------------------------------------------------------------
(* A machine of its own. *)

\* Kaggle's record: one actor at a time rewrites it, with a copy of every line of a notebook that
\* still exists, and while the file is cut that copy is all there is.
OneWriter == \A a, b \in Cloud!Actors : rewrite[a].on /\ rewrite[b].on => a = b
CopyHolds ==
  \A a \in Cloud!Actors : /\ rewrite[a].cut => rewrite[a].on /\ record = {}
                          /\ rewrite[a].on /\ ~rewrite[a].cut =>
                               \A s \in record : Cloud!Exists(s) => s \in rewrite[a].copy

\* A notebook is recorded once its start has gone on from making it, and until then its own
\* process alone touches it.
Made(s) == step[s] \notin {"new", "made"}
Recorded ==
  \A s \in Starts :
    /\ Cloud!Exists(s) => \/ s \in record \cup said \/ step[s] = "made"
                          \/ \E a \in Cloud!Actors : rewrite[a].cut /\ s \in rewrite[a].copy
    /\ s \in record \cup sweep.forget => Made(s)
    /\ \A a \in Cloud!Actors : s \in rewrite[a].copy => Made(s)
    /\ owner[s] \in alive /\ step[s] = "noted" => Cloud!Exists(s)
    /\ owner[s] \in alive /\ step[s] = "made" => Cloud!Exists(s)

\* What the sweep deletes has no process any more, and what it forgets is not on the account.
SweepFits ==
  /\ \A s \in sweep.delete : owner[s] \notin alive
  /\ \A s \in sweep.forget : ~Cloud!Exists(s)

KaggleInv ==
  provider = "kaggle" => OneWriter /\ CopyHolds /\ Recorded /\ SweepFits /\ \A p \in Procs : helper[p] = {}
CloudInv == Cloud!TypeOK /\ KaggleInv

-----------------------------------------------------------------------------
(* The types, of every provider. *)

LEMMA CloudCLI == Cloud!CLI \in Cloud!Actors /\ Procs \subseteq Cloud!Actors
BY DEF Cloud!Actors

LEMMA ReadsType ==
  ASSUME Cloud!TypeOK, NEW a \in Cloud!Actors, NEW s, Cloud!Reads(a, s)
  PROVE  rewrite' \in [Cloud!Actors -> [cut : BOOLEAN, copy : SUBSET Starts, on : BOOLEAN]]
<1>1. [cut |-> FALSE, copy |-> record \ {s}, on |-> TRUE] \in [cut : BOOLEAN, copy : SUBSET Starts, on : BOOLEAN]
  BY DEF Cloud!TypeOK
<1> QED
  BY <1>1 DEF Cloud!TypeOK, Cloud!Reads

LEMMA KaggleStartTypes ==
  ASSUME Cloud!TypeOK, NEW s \in Starts,
         Cloud!Note(s) \/ Cloud!KaggleMakes(s) \/ Cloud!KaggleRuns(s) \/ Cloud!KaggleOpens(s)
         \/ Cloud!KaggleFails(s) \/ Cloud!KaggleStops(s)
  PROVE  Cloud!TypeOK'
<1> USE CloudCLI DEF Cloud!TypeOK, Cloud!Note, Cloud!KaggleMakes, Cloud!KaggleRuns, Cloud!KaggleOpens,
                     Cloud!KaggleFails, Cloud!KaggleStops, Cloud!At, Cloud!Goes, Cloud!Becomes, Cloud!kaggleVars,
                     Cloud!modalVars
<1>1. provider' \in Providers /\ owner' \in [Starts -> Procs] /\ alive' \subseteq Procs /\ skewed' \subseteq Procs
  OBVIOUS
<1>2. step' \in [Starts -> {"new", "asked", "made", "noted", "running", "open", "closing", "ended", "over"}]
  <2>1. step' = step \/ \E where \in {"made", "noted", "running", "open", "closing", "over"} : Cloud!Goes(s, where)
    OBVIOUS
  <2> QED
    BY <2>1
<1>3. machine' \in [Starts -> {"none", "kept", "up", "gone"}]
  OBVIOUS
<1>4. record' \subseteq Starts /\ keeper' \subseteq Starts /\ said' \subseteq Starts /\ recent' \subseteq Starts
  OBVIOUS
<1>5. rewrite' \in [Cloud!Actors -> [cut : BOOLEAN, copy : SUBSET Starts, on : BOOLEAN]]
  OBVIOUS
<1>6. sweep' \in [delete : SUBSET Starts, forget : SUBSET Starts] /\ cookie' \in BOOLEAN
  OBVIOUS
<1>7. known' \in [Procs -> SUBSET Starts] /\ helper' \in [Procs -> SUBSET Starts]
  OBVIOUS
<1> QED
  BY <1>1, <1>2, <1>3, <1>4, <1>5, <1>6, <1>7

LEMMA KaggleDeleteTypes ==
  ASSUME Cloud!TypeOK, NEW s \in Starts,
         Cloud!KaggleDeletes(s)
  PROVE  Cloud!TypeOK'
<1> USE CloudCLI DEF Cloud!TypeOK, Cloud!KaggleDeletes, Cloud!At, Cloud!Goes, Cloud!Becomes, Cloud!kaggleVars,
                     Cloud!modalVars
<1>1. provider' \in Providers /\ owner' \in [Starts -> Procs] /\ alive' \subseteq Procs /\ skewed' \subseteq Procs
  OBVIOUS
<1>2. step' \in [Starts -> {"new", "asked", "made", "noted", "running", "open", "closing", "ended", "over"}]
  OBVIOUS
<1>3. machine' \in [Starts -> {"none", "kept", "up", "gone"}]
  OBVIOUS
<1>4. record' \subseteq Starts /\ keeper' \subseteq Starts /\ said' \subseteq Starts /\ recent' \subseteq Starts
  OBVIOUS
<1>5. rewrite' \in [Cloud!Actors -> [cut : BOOLEAN, copy : SUBSET Starts, on : BOOLEAN]]
  <2>1. owner[s] \in Cloud!Actors
    OBVIOUS
  <2>2. Cloud!Reads(owner[s], s) \/ UNCHANGED rewrite
    OBVIOUS
  <2> QED
    BY <2>1, <2>2, ReadsType
<1>6. sweep' \in [delete : SUBSET Starts, forget : SUBSET Starts] /\ cookie' \in BOOLEAN
  OBVIOUS
<1>7. known' \in [Procs -> SUBSET Starts] /\ helper' \in [Procs -> SUBSET Starts]
  OBVIOUS
<1> QED
  BY <1>1, <1>2, <1>3, <1>4, <1>5, <1>6, <1>7

LEMMA SweepTypes ==
  ASSUME Cloud!TypeOK, NEW s \in Starts,
         Cloud!SweepDeletes(s)
  PROVE  Cloud!TypeOK'
<1> USE CloudCLI DEF Cloud!TypeOK, Cloud!SweepDeletes, Cloud!At, Cloud!Goes, Cloud!Becomes, Cloud!kaggleVars,
                     Cloud!modalVars
<1>1. provider' \in Providers /\ owner' \in [Starts -> Procs] /\ alive' \subseteq Procs /\ skewed' \subseteq Procs
  OBVIOUS
<1>2. step' \in [Starts -> {"new", "asked", "made", "noted", "running", "open", "closing", "ended", "over"}]
  OBVIOUS
<1>3. machine' \in [Starts -> {"none", "kept", "up", "gone"}]
  OBVIOUS
<1>4. record' \subseteq Starts /\ keeper' \subseteq Starts /\ said' \subseteq Starts /\ recent' \subseteq Starts
  OBVIOUS
<1>5. rewrite' \in [Cloud!Actors -> [cut : BOOLEAN, copy : SUBSET Starts, on : BOOLEAN]]
  <2>1. Cloud!Reads(Cloud!CLI, s) \/ UNCHANGED rewrite
    OBVIOUS
  <2> QED
    BY <2>1, ReadsType
<1>6. sweep' \in [delete : SUBSET Starts, forget : SUBSET Starts] /\ cookie' \in BOOLEAN
  OBVIOUS
<1>7. known' \in [Procs -> SUBSET Starts] /\ helper' \in [Procs -> SUBSET Starts]
  OBVIOUS
<1> QED
  BY <1>1, <1>2, <1>3, <1>4, <1>5, <1>6, <1>7

LEMMA ForgetTypes ==
  ASSUME Cloud!TypeOK, NEW s \in Starts,
         Cloud!ListForgets(s)
  PROVE  Cloud!TypeOK'
<1> USE CloudCLI DEF Cloud!TypeOK, Cloud!ListForgets, Cloud!At, Cloud!Goes, Cloud!Becomes, Cloud!kaggleVars,
                     Cloud!modalVars, Cloud!Reads
<1>1. provider' \in Providers /\ owner' \in [Starts -> Procs] /\ alive' \subseteq Procs /\ skewed' \subseteq Procs
  OBVIOUS
<1>2. step' \in [Starts -> {"new", "asked", "made", "noted", "running", "open", "closing", "ended", "over"}]
  OBVIOUS
<1>3. machine' \in [Starts -> {"none", "kept", "up", "gone"}]
  OBVIOUS
<1>4. record' \subseteq Starts /\ keeper' \subseteq Starts /\ said' \subseteq Starts /\ recent' \subseteq Starts
  OBVIOUS
<1>5. rewrite' \in [Cloud!Actors -> [cut : BOOLEAN, copy : SUBSET Starts, on : BOOLEAN]]
  OBVIOUS
<1>6. sweep' \in [delete : SUBSET Starts, forget : SUBSET Starts] /\ cookie' \in BOOLEAN
  OBVIOUS
<1>7. known' \in [Procs -> SUBSET Starts] /\ helper' \in [Procs -> SUBSET Starts]
  OBVIOUS
<1> QED
  BY <1>1, <1>2, <1>3, <1>4, <1>5, <1>6, <1>7

LEMMA LookTypes ==
  ASSUME Cloud!TypeOK, 
         Cloud!SweepLooks \/ Cloud!ListLooks \/ Cloud!LoginChanges \/ Cloud!TimePasses
  PROVE  Cloud!TypeOK'
<1> USE CloudCLI DEF Cloud!TypeOK, Cloud!SweepLooks, Cloud!ListLooks, Cloud!LoginChanges, Cloud!TimePasses, Cloud!At,
                     Cloud!Goes, Cloud!Becomes, Cloud!kaggleVars, Cloud!modalVars
<1>1. provider' \in Providers /\ owner' \in [Starts -> Procs] /\ alive' \subseteq Procs /\ skewed' \subseteq Procs
  OBVIOUS
<1>2. step' \in [Starts -> {"new", "asked", "made", "noted", "running", "open", "closing", "ended", "over"}]
  OBVIOUS
<1>3. machine' \in [Starts -> {"none", "kept", "up", "gone"}]
  OBVIOUS
<1>4. record' \subseteq Starts /\ keeper' \subseteq Starts /\ said' \subseteq Starts /\ recent' \subseteq Starts
  OBVIOUS
<1>5. rewrite' \in [Cloud!Actors -> [cut : BOOLEAN, copy : SUBSET Starts, on : BOOLEAN]]
  OBVIOUS
<1>6. sweep' \in [delete : SUBSET Starts, forget : SUBSET Starts] /\ cookie' \in BOOLEAN
  <2>1. \A S \in SUBSET Starts : /\ [sweep EXCEPT !.delete = S] \in [delete : SUBSET Starts, forget : SUBSET Starts]
                              /\ [sweep EXCEPT !.forget = S] \in [delete : SUBSET Starts, forget : SUBSET Starts]
    OBVIOUS
  <2>2. Cloud!Orphans \in SUBSET Starts /\ {s \in record : ~Cloud!Exists(s)} \in SUBSET Starts
    BY DEF Cloud!Orphans
  <2>3. \/ UNCHANGED sweep
        \/ \E S \in SUBSET Starts : sweep' = [sweep EXCEPT !.delete = S] \/ sweep' = [sweep EXCEPT !.forget = S]
    BY <2>2
  <2>4. sweep' \in [delete : SUBSET Starts, forget : SUBSET Starts]
    BY <2>1, <2>3
  <2>5. cookie' \in BOOLEAN
    OBVIOUS
  <2> QED
    BY <2>4, <2>5
<1>7. known' \in [Procs -> SUBSET Starts] /\ helper' \in [Procs -> SUBSET Starts]
  OBVIOUS
<1> QED
  BY <1>1, <1>2, <1>3, <1>4, <1>5, <1>6, <1>7

LEMMA WriteTypes ==
  ASSUME Cloud!TypeOK, NEW a \in Cloud!Actors,
         Cloud!Cuts(a) \/ Cloud!Writes(a)
  PROVE  Cloud!TypeOK'
<1> USE CloudCLI DEF Cloud!TypeOK, Cloud!Cuts, Cloud!Writes, Cloud!At, Cloud!Goes, Cloud!Becomes, Cloud!kaggleVars,
                     Cloud!modalVars
<1>1. provider' \in Providers /\ owner' \in [Starts -> Procs] /\ alive' \subseteq Procs /\ skewed' \subseteq Procs
  OBVIOUS
<1>2. step' \in [Starts -> {"new", "asked", "made", "noted", "running", "open", "closing", "ended", "over"}]
  OBVIOUS
<1>3. machine' \in [Starts -> {"none", "kept", "up", "gone"}]
  OBVIOUS
<1>4. record' \subseteq Starts /\ keeper' \subseteq Starts /\ said' \subseteq Starts /\ recent' \subseteq Starts
  <2>1. rewrite[a].copy \in SUBSET Starts
    OBVIOUS
  <2> QED
    BY <2>1
<1>5. rewrite' \in [Cloud!Actors -> [cut : BOOLEAN, copy : SUBSET Starts, on : BOOLEAN]]
  <2>1. rewrite' = [rewrite EXCEPT ![a].cut = TRUE] \/ rewrite' = [rewrite EXCEPT ![a] = Cloud!Idle]
    OBVIOUS
  <2>2. CASE rewrite' = [rewrite EXCEPT ![a].cut = TRUE]
    <3>1. rewrite \in [Cloud!Actors -> [cut : BOOLEAN, copy : SUBSET Starts, on : BOOLEAN]]
      OBVIOUS
    <3>2. [rewrite[a] EXCEPT !.cut = TRUE] \in [cut : BOOLEAN, copy : SUBSET Starts, on : BOOLEAN]
      BY ONLY <3>1, a \in Cloud!Actors
    <3> QED
      BY ONLY <2>2, <3>1, <3>2
  <2>3. CASE rewrite' = [rewrite EXCEPT ![a] = Cloud!Idle]
    <3>1. Cloud!Idle \in [cut : BOOLEAN, copy : SUBSET Starts, on : BOOLEAN]
      BY DEF Cloud!Idle
    <3> QED
      BY <2>3, <3>1
  <2> QED
    BY <2>1, <2>2, <2>3
<1>6. sweep' \in [delete : SUBSET Starts, forget : SUBSET Starts] /\ cookie' \in BOOLEAN
  OBVIOUS
<1>7. known' \in [Procs -> SUBSET Starts] /\ helper' \in [Procs -> SUBSET Starts]
  OBVIOUS
<1> QED
  BY <1>1, <1>2, <1>3, <1>4, <1>5, <1>6, <1>7

LEMMA ColabTypes ==
  ASSUME Cloud!TypeOK, NEW s \in Starts,
         Cloud!ColabMakes(s) \/ Cloud!ColabKeeps(s) \/ Cloud!ColabStops(s)
         \/ Cloud!KeeperEnds(s) \/ Cloud!Reclaims(s)
  PROVE  Cloud!TypeOK'
<1> USE CloudCLI DEF Cloud!TypeOK, Cloud!ColabMakes, Cloud!ColabKeeps, Cloud!ColabStops, Cloud!KeeperEnds,
                     Cloud!Reclaims, Cloud!At, Cloud!Goes, Cloud!Becomes, Cloud!kaggleVars, Cloud!modalVars
<1>1. provider' \in Providers /\ owner' \in [Starts -> Procs] /\ alive' \subseteq Procs /\ skewed' \subseteq Procs
  OBVIOUS
<1>2. step' \in [Starts -> {"new", "asked", "made", "noted", "running", "open", "closing", "ended", "over"}]
  OBVIOUS
<1>3. machine' \in [Starts -> {"none", "kept", "up", "gone"}]
  OBVIOUS
<1>4. record' \subseteq Starts /\ keeper' \subseteq Starts /\ said' \subseteq Starts /\ recent' \subseteq Starts
  OBVIOUS
<1>5. rewrite' \in [Cloud!Actors -> [cut : BOOLEAN, copy : SUBSET Starts, on : BOOLEAN]]
  OBVIOUS
<1>6. sweep' \in [delete : SUBSET Starts, forget : SUBSET Starts] /\ cookie' \in BOOLEAN
  OBVIOUS
<1>7. known' \in [Procs -> SUBSET Starts] /\ helper' \in [Procs -> SUBSET Starts]
  OBVIOUS
<1> QED
  BY <1>1, <1>2, <1>3, <1>4, <1>5, <1>6, <1>7

LEMMA ModalAskTypes ==
  ASSUME Cloud!TypeOK, NEW s \in Starts,
         Cloud!ModalAsks(s) \/ Cloud!ModalStops(s)
  PROVE  Cloud!TypeOK'
<1> USE CloudCLI DEF Cloud!TypeOK, Cloud!ModalAsks, Cloud!ModalStops, Cloud!At, Cloud!Goes, Cloud!Becomes,
                     Cloud!kaggleVars, Cloud!modalVars
<1>1. provider' \in Providers /\ owner' \in [Starts -> Procs] /\ alive' \subseteq Procs /\ skewed' \subseteq Procs
  OBVIOUS
<1>2. step' \in [Starts -> {"new", "asked", "made", "noted", "running", "open", "closing", "ended", "over"}]
  OBVIOUS
<1>3. machine' \in [Starts -> {"none", "kept", "up", "gone"}]
  OBVIOUS
<1>4. record' \subseteq Starts /\ keeper' \subseteq Starts /\ said' \subseteq Starts /\ recent' \subseteq Starts
  OBVIOUS
<1>5. rewrite' \in [Cloud!Actors -> [cut : BOOLEAN, copy : SUBSET Starts, on : BOOLEAN]]
  OBVIOUS
<1>6. sweep' \in [delete : SUBSET Starts, forget : SUBSET Starts] /\ cookie' \in BOOLEAN
  OBVIOUS
<1>7. known' \in [Procs -> SUBSET Starts] /\ helper' \in [Procs -> SUBSET Starts]
  <2>1. owner[s] \in Procs /\ \A p \in Procs : known[p] \in SUBSET Starts /\ helper[p] \in SUBSET Starts
    OBVIOUS
  <2>2. known \in [Procs -> SUBSET Starts] /\ helper \in [Procs -> SUBSET Starts]
    OBVIOUS
  <2>3. /\ UNCHANGED known \/ known' = [known EXCEPT ![owner[s]] = known[owner[s]] \ {s}]
        /\ UNCHANGED helper \/ helper' = [helper EXCEPT ![owner[s]] = helper[owner[s]] \ {s}]
    OBVIOUS
  <2>4. known[owner[s]] \ {s} \in SUBSET Starts /\ helper[owner[s]] \ {s} \in SUBSET Starts
    BY <2>1
  <2>5. [known EXCEPT ![owner[s]] = known[owner[s]] \ {s}] \in [Procs -> SUBSET Starts]
    BY <2>1, <2>4
  <2>6. [helper EXCEPT ![owner[s]] = helper[owner[s]] \ {s}] \in [Procs -> SUBSET Starts]
    BY <2>1, <2>4
  <2> QED
    BY ONLY <2>2, <2>3, <2>5, <2>6
<1> QED
  BY <1>1, <1>2, <1>3, <1>4, <1>5, <1>6, <1>7

LEMMA ModalMakeTypes ==
  ASSUME Cloud!TypeOK, NEW s \in Starts,
         Cloud!ModalMakes(s) \/ Cloud!ModalInterrupted(s)
  PROVE  Cloud!TypeOK'
<1> USE CloudCLI DEF Cloud!TypeOK, Cloud!ModalMakes, Cloud!ModalInterrupted, Cloud!At, Cloud!Goes, Cloud!Becomes,
                     Cloud!kaggleVars, Cloud!modalVars
<1>1. provider' \in Providers /\ owner' \in [Starts -> Procs] /\ alive' \subseteq Procs /\ skewed' \subseteq Procs
  OBVIOUS
<1>2. step' \in [Starts -> {"new", "asked", "made", "noted", "running", "open", "closing", "ended", "over"}]
  <2>1. step' = [step EXCEPT ![s] = "open"] \/ step' = [step EXCEPT ![s] = "over"]
    OBVIOUS
  <2> QED
    BY <2>1
<1>3. machine' \in [Starts -> {"none", "kept", "up", "gone"}]
  OBVIOUS
<1>4. record' \subseteq Starts /\ keeper' \subseteq Starts /\ said' \subseteq Starts /\ recent' \subseteq Starts
  OBVIOUS
<1>5. rewrite' \in [Cloud!Actors -> [cut : BOOLEAN, copy : SUBSET Starts, on : BOOLEAN]]
  OBVIOUS
<1>6. sweep' \in [delete : SUBSET Starts, forget : SUBSET Starts] /\ cookie' \in BOOLEAN
  OBVIOUS
<1>7. known' \in [Procs -> SUBSET Starts] /\ helper' \in [Procs -> SUBSET Starts]
  <2>1. owner[s] \in Procs /\ \A p \in Procs : known[p] \in SUBSET Starts /\ helper[p] \in SUBSET Starts
    OBVIOUS
  <2>2. known \in [Procs -> SUBSET Starts] /\ helper \in [Procs -> SUBSET Starts]
    OBVIOUS
  <2>3. /\ UNCHANGED known \/ known' = [known EXCEPT ![owner[s]] = known[owner[s]] \cup {s}]
        /\ UNCHANGED helper \/ helper' = [helper EXCEPT ![owner[s]] = helper[owner[s]] \cup {s}]
    OBVIOUS
  <2>4. known[owner[s]] \cup {s} \in SUBSET Starts /\ helper[owner[s]] \cup {s} \in SUBSET Starts
    BY <2>1
  <2>5. [known EXCEPT ![owner[s]] = known[owner[s]] \cup {s}] \in [Procs -> SUBSET Starts]
    BY <2>1, <2>4
  <2>6. [helper EXCEPT ![owner[s]] = helper[owner[s]] \cup {s}] \in [Procs -> SUBSET Starts]
    BY <2>1, <2>4
  <2> QED
    BY ONLY <2>2, <2>3, <2>5, <2>6
<1> QED
  BY <1>1, <1>2, <1>3, <1>4, <1>5, <1>6, <1>7

LEMMA ProcessTypes ==
  ASSUME Cloud!TypeOK, NEW p \in Procs,
         Cloud!ModalAborts(p) \/ Cloud!HelperEnds(p) \/ Cloud!Dies(p)
  PROVE  Cloud!TypeOK'
<1> USE CloudCLI DEF Cloud!TypeOK, Cloud!ModalAborts, Cloud!HelperEnds, Cloud!Dies, Cloud!At, Cloud!Goes,
                     Cloud!Becomes, Cloud!kaggleVars, Cloud!modalVars
<1>1. provider' \in Providers /\ owner' \in [Starts -> Procs] /\ alive' \subseteq Procs /\ skewed' \subseteq Procs
  OBVIOUS
<1>2. step' \in [Starts -> {"new", "asked", "made", "noted", "running", "open", "closing", "ended", "over"}]
  OBVIOUS
<1>3. machine' \in [Starts -> {"none", "kept", "up", "gone"}]
  OBVIOUS
<1>4. record' \subseteq Starts /\ keeper' \subseteq Starts /\ said' \subseteq Starts /\ recent' \subseteq Starts
  OBVIOUS
<1>5. rewrite' \in [Cloud!Actors -> [cut : BOOLEAN, copy : SUBSET Starts, on : BOOLEAN]]
  OBVIOUS
<1>6. sweep' \in [delete : SUBSET Starts, forget : SUBSET Starts] /\ cookie' \in BOOLEAN
  OBVIOUS
<1>7. known' \in [Procs -> SUBSET Starts] /\ helper' \in [Procs -> SUBSET Starts]
  <2>1. /\ UNCHANGED known \/ known' = [known EXCEPT ![p] = {}]
        /\ UNCHANGED helper \/ helper' = [helper EXCEPT ![p] = {}]
    OBVIOUS
  <2>2. known \in [Procs -> SUBSET Starts] /\ helper \in [Procs -> SUBSET Starts]
    OBVIOUS
  <2> QED
    BY ONLY <2>1, <2>2
<1> QED
  BY <1>1, <1>2, <1>3, <1>4, <1>5, <1>6, <1>7

-----------------------------------------------------------------------------
(* Kaggle's record. *)

\* A step that leaves the record and its rewriting alone.
LEMMA RecordLeft ==
  ASSUME CloudInv, provider = "kaggle", UNCHANGED <<provider, owner, record, rewrite, helper>>,
         alive' \subseteq alive, said \subseteq said',
         \A s \in Starts : /\ Cloud!Exists(s)' => Cloud!Exists(s) \/ (step[s] = "new" /\ step'[s] = "made")
                           /\ Made(s) => Made(s)'
                           /\ step[s] = "made" => step'[s] = "made"
                           /\ owner[s] \in alive' /\ step'[s] \in {"made", "noted"} => Cloud!Exists(s)',
         \/ sweep' = sweep
         \/ /\ \A s \in sweep'.delete : owner[s] \notin alive'
            /\ \A s \in sweep'.forget : s \in Starts /\ ~Cloud!Exists(s)' /\ Made(s)'
  PROVE  KaggleInv'
<1>1. OneWriter /\ CopyHolds /\ Recorded /\ SweepFits /\ \A p \in Procs : helper[p] = {}
  BY DEF CloudInv, KaggleInv
<1>2. Cloud!TypeOK
  BY DEF CloudInv
<1>3. record \subseteq Starts /\ sweep.delete \subseteq Starts /\ sweep.forget \subseteq Starts
  BY <1>2 DEF Cloud!TypeOK
<1>4. OneWriter'
  BY <1>1 DEF OneWriter
<1>5. CopyHolds'
  BY <1>1, <1>3 DEF CopyHolds, Recorded, Made
<1>6. Recorded'
  <2>1. SUFFICES ASSUME NEW s \in Starts
                 PROVE  /\ Cloud!Exists(s)' => \/ s \in record \cup said' \/ step'[s] = "made"
                                               \/ \E a \in Cloud!Actors : rewrite[a].cut /\ s \in rewrite[a].copy
                        /\ s \in record \cup sweep'.forget => Made(s)'
                        /\ \A a \in Cloud!Actors : s \in rewrite[a].copy => Made(s)'
                        /\ owner[s] \in alive' /\ step'[s] = "noted" => Cloud!Exists(s)'
                        /\ owner[s] \in alive' /\ step'[s] = "made" => Cloud!Exists(s)'
    BY DEF Recorded
  <2> QED
    BY <1>1 DEF Recorded
<1>7. SweepFits'
  <2>1. CASE sweep' = sweep
    BY <1>1, <1>3, <2>1 DEF SweepFits, Recorded, Made
  <2>2. CASE sweep' # sweep
    BY <2>2 DEF SweepFits
  <2> QED
    BY <2>1, <2>2
<1> QED
  BY <1>1, <1>4, <1>5, <1>6, <1>7 DEF KaggleInv

\* A deletion begins to rewrite the record without its line.
LEMMA RecordRead ==
  ASSUME CloudInv, provider = "kaggle", ~Overlaps, UNCHANGED <<provider, owner, alive, record, said, helper>>,
         NEW a \in Cloud!Actors, NEW s \in Starts, Cloud!Untouched(a), ~rewrite[a].on, Cloud!Reads(a, s),
         ~Cloud!Exists(s)',
         \A t \in Starts : /\ Cloud!Exists(t)' => Cloud!Exists(t)
                           /\ Made(t) => Made(t)'
                           /\ step[t] = "made" => step'[t] = "made"
                           /\ owner[t] \in alive /\ step'[t] \in {"made", "noted"} => Cloud!Exists(t)',
         sweep'.delete \subseteq sweep.delete, sweep'.forget \subseteq sweep.forget
  PROVE  KaggleInv'
<1>1. OneWriter /\ CopyHolds /\ Recorded /\ SweepFits /\ \A p \in Procs : helper[p] = {}
  BY DEF CloudInv, KaggleInv
<1>2. record \subseteq Starts /\ sweep.delete \subseteq Starts /\ sweep.forget \subseteq Starts
  BY DEF CloudInv, Cloud!TypeOK
<1>3. \A b \in Cloud!Actors : ~rewrite[b].on /\ ~rewrite[b].cut
  BY <1>1 DEF CopyHolds, Cloud!Untouched
<1>4. \A b \in Cloud!Actors : rewrite'[b] = IF b = a THEN [cut |-> FALSE, copy |-> record \ {s}, on |-> TRUE]
                                            ELSE rewrite[b]
  BY DEF CloudInv, Cloud!TypeOK, Cloud!Reads
<1>5. OneWriter'
  BY <1>3, <1>4 DEF OneWriter
<1>6. CopyHolds'
  BY <1>1, <1>2, <1>3, <1>4 DEF CopyHolds
<1>7. Recorded'
  <2>1. SUFFICES ASSUME NEW t \in Starts
                 PROVE  /\ Cloud!Exists(t)' => t \in record \cup said \/ step'[t] = "made"
                        /\ t \in record \cup sweep'.forget => Made(t)'
                        /\ \A b \in Cloud!Actors : t \in rewrite'[b].copy => Made(t)'
                        /\ owner[t] \in alive /\ step'[t] = "noted" => Cloud!Exists(t)'
                        /\ owner[t] \in alive /\ step'[t] = "made" => Cloud!Exists(t)'
    BY DEF Recorded
  <2> QED
    BY <1>1, <1>3, <1>4 DEF Recorded
<1>8. SweepFits'
  BY <1>1, <1>2 DEF SweepFits
<1> QED
  BY <1>1, <1>5, <1>6, <1>7, <1>8 DEF KaggleInv

LEMMA KaggleOnward ==
  ASSUME CloudInv, provider = "kaggle", NEW s \in Starts,
         \/ Cloud!KaggleMakes(s) \/ Cloud!KaggleRuns(s) \/ Cloud!KaggleOpens(s) \/ Cloud!KaggleFails(s)
         \/ Cloud!KaggleStops(s) \/ Cloud!Reclaims(s) \/ Cloud!KeeperEnds(s)
  PROVE  KaggleInv'
<1>1. UNCHANGED <<provider, owner, alive, record, rewrite, sweep, helper, said>>
  BY DEF Cloud!KaggleMakes, Cloud!KaggleRuns, Cloud!KaggleOpens, Cloud!KaggleFails, Cloud!KaggleStops, Cloud!Reclaims,
         Cloud!KeeperEnds, Cloud!kaggleVars, Cloud!modalVars
<1>2. ASSUME NEW t \in Starts
      PROVE  /\ Cloud!Exists(t)' => Cloud!Exists(t) \/ (step[t] = "new" /\ step'[t] = "made")
             /\ Made(t) => Made(t)'
             /\ step[t] = "made" => step'[t] = "made"
             /\ owner[t] \in alive /\ step'[t] \in {"made", "noted"} => Cloud!Exists(t)'
  <2>1. step \in [Starts -> {"new", "asked", "made", "noted", "running", "open", "closing", "ended", "over"}]
        /\ machine \in [Starts -> {"none", "kept", "up", "gone"}]
    BY DEF CloudInv, Cloud!TypeOK
  <2>2. /\ owner[t] \in alive /\ step[t] \in {"made", "noted"} => Cloud!Exists(t)
        /\ owner[s] \in alive /\ step[s] \in {"made", "noted"} => Cloud!Exists(s)
    BY DEF CloudInv, KaggleInv, Recorded
  <2> QED
    BY <2>1, <2>2 DEF Made, Cloud!Exists, Cloud!KaggleMakes, Cloud!KaggleRuns, Cloud!KaggleOpens, Cloud!KaggleFails,
       Cloud!KaggleStops, Cloud!Reclaims, Cloud!KeeperEnds, Cloud!At, Cloud!Goes, Cloud!Becomes
<1> QED
  BY <1>1, <1>2, RecordLeft

LEMMA KaggleLooks ==
  ASSUME CloudInv, provider = "kaggle",
         \/ Cloud!SweepLooks \/ Cloud!ListLooks \/ Cloud!LoginChanges \/ Cloud!TimePasses
         \/ ~Overlaps /\ \E p \in Procs : Cloud!Dies(p)
  PROVE  KaggleInv'
<1>1. UNCHANGED <<provider, owner, step, machine, record, rewrite, helper, said>> /\ alive' \subseteq alive
  BY DEF Cloud!SweepLooks, Cloud!ListLooks, Cloud!LoginChanges, Cloud!TimePasses, Cloud!Dies, Cloud!kaggleVars,
         Cloud!modalVars
<1>2. \/ sweep' = sweep
      \/ /\ \A s \in sweep'.delete : owner[s] \notin alive'
         /\ \A s \in sweep'.forget : s \in Starts /\ ~Cloud!Exists(s)' /\ Made(s)'
  <2>1. /\ \A s \in sweep.delete : owner[s] \notin alive
        /\ \A s \in sweep.forget : ~Cloud!Exists(s) /\ s \in Starts /\ Made(s)
        /\ \A s \in record : s \in Starts /\ Made(s)
    BY DEF CloudInv, KaggleInv, SweepFits, Recorded, Cloud!TypeOK
  <2>2. sweep \in [delete : SUBSET Starts, forget : SUBSET Starts]
    BY DEF CloudInv, Cloud!TypeOK
  <2>3. CASE Cloud!SweepLooks
    <3>1. sweep'.delete = Cloud!Orphans /\ sweep'.forget = sweep.forget
      BY <2>2, <2>3 DEF Cloud!SweepLooks
    <3> QED
      BY <1>1, <2>1, <3>1 DEF Cloud!Orphans, Made, Cloud!Exists
  <2>4. CASE Cloud!ListLooks
    <3>1. sweep'.delete = sweep.delete /\ sweep'.forget = {s \in record : ~Cloud!Exists(s)}
      BY <2>2, <2>4 DEF Cloud!ListLooks
    <3> QED
      BY <1>1, <2>1, <3>1 DEF Made, Cloud!Exists
  <2> QED
    BY <2>3, <2>4 DEF Cloud!LoginChanges, Cloud!TimePasses, Cloud!Dies, Cloud!kaggleVars
<1>3. \A s \in Starts : /\ Cloud!Exists(s)' = Cloud!Exists(s) /\ Made(s)' = Made(s)
                        /\ owner[s] \in alive /\ step[s] \in {"made", "noted"} => Cloud!Exists(s)
  BY <1>1 DEF CloudInv, KaggleInv, Recorded, Cloud!Exists, Made
<1> QED
  BY <1>1, <1>2, <1>3, RecordLeft

LEMMA KaggleNotes ==
  ASSUME CloudInv, provider = "kaggle", ~Overlaps, NEW s \in Starts, Cloud!Note(s)
  PROVE  KaggleInv'
<1>1. OneWriter /\ CopyHolds /\ Recorded /\ SweepFits /\ \A p \in Procs : helper[p] = {}
  BY DEF CloudInv, KaggleInv
<1>2. /\ step[s] = "made" /\ owner[s] \in alive /\ owner[s] \in Cloud!Actors
      /\ record' = record \cup {s} /\ step' = [step EXCEPT ![s] = "noted"]
      /\ UNCHANGED <<provider, owner, alive, machine, rewrite, sweep, helper, said>>
      /\ \A a \in Cloud!Actors : ~rewrite[a].on
  BY CloudCLI DEF CloudInv, Cloud!TypeOK, Cloud!Note, Cloud!At, Cloud!Goes, Cloud!Untouched, Cloud!modalVars
<1>3. OneWriter' /\ CopyHolds' /\ SweepFits'
  BY <1>1, <1>2 DEF OneWriter, CopyHolds, SweepFits, Cloud!Exists
<1>4. Recorded'
  BY <1>1, <1>2 DEF CloudInv, Cloud!TypeOK, Recorded, Made, Cloud!Exists
<1> QED
  BY <1>1, <1>2, <1>3, <1>4 DEF KaggleInv

LEMMA KaggleCuts ==
  ASSUME CloudInv, provider = "kaggle", NEW a \in Cloud!Actors, Cloud!Cuts(a)
  PROVE  KaggleInv'
<1>1. OneWriter /\ CopyHolds /\ Recorded /\ SweepFits /\ \A p \in Procs : helper[p] = {}
  BY DEF CloudInv, KaggleInv
<1>2. /\ rewrite[a].on /\ ~rewrite[a].cut /\ record' = {}
      /\ UNCHANGED <<provider, owner, alive, step, machine, sweep, helper, said>>
      /\ rewrite \in [Cloud!Actors -> [cut : BOOLEAN, copy : SUBSET Starts, on : BOOLEAN]]
      /\ rewrite' = [rewrite EXCEPT ![a].cut = TRUE]
  BY DEF CloudInv, Cloud!TypeOK, Cloud!Cuts, Cloud!modalVars
<1>3. /\ \A b \in Cloud!Actors : b # a => rewrite'[b] = rewrite[b]
      /\ rewrite'[a].cut /\ rewrite'[a].on /\ rewrite'[a].copy = rewrite[a].copy
  BY <1>2
<1>4. \A b \in Cloud!Actors : ~rewrite[b].cut /\ (b # a => ~rewrite[b].on)
  BY <1>1, <1>2 DEF OneWriter, CopyHolds
<1>5. OneWriter' /\ CopyHolds' /\ SweepFits'
  BY <1>1, <1>2, <1>3, <1>4 DEF OneWriter, CopyHolds, SweepFits, Cloud!Exists
<1>6. Recorded'
  BY <1>1, <1>2, <1>3, <1>4 DEF Recorded, CopyHolds, Made, Cloud!Exists
<1> QED
  BY <1>1, <1>2, <1>5, <1>6 DEF KaggleInv

LEMMA KaggleWrites ==
  ASSUME CloudInv, provider = "kaggle", NEW a \in Cloud!Actors, Cloud!Writes(a)
  PROVE  KaggleInv'
<1>1. OneWriter /\ CopyHolds /\ Recorded /\ SweepFits /\ \A p \in Procs : helper[p] = {}
  BY DEF CloudInv, KaggleInv
<1>2. /\ rewrite[a].cut /\ rewrite[a].on /\ record' = rewrite[a].copy
      /\ UNCHANGED <<provider, owner, alive, step, machine, sweep, helper, said>>
      /\ rewrite' = [rewrite EXCEPT ![a] = Cloud!Idle] /\ DOMAIN rewrite = Cloud!Actors
      /\ record = {}
  BY <1>1 DEF CloudInv, Cloud!TypeOK, Cloud!Writes, Cloud!modalVars, CopyHolds
<1>3. \A b \in Cloud!Actors : ~rewrite'[b].cut /\ ~rewrite'[b].on /\ (b # a => ~rewrite[b].cut)
                              /\ rewrite'[b].copy \subseteq rewrite[b].copy
  BY <1>1, <1>2 DEF OneWriter, CopyHolds, Cloud!Idle
<1>4. OneWriter' /\ CopyHolds' /\ SweepFits'
  BY <1>1, <1>2, <1>3 DEF OneWriter, CopyHolds, SweepFits, Cloud!Exists
<1>5. Recorded'
  BY <1>1, <1>2, <1>3 DEF Recorded, Made, Cloud!Exists
<1> QED
  BY <1>1, <1>2, <1>4, <1>5 DEF KaggleInv

LEMMA KaggleDeletes ==
  ASSUME CloudInv, provider = "kaggle", ~Overlaps, NEW s \in Starts, Cloud!KaggleDeletes(s)
  PROVE  KaggleInv'
<1>1. /\ UNCHANGED <<provider, owner, alive, record, sweep, helper>> /\ step[s] = "closing" /\ owner[s] \in alive
      /\ step' = [step EXCEPT ![s] = "over"] /\ owner[s] \in Cloud!Actors
      /\ step \in [Starts -> {"new", "asked", "made", "noted", "running", "open", "closing", "ended", "over"}]
      /\ machine \in [Starts -> {"none", "kept", "up", "gone"}]
  BY CloudCLI DEF CloudInv, Cloud!TypeOK, Cloud!KaggleDeletes, Cloud!At, Cloud!Goes, Cloud!modalVars
<1>2. \A t \in Starts : owner[t] \in alive /\ step[t] \in {"made", "noted"} => Cloud!Exists(t)
  BY DEF CloudInv, KaggleInv, Recorded
<1>3. \A t \in Starts : /\ Made(t) => Made(t)'
                        /\ step[t] = "made" => step'[t] = "made"
                        /\ step'[t] \in {"made", "noted"} => t # s /\ step[t] \in {"made", "noted"}
  BY <1>1 DEF Made
<1>4. CASE /\ Cloud!Untouched(owner[s]) /\ ~rewrite[owner[s]].on
           /\ Cloud!Becomes(s, "gone") /\ Cloud!Reads(owner[s], s) /\ UNCHANGED said
  <2>1. machine' = [machine EXCEPT ![s] = "gone"]
    BY <1>4 DEF Cloud!Becomes
  <2>2. ~Cloud!Exists(s)' /\ \A t \in Starts : t # s => Cloud!Exists(t)' = Cloud!Exists(t)
    BY <1>1, <2>1 DEF Cloud!Exists
  <2>3. sweep'.delete \subseteq sweep.delete /\ sweep'.forget \subseteq sweep.forget
    BY <1>1
  <2> QED
    BY <1>1, <1>2, <1>3, <1>4, <2>2, <2>3, RecordRead
<1>5. CASE said' = said \cup {s} /\ UNCHANGED <<machine, rewrite>>
  <2>1. \A t \in Starts : Cloud!Exists(t)' = Cloud!Exists(t)
    BY <1>5 DEF Cloud!Exists
  <2> QED
    BY <1>1, <1>2, <1>3, <1>5, <2>1, RecordLeft
<1> QED
  BY <1>4, <1>5 DEF Cloud!KaggleDeletes

LEMMA KaggleSweeps ==
  ASSUME CloudInv, provider = "kaggle", ~Overlaps, NEW s \in Starts, Cloud!SweepDeletes(s)
  PROVE  KaggleInv'
<1>1. /\ UNCHANGED <<provider, owner, alive, step, record, helper, said>>
      /\ s \in sweep.delete /\ machine \in [Starts -> {"none", "kept", "up", "gone"}]
      /\ sweep \in [delete : SUBSET Starts, forget : SUBSET Starts]
      /\ sweep' = [sweep EXCEPT !.delete = sweep.delete \ {s}]
  BY DEF CloudInv, Cloud!TypeOK, Cloud!SweepDeletes, Cloud!modalVars
<1>2. sweep'.delete \subseteq sweep.delete /\ sweep'.forget = sweep.forget
  BY <1>1
<1>3. /\ \A t \in Starts : owner[t] \in alive /\ step[t] \in {"made", "noted"} => Cloud!Exists(t)
      /\ \A t \in sweep.delete : owner[t] \notin alive
      /\ \A t \in sweep.forget : t \in Starts /\ ~Cloud!Exists(t) /\ Made(t)
  BY <1>1 DEF CloudInv, KaggleInv, Recorded, SweepFits
<1>4. \A t \in Starts : Made(t) = Made(t)'
  BY <1>1 DEF Made
<1>5. CASE ~rewrite[Cloud!CLI].on /\ Cloud!Untouched(Cloud!CLI) /\ Cloud!Becomes(s, "gone") /\ Cloud!Reads(Cloud!CLI, s)
  <2>1. machine' = [machine EXCEPT ![s] = "gone"]
    BY <1>5 DEF Cloud!Becomes
  <2>2. ~Cloud!Exists(s)' /\ \A t \in Starts : t # s => Cloud!Exists(t)' = Cloud!Exists(t)
    BY <1>1, <2>1 DEF Cloud!Exists
  <2>3. \A t \in Starts : owner[t] \in alive /\ step'[t] \in {"made", "noted"} => Cloud!Exists(t)'
    BY <1>1, <1>3, <2>2
  <2> QED
    BY <1>1, <1>2, <1>4, <1>5, <2>2, <2>3, CloudCLI, RecordRead
<1>6. CASE UNCHANGED <<machine, rewrite>>
  <2>1. \A t \in Starts : Cloud!Exists(t)' = Cloud!Exists(t)
    BY <1>6 DEF Cloud!Exists
  <2>2. \A t \in sweep'.delete : owner[t] \notin alive'
    BY <1>1, <1>2, <1>3
  <2>3. \A t \in sweep'.forget : t \in Starts /\ ~Cloud!Exists(t)' /\ Made(t)'
    BY <1>2, <1>3, <1>4, <2>1
  <2> QED
    BY <1>1, <1>3, <1>4, <1>6, <2>1, <2>2, <2>3, RecordLeft
<1> QED
  BY <1>5, <1>6 DEF Cloud!SweepDeletes

LEMMA KaggleForgets ==
  ASSUME CloudInv, provider = "kaggle", ~Overlaps, NEW s \in Starts, Cloud!ListForgets(s)
  PROVE  KaggleInv'
<1>1. /\ UNCHANGED <<provider, owner, alive, step, machine, record, helper, said>> /\ s \in sweep.forget
      /\ ~rewrite[Cloud!CLI].on /\ Cloud!Untouched(Cloud!CLI) /\ Cloud!Reads(Cloud!CLI, s)
      /\ sweep \in [delete : SUBSET Starts, forget : SUBSET Starts]
      /\ sweep' = [sweep EXCEPT !.forget = sweep.forget \ {s}]
  BY DEF CloudInv, Cloud!TypeOK, Cloud!ListForgets, Cloud!modalVars
<1>2. sweep'.delete \subseteq sweep.delete /\ sweep'.forget \subseteq sweep.forget
  BY <1>1
<1>3. \A t \in Starts : owner[t] \in alive /\ step[t] \in {"made", "noted"} => Cloud!Exists(t)
  BY DEF CloudInv, KaggleInv, Recorded
<1>4. ~Cloud!Exists(s)
  BY <1>1 DEF CloudInv, KaggleInv, SweepFits
<1>5. \A t \in Starts : Cloud!Exists(t)' = Cloud!Exists(t) /\ Made(t)' = Made(t)
  BY <1>1 DEF Cloud!Exists, Made
<1> QED
  BY <1>1, <1>2, <1>3, <1>4, <1>5, CloudCLI, RecordRead

LEMMA CloudStep ==
  ASSUME ~Overlaps, CloudInv, [Cloud!Next]_cloudVars
  PROVE  CloudInv'
<1>1. CASE UNCHANGED cloudVars
  BY <1>1 DEF cloudVars, CloudInv, KaggleInv, Cloud!TypeOK, OneWriter, CopyHolds, Recorded, Made, SweepFits,
              Cloud!Exists
<1>2. CASE Cloud!Next
  <2>1. Cloud!TypeOK
    BY DEF CloudInv
  <2>2. Cloud!TypeOK'
    BY <1>2, <2>1, KaggleStartTypes, KaggleDeleteTypes, SweepTypes, ForgetTypes, LookTypes, WriteTypes, ColabTypes,
       ModalAskTypes, ModalMakeTypes, ProcessTypes DEF Cloud!Next
  <2>3. provider' = provider
    BY <1>2 DEF Cloud!Next, Cloud!Note, Cloud!KaggleMakes, Cloud!KaggleRuns, Cloud!KaggleOpens, Cloud!KaggleFails,
                Cloud!KaggleStops, Cloud!KaggleDeletes, Cloud!SweepDeletes, Cloud!ListForgets, Cloud!ColabMakes,
                Cloud!ColabKeeps, Cloud!ColabStops, Cloud!KeeperEnds, Cloud!ModalAsks, Cloud!ModalMakes,
                Cloud!ModalInterrupted, Cloud!ModalStops, Cloud!Reclaims, Cloud!SweepLooks, Cloud!ListLooks,
                Cloud!LoginChanges, Cloud!TimePasses, Cloud!Cuts, Cloud!Writes, Cloud!ModalAborts, Cloud!HelperEnds,
                Cloud!Dies
  <2>4. CASE provider = "kaggle"
    <3>1. ASSUME NEW s \in Starts
          PROVE  /\ ~Cloud!ColabMakes(s) /\ ~Cloud!ColabKeeps(s) /\ ~Cloud!ColabStops(s)
                 /\ ~Cloud!ModalAsks(s) /\ ~Cloud!ModalMakes(s) /\ ~Cloud!ModalInterrupted(s) /\ ~Cloud!ModalStops(s)
      BY <2>4 DEF Cloud!ColabMakes, Cloud!ColabKeeps, Cloud!ColabStops, Cloud!ModalAsks, Cloud!ModalMakes,
                  Cloud!ModalInterrupted, Cloud!ModalStops, Cloud!At
    <3>2. ASSUME NEW p \in Procs PROVE ~Cloud!ModalAborts(p) /\ ~Cloud!HelperEnds(p)
      BY <2>4 DEF CloudInv, KaggleInv, Cloud!ModalAborts, Cloud!HelperEnds
    <3>3. KaggleInv'
      BY <1>2, <2>4, <3>1, <3>2, KaggleNotes, KaggleOnward, KaggleDeletes, KaggleSweeps, KaggleForgets, KaggleLooks,
         KaggleCuts, KaggleWrites DEF Cloud!Next
    <3> QED
      BY <2>2, <3>3 DEF CloudInv
  <2>5. CASE provider # "kaggle"
    BY <2>2, <2>3, <2>5 DEF CloudInv, KaggleInv
  <2> QED
    BY <2>4, <2>5
<1> QED
  BY <1>1, <1>2

LEMMA CloudInitially == Cloud!Init => CloudInv
<1> SUFFICES ASSUME Cloud!Init PROVE CloudInv
  OBVIOUS
<1>1. Cloud!Idle \in [cut : BOOLEAN, copy : SUBSET Starts, on : BOOLEAN]
  BY DEF Cloud!Idle
<1>2. Cloud!TypeOK
  BY <1>1 DEF Cloud!Init, Cloud!TypeOK
<1>3. \A a \in Cloud!Actors : ~rewrite[a].on /\ ~rewrite[a].cut /\ rewrite[a].copy = {}
  BY DEF Cloud!Init, Cloud!Idle
<1>4. KaggleInv
  BY <1>3 DEF Cloud!Init, KaggleInv, OneWriter, CopyHolds, Recorded, Made, SweepFits, Cloud!Exists
<1> QED
  BY <1>2, <1>4 DEF CloudInv

-----------------------------------------------------------------------------
(* The shared machine. *)

\* The shared machine: one start or stop is at work at a time, and the machine is counted for
\* each session from the time it is reached.
Works(u) == user[u] \in Elice!Working
Counted == {u \in Users : user[u] \in {"live", "lost", "booting"} \/ (user[u] = "releasing" /\ pending)}
OneWorks == \A u, v \in Users : Works(u) /\ Works(v) => u = v
FlagsFit ==
  \A u \in Users : /\ user[u] \in {"finding", "launching", "starting", "reached"} => ~pending
                   /\ user[u] = "booting" => pending
                   /\ user[u] \in {"launching", "starting"} => starting
                   /\ user[u] = "launching" => vm = "none"
                   /\ user[u] \in {"live", "lost"} => mine[u]
                   /\ user[u] = "ending" => holders = 0

\* Whoever will see to the machine: a session on it, or the start or stop at work.
Responsible(u) ==
  \/ user[u] \in {"live", "lost", "booting", "starting", "ending"}
  \/ user[u] \in {"reached", "releasing"} /\ (starting \/ pending)
SeenTo == vm = "started" /\ ours /\ ~told /\ ~preempted => \E u \in Users : Responsible(u)

EliceInv == Elice!TypeOK /\ OneWorks /\ FlagsFit /\ holders = Cardinality(Counted) /\ SeenTo

-----------------------------------------------------------------------------
\* What is counted, and how the count changes by one.
LEMMA CountBound ==
  ASSUME IsFiniteSet(Users), NEW S \in SUBSET Users
  PROVE  IsFiniteSet(S) /\ Cardinality(S) \in 0 .. Cardinality(Users) /\ (Cardinality(S) = 0 <=> S = {})
<1>1. IsFiniteSet(S) /\ Cardinality(S) <= Cardinality(Users)
  BY FS_Subset
<1>2. Cardinality(S) \in Nat /\ Cardinality(Users) \in Nat
  BY <1>1, FS_CardinalityType
<1>3. Cardinality(S) = 0 <=> S = {}
  BY <1>1, FS_EmptySet
<1> QED
  BY <1>1, <1>2, <1>3

LEMMA CountedIn == Counted \in SUBSET Users /\ Counted' \in SUBSET Users
BY DEF Counted

\* The instance has the operators of FiniteSets under names of its own.
LEMMA SameCount == Elice!Cardinality(Users) = Cardinality(Users)
BY DEF Elice!Cardinality, Cardinality

LEMMA OneMore ==
  ASSUME IsFiniteSet(Users), NEW u \in Users, u \notin Counted, Counted' = Counted \cup {u}
  PROVE  Cardinality(Counted') = Cardinality(Counted) + 1
BY CountBound, CountedIn, FS_AddElement

LEMMA OneLess ==
  ASSUME IsFiniteSet(Users), NEW u \in Users, u \in Counted, Counted' = Counted \ {u}
  PROVE  Cardinality(Counted') = Cardinality(Counted) - 1
BY CountBound, CountedIn, FS_RemoveElement

LEMMA MachineBegins ==
  ASSUME IsFiniteSet(Users), Serial, EliceInv, NEW u \in Users, Elice!Begins(u)
  PROVE  EliceInv'
<1> USE DEF EliceInv, Elice!TypeOK, OneWorks, FlagsFit, Works, Elice!Working, Elice!Begins, Elice!Alone, Elice!Goes,
            Elice!account, Elice!shared
<1>1. OneWorks' /\ FlagsFit'
  OBVIOUS
<1>2. Counted' = Counted /\ holders' = holders
  BY DEF Counted
<1>3. holders' = Cardinality(Counted')
  BY <1>2
<1>4. Elice!TypeOK'
  <2>1. holders' \in 0 .. Cardinality(Users)
    BY <1>3, CountBound, CountedIn
  <2>2. {spot, declared, persistent, ours, starting, pending, stopped, preempted, told}' \subseteq BOOLEAN
    OBVIOUS
  <2>3. vm' \in {"none", "idle", "started"} /\ mine' \in [Users -> BOOLEAN]
    OBVIOUS
  <2>4. user' \in [Users -> Elice!Working \cup {"out", "live", "lost"}]
    OBVIOUS
  <2> QED
    BY <2>1, <2>2, <2>3, <2>4, SameCount
<1>5. SeenTo'
  BY DEF SeenTo, Responsible
<1> QED
  BY <1>1, <1>3, <1>4, <1>5

LEMMA MachineFound ==
  ASSUME IsFiniteSet(Users), Serial, EliceInv, NEW u \in Users, Elice!Finds(u)
  PROVE  EliceInv'
<1> USE DEF EliceInv, Elice!TypeOK, OneWorks, FlagsFit, Works, Elice!Working, Elice!Finds, Elice!Goes, Elice!account,
            Elice!shared
<1>1. OneWorks' /\ FlagsFit'
  OBVIOUS
<1>2. Counted' = Counted /\ holders' = holders
  BY DEF Counted
<1>3. holders' = Cardinality(Counted')
  BY <1>2
<1>4. Elice!TypeOK'
  <2>1. holders' \in 0 .. Cardinality(Users)
    BY <1>3, CountBound, CountedIn
  <2>2. {spot, declared, persistent, ours, starting, pending, stopped, preempted, told}' \subseteq BOOLEAN
    OBVIOUS
  <2>3. vm' \in {"none", "idle", "started"} /\ mine' \in [Users -> BOOLEAN]
    OBVIOUS
  <2>4. user' \in [Users -> Elice!Working \cup {"out", "live", "lost"}]
    OBVIOUS
  <2> QED
    BY <2>1, <2>2, <2>3, <2>4, SameCount
<1>5. SeenTo'
  BY DEF SeenTo, Responsible
<1> QED
  BY <1>1, <1>3, <1>4, <1>5

LEMMA MachineRefused ==
  ASSUME IsFiniteSet(Users), Serial, EliceInv, NEW u \in Users, Elice!Refuses(u)
  PROVE  EliceInv'
<1> USE DEF EliceInv, Elice!TypeOK, OneWorks, FlagsFit, Works, Elice!Working, Elice!Refuses, Elice!Goes,
            Elice!account, Elice!shared
<1>1. OneWorks' /\ FlagsFit'
  OBVIOUS
<1>2. Counted' = Counted /\ holders' = holders
  BY DEF Counted
<1>3. holders' = Cardinality(Counted')
  BY <1>2
<1>4. Elice!TypeOK'
  <2>1. holders' \in 0 .. Cardinality(Users)
    BY <1>3, CountBound, CountedIn
  <2>2. {spot, declared, persistent, ours, starting, pending, stopped, preempted, told}' \subseteq BOOLEAN
    OBVIOUS
  <2>3. vm' \in {"none", "idle", "started"} /\ mine' \in [Users -> BOOLEAN]
    OBVIOUS
  <2>4. user' \in [Users -> Elice!Working \cup {"out", "live", "lost"}]
    OBVIOUS
  <2> QED
    BY <2>1, <2>2, <2>3, <2>4, SameCount
<1>5. SeenTo'
  BY DEF SeenTo, Responsible
<1> QED
  BY <1>1, <1>3, <1>4, <1>5

LEMMA MachineLaunched ==
  ASSUME IsFiniteSet(Users), Serial, EliceInv, NEW u \in Users, Elice!Launches(u)
  PROVE  EliceInv'
<1> USE DEF EliceInv, Elice!TypeOK, OneWorks, FlagsFit, Works, Elice!Working, Elice!Launches, Elice!Goes,
            Elice!account, Elice!shared
<1>1. OneWorks' /\ FlagsFit'
  OBVIOUS
<1>2. Counted' = Counted /\ holders' = holders
  BY DEF Counted
<1>3. holders' = Cardinality(Counted')
  BY <1>2
<1>4. Elice!TypeOK'
  <2>1. holders' \in 0 .. Cardinality(Users)
    BY <1>3, CountBound, CountedIn
  <2>2. {spot, declared, persistent, ours, starting, pending, stopped, preempted, told}' \subseteq BOOLEAN
    OBVIOUS
  <2>3. vm' \in {"none", "idle", "started"} /\ mine' \in [Users -> BOOLEAN]
    OBVIOUS
  <2>4. user' \in [Users -> Elice!Working \cup {"out", "live", "lost"}]
    OBVIOUS
  <2> QED
    BY <2>1, <2>2, <2>3, <2>4, SameCount
<1>5. SeenTo'
  BY DEF SeenTo, Responsible
<1> QED
  BY <1>1, <1>3, <1>4, <1>5

LEMMA MachineStarted ==
  ASSUME IsFiniteSet(Users), Serial, EliceInv, NEW u \in Users, Elice!StartsUp(u)
  PROVE  EliceInv'
<1> USE DEF EliceInv, Elice!TypeOK, OneWorks, FlagsFit, Works, Elice!Working, Elice!StartsUp, Elice!Goes,
            Elice!account, Elice!shared
<1>1. OneWorks' /\ FlagsFit'
  OBVIOUS
<1>2. Counted' = Counted /\ holders' = holders
  BY DEF Counted
<1>3. holders' = Cardinality(Counted')
  BY <1>2
<1>4. Elice!TypeOK'
  <2>1. holders' \in 0 .. Cardinality(Users)
    BY <1>3, CountBound, CountedIn
  <2>2. {spot, declared, persistent, ours, starting, pending, stopped, preempted, told}' \subseteq BOOLEAN
    OBVIOUS
  <2>3. vm' \in {"none", "idle", "started"} /\ mine' \in [Users -> BOOLEAN]
    OBVIOUS
  <2>4. user' \in [Users -> Elice!Working \cup {"out", "live", "lost"}]
    OBVIOUS
  <2> QED
    BY <2>1, <2>2, <2>3, <2>4, SameCount
<1>5. SeenTo'
  BY DEF SeenTo, Responsible
<1> QED
  BY <1>1, <1>3, <1>4, <1>5

LEMMA MachineBooted ==
  ASSUME IsFiniteSet(Users), Serial, EliceInv, NEW u \in Users, Elice!Boots(u)
  PROVE  EliceInv'
<1> USE DEF EliceInv, Elice!TypeOK, OneWorks, FlagsFit, Works, Elice!Working, Elice!Boots, Elice!Goes, Elice!account,
            Elice!shared
<1>1. OneWorks' /\ FlagsFit'
  OBVIOUS
<1>2. Counted' = Counted /\ holders' = holders
  BY DEF Counted
<1>3. holders' = Cardinality(Counted')
  BY <1>2
<1>4. Elice!TypeOK'
  <2>1. holders' \in 0 .. Cardinality(Users)
    BY <1>3, CountBound, CountedIn
  <2>2. {spot, declared, persistent, ours, starting, pending, stopped, preempted, told}' \subseteq BOOLEAN
    OBVIOUS
  <2>3. vm' \in {"none", "idle", "started"} /\ mine' \in [Users -> BOOLEAN]
    OBVIOUS
  <2>4. user' \in [Users -> Elice!Working \cup {"out", "live", "lost"}]
    OBVIOUS
  <2> QED
    BY <2>1, <2>2, <2>3, <2>4, SameCount
<1>5. SeenTo'
  BY DEF SeenTo, Responsible
<1> QED
  BY <1>1, <1>3, <1>4, <1>5

LEMMA MachineBroken ==
  ASSUME IsFiniteSet(Users), Serial, EliceInv, NEW u \in Users, Elice!Breaks(u)
  PROVE  EliceInv'
<1> USE DEF EliceInv, Elice!TypeOK, OneWorks, FlagsFit, Works, Elice!Working, Elice!Breaks, Elice!Goes,
            Elice!account, Elice!shared
<1>1. OneWorks' /\ FlagsFit'
  OBVIOUS
<1>2. Counted' = Counted /\ holders' = holders
  BY DEF Counted
<1>3. holders' = Cardinality(Counted')
  BY <1>2
<1>4. Elice!TypeOK'
  <2>1. holders' \in 0 .. Cardinality(Users)
    BY <1>3, CountBound, CountedIn
  <2>2. {spot, declared, persistent, ours, starting, pending, stopped, preempted, told}' \subseteq BOOLEAN
    OBVIOUS
  <2>3. vm' \in {"none", "idle", "started"} /\ mine' \in [Users -> BOOLEAN]
    OBVIOUS
  <2>4. user' \in [Users -> Elice!Working \cup {"out", "live", "lost"}]
    OBVIOUS
  <2> QED
    BY <2>1, <2>2, <2>3, <2>4, SameCount
<1>5. SeenTo'
  BY DEF SeenTo, Responsible
<1> QED
  BY <1>1, <1>3, <1>4, <1>5

LEMMA MachineEnded ==
  ASSUME IsFiniteSet(Users), Serial, EliceInv, NEW u \in Users, Elice!EndsMachine(u)
  PROVE  EliceInv'
<1> USE DEF EliceInv, Elice!TypeOK, OneWorks, FlagsFit, Works, Elice!Working, Elice!EndsMachine, Elice!Goes,
            Elice!account, Elice!shared
<1>1. OneWorks' /\ FlagsFit'
  OBVIOUS
<1>2. Counted' = Counted /\ holders' = holders
  BY DEF Counted
<1>3. holders' = Cardinality(Counted')
  BY <1>2
<1>4. Elice!TypeOK'
  <2>1. holders' \in 0 .. Cardinality(Users)
    BY <1>3, CountBound, CountedIn
  <2>2. {spot, declared, persistent, ours, starting, pending, stopped, preempted, told}' \subseteq BOOLEAN
    OBVIOUS
  <2>3. vm' \in {"none", "idle", "started"} /\ mine' \in [Users -> BOOLEAN]
    OBVIOUS
  <2>4. user' \in [Users -> Elice!Working \cup {"out", "live", "lost"}]
    OBVIOUS
  <2> QED
    BY <2>1, <2>2, <2>3, <2>4, SameCount
<1>5. SeenTo'
  BY DEF SeenTo, Responsible
<1> QED
  BY <1>1, <1>3, <1>4, <1>5

LEMMA MachineDiagnosed ==
  ASSUME IsFiniteSet(Users), Serial, EliceInv, NEW u \in Users, Elice!Diagnoses(u)
  PROVE  EliceInv'
<1> USE DEF EliceInv, Elice!TypeOK, OneWorks, FlagsFit, Works, Elice!Working, Elice!Diagnoses, Elice!Goes,
            Elice!account, Elice!shared
<1>1. OneWorks' /\ FlagsFit'
  OBVIOUS
<1>2. Counted' = Counted /\ holders' = holders
  BY DEF Counted
<1>3. holders' = Cardinality(Counted')
  BY <1>2
<1>4. Elice!TypeOK'
  <2>1. holders' \in 0 .. Cardinality(Users)
    BY <1>3, CountBound, CountedIn
  <2>2. {spot, declared, persistent, ours, starting, pending, stopped, preempted, told}' \subseteq BOOLEAN
    OBVIOUS
  <2>3. vm' \in {"none", "idle", "started"} /\ mine' \in [Users -> BOOLEAN]
    OBVIOUS
  <2>4. user' \in [Users -> Elice!Working \cup {"out", "live", "lost"}]
    OBVIOUS
  <2> QED
    BY <2>1, <2>2, <2>3, <2>4, SameCount
<1>5. SeenTo'
  BY DEF SeenTo, Responsible
<1> QED
  BY <1>1, <1>3, <1>4, <1>5

LEMMA MachineCounted ==
  ASSUME IsFiniteSet(Users), Serial, EliceInv, NEW u \in Users, Elice!Counts(u)
  PROVE  EliceInv'
<1> USE DEF EliceInv, Elice!TypeOK, OneWorks, FlagsFit, Works, Elice!Working, Elice!Counts, Elice!Goes,
            Elice!account, Elice!shared
<1>1. OneWorks' /\ FlagsFit'
  OBVIOUS
<1>2. u \notin Counted /\ Counted' = Counted \cup {u} /\ holders' = holders + 1
  BY DEF Counted
<1>3. holders' = Cardinality(Counted')
  BY <1>2, OneMore
<1>4. Elice!TypeOK'
  <2>1. holders' \in 0 .. Cardinality(Users)
    BY <1>3, CountBound, CountedIn
  <2>2. {spot, declared, persistent, ours, starting, pending, stopped, preempted, told}' \subseteq BOOLEAN
    OBVIOUS
  <2>3. vm' \in {"none", "idle", "started"} /\ mine' \in [Users -> BOOLEAN]
    OBVIOUS
  <2>4. user' \in [Users -> Elice!Working \cup {"out", "live", "lost"}]
    OBVIOUS
  <2> QED
    BY <2>1, <2>2, <2>3, <2>4, SameCount
<1>5. SeenTo'
  BY DEF SeenTo, Responsible
<1> QED
  BY <1>1, <1>3, <1>4, <1>5

\* A stop takes its session off the count; the last one goes on to end the machine.
LEMMA MachineStopped ==
  ASSUME IsFiniteSet(Users), Serial, EliceInv, NEW u \in Users, Elice!Stops(u)
  PROVE  EliceInv'
<1> USE DEF EliceInv, Elice!TypeOK, Elice!Working, Elice!Stops, Elice!Goes, Elice!account, Elice!shared
<1>1. u \in Counted /\ mine[u] /\ Counted' = Counted \ {u}
  BY DEF OneWorks, FlagsFit, Works, Counted, Elice!Alone
<1>2. holders > 0 /\ holders' = holders - 1
  <2>1. holders # 0
    BY <1>1, CountBound, CountedIn
  <2> QED
    BY <1>1, <2>1
<1>3. holders' = Cardinality(Counted')
  BY <1>1, <1>2, OneLess
<1>4. Elice!TypeOK'
  <2>1. holders' \in 0 .. Cardinality(Users)
    BY <1>3, CountBound, CountedIn
  <2>2. {spot, declared, persistent, ours, starting, pending, stopped, preempted, told}' \subseteq BOOLEAN
    OBVIOUS
  <2>3. vm' \in {"none", "idle", "started"} /\ mine' \in [Users -> BOOLEAN]
    OBVIOUS
  <2>4. user' \in [Users -> Elice!Working \cup {"out", "live", "lost"}]
    OBVIOUS
  <2> QED
    BY <2>1, <2>2, <2>3, <2>4, SameCount
<1>5. OneWorks' /\ FlagsFit'
  BY <1>1 DEF OneWorks, FlagsFit, Works, Elice!Alone
<1>6. SeenTo'
  <2>1. CASE holders' = 0
    BY <1>1, <2>1 DEF SeenTo, Responsible
  <2>2. CASE holders' # 0
    <3>1. PICK v \in Users : v \in Counted'
      BY <1>3, <2>2, CountBound, CountedIn
    <3>2. Responsible(v)'
      BY <3>1 DEF Counted, Responsible
    <3> QED
      BY <3>2 DEF SeenTo
  <2> QED
    BY <2>1, <2>2
<1> QED
  BY <1>3, <1>4, <1>5, <1>6

\* A start that failed is off the count, and ends the machine it stands for unless it is held.
LEMMA MachineReleased ==
  ASSUME IsFiniteSet(Users), Serial, EliceInv, NEW u \in Users, Elice!Releases(u)
  PROVE  EliceInv'
<1> USE DEF Counted, Elice!Releases, Elice!Goes, EliceInv, Elice!TypeOK, OneWorks, Works, Elice!Working,
            Elice!account, Elice!shared, Responsible, SeenTo
<1>1. /\ user[u] = "releasing" /\ (u \in Counted <=> pending) /\ pending' = pending
      /\ user' = [user EXCEPT ![u] = IF (pending \/ starting) /\ holders' = 0 THEN "ending" ELSE "out"]
      /\ holders' = IF pending /\ holders > 0 THEN holders - 1 ELSE holders
  OBVIOUS
<1>2. Counted' = Counted \ {u}
  BY <1>1
<1>3. holders' = Cardinality(Counted')
  <2>1. CASE pending
    <3>1. holders # 0 /\ holders \in Nat
      BY <1>1, <2>1, CountBound, CountedIn
    <3> QED
      BY <1>1, <1>2, <2>1, <3>1, OneLess
  <2>2. CASE ~pending
    BY <1>1, <1>2, <2>2
  <2> QED
    BY <2>1, <2>2
<1>4. Elice!TypeOK'
  <2>1. holders' \in 0 .. Cardinality(Users)
    BY <1>3, CountBound, CountedIn
  <2>2. {spot, declared, persistent, ours, starting, pending, stopped, preempted, told}' \subseteq BOOLEAN
    OBVIOUS
  <2>3. vm' \in {"none", "idle", "started"} /\ mine' \in [Users -> BOOLEAN]
    OBVIOUS
  <2>4. user' \in [Users -> Elice!Working \cup {"out", "live", "lost"}]
    OBVIOUS
  <2> QED
    BY <2>1, <2>2, <2>3, <2>4, SameCount
<1>5. OneWorks' /\ FlagsFit'
  BY <1>1 DEF FlagsFit
<1>6. SeenTo'
  <2>1. CASE holders' # 0
    <3>1. PICK v \in Users : v \in Counted'
      BY <1>3, <2>1, CountBound, CountedIn
    <3>2. Responsible(v)'
      BY <3>1
    <3> QED
      BY <3>2
  <2>2. CASE holders' = 0 /\ (pending \/ starting)
    BY <1>1, <2>2
  <2>3. CASE ~pending /\ ~starting
    BY <1>1, <2>3
  <2> QED
    BY <2>1, <2>2, <2>3
<1> QED
  BY <1>3, <1>4, <1>5, <1>6

LEMMA MachineTakenBack ==
  ASSUME EliceInv, Elice!Preempts
  PROVE  EliceInv'
BY DEF EliceInv, Elice!TypeOK, OneWorks, FlagsFit, Works, Elice!Working, Counted, SeenTo, Responsible, Elice!Preempts,
       Elice!account, Elice!shared

LEMMA EliceStep ==
  ASSUME IsFiniteSet(Users), Serial, EliceInv, [Elice!Next]_eliceVars
  PROVE  EliceInv'
<1>1. CASE UNCHANGED eliceVars
  BY <1>1 DEF EliceInv, Elice!TypeOK, OneWorks, FlagsFit, Works, Elice!Working, Counted, SeenTo, Responsible, eliceVars
<1> QED
  BY <1>1, MachineBegins, MachineFound, MachineRefused, MachineLaunched, MachineStarted, MachineCounted, MachineBooted,
     MachineBroken, MachineReleased, MachineStopped, MachineEnded, MachineDiagnosed, MachineTakenBack DEF Elice!Next

LEMMA EliceInitially == IsFiniteSet(Users) /\ Elice!Init => EliceInv
<1> SUFFICES ASSUME IsFiniteSet(Users), Elice!Init PROVE EliceInv
  OBVIOUS
<1>1. Counted = {}
  BY DEF Elice!Init, Counted
<1>2. Cardinality(Counted) = 0 /\ holders \in 0 .. Cardinality(Users)
  BY <1>1, CountBound, CountedIn DEF Elice!Init
<1>3. Elice!TypeOK
  BY <1>2, SameCount DEF Elice!Init, Elice!TypeOK
<1> QED
  BY <1>2, <1>3 DEF EliceInv, OneWorks, FlagsFit, Works, Elice!Working, SeenTo, Elice!Init

-----------------------------------------------------------------------------
(* What a session leaves behind. *)

LEMMA PlacesInitially == IsFiniteSet(Users) /\ MCInit => CloudInv /\ EliceInv
BY CloudInitially, EliceInitially DEF MCInit

LEMMA PlacesStep ==
  ASSUME IsFiniteSet(Users), Serial, ~Overlaps, CloudInv, EliceInv, [MCNext]_<<part, vars, linkVars, placeVars>>
  PROVE  CloudInv' /\ EliceInv'
<1>1. [Cloud!Next]_cloudVars /\ [Elice!Next]_eliceVars
  BY DEF MCNext, placeVars
<1> QED
  BY <1>1, CloudStep, EliceStep

\* Where one process at a time rewrites Kaggle's record and the starts and stops of one Elice
\* account come one at a time, a notebook whose process is gone is in the record or was told to
\* the user, and the shared machine does not run on when nobody uses it: whichever requests fail
\* and whichever processes die (kaggle.py: record_notebook, forget_ref; elice.py: stop,
\* _release_failed_start).
THEOREM MachinesCorrect == IsFiniteSet(Users) /\ Serial /\ ~Overlaps => (MCSpec => []MachinesFound)
<1> SUFFICES ASSUME IsFiniteSet(Users), Serial, ~Overlaps PROVE MCSpec => []MachinesFound
  OBVIOUS
<1>1. MCInit => CloudInv /\ EliceInv
  BY PlacesInitially
<1>2. (CloudInv /\ EliceInv) /\ [MCNext]_<<part, vars, linkVars, placeVars>> => (CloudInv /\ EliceInv)'
  BY PlacesStep
<1>3. CloudInv /\ EliceInv => MachinesFound
  <2> SUFFICES ASSUME CloudInv, EliceInv PROVE MachinesFound
    OBVIOUS
  <2>1. Cloud!Findable
    BY DEF CloudInv, KaggleInv, Recorded, Cloud!Findable
  <2>2. Elice!NothingLeftRunning
    BY DEF EliceInv, SeenTo, Responsible, Elice!NothingLeftRunning
  <2> QED
    BY <2>1, <2>2 DEF CloudInv, EliceInv, MachinesFound
<1> QED
  BY <1>1, <1>2, <1>3, PTL DEF MCSpec

LEMMA SweepsOwnerless ==
  ASSUME CloudInv, [Cloud!Next]_cloudVars, NEW s \in Starts, provider = "kaggle", Cloud!Exists(s), machine'[s] = "gone"
  PROVE  step[s] = "closing" \/ owner[s] \notin alive
<1>1. machine \in [Starts -> {"none", "kept", "up", "gone"}] /\ machine[s] # "gone"
  BY DEF CloudInv, Cloud!TypeOK, Cloud!Exists
<1>2. machine' # machine
  BY <1>1
<1>3. Cloud!Next
  BY <1>2 DEF cloudVars
<1>4. ASSUME NEW t \in Starts, Cloud!KaggleDeletes(t)
      PROVE  step[s] = "closing"
  <2>1. t = s
    BY <1>1, <1>4 DEF Cloud!KaggleDeletes, Cloud!Becomes
  <2> QED
    BY <1>4, <2>1 DEF Cloud!KaggleDeletes, Cloud!At
<1>5. ASSUME NEW t \in Starts, Cloud!SweepDeletes(t)
      PROVE  owner[s] \notin alive
  <2>1. t = s
    BY <1>1, <1>5 DEF Cloud!SweepDeletes, Cloud!Becomes
  <2> QED
    BY <1>5, <2>1 DEF Cloud!SweepDeletes, CloudInv, KaggleInv, SweepFits
<1>6. ASSUME NEW t \in Starts
      PROVE  /\ ~Cloud!ColabMakes(t) /\ ~Cloud!ColabKeeps(t) /\ ~Cloud!ColabStops(t)
             /\ ~Cloud!ModalMakes(t) /\ ~Cloud!ModalInterrupted(t) /\ ~Cloud!ModalStops(t)
             /\ ~Cloud!KaggleMakes(t) /\ ~Cloud!KaggleRuns(t) /\ ~Cloud!KaggleStops(t) /\ ~Cloud!Reclaims(t)
  <2>1. /\ ~Cloud!ColabMakes(t) /\ ~Cloud!ColabKeeps(t) /\ ~Cloud!ColabStops(t)
        /\ ~Cloud!ModalMakes(t) /\ ~Cloud!ModalInterrupted(t) /\ ~Cloud!ModalStops(t)
    BY DEF Cloud!ColabMakes, Cloud!ColabKeeps, Cloud!ColabStops, Cloud!ModalMakes,
           Cloud!ModalInterrupted, Cloud!ModalStops, Cloud!At
  <2>2. ~Cloud!KaggleMakes(t) /\ ~Cloud!KaggleRuns(t) /\ ~Cloud!KaggleStops(t) /\ ~Cloud!Reclaims(t)
    BY <1>1, <1>2 DEF Cloud!KaggleMakes, Cloud!KaggleRuns, Cloud!KaggleStops, Cloud!Reclaims, Cloud!Becomes
  <2> QED
    BY <2>1, <2>2
<1>7. ASSUME NEW p \in Procs PROVE ~Cloud!ModalAborts(p) /\ ~Cloud!HelperEnds(p)
  BY DEF CloudInv, KaggleInv, Cloud!ModalAborts, Cloud!HelperEnds
<1> QED
  BY <1>2, <1>3, <1>4, <1>5, <1>6, <1>7
     DEF Cloud!Next, Cloud!Note, Cloud!KaggleOpens, Cloud!KaggleFails, Cloud!ListForgets, Cloud!KeeperEnds,
         Cloud!ModalAsks, Cloud!SweepLooks, Cloud!ListLooks, Cloud!LoginChanges, Cloud!TimePasses, Cloud!Cuts,
         Cloud!Writes, Cloud!Dies

LEMMA EndedHasNone ==
  ASSUME IsFiniteSet(Users), EliceInv, NEW u \in Users, NEW v \in Users, user[u] = "ending"
  PROVE  user[v] # "live"
<1>1. Cardinality(Counted) = 0
  BY DEF EliceInv, FlagsFit
<1>2. Counted = {}
  BY <1>1, CountBound, CountedIn
<1> QED
  BY <1>2 DEF Counted

\* Only its own process, or the sweep once that process is gone, deletes a notebook; and a shared
\* machine is only ended when no session uses it (kaggle.py: orphaned_notebooks; elice.py:
\* _holders).
THEOREM EndsCorrect == IsFiniteSet(Users) /\ Serial /\ ~Overlaps => (MCSpec => EndsUnused)
<1> SUFFICES ASSUME IsFiniteSet(Users), Serial, ~Overlaps PROVE MCSpec => EndsUnused
  OBVIOUS
<1>1. MCInit => CloudInv /\ EliceInv
  BY PlacesInitially
<1>2. (CloudInv /\ EliceInv) /\ [MCNext]_<<part, vars, linkVars, placeVars>> => (CloudInv /\ EliceInv)'
  BY PlacesStep
<1>3. (CloudInv /\ EliceInv) /\ [MCNext]_<<part, vars, linkVars, placeVars>> =>
        [\A s \in Starts : provider = "kaggle" /\ Cloud!Exists(s) /\ machine'[s] = "gone" =>
           step[s] = "closing" \/ owner[s] \notin alive]_Cloud!vars
  <2> SUFFICES ASSUME CloudInv, [MCNext]_<<part, vars, linkVars, placeVars>>, NEW s \in Starts,
                      provider = "kaggle", Cloud!Exists(s), machine'[s] = "gone"
               PROVE  step[s] = "closing" \/ owner[s] \notin alive
    OBVIOUS
  <2>1. [Cloud!Next]_cloudVars
    BY DEF MCNext, placeVars
  <2> QED
    BY <2>1, SweepsOwnerless
<1>4. EliceInv =>
        [\A u, v \in Users : user[u] = "ending" /\ vm = "started" /\ vm' # "started" /\ u # v /\ user'[u] = "out" =>
           user[v] # "live"]_Elice!eliceVars
  BY EndedHasNone
<1> QED
  BY <1>1, <1>2, <1>3, <1>4, PTL DEF MCSpec, EndsUnused, Cloud!SweepSafe, Elice!EndsUnused

-----------------------------------------------------------------------------
(* The link. *)

\* The strategy the race settles for is one of those it compares.
LEMMA LowestIn ==
  ASSUME NEW S, S \subseteq Nat, S # {}
  PROVE  Race!Lowest(S) \in S
<1>1. \E x \in S : \A y \in S : ~ (<<y, x>> \in OpToRel(<, Nat))
  BY NatLessThanWellFounded, WFMin
<1>2. \E x \in S : \A y \in S : x <= y
  <2>1. PICK x \in S : \A y \in S : ~ (<<y, x>> \in OpToRel(<, Nat))
    BY <1>1
  <2>2. \A y \in S : <<y, x>> \in Nat \X Nat /\ ~(y < x)
    BY <2>1 DEF OpToRel
  <2>3. \A y \in S : x <= y
    <3>1. TAKE y \in S
    <3>2. x \in Nat /\ y \in Nat /\ ~(y < x)
      BY <2>2
    <3> QED
      BY <3>2
  <2> QED
    BY <2>3
<1> QED
  BY <1>2 DEF Race!Lowest

\* What connect, the threads of the attempts and the rounds of choosing keep of each other.
RaceTypes ==
  /\ link \in [Strategies -> {"none", "open", "closed"}]
  /\ attempt \in [Strategies -> {"idle", "running", "opened", "ended"}]
  /\ Race!Applicable \subseteq Strategies
  /\ outcomes \subseteq Race!Applicable /\ seen \subseteq outcomes /\ offered \subseteq seen

\* Before the race nothing has been tried; an outcome is that of an attempt that is over, which
\* opens no link any more.
NothingTried == pc = "start" => floored = {} /\ \A s \in Strategies : attempt[s] = "idle"
OutcomeLast == \A s \in outcomes : attempt[s] = "ended"

\* Between the rounds no link that was looked at is open, and in a round only those offered.
RoundsClose ==
  /\ pc = "waiting" => \A s \in seen : link[s] # "open"
  /\ pc = "choosing" => \A s \in seen \ offered : link[s] # "open"

RaceInv == RaceTypes /\ NothingTried /\ OutcomeLast /\ RoundsClose /\ Race!FloorHeld /\ Race!OfferedClosed

-----------------------------------------------------------------------------
(* The race, one lemma for each kind of step. *)

\* One strategy alone: it is tried, and held to the floor when it was measured.
LEMMA RaceAlone ==
  ASSUME RaceInv, Race!Alone
  PROVE  RaceInv'
<1>1. pc = "start" /\ floored = {} /\ outcomes = {} /\ seen = {}
  BY DEF RaceInv, RaceTypes, NothingTried, OutcomeLast, Race!Alone
<1>2. RaceTypes' /\ NothingTried' /\ OutcomeLast' /\ RoundsClose' /\ Race!OfferedClosed'
  BY <1>1 DEF RaceInv, RaceTypes, NothingTried, OutcomeLast, RoundsClose, Race!OfferedClosed, Race!Alone,
              Race!Applicable
<1>3. Race!FloorHeld'
  BY <1>1 DEF Race!FloorHeld, Race!Alone, Race!Measured, Race!Probe, Race!BelowFloor, Race!Applicable
<1> QED
  BY <1>2, <1>3 DEF RaceInv

\* The strategy that won last time is tried first, or none applies.
LEMMA RaceCache ==
  ASSUME RaceInv, Race!FromCache \/ Race!NoneApplies
  PROVE  RaceInv'
<1>1. pc = "start" /\ floored = {} /\ outcomes = {} /\ seen = {}
  BY DEF RaceInv, RaceTypes, NothingTried, OutcomeLast, Race!FromCache, Race!NoneApplies
<1>2. RaceTypes' /\ NothingTried' /\ OutcomeLast' /\ RoundsClose' /\ Race!OfferedClosed'
  BY <1>1 DEF RaceInv, RaceTypes, NothingTried, OutcomeLast, RoundsClose, Race!OfferedClosed, Race!FromCache,
              Race!NoneApplies, Race!Applicable
<1>3. Race!FloorHeld'
  BY <1>1 DEF Race!FloorHeld, Race!FromCache, Race!NoneApplies, Race!CacheHolds, Race!Measured, Race!Probe,
              Race!BelowFloor, Race!Applicable
<1> QED
  BY <1>2, <1>3 DEF RaceInv

\* A thread of the race tries its strategy, in whichever order.
LEMMA RaceAttempt ==
  ASSUME RaceInv, NEW s \in Race!Applicable, Race!Opens(s) \/ Race!Records(s) \/ Race!FailsOrStops(s)
  PROVE  RaceInv'
<1>1. RaceTypes' /\ NothingTried' /\ OutcomeLast'
  BY DEF RaceInv, RaceTypes, NothingTried, OutcomeLast, Race!Opens, Race!Records, Race!FailsOrStops, Race!Applicable
<1>2. RoundsClose' /\ Race!OfferedClosed'
  BY DEF RaceInv, RaceTypes, OutcomeLast, RoundsClose, Race!OfferedClosed, Race!Opens, Race!Records,
         Race!FailsOrStops, Race!Applicable
<1>3. Race!FloorHeld'
  BY DEF RaceInv, Race!FloorHeld, Race!Opens, Race!Records, Race!FailsOrStops, Race!Measured, Race!Probe,
         Race!BelowFloor
<1> QED
  BY <1>1, <1>2, <1>3 DEF RaceInv

\* connect looks at the outcomes there are.
LEMMA RaceLooks ==
  ASSUME RaceInv, Race!Looks
  PROVE  RaceInv'
<1>1. RaceTypes' /\ NothingTried' /\ OutcomeLast'
  BY DEF RaceInv, RaceTypes, NothingTried, OutcomeLast, Race!Looks, Race!Fresh, Race!Decides, Race!Applicable
<1>2. RoundsClose' /\ Race!OfferedClosed'
  BY DEF RaceInv, RaceTypes, OutcomeLast, RoundsClose, Race!OfferedClosed, Race!Looks, Race!Fresh, Race!Decides
<1>3. Race!FloorHeld'
  BY DEF RaceInv, Race!FloorHeld, Race!Looks, Race!Decides
<1> QED
  BY <1>1, <1>2, <1>3 DEF RaceInv

\* _choose takes one of the links it is offered and closes the rest.
LEMMA RaceChooses ==
  ASSUME RaceInv, Race!Chooses
  PROVE  RaceInv'
<1> DEFINE within == {s \in Race!Above : Race!Close(s)}
<1>1. pc = "choosing" /\ floored' = floored \cup Race!Low
      /\ UNCHANGED <<world, kept, attempt, outcomes, seen, offered, expired>>
  BY DEF Race!Chooses
<1>2. offered \subseteq Nat
  BY RaceConstants DEF RaceInv, RaceTypes
<1>3. ASSUME NEW S, S # {}, S \subseteq offered, Race!Takes(Race!Lowest(S)),
             \A s \in S : IF Race!Measured(s) THEN s \in Held \/ ~Race!BelowFloor(s) ELSE floored' = {}
      PROVE  RaceInv'
  <2>1. PICK s \in S : s = Race!Lowest(S)
    BY <1>2, <1>3, LowestIn
  <2>2. link' = Race!Closed(offered \ {s}) /\ chosen' = s /\ pc' = "done"
    BY <1>3, <2>1 DEF Race!Takes
  <2>3. RaceTypes' /\ NothingTried' /\ OutcomeLast' /\ RoundsClose' /\ Race!OfferedClosed'
    BY <1>1, <2>2 DEF RaceInv, RaceTypes, NothingTried, OutcomeLast, RoundsClose, Race!OfferedClosed, Race!Applicable,
                      Race!Closed
  <2>4. Race!FloorHeld'
    BY <1>1, <1>3, <2>2 DEF Race!FloorHeld, Race!Measured, Race!Probe, Race!BelowFloor
  <2> QED
    BY <2>3, <2>4 DEF RaceInv
<1>4. CASE within # {}
  <2>1. Race!Takes(Race!Lowest(within))
    BY <1>4 DEF Race!Chooses
  <2> QED
    BY <1>3, <1>4, <2>1 DEF Race!Above, Race!Low
<1>5. CASE within = {} /\ Race!Above = {} /\ Race!Unmeasured # {}
  <2>1. Race!Takes(Race!Lowest(Race!Unmeasured))
    BY <1>5 DEF Race!Chooses
  <2>2. floored' = {} /\ Race!Unmeasured \subseteq offered
    BY <1>1, <1>5 DEF Race!Unmeasured, Race!Uncarried
  <2> QED
    <3>1. \A s \in Race!Unmeasured : Race!Measured(s) => s \in Held \/ ~Race!BelowFloor(s)
      BY <1>1, <1>5, <2>2 DEF Race!Above, Race!Low, Race!Unmeasured
    <3> QED
      BY <1>3, <1>5, <2>1, <2>2, <3>1
<1>6. CASE Race!Above # {} /\ within = {}
  <2>1. pc' = "crashed" /\ \E S \in SUBSET offered : link' = Race!Closed(S)
    BY <1>6 DEF Race!Chooses, Race!Low
  <2> QED
    BY <1>1, <2>1 DEF RaceInv, RaceTypes, NothingTried, OutcomeLast, RoundsClose, Race!OfferedClosed, Race!Applicable,
                      Race!Closed, Race!FloorHeld
<1>7. CASE within = {} /\ Race!Above = {} /\ Race!Unmeasured = {}
  <2>1. pc' \in {"failed", "waiting"} /\ link' = Race!Closed(offered) /\ chosen' = chosen
    BY <1>7 DEF Race!Chooses
  <2> QED
    BY <1>1, <2>1 DEF RaceInv, RaceTypes, NothingTried, OutcomeLast, RoundsClose, Race!OfferedClosed, Race!Applicable,
                      Race!Closed, Race!FloorHeld
<1> QED
  BY <1>4, <1>5, <1>6, <1>7

LEMMA RaceStep ==
  ASSUME RaceInv, [Race!RaceNext]_raceVars
  PROVE  RaceInv'
<1>1. CASE UNCHANGED raceVars
  BY <1>1 DEF RaceInv, RaceTypes, NothingTried, OutcomeLast, RoundsClose, Race!OfferedClosed, Race!FloorHeld, raceVars,
              Race!Applicable, Race!Measured, Race!Probe, Race!BelowFloor
<1>2. CASE Race!Expires
  BY <1>2 DEF RaceInv, RaceTypes, NothingTried, OutcomeLast, RoundsClose, Race!OfferedClosed, Race!FloorHeld,
              Race!Expires, Race!Applicable, Race!Measured, Race!Probe, Race!BelowFloor
<1> QED
  BY <1>1, <1>2, RaceAlone, RaceCache, RaceAttempt, RaceLooks, RaceChooses DEF Race!RaceNext, Race!RaceMain

-----------------------------------------------------------------------------
(* The punch. *)

Conn == [attempt : Attempts, hello : BOOLEAN, client : {"absent", "backlog", "candidate", "kept", "closed"},
         agent : {"absent", "backlog", "candidate", "kept", "closed"}]
PunchTypes ==
  /\ back \in BOOLEAN /\ conns \in Seq(Conn)
  /\ dialler \in [Attempts -> {"idle", "asking", "open", "over"}] /\ agent \in [Attempts -> {"idle", "open", "over"}]
  /\ took \in [Attempts -> Nat] /\ got \in [Attempts -> Nat] /\ sock \in Nat
  /\ session \in [Sessions -> [at : {"none", "punching", "open", "ssh", "closed", "failed"}, of : Nat \cup Attempts]]

\* What a side returned is a connection of the attempt, and the attempt is over for that side.
Returned ==
  \A k \in Attempts : /\ took[k] # 0 => took[k] \in Dial!Of(k) /\ dialler[k] = "over"
                      /\ got[k] # 0 => got[k] \in Dial!Of(k) /\ agent[k] = "over"

\* The hello goes out on one connection of an attempt, the one its sender returned, and the
\* other side returns no connection without it.
OneHello ==
  \A k \in Attempts : /\ \A i \in Dial!Of(k) : conns[i].hello => i = IF back THEN got[k] ELSE took[k]
                      /\ back /\ took[k] # 0 => conns[took[k]].hello
                      /\ ~back /\ got[k] # 0 => conns[got[k]].hello

\* The agent keeps what it returned, and dials back once.
AgentKeeps ==
  \A k \in Attempts : \A i \in Dial!Of(k) :
    /\ conns[i].agent = "kept" => got[k] = i /\ conns[i].hello
    /\ back /\ agent[k] # "over" => conns[i].agent = "absent"

\* A session on a connection has the one an attempt returned; nobody has the one left in _sock.
Running == {s \in Sessions : session[s].at \in {"open", "ssh"}}
OwnConnection ==
  /\ dialler[1] # "idle"
  /\ sock # 0 => sock = took[1] /\ \A s \in Running : session[s].of # sock
  /\ \A s \in Running : session[s].of \in DOMAIN conns /\ took[conns[session[s].of].attempt] = session[s].of

\* Each further session punches with an attempt of its own.
OwnAttempt ==
  \A s \in Sessions : session[s].at = "punching" =>
    /\ session[s].of \in Attempts \ {1} /\ dialler[session[s].of] # "idle"
    /\ \A t \in Sessions \ {s} : session[t].at = "punching" => session[t].of # session[s].of
    /\ \A t \in Running : conns[session[t].of].attempt # session[s].of

PunchInv ==
  /\ PunchTypes /\ Returned /\ OneHello /\ AgentKeeps /\ OwnConnection /\ OwnAttempt
  /\ Dial!PunchClosed /\ Dial!SessionsApart

-----------------------------------------------------------------------------
(* The punch: what the operators that close connections leave. *)

\* Connections that keep their number are still a sequence of connections.
LEMMA ConnsLeft ==
  ASSUME NEW q \in Seq(Conn), NEW r, r = [i \in DOMAIN q |-> r[i]], \A i \in DOMAIN q : r[i] \in Conn
  PROVE  r \in Seq(Conn) /\ DOMAIN r = DOMAIN q
<1>1. DOMAIN q = 1 .. Len(q) /\ Len(q) \in Nat
  OBVIOUS
<1>2. r \in [1 .. Len(q) -> Conn]
  BY <1>1
<1> QED
  BY <1>1, <1>2

\* What the client leaves of an attempt it ends, keeping at most one connection.
LEMMA ClientLeftFact ==
  ASSUME PunchTypes, NEW k \in Attempts, NEW keep
  PROVE  /\ Dial!ClientLeft(k, keep) \in Seq(Conn) /\ DOMAIN Dial!ClientLeft(k, keep) = DOMAIN conns
         /\ \A i \in DOMAIN conns :
              /\ Dial!ClientLeft(k, keep)[i].attempt = conns[i].attempt
              /\ Dial!ClientLeft(k, keep)[i].hello = conns[i].hello
              /\ Dial!ClientLeft(k, keep)[i].agent = conns[i].agent
              /\ Dial!ClientLeft(k, keep)[i].client = Dial!AfterAll(conns[i].client, k, i, keep)
<1>1. conns \in Seq(Conn)
  BY DEF PunchTypes
<1>2. \A i \in DOMAIN conns : conns[i] \in Conn
  BY <1>1
<1>3. \A i \in DOMAIN conns : Dial!AfterAll(conns[i].client, k, i, keep) \in
                                 {"absent", "backlog", "candidate", "kept", "closed"}
  BY <1>2 DEF Conn, Dial!AfterAll
<1>4. \A i \in DOMAIN conns : /\ Dial!ClientLeft(k, keep)[i] =
                                   [conns[i] EXCEPT !.client = Dial!AfterAll(conns[i].client, k, i, keep)]
                              /\ Dial!ClientLeft(k, keep)[i] \in Conn
  BY <1>2, <1>3 DEF Conn, Dial!ClientLeft
<1>5. Dial!ClientLeft(k, keep) \in Seq(Conn) /\ DOMAIN Dial!ClientLeft(k, keep) = DOMAIN conns
  BY <1>1, <1>4, ConnsLeft DEF Dial!ClientLeft
<1> QED
  BY <1>2, <1>4, <1>5 DEF Conn

\* The same for the agent.
LEMMA AgentLeftFact ==
  ASSUME PunchTypes, NEW k \in Attempts, NEW keep
  PROVE  /\ Dial!AgentLeft(k, keep) \in Seq(Conn) /\ DOMAIN Dial!AgentLeft(k, keep) = DOMAIN conns
         /\ \A i \in DOMAIN conns :
              /\ Dial!AgentLeft(k, keep)[i].attempt = conns[i].attempt
              /\ Dial!AgentLeft(k, keep)[i].hello = conns[i].hello
              /\ Dial!AgentLeft(k, keep)[i].client = conns[i].client
              /\ Dial!AgentLeft(k, keep)[i].agent = Dial!AfterAll(conns[i].agent, k, i, keep)
<1>1. conns \in Seq(Conn)
  BY DEF PunchTypes
<1>2. \A i \in DOMAIN conns : conns[i] \in Conn
  BY <1>1
<1>3. \A i \in DOMAIN conns : Dial!AfterAll(conns[i].agent, k, i, keep) \in
                                 {"absent", "backlog", "candidate", "kept", "closed"}
  BY <1>2 DEF Conn, Dial!AfterAll
<1>4. \A i \in DOMAIN conns : /\ Dial!AgentLeft(k, keep)[i] =
                                   [conns[i] EXCEPT !.agent = Dial!AfterAll(conns[i].agent, k, i, keep)]
                              /\ Dial!AgentLeft(k, keep)[i] \in Conn
  BY <1>2, <1>3 DEF Conn, Dial!AgentLeft
<1>5. Dial!AgentLeft(k, keep) \in Seq(Conn) /\ DOMAIN Dial!AgentLeft(k, keep) = DOMAIN conns
  BY <1>1, <1>4, ConnsLeft DEF Dial!AgentLeft
<1> QED
  BY <1>2, <1>4, <1>5 DEF Conn

\* The sessions that run keep what they have when no attempt that returned changes its mind.
LEMMA SessionsKept ==
  ASSUME PunchInv, PunchTypes', DOMAIN conns \subseteq DOMAIN conns',
         \A i \in DOMAIN conns : conns'[i].attempt = conns[i].attempt /\ (conns[i].hello => conns'[i].hello),
         \A k \in Attempts : /\ took[k] # 0 => took'[k] = took[k]
                             /\ got[k] # 0 => got'[k] = got[k]
                             /\ dialler[k] # "idle" => dialler'[k] # "idle",
         \/ sock' \in {sock, 0}
         \/ took[1] = 0 /\ sock' = took'[1] /\ sock' \in DOMAIN conns /\ conns[sock'].attempt = 1,
         \A s \in Sessions : session'[s] = session[s] \/ session'[s].at = "closed"
  PROVE  OwnConnection' /\ OwnAttempt' /\ Dial!SessionsApart'
<1>1. \A i \in DOMAIN conns : i \in Nat \ {0} /\ conns[i] \in Conn
  BY DEF PunchInv, PunchTypes
<1>2. \A s \in Running : /\ session[s].of \in DOMAIN conns /\ conns[session[s].of].attempt \in Attempts
                         /\ took[conns[session[s].of].attempt] = session[s].of /\ session[s].of # 0
  BY <1>1 DEF PunchInv, OwnConnection, Conn
<1>3. \A s \in Sessions : s \in Running' => s \in Running /\ session'[s] = session[s]
  BY DEF Running
<1>4. \A s \in Running : /\ session[s].of \in DOMAIN conns'
                         /\ conns'[session[s].of].attempt = conns[session[s].of].attempt
                         /\ took'[conns[session[s].of].attempt] = session[s].of
  BY <1>2
<1>5. OwnConnection'
  <2>1. dialler'[1] # "idle"
    BY FirstAttempt DEF PunchInv, OwnConnection
  <2>2. ASSUME sock' # 0 PROVE sock' = took'[1] /\ \A s \in Running' : session'[s].of # sock'
    <3>1. CASE sock' = sock
      BY <2>2, <3>1, <1>3, FirstAttempt DEF PunchInv, OwnConnection, Running
    <3>2. CASE took[1] = 0 /\ sock' = took'[1] /\ sock' \in DOMAIN conns /\ conns[sock'].attempt = 1
      BY <3>2, <1>2, <1>3 DEF Running
    <3> QED
      BY <2>2, <3>1, <3>2
  <2>3. \A s \in Running' : session'[s].of \in DOMAIN conns' /\ took'[conns'[session'[s].of].attempt] = session'[s].of
    BY <1>3, <1>4 DEF Running
  <2> QED
    BY <2>1, <2>2, <2>3 DEF OwnConnection
<1>6. OwnAttempt'
  <2>1. \A s \in Sessions : session'[s].at = "punching" => session[s].at = "punching" /\ session'[s] = session[s]
    OBVIOUS
  <2> QED
    BY <1>3, <1>4, <2>1 DEF PunchInv, OwnAttempt, Running
<1>7. Dial!SessionsApart'
  BY <1>2, <1>3, <1>4 DEF PunchInv, Dial!SessionsApart, Running
<1> QED
  BY <1>5, <1>6, <1>7

\* Connections that only close, or are accepted, while no side returns anything.
LEMMA Settling ==
  ASSUME PunchInv, PunchTypes', UNCHANGED <<back, took, got>>, DOMAIN conns' = DOMAIN conns,
         \A i \in DOMAIN conns :
           /\ conns'[i].attempt = conns[i].attempt /\ conns'[i].hello = conns[i].hello
           /\ conns'[i].agent = "kept" => conns[i].agent = "kept"
           /\ back /\ conns[i].agent = "absent" => conns'[i].agent = "absent",
         \A k \in Attempts : /\ dialler[k] = "over" => dialler'[k] = "over"
                             /\ dialler[k] # "idle" => dialler'[k] # "idle"
                             /\ agent[k] = "over" => agent'[k] = "over",
         sock' \in {sock, 0}, \A s \in Sessions : session'[s] = session[s] \/ session'[s].at = "closed",
         Dial!PunchClosed'
  PROVE  PunchInv'
<1>1. \A k \in Attempts : Dial!Of(k)' = Dial!Of(k)
  BY DEF Dial!Of
<1>2. OwnConnection' /\ OwnAttempt' /\ Dial!SessionsApart'
  BY SessionsKept
<1>3. Returned'
  BY <1>1 DEF PunchInv, Returned
<1>4. OneHello'
  BY <1>1 DEF PunchInv, OneHello, Returned, Dial!Of
<1>5. AgentKeeps'
  BY <1>1 DEF PunchInv, AgentKeeps, Dial!Of
<1> QED
  BY <1>2, <1>3, <1>4, <1>5 DEF PunchInv

LEMMA PunchBegins ==
  ASSUME PunchInv, UNCHANGED back, NEW k \in Attempts, Dial!AgentBegins(k)
  PROVE  PunchInv'
<1>1. PunchTypes'
  BY DEF PunchInv, PunchTypes, Dial!AgentBegins
<1>2. Dial!PunchClosed'
  BY DEF PunchInv, PunchTypes, Dial!PunchClosed, Dial!AgentBegins, Dial!Of
<1> QED
  BY <1>1, <1>2, Settling DEF PunchInv, PunchTypes, Dial!AgentBegins

LEMMA PunchExchanged ==
  ASSUME PunchInv, UNCHANGED back, NEW k \in Attempts, Dial!Exchanged(k)
  PROVE  PunchInv'
<1>1. UNCHANGED <<agent, took, got, sock, session>> /\ dialler[k] = "asking"
  BY DEF Dial!Exchanged
<1>2. CASE dialler' = [dialler EXCEPT ![k] = "open"] /\ UNCHANGED conns
  <2>1. PunchTypes'
    BY <1>1, <1>2 DEF PunchInv, PunchTypes
  <2>2. Dial!PunchClosed'
    BY <1>1, <1>2 DEF PunchInv, PunchTypes, Dial!PunchClosed, Dial!Of
  <2> QED
    BY <1>1, <1>2, <2>1, <2>2, Settling DEF PunchInv, PunchTypes
<1>3. CASE dialler' = [dialler EXCEPT ![k] = "over"] /\ conns' = Dial!ClientLeft(k, 0)
  <2>1. PunchTypes'
    BY <1>1, <1>3, ClientLeftFact DEF PunchInv, PunchTypes
  <2>2. took[k] = 0
    BY <1>1 DEF PunchInv, Returned
  <2>3. DOMAIN conns' = DOMAIN conns /\ \A i \in DOMAIN conns :
          /\ conns'[i].attempt = conns[i].attempt /\ conns'[i].hello = conns[i].hello /\ conns'[i].agent = conns[i].agent
          /\ conns'[i].client = IF conns[i].attempt = k /\ conns[i].client # "absent" THEN "closed" ELSE conns[i].client
    <3>1. \A i \in DOMAIN conns : i # 0
      BY DEF PunchInv, PunchTypes
    <3> QED
      BY <1>3, <3>1, ClientLeftFact DEF PunchInv, Dial!Of, Dial!AfterAll
  <2>4. Dial!PunchClosed'
    <3>1. SUFFICES ASSUME NEW j \in Attempts, NEW i \in DOMAIN conns, conns[i].attempt = j
                   PROVE  /\ dialler'[j] = "over" /\ i # took[j] => conns'[i].client \in {"absent", "closed"}
                          /\ agent'[j] = "over" /\ i # got[j] => conns'[i].agent \in {"absent", "closed"}
      BY <1>1, <2>3 DEF Dial!PunchClosed, Dial!Of
    <3>2. /\ dialler[j] = "over" /\ i # took[j] => conns[i].client \in {"absent", "closed"}
          /\ agent[j] = "over" /\ i # got[j] => conns[i].agent \in {"absent", "closed"}
      BY <3>1 DEF PunchInv, Dial!PunchClosed, Dial!Of
    <3> QED
      BY <1>1, <1>3, <2>2, <2>3, <3>1, <3>2 DEF PunchInv, PunchTypes
  <2> QED
    BY <1>1, <1>3, <2>1, <2>4, <2>3, Settling DEF PunchInv, PunchTypes
<1> QED
  BY <1>2, <1>3 DEF Dial!Exchanged

LEMMA PunchTimesOut ==
  ASSUME PunchInv, UNCHANGED back, NEW k \in Attempts, Dial!TimesOut(k)
  PROVE  PunchInv'
<1>1. UNCHANGED <<took, got, sock, session>>
  BY DEF Dial!TimesOut
<1>2. CASE dialler[k] = "open" /\ dialler' = [dialler EXCEPT ![k] = "over"] /\ conns' = Dial!ClientLeft(k, 0) /\ UNCHANGED agent
  <2>1. PunchTypes'
    BY <1>1, <1>2, ClientLeftFact DEF PunchInv, PunchTypes
  <2>2. took[k] = 0
    BY <1>2 DEF PunchInv, Returned
  <2>3. DOMAIN conns' = DOMAIN conns /\ \A i \in DOMAIN conns :
          /\ conns'[i].attempt = conns[i].attempt /\ conns'[i].hello = conns[i].hello /\ conns'[i].agent = conns[i].agent
          /\ conns'[i].client = IF conns[i].attempt = k /\ conns[i].client # "absent" THEN "closed" ELSE conns[i].client
    <3>1. \A i \in DOMAIN conns : i # 0
      BY DEF PunchInv, PunchTypes
    <3> QED
      BY <1>2, <3>1, ClientLeftFact DEF PunchInv, Dial!Of, Dial!AfterAll
  <2>4. Dial!PunchClosed'
    <3>1. SUFFICES ASSUME NEW j \in Attempts, NEW i \in DOMAIN conns, conns[i].attempt = j
                   PROVE  /\ dialler'[j] = "over" /\ i # took[j] => conns'[i].client \in {"absent", "closed"}
                          /\ agent'[j] = "over" /\ i # got[j] => conns'[i].agent \in {"absent", "closed"}
      BY <1>1, <2>3 DEF Dial!PunchClosed, Dial!Of
    <3>2. /\ dialler[j] = "over" /\ i # took[j] => conns[i].client \in {"absent", "closed"}
          /\ agent[j] = "over" /\ i # got[j] => conns[i].agent \in {"absent", "closed"}
      BY <3>1 DEF PunchInv, Dial!PunchClosed, Dial!Of
    <3> QED
      BY <1>1, <1>2, <2>2, <2>3, <3>1, <3>2 DEF PunchInv, PunchTypes
  <2> QED
    BY <1>1, <1>2, <2>1, <2>4, <2>3, Settling DEF PunchInv, PunchTypes
<1>3. CASE agent[k] = "open" /\ agent' = [agent EXCEPT ![k] = "over"] /\ conns' = Dial!AgentLeft(k, 0) /\ UNCHANGED dialler
  <2>1. PunchTypes'
    BY <1>1, <1>3, AgentLeftFact DEF PunchInv, PunchTypes
  <2>2. got[k] = 0
    BY <1>3 DEF PunchInv, Returned
  <2>3. DOMAIN conns' = DOMAIN conns /\ \A i \in DOMAIN conns :
          /\ conns'[i].attempt = conns[i].attempt /\ conns'[i].hello = conns[i].hello /\ conns'[i].client = conns[i].client
          /\ conns'[i].agent = IF conns[i].attempt = k /\ conns[i].agent # "absent" THEN "closed" ELSE conns[i].agent
    <3>1. \A i \in DOMAIN conns : i # 0
      BY DEF PunchInv, PunchTypes
    <3> QED
      BY <1>3, <3>1, AgentLeftFact DEF PunchInv, Dial!Of, Dial!AfterAll
  <2>4. Dial!PunchClosed'
    <3>1. SUFFICES ASSUME NEW j \in Attempts, NEW i \in DOMAIN conns, conns[i].attempt = j
                   PROVE  /\ dialler'[j] = "over" /\ i # took[j] => conns'[i].client \in {"absent", "closed"}
                          /\ agent'[j] = "over" /\ i # got[j] => conns'[i].agent \in {"absent", "closed"}
      BY <1>1, <2>3 DEF Dial!PunchClosed, Dial!Of
    <3>2. /\ dialler[j] = "over" /\ i # took[j] => conns[i].client \in {"absent", "closed"}
          /\ agent[j] = "over" /\ i # got[j] => conns[i].agent \in {"absent", "closed"}
      BY <3>1 DEF PunchInv, Dial!PunchClosed, Dial!Of
    <3> QED
      BY <1>1, <1>3, <2>2, <2>3, <3>1, <3>2 DEF PunchInv, PunchTypes
  <2> QED
    BY <1>1, <1>3, <2>1, <2>4, <2>3, Settling DEF PunchInv, PunchTypes
<1> QED
  BY <1>2, <1>3 DEF Dial!TimesOut

\* One end of one connection gets another state.
LEMMA ClientEnd ==
  ASSUME PunchTypes, NEW i \in DOMAIN conns, NEW state \in {"absent", "backlog", "candidate", "kept", "closed"},
         conns' = [conns EXCEPT ![i].client = state]
  PROVE  /\ conns' \in Seq(Conn) /\ DOMAIN conns' = DOMAIN conns
         /\ \A j \in DOMAIN conns :
              /\ conns'[j].attempt = conns[j].attempt /\ conns'[j].hello = conns[j].hello /\ conns'[j].agent = conns[j].agent
              /\ conns'[j].client = IF j = i THEN state ELSE conns[j].client
<1>1. conns \in Seq(Conn) /\ \A j \in DOMAIN conns : conns[j] \in Conn
  BY DEF PunchTypes
<1>2. DOMAIN conns' = DOMAIN conns /\ \A j \in DOMAIN conns : conns'[j] \in Conn
  BY <1>1 DEF Conn
<1>3. conns' = [j \in DOMAIN conns |-> conns'[j]]
  OBVIOUS
<1>4. conns' \in Seq(Conn)
  <2>1. Len(conns) \in Nat /\ DOMAIN conns = 1 .. Len(conns)
    BY <1>1
  <2>2. conns' \in [1 .. Len(conns) -> Conn]
    BY <1>2, <1>3, <2>1
  <2> QED
    BY ONLY <2>1, <2>2
<1> QED
  BY <1>1, <1>2, <1>4 DEF Conn

LEMMA AgentEnd ==
  ASSUME PunchTypes, NEW i \in DOMAIN conns, NEW state \in {"absent", "backlog", "candidate", "kept", "closed"},
         conns' = [conns EXCEPT ![i].agent = state]
  PROVE  /\ conns' \in Seq(Conn) /\ DOMAIN conns' = DOMAIN conns
         /\ \A j \in DOMAIN conns :
              /\ conns'[j].attempt = conns[j].attempt /\ conns'[j].hello = conns[j].hello /\ conns'[j].client = conns[j].client
              /\ conns'[j].agent = IF j = i THEN state ELSE conns[j].agent
<1>1. conns \in Seq(Conn) /\ \A j \in DOMAIN conns : conns[j] \in Conn
  BY DEF PunchTypes
<1>2. DOMAIN conns' = DOMAIN conns /\ \A j \in DOMAIN conns : conns'[j] \in Conn
  BY <1>1 DEF Conn
<1>3. conns' = [j \in DOMAIN conns |-> conns'[j]]
  OBVIOUS
<1>4. conns' \in Seq(Conn)
  <2>1. Len(conns) \in Nat /\ DOMAIN conns = 1 .. Len(conns)
    BY <1>1
  <2>2. conns' \in [1 .. Len(conns) -> Conn]
    BY <1>2, <1>3, <2>1
  <2> QED
    BY ONLY <2>1, <2>2
<1> QED
  BY <1>1, <1>2, <1>4 DEF Conn

LEMMA PunchAccepts ==
  ASSUME PunchInv, UNCHANGED back, NEW k \in Attempts, NEW i, Dial!Accepts(k, i)
  PROVE  PunchInv'
<1>1. UNCHANGED <<dialler, agent, took, got, sock, session>> /\ i \in DOMAIN conns /\ conns[i].attempt = k
  BY DEF Dial!Accepts, Dial!Of
<1>2. CASE dialler[k] = "open" /\ conns[i].client = "backlog" /\ conns' = [conns EXCEPT ![i].client = "candidate"]
  <2>1. PunchTypes'
    BY <1>1, <1>2, ClientEnd DEF PunchInv, PunchTypes
  <2>2. Dial!PunchClosed'
    BY <1>1, <1>2, ClientEnd DEF PunchInv, PunchTypes, Dial!PunchClosed, Dial!Of
  <2> QED
    BY <1>1, <1>2, <2>1, <2>2, Settling, ClientEnd DEF PunchInv
<1>3. CASE agent[k] = "open" /\ conns[i].agent = "backlog" /\ conns' = [conns EXCEPT ![i].agent = "candidate"]
  <2>1. PunchTypes'
    BY <1>1, <1>3, AgentEnd DEF PunchInv, PunchTypes
  <2>2. Dial!PunchClosed'
    BY <1>1, <1>3, AgentEnd DEF PunchInv, PunchTypes, Dial!PunchClosed, Dial!Of
  <2> QED
    BY <1>1, <1>3, <2>1, <2>2, Settling, AgentEnd DEF PunchInv
<1> QED
  BY <1>2, <1>3 DEF Dial!Accepts

LEMMA PunchDials ==
  ASSUME PunchInv, UNCHANGED back, NEW k \in Attempts, NEW c \in {"absent", "backlog", "candidate"},
         NEW a \in {"absent", "backlog", "candidate"}, Dial!Connects(k, c, a, FALSE),
         c # "absent" => dialler[k] # "over",
         a # "absent" => agent[k] = "open" /\ ~back,
         UNCHANGED <<dialler, agent, took, got, sock, session>>
  PROVE  PunchInv'
<1> DEFINE n == Len(conns) + 1
<1>1. conns \in Seq(Conn) /\ DOMAIN conns = 1 .. Len(conns) /\ Len(conns) \in Nat
  BY DEF PunchInv, PunchTypes
<1>2. [attempt |-> k, hello |-> FALSE, client |-> c, agent |-> a] \in Conn
  BY DEF Conn
<1>3. /\ conns' \in Seq(Conn) /\ DOMAIN conns' = DOMAIN conns \cup {n} /\ n \notin DOMAIN conns
      /\ \A i \in DOMAIN conns : conns'[i] = conns[i]
      /\ conns'[n] = [attempt |-> k, hello |-> FALSE, client |-> c, agent |-> a]
  BY <1>1, <1>2 DEF Dial!Connects
<1> HIDE DEF n
<1>4. PunchTypes'
  BY <1>3 DEF PunchInv, PunchTypes
<1>5. Dial!PunchClosed'
  BY <1>3 DEF PunchInv, Dial!PunchClosed, Dial!Of
<1>6. Returned'
  BY <1>3 DEF PunchInv, Returned, Dial!Of
<1>7. OneHello'
  BY <1>3 DEF PunchInv, OneHello, Returned, Dial!Of
<1>8. AgentKeeps'
  BY <1>3 DEF PunchInv, AgentKeeps, Dial!Of
<1>9. OwnConnection' /\ OwnAttempt' /\ Dial!SessionsApart'
  BY <1>3, <1>4, SessionsKept
<1> QED
  BY <1>4, <1>5, <1>6, <1>7, <1>8, <1>9 DEF PunchInv

\* A side returns connection i of its attempt: what the others of the attempt have become.
LEMMA PunchTook ==
  ASSUME PunchInv, PunchTypes', UNCHANGED <<back, agent, got, session>>, NEW k \in Attempts, NEW i \in Dial!Of(k),
         dialler[k] = "open", Dial!Took(k, i), DOMAIN conns' = DOMAIN conns,
         \A j \in DOMAIN conns :
           /\ conns'[j].attempt = conns[j].attempt /\ conns'[j].agent = conns[j].agent
           /\ (conns'[j].hello <=> conns[j].hello \/ (j = i /\ ~back))
           /\ conns'[j].client = Dial!AfterAll(conns[j].client, k, j, i),
         back => conns[i].hello
  PROVE  PunchInv'
<1>1. /\ took' = [took EXCEPT ![k] = i] /\ dialler' = [dialler EXCEPT ![k] = "over"] /\ took[k] = 0
      /\ sock' = (IF k = 1 THEN i ELSE sock) /\ i \in DOMAIN conns /\ conns[i].attempt = k
  BY DEF Dial!Took, PunchInv, Returned, Dial!Of
<1>2. \A j \in Attempts : Dial!Of(j)' = Dial!Of(j)
  BY DEF Dial!Of
<1>3. Returned'
  BY <1>1, <1>2 DEF PunchInv, PunchTypes, Returned
<1>4. OneHello'
  <2>1. \A j \in Attempts : took'[j] = IF j = k THEN i ELSE took[j]
    BY <1>1 DEF PunchInv, PunchTypes
  <2>2. ASSUME NEW j \in Attempts, NEW h \in Dial!Of(j), conns'[h].hello PROVE h = IF back THEN got[j] ELSE took'[j]
    <3>1. h \in DOMAIN conns /\ conns[h].attempt = j /\ (conns[h].hello => h = IF back THEN got[j] ELSE took[j])
      BY DEF PunchInv, OneHello, Dial!Of
    <3>2. h # 0
      BY <3>1 DEF PunchInv, PunchTypes
    <3> QED
      BY <1>1, <2>2, <2>1, <3>1, <3>2
  <2>3. ASSUME NEW j \in Attempts, back, took'[j] # 0 PROVE conns'[took'[j]].hello
    BY <1>1, <2>3, <2>1 DEF PunchInv, OneHello, Returned, Dial!Of
  <2>4. ASSUME NEW j \in Attempts, ~back, got[j] # 0 PROVE conns'[got[j]].hello
    BY <1>1, <2>4 DEF PunchInv, PunchTypes, OneHello, Returned, Dial!Of
  <2> QED
    BY <1>2, <2>2, <2>3, <2>4 DEF OneHello
<1>5. AgentKeeps'
  BY <1>1, <1>2 DEF PunchInv, AgentKeeps, Dial!Of
<1>6. Dial!PunchClosed'
  <2>1. SUFFICES ASSUME NEW j \in Attempts, NEW h \in DOMAIN conns, conns[h].attempt = j
                 PROVE  /\ dialler'[j] = "over" /\ h # took'[j] => conns'[h].client \in {"absent", "closed"}
                        /\ agent[j] = "over" /\ h # got[j] => conns'[h].agent \in {"absent", "closed"}
    BY DEF Dial!PunchClosed, Dial!Of
  <2>2. /\ dialler[j] = "over" /\ h # took[j] => conns[h].client \in {"absent", "closed"}
        /\ agent[j] = "over" /\ h # got[j] => conns[h].agent \in {"absent", "closed"}
    BY <2>1 DEF PunchInv, Dial!PunchClosed, Dial!Of
  <2>3. conns'[h].client = IF h = i THEN "kept"
                           ELSE IF j = k /\ conns[h].client # "absent" THEN "closed" ELSE conns[h].client
    BY <2>1 DEF Dial!AfterAll, Dial!Of
  <2> QED
    BY <1>1, <2>1, <2>2, <2>3 DEF PunchInv, PunchTypes
<1>7. OwnConnection' /\ OwnAttempt' /\ Dial!SessionsApart'
  <2>1. \A j \in Attempts : /\ took[j] # 0 => took'[j] = took[j]
                            /\ dialler[j] # "idle" => dialler'[j] # "idle"
    BY <1>1 DEF PunchInv, PunchTypes
  <2>2. \/ sock' \in {sock, 0}
        \/ took[1] = 0 /\ sock' = took'[1] /\ sock' \in DOMAIN conns /\ conns[sock'].attempt = 1
    BY <1>1 DEF PunchInv, PunchTypes
  <2> QED
    BY <2>1, <2>2, SessionsKept
<1> QED
  BY <1>3, <1>4, <1>5, <1>6, <1>7 DEF PunchInv

LEMMA PunchPicks ==
  ASSUME PunchInv, UNCHANGED back, NEW k \in Attempts, NEW i, Dial!ClientPicks(k, i)
  PROVE  PunchInv'
<1> DEFINE left == Dial!ClientLeft(k, i)
<1>1. /\ ~back /\ dialler[k] = "open" /\ i \in Dial!Of(k) /\ conns' = [left EXCEPT ![i].hello = TRUE]
      /\ Dial!Took(k, i) /\ UNCHANGED <<agent, got, session>> /\ i \in DOMAIN conns
  BY DEF Dial!ClientPicks, Dial!Of
<1>2. /\ left \in Seq(Conn) /\ DOMAIN left = DOMAIN conns
      /\ \A j \in DOMAIN conns : /\ left[j].attempt = conns[j].attempt /\ left[j].hello = conns[j].hello
                                 /\ left[j].agent = conns[j].agent
                                 /\ left[j].client = Dial!AfterAll(conns[j].client, k, j, i)
  BY ClientLeftFact DEF PunchInv
<1> HIDE DEF left
<1>3. \A j \in DOMAIN conns : left[j] \in Conn
  BY <1>2
<1>4. /\ conns' \in Seq(Conn) /\ DOMAIN conns' = DOMAIN conns
      /\ \A j \in DOMAIN conns : /\ conns'[j].attempt = conns[j].attempt /\ conns'[j].agent = conns[j].agent
                                 /\ (conns'[j].hello <=> conns[j].hello \/ j = i)
                                 /\ conns'[j].client = Dial!AfterAll(conns[j].client, k, j, i)
  <2>1. DOMAIN conns' = DOMAIN left /\ \A j \in DOMAIN left : conns'[j] \in Conn
    BY <1>1, <1>2, <1>3 DEF Conn
  <2>2. conns' = [j \in DOMAIN left |-> conns'[j]]
    BY <1>1
  <2>3. conns' \in Seq(Conn)
    BY <1>2, <2>1, <2>2, ConnsLeft
  <2>4. \A j \in DOMAIN conns : j # i => conns'[j] = left[j]
    BY <1>1, <1>2
  <2>5. conns'[i].attempt = left[i].attempt /\ conns'[i].agent = left[i].agent /\ conns'[i].client = left[i].client
        /\ conns'[i].hello
    BY <1>1, <1>2, <1>3 DEF Conn
  <2> QED
    BY <1>2, <2>1, <2>3, <2>4, <2>5
<1>5. PunchTypes'
  BY <1>1, <1>4 DEF PunchInv, PunchTypes, Dial!Took, Dial!Of
<1> QED
  BY <1>1, <1>4, <1>5, PunchTook

LEMMA PunchHears ==
  ASSUME PunchInv, UNCHANGED back, NEW k \in Attempts, NEW i, Dial!ClientHears(k, i)
  PROVE  PunchInv'
<1>1. /\ back /\ dialler[k] = "open" /\ i \in Dial!Of(k) /\ i \in DOMAIN conns /\ conns[i].attempt = k
      /\ UNCHANGED <<agent, got, session>>
  BY DEF Dial!ClientHears, Dial!Of
<1>2. CASE conns[i].hello
  <2>1. conns' = Dial!ClientLeft(k, i) /\ Dial!Took(k, i)
    BY <1>2 DEF Dial!ClientHears
  <2>2. PunchTypes'
    BY <1>1, <2>1, ClientLeftFact DEF PunchInv, PunchTypes, Dial!Took
  <2> QED
    BY <1>1, <1>2, <2>1, <2>2, ClientLeftFact, PunchTook DEF PunchInv
<1>3. CASE ~conns[i].hello
  <2>1. conns' = [conns EXCEPT ![i].client = "closed"] /\ UNCHANGED <<took, dialler, sock>>
    BY <1>3 DEF Dial!ClientHears
  <2>2. PunchTypes'
    <3>1. conns' \in Seq(Conn)
      BY <1>1, <2>1, ClientEnd DEF PunchInv
    <3> QED
      BY <1>1, <2>1, <3>1 DEF PunchInv, PunchTypes
  <2>3. Dial!PunchClosed'
    BY <1>1, <2>1, ClientEnd DEF PunchInv, PunchTypes, Dial!PunchClosed, Dial!Of
  <2> QED
    BY <1>1, <2>1, <2>2, <2>3, Settling, ClientEnd DEF PunchInv
<1> QED
  BY <1>2, <1>3

\* The agent returns connection i of its attempt, which carries the hello.
LEMMA PunchGot ==
  ASSUME PunchInv, PunchTypes', UNCHANGED <<back, dialler, took, sock, session>>, NEW k \in Attempts,
         agent[k] = "open", NEW i \in DOMAIN conns', i # 0, conns'[i].attempt = k, conns'[i].hello,
         got' = [got EXCEPT ![k] = i], agent' = [agent EXCEPT ![k] = "over"], DOMAIN conns' = DOMAIN conns \cup {i},
         \A j \in DOMAIN conns :
           /\ conns'[j].attempt = conns[j].attempt /\ conns'[j].client = conns[j].client
           /\ conns'[j].hello = conns[j].hello /\ conns'[j].agent = Dial!AfterAll(conns[j].agent, k, j, i),
         back => i \notin DOMAIN conns, ~back => i \in DOMAIN conns,
         i \notin DOMAIN conns => dialler[k] # "over"
  PROVE  PunchInv'
<1>1. got[k] = 0
  BY DEF PunchInv, Returned
<1>2. \A j \in Attempts : Dial!Of(j) \subseteq Dial!Of(j)'
  BY DEF Dial!Of
<1>A. \A j \in Attempts : /\ got'[j] = IF j = k THEN i ELSE got[j]
                          /\ agent'[j] = IF j = k THEN "over" ELSE agent[j]
  <2>1. DOMAIN got = Attempts /\ DOMAIN agent = Attempts
    BY DEF PunchInv, PunchTypes
  <2> QED
    BY <2>1
<1>B. \A h \in DOMAIN conns : h \in DOMAIN conns' /\ h # 0
  BY DEF PunchInv, PunchTypes
<1>3. Returned'
  <2>1. SUFFICES ASSUME NEW j \in Attempts
                 PROVE  /\ took[j] # 0 => took[j] \in DOMAIN conns' /\ conns'[took[j]].attempt = j /\ dialler[j] = "over"
                        /\ got'[j] # 0 => got'[j] \in DOMAIN conns' /\ conns'[got'[j]].attempt = j /\ agent'[j] = "over"
    BY DEF Returned, Dial!Of
  <2>2. /\ took[j] # 0 => took[j] \in DOMAIN conns /\ conns[took[j]].attempt = j /\ dialler[j] = "over"
        /\ got[j] # 0 => got[j] \in DOMAIN conns /\ conns[got[j]].attempt = j /\ agent[j] = "over"
    BY DEF PunchInv, Returned, Dial!Of
  <2> QED
    BY <1>1, <1>A, <2>2
<1>4. OneHello'
  <2>1. ASSUME NEW j \in Attempts, NEW h \in DOMAIN conns', conns'[h].attempt = j, conns'[h].hello
        PROVE  h = IF back THEN got'[j] ELSE took[j]
    BY <1>1, <1>A, <1>B, <2>1 DEF PunchInv, OneHello, Dial!Of
  <2>2. ASSUME NEW j \in Attempts, back, took[j] # 0 PROVE conns'[took[j]].hello
    BY <1>1, <2>2 DEF PunchInv, PunchTypes, OneHello, Returned, Dial!Of
  <2>3. ASSUME NEW j \in Attempts, ~back, got'[j] # 0 PROVE conns'[got'[j]].hello
    BY <1>1, <1>A, <1>B, <2>3 DEF PunchInv, OneHello, Returned, Dial!Of
  <2> QED
    BY <2>1, <2>2, <2>3 DEF OneHello, Dial!Of
<1>5. ASSUME NEW h \in DOMAIN conns
      PROVE  conns'[h].agent = IF h = i THEN "kept"
                               ELSE IF conns[h].attempt = k /\ conns[h].agent # "absent" THEN "closed" ELSE conns[h].agent
  BY <1>5 DEF Dial!AfterAll, Dial!Of
<1>6. AgentKeeps'
  <2>1. SUFFICES ASSUME NEW j \in Attempts, NEW h \in DOMAIN conns', conns'[h].attempt = j
                 PROVE  /\ conns'[h].agent = "kept" => got'[j] = h /\ conns'[h].hello
                        /\ back /\ agent'[j] # "over" => conns'[h].agent = "absent"
    BY DEF AgentKeeps, Dial!Of
  <2>2. CASE h = i
    BY <2>1, <2>2 DEF PunchInv, PunchTypes
  <2>3. CASE h # i
    BY <1>1, <1>5, <1>A, <1>B, <2>1, <2>3 DEF PunchInv, AgentKeeps, Dial!Of
  <2> QED
    BY <2>2, <2>3
<1>7. Dial!PunchClosed'
  <2>1. SUFFICES ASSUME NEW j \in Attempts, NEW h \in DOMAIN conns', conns'[h].attempt = j
                 PROVE  /\ dialler[j] = "over" /\ h # took[j] => conns'[h].client \in {"absent", "closed"}
                        /\ agent'[j] = "over" /\ h # got'[j] => conns'[h].agent \in {"absent", "closed"}
    BY DEF Dial!PunchClosed, Dial!Of
  <2>2. CASE h \notin DOMAIN conns
    BY <2>1, <2>2 DEF PunchInv, PunchTypes
  <2>3. CASE h \in DOMAIN conns
    <3>1. /\ dialler[j] = "over" /\ h # took[j] => conns[h].client \in {"absent", "closed"}
          /\ agent[j] = "over" /\ h # got[j] => conns[h].agent \in {"absent", "closed"}
      BY <2>1, <2>3 DEF PunchInv, Dial!PunchClosed, Dial!Of
    <3> QED
      BY <1>5, <2>1, <2>3, <3>1 DEF PunchInv, PunchTypes
  <2> QED
    BY <2>2, <2>3
<1>8. OwnConnection' /\ OwnAttempt' /\ Dial!SessionsApart'
  <2>1. \A j \in Attempts : got[j] # 0 => got'[j] = got[j]
    BY <1>1 DEF PunchInv, PunchTypes
  <2> QED
    BY <2>1, SessionsKept
<1> QED
  BY <1>3, <1>4, <1>6, <1>7, <1>8 DEF PunchInv

LEMMA PunchAgentHears ==
  ASSUME PunchInv, UNCHANGED back, NEW k \in Attempts, NEW i, Dial!AgentHears(k, i)
  PROVE  PunchInv'
<1>1. /\ ~back /\ agent[k] = "open" /\ i \in DOMAIN conns /\ conns[i].attempt = k /\ conns[i].agent = "candidate"
      /\ UNCHANGED <<dialler, took, sock, session>> /\ i # 0
  BY DEF Dial!AgentHears, Dial!Of, PunchInv, PunchTypes
<1>2. CASE conns[i].hello /\ conns[i].client # "absent"
  <2>1. conns' = Dial!AgentLeft(k, i) /\ got' = [got EXCEPT ![k] = i] /\ agent' = [agent EXCEPT ![k] = "over"]
    BY <1>2 DEF Dial!AgentHears
  <2>2. /\ conns' \in Seq(Conn) /\ DOMAIN conns' = DOMAIN conns
        /\ \A j \in DOMAIN conns :
             /\ conns'[j].attempt = conns[j].attempt /\ conns'[j].client = conns[j].client
             /\ conns'[j].hello = conns[j].hello /\ conns'[j].agent = Dial!AfterAll(conns[j].agent, k, j, i)
    BY <2>1, AgentLeftFact DEF PunchInv
  <2>3. PunchTypes'
    BY <1>1, <2>1, <2>2 DEF PunchInv, PunchTypes
  <2> QED
    BY <1>1, <1>2, <2>1, <2>2, <2>3, PunchGot
<1>3. CASE ~(conns[i].hello /\ conns[i].client # "absent")
  <2>1. conns' = [conns EXCEPT ![i].agent = "closed"] /\ UNCHANGED <<got, agent>>
    BY <1>3 DEF Dial!AgentHears
  <2>2. PunchTypes'
    <3>1. conns' \in Seq(Conn)
      BY <1>1, <2>1, AgentEnd DEF PunchInv
    <3> QED
      BY <1>1, <2>1, <3>1 DEF PunchInv, PunchTypes
  <2>3. Dial!PunchClosed'
    BY <1>1, <2>1, AgentEnd DEF PunchInv, PunchTypes, Dial!PunchClosed, Dial!Of
  <2> QED
    BY <1>1, <2>1, <2>2, <2>3, Settling, AgentEnd DEF PunchInv
<1> QED
  BY <1>2, <1>3

LEMMA PunchDialsBack ==
  ASSUME PunchInv, UNCHANGED back, NEW k \in Attempts, back, Dial!AgentDials(k)
  PROVE  PunchInv'
<1> DEFINE n == Len(conns) + 1
<1>1. /\ agent[k] = "open" /\ dialler[k] \in {"asking", "open"} /\ UNCHANGED <<dialler, took, sock, session>>
      /\ conns' = Append(conns, [attempt |-> k, hello |-> TRUE, client |-> "backlog", agent |-> "kept"])
      /\ got' = [got EXCEPT ![k] = n] /\ agent' = [agent EXCEPT ![k] = "over"]
  BY DEF Dial!AgentDials, Dial!Connects
<1>2. [attempt |-> k, hello |-> TRUE, client |-> "backlog", agent |-> "kept"] \in Conn
  BY DEF Conn
<1>3. conns \in Seq(Conn) /\ DOMAIN conns = 1 .. Len(conns) /\ Len(conns) \in Nat
  BY DEF PunchInv, PunchTypes
<1>4. /\ conns' \in Seq(Conn) /\ DOMAIN conns' = DOMAIN conns \cup {n} /\ n \notin DOMAIN conns /\ n \in Nat \ {0}
      /\ \A i \in DOMAIN conns : conns'[i] = conns[i]
      /\ conns'[n] = [attempt |-> k, hello |-> TRUE, client |-> "backlog", agent |-> "kept"]
  BY <1>1, <1>2, <1>3
<1> HIDE DEF n
<1>5. \A j \in DOMAIN conns : conns'[j].agent = Dial!AfterAll(conns[j].agent, k, j, n)
  BY <1>1, <1>4 DEF PunchInv, AgentKeeps, Dial!AfterAll, Dial!Of
<1>6. PunchTypes'
  BY <1>1, <1>4 DEF PunchInv, PunchTypes
<1>7. n \in DOMAIN conns' /\ n # 0 /\ conns'[n].attempt = k /\ conns'[n].hello
  BY <1>4
<1>8. \A j \in DOMAIN conns : /\ conns'[j].attempt = conns[j].attempt /\ conns'[j].client = conns[j].client
                              /\ conns'[j].hello = conns[j].hello /\ conns'[j].agent = Dial!AfterAll(conns[j].agent, k, j, n)
  BY <1>4, <1>5
<1> QED
  BY <1>1, <1>4, <1>6, <1>7, <1>8, PunchGot

LEMMA PunchServes ==
  ASSUME PunchInv, UNCHANGED back, NEW s \in Sessions, Dial!Serves(s)
  PROVE  PunchInv'
<1>1. /\ session[s].at = "open" /\ conns[session[s].of].agent = "kept" /\ session' = [session EXCEPT ![s].at = "ssh"]
      /\ UNCHANGED <<back, conns, dialler, agent, took, got, sock>>
  BY DEF Dial!Serves
<1>2. /\ session \in [Sessions -> [at : {"none", "punching", "open", "ssh", "closed", "failed"}, of : Nat \cup Attempts]]
      /\ \A t \in Sessions : session'[t].of = session[t].of
      /\ \A t \in Sessions : session'[t].at = IF t = s THEN "ssh" ELSE session[t].at
  BY <1>1 DEF PunchInv, PunchTypes
<1>3. PunchTypes'
  BY <1>1, <1>2 DEF PunchInv, PunchTypes
<1>4. Running' = Running
  BY <1>1, <1>2 DEF Running
<1>5. OwnConnection' /\ OwnAttempt'
  BY <1>1, <1>2, <1>4 DEF PunchInv, OwnConnection, OwnAttempt
<1>6. Dial!SessionsApart'
  <2>1. conns[session[s].of].hello /\ got[conns[session[s].of].attempt] = session[s].of
    <3>1. session[s].of \in DOMAIN conns /\ conns[session[s].of].attempt \in Attempts
      <4>1. session[s].of \in DOMAIN conns
        BY <1>1 DEF PunchInv, OwnConnection, Running
      <4>2. \A i \in DOMAIN conns : conns[i] \in Conn
        BY DEF PunchInv, PunchTypes
      <4> QED
        BY <4>1, <4>2 DEF Conn
    <3> QED
      BY <1>1, <3>1 DEF PunchInv, AgentKeeps, Dial!Of
  <2> QED
    BY <1>1, <1>2, <2>1 DEF PunchInv, Dial!SessionsApart
<1>7. Returned' /\ OneHello' /\ AgentKeeps' /\ Dial!PunchClosed'
  BY <1>1 DEF PunchInv, Returned, OneHello, AgentKeeps, Dial!PunchClosed, Dial!Of
<1> QED
  BY <1>3, <1>5, <1>6, <1>7 DEF PunchInv

LEMMA PunchSplices ==
  ASSUME PunchInv, NEW i \in DOMAIN conns, Dial!Splices(i), UNCHANGED <<back, dialler, agent, took, got>>,
         sock' \in {sock, 0}, \A s \in Sessions : session'[s] = session[s] \/ session'[s].at = "closed",
         session' \in [Sessions -> [at : {"none", "punching", "open", "ssh", "closed", "failed"}, of : Nat \cup Attempts]]
  PROVE  PunchInv'
<1>1. conns \in Seq(Conn) /\ \A j \in DOMAIN conns : conns[j] \in Conn
  BY DEF PunchInv, PunchTypes
<1>2. DOMAIN conns' = DOMAIN conns /\ \A j \in DOMAIN conns : j # i => conns'[j] = conns[j]
  BY DEF Dial!Splices
<1>3. /\ conns'[i].attempt = conns[i].attempt /\ conns'[i].hello = conns[i].hello /\ conns'[i].client = "closed"
      /\ conns'[i].agent = (IF conns[i].agent = "kept" THEN "closed" ELSE conns[i].agent)
      /\ conns'[i] \in Conn
  BY <1>1 DEF Dial!Splices, Conn
<1>4. conns' \in Seq(Conn)
  <2>1. Len(conns) \in Nat /\ DOMAIN conns = 1 .. Len(conns)
    BY <1>1
  <2>2. conns' \in [1 .. Len(conns) -> Conn]
    BY <1>1, <1>2, <1>3, <2>1 DEF Dial!Splices
  <2> QED
    BY ONLY <2>1, <2>2
<1>5. PunchTypes'
  BY <1>4 DEF PunchInv, PunchTypes
<1>6. Dial!PunchClosed'
  BY <1>2, <1>3 DEF PunchInv, Dial!PunchClosed, Dial!Of
<1> QED
  BY <1>2, <1>3, <1>5, <1>6, Settling

LEMMA PunchEnds ==
  ASSUME PunchInv, UNCHANGED back, (\E s \in Sessions : Dial!EndsSession(s)) \/ Dial!ClosesLink
  PROVE  PunchInv'
<1>1. CASE Dial!ClosesLink
  <2>1. sock \in DOMAIN conns
    BY <1>1, FirstAttempt DEF PunchInv, OwnConnection, Returned, Dial!ClosesLink, Dial!Of
  <2> QED
    BY <1>1, <2>1, PunchSplices DEF PunchInv, PunchTypes, Dial!ClosesLink
<1>2. ASSUME NEW s \in Sessions, Dial!EndsSession(s) PROVE PunchInv'
  <2>1. session[s].of \in DOMAIN conns
    BY <1>2 DEF PunchInv, OwnConnection, Running, Dial!EndsSession
  <2>2. session' = [session EXCEPT ![s].at = "closed"]
    BY <1>2 DEF Dial!EndsSession
  <2>3. \A t \in Sessions : session'[t] = session[t] \/ session'[t].at = "closed"
    BY <2>2 DEF PunchInv, PunchTypes
  <2>4. session' \in [Sessions -> [at : {"none", "punching", "open", "ssh", "closed", "failed"}, of : Nat \cup Attempts]]
    BY <2>2 DEF PunchInv, PunchTypes
  <2> QED
    BY <1>2, <2>1, <2>3, <2>4, PunchSplices DEF Dial!EndsSession
<1> QED
  BY <1>1, <1>2

LEMMA PunchTakes ==
  ASSUME PunchInv, UNCHANGED back, NEW s \in Sessions, Dial!TakesLink(s) \/ Dial!Redialled(s)
  PROVE  PunchInv'
<1>1. UNCHANGED <<back, conns, agent, took, got>>
  BY DEF Dial!TakesLink, Dial!Redialled
<1>2. /\ \A t \in Running : /\ session[t].of \in DOMAIN conns /\ session[t].of # 0 /\ conns[session[t].of].attempt \in Attempts
                            /\ took[conns[session[t].of].attempt] = session[t].of
      /\ session \in [Sessions -> [at : {"none", "punching", "open", "ssh", "closed", "failed"}, of : Nat \cup Attempts]]
      /\ dialler \in [Attempts -> {"idle", "asking", "open", "over"}] /\ took \in [Attempts -> Nat]
  <2>1. \A i \in DOMAIN conns : i # 0 /\ conns[i] \in Conn
    BY DEF PunchInv, PunchTypes
  <2> QED
    BY <2>1 DEF PunchInv, PunchTypes, OwnConnection, Conn
<1>3. \A k \in Attempts : took[k] # 0 => took[k] \in DOMAIN conns /\ conns[took[k]].attempt = k /\ dialler[k] = "over"
  BY DEF PunchInv, Returned, Dial!Of
<1>4. CASE session[s].at = "none" /\ sock # 0 /\ session' = [session EXCEPT ![s] = [at |-> "open", of |-> sock]]
           /\ sock' = 0 /\ UNCHANGED dialler
  <2>1. sock = took[1] /\ sock \in DOMAIN conns /\ conns[sock].attempt = 1 /\ sock \in Nat
    BY <1>2, <1>3, <1>4, FirstAttempt DEF PunchInv, OwnConnection
  <2>2. \A t \in Sessions : session'[t] = IF t = s THEN [at |-> "open", of |-> sock] ELSE session[t]
    BY <1>2, <1>4
  <2>3. PunchTypes'
    BY <1>1, <1>2, <1>4, <2>1 DEF PunchInv, PunchTypes
  <2>4. Running' = Running \cup {s}
    BY <2>2 DEF Running
  <2>5. OwnConnection' /\ OwnAttempt'
    BY <1>1, <1>2, <1>4, <2>1, <2>2, <2>4 DEF PunchInv, OwnConnection, OwnAttempt
  <2>6. Dial!SessionsApart'
    BY <1>1, <1>4, <2>1, <2>2 DEF PunchInv, OwnConnection, Running, Dial!SessionsApart
  <2>7. Returned' /\ OneHello' /\ AgentKeeps' /\ Dial!PunchClosed'
    BY <1>1, <1>4 DEF PunchInv, Returned, OneHello, AgentKeeps, Dial!PunchClosed, Dial!Of
  <2> QED
    BY <2>3, <2>5, <2>6, <2>7 DEF PunchInv
<1>5. ASSUME session[s].at = "none", NEW k \in Attempts, dialler[k] = "idle", dialler' = [dialler EXCEPT ![k] = "asking"],
             session' = [session EXCEPT ![s] = [at |-> "punching", of |-> k]], UNCHANGED sock
      PROVE  PunchInv'
  <2>1. k # 1 /\ took[k] = 0
    BY <1>3, <1>5 DEF PunchInv, OwnConnection
  <2>2. /\ \A t \in Sessions : session'[t] = IF t = s THEN [at |-> "punching", of |-> k] ELSE session[t]
        /\ \A j \in Attempts : dialler'[j] = IF j = k THEN "asking" ELSE dialler[j]
    BY <1>2, <1>5
  <2>3. PunchTypes'
    BY <1>1, <1>2, <1>5 DEF PunchInv, PunchTypes
  <2>4. Running' = Running /\ s \notin Running
    BY <1>5, <2>2 DEF Running
  <2>5. OwnConnection'
    BY <1>1, <1>5, <2>1, <2>2, <2>4, FirstAttempt DEF PunchInv, OwnConnection, Running
  <2>6. OwnAttempt'
    <3>1. \A t \in Running : conns[session[t].of].attempt # k
      BY <1>2, <2>1
    <3> QED
      BY <1>1, <1>5, <2>1, <2>2, <2>4, <3>1 DEF PunchInv, OwnAttempt, Running
  <2>7. Dial!SessionsApart'
    BY <1>1, <1>5, <2>2 DEF PunchInv, Dial!SessionsApart
  <2>8. Returned' /\ OneHello' /\ AgentKeeps' /\ Dial!PunchClosed'
    BY <1>1, <1>5, <2>2 DEF PunchInv, Returned, OneHello, AgentKeeps, Dial!PunchClosed, Dial!Of
  <2> QED
    BY <2>3, <2>5, <2>6, <2>7, <2>8 DEF PunchInv
<1>6. CASE Dial!Redialled(s)
  <2>1. session[s].at = "punching" /\ UNCHANGED <<dialler, sock>>
    BY <1>6 DEF Dial!Redialled
  <2>2. PICK k \in Attempts \ {1} : session[s].of = k
    BY <2>1 DEF PunchInv, OwnAttempt
  <2>3. CASE took[k] = 0
    <3>1. session' = [session EXCEPT ![s] = [at |-> "failed", of |-> 0]]
      BY <1>6, <2>2, <2>3 DEF Dial!Redialled
    <3>2. \A t \in Sessions : session'[t] = IF t = s THEN [at |-> "failed", of |-> 0] ELSE session[t]
      BY <1>2, <3>1
    <3>3. PunchTypes'
      BY <1>1, <1>2, <2>1, <3>1 DEF PunchInv, PunchTypes
    <3>4. Running' = Running
      BY <2>1, <3>2 DEF Running
    <3>5. OwnConnection' /\ OwnAttempt' /\ Dial!SessionsApart'
      BY <1>1, <2>1, <3>2, <3>4 DEF PunchInv, OwnConnection, OwnAttempt, Dial!SessionsApart, Running
    <3>6. Returned' /\ OneHello' /\ AgentKeeps' /\ Dial!PunchClosed'
      BY <1>1, <2>1 DEF PunchInv, Returned, OneHello, AgentKeeps, Dial!PunchClosed, Dial!Of
    <3> QED
      BY <3>3, <3>5, <3>6 DEF PunchInv
  <2>4. CASE took[k] # 0
    <3>1. session' = [session EXCEPT ![s] = [at |-> "open", of |-> took[k]]]
      BY <1>6, <2>2, <2>4 DEF Dial!Redialled
    <3>2. \A t \in Sessions : session'[t] = IF t = s THEN [at |-> "open", of |-> took[k]] ELSE session[t]
      BY <1>2, <3>1
    <3>3. PunchTypes'
      BY <1>1, <1>2, <2>1, <3>1 DEF PunchInv, PunchTypes
    <3>4. Running' = Running \cup {s} /\ s \notin Running
      BY <2>1, <3>2 DEF Running
    <3>5. /\ took[k] \in DOMAIN conns /\ conns[took[k]].attempt = k
          /\ \A t \in Running : conns[session[t].of].attempt # k
      BY <1>3, <2>1, <2>2, <2>4 DEF PunchInv, OwnAttempt
    <3>6. OwnConnection'
      <4>1. sock # 0 => sock # took[k]
        BY <1>3, <2>2, <3>5, FirstAttempt DEF PunchInv, OwnConnection
      <4> QED
        BY <1>1, <2>1, <3>2, <3>4, <3>5, <4>1 DEF PunchInv, OwnConnection, Running
    <3>7. OwnAttempt'
      BY <1>1, <2>1, <2>2, <3>2, <3>4, <3>5 DEF PunchInv, OwnAttempt, Running
    <3>8. Dial!SessionsApart'
      BY <1>1, <3>2, <3>5 DEF PunchInv, Dial!SessionsApart, Running
    <3>9. Returned' /\ OneHello' /\ AgentKeeps' /\ Dial!PunchClosed'
      BY <1>1, <2>1 DEF PunchInv, Returned, OneHello, AgentKeeps, Dial!PunchClosed, Dial!Of
    <3> QED
      BY <3>3, <3>6, <3>7, <3>8, <3>9 DEF PunchInv
  <2> QED
    BY <2>3, <2>4
<1> QED
  BY <1>4, <1>5, <1>6 DEF Dial!TakesLink

LEMMA PunchStep ==
  ASSUME PunchInv, [Dial!PunchNext]_punchVars
  PROVE  PunchInv'
<1>1. CASE UNCHANGED punchVars
  BY <1>1 DEF punchVars, PunchInv, PunchTypes, Returned, OneHello, AgentKeeps, OwnConnection, OwnAttempt, Running,
              Dial!PunchClosed, Dial!SessionsApart, Dial!Of
<1>2. ASSUME UNCHANGED back, NEW k \in Attempts, Dial!ClientDials(k) \/ Dial!AgentDials(k) \/ Dial!StrayDials(k)
      PROVE  PunchInv'
  <2>1. CASE Dial!ClientDials(k)
    BY <1>2, <2>1, PunchDials DEF Dial!ClientDials
  <2>2. CASE Dial!StrayDials(k)
    BY <1>2, <2>2, PunchDials DEF Dial!StrayDials
  <2>3. CASE Dial!AgentDials(k) /\ ~back
    BY <1>2, <2>3, PunchDials DEF Dial!AgentDials, PunchInv, PunchTypes
  <2>4. CASE Dial!AgentDials(k) /\ back
    BY <1>2, <2>4, PunchDialsBack
  <2> QED
    BY <1>2, <2>1, <2>2, <2>3, <2>4
<1> QED
  BY <1>1, <1>2, PunchBegins, PunchExchanged, PunchTimesOut, PunchAccepts, PunchPicks, PunchHears, PunchAgentHears,
     PunchTakes, PunchServes, PunchEnds DEF Dial!PunchNext

LEMMA LinksInitially == MCInit => RaceInv /\ PunchInv
<1> SUFFICES ASSUME MCInit PROVE RaceInv /\ PunchInv
  OBVIOUS
<1>1. RaceInv
  <2>1. DOMAIN world \subseteq Strategies
    BY RaceConstants DEF MCInit, Race!RaceInit
  <2> QED
    BY <2>1 DEF MCInit, Race!RaceInit, RaceInv, RaceTypes, NothingTried, OutcomeLast, RoundsClose, Race!FloorHeld,
                Race!OfferedClosed, Race!Applicable
<1>2. PunchInv
  <2>1. PunchTypes
    BY DEF MCInit, Dial!PunchInit, PunchTypes
  <2>2. DOMAIN conns = {}
    BY DEF MCInit, Dial!PunchInit
  <2> QED
    BY <2>1, <2>2, FirstAttempt
       DEF MCInit, Dial!PunchInit, PunchInv, Returned, OneHello, AgentKeeps, OwnConnection, OwnAttempt, Running,
           Dial!PunchClosed, Dial!SessionsApart, Dial!Of
<1> QED
  BY <1>1, <1>2

\* Pipeline.connect never settles for a link below the floor and closes every link it was
\* offered and did not take; both sides of a punch settle on one connection and close the
\* others, and no two SSH sessions share one: whatever the strategies do, in whichever order.
THEOREM LinksSettled == MCSpec => []LinksSettle
<1>1. MCInit => RaceInv /\ PunchInv
  BY LinksInitially
<1>2. (RaceInv /\ PunchInv) /\ [MCNext]_<<part, vars, linkVars, placeVars>> => (RaceInv /\ PunchInv)'
  <2> SUFFICES ASSUME RaceInv, PunchInv, [MCNext]_<<part, vars, linkVars, placeVars>> PROVE RaceInv' /\ PunchInv'
    OBVIOUS
  <2>1. [Race!RaceNext]_raceVars /\ [Dial!PunchNext]_punchVars
    BY DEF MCNext, linkVars
  <2> QED
    BY <2>1, RaceStep, PunchStep
<1>3. RaceInv /\ PunchInv => LinksSettle
  BY DEF RaceInv, PunchInv, LinksSettle, Returned, OneHello, Dial!PunchAgrees
<1> QED
  BY <1>1, <1>2, <1>3, PTL DEF MCSpec
=============================================================================
