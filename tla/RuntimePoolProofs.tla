------------------------- MODULE RuntimePoolProofs -------------------------
(***************************************************************************)
(* Proofs about RuntimePool: its type invariant, the accounting of cards,  *)
(* that no session serves two calls, that it implements CardLedger, and    *)
(* its holds: the hold depth is the number of open holds, nothing idle     *)
(* ends while one is open, and nothing is left once all is quiet; for any  *)
(* number of calls, blocks, keys, retries and cards.                       *)
(***************************************************************************)
EXTENDS RuntimePool, FiniteSetTheorems, TLAPS

\* Labels of a call that has not yet been handed a runtime in this attempt.
Before == {"out", "look", "count", "reserve", "create", "boot", "giveback", "decide", "wait"}

\* Labels of a call that still uses the runtime it was handed.
Using == {"run", "release", "dropidle", "discard"}

Dropping == {"unreserve", "stop"}

\* Which thread can be where, and where RuntimePool.discard returns to.
Places ==
  /\ \A c \in Calls : pc[c] \notin {"open", "purge", "dead"}
  /\ \A b \in Blocks : pc[b] \in {"out", "open", "leave", "snapshot", "sweep", "done"} \cup Dropping
  /\ pc[Exit] \in {"out", "purge", "done", "dead"} \cup Dropping
  /\ pc[Exit] = "out" => cand[Exit] = {}
  /\ \A t \in Threads : pc[t] \in Dropping =>
       /\ drop[t] \in Session
       /\ t \in Calls => ret[t] \in {"leave", "sweep", "retry"}
       /\ t \in Blocks => ret[t] = "sweep"
       /\ t = Exit => ret[t] = "purge"
  /\ \A c \in Calls : /\ pc[c] \in Before => rt[c] = None
                      /\ pc[c] \in Using => rt[c] \in Session

\* Call s[1] has been past the start of session s.
Started(s) ==
  \/ s[2] < attempt[s[1]]
  \/ /\ s[2] = attempt[s[1]]
     /\ pc[s[1]] \notin Before
     /\ pc[s[1]] = "uncount" => rt[s[1]] # None

\* Every session that is registered, used or on its way out has been started, so the
\* session an attempt is about to start is none of them.
Fresh ==
  /\ \A s \in bucket : Started(s)
  /\ \A t \in Threads : \A s \in cand[t] : Started(s)
  /\ \A t \in Threads : drop[t] # None => Started(drop[t])
  /\ \A c \in Calls : rt[c] # None => Started(rt[c])

\* A session is in one place only: registered, being dropped by one thread, or waiting
\* for the shutdown.
Apart ==
  /\ \A t \in Leaving : drop[t] \notin bucket /\ drop[t] \notin cand[Exit]
  /\ \A t, u \in Leaving : drop[t] = drop[u] => t = u
  /\ \A s \in bucket : s \notin cand[Exit]

\* A session in use is marked, and has one user.
Served ==
  /\ \A c \in Calls : \A s \in Session : Serves(c, s) => s \in busy
  /\ BusyServed

\* The calls between the increment and the decrement of RuntimePool._starting.
Announced == {c \in Calls : pc[c] \in {"reserve", "create", "boot", "giveback", "uncount"}}

StartsCounted == IsFiniteSet(Announced) /\ starting = Cardinality(Announced)

Shape == TypeOK /\ Places /\ Fresh /\ Apart /\ Served /\ StartsCounted

---------------------------------------------------------------------------
\* The session an attempt starts is a session.
LEMMA MineIsSession ==
  ASSUME TypeOK, NEW c \in Calls
  PROVE  Mine(c) \in Session
  BY DEF TypeOK, Mine, Session

\* The accelerator's start counter is positive wherever it is about to be lowered.
LEMMA UncountPositive ==
  ASSUME StartsCounted, NEW c \in Calls, pc[c] = "uncount"
  PROVE  starting \in Nat \ {0}
  <1>1. c \in Announced
    BY DEF Announced
  <1> QED
    BY <1>1, FS_EmptySet, FS_CardinalityType DEF StartsCounted

\* Every step keeps every variable in its type.
LEMMA TypeStep ==
  ASSUME Shape, [Next]_vars
  PROVE  TypeOK'
<1> USE Threading, Declarations, Inventory
<1> USE DEF Shape, TypeOK, Threads, At, Goto, GotoNotify, Session, SKey, Labels,
            Outcomes, poolVars, cardVars, callVars, workVars
<1>1. ASSUME NEW c \in Calls, EnterCall(c) PROVE TypeOK'
  BY <1>1, SMTT(30) DEF EnterCall
<1>2. ASSUME NEW c \in Calls, EnterMover(c) PROVE TypeOK'
  BY <1>2, ZenonT(30) DEF EnterMover
<1>3. ASSUME NEW c \in Calls, LookFails(c) PROVE TypeOK'
  BY <1>3, SMTT(30) DEF LookFails
<1>4. ASSUME NEW c \in Calls, CountStart(c) PROVE TypeOK'
  BY <1>4, SMTT(30) DEF CountStart
<1>5. ASSUME NEW c \in Calls, Reserve(c) PROVE TypeOK'
  BY <1>5, MineIsSession, SMTT(30) DEF Reserve, Free, IsFirst, Wanted
<1>6. ASSUME NEW c \in Calls, ReserveFails(c) PROVE TypeOK'
  BY <1>6, SMTT(30) DEF ReserveFails
<1>7. ASSUME NEW c \in Calls, ReserveRaises(c) PROVE TypeOK'
  BY <1>7, SMTT(30) DEF ReserveRaises
<1>8. ASSUME NEW c \in Calls, CreateSession(c) PROVE TypeOK'
  BY <1>8, SMTT(30) DEF CreateSession, Mine
<1>9. ASSUME NEW c \in Calls, BootOk(c) PROVE TypeOK'
  BY <1>9, MineIsSession, SMTT(30) DEF BootOk
<1>10. ASSUME NEW c \in Calls, StartFails(c) PROVE TypeOK'
  BY <1>10, SMTT(30) DEF StartFails, Mine
<1>11. ASSUME NEW c \in Calls, GiveBack(c) PROVE TypeOK'
  BY <1>11, SMTT(30) DEF GiveBack, Unreserve, Monus, Mine
<1>12. ASSUME NEW c \in Calls, Uncount(c) PROVE TypeOK'
  <2> HIDE DEF TypeOK, GotoNotify
  <2>1. starting \in Nat \ {0}
    BY <1>12, UncountPositive, SMTT(30) DEF Uncount, At
  <2>2. starting' \in Nat
    BY <1>12, <2>1, SMTT(30) DEF Uncount
  <2>3. pc' \in [Threads -> Labels]
    BY <1>12, SMTT(30) DEF Uncount, GotoNotify, Labels, TypeOK
  <2> QED
    BY <1>12, <2>2, <2>3, SMTT(30) DEF Uncount, TypeOK, workVars, callVars, cardVars
<1>13. ASSUME NEW c \in Calls, Decide(c) PROVE TypeOK'
  BY <1>13, SMTT(30) DEF Decide
<1>14. ASSUME NEW c \in Calls, PollTimeout(c) PROVE TypeOK'
  BY <1>14, SMTT(30) DEF PollTimeout
<1>15. ASSUME NEW c \in Calls, RunEnds(c) PROVE TypeOK'
  BY <1>15, SMTT(30) DEF RunEnds
<1>16. ASSUME NEW c \in Calls, RunFails(c) PROVE TypeOK'
  BY <1>16, SMTT(30) DEF RunFails
<1>17. ASSUME NEW c \in Calls, Release(c) PROVE TypeOK'
  BY <1>17, SMTT(30) DEF Release
<1>18. ASSUME NEW c \in Calls, DropIdle(c) PROVE TypeOK'
  BY <1>18, SMTT(30) DEF DropIdle, MayDropIdle, StartDrop
<1>19. ASSUME NEW c \in Calls, Discard(c) PROVE TypeOK'
  BY <1>19, SMTT(30) DEF Discard, StartDrop
<1>20. ASSUME NEW c \in Calls, Retry(c) PROVE TypeOK'
  <2> HIDE DEF Goto, Session
  <2>1. attempt' \in [Calls -> 0 .. Retries]
    BY <1>20, SMTT(30) DEF Retry, AttemptsLeft, TypeOK
  <2>2. pc' \in [Threads -> Labels] /\ outcome' \in [Calls -> Outcomes]
    BY <1>20, SMTT(30) DEF Retry, TypeOK, Goto, Labels, Outcomes
  <2> QED
    BY <1>20, <2>1, <2>2, SMTT(30) DEF Retry, TypeOK, workVars, poolVars, cardVars
<1>21. ASSUME NEW c \in Calls, NEW s \in Session, Reuse(c, s)
      PROVE TypeOK'
  BY <1>21, SMTT(30) DEF Reuse
<1>22. ASSUME NEW b \in Blocks, OpenBlock(b) PROVE TypeOK'
  BY <1>22, SMTT(30) DEF OpenBlock
<1>23. ASSUME NEW b \in Blocks, CloseBlock(b) PROVE TypeOK'
  BY <1>23, SMTT(30) DEF CloseBlock
<1>24. ASSUME NEW t \in Calls \cup Blocks, Leave(t) PROVE TypeOK'
  BY <1>24, SMTT(30) DEF Leave, Monus
<1>25. ASSUME NEW t \in Calls \cup Blocks, Snapshot(t) PROVE TypeOK'
  BY <1>25, SMTT(30) DEF Snapshot
<1>26. ASSUME NEW t \in Calls \cup Blocks, SweepDone(t) PROVE TypeOK'
  BY <1>26, SMTT(30) DEF SweepDone
<1>27. ASSUME NEW t \in Calls \cup Blocks, NEW s \in Session, Sweep(t, s)
      PROVE TypeOK'
  <2>1. cand' \in [Threads -> SUBSET Session]
    BY <1>27, SMTT(30) DEF Sweep, TypeOK
  <2>2. bucket' \subseteq Session /\ drop' \in [Threads -> Session \cup {None}]
    BY <1>27, SMTT(30) DEF Sweep, TypeOK, StartDrop
  <2>3. pc' \in [Threads -> Labels] /\ ret' \in [Threads -> Labels]
    BY <1>27, SMTT(30) DEF Sweep, TypeOK, StartDrop, Goto, Labels
  <2> QED
    BY <1>27, <2>1, <2>2, <2>3, SMTT(30) DEF Sweep, TypeOK, callVars, cardVars
<1>28. ASSUME NEW t \in Threads, DropUnreserve(t) PROVE TypeOK'
  <2>1. drop[t] \in Session
    BY <1>28, SMTT(30) DEF DropUnreserve, At, Places, Dropping
  <2> QED
    BY <1>28, <2>1, SMTT(30) DEF DropUnreserve, Unreserve, Monus
<1>29. ASSUME NEW t \in Threads, DropStop(t) PROVE TypeOK'
  BY <1>29, SMTT(30) DEF DropStop
<1>30. ASSUME Shutdown PROVE TypeOK'
  BY <1>30, SMTT(30) DEF Shutdown
<1>31. ASSUME NEW s \in Session, Purge(s) PROVE TypeOK'
  BY <1>31, SMTT(30) DEF Purge
<1>32. ASSUME PurgeDone PROVE TypeOK'
  BY <1>32, SMTT(30) DEF PurgeDone
<1>33. ASSUME NEW i \in Shared, OtherTakes(i) PROVE TypeOK'
  BY <1>33, SMTT(30) DEF OtherTakes
<1>34. ASSUME NEW i \in Shared, OtherLeaves(i) PROVE TypeOK'
  BY <1>34, SMTT(30) DEF OtherLeaves
<1>35. CASE UNCHANGED vars
  BY <1>35, SMTT(30) DEF vars
<1> QED
  BY <1>1, <1>2, <1>3, <1>4, <1>5, <1>6, <1>7, <1>8, <1>9, <1>10, <1>11, <1>12, <1>13,
      <1>14, <1>15, <1>16, <1>17, <1>18, <1>19, <1>20, <1>21, <1>22, <1>23, <1>24,
      <1>25, <1>26, <1>27, <1>28, <1>29, <1>30, <1>31, <1>32, <1>33, <1>34, <1>35
     DEF Next, CallStep, BlockStep, EndStep, DropStep, ExitStep, OtherStep

\* Every step keeps the threads in their places.
LEMMA PlacesStep ==
  ASSUME Shape, [Next]_vars
  PROVE  Places'
<1> USE Threading, Declarations
<1> USE DEF Shape, Places, Before, Using, Dropping, TypeOK, Threads, At, Goto,
            GotoNotify, poolVars, cardVars, callVars, workVars
<1>1. ASSUME NEW c \in Calls, EnterCall(c) PROVE Places'
  BY <1>1 DEF EnterCall
<1>2. ASSUME NEW c \in Calls, EnterMover(c) PROVE Places'
  BY <1>2 DEF EnterMover
<1>3. ASSUME NEW c \in Calls, LookFails(c) PROVE Places'
  BY <1>3 DEF LookFails
<1>4. ASSUME NEW c \in Calls, CountStart(c) PROVE Places'
  BY <1>4 DEF CountStart
<1>5. ASSUME NEW c \in Calls, Reserve(c) PROVE Places'
  BY <1>5 DEF Reserve
<1>6. ASSUME NEW c \in Calls, ReserveFails(c) PROVE Places'
  BY <1>6 DEF ReserveFails
<1>7. ASSUME NEW c \in Calls, ReserveRaises(c) PROVE Places'
  BY <1>7 DEF ReserveRaises
<1>8. ASSUME NEW c \in Calls, CreateSession(c) PROVE Places'
  BY <1>8 DEF CreateSession
<1>9. ASSUME NEW c \in Calls, BootOk(c) PROVE Places'
  BY <1>9, MineIsSession DEF BootOk
<1>10. ASSUME NEW c \in Calls, StartFails(c) PROVE Places'
  BY <1>10 DEF StartFails
<1>11. ASSUME NEW c \in Calls, GiveBack(c) PROVE Places'
  BY <1>11 DEF GiveBack
<1>12. ASSUME NEW c \in Calls, Uncount(c) PROVE Places'
  BY <1>12 DEF Uncount
<1>13. ASSUME NEW c \in Calls, Decide(c) PROVE Places'
  BY <1>13 DEF Decide
<1>14. ASSUME NEW c \in Calls, PollTimeout(c) PROVE Places'
  BY <1>14 DEF PollTimeout
<1>15. ASSUME NEW c \in Calls, RunEnds(c) PROVE Places'
  BY <1>15 DEF RunEnds
<1>16. ASSUME NEW c \in Calls, RunFails(c) PROVE Places'
  BY <1>16 DEF RunFails
<1>17. ASSUME NEW c \in Calls, Release(c) PROVE Places'
  BY <1>17 DEF Release
<1>18. ASSUME NEW c \in Calls, DropIdle(c) PROVE Places'
  BY <1>18 DEF DropIdle, MayDropIdle, StartDrop
<1>19. ASSUME NEW c \in Calls, Discard(c) PROVE Places'
  BY <1>19 DEF Discard, StartDrop
<1>20. ASSUME NEW c \in Calls, Retry(c) PROVE Places'
  BY <1>20 DEF Retry
<1>21. ASSUME NEW c \in Calls, NEW s \in Session, Reuse(c, s)
      PROVE Places'
  BY <1>21 DEF Reuse
<1>22. ASSUME NEW b \in Blocks, OpenBlock(b) PROVE Places'
  BY <1>22 DEF OpenBlock
<1>23. ASSUME NEW b \in Blocks, CloseBlock(b) PROVE Places'
  BY <1>23 DEF CloseBlock
<1>24. ASSUME NEW t \in Calls \cup Blocks, Leave(t) PROVE Places'
  BY <1>24 DEF Leave
<1>25. ASSUME NEW t \in Calls \cup Blocks, Snapshot(t) PROVE Places'
  BY <1>25 DEF Snapshot
<1>26. ASSUME NEW t \in Calls \cup Blocks, SweepDone(t) PROVE Places'
  BY <1>26 DEF SweepDone
<1>27. ASSUME NEW t \in Calls \cup Blocks, NEW s \in Session, Sweep(t, s)
      PROVE Places'
  BY <1>27 DEF Sweep, MayDropIdle, StartDrop
<1>28. ASSUME NEW t \in Threads, DropUnreserve(t) PROVE Places'
  BY <1>28 DEF DropUnreserve
<1>29. ASSUME NEW t \in Threads, DropStop(t) PROVE Places'
  BY <1>29 DEF DropStop
<1>30. ASSUME Shutdown PROVE Places'
  BY <1>30 DEF Shutdown
<1>31. ASSUME NEW s \in Session, Purge(s) PROVE Places'
  BY <1>31 DEF Purge
<1>32. ASSUME PurgeDone PROVE Places'
  BY <1>32 DEF PurgeDone
<1>33. ASSUME NEW i \in Shared, OtherTakes(i) PROVE Places'
  BY <1>33 DEF OtherTakes
<1>34. ASSUME NEW i \in Shared, OtherLeaves(i) PROVE Places'
  BY <1>34 DEF OtherLeaves
<1>35. CASE UNCHANGED vars
  BY <1>35 DEF vars
<1> QED
  BY <1>1, <1>2, <1>3, <1>4, <1>5, <1>6, <1>7, <1>8, <1>9, <1>10, <1>11, <1>12, <1>13,
      <1>14, <1>15, <1>16, <1>17, <1>18, <1>19, <1>20, <1>21, <1>22, <1>23, <1>24,
      <1>25, <1>26, <1>27, <1>28, <1>29, <1>30, <1>31, <1>32, <1>33, <1>34, <1>35
     DEF Next, CallStep, BlockStep, EndStep, DropStep, ExitStep, OtherStep

\* Every step keeps count of the sessions being started.
LEMMA CountedStep ==
  ASSUME Shape, [Next]_vars
  PROVE  StartsCounted'
<1> USE Threading, Declarations
<1> SUFFICES \/ Announced' = Announced /\ starting' = starting
             \/ \E c \in Calls : /\ c \notin Announced /\ Announced' = Announced \cup {c}
                                 /\ starting' = starting + 1
             \/ \E c \in Calls : /\ c \in Announced /\ Announced' = Announced \ {c}
                                 /\ starting' = starting - 1
  BY FS_AddElement, FS_RemoveElement, FS_CardinalityType DEF StartsCounted, Shape
<1> USE DEF Shape, Announced, TypeOK, Threads, At, Goto, GotoNotify, poolVars, cardVars,
            callVars, workVars
<1>1. ASSUME NEW c \in Calls, EnterCall(c) PROVE Announced' = Announced /\ starting' = starting
  BY <1>1 DEF EnterCall
<1>2. ASSUME NEW c \in Calls, EnterMover(c) PROVE Announced' = Announced /\ starting' = starting
  BY <1>2 DEF EnterMover
<1>3. ASSUME NEW c \in Calls, LookFails(c) PROVE Announced' = Announced /\ starting' = starting
  BY <1>3 DEF LookFails
<1>4. ASSUME NEW c \in Calls, CountStart(c)
      PROVE  /\ c \notin Announced /\ Announced' = Announced \cup {c}
             /\ starting' = starting + 1
  BY <1>4 DEF CountStart
<1>5. ASSUME NEW c \in Calls, Reserve(c) PROVE Announced' = Announced /\ starting' = starting
  BY <1>5 DEF Reserve
<1>6. ASSUME NEW c \in Calls, ReserveFails(c) PROVE Announced' = Announced /\ starting' = starting
  BY <1>6 DEF ReserveFails
<1>7. ASSUME NEW c \in Calls, ReserveRaises(c) PROVE Announced' = Announced /\ starting' = starting
  BY <1>7 DEF ReserveRaises
<1>8. ASSUME NEW c \in Calls, CreateSession(c) PROVE Announced' = Announced /\ starting' = starting
  BY <1>8 DEF CreateSession
<1>9. ASSUME NEW c \in Calls, BootOk(c) PROVE Announced' = Announced /\ starting' = starting
  BY <1>9 DEF BootOk
<1>10. ASSUME NEW c \in Calls, StartFails(c) PROVE Announced' = Announced /\ starting' = starting
  BY <1>10 DEF StartFails
<1>11. ASSUME NEW c \in Calls, GiveBack(c) PROVE Announced' = Announced /\ starting' = starting
  BY <1>11 DEF GiveBack
<1>12. ASSUME NEW c \in Calls, Uncount(c)
      PROVE  /\ c \in Announced /\ Announced' = Announced \ {c}
             /\ starting' = starting - 1
  BY <1>12 DEF Uncount
<1>13. ASSUME NEW c \in Calls, Decide(c) PROVE Announced' = Announced /\ starting' = starting
  BY <1>13 DEF Decide
<1>14. ASSUME NEW c \in Calls, PollTimeout(c) PROVE Announced' = Announced /\ starting' = starting
  BY <1>14 DEF PollTimeout
<1>15. ASSUME NEW c \in Calls, RunEnds(c) PROVE Announced' = Announced /\ starting' = starting
  BY <1>15 DEF RunEnds
<1>16. ASSUME NEW c \in Calls, RunFails(c) PROVE Announced' = Announced /\ starting' = starting
  BY <1>16 DEF RunFails
<1>17. ASSUME NEW c \in Calls, Release(c) PROVE Announced' = Announced /\ starting' = starting
  BY <1>17 DEF Release
<1>18. ASSUME NEW c \in Calls, DropIdle(c) PROVE Announced' = Announced /\ starting' = starting
  BY <1>18 DEF DropIdle
<1>19. ASSUME NEW c \in Calls, Discard(c) PROVE Announced' = Announced /\ starting' = starting
  BY <1>19 DEF Discard
<1>20. ASSUME NEW c \in Calls, Retry(c) PROVE Announced' = Announced /\ starting' = starting
  BY <1>20 DEF Retry
<1>21. ASSUME NEW c \in Calls, NEW s \in Session, Reuse(c, s)
      PROVE Announced' = Announced /\ starting' = starting
  BY <1>21 DEF Reuse
<1>22. ASSUME NEW b \in Blocks, OpenBlock(b) PROVE Announced' = Announced /\ starting' = starting
  BY <1>22 DEF OpenBlock
<1>23. ASSUME NEW b \in Blocks, CloseBlock(b) PROVE Announced' = Announced /\ starting' = starting
  BY <1>23 DEF CloseBlock
<1>24. ASSUME NEW t \in Calls \cup Blocks, Leave(t) PROVE Announced' = Announced /\ starting' = starting
  BY <1>24 DEF Leave
<1>25. ASSUME NEW t \in Calls \cup Blocks, Snapshot(t) PROVE Announced' = Announced /\ starting' = starting
  BY <1>25 DEF Snapshot
<1>26. ASSUME NEW t \in Calls \cup Blocks, SweepDone(t) PROVE Announced' = Announced /\ starting' = starting
  BY <1>26 DEF SweepDone
<1>27. ASSUME NEW t \in Calls \cup Blocks, NEW s \in Session, Sweep(t, s)
      PROVE Announced' = Announced /\ starting' = starting
  BY <1>27 DEF Sweep
<1>28. ASSUME NEW t \in Threads, DropUnreserve(t) PROVE Announced' = Announced /\ starting' = starting
  BY <1>28 DEF DropUnreserve
<1>29. ASSUME NEW t \in Threads, DropStop(t) PROVE Announced' = Announced /\ starting' = starting
  BY <1>29 DEF DropStop, Places, Dropping
<1>30. ASSUME Shutdown PROVE Announced' = Announced /\ starting' = starting
  BY <1>30 DEF Shutdown
<1>31. ASSUME NEW s \in Session, Purge(s) PROVE Announced' = Announced /\ starting' = starting
  BY <1>31 DEF Purge
<1>32. ASSUME PurgeDone PROVE Announced' = Announced /\ starting' = starting
  BY <1>32 DEF PurgeDone
<1>33. ASSUME NEW i \in Shared, OtherTakes(i) PROVE Announced' = Announced /\ starting' = starting
  BY <1>33 DEF OtherTakes
<1>34. ASSUME NEW i \in Shared, OtherLeaves(i) PROVE Announced' = Announced /\ starting' = starting
  BY <1>34 DEF OtherLeaves
<1>35. CASE UNCHANGED vars
  BY <1>35 DEF vars
<1> QED
  BY <1>1, <1>2, <1>3, <1>4, <1>5, <1>6, <1>7, <1>8, <1>9, <1>10, <1>11, <1>12, <1>13,
      <1>14, <1>15, <1>16, <1>17, <1>18, <1>19, <1>20, <1>21, <1>22, <1>23, <1>24,
      <1>25, <1>26, <1>27, <1>28, <1>29, <1>30, <1>31, <1>32, <1>33, <1>34, <1>35
     DEF Next, CallStep, BlockStep, EndStep, DropStep, ExitStep, OtherStep

\* A session whose start lies behind its call stays so.
LEMMA StartedStep ==
  ASSUME Shape, [Next]_vars, NEW x \in Session, Started(x)
  PROVE  Started(x)'
<1> USE Threading, Declarations
<1> USE DEF Shape, Started, Before, TypeOK, Threads, At, Goto, GotoNotify, Session,
            poolVars, cardVars, callVars, workVars
<1>1. ASSUME NEW c \in Calls, EnterCall(c) PROVE Started(x)'
  BY <1>1 DEF EnterCall
<1>2. ASSUME NEW c \in Calls, EnterMover(c) PROVE Started(x)'
  BY <1>2 DEF EnterMover
<1>3. ASSUME NEW c \in Calls, LookFails(c) PROVE Started(x)'
  BY <1>3 DEF LookFails
<1>4. ASSUME NEW c \in Calls, CountStart(c) PROVE Started(x)'
  BY <1>4 DEF CountStart
<1>5. ASSUME NEW c \in Calls, Reserve(c) PROVE Started(x)'
  BY <1>5 DEF Reserve
<1>6. ASSUME NEW c \in Calls, ReserveFails(c) PROVE Started(x)'
  BY <1>6 DEF ReserveFails
<1>7. ASSUME NEW c \in Calls, ReserveRaises(c) PROVE Started(x)'
  BY <1>7 DEF ReserveRaises
<1>8. ASSUME NEW c \in Calls, CreateSession(c) PROVE Started(x)'
  BY <1>8 DEF CreateSession
<1>9. ASSUME NEW c \in Calls, BootOk(c) PROVE Started(x)'
  BY <1>9 DEF BootOk, Mine
<1>10. ASSUME NEW c \in Calls, StartFails(c) PROVE Started(x)'
  BY <1>10 DEF StartFails
<1>11. ASSUME NEW c \in Calls, GiveBack(c) PROVE Started(x)'
  BY <1>11 DEF GiveBack
<1>12. ASSUME NEW c \in Calls, Uncount(c) PROVE Started(x)'
  BY <1>12 DEF Uncount
<1>13. ASSUME NEW c \in Calls, Decide(c) PROVE Started(x)'
  BY <1>13 DEF Decide
<1>14. ASSUME NEW c \in Calls, PollTimeout(c) PROVE Started(x)'
  BY <1>14 DEF PollTimeout
<1>15. ASSUME NEW c \in Calls, RunEnds(c) PROVE Started(x)'
  BY <1>15 DEF RunEnds
<1>16. ASSUME NEW c \in Calls, RunFails(c) PROVE Started(x)'
  BY <1>16 DEF RunFails
<1>17. ASSUME NEW c \in Calls, Release(c) PROVE Started(x)'
  BY <1>17 DEF Release
<1>18. ASSUME NEW c \in Calls, DropIdle(c) PROVE Started(x)'
  BY <1>18 DEF DropIdle
<1>19. ASSUME NEW c \in Calls, Discard(c) PROVE Started(x)'
  BY <1>19 DEF Discard
<1>20. ASSUME NEW c \in Calls, Retry(c) PROVE Started(x)'
  BY <1>20 DEF Retry
<1>21. ASSUME NEW c \in Calls, NEW s \in Session, Reuse(c, s)
      PROVE Started(x)'
  BY <1>21 DEF Reuse
<1>22. ASSUME NEW b \in Blocks, OpenBlock(b) PROVE Started(x)'
  BY <1>22 DEF OpenBlock
<1>23. ASSUME NEW b \in Blocks, CloseBlock(b) PROVE Started(x)'
  BY <1>23 DEF CloseBlock
<1>24. ASSUME NEW t \in Calls \cup Blocks, Leave(t) PROVE Started(x)'
  BY <1>24 DEF Leave
<1>25. ASSUME NEW t \in Calls \cup Blocks, Snapshot(t) PROVE Started(x)'
  BY <1>25 DEF Snapshot
<1>26. ASSUME NEW t \in Calls \cup Blocks, SweepDone(t) PROVE Started(x)'
  BY <1>26 DEF SweepDone
<1>27. ASSUME NEW t \in Calls \cup Blocks, NEW s \in Session, Sweep(t, s)
      PROVE Started(x)'
  BY <1>27 DEF Sweep
<1>28. ASSUME NEW t \in Threads, DropUnreserve(t) PROVE Started(x)'
  BY <1>28 DEF DropUnreserve
<1>29. ASSUME NEW t \in Threads, DropStop(t) PROVE Started(x)'
  BY <1>29 DEF DropStop, Places, Dropping
<1>30. ASSUME Shutdown PROVE Started(x)'
  BY <1>30 DEF Shutdown
<1>31. ASSUME NEW s \in Session, Purge(s) PROVE Started(x)'
  BY <1>31 DEF Purge
<1>32. ASSUME PurgeDone PROVE Started(x)'
  BY <1>32 DEF PurgeDone
<1>33. ASSUME NEW i \in Shared, OtherTakes(i) PROVE Started(x)'
  BY <1>33 DEF OtherTakes
<1>34. ASSUME NEW i \in Shared, OtherLeaves(i) PROVE Started(x)'
  BY <1>34 DEF OtherLeaves
<1>35. CASE UNCHANGED vars
  BY <1>35 DEF vars
<1> QED
  BY <1>1, <1>2, <1>3, <1>4, <1>5, <1>6, <1>7, <1>8, <1>9, <1>10, <1>11, <1>12, <1>13,
      <1>14, <1>15, <1>16, <1>17, <1>18, <1>19, <1>20, <1>21, <1>22, <1>23, <1>24,
      <1>25, <1>26, <1>27, <1>28, <1>29, <1>30, <1>31, <1>32, <1>33, <1>34, <1>35
     DEF Next, CallStep, BlockStep, EndStep, DropStep, ExitStep, OtherStep

\* A session that was just started is registered, used or dropped only after its start.
LEMMA FreshStep ==
  ASSUME Shape, [Next]_vars
  PROVE  Fresh'
<1> USE Threading, Declarations
<1> USE DEF Shape, Fresh, TypeOK, Threads, At, poolVars, cardVars, callVars, workVars
<1>0. \A x \in Session : Started(x) => Started(x)'
  BY StartedStep
<1>1. ASSUME NEW c \in Calls, EnterCall(c) PROVE Fresh'
  BY <1>1, <1>0 DEF EnterCall
<1>2. ASSUME NEW c \in Calls, EnterMover(c) PROVE Fresh'
  BY <1>2, <1>0 DEF EnterMover
<1>3. ASSUME NEW c \in Calls, LookFails(c) PROVE Fresh'
  BY <1>3, <1>0 DEF LookFails
<1>4. ASSUME NEW c \in Calls, CountStart(c) PROVE Fresh'
  BY <1>4, <1>0 DEF CountStart
<1>5. ASSUME NEW c \in Calls, Reserve(c) PROVE Fresh'
  BY <1>5, <1>0 DEF Reserve
<1>6. ASSUME NEW c \in Calls, ReserveFails(c) PROVE Fresh'
  BY <1>6, <1>0 DEF ReserveFails
<1>7. ASSUME NEW c \in Calls, ReserveRaises(c) PROVE Fresh'
  BY <1>7, <1>0 DEF ReserveRaises
<1>8. ASSUME NEW c \in Calls, CreateSession(c) PROVE Fresh'
  BY <1>8, <1>0 DEF CreateSession
<1>9. ASSUME NEW c \in Calls, BootOk(c) PROVE Fresh'
  <2>1. PICK m \in Session : m = Mine(c)
    BY MineIsSession
  <2>2. Started(m)'
    BY <1>9, <2>1 DEF BootOk, Started, Mine, Before, TypeOK, Threads, At, Goto, Session
  <2> QED
    BY <1>9, <1>0, <2>1, <2>2 DEF BootOk, Fresh, TypeOK, workVars
<1>10. ASSUME NEW c \in Calls, StartFails(c) PROVE Fresh'
  BY <1>10, <1>0 DEF StartFails
<1>11. ASSUME NEW c \in Calls, GiveBack(c) PROVE Fresh'
  BY <1>11, <1>0 DEF GiveBack
<1>12. ASSUME NEW c \in Calls, Uncount(c) PROVE Fresh'
  BY <1>12, <1>0 DEF Uncount
<1>13. ASSUME NEW c \in Calls, Decide(c) PROVE Fresh'
  BY <1>13, <1>0 DEF Decide
<1>14. ASSUME NEW c \in Calls, PollTimeout(c) PROVE Fresh'
  BY <1>14, <1>0 DEF PollTimeout
<1>15. ASSUME NEW c \in Calls, RunEnds(c) PROVE Fresh'
  BY <1>15, <1>0 DEF RunEnds
<1>16. ASSUME NEW c \in Calls, RunFails(c) PROVE Fresh'
  BY <1>16, <1>0 DEF RunFails
<1>17. ASSUME NEW c \in Calls, Release(c) PROVE Fresh'
  BY <1>17, <1>0 DEF Release
<1>18. ASSUME NEW c \in Calls, DropIdle(c) PROVE Fresh'
  BY <1>18, <1>0 DEF DropIdle, StartDrop, MayDropIdle
<1>19. ASSUME NEW c \in Calls, Discard(c) PROVE Fresh'
  BY <1>19, <1>0 DEF Discard, StartDrop, Places, Using
<1>20. ASSUME NEW c \in Calls, Retry(c) PROVE Fresh'
  BY <1>20, <1>0 DEF Retry
<1>21. ASSUME NEW c \in Calls, NEW s \in Session, Reuse(c, s)
      PROVE Fresh'
  BY <1>21, <1>0 DEF Reuse
<1>22. ASSUME NEW b \in Blocks, OpenBlock(b) PROVE Fresh'
  BY <1>22, <1>0 DEF OpenBlock
<1>23. ASSUME NEW b \in Blocks, CloseBlock(b) PROVE Fresh'
  BY <1>23, <1>0 DEF CloseBlock
<1>24. ASSUME NEW t \in Calls \cup Blocks, Leave(t) PROVE Fresh'
  BY <1>24, <1>0 DEF Leave
<1>25. ASSUME NEW t \in Calls \cup Blocks, Snapshot(t) PROVE Fresh'
  BY <1>25, <1>0 DEF Snapshot
<1>26. ASSUME NEW t \in Calls \cup Blocks, SweepDone(t) PROVE Fresh'
  BY <1>26, <1>0 DEF SweepDone
<1>27. ASSUME NEW t \in Calls \cup Blocks, NEW s \in Session, Sweep(t, s)
      PROVE Fresh'
  BY <1>27, <1>0 DEF Sweep, StartDrop
<1>28. ASSUME NEW t \in Threads, DropUnreserve(t) PROVE Fresh'
  BY <1>28, <1>0 DEF DropUnreserve
<1>29. ASSUME NEW t \in Threads, DropStop(t) PROVE Fresh'
  BY <1>29, <1>0 DEF DropStop
<1>30. ASSUME Shutdown PROVE Fresh'
  BY <1>30, <1>0 DEF Shutdown
<1>31. ASSUME NEW s \in Session, Purge(s) PROVE Fresh'
  BY <1>31, <1>0 DEF Purge
<1>32. ASSUME PurgeDone PROVE Fresh'
  BY <1>32, <1>0 DEF PurgeDone
<1>33. ASSUME NEW i \in Shared, OtherTakes(i) PROVE Fresh'
  BY <1>33, <1>0 DEF OtherTakes
<1>34. ASSUME NEW i \in Shared, OtherLeaves(i) PROVE Fresh'
  BY <1>34, <1>0 DEF OtherLeaves
<1>35. CASE UNCHANGED vars
  BY <1>35, <1>0 DEF vars
<1> QED
  BY <1>1, <1>2, <1>3, <1>4, <1>5, <1>6, <1>7, <1>8, <1>9, <1>10, <1>11, <1>12, <1>13,
      <1>14, <1>15, <1>16, <1>17, <1>18, <1>19, <1>20, <1>21, <1>22, <1>23, <1>24,
      <1>25, <1>26, <1>27, <1>28, <1>29, <1>30, <1>31, <1>32, <1>33, <1>34, <1>35
     DEF Next, CallStep, BlockStep, EndStep, DropStep, ExitStep, OtherStep

\* Every step leaves every session in one place.
LEMMA ApartStep ==
  ASSUME Shape, [Next]_vars
  PROVE  Apart'
<1> USE Threading, Declarations
<1> USE DEF Shape, Apart, Leaving, TypeOK, Threads, At, Goto, GotoNotify, poolVars,
            cardVars, callVars, workVars
<1>1. ASSUME NEW c \in Calls, EnterCall(c) PROVE Apart'
  BY <1>1 DEF EnterCall
<1>2. ASSUME NEW c \in Calls, EnterMover(c) PROVE Apart'
  BY <1>2 DEF EnterMover
<1>3. ASSUME NEW c \in Calls, LookFails(c) PROVE Apart'
  BY <1>3 DEF LookFails
<1>4. ASSUME NEW c \in Calls, CountStart(c) PROVE Apart'
  BY <1>4 DEF CountStart
<1>5. ASSUME NEW c \in Calls, Reserve(c) PROVE Apart'
  BY <1>5 DEF Reserve
<1>6. ASSUME NEW c \in Calls, ReserveFails(c) PROVE Apart'
  BY <1>6 DEF ReserveFails
<1>7. ASSUME NEW c \in Calls, ReserveRaises(c) PROVE Apart'
  BY <1>7 DEF ReserveRaises
<1>8. ASSUME NEW c \in Calls, CreateSession(c) PROVE Apart'
  BY <1>8 DEF CreateSession
<1>9. ASSUME NEW c \in Calls, BootOk(c) PROVE Apart'
  <2>1. ~Started(Mine(c))
    BY <1>9 DEF BootOk, Started, Mine, Before, At, TypeOK
  <2> QED
    BY <1>9, <2>1, MineIsSession
    DEF BootOk, Apart, Leaving, Fresh, TypeOK, Threads, At, Goto, workVars
<1>10. ASSUME NEW c \in Calls, StartFails(c) PROVE Apart'
  BY <1>10 DEF StartFails
<1>11. ASSUME NEW c \in Calls, GiveBack(c) PROVE Apart'
  BY <1>11 DEF GiveBack
<1>12. ASSUME NEW c \in Calls, Uncount(c) PROVE Apart'
  BY <1>12 DEF Uncount
<1>13. ASSUME NEW c \in Calls, Decide(c) PROVE Apart'
  BY <1>13 DEF Decide
<1>14. ASSUME NEW c \in Calls, PollTimeout(c) PROVE Apart'
  BY <1>14 DEF PollTimeout
<1>15. ASSUME NEW c \in Calls, RunEnds(c) PROVE Apart'
  BY <1>15 DEF RunEnds
<1>16. ASSUME NEW c \in Calls, RunFails(c) PROVE Apart'
  BY <1>16 DEF RunFails
<1>17. ASSUME NEW c \in Calls, Release(c) PROVE Apart'
  BY <1>17 DEF Release
<1>18. ASSUME NEW c \in Calls, DropIdle(c) PROVE Apart'
  BY <1>18 DEF DropIdle, StartDrop, MayDropIdle
<1>19. ASSUME NEW c \in Calls, Discard(c) PROVE Apart'
  BY <1>19 DEF Discard, StartDrop
<1>20. ASSUME NEW c \in Calls, Retry(c) PROVE Apart'
  BY <1>20 DEF Retry
<1>21. ASSUME NEW c \in Calls, NEW s \in Session, Reuse(c, s)
      PROVE Apart'
  BY <1>21 DEF Reuse
<1>22. ASSUME NEW b \in Blocks, OpenBlock(b) PROVE Apart'
  BY <1>22 DEF OpenBlock
<1>23. ASSUME NEW b \in Blocks, CloseBlock(b) PROVE Apart'
  BY <1>23 DEF CloseBlock
<1>24. ASSUME NEW t \in Calls \cup Blocks, Leave(t) PROVE Apart'
  BY <1>24 DEF Leave
<1>25. ASSUME NEW t \in Calls \cup Blocks, Snapshot(t) PROVE Apart'
  BY <1>25 DEF Snapshot
<1>26. ASSUME NEW t \in Calls \cup Blocks, SweepDone(t) PROVE Apart'
  BY <1>26 DEF SweepDone
<1>27. ASSUME NEW t \in Calls \cup Blocks, NEW s \in Session, Sweep(t, s)
      PROVE Apart'
  BY <1>27 DEF Sweep, StartDrop, MayDropIdle
<1>28. ASSUME NEW t \in Threads, DropUnreserve(t) PROVE Apart'
  BY <1>28 DEF DropUnreserve
<1>29. ASSUME NEW t \in Threads, DropStop(t) PROVE Apart'
  BY <1>29 DEF DropStop, Places, Dropping
<1>30. ASSUME Shutdown PROVE Apart'
  BY <1>30 DEF Shutdown, Places
<1>31. ASSUME NEW s \in Session, Purge(s) PROVE Apart'
  BY <1>31 DEF Purge
<1>32. ASSUME PurgeDone PROVE Apart'
  BY <1>32 DEF PurgeDone
<1>33. ASSUME NEW i \in Shared, OtherTakes(i) PROVE Apart'
  BY <1>33 DEF OtherTakes
<1>34. ASSUME NEW i \in Shared, OtherLeaves(i) PROVE Apart'
  BY <1>34 DEF OtherLeaves
<1>35. CASE UNCHANGED vars
  BY <1>35 DEF vars
<1> QED
  BY <1>1, <1>2, <1>3, <1>4, <1>5, <1>6, <1>7, <1>8, <1>9, <1>10, <1>11, <1>12, <1>13,
      <1>14, <1>15, <1>16, <1>17, <1>18, <1>19, <1>20, <1>21, <1>22, <1>23, <1>24,
      <1>25, <1>26, <1>27, <1>28, <1>29, <1>30, <1>31, <1>32, <1>33, <1>34, <1>35
     DEF Next, CallStep, BlockStep, EndStep, DropStep, ExitStep, OtherStep

\* Every step keeps one user for every session in use.
LEMMA ServedStep ==
  ASSUME Shape, [Next]_vars
  PROVE  Served'
<1> USE Threading, Declarations
<1> USE DEF Shape, Served, BusyServed, Serves, TypeOK, Threads, At, Goto, GotoNotify,
            poolVars, cardVars, callVars, workVars
<1>1. ASSUME NEW c \in Calls, EnterCall(c) PROVE Served'
  BY <1>1 DEF EnterCall
<1>2. ASSUME NEW c \in Calls, EnterMover(c) PROVE Served'
  BY <1>2 DEF EnterMover
<1>3. ASSUME NEW c \in Calls, LookFails(c) PROVE Served'
  BY <1>3 DEF LookFails
<1>4. ASSUME NEW c \in Calls, CountStart(c) PROVE Served'
  BY <1>4 DEF CountStart
<1>5. ASSUME NEW c \in Calls, Reserve(c) PROVE Served'
  BY <1>5 DEF Reserve
<1>6. ASSUME NEW c \in Calls, ReserveFails(c) PROVE Served'
  BY <1>6 DEF ReserveFails, Places, Before
<1>7. ASSUME NEW c \in Calls, ReserveRaises(c) PROVE Served'
  BY <1>7 DEF ReserveRaises, Places, Before
<1>8. ASSUME NEW c \in Calls, CreateSession(c) PROVE Served'
  BY <1>8 DEF CreateSession
<1>9. ASSUME NEW c \in Calls, BootOk(c) PROVE Served'
  <2>1. \A d \in Calls : rt[d] # Mine(c)
    BY <1>9, MineIsSession, SMTT(30) DEF BootOk, Fresh, Started, Mine, Before, At, TypeOK
  <2> QED
    BY <1>9, <2>1, MineIsSession, SMTT(30)
    DEF BootOk, Served, BusyServed, Serves, TypeOK, Threads, At, Goto, workVars
<1>10. ASSUME NEW c \in Calls, StartFails(c) PROVE Served'
  BY <1>10 DEF StartFails
<1>11. ASSUME NEW c \in Calls, GiveBack(c) PROVE Served'
  BY <1>11 DEF GiveBack, Places, Before
<1>12. ASSUME NEW c \in Calls, Uncount(c) PROVE Served'
  BY <1>12 DEF Uncount, Places, Before
<1>13. ASSUME NEW c \in Calls, Decide(c) PROVE Served'
  BY <1>13 DEF Decide
<1>14. ASSUME NEW c \in Calls, PollTimeout(c) PROVE Served'
  BY <1>14 DEF PollTimeout
<1>15. ASSUME NEW c \in Calls, RunEnds(c) PROVE Served'
  BY <1>15 DEF RunEnds
<1>16. ASSUME NEW c \in Calls, RunFails(c) PROVE Served'
  BY <1>16 DEF RunFails
<1>17. ASSUME NEW c \in Calls, Release(c) PROVE Served'
  BY <1>17 DEF Release
<1>18. ASSUME NEW c \in Calls, DropIdle(c) PROVE Served'
  BY <1>18 DEF DropIdle, StartDrop, MayDropIdle
<1>19. ASSUME NEW c \in Calls, Discard(c) PROVE Served'
  BY <1>19 DEF Discard, StartDrop
<1>20. ASSUME NEW c \in Calls, Retry(c) PROVE Served'
  BY <1>20 DEF Retry
<1>21. ASSUME NEW c \in Calls, NEW s \in Session, Reuse(c, s)
      PROVE Served'
  BY <1>21 DEF Reuse
<1>22. ASSUME NEW b \in Blocks, OpenBlock(b) PROVE Served'
  BY <1>22 DEF OpenBlock
<1>23. ASSUME NEW b \in Blocks, CloseBlock(b) PROVE Served'
  BY <1>23 DEF CloseBlock
<1>24. ASSUME NEW t \in Calls \cup Blocks, Leave(t) PROVE Served'
  BY <1>24 DEF Leave
<1>25. ASSUME NEW t \in Calls \cup Blocks, Snapshot(t) PROVE Served'
  BY <1>25 DEF Snapshot
<1>26. ASSUME NEW t \in Calls \cup Blocks, SweepDone(t) PROVE Served'
  BY <1>26 DEF SweepDone
<1>27. ASSUME NEW t \in Calls \cup Blocks, NEW s \in Session, Sweep(t, s)
      PROVE Served'
  BY <1>27 DEF Sweep, StartDrop, MayDropIdle
<1>28. ASSUME NEW t \in Threads, DropUnreserve(t) PROVE Served'
  BY <1>28 DEF DropUnreserve
<1>29. ASSUME NEW t \in Threads, DropStop(t) PROVE Served'
  <2>1. pc[t] = "stop" /\ UNCHANGED <<rt, busy, bucket>>
    BY <1>29 DEF DropStop
  <2>2. ret[t] \in {"leave", "sweep", "retry", "purge"}
    BY <2>1 DEF Places, Dropping
  <2>3. pc' = [u \in Threads |-> IF u = t THEN ret[t]
                                ELSE IF pc[u] = "wait" THEN "look" ELSE pc[u]]
    BY <1>29 DEF DropStop
  <2>4. \A c \in Calls : \A s \in Session : Serves(c, s)' <=> Serves(c, s)
    BY <2>1, <2>2, <2>3
  <2> QED
    BY <2>1, <2>4
<1>30. ASSUME Shutdown PROVE Served'
  BY <1>30 DEF Shutdown, Places
<1>31. ASSUME NEW s \in Session, Purge(s) PROVE Served'
  BY <1>31 DEF Purge
<1>32. ASSUME PurgeDone PROVE Served'
  BY <1>32 DEF PurgeDone
<1>33. ASSUME NEW i \in Shared, OtherTakes(i) PROVE Served'
  BY <1>33 DEF OtherTakes
<1>34. ASSUME NEW i \in Shared, OtherLeaves(i) PROVE Served'
  BY <1>34 DEF OtherLeaves
<1>35. CASE UNCHANGED vars
  BY <1>35 DEF vars
<1> QED
  BY <1>1, <1>2, <1>3, <1>4, <1>5, <1>6, <1>7, <1>8, <1>9, <1>10, <1>11, <1>12, <1>13,
      <1>14, <1>15, <1>16, <1>17, <1>18, <1>19, <1>20, <1>21, <1>22, <1>23, <1>24,
      <1>25, <1>26, <1>27, <1>28, <1>29, <1>30, <1>31, <1>32, <1>33, <1>34, <1>35
     DEF Next, CallStep, BlockStep, EndStep, DropStep, ExitStep, OtherStep

---------------------------------------------------------------------------
\* What a step does to the sessions that hold cards: nothing, one more, or one less.
Kept == Holders' = Holders /\ UNCHANGED cardVars

Gained(m) ==
  /\ m \notin Holders /\ Holders' = Holders \cup {m}
  /\ \/ /\ ChoosesIndices
        /\ \E got \in SUBSET Free :
             /\ IsFirst(got, Free, Width[SKey(m)])
             /\ held' = [held EXCEPT ![m] = got]
             /\ reserved' = reserved \cup got
     \/ /\ ~ChoosesIndices
        /\ taken + Width[SKey(m)] <= Count
        /\ taken' = taken + Width[SKey(m)]
        /\ UNCHANGED <<held, reserved>>

Lost(m) == m \in Holders /\ Holders' = Holders \ {m} /\ Unreserve(m)

\* A session about to be started holds nothing yet, and one being started is neither
\* registered nor on its way out.
LEMMA UnstartedApart ==
  ASSUME Shape, NEW c \in Calls, pc[c] \in {"reserve", "create", "boot", "giveback"}
  PROVE  /\ Mine(c) \notin bucket /\ Mine(c) \notin cand[Exit]
         /\ \A t \in Threads : drop[t] # Mine(c)
  <1>1. ~Started(Mine(c))
    BY DEF Shape, Started, Mine, Before, TypeOK
  <1> QED
    BY <1>1, MineIsSession, Threading DEF Shape, Fresh, Threads, TypeOK

\* The only steps that change who holds cards are Reserve, GiveBack and DropUnreserve.
LEMMA HolderStep ==
  ASSUME Shape, [Next]_vars
  PROVE  Kept \/ (\E m \in Session : Gained(m)) \/ (\E m \in Session : Lost(m))
<1> USE Threading, Declarations
<1> USE DEF Shape, Holders, Starting, Leaving, Mine, TypeOK, Threads, At, Goto,
            GotoNotify, poolVars, cardVars, callVars, workVars
<1>1. ASSUME NEW c \in Calls, EnterCall(c) PROVE Kept
  BY <1>1 DEF EnterCall, Kept
<1>2. ASSUME NEW c \in Calls, EnterMover(c) PROVE Kept
  BY <1>2 DEF EnterMover, Kept
<1>3. ASSUME NEW c \in Calls, LookFails(c) PROVE Kept
  BY <1>3 DEF LookFails, Kept
<1>4. ASSUME NEW c \in Calls, CountStart(c) PROVE Kept
  BY <1>4 DEF CountStart, Kept
<1>5. ASSUME NEW c \in Calls, Reserve(c) PROVE \E m \in Session : Gained(m)
  <2>1. Mine(c) \notin Holders
    BY <1>5, UnstartedApart DEF Reserve, Holders, Starting, Leaving, Mine, At
  <2>2. Holders' = Holders \cup {Mine(c)}
    BY <1>5 DEF Reserve, Holders, Starting, Leaving, Mine, TypeOK, Threads, At, Goto,
               workVars, callVars, poolVars
  <2> HIDE DEF Holders, Starting, Leaving, TypeOK
  <2> QED
    BY <1>5, <2>1, <2>2, MineIsSession, SMTT(30) DEF Reserve, Gained, Wanted, SKey, Mine
<1>6. ASSUME NEW c \in Calls, ReserveFails(c) PROVE Kept
  BY <1>6 DEF ReserveFails, Kept
<1>7. ASSUME NEW c \in Calls, ReserveRaises(c) PROVE Kept
  BY <1>7 DEF ReserveRaises, Kept
<1>8. ASSUME NEW c \in Calls, CreateSession(c) PROVE Kept
  BY <1>8 DEF CreateSession, Kept
<1>9. ASSUME NEW c \in Calls, BootOk(c) PROVE Kept
  BY <1>9 DEF BootOk, Kept
<1>10. ASSUME NEW c \in Calls, StartFails(c) PROVE Kept
  BY <1>10 DEF StartFails, Kept
<1>11. ASSUME NEW c \in Calls, GiveBack(c) PROVE \E m \in Session : Lost(m)
  <2>1. Holders' = Holders \ {Mine(c)} /\ Mine(c) \in Holders
    BY <1>11, UnstartedApart
    DEF GiveBack, Holders, Starting, Leaving, Mine, TypeOK, Threads, At, Goto,
        workVars, callVars, poolVars
  <2> QED
    BY <1>11, <2>1, MineIsSession DEF GiveBack, Lost
<1>12. ASSUME NEW c \in Calls, Uncount(c) PROVE Kept
  <2>1. Starting' = Starting /\ Leaving' = Leaving
    BY <1>12 DEF Uncount, Starting, Leaving, TypeOK, Threads, At, GotoNotify
  <2>2. \A t \in Leaving : drop'[t] = drop[t]
    BY <1>12 DEF Uncount, Leaving, TypeOK, At, workVars
  <2> HIDE DEF Starting, Leaving, GotoNotify, Goto, At
  <2> QED
    BY <1>12, <2>1, <2>2 DEF Uncount, Kept, Holders, Starting, Leaving, Mine, TypeOK, Threads,
        workVars, callVars, poolVars, cardVars
<1>13. ASSUME NEW c \in Calls, Decide(c) PROVE Kept
  BY <1>13 DEF Decide, Kept
<1>14. ASSUME NEW c \in Calls, PollTimeout(c) PROVE Kept
  BY <1>14 DEF PollTimeout, Kept
<1>15. ASSUME NEW c \in Calls, RunEnds(c) PROVE Kept
  BY <1>15 DEF RunEnds, Kept
<1>16. ASSUME NEW c \in Calls, RunFails(c) PROVE Kept
  BY <1>16 DEF RunFails, Kept
<1>17. ASSUME NEW c \in Calls, Release(c) PROVE Kept
  BY <1>17 DEF Release, Kept
<1>18. ASSUME NEW c \in Calls, DropIdle(c) PROVE Kept
  BY <1>18 DEF DropIdle, StartDrop, MayDropIdle, Kept
<1>19. ASSUME NEW c \in Calls, Discard(c) PROVE Kept
  BY <1>19 DEF Discard, StartDrop, Kept
<1>20. ASSUME NEW c \in Calls, Retry(c) PROVE Kept
  BY <1>20 DEF Retry, Kept
<1>21. ASSUME NEW c \in Calls, NEW s \in Session, Reuse(c, s)
      PROVE Kept
  BY <1>21 DEF Reuse, Kept
<1>22. ASSUME NEW b \in Blocks, OpenBlock(b) PROVE Kept
  BY <1>22 DEF OpenBlock, Kept
<1>23. ASSUME NEW b \in Blocks, CloseBlock(b) PROVE Kept
  BY <1>23 DEF CloseBlock, Kept
<1>24. ASSUME NEW t \in Calls \cup Blocks, Leave(t) PROVE Kept
  BY <1>24 DEF Leave, Kept
<1>25. ASSUME NEW t \in Calls \cup Blocks, Snapshot(t) PROVE Kept
  BY <1>25 DEF Snapshot, Kept
<1>26. ASSUME NEW t \in Calls \cup Blocks, SweepDone(t) PROVE Kept
  BY <1>26 DEF SweepDone, Kept
<1>27. ASSUME NEW t \in Calls \cup Blocks, NEW s \in Session, Sweep(t, s)
      PROVE Kept
  BY <1>27 DEF Sweep, StartDrop, MayDropIdle, Kept
<1>28. ASSUME NEW t \in Threads, DropUnreserve(t) PROVE \E m \in Session : Lost(m)
  <2>1. drop[t] \in Session /\ drop[t] \in Holders
    BY <1>28 DEF DropUnreserve, At, Places, Dropping, Holders, Leaving
  <2>2. \A d \in Starting : drop[t] # Mine(d)
    BY UnstartedApart DEF Starting
  <2>3. Holders' = Holders \ {drop[t]}
    BY <1>28, <2>1, <2>2
    DEF DropUnreserve, Apart, Holders, Starting, Leaving, Mine, TypeOK, Threads, At, Goto,
        workVars, callVars, poolVars
  <2> QED
    BY <1>28, <2>1, <2>3 DEF DropUnreserve, Lost
<1>29. ASSUME NEW t \in Threads, DropStop(t) PROVE Kept
  <2>1. Starting' = Starting /\ Leaving' = Leaving
    BY <1>29 DEF DropStop, Starting, Leaving, TypeOK, Threads, At, GotoNotify, Places, Dropping
  <2>2. \A t0 \in Leaving : drop'[t0] = drop[t0]
    BY <1>29 DEF DropStop, Leaving, TypeOK, At, workVars
  <2> HIDE DEF Starting, Leaving, GotoNotify, Goto, At
  <2> QED
    BY <1>29, <2>1, <2>2 DEF DropStop, Kept, Holders, Starting, Leaving, Mine, TypeOK, Threads,
        workVars, callVars, poolVars, cardVars
<1>30. ASSUME Shutdown PROVE Kept
  BY <1>30 DEF Shutdown, Places, Kept
<1>31. ASSUME NEW s \in Session, Purge(s) PROVE Kept
  BY <1>31 DEF Purge, Kept
<1>32. ASSUME PurgeDone PROVE Kept
  <2>1. Starting' = Starting /\ Leaving' = Leaving
    BY <1>32 DEF PurgeDone, Starting, Leaving, TypeOK, Threads, At, GotoNotify
  <2>2. \A t \in Leaving : drop'[t] = drop[t]
    BY <1>32 DEF PurgeDone, Leaving, TypeOK, At, workVars
  <2> HIDE DEF Starting, Leaving, GotoNotify, Goto, At
  <2> QED
    BY <1>32, <2>1, <2>2 DEF PurgeDone, Kept, Holders, Starting, Leaving, Mine, TypeOK, Threads,
        workVars, callVars, poolVars, cardVars
<1>33. ASSUME NEW i \in Shared, OtherTakes(i) PROVE Kept
  BY <1>33 DEF OtherTakes, Kept
<1>34. ASSUME NEW i \in Shared, OtherLeaves(i) PROVE Kept
  BY <1>34 DEF OtherLeaves, Kept
<1>35. CASE UNCHANGED vars
  BY <1>35 DEF vars, Kept
<1> QED
  BY <1>1, <1>2, <1>3, <1>4, <1>5, <1>6, <1>7, <1>8, <1>9, <1>10, <1>11, <1>12, <1>13,
      <1>14, <1>15, <1>16, <1>17, <1>18, <1>19, <1>20, <1>21, <1>22, <1>23, <1>24,
      <1>25, <1>26, <1>27, <1>28, <1>29, <1>30, <1>31, <1>32, <1>33, <1>34, <1>35
     DEF Next, CallStep, BlockStep, EndStep, DropStep, ExitStep, OtherStep

\* Only sessions hold cards.
LEMMA HoldersAreSessions ==
  ASSUME Shape
  PROVE  Holders \subseteq Session
  BY MineIsSession, Threading
  DEF Shape, TypeOK, Places, Dropping, Holders, Starting, Leaving, Threads

\* Cards and sessions stay in step, whoever starts, fails or ends.
LEMMA CardsStep ==
  ASSUME Shape, CardsAccounted, [Next]_vars
  PROVE  CardsAccounted'
<1> SUFFICES ASSUME ChoosesIndices
             PROVE  /\ reserved' = UNION {held'[s] : s \in Holders'}
                    /\ \A s, u \in Holders' : s # u => held'[s] \cap held'[u] = {}
  BY DEF CardsAccounted, ChoosesIndices
<1>1. /\ \A i : i \in reserved <=> \E s \in Holders : i \in held[s]
      /\ \A s, u \in Holders : s # u => held[s] \cap held[u] = {}
  BY DEF CardsAccounted
<1>2. held \in [Session -> SUBSET Indices] /\ Holders \subseteq Session
  BY HoldersAreSessions DEF Shape, TypeOK
<1>3. CASE Kept
  BY <1>3, <1>1 DEF Kept, cardVars
<1>4. ASSUME NEW m \in Session, Gained(m)
      PROVE  /\ reserved' = UNION {held'[s] : s \in Holders'}
             /\ \A s, u \in Holders' : s # u => held'[s] \cap held'[u] = {}
  <2>1. PICK got \in SUBSET Free : /\ held' = [held EXCEPT ![m] = got]
                                   /\ reserved' = reserved \cup got
    BY <1>4 DEF Gained
  <2>2. /\ m \notin Holders /\ Holders' = Holders \cup {m} /\ got \cap reserved = {}
        /\ held'[m] = got /\ \A s \in Holders : held'[s] = held[s]
    BY <1>2, <1>4, <2>1 DEF Gained, Free
  <2>3. \A i : i \in reserved' <=> \E s \in Holders' : i \in held'[s]
    BY <1>1, <2>1, <2>2
  <2>4. \A s, u \in Holders' : s # u => held'[s] \cap held'[u] = {}
    BY <1>1, <2>2
  <2> QED
    BY <2>3, <2>4
<1>5. ASSUME NEW m \in Session, Lost(m)
      PROVE  /\ reserved' = UNION {held'[s] : s \in Holders'}
             /\ \A s, u \in Holders' : s # u => held'[s] \cap held'[u] = {}
  <2>1. /\ m \in Holders /\ Holders' = Holders \ {m}
        /\ held' = held /\ reserved' = reserved \ held[m]
    BY <1>5 DEF Lost, Unreserve
  <2>2. \A i : i \in reserved' <=> \E s \in Holders' : i \in held'[s]
    BY <1>1, <2>1
  <2> QED
    BY <1>1, <2>1, <2>2
<1> QED
  BY <1>3, <1>4, <1>5, HolderStep

---------------------------------------------------------------------------
\* The devices of all holders together, and that there are finitely many.
AllSlots == UNION {Slots(s) : s \in Holders}

TakenCounted == ~ChoosesIndices => IsFiniteSet(AllSlots) /\ TakenAccounted

\* A session takes as many devices as its instance names.
LEMMA SlotsOfOne ==
  ASSUME NEW s \in Session
  PROVE  IsFiniteSet(Slots(s)) /\ Cardinality(Slots(s)) = Width[SKey(s)]
  <1>1. Width[SKey(s)] \in Nat \ {0}
    BY Declarations, SMTT(30) DEF Session, SKey
  <1>2. /\ IsFiniteSet(1 .. Width[SKey(s)])
        /\ Cardinality(1 .. Width[SKey(s)]) = Width[SKey(s)]
    <2>1. SUFFICES ASSUME NEW w \in Nat \ {0}
                   PROVE  IsFiniteSet(1 .. w) /\ Cardinality(1 .. w) = w
      BY <1>1
    <2>2. /\ IsFiniteSet(1 .. w)
          /\ Cardinality(1 .. w) = IF 1 > w THEN 0 ELSE w - 1 + 1
      BY FS_Interval, 1 \in Int, w \in Int
    <2> QED
      BY <2>2
  <1>3. IsFiniteSet({s}) /\ Cardinality({s}) = 1
    BY FS_Singleton
  <1>4. /\ IsFiniteSet(Slots(s))
        /\ Cardinality(Slots(s)) = Cardinality({s}) * Cardinality(1 .. Width[SKey(s)])
    BY <1>2, <1>3, FS_Product DEF Slots
  <1> QED
    BY <1>1, <1>2, <1>3, <1>4

\* Counted devices and sessions stay in step as well.
LEMMA TakenStep ==
  ASSUME Shape, TakenCounted, [Next]_vars
  PROVE  TakenCounted'
<1> SUFFICES ASSUME ~ChoosesIndices
             PROVE  IsFiniteSet(AllSlots') /\ taken' = Cardinality(AllSlots') /\ taken' <= Count
  BY DEF TakenCounted, TakenAccounted, ChoosesIndices, AllSlots
<1>1. IsFiniteSet(AllSlots) /\ taken = Cardinality(AllSlots) /\ taken <= Count
  BY DEF TakenCounted, TakenAccounted, AllSlots
<1>2. taken \in Nat /\ Count \in Nat /\ Holders \subseteq Session
  BY HoldersAreSessions, Inventory DEF Shape, TypeOK
<1>3. CASE Kept
  BY <1>1, <1>3 DEF Kept, cardVars, AllSlots
<1>4. ASSUME NEW m \in Session, Gained(m)
      PROVE  IsFiniteSet(AllSlots') /\ taken' = Cardinality(AllSlots') /\ taken' <= Count
  <2>1. AllSlots' = AllSlots \cup Slots(m) /\ AllSlots \cap Slots(m) = {}
    BY <1>4 DEF Gained, AllSlots, Slots
  <2>2. IsFiniteSet(AllSlots') /\ Cardinality(AllSlots') = taken + Width[SKey(m)]
    <3>1. /\ IsFiniteSet(AllSlots \cup Slots(m))
          /\ Cardinality(AllSlots \cup Slots(m)) =
               Cardinality(AllSlots) + Cardinality(Slots(m)) - Cardinality(AllSlots \cap Slots(m))
      BY <1>1, SlotsOfOne, FS_Union
    <3>2. Width[SKey(m)] \in Nat
      BY Declarations, SMTT(30) DEF Session, SKey
    <3>3. Cardinality(AllSlots \cap Slots(m)) = 0
      BY <2>1, FS_EmptySet
    <3> QED
      BY <1>1, <1>2, <2>1, <3>1, <3>2, <3>3, SlotsOfOne
  <2> QED
    BY <1>4, <2>2 DEF Gained
<1>5. ASSUME NEW m \in Session, Lost(m)
      PROVE  IsFiniteSet(AllSlots') /\ taken' = Cardinality(AllSlots') /\ taken' <= Count
  <2>1. /\ AllSlots = AllSlots' \cup Slots(m) /\ AllSlots' \cap Slots(m) = {}
        /\ AllSlots' \subseteq AllSlots
    BY <1>5 DEF Lost, AllSlots, Slots
  <2>2. IsFiniteSet(AllSlots') /\ Cardinality(AllSlots') \in Nat
    BY <1>1, <2>1, FS_Subset, FS_CardinalityType
  <2>3. taken = Cardinality(AllSlots') + Width[SKey(m)] /\ Width[SKey(m)] \in Nat
    <3>1. Cardinality(AllSlots' \cup Slots(m)) =
            Cardinality(AllSlots') + Cardinality(Slots(m)) - Cardinality(AllSlots' \cap Slots(m))
      BY <2>2, SlotsOfOne, FS_Union
    <3>2. Width[SKey(m)] \in Nat
      BY Declarations, SMTT(30) DEF Session, SKey
    <3> QED
      BY <1>1, <2>1, <2>2, <3>1, <3>2, SlotsOfOne, FS_EmptySet
  <2>4. taken' = Monus(taken, Width[SKey(m)])
    BY <1>5 DEF Lost, Unreserve, Shape, TypeOK, ChoosesIndices
  <2> QED
    BY <1>1, <1>2, <2>2, <2>3, <2>4 DEF Monus
<1> QED
  BY <1>3, <1>4, <1>5, HolderStep

---------------------------------------------------------------------------
\* Before anything was called, everything holds.
LEMMA ShapeInit ==
  ASSUME Init
  PROVE  Shape /\ CardsAccounted /\ TakenCounted
<1> USE Threading, Declarations, Inventory
<1>1. TypeOK
  BY DEF Init, TypeOK, Labels, Outcomes, Threads
<1>2. Places
  BY DEF Init, Places, Threads, Before, Using, Dropping
<1>3. Fresh /\ Apart
  BY DEF Init, Fresh, Apart, Leaving, Threads
<1>4. Served
  BY DEF Init, Served, BusyServed, Serves, Threads
<1>5. StartsCounted
  <2>1. Announced = {}
    BY DEF Init, Announced, Threads
  <2> QED
    BY <2>1, FS_EmptySet DEF Init, StartsCounted
<1>6. Holders = {}
  BY DEF Init, Holders, Starting, Leaving, Threads
<1>7. AllSlots = {}
  BY <1>6 DEF AllSlots
<1> QED
  BY <1>1, <1>2, <1>3, <1>4, <1>5, <1>6, <1>7, FS_EmptySet, SMTT(30)
  DEF Init, Shape, CardsAccounted, TakenCounted, TakenAccounted, AllSlots

\* Shape is inductive by itself; the accounting follows from it.
LEMMA ShapeStep ==
  ASSUME Shape, [Next]_vars
  PROVE  Shape'
  BY TypeStep, PlacesStep, CountedStep, FreshStep, ApartStep, ServedStep DEF Shape

IInv == Shape /\ CardsAccounted /\ TakenCounted

\* The inductive invariant, from which the theorems below are read off.
THEOREM Invariance == Spec => []IInv
  BY ShapeInit, ShapeStep, CardsStep, TakenStep, PTL DEF Spec, IInv

(***************************************************************************)
(* The state of the pool, the provider and every thread keeps its type; in *)
(* particular no counter of the pool ever goes below zero.                 *)
(***************************************************************************)
THEOREM TypeCorrect == Spec => []TypeOK
  BY Invariance, PTL DEF IInv, Shape

(***************************************************************************)
(* Provider._reserved is exactly the cards of the sessions that hold one,  *)
(* and no card is held twice, for any number of calls, blocks and retries. *)
(***************************************************************************)
THEOREM CardsCorrect == Spec => []CardsAccounted
  BY Invariance, PTL DEF IInv

(***************************************************************************)
(* Provider._taken is exactly the devices of the sessions that hold one    *)
(* and never passes the declared count.                                    *)
(***************************************************************************)
THEOREM TakenCorrect == Spec => []TakenAccounted
<1>1. TakenCounted => TakenAccounted
  BY DEF TakenCounted, TakenAccounted
<1> QED
  BY <1>1, Invariance, PTL DEF IInv

(***************************************************************************)
(* Every busy registered session is served by one call, and no session     *)
(* serves two.                                                             *)
(***************************************************************************)
THEOREM BusyCorrect == Spec => []BusyServed
  BY Invariance, PTL DEF IInv, Shape, Served

---------------------------------------------------------------------------
\* The owner CardLedger sees: the one holder of the card, or nobody.
LEMMA OwnerOfHeld ==
  ASSUME CardsAccounted, ChoosesIndices, NEW i \in Indices, NEW s \in Holders, i \in held[s]
  PROVE  Owner(i) = s
  BY DEF Owner, CardsAccounted

LEMMA OwnerOfHeldNext ==
  ASSUME CardsAccounted', ChoosesIndices, NEW i \in Indices, NEW s \in Holders', i \in held'[s]
  PROVE  Owner(i)' = s
  BY DEF Owner, CardsAccounted, ChoosesIndices

\* The three kinds of step are a stutter, a Grant and a Return of the ledger.
LEMMA LedgerStep ==
  ASSUME Shape, CardsAccounted, CardsAccounted', [Next]_vars
  PROVE  [Ledger!Next]_ledgerOwner
<1>1. held \in [Session -> SUBSET Indices] /\ Holders \subseteq Session /\ None \notin Session
  BY HoldersAreSessions, Threading DEF Shape, TypeOK
<1>2. CASE Kept
  <2>1. \A i \in Indices : Owner(i)' = Owner(i)
    BY <1>2 DEF Kept, Owner, cardVars
  <2> QED
    BY <2>1 DEF ledgerOwner
<1>3. CASE ~ChoosesIndices
  BY <1>3 DEF ledgerOwner, ChoosesIndices
<1>4. ASSUME ChoosesIndices, NEW m \in Session, Gained(m)
      PROVE  Ledger!Grant(m)
  <2>1. PICK got \in SUBSET Free : /\ IsFirst(got, Free, Width[SKey(m)])
                                   /\ held' = [held EXCEPT ![m] = got]
    BY <1>4 DEF Gained
  <2>2. m \notin Holders /\ Holders' = Holders \cup {m} /\ got \subseteq Indices
    BY <1>4, <2>1 DEF Gained, Free
  <2>3. \A i \in got : \A s \in Holders : i \notin held[s]
    BY <1>4, <2>1 DEF Free, CardsAccounted
  <2>4. \A i \in got : Owner(i) = None
    BY <2>3 DEF Owner
  <2>5. \A i \in got : Owner(i)' = m
    BY <1>1, <1>4, <2>1, <2>2, OwnerOfHeldNext
  <2>6. \A i \in Indices \ got : Owner(i)' = Owner(i)
    <3> SUFFICES ASSUME NEW i \in Indices \ got PROVE Owner(i)' = Owner(i)
      OBVIOUS
    <3>1. CASE \E s \in Holders : i \in held[s]
      <4>1. PICK s \in Holders : i \in held[s]
        BY <3>1
      <4>2. s \in Holders' /\ i \in held'[s]
        BY <1>1, <2>1, <2>2, <4>1
      <4> QED
        BY <1>4, <4>1, <4>2, OwnerOfHeld, OwnerOfHeldNext
    <3>2. CASE ~\E s \in Holders : i \in held[s]
      <4>1. ~\E s \in Holders' : i \in held'[s]
        BY <1>1, <2>1, <2>2, <3>2
      <4> QED
        BY <3>2, <4>1 DEF Owner
    <3> QED
      BY <3>1, <3>2
  <2>7. \A i \in Indices : Owner(i) # m
    <3>1. \A i \in Indices : Owner(i) \in Holders \/ Owner(i) = None
      BY DEF Owner
    <3> QED
      BY <1>1, <2>2, <3>1
  <2>8. got \in Demand[m]
    BY <2>1, <2>2 DEF IsFirst, Demand
  <2>9. Ledger!OwnedBy(m) = {} /\ got \subseteq Ledger!OwnedBy(None)
    BY <2>2, <2>4, <2>7 DEF Ledger!OwnedBy, ledgerOwner
  <2>10. ledgerOwner' = [i \in Indices |-> IF i \in got THEN m ELSE ledgerOwner[i]]
    BY <2>5, <2>6 DEF ledgerOwner
  <2> QED
    BY <2>8, <2>9, <2>10 DEF Ledger!Grant
<1>5. ASSUME ChoosesIndices, NEW m \in Session, Lost(m)
      PROVE  Ledger!Return(m) \/ UNCHANGED ledgerOwner
  <2>1. m \in Holders /\ Holders' = Holders \ {m} /\ held' = held
    BY <1>5 DEF Lost, Unreserve
  <2>2. \A i \in Indices : i \in held[m] => Owner(i) = m /\ Owner(i)' = None
    <3> SUFFICES ASSUME NEW i \in Indices, i \in held[m]
                 PROVE  Owner(i) = m /\ Owner(i)' = None
      OBVIOUS
    <3>1. ~\E s \in Holders' : i \in held'[s]
      BY <1>5, <2>1 DEF CardsAccounted
    <3> QED
      BY <1>5, <2>1, <3>1, OwnerOfHeld DEF Owner
  <2>3. \A i \in Indices : i \notin held[m] => Owner(i) # m /\ Owner(i)' = Owner(i)
    <3> SUFFICES ASSUME NEW i \in Indices, i \notin held[m]
                 PROVE  Owner(i) # m /\ Owner(i)' = Owner(i)
      OBVIOUS
    <3>1. CASE \E s \in Holders : i \in held[s]
      <4>1. PICK s \in Holders : i \in held[s]
        BY <3>1
      <4>2. s # m /\ s \in Holders' /\ i \in held'[s]
        BY <2>1, <4>1
      <4> QED
        BY <1>5, <4>1, <4>2, OwnerOfHeld, OwnerOfHeldNext
    <3>2. CASE ~\E s \in Holders : i \in held[s]
      <4>1. ~\E s \in Holders' : i \in held'[s]
        BY <2>1, <3>2
      <4> QED
        BY <1>1, <3>2, <4>1 DEF Owner
    <3> QED
      BY <3>1, <3>2
  <2>4. ledgerOwner' = [i \in Indices |-> IF ledgerOwner[i] = m THEN None ELSE ledgerOwner[i]]
    BY <2>2, <2>3 DEF ledgerOwner
  <2>5. CASE held[m] = {}
    BY <2>3, <2>5 DEF ledgerOwner
  <2>6. CASE held[m] # {}
    <3>1. PICK i \in Indices : i \in held[m]
      BY <1>1, <2>6
    <3>2. i \in Ledger!OwnedBy(m)
      BY <2>2, <3>1 DEF Ledger!OwnedBy, ledgerOwner
    <3> QED
      BY <2>4, <3>2 DEF Ledger!Return
  <2> QED
    BY <2>5, <2>6
<1> QED
  BY <1>2, <1>3, <1>4, <1>5, HolderStep DEF Ledger!Next

(***************************************************************************)
(* The pool and the provider implement CardLedger: reserving takes all the *)
(* cards asked for from nobody at once, and ending a session gives all of  *)
(* its cards back at once.                                                 *)
(***************************************************************************)
THEOREM Refinement == Spec => LedgerSpec
<1>1. Init => Ledger!Init
  <2> SUFFICES ASSUME Init PROVE ledgerOwner = [i \in Indices |-> None]
    BY DEF Ledger!Init
  <2>1. Holders = {}
    BY DEF Init, Holders, Starting, Leaving, Threads
  <2> QED
    BY <2>1 DEF ledgerOwner, Owner
<1>2. Shape /\ CardsAccounted /\ CardsAccounted' /\ [Next]_vars => [Ledger!Next]_ledgerOwner
  BY LedgerStep
<1> QED
  BY <1>1, <1>2, Invariance, PTL DEF IInv, Spec, LedgerSpec, Ledger!Spec

-----------------------------------------------------------------------------
(* The holds.  *)

Open == {t \in Threads : Holding(t)}

\* A shutdown resets the depth under the holds that are open; it never exceeds them.
HoldsCounted ==
  /\ IsFiniteSet(Open) /\ depth <= Cardinality(Open)
  /\ pc[Exit] = "out" => depth = Cardinality(Open)

\* Thread t will look at idle session s before it is done.
Watches(t, s) ==
  \/ pc[t] = "snapshot"
  \/ s \in cand[t] /\ Sweeping(t)
  \/ t \in Calls /\ pc[t] = "dropidle" /\ rt[t] = s

\* An idle session is kept by a hold, or somebody is about to look at it.
IdleWatched == \A s \in bucket \ busy : depth > 0 \/ \E t \in Threads : Watches(t, s)

\* Thread t is between making session s and registering it, or is ending it.
Answers(t, s) ==
  \/ t \in Calls /\ pc[t] = "boot" /\ s = Mine(t)
  \/ pc[t] \in Dropping /\ drop[t] = s

\* A session that exists is registered, waits for the shutdown, or somebody answers for it.
LiveAnswered ==
  /\ \A s \in live : s \in bucket \cup cand[Exit] \/ \E t \in Threads : Answers(t, s)
  /\ pc[Exit] = "done" => cand[Exit] = {}

\* A provider that chooses the cards counts nothing.
ChosenUntaken == ChoosesIndices => taken = 0

HoldInv == HoldsCounted /\ IdleWatched /\ LiveAnswered /\ ChosenUntaken

---------------------------------------------------------------------------
\* Every step keeps the number of open holds.
LEMMA HoldsCountedStep ==
  ASSUME Shape, HoldsCounted, [Next]_vars
  PROVE  HoldsCounted'
<1> USE Threading, Declarations
<1> DEFINE Same == Open' = Open /\ depth' = depth /\ (pc'[Exit] = "out" => pc[Exit] = "out")
           Opens(t) == /\ t \notin Open /\ Open' = Open \cup {t} /\ depth' = depth + 1
                       /\ pc'[Exit] = "out" => pc[Exit] = "out"
           Closes(t) == /\ t \in Open /\ Open' = Open \ {t} /\ depth' = Monus(depth, 1)
                        /\ pc'[Exit] = "out" => pc[Exit] = "out"
           Resets == Open' = Open /\ depth' = 0 /\ pc'[Exit] # "out"
<1> SUFFICES Same \/ (\E t \in Threads : Opens(t) \/ Closes(t)) \/ Resets
  <2>1. CASE Same
    BY <2>1 DEF HoldsCounted
  <2>2. ASSUME NEW t \in Threads, Opens(t) PROVE HoldsCounted'
    <3>1. IsFiniteSet(Open') /\ Cardinality(Open') = Cardinality(Open) + 1 /\ Cardinality(Open) \in Nat
      BY <2>2, FS_AddElement, FS_CardinalityType DEF HoldsCounted
    <3> QED
      BY <2>2, <3>1 DEF HoldsCounted, Shape, TypeOK
  <2>3. ASSUME NEW t \in Threads, Closes(t) PROVE HoldsCounted'
    <3>1. IsFiniteSet(Open') /\ Cardinality(Open') = Cardinality(Open) - 1 /\ Cardinality(Open) \in Nat
      BY <2>3, FS_RemoveElement, FS_CardinalityType DEF HoldsCounted
    <3>2. Cardinality(Open) # 0
      BY <2>3, FS_EmptySet DEF HoldsCounted
    <3> QED
      BY <2>3, <3>1, <3>2 DEF HoldsCounted, Shape, TypeOK, Monus
  <2>4. CASE Resets
    BY <2>4, FS_CardinalityType DEF HoldsCounted
  <2> QED
    BY <2>1, <2>2, <2>3, <2>4
<1> USE DEF Shape, Open, Holding, Sweeping, TypeOK, Threads, At, Goto, GotoNotify, poolVars,
            cardVars, callVars, workVars
<1>1. ASSUME NEW c \in Calls, EnterCall(c) PROVE Opens(c)
  BY <1>1 DEF EnterCall
<1>2. ASSUME NEW c \in Calls, EnterMover(c) PROVE Same
  BY <1>2 DEF EnterMover
<1>3. ASSUME NEW c \in Calls, LookFails(c) PROVE Same
  BY <1>3 DEF LookFails
<1>4. ASSUME NEW c \in Calls, CountStart(c) PROVE Same
  BY <1>4 DEF CountStart
<1>5. ASSUME NEW c \in Calls, Reserve(c) PROVE Same
  BY <1>5 DEF Reserve
<1>6. ASSUME NEW c \in Calls, ReserveFails(c) PROVE Same
  BY <1>6 DEF ReserveFails
<1>7. ASSUME NEW c \in Calls, ReserveRaises(c) PROVE Same
  BY <1>7 DEF ReserveRaises
<1>8. ASSUME NEW c \in Calls, CreateSession(c) PROVE Same
  BY <1>8 DEF CreateSession
<1>9. ASSUME NEW c \in Calls, BootOk(c) PROVE Same
  BY <1>9 DEF BootOk
<1>10. ASSUME NEW c \in Calls, StartFails(c) PROVE Same
  BY <1>10 DEF StartFails
<1>11. ASSUME NEW c \in Calls, GiveBack(c) PROVE Same
  BY <1>11 DEF GiveBack
<1>12. ASSUME NEW c \in Calls, Uncount(c) PROVE Same
  BY <1>12 DEF Uncount
<1>13. ASSUME NEW c \in Calls, Decide(c) PROVE Same
  BY <1>13 DEF Decide
<1>14. ASSUME NEW c \in Calls, PollTimeout(c) PROVE Same
  BY <1>14 DEF PollTimeout
<1>15. ASSUME NEW c \in Calls, RunEnds(c) PROVE Same
  BY <1>15 DEF RunEnds
<1>16. ASSUME NEW c \in Calls, RunFails(c) PROVE Same
  BY <1>16 DEF RunFails
<1>17. ASSUME NEW c \in Calls, Release(c) PROVE Same
  BY <1>17 DEF Release
<1>18. ASSUME NEW c \in Calls, DropIdle(c) PROVE Same
  BY <1>18 DEF DropIdle, StartDrop
<1>19. ASSUME NEW c \in Calls, Discard(c) PROVE Same
  BY <1>19 DEF Discard, StartDrop
<1>20. ASSUME NEW c \in Calls, Retry(c) PROVE Same
  BY <1>20 DEF Retry
<1>21. ASSUME NEW c \in Calls, NEW s \in Session, Reuse(c, s) PROVE Same
  BY <1>21 DEF Reuse
<1>22. ASSUME NEW b \in Blocks, OpenBlock(b) PROVE Opens(b)
  BY <1>22 DEF OpenBlock
<1>23. ASSUME NEW b \in Blocks, CloseBlock(b) PROVE Same
  BY <1>23 DEF CloseBlock
<1>24. ASSUME NEW t \in Calls \cup Blocks, Leave(t) PROVE Same \/ Closes(t)
  BY <1>24 DEF Leave
<1>25. ASSUME NEW t \in Calls \cup Blocks, Snapshot(t) PROVE Same
  BY <1>25 DEF Snapshot
<1>26. ASSUME NEW t \in Calls \cup Blocks, SweepDone(t) PROVE Same
  BY <1>26 DEF SweepDone
<1>27. ASSUME NEW t \in Calls \cup Blocks, NEW s \in Session, Sweep(t, s) PROVE Same
  BY <1>27 DEF Sweep, StartDrop
<1>28. ASSUME NEW t \in Threads, DropUnreserve(t) PROVE Same
  BY <1>28 DEF DropUnreserve, Places, Dropping
<1>29. ASSUME NEW t \in Threads, DropStop(t) PROVE Same
  BY <1>29 DEF DropStop, Places, Dropping
<1>30. ASSUME Shutdown PROVE Resets
  BY <1>30 DEF Shutdown
<1>31. ASSUME NEW s \in Session, Purge(s) PROVE Same
  BY <1>31 DEF Purge
<1>32. ASSUME PurgeDone PROVE Same
  BY <1>32 DEF PurgeDone
<1>33. ASSUME NEW i \in Shared, OtherTakes(i) PROVE Same
  BY <1>33 DEF OtherTakes
<1>34. ASSUME NEW i \in Shared, OtherLeaves(i) PROVE Same
  BY <1>34 DEF OtherLeaves
<1>35. CASE UNCHANGED vars
  BY <1>35 DEF vars
<1> QED
  BY <1>1, <1>2, <1>3, <1>4, <1>5, <1>6, <1>7, <1>8, <1>9, <1>10, <1>11, <1>12, <1>13,
      <1>14, <1>15, <1>16, <1>17, <1>18, <1>19, <1>20, <1>21, <1>22, <1>23, <1>24, <1>25,
      <1>26, <1>27, <1>28, <1>29, <1>30, <1>31, <1>32, <1>33, <1>34, <1>35
     DEF Next, CallStep, BlockStep, EndStep, DropStep, ExitStep, OtherStep

---------------------------------------------------------------------------
\* Every step leaves a hold or somebody who will look at each idle session.
LEMMA IdleWatchedStep ==
  ASSUME Shape, IdleWatched, [Next]_vars
  PROVE  IdleWatched'
<1> USE Threading, Declarations
<1> SUFFICES ASSUME NEW x \in bucket' \ busy', ~(depth' > 0)
             PROVE  \E u \in Threads : Watches(u, x)'
  BY DEF IdleWatched
<1> DEFINE Watched == \E u \in Threads : Watches(u, x)
<1> USE DEF Shape, IdleWatched, Watches, Sweeping, TypeOK, Threads, At, Goto, GotoNotify, poolVars,
            cardVars, callVars, workVars
<1>1. ASSUME NEW c \in Calls, EnterCall(c) PROVE Watched'
  BY <1>1 DEF EnterCall
<1>2. ASSUME NEW c \in Calls, EnterMover(c) PROVE Watched'
  BY <1>2 DEF EnterMover
<1>3. ASSUME NEW c \in Calls, LookFails(c) PROVE Watched'
  BY <1>3 DEF LookFails
<1>4. ASSUME NEW c \in Calls, CountStart(c) PROVE Watched'
  BY <1>4 DEF CountStart
<1>5. ASSUME NEW c \in Calls, Reserve(c) PROVE Watched'
  BY <1>5 DEF Reserve
<1>6. ASSUME NEW c \in Calls, ReserveFails(c) PROVE Watched'
  BY <1>6 DEF ReserveFails
<1>7. ASSUME NEW c \in Calls, ReserveRaises(c) PROVE Watched'
  BY <1>7 DEF ReserveRaises
<1>8. ASSUME NEW c \in Calls, CreateSession(c) PROVE Watched'
  BY <1>8 DEF CreateSession
<1>9. ASSUME NEW c \in Calls, BootOk(c) PROVE Watched'
  BY <1>9 DEF BootOk
<1>10. ASSUME NEW c \in Calls, StartFails(c) PROVE Watched'
  BY <1>10 DEF StartFails
<1>11. ASSUME NEW c \in Calls, GiveBack(c) PROVE Watched'
  BY <1>11 DEF GiveBack
<1>12. ASSUME NEW c \in Calls, Uncount(c) PROVE Watched'
  BY <1>12 DEF Uncount
<1>13. ASSUME NEW c \in Calls, Decide(c) PROVE Watched'
  BY <1>13 DEF Decide
<1>14. ASSUME NEW c \in Calls, PollTimeout(c) PROVE Watched'
  BY <1>14 DEF PollTimeout
<1>15. ASSUME NEW c \in Calls, RunEnds(c) PROVE Watched'
  BY <1>15 DEF RunEnds
<1>16. ASSUME NEW c \in Calls, RunFails(c) PROVE Watched'
  BY <1>16 DEF RunFails
<1>17. ASSUME NEW c \in Calls, Release(c) PROVE Watched'
  BY <1>17 DEF Release
<1>18. ASSUME NEW c \in Calls, DropIdle(c) PROVE Watched'
  BY <1>18 DEF DropIdle, StartDrop, MayDropIdle
<1>19. ASSUME NEW c \in Calls, Discard(c) PROVE Watched'
  BY <1>19 DEF Discard, StartDrop
<1>20. ASSUME NEW c \in Calls, Retry(c) PROVE Watched'
  BY <1>20 DEF Retry
<1>21. ASSUME NEW c \in Calls, NEW s \in Session, Reuse(c, s) PROVE Watched'
  BY <1>21 DEF Reuse
<1>22. ASSUME NEW b \in Blocks, OpenBlock(b) PROVE Watched'
  BY <1>22 DEF OpenBlock
<1>23. ASSUME NEW b \in Blocks, CloseBlock(b) PROVE Watched'
  BY <1>23 DEF CloseBlock
<1>24. ASSUME NEW t \in Calls \cup Blocks, Leave(t) PROVE Watched'
  <2>1. pc[t] = "leave" /\ x \in bucket \ busy
    BY <1>24 DEF Leave
  <2>2. CASE t \in Movers
    <3>1. PICK u \in Threads : Watches(u, x)
      BY <1>24, <2>1, <2>2 DEF Leave
    <3>2. Watches(u, x)'
      BY <1>24, <2>1, <2>2, <3>1 DEF Leave
    <3> QED
      BY <3>2
  <2>3. CASE t \notin Movers
    <3>1. depth' = 0
      BY <1>24, <2>3 DEF Leave, Monus
    <3>2. pc'[t] = "snapshot"
      BY <1>24, <2>1, <2>3, <3>1 DEF Leave
    <3> QED
      BY <3>2
  <2> QED
    BY <2>2, <2>3
<1>25. ASSUME NEW t \in Calls \cup Blocks, Snapshot(t) PROVE Watched'
  BY <1>25 DEF Snapshot
<1>26. ASSUME NEW t \in Calls \cup Blocks, SweepDone(t) PROVE Watched'
  BY <1>26 DEF SweepDone
<1>27. ASSUME NEW t \in Calls \cup Blocks, NEW s \in Session, Sweep(t, s) PROVE Watched'
  BY <1>27 DEF Sweep, StartDrop, MayDropIdle
<1>28. ASSUME NEW t \in Threads, DropUnreserve(t) PROVE Watched'
  BY <1>28 DEF DropUnreserve, Places, Dropping
<1>29. ASSUME NEW t \in Threads, DropStop(t) PROVE Watched'
  BY <1>29 DEF DropStop, Places, Dropping
<1>30. ASSUME Shutdown PROVE Watched'
  BY <1>30 DEF Shutdown
<1>31. ASSUME NEW s \in Session, Purge(s) PROVE Watched'
  BY <1>31 DEF Purge
<1>32. ASSUME PurgeDone PROVE Watched'
  BY <1>32 DEF PurgeDone
<1>33. ASSUME NEW i \in Shared, OtherTakes(i) PROVE Watched'
  BY <1>33 DEF OtherTakes
<1>34. ASSUME NEW i \in Shared, OtherLeaves(i) PROVE Watched'
  BY <1>34 DEF OtherLeaves
<1>35. CASE UNCHANGED vars
  BY <1>35 DEF vars
<1> QED
  BY <1>1, <1>2, <1>3, <1>4, <1>5, <1>6, <1>7, <1>8, <1>9, <1>10, <1>11, <1>12, <1>13,
      <1>14, <1>15, <1>16, <1>17, <1>18, <1>19, <1>20, <1>21, <1>22, <1>23, <1>24, <1>25,
      <1>26, <1>27, <1>28, <1>29, <1>30, <1>31, <1>32, <1>33, <1>34, <1>35
     DEF Next, CallStep, BlockStep, EndStep, DropStep, ExitStep, OtherStep

---------------------------------------------------------------------------
\* Every step leaves each existing session in somebody's hands.
LEMMA LiveAnsweredStep ==
  ASSUME Shape, LiveAnswered, [Next]_vars
  PROVE  LiveAnswered'
<1> USE Threading, Declarations
<1> USE DEF Shape, LiveAnswered, Answers, Dropping, Mine, TypeOK, Threads, At, Goto, GotoNotify, poolVars,
            cardVars, callVars, workVars
<1>1. ASSUME NEW c \in Calls, EnterCall(c) PROVE LiveAnswered'
  BY <1>1 DEF EnterCall
<1>2. ASSUME NEW c \in Calls, EnterMover(c) PROVE LiveAnswered'
  BY <1>2 DEF EnterMover
<1>3. ASSUME NEW c \in Calls, LookFails(c) PROVE LiveAnswered'
  BY <1>3 DEF LookFails
<1>4. ASSUME NEW c \in Calls, CountStart(c) PROVE LiveAnswered'
  BY <1>4 DEF CountStart
<1>5. ASSUME NEW c \in Calls, Reserve(c) PROVE LiveAnswered'
  BY <1>5 DEF Reserve
<1>6. ASSUME NEW c \in Calls, ReserveFails(c) PROVE LiveAnswered'
  BY <1>6 DEF ReserveFails
<1>7. ASSUME NEW c \in Calls, ReserveRaises(c) PROVE LiveAnswered'
  BY <1>7 DEF ReserveRaises
<1>8. ASSUME NEW c \in Calls, CreateSession(c) PROVE LiveAnswered'
  BY <1>8 DEF CreateSession
<1>9. ASSUME NEW c \in Calls, BootOk(c) PROVE LiveAnswered'
  BY <1>9 DEF BootOk
<1>10. ASSUME NEW c \in Calls, StartFails(c) PROVE LiveAnswered'
  BY <1>10 DEF StartFails
<1>11. ASSUME NEW c \in Calls, GiveBack(c) PROVE LiveAnswered'
  BY <1>11 DEF GiveBack
<1>12. ASSUME NEW c \in Calls, Uncount(c) PROVE LiveAnswered'
  BY <1>12 DEF Uncount
<1>13. ASSUME NEW c \in Calls, Decide(c) PROVE LiveAnswered'
  BY <1>13 DEF Decide
<1>14. ASSUME NEW c \in Calls, PollTimeout(c) PROVE LiveAnswered'
  BY <1>14 DEF PollTimeout
<1>15. ASSUME NEW c \in Calls, RunEnds(c) PROVE LiveAnswered'
  BY <1>15 DEF RunEnds
<1>16. ASSUME NEW c \in Calls, RunFails(c) PROVE LiveAnswered'
  BY <1>16 DEF RunFails
<1>17. ASSUME NEW c \in Calls, Release(c) PROVE LiveAnswered'
  BY <1>17 DEF Release
<1>18. ASSUME NEW c \in Calls, DropIdle(c) PROVE LiveAnswered'
  BY <1>18 DEF DropIdle, StartDrop
<1>19. ASSUME NEW c \in Calls, Discard(c) PROVE LiveAnswered'
  BY <1>19 DEF Discard, StartDrop
<1>20. ASSUME NEW c \in Calls, Retry(c) PROVE LiveAnswered'
  BY <1>20 DEF Retry
<1>21. ASSUME NEW c \in Calls, NEW s \in Session, Reuse(c, s) PROVE LiveAnswered'
  BY <1>21 DEF Reuse
<1>22. ASSUME NEW b \in Blocks, OpenBlock(b) PROVE LiveAnswered'
  BY <1>22 DEF OpenBlock
<1>23. ASSUME NEW b \in Blocks, CloseBlock(b) PROVE LiveAnswered'
  BY <1>23 DEF CloseBlock
<1>24. ASSUME NEW t \in Calls \cup Blocks, Leave(t) PROVE LiveAnswered'
  BY <1>24 DEF Leave
<1>25. ASSUME NEW t \in Calls \cup Blocks, Snapshot(t) PROVE LiveAnswered'
  BY <1>25 DEF Snapshot
<1>26. ASSUME NEW t \in Calls \cup Blocks, SweepDone(t) PROVE LiveAnswered'
  BY <1>26 DEF SweepDone
<1>27. ASSUME NEW t \in Calls \cup Blocks, NEW s \in Session, Sweep(t, s) PROVE LiveAnswered'
  BY <1>27 DEF Sweep, StartDrop
<1>28. ASSUME NEW t \in Threads, DropUnreserve(t) PROVE LiveAnswered'
  BY <1>28 DEF DropUnreserve, Places
<1>29. ASSUME NEW t \in Threads, DropStop(t) PROVE LiveAnswered'
  BY <1>29 DEF DropStop, Places
<1>30. ASSUME Shutdown PROVE LiveAnswered'
  BY <1>30 DEF Shutdown, Places
<1>31. ASSUME NEW s \in Session, Purge(s) PROVE LiveAnswered'
  BY <1>31 DEF Purge
<1>32. ASSUME PurgeDone PROVE LiveAnswered'
  <2>1. \A t \in Threads, x \in Session : Answers(t, x) => Answers(t, x)'
    BY <1>32 DEF PurgeDone
  <2>2. live' = live /\ bucket' = bucket /\ cand' = cand /\ cand[Exit] = {}
    BY <1>32 DEF PurgeDone
  <2> HIDE DEF Answers
  <2> QED
    BY <2>1, <2>2
<1>33. ASSUME NEW i \in Shared, OtherTakes(i) PROVE LiveAnswered'
  BY <1>33 DEF OtherTakes
<1>34. ASSUME NEW i \in Shared, OtherLeaves(i) PROVE LiveAnswered'
  BY <1>34 DEF OtherLeaves
<1>35. CASE UNCHANGED vars
  BY <1>35 DEF vars
<1> QED
  BY <1>1, <1>2, <1>3, <1>4, <1>5, <1>6, <1>7, <1>8, <1>9, <1>10, <1>11, <1>12, <1>13,
      <1>14, <1>15, <1>16, <1>17, <1>18, <1>19, <1>20, <1>21, <1>22, <1>23, <1>24, <1>25,
      <1>26, <1>27, <1>28, <1>29, <1>30, <1>31, <1>32, <1>33, <1>34, <1>35
     DEF Next, CallStep, BlockStep, EndStep, DropStep, ExitStep, OtherStep

---------------------------------------------------------------------------
\* No step counts a device where the cards are chosen.
LEMMA ChosenUntakenStep ==
  ASSUME Shape, ChosenUntaken, [Next]_vars
  PROVE  ChosenUntaken'
<1> USE DEF ChosenUntaken, ChoosesIndices, poolVars, cardVars, callVars, workVars
<1>1. ASSUME NEW c \in Calls, EnterCall(c) PROVE ChosenUntaken'
  BY <1>1 DEF EnterCall
<1>2. ASSUME NEW c \in Calls, EnterMover(c) PROVE ChosenUntaken'
  BY <1>2 DEF EnterMover
<1>3. ASSUME NEW c \in Calls, LookFails(c) PROVE ChosenUntaken'
  BY <1>3 DEF LookFails
<1>4. ASSUME NEW c \in Calls, CountStart(c) PROVE ChosenUntaken'
  BY <1>4 DEF CountStart
<1>5. ASSUME NEW c \in Calls, Reserve(c) PROVE ChosenUntaken'
  BY <1>5 DEF Reserve
<1>6. ASSUME NEW c \in Calls, ReserveFails(c) PROVE ChosenUntaken'
  BY <1>6 DEF ReserveFails
<1>7. ASSUME NEW c \in Calls, ReserveRaises(c) PROVE ChosenUntaken'
  BY <1>7 DEF ReserveRaises
<1>8. ASSUME NEW c \in Calls, CreateSession(c) PROVE ChosenUntaken'
  BY <1>8 DEF CreateSession
<1>9. ASSUME NEW c \in Calls, BootOk(c) PROVE ChosenUntaken'
  BY <1>9 DEF BootOk
<1>10. ASSUME NEW c \in Calls, StartFails(c) PROVE ChosenUntaken'
  BY <1>10 DEF StartFails
<1>11. ASSUME NEW c \in Calls, GiveBack(c) PROVE ChosenUntaken'
  <2>1. Width[SKey(Mine(c))] \in Nat
    BY Declarations DEF SKey, Mine
  <2> QED
    BY <1>11, <2>1 DEF GiveBack, Unreserve, Monus
<1>12. ASSUME NEW c \in Calls, Uncount(c) PROVE ChosenUntaken'
  BY <1>12 DEF Uncount
<1>13. ASSUME NEW c \in Calls, Decide(c) PROVE ChosenUntaken'
  BY <1>13 DEF Decide
<1>14. ASSUME NEW c \in Calls, PollTimeout(c) PROVE ChosenUntaken'
  BY <1>14 DEF PollTimeout
<1>15. ASSUME NEW c \in Calls, RunEnds(c) PROVE ChosenUntaken'
  BY <1>15 DEF RunEnds
<1>16. ASSUME NEW c \in Calls, RunFails(c) PROVE ChosenUntaken'
  BY <1>16 DEF RunFails
<1>17. ASSUME NEW c \in Calls, Release(c) PROVE ChosenUntaken'
  BY <1>17 DEF Release
<1>18. ASSUME NEW c \in Calls, DropIdle(c) PROVE ChosenUntaken'
  BY <1>18 DEF DropIdle
<1>19. ASSUME NEW c \in Calls, Discard(c) PROVE ChosenUntaken'
  BY <1>19 DEF Discard
<1>20. ASSUME NEW c \in Calls, Retry(c) PROVE ChosenUntaken'
  BY <1>20 DEF Retry
<1>21. ASSUME NEW c \in Calls, NEW s \in Session, Reuse(c, s) PROVE ChosenUntaken'
  BY <1>21 DEF Reuse
<1>22. ASSUME NEW b \in Blocks, OpenBlock(b) PROVE ChosenUntaken'
  BY <1>22 DEF OpenBlock
<1>23. ASSUME NEW b \in Blocks, CloseBlock(b) PROVE ChosenUntaken'
  BY <1>23 DEF CloseBlock
<1>24. ASSUME NEW t \in Calls \cup Blocks, Leave(t) PROVE ChosenUntaken'
  BY <1>24 DEF Leave
<1>25. ASSUME NEW t \in Calls \cup Blocks, Snapshot(t) PROVE ChosenUntaken'
  BY <1>25 DEF Snapshot
<1>26. ASSUME NEW t \in Calls \cup Blocks, SweepDone(t) PROVE ChosenUntaken'
  BY <1>26 DEF SweepDone
<1>27. ASSUME NEW t \in Calls \cup Blocks, NEW s \in Session, Sweep(t, s) PROVE ChosenUntaken'
  BY <1>27 DEF Sweep
<1>28. ASSUME NEW t \in Threads, DropUnreserve(t) PROVE ChosenUntaken'
  <2>1. Width[SKey(drop[t])] \in Nat
    BY <1>28, Declarations DEF DropUnreserve, At, Shape, Places, Dropping, SKey, Session
  <2> QED
    BY <1>28, <2>1 DEF DropUnreserve, Unreserve, Monus
<1>29. ASSUME NEW t \in Threads, DropStop(t) PROVE ChosenUntaken'
  BY <1>29 DEF DropStop
<1>30. ASSUME Shutdown PROVE ChosenUntaken'
  BY <1>30 DEF Shutdown
<1>31. ASSUME NEW s \in Session, Purge(s) PROVE ChosenUntaken'
  BY <1>31 DEF Purge
<1>32. ASSUME PurgeDone PROVE ChosenUntaken'
  BY <1>32 DEF PurgeDone
<1>33. ASSUME NEW i \in Shared, OtherTakes(i) PROVE ChosenUntaken'
  BY <1>33 DEF OtherTakes
<1>34. ASSUME NEW i \in Shared, OtherLeaves(i) PROVE ChosenUntaken'
  BY <1>34 DEF OtherLeaves
<1>35. CASE UNCHANGED vars
  BY <1>35 DEF vars
<1> QED
  BY <1>1, <1>2, <1>3, <1>4, <1>5, <1>6, <1>7, <1>8, <1>9, <1>10, <1>11, <1>12, <1>13,
      <1>14, <1>15, <1>16, <1>17, <1>18, <1>19, <1>20, <1>21, <1>22, <1>23, <1>24, <1>25,
      <1>26, <1>27, <1>28, <1>29, <1>30, <1>31, <1>32, <1>33, <1>34, <1>35
     DEF Next, CallStep, BlockStep, EndStep, DropStep, ExitStep, OtherStep

---------------------------------------------------------------------------
\* While a hold is open and no shutdown has run, no step takes an idle session out.
LEMMA KeptStep ==
  ASSUME Shape, HoldsCounted, [Next]_vars, NEW h \in Threads, Holding(h), pc'[Exit] = "out"
  PROVE  bucket \ busy \subseteq bucket'
<1> USE Threading, Declarations
<1>0. pc[Exit] = "out" => depth > 0
  <2>1. h \in Open
    BY DEF Open
  <2> QED
    BY <2>1, FS_EmptySet, FS_CardinalityType DEF HoldsCounted
<1> DEFINE NothingTaken == bucket \ busy \subseteq bucket'
<1> USE DEF poolVars, cardVars, callVars, workVars
<1>1. ASSUME NEW c \in Calls, EnterCall(c) PROVE NothingTaken
  BY <1>1 DEF EnterCall
<1>2. ASSUME NEW c \in Calls, EnterMover(c) PROVE NothingTaken
  BY <1>2 DEF EnterMover
<1>3. ASSUME NEW c \in Calls, LookFails(c) PROVE NothingTaken
  BY <1>3 DEF LookFails
<1>4. ASSUME NEW c \in Calls, CountStart(c) PROVE NothingTaken
  BY <1>4 DEF CountStart
<1>5. ASSUME NEW c \in Calls, Reserve(c) PROVE NothingTaken
  BY <1>5 DEF Reserve
<1>6. ASSUME NEW c \in Calls, ReserveFails(c) PROVE NothingTaken
  BY <1>6 DEF ReserveFails
<1>7. ASSUME NEW c \in Calls, ReserveRaises(c) PROVE NothingTaken
  BY <1>7 DEF ReserveRaises
<1>8. ASSUME NEW c \in Calls, CreateSession(c) PROVE NothingTaken
  BY <1>8 DEF CreateSession
<1>9. ASSUME NEW c \in Calls, BootOk(c) PROVE NothingTaken
  BY <1>9 DEF BootOk
<1>10. ASSUME NEW c \in Calls, StartFails(c) PROVE NothingTaken
  BY <1>10 DEF StartFails
<1>11. ASSUME NEW c \in Calls, GiveBack(c) PROVE NothingTaken
  BY <1>11 DEF GiveBack
<1>12. ASSUME NEW c \in Calls, Uncount(c) PROVE NothingTaken
  BY <1>12 DEF Uncount
<1>13. ASSUME NEW c \in Calls, Decide(c) PROVE NothingTaken
  BY <1>13 DEF Decide
<1>14. ASSUME NEW c \in Calls, PollTimeout(c) PROVE NothingTaken
  BY <1>14 DEF PollTimeout
<1>15. ASSUME NEW c \in Calls, RunEnds(c) PROVE NothingTaken
  BY <1>15 DEF RunEnds
<1>16. ASSUME NEW c \in Calls, RunFails(c) PROVE NothingTaken
  BY <1>16 DEF RunFails
<1>17. ASSUME NEW c \in Calls, Release(c) PROVE NothingTaken
  BY <1>17 DEF Release
<1>18. ASSUME NEW c \in Calls, DropIdle(c) PROVE NothingTaken
  BY <1>18, <1>0 DEF DropIdle, MayDropIdle, Shape, TypeOK, Threads, Goto, At
<1>19. ASSUME NEW c \in Calls, Discard(c) PROVE NothingTaken
  BY <1>19 DEF Discard, StartDrop, Shape, Served, Serves, Places, Using, At
<1>20. ASSUME NEW c \in Calls, Retry(c) PROVE NothingTaken
  BY <1>20 DEF Retry
<1>21. ASSUME NEW c \in Calls, NEW s \in Session, Reuse(c, s) PROVE NothingTaken
  BY <1>21 DEF Reuse
<1>22. ASSUME NEW b \in Blocks, OpenBlock(b) PROVE NothingTaken
  BY <1>22 DEF OpenBlock
<1>23. ASSUME NEW b \in Blocks, CloseBlock(b) PROVE NothingTaken
  BY <1>23 DEF CloseBlock
<1>24. ASSUME NEW t \in Calls \cup Blocks, Leave(t) PROVE NothingTaken
  BY <1>24 DEF Leave
<1>25. ASSUME NEW t \in Calls \cup Blocks, Snapshot(t) PROVE NothingTaken
  BY <1>25 DEF Snapshot
<1>26. ASSUME NEW t \in Calls \cup Blocks, SweepDone(t) PROVE NothingTaken
  BY <1>26 DEF SweepDone
<1>27. ASSUME NEW t \in Calls \cup Blocks, NEW s \in Session, Sweep(t, s) PROVE NothingTaken
  BY <1>27, <1>0 DEF Sweep, MayDropIdle, Shape, TypeOK, Threads, Goto, At
<1>28. ASSUME NEW t \in Threads, DropUnreserve(t) PROVE NothingTaken
  BY <1>28 DEF DropUnreserve
<1>29. ASSUME NEW t \in Threads, DropStop(t) PROVE NothingTaken
  BY <1>29 DEF DropStop
<1>30. ASSUME Shutdown PROVE NothingTaken
  BY <1>30 DEF Shutdown, Goto, Shape, TypeOK, Threads
<1>31. ASSUME NEW s \in Session, Purge(s) PROVE NothingTaken
  BY <1>31 DEF Purge
<1>32. ASSUME PurgeDone PROVE NothingTaken
  BY <1>32 DEF PurgeDone
<1>33. ASSUME NEW i \in Shared, OtherTakes(i) PROVE NothingTaken
  BY <1>33 DEF OtherTakes
<1>34. ASSUME NEW i \in Shared, OtherLeaves(i) PROVE NothingTaken
  BY <1>34 DEF OtherLeaves
<1>35. CASE UNCHANGED vars
  BY <1>35 DEF vars
<1> QED
  BY <1>1, <1>2, <1>3, <1>4, <1>5, <1>6, <1>7, <1>8, <1>9, <1>10, <1>11, <1>12, <1>13,
      <1>14, <1>15, <1>16, <1>17, <1>18, <1>19, <1>20, <1>21, <1>22, <1>23, <1>24, <1>25,
      <1>26, <1>27, <1>28, <1>29, <1>30, <1>31, <1>32, <1>33, <1>34, <1>35
     DEF Next, CallStep, BlockStep, EndStep, DropStep, ExitStep, OtherStep

---------------------------------------------------------------------------
\* At the start nothing is held, registered or counted.
LEMMA HoldInit ==
  ASSUME Init
  PROVE  HoldInv
<1>1. Open = {}
  BY DEF Init, Open, Holding, Threads
<1> QED
  BY <1>1, FS_EmptySet DEF Init, HoldInv, HoldsCounted, IdleWatched, LiveAnswered, ChosenUntaken, Threads

(***************************************************************************)
(* The inductive invariant of the holds, on top of IInv.                   *)
(***************************************************************************)
THEOREM HoldInvariance == Spec => []HoldInv
<1>1. HoldInv /\ IInv /\ [Next]_vars => HoldInv'
  BY HoldsCountedStep, IdleWatchedStep, LiveAnsweredStep, ChosenUntakenStep DEF HoldInv, IInv
<1> QED
  BY <1>1, HoldInit, Invariance, PTL DEF Spec

\* When no thread is at work nothing is registered, reserved, counted or running.
LEMMA QuietIsEmpty ==
  ASSUME IInv, HoldInv, Quiescent
  PROVE  /\ bucket = {} /\ live = {} /\ reserved = {}
         /\ taken = 0 /\ starting = 0 /\ depth = 0
<1>1. Open = {}
  BY Threading DEF Quiescent, Open, Holding, Threads
<1>2. depth = 0
  BY <1>1, FS_EmptySet DEF HoldInv, HoldsCounted, IInv, Shape, TypeOK
<1>3. Announced = {} /\ Starting = {} /\ Leaving = {}
  BY DEF Quiescent, Announced, Starting, Leaving, Threads
<1>4. starting = 0
  BY <1>3, FS_EmptySet DEF IInv, Shape, StartsCounted
<1>5. cand[Exit] = {}
  BY DEF Quiescent, HoldInv, LiveAnswered, IInv, Shape, Places
<1>6. bucket = {}
  <2>1. \A s \in bucket : s \notin busy
    BY DEF Quiescent, IInv, Shape, Served, BusyServed, Serves
  <2>2. \A t \in Threads, s \in Session : ~Watches(t, s)
    BY DEF Quiescent, Watches, Sweeping, Threads
  <2> QED
    BY <1>2, <2>1, <2>2 DEF HoldInv, IdleWatched, IInv, Shape, TypeOK
<1>7. live = {}
  <2>1. \A t \in Threads, s \in Session : ~Answers(t, s)
    BY DEF Quiescent, Answers, Dropping, Threads
  <2> QED
    BY <1>5, <1>6, <2>1 DEF HoldInv, LiveAnswered, IInv, Shape, TypeOK
<1>8. Holders = {}
  BY <1>3, <1>5, <1>6 DEF Holders
<1>9. reserved = {}
  BY <1>8 DEF IInv, CardsAccounted, ChoosesIndices, Shape, TypeOK
<1>10. taken = 0
  <2>1. CASE ChoosesIndices
    BY <2>1 DEF HoldInv, ChosenUntaken
  <2>2. CASE ~ChoosesIndices
    <3>1. UNION {Slots(s) : s \in Holders} = {}
      BY <1>8
    <3> QED
      BY <2>2, <3>1, FS_EmptySet DEF IInv, TakenCounted, TakenAccounted
  <2> QED
    BY <2>1, <2>2
<1> QED
  BY <1>2, <1>4, <1>6, <1>7, <1>9, <1>10

(***************************************************************************)
(* Until a shutdown the hold depth is the number of invocations and blocks *)
(* that are open, and once all is quiet no session, reservation, start or  *)
(* hold is left, whatever failed and whether or not a shutdown ran.        *)
(***************************************************************************)
THEOREM HoldsCorrect == Spec => []HoldsSettle
<1>1. IInv /\ HoldInv => HoldsSettle
  BY QuietIsEmpty DEF HoldInv, HoldsCounted, Open, IInv, Shape, HoldsSettle, HoldDepth, NothingLeft
<1> QED
  BY <1>1, Invariance, HoldInvariance, PTL

(***************************************************************************)
(* While an invocation or a block is open no idle session is taken out of  *)
(* the pool, whoever sweeps, releases or discards beside it.               *)
(***************************************************************************)
THEOREM KeptCorrect == Spec => KeptWhileHeld
<1>1. IInv /\ HoldInv /\ [Next]_vars
        => ((\E t \in Threads : Holding(t)) /\ pc'[Exit] = "out" => bucket \ busy \subseteq bucket')
  BY KeptStep DEF IInv, HoldInv
<1> QED
  BY <1>1, Invariance, HoldInvariance, PTL DEF Spec, KeptWhileHeld
============================================================================
