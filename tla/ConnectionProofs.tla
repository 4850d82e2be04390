-------------------------- MODULE ConnectionProofs --------------------------
(***************************************************************************)
(* Proofs about Connection: types, the turn to read and the wake-ups, the  *)
(* slots of a failed connection, that it implements RequestReply, for any  *)
(* set of requests: each is executed at most once, and a value is the      *)
(* answer of the request it is returned to; and that no reply is lost and  *)
(* a new interpreter finds the source of its worker first.                 *)
(***************************************************************************)
EXTENDS Connection, SequenceTheorems, TLAPS

\* A thread past _open has a slot, until it returns.
SlotHeld ==
  \A r \in Requests :
    pc[r] \in {"send", "enter", "asleep", "read", "clearing", "check", "quit", "result", "source"}
      => slot[r] # "none"

\* The inductive invariant of the turn to read.
TurnInv ==
  /\ TypeOK
  /\ OneReader
  /\ NobodyOversleeps
  /\ NoSlotAfterFailure
  /\ SlotHeld

\* What the steps of the worker, of the timers and of close leave alone.
waitVars == <<pc, stage, slot, turnVars>>

---------------------------------------------------------------------------
\* Taking a frame off a pipe leaves frames, and a request or reply names a request.
LEMMA PipeHead ==
  ASSUME NEW pipe \in Seq(Frames), pipe # <<>>
  PROVE  /\ Tail(pipe) \in Seq(Frames)
         /\ Head(pipe).kind \in {"request", "ok", "refused"} => Head(pipe).stream \in Requests
<1>1. Head(pipe) \in Frames /\ Tail(pipe) \in Seq(Frames)
  BY HeadTailProperties
<1> QED
  BY <1>1 DEF Frames

\* Empty pipes and an empty job queue are well typed.
LEMMA Nothing == <<>> \in Seq(Frames) /\ <<>> \in Seq(Requests \cup {None})
  BY EmptySeq

---------------------------------------------------------------------------
\* Every step keeps every variable in its type.
LEMMA TypeStep ==
  ASSUME TypeOK, [Next]_vars
  PROVE  TypeOK'
<1> USE RequestKinds DEF TypeOK, Goto, Labels, Frames, Frame,
        requestVars, gateVars, turnVars, pipeVars, workerVars
<1>1. ASSUME NEW r \in Requests, Begin(r) PROVE TypeOK'
  BY <1>1 DEF Begin
<1>2. ASSUME NEW r \in Requests, BeginLost(r) PROVE TypeOK'
  BY <1>2 DEF BeginLost
<1>3. ASSUME NEW r \in Requests, GateShared(r) PROVE TypeOK'
  BY <1>3 DEF GateShared
<1>4. ASSUME NEW r \in Requests, GateExclusive(r) PROVE TypeOK'
  BY <1>4 DEF GateExclusive
<1>5. ASSUME NEW r \in Requests, GateClear(r) PROVE TypeOK'
  BY <1>5 DEF GateClear
<1>6. ASSUME NEW r \in Requests, OpenSlot(r) PROVE TypeOK'
  BY <1>6 DEF OpenSlot
<1>7. ASSUME NEW r \in Requests, OpenFails(r) PROVE TypeOK'
  BY <1>7 DEF OpenFails, Finish
<1>8. ASSUME NEW r \in Requests, SendRequest(r) PROVE TypeOK'
  BY <1>8 DEF SendRequest
<1>9. ASSUME NEW r \in Requests, SendFails(r) PROVE TypeOK'
  BY <1>9 DEF SendFails, Finish, Expired
<1>10. ASSUME NEW r \in Requests, Enter(r) PROVE TypeOK'
  <2>1. pc' \in [Requests -> Labels]
    <3>1. PICK l \in {"result", "read", "asleep"} : pc' = [pc EXCEPT ![r] = l]
      BY <1>10 DEF Enter
    <3> QED
      BY <3>1
  <2>2. reading' \in BOOLEAN
    BY <1>10 DEF Enter
  <2> QED
    BY <1>10, <2>1, <2>2 DEF Enter
<1>11. ASSUME NEW r \in Requests, PumpReply(r) PROVE TypeOK'
  BY <1>11, PipeHead DEF PumpReply, Deliver, GotoNotify
<1>12. ASSUME NEW r \in Requests, PumpHello(r) PROVE TypeOK'
  BY <1>12, PipeHead DEF PumpHello, GotoNotify
<1>13. ASSUME NEW r \in Requests, PumpEnd(r) PROVE TypeOK'
  BY <1>13 DEF PumpEnd
<1>14. ASSUME NEW r \in Requests, FailSlots(r) PROVE TypeOK'
  BY <1>14 DEF FailSlots, GotoNotify
<1>15. ASSUME NEW r \in Requests, Check(r) PROVE TypeOK'
  BY <1>15 DEF Check
<1>16. ASSUME NEW r \in Requests, Quit(r) PROVE TypeOK'
  BY <1>16 DEF Quit, GotoNotify
<1>17. ASSUME NEW r \in Requests, Return(r) PROVE TypeOK'
  BY <1>17 DEF Return, Finish, Outcome, Expired
<1>18. ASSUME NEW r \in Requests, SwitchReplied(r) PROVE TypeOK'
  BY <1>18 DEF SwitchReplied
<1>19. ASSUME NEW r \in Requests, SendSource(r) PROVE TypeOK'
  BY <1>19 DEF SendSource
<1>20. ASSUME NEW r \in Requests, Expire(r) PROVE TypeOK'
  BY <1>20 DEF Expire
<1>21. ASSUME NEW r \in Requests, Kill(r) PROVE TypeOK'
  <2>1. watchdog' \in [Requests -> {"off", "armed", "expired", "fired"}]
    BY <1>21 DEF Kill
  <2>2. CASE WorkerEnds
    BY <1>21, <2>1, <2>2, Nothing DEF Kill, WorkerEnds
  <2>3. CASE UNCHANGED <<toWorker, worker, wreader, jobs>>
    BY <1>21, <2>1, <2>3 DEF Kill
  <2> QED
    BY <1>21, <2>2, <2>3 DEF Kill
<1>22. CASE CloseBegins
  BY <1>22 DEF CloseBegins
<1>23. CASE CloseInput
  BY <1>23 DEF CloseInput
<1>24. CASE CloseEnds
  BY <1>24, Nothing DEF CloseEnds, WorkerEnds
<1>25. CASE Drain
  BY <1>25 DEF Drain
<1>26. CASE ReadLight
  BY <1>26, PipeHead DEF ReadLight, Reads, Answer
<1>27. CASE ReadJob
  BY <1>27, PipeHead DEF ReadJob, Reads, Switches
<1>28. CASE ReadEnd
  <2>1. toWorker' \in Seq(Frames)
    BY <1>28, PipeHead DEF ReadEnd, Reads
  <2>2. jobs' \in Seq(Requests \cup {None})
    BY <1>28 DEF ReadEnd
  <2> QED
    BY <1>28, <2>1, <2>2 DEF ReadEnd
<1>29. CASE ServeJob
  BY <1>29 DEF ServeJob, NextJob, Answer
<1>30. CASE ServeEnd
  BY <1>30, Nothing DEF ServeEnd, NextJob, WorkerEnds
<1>31. CASE ReexecRefused
  BY <1>31 DEF ReexecRefused, NextJob, Answer
<1>32. CASE ReexecReplies
  BY <1>32 DEF ReexecReplies, NextJob, Answer
<1>33. CASE Exec
  BY <1>33, Nothing DEF Exec
<1>34. CASE StubStarts
  BY <1>34 DEF StubStarts
<1>35. CASE StubFails
  BY <1>35, Nothing DEF StubFails, WorkerEnds
<1>36. CASE Crash
  BY <1>36, Nothing DEF Crash, WorkerEnds
<1>37. CASE UNCHANGED vars
  BY <1>37 DEF vars
<1> QED
  BY <1>1, <1>2, <1>3, <1>4, <1>5, <1>6, <1>7, <1>8, <1>9, <1>10, <1>11, <1>12, <1>13, <1>14, <1>15, <1>16, <1>17, <1>18, <1>19, <1>20, <1>21, <1>22, <1>23, <1>24, <1>25, <1>26, <1>27, <1>28, <1>29, <1>30, <1>31, <1>32, <1>33, <1>34, <1>35, <1>36, <1>37
  DEF Next, ThreadStep, WorkerStep

---------------------------------------------------------------------------
\* The worker, the timers and close change nothing a waiting thread looks at.
LEMMA QuietStep ==
  ASSUME [Next]_vars
  PROVE  UNCHANGED waitVars \/ \E r \in Requests : Begin(r) \/ BeginLost(r) \/ ThreadStep(r)
<1> USE DEF waitVars, turnVars, requestVars, vars
<1>1. ASSUME NEW r \in Requests, Expire(r) \/ Kill(r) PROVE UNCHANGED waitVars
  BY <1>1 DEF Expire, Kill
<1>2. CASE CloseBegins \/ CloseInput \/ CloseEnds \/ Drain \/ Crash \/ UNCHANGED vars
  BY <1>2 DEF CloseBegins, CloseInput, CloseEnds, Drain, Crash
<1>3. CASE WorkerStep
  BY <1>3 DEF WorkerStep, ReadLight, ReadJob, ReadEnd, ServeJob, ServeEnd, ReexecRefused,
              ReexecReplies, Exec, StubStarts, StubFails
<1> QED
  BY <1>1, <1>2, <1>3 DEF Next

\* The turn to read goes from one thread to the next, and every change a sleeper waits for
\* wakes it.
LEMMA TurnStep ==
  ASSUME TurnInv, TypeOK', [Next]_vars
  PROVE  TurnInv'
<1> USE DEF TypeOK, Goto, GotoNotify, turnVars, requestVars, Reading, TurnFree, Done
<1> DEFINE Rest == OneReader' /\ NobodyOversleeps' /\ NoSlotAfterFailure' /\ SlotHeld'
<1>0. CASE UNCHANGED waitVars
  BY <1>0 DEF waitVars, TurnInv, OneReader, NobodyOversleeps, NoSlotAfterFailure, SlotHeld
<1>1. ASSUME NEW r \in Requests, Begin(r) PROVE Rest
  <2>1. OneReader'
    BY <1>1 DEF TurnInv, OneReader, Begin
  <2>2. NobodyOversleeps'
    BY <1>1 DEF TurnInv, NobodyOversleeps, Begin
  <2>3. NoSlotAfterFailure'
    BY <1>1 DEF TurnInv, NoSlotAfterFailure, Begin
  <2>4. SlotHeld'
    BY <1>1 DEF TurnInv, SlotHeld, Begin
  <2> QED
    BY <2>1, <2>2, <2>3, <2>4
<1>2. ASSUME NEW r \in Requests, BeginLost(r) PROVE Rest
  <2>1. OneReader'
    BY <1>2 DEF TurnInv, OneReader, BeginLost
  <2>2. NobodyOversleeps'
    BY <1>2 DEF TurnInv, NobodyOversleeps, BeginLost
  <2>3. NoSlotAfterFailure'
    BY <1>2 DEF TurnInv, NoSlotAfterFailure, BeginLost
  <2>4. SlotHeld'
    BY <1>2 DEF TurnInv, SlotHeld, BeginLost
  <2> QED
    BY <2>1, <2>2, <2>3, <2>4
<1>3. ASSUME NEW r \in Requests, GateShared(r) PROVE Rest
  <2>1. OneReader'
    BY <1>3 DEF TurnInv, OneReader, GateShared
  <2>2. NobodyOversleeps'
    BY <1>3 DEF TurnInv, NobodyOversleeps, GateShared
  <2>3. NoSlotAfterFailure'
    BY <1>3 DEF TurnInv, NoSlotAfterFailure, GateShared
  <2>4. SlotHeld'
    BY <1>3 DEF TurnInv, SlotHeld, GateShared
  <2> QED
    BY <2>1, <2>2, <2>3, <2>4
<1>4. ASSUME NEW r \in Requests, GateExclusive(r) PROVE Rest
  <2>1. OneReader'
    BY <1>4 DEF TurnInv, OneReader, GateExclusive
  <2>2. NobodyOversleeps'
    BY <1>4 DEF TurnInv, NobodyOversleeps, GateExclusive
  <2>3. NoSlotAfterFailure'
    BY <1>4 DEF TurnInv, NoSlotAfterFailure, GateExclusive
  <2>4. SlotHeld'
    BY <1>4 DEF TurnInv, SlotHeld, GateExclusive
  <2> QED
    BY <2>1, <2>2, <2>3, <2>4
<1>5. ASSUME NEW r \in Requests, GateClear(r) PROVE Rest
  <2>1. OneReader'
    BY <1>5 DEF TurnInv, OneReader, GateClear
  <2>2. NobodyOversleeps'
    BY <1>5 DEF TurnInv, NobodyOversleeps, GateClear
  <2>3. NoSlotAfterFailure'
    BY <1>5 DEF TurnInv, NoSlotAfterFailure, GateClear
  <2>4. SlotHeld'
    BY <1>5 DEF TurnInv, SlotHeld, GateClear
  <2> QED
    BY <2>1, <2>2, <2>3, <2>4
<1>6. ASSUME NEW r \in Requests, OpenSlot(r) PROVE Rest
  <2>1. OneReader'
    BY <1>6 DEF TurnInv, OneReader, OpenSlot
  <2>2. NobodyOversleeps'
    BY <1>6 DEF TurnInv, NobodyOversleeps, OpenSlot
  <2>3. NoSlotAfterFailure'
    BY <1>6 DEF TurnInv, NoSlotAfterFailure, OpenSlot
  <2>4. SlotHeld'
    BY <1>6 DEF TurnInv, SlotHeld, OpenSlot
  <2> QED
    BY <2>1, <2>2, <2>3, <2>4
<1>7. ASSUME NEW r \in Requests, OpenFails(r) PROVE Rest
  <2>1. OneReader'
    BY <1>7 DEF TurnInv, OneReader, OpenFails, Finish
  <2>2. NobodyOversleeps'
    BY <1>7 DEF TurnInv, NobodyOversleeps, OpenFails, Finish
  <2>3. NoSlotAfterFailure'
    BY <1>7 DEF TurnInv, NoSlotAfterFailure, OpenFails, Finish
  <2>4. SlotHeld'
    BY <1>7 DEF TurnInv, SlotHeld, OpenFails, Finish
  <2> QED
    BY <2>1, <2>2, <2>3, <2>4
<1>8. ASSUME NEW r \in Requests, SendRequest(r) PROVE Rest
  <2>1. OneReader'
    BY <1>8 DEF TurnInv, OneReader, SendRequest
  <2>2. NobodyOversleeps'
    BY <1>8 DEF TurnInv, NobodyOversleeps, SendRequest
  <2>3. NoSlotAfterFailure'
    BY <1>8 DEF TurnInv, NoSlotAfterFailure, SendRequest
  <2>4. SlotHeld'
    BY <1>8 DEF TurnInv, SlotHeld, SendRequest
  <2> QED
    BY <2>1, <2>2, <2>3, <2>4
<1>9. ASSUME NEW r \in Requests, SendFails(r) PROVE Rest
  <2>1. OneReader'
    BY <1>9 DEF TurnInv, OneReader, SendFails, Finish
  <2>2. NobodyOversleeps'
    BY <1>9 DEF TurnInv, NobodyOversleeps, SendFails, Finish
  <2>3. NoSlotAfterFailure'
    BY <1>9 DEF TurnInv, NoSlotAfterFailure, SendFails, Finish
  <2>4. SlotHeld'
    BY <1>9 DEF TurnInv, SlotHeld, SendFails, Finish
  <2> QED
    BY <2>1, <2>2, <2>3, <2>4
<1>10. ASSUME NEW r \in Requests, Enter(r) PROVE Rest
  <2>1. OneReader'
    <3>1. CASE pc' = [pc EXCEPT ![r] = "read"] /\ ~reading /\ reading' = TRUE
      BY <1>10, <3>1 DEF TurnInv, OneReader, Enter
    <3>2. CASE pc' \in {[pc EXCEPT ![r] = "result"], [pc EXCEPT ![r] = "asleep"]}
               /\ reading' = reading
      <4>1. \A q \in Requests : (pc'[q] \in {"read", "clearing", "check", "quit"})
                                 <=> (pc[q] \in {"read", "clearing", "check", "quit"})
        BY <1>10, <3>2 DEF TurnInv, Enter
      <4> QED
        BY <3>2, <4>1 DEF TurnInv, OneReader
    <3> QED
      BY <1>10, <3>1, <3>2 DEF Enter
  <2>2. NobodyOversleeps'
    BY <1>10 DEF TurnInv, NobodyOversleeps, OneReader, Enter
  <2>3. NoSlotAfterFailure'
    BY <1>10 DEF TurnInv, NoSlotAfterFailure, OneReader, Enter
  <2>4. SlotHeld'
    BY <1>10 DEF TurnInv, SlotHeld, Enter
  <2> QED
    BY <2>1, <2>2, <2>3, <2>4
<1>11. ASSUME NEW r \in Requests, PumpReply(r) PROVE Rest
  <2>1. OneReader'
    BY <1>11 DEF TurnInv, OneReader, PumpReply, Deliver
  <2>2. NobodyOversleeps'
    BY <1>11 DEF TurnInv, NobodyOversleeps, OneReader, PumpReply, Deliver
  <2>3. NoSlotAfterFailure'
    BY <1>11 DEF TurnInv, NoSlotAfterFailure, OneReader, PumpReply, Deliver
  <2>4. SlotHeld'
    BY <1>11 DEF TurnInv, SlotHeld, PumpReply, Deliver
  <2> QED
    BY <2>1, <2>2, <2>3, <2>4
<1>12. ASSUME NEW r \in Requests, PumpHello(r) PROVE Rest
  <2>1. OneReader'
    BY <1>12 DEF TurnInv, OneReader, PumpHello
  <2>2. NobodyOversleeps'
    BY <1>12 DEF TurnInv, NobodyOversleeps, OneReader, PumpHello
  <2>3. NoSlotAfterFailure'
    BY <1>12 DEF TurnInv, NoSlotAfterFailure, OneReader, PumpHello
  <2>4. SlotHeld'
    BY <1>12 DEF TurnInv, SlotHeld, PumpHello
  <2> QED
    BY <2>1, <2>2, <2>3, <2>4
<1>13. ASSUME NEW r \in Requests, PumpEnd(r) PROVE Rest
  <2>1. OneReader'
    BY <1>13 DEF TurnInv, OneReader, PumpEnd
  <2>2. NobodyOversleeps'
    BY <1>13 DEF TurnInv, NobodyOversleeps, OneReader, PumpEnd
  <2>3. NoSlotAfterFailure'
    BY <1>13 DEF TurnInv, NoSlotAfterFailure, OneReader, PumpEnd
  <2>4. SlotHeld'
    BY <1>13 DEF TurnInv, SlotHeld, PumpEnd
  <2> QED
    BY <2>1, <2>2, <2>3, <2>4
<1>14. ASSUME NEW r \in Requests, FailSlots(r) PROVE Rest
  <2>1. OneReader'
    BY <1>14 DEF TurnInv, OneReader, FailSlots
  <2>2. NobodyOversleeps'
    BY <1>14 DEF TurnInv, NobodyOversleeps, OneReader, FailSlots
  <2>3. NoSlotAfterFailure'
    BY <1>14 DEF TurnInv, NoSlotAfterFailure, OneReader, FailSlots
  <2>4. SlotHeld'
    BY <1>14 DEF TurnInv, SlotHeld, FailSlots
  <2> QED
    BY <2>1, <2>2, <2>3, <2>4
<1>15. ASSUME NEW r \in Requests, Check(r) PROVE Rest
  <2>1. OneReader'
    <3>1. \A q \in Requests : (pc'[q] \in {"read", "clearing", "check", "quit"})
                               <=> (pc[q] \in {"read", "clearing", "check", "quit"})
      BY <1>15 DEF TurnInv, Check
    <3> QED
      BY <1>15, <3>1 DEF TurnInv, OneReader, Check
  <2>2. NobodyOversleeps'
    BY <1>15 DEF TurnInv, NobodyOversleeps, OneReader, Check
  <2>3. NoSlotAfterFailure'
    BY <1>15 DEF TurnInv, NoSlotAfterFailure, OneReader, Check
  <2>4. SlotHeld'
    BY <1>15 DEF TurnInv, SlotHeld, Check
  <2> QED
    BY <2>1, <2>2, <2>3, <2>4
<1>16. ASSUME NEW r \in Requests, Quit(r) PROVE Rest
  <2>1. OneReader'
    BY <1>16 DEF TurnInv, OneReader, Quit
  <2>2. NobodyOversleeps'
    BY <1>16 DEF TurnInv, NobodyOversleeps, OneReader, Quit
  <2>3. NoSlotAfterFailure'
    BY <1>16 DEF TurnInv, NoSlotAfterFailure, OneReader, Quit
  <2>4. SlotHeld'
    BY <1>16 DEF TurnInv, SlotHeld, Quit
  <2> QED
    BY <2>1, <2>2, <2>3, <2>4
<1>17. ASSUME NEW r \in Requests, Return(r) PROVE Rest
  <2>1. OneReader'
    BY <1>17 DEF TurnInv, OneReader, Return, Finish
  <2>2. NobodyOversleeps'
    BY <1>17 DEF TurnInv, NobodyOversleeps, Return, Finish
  <2>3. NoSlotAfterFailure'
    BY <1>17 DEF TurnInv, NoSlotAfterFailure, Return, Finish
  <2>4. SlotHeld'
    BY <1>17 DEF TurnInv, SlotHeld, Return, Finish
  <2> QED
    BY <2>1, <2>2, <2>3, <2>4
<1>18. ASSUME NEW r \in Requests, SwitchReplied(r) PROVE Rest
  <2>1. OneReader'
    BY <1>18 DEF TurnInv, OneReader, SwitchReplied
  <2>2. NobodyOversleeps'
    BY <1>18 DEF TurnInv, NobodyOversleeps, SwitchReplied
  <2>3. NoSlotAfterFailure'
    BY <1>18 DEF TurnInv, NoSlotAfterFailure, SwitchReplied
  <2>4. SlotHeld'
    BY <1>18 DEF TurnInv, SlotHeld, SwitchReplied
  <2> QED
    BY <2>1, <2>2, <2>3, <2>4
<1>19. ASSUME NEW r \in Requests, SendSource(r) PROVE Rest
  <2>1. OneReader'
    BY <1>19 DEF TurnInv, OneReader, SendSource
  <2>2. NobodyOversleeps'
    BY <1>19 DEF TurnInv, NobodyOversleeps, SendSource
  <2>3. NoSlotAfterFailure'
    BY <1>19 DEF TurnInv, NoSlotAfterFailure, SendSource
  <2>4. SlotHeld'
    BY <1>19 DEF TurnInv, SlotHeld, SendSource
  <2> QED
    BY <2>1, <2>2, <2>3, <2>4
<1> QED
  BY QuietStep, <1>0, <1>1, <1>2, <1>3, <1>4, <1>5, <1>6, <1>7, <1>8, <1>9, <1>10, <1>11, <1>12, <1>13, <1>14, <1>15, <1>16, <1>17, <1>18, <1>19 DEF TurnInv, ThreadStep

---------------------------------------------------------------------------
\* A connection on which nothing was requested satisfies the invariant.
LEMMA TurnInit ==
  ASSUME Init
  PROVE  TurnInv
<1>1. TypeOK
  BY RequestKinds, Nothing DEF Init, TypeOK, Labels
<1> QED
  BY <1>1 DEF Init, TurnInv, OneReader, NobodyOversleeps, NoSlotAfterFailure, SlotHeld, Reading

\* The invariant of the turn holds in every state of every connection.
THEOREM Invariance == Spec => []TurnInv
<1>1. Init => TurnInv
  BY TurnInit
<1>2. TurnInv /\ [Next]_vars => TurnInv'
  <2> SUFFICES ASSUME TurnInv, [Next]_vars
               PROVE  TurnInv'
    OBVIOUS
  <2>1. TypeOK'
    BY TypeStep DEF TurnInv
  <2> QED
    BY <2>1, TurnStep
<1> QED
  BY <1>1, <1>2, PTL DEF Spec

\* Every variable stays in its type.
THEOREM TypeCorrect == Spec => []TypeOK
  BY Invariance, PTL DEF TurnInv

\* At most one thread reads frames, and the flag says whether one does.
THEOREM ReaderCorrect == Spec => []OneReader
  BY Invariance, PTL DEF TurnInv

\* No thread sleeps past what it waits for, and somebody reads for every sleeper.
THEOREM WakeupCorrect == Spec => []NobodyOversleeps
  BY Invariance, PTL DEF TurnInv

\* A failed connection has no open slot.
THEOREM FailureCorrect == Spec => []NoSlotAfterFailure
  BY Invariance, PTL DEF TurnInv

\* A waiting request can still get its reply, has it, or was told of the failure.
THEOREM WaitersCorrect == Spec => []WaitersReachable
<1>1. TurnInv => WaitersReachable
  BY DEF TurnInv, TypeOK, NoSlotAfterFailure, SlotHeld, WaitersReachable, Waiting, Reading
<1> QED
  BY <1>1, Invariance, PTL

-----------------------------------------------------------------------------
(* The answers.  *)

\* Before the request is written.
Unsent == {"idle", "gate", "clear", "open", "send"}

\* A request is in one place until the worker executes it, and not before it was written.
Once ==
  /\ \A i, j \in DOMAIN toWorker :
       /\ toWorker[i].kind = "request" /\ toWorker[j].kind = "request"
       /\ toWorker[i].stream = toWorker[j].stream
       => i = j
  /\ \A i, j \in DOMAIN jobs : jobs[i] \in Requests /\ jobs[i] = jobs[j] => i = j
  /\ \A i \in DOMAIN toWorker, j \in DOMAIN jobs :
       toWorker[i].kind = "request" => jobs[j] # toWorker[i].stream
  /\ \A i \in DOMAIN toWorker : toWorker[i].kind = "request" =>
       served[toWorker[i].stream] = 0 /\ pc[toWorker[i].stream] \notin Unsent
  /\ \A j \in DOMAIN jobs : jobs[j] \in Requests =>
       served[jobs[j]] = 0 /\ pc[jobs[j]] \notin Unsent
  /\ \A r \in Requests : pc[r] \in Unsent => served[r] = 0
  /\ \A r \in Requests : served[r] \in {0, 1}

\* What a request was given is what the worker answered to it.
Own ==
  /\ \A i \in DOMAIN toClient : toClient[i].kind \in {"ok", "refused"} =>
       served[toClient[i].stream] = 1
  /\ \A r \in Requests : slot[r] \in {"ok", "refused"} => served[r] = 1
  /\ \A r \in Requests : stage[r] = "hello" \/ pc[r] = "source" => slot[r] = "ok"
  /\ \A r \in Requests : stage[r] = "hello" => pc[r] \notin Unsent

AnswerInv == TypeOK /\ Once /\ Own

---------------------------------------------------------------------------
\* What is left of a pipe when its head is taken keeps its order.
LEMMA TailAt ==
  ASSUME NEW S, NEW s \in Seq(S), s # <<>>
  PROVE  /\ Tail(s) \in Seq(S) /\ 1 \in DOMAIN s /\ Head(s) = s[1] /\ Head(s) \in S
         /\ \A i \in DOMAIN Tail(s) :
              i \in Nat /\ i # 0 /\ i + 1 \in DOMAIN s /\ Tail(s)[i] = s[i + 1]
<1>1. Len(s) \in Nat /\ Len(s) # 0 /\ DOMAIN s = 1 .. Len(s)
  BY EmptySeq, LenProperties
<1>2. DOMAIN Tail(s) = 1 .. (Len(s) - 1) /\ Tail(s) \in Seq(S) /\ Head(s) \in S
  BY <1>1, HeadTailProperties, LenProperties
<1>3. \A i \in 1 .. (Len(s) - 1) : Tail(s)[i] = s[i + 1]
  BY HeadTailProperties
<1> QED
  BY <1>1, <1>2, <1>3

\* What is appended to a pipe is behind everything else.
LEMMA AppendAt ==
  ASSUME NEW S, NEW s \in Seq(S), NEW e \in S
  PROVE  \A i \in DOMAIN Append(s, e) :
           \/ i \in DOMAIN s /\ Append(s, e)[i] = s[i]
           \/ i = Len(s) + 1 /\ i \notin DOMAIN s /\ Append(s, e)[i] = e
<1>1. Len(s) \in Nat /\ DOMAIN s = 1 .. Len(s)
  BY LenProperties
<1> QED
  BY <1>1

\* The frames in the pipes are frames, and a request in one is a request.
LEMMA InPipes ==
  ASSUME TypeOK
  PROVE  /\ \A i \in DOMAIN toWorker :
              toWorker[i].kind = "request" => toWorker[i].stream \in Requests
         /\ \A i \in DOMAIN toClient :
              toClient[i].kind \in {"ok", "refused"} => toClient[i].stream \in Requests
<1>1. \A i \in DOMAIN toWorker : toWorker[i] \in Frames
  BY ElementOfSeq, LenProperties DEF TypeOK
<1>2. \A i \in DOMAIN toClient : toClient[i] \in Frames
  BY ElementOfSeq, LenProperties DEF TypeOK
<1> QED
  BY <1>1, <1>2 DEF Frames

\* A step that leaves the requests on their way alone, and unsends nothing.
LEMMA SameOnce ==
  ASSUME AnswerInv, UNCHANGED <<toWorker, jobs, served>>,
         \A r \in Requests : pc'[r] \in Unsent => pc[r] \in Unsent
  PROVE  Once'
BY InPipes DEF AnswerInv, Once

\* A worker that ends forgets what it was sent and did not execute.
LEMMA LostOnce ==
  ASSUME AnswerInv, WorkerEnds, UNCHANGED <<pc, served>>
  PROVE  Once'
<1>1. DOMAIN toWorker' = {} /\ DOMAIN jobs' = {}
  BY EmptySeq, LenProperties DEF WorkerEnds
<1> QED
  BY <1>1 DEF AnswerInv, Once

\* A frame that is no request changes nothing for those that are.
LEMMA OtherFrameOnce ==
  ASSUME AnswerInv, NEW e \in Frames, e.kind # "request", toWorker' = Append(toWorker, e),
         UNCHANGED <<jobs, served>>, \A r \in Requests : pc'[r] \in Unsent => pc[r] \in Unsent
  PROVE  Once'
<1>1. \A i \in DOMAIN toWorker' : toWorker'[i].kind = "request" =>
        i \in DOMAIN toWorker /\ toWorker'[i] = toWorker[i]
  BY AppendAt DEF AnswerInv, TypeOK
<1> QED
  BY <1>1, InPipes DEF AnswerInv, Once

\* Own holds as long as no reply is forged and no execution is undone.
LEMMA SameOwn ==
  ASSUME AnswerInv, UNCHANGED <<toClient, served, slot, stage>>,
         \A r \in Requests : pc'[r] \in Unsent => pc[r] \in Unsent,
         \A r \in Requests : pc'[r] = "source" => pc[r] = "source"
  PROVE  Own'
BY DEF AnswerInv, Own

---------------------------------------------------------------------------

\* An answer to a request that was not executed yet is its own.
LEMMA AnswerOwn ==
  ASSUME AnswerInv, NEW r \in Requests, NEW kind \in {"ok", "refused"}, Answer(r, kind),
         served[r] = 0, UNCHANGED <<pc, slot, stage>>
  PROVE  Own'
<1>1. served' = [served EXCEPT ![r] = 1]
  BY DEF Answer, AnswerInv, TypeOK
<1>2. \A i \in DOMAIN toClient' :
        \/ i \in DOMAIN toClient /\ toClient'[i] = toClient[i]
        \/ toClient'[i] = Frame(r, kind)
  BY AppendAt DEF Answer, AnswerInv, TypeOK, Frame, Frames
<1> QED
  BY <1>1, <1>2, InPipes DEF AnswerInv, TypeOK, Own, Frame

\* The main thread executes the job at the head of its queue, which was not executed.
LEMMA JobOnce ==
  ASSUME AnswerInv, NEW r \in Requests, NEW kind, NextJob(r), Answer(r, kind),
         jobs' = Tail(jobs), UNCHANGED <<pc, toWorker>>
  PROVE  Once' /\ served[r] = 0
<1>1. r = jobs[1] /\ 1 \in DOMAIN jobs
  BY TailAt DEF NextJob, AnswerInv, TypeOK
<1>2. served[r] = 0 /\ pc[r] \notin Unsent
  BY <1>1 DEF AnswerInv, Once
<1>3. served' = [served EXCEPT ![r] = 1]
  BY <1>2 DEF Answer, AnswerInv, TypeOK
<1>4. \A j \in DOMAIN jobs' :
        j \in Nat /\ j # 0 /\ j + 1 \in DOMAIN jobs /\ jobs'[j] = jobs[j + 1]
  BY TailAt DEF NextJob, AnswerInv, TypeOK
<1>5. \A j \in DOMAIN jobs' : jobs'[j] # r
  BY <1>1, <1>4 DEF AnswerInv, Once
<1>6. \A i \in DOMAIN toWorker : toWorker[i].kind = "request" => toWorker[i].stream # r
  BY <1>1 DEF AnswerInv, Once
<1> QED
  BY <1>2, <1>3, <1>4, <1>5, <1>6, InPipes DEF AnswerInv, TypeOK, Once

---------------------------------------------------------------------------
\* Every step keeps both.
LEMMA AnswerStep ==
  ASSUME AnswerInv, [Next]_vars
  PROVE  Once' /\ Own'
<1> USE DEF AnswerInv, TypeOK, Unsent, Goto, requestVars, gateVars, turnVars, pipeVars, workerVars
<1>1. ASSUME NEW r \in Requests, Begin(r) PROVE Once' /\ Own'
  BY <1>1, SameOnce, SameOwn DEF Begin
<1>2. ASSUME NEW r \in Requests, BeginLost(r) PROVE Once' /\ Own'
  BY <1>2, SameOnce, SameOwn DEF BeginLost
<1>3. ASSUME NEW r \in Requests, GateShared(r) PROVE Once' /\ Own'
  BY <1>3, SameOnce, SameOwn DEF GateShared
<1>4. ASSUME NEW r \in Requests, GateExclusive(r) PROVE Once' /\ Own'
  BY <1>4, SameOnce, SameOwn DEF GateExclusive
<1>5. ASSUME NEW r \in Requests, GateClear(r) PROVE Once' /\ Own'
  BY <1>5, SameOnce, SameOwn DEF GateClear
<1>6. ASSUME NEW r \in Requests, OpenFails(r) PROVE Once' /\ Own'
  BY <1>6, SameOnce, SameOwn DEF OpenFails
<1>7. ASSUME NEW r \in Requests, Enter(r) PROVE Once' /\ Own'
  BY <1>7, SameOnce, SameOwn DEF Enter
<1>8. ASSUME NEW r \in Requests, Check(r) PROVE Once' /\ Own'
  BY <1>8, SameOnce, SameOwn DEF Check
<1>9. ASSUME NEW r \in Requests, Quit(r) PROVE Once' /\ Own'
  BY <1>9, SameOnce, SameOwn DEF Quit, GotoNotify
<1>10. ASSUME NEW r \in Requests, PumpEnd(r) PROVE Once' /\ Own'
  BY <1>10, SameOnce, SameOwn DEF PumpEnd
<1>11. ASSUME NEW r \in Requests, Return(r) PROVE Once' /\ Own'
  BY <1>11, SameOnce, SameOwn DEF Return
<1>12. ASSUME NEW r \in Requests, Expire(r) PROVE Once' /\ Own'
  BY <1>12, SameOnce, SameOwn DEF Expire
<1>13. ASSUME NEW r \in Requests, Kill(r) PROVE Once' /\ Own'
  <2>1. UNCHANGED <<pc, toClient, served, slot, stage>>
    BY <1>13 DEF Kill
  <2>2. CASE WorkerEnds
    BY <2>1, <2>2, LostOnce, SameOwn
  <2>3. CASE UNCHANGED <<toWorker, worker, wreader, jobs>>
    BY <2>1, <2>3, SameOnce, SameOwn
  <2> QED
    BY <1>13, <2>2, <2>3 DEF Kill
<1>14. CASE CloseEnds
  BY <1>14, LostOnce, SameOwn DEF CloseEnds
<1>15. CASE ServeEnd
  BY <1>15, LostOnce, SameOwn DEF ServeEnd
<1>16. CASE StubFails
  BY <1>16, LostOnce, SameOwn DEF StubFails
<1>17. CASE Crash
  BY <1>17, LostOnce, SameOwn DEF Crash
<1>18. CASE CloseBegins
  BY <1>18, SameOnce, SameOwn DEF CloseBegins
<1>19. ASSUME NEW r \in Requests, OpenSlot(r) PROVE Once' /\ Own'
  <2>1. Once'
    BY <1>19, SameOnce DEF OpenSlot
  <2>2. Own'
    BY <1>19 DEF OpenSlot, Own
  <2> QED
    BY <2>1, <2>2
<1>20. ASSUME NEW r \in Requests, SendFails(r) PROVE Once' /\ Own'
  <2>1. Once'
    BY <1>20, SameOnce DEF SendFails
  <2>2. Own'
    BY <1>20 DEF SendFails, Own
  <2> QED
    BY <2>1, <2>2
<1>21. ASSUME NEW r \in Requests, SendRequest(r) PROVE Once' /\ Own'
  <2>1. \A i \in DOMAIN toWorker' :
          \/ i \in DOMAIN toWorker /\ toWorker'[i] = toWorker[i]
          \/ i = Len(toWorker) + 1 /\ i \notin DOMAIN toWorker /\ toWorker'[i] = Frame(r, "request")
    BY <1>21, AppendAt DEF SendRequest, Frame, Frames
  <2>2. pc[r] \in Unsent /\ pc' = [pc EXCEPT ![r] = "enter"] /\ UNCHANGED <<jobs, served>>
    BY <1>21 DEF SendRequest
  <2>3. Once'
    <3>1. \A q \in Requests : pc'[q] \in Unsent => pc[q] \in Unsent /\ q # r
      BY <2>2
    <3>2. \A i \in DOMAIN toWorker : toWorker[i].kind = "request" => toWorker[i].stream # r
      BY <2>2 DEF Once
    <3>3. \A j \in DOMAIN jobs : jobs[j] # r
      BY <2>2 DEF Once
    <3>4. served[r] = 0 /\ pc'[r] \notin Unsent
      BY <2>2 DEF Once
    <3>5. Frame(r, "request").stream = r
      BY DEF Frame
    <3>6. Frame(r, "request").kind = "request"
      BY DEF Frame
    <3> DEFINE e == Frame(r, "request")
    <3>7. \A i \in DOMAIN toWorker' :
            \/ i \in DOMAIN toWorker /\ toWorker'[i] = toWorker[i]
            \/ i = Len(toWorker) + 1 /\ toWorker'[i].stream = r
      BY <2>1, <3>5
    <3> HIDE DEF e
    <3>8. \A i, j \in DOMAIN toWorker' :
            /\ toWorker'[i].kind = "request" /\ toWorker'[j].kind = "request"
            /\ toWorker'[i].stream = toWorker'[j].stream
            => i = j
      BY <3>2, <3>7 DEF Once
    <3>9. \A i \in DOMAIN toWorker' : toWorker'[i].kind = "request" =>
            /\ \A j \in DOMAIN jobs : jobs[j] # toWorker'[i].stream
            /\ served[toWorker'[i].stream] = 0 /\ pc'[toWorker'[i].stream] \notin Unsent
      <4> TAKE i \in DOMAIN toWorker'
      <4>1. CASE i \in DOMAIN toWorker /\ toWorker'[i] = toWorker[i]
        BY <3>1, <4>1, InPipes DEF Once
      <4>2. CASE toWorker'[i].stream = r
        BY <3>3, <3>4, <4>2
      <4> QED
        BY <3>7, <4>1, <4>2
    <3>10. \A j \in DOMAIN jobs : jobs[j] \in Requests => pc'[jobs[j]] \notin Unsent
      BY <3>1 DEF Once
    <3> HIDE DEF Unsent, TypeOK
    <3> QED
      BY <2>2, <3>1, <3>8, <3>9, <3>10 DEF Once
  <2>4. Own'
    BY <1>21, SameOwn DEF SendRequest
  <2> QED
    BY <2>3, <2>4
<1>22. ASSUME NEW r \in Requests, PumpReply(r) PROVE Once' /\ Own'
  <2>1. Once'
    BY <1>22, SameOnce DEF PumpReply, GotoNotify
  <2>2. Own'
    BY <1>22, TailAt, InPipes DEF PumpReply, Deliver, GotoNotify, Own
  <2> QED
    BY <2>1, <2>2
<1>23. ASSUME NEW r \in Requests, PumpHello(r) PROVE Once' /\ Own'
  <2>1. Once'
    BY <1>23, SameOnce DEF PumpHello, GotoNotify
  <2>2. Own'
    BY <1>23, TailAt DEF PumpHello, GotoNotify, Own
  <2> QED
    BY <2>1, <2>2
<1>24. ASSUME NEW r \in Requests, FailSlots(r) PROVE Once' /\ Own'
  <2>1. Once'
    BY <1>24, SameOnce DEF FailSlots, GotoNotify
  <2>2. Own'
    BY <1>24 DEF FailSlots, GotoNotify, Own
  <2> QED
    BY <2>1, <2>2
<1>25. ASSUME NEW r \in Requests, SwitchReplied(r) PROVE Once' /\ Own'
  <2>1. Once'
    BY <1>25, SameOnce DEF SwitchReplied
  <2>2. Own'
    BY <1>25 DEF SwitchReplied, MovesOn, Own
  <2> QED
    BY <2>1, <2>2
<1>26. ASSUME NEW r \in Requests, SendSource(r) PROVE Once' /\ Own'
  <2>1. Frame(None, "source") \in Frames /\ Frame(None, "source").kind # "request"
    BY DEF Frame, Frames
  <2>2. ASSUME toWorker' = toWorker PROVE Once'
    BY <1>26, <2>2, SameOnce DEF SendSource
  <2>3. ASSUME toWorker' = Append(toWorker, Frame(None, "source")) PROVE Once'
    BY <1>26, <2>1, <2>3, OtherFrameOnce DEF SendSource
  <2>4. Once'
    BY <1>26, <2>2, <2>3 DEF SendSource
  <2>5. Own'
    BY <1>26 DEF SendSource, Own
  <2> QED
    BY <2>4, <2>5
<1>27. CASE CloseInput
  <2>1. Frame(None, "shutdown") \in Frames /\ Frame(None, "shutdown").kind # "request"
    BY DEF Frame, Frames
  <2>2. CASE toWorker' = toWorker
    BY <1>27, <2>2, SameOnce, SameOwn DEF CloseInput
  <2>3. CASE toWorker' = Append(toWorker, Frame(None, "shutdown"))
    BY <1>27, <2>1, <2>3, OtherFrameOnce, SameOwn DEF CloseInput
  <2> QED
    BY <1>27, <2>2, <2>3 DEF CloseInput
<1>28. CASE Drain
  <2>1. Once'
    BY <1>28, SameOnce DEF Drain
  <2>2. Own'
    BY <1>28, TailAt DEF Drain, Own
  <2> QED
    BY <2>1, <2>2
<1>29. CASE ReadLight
  <2> DEFINE r == Head(toWorker).stream
  <2>1. /\ r \in Requests /\ toWorker[1].kind = "request" /\ r = toWorker[1].stream
        /\ 1 \in DOMAIN toWorker /\ toWorker' = Tail(toWorker) /\ toWorker # <<>>
    BY <1>29, TailAt, InPipes DEF ReadLight, Reads
  <2>2. Answer(r, "ok") /\ UNCHANGED <<pc, jobs, slot, stage>>
    BY <1>29 DEF ReadLight
  <2>3. Once'
    <3>1. \A i \in DOMAIN toWorker' :
            /\ i \in Nat /\ i # 0 /\ i + 1 \in DOMAIN toWorker /\ toWorker'[i] = toWorker[i + 1]
            /\ toWorker'[i].kind = "request" => toWorker'[i].stream # r
      BY <2>1, TailAt DEF Once
    <3>2. \A j \in DOMAIN jobs : jobs[j] # r
      BY <2>1 DEF Once
    <3>3. served' = [served EXCEPT ![r] = 1]
      <4>1. served[r] = 0
        BY <2>1 DEF Once
      <4> HIDE DEF r
      <4> QED
        BY <2>1, <2>2, <4>1 DEF Answer
    <3>4. pc[r] \notin Unsent
      BY <2>1 DEF Once
    <3> HIDE DEF r
    <3> QED
      <4>1. \A i, j \in DOMAIN toWorker' :
              /\ toWorker'[i].kind = "request" /\ toWorker'[j].kind = "request"
              /\ toWorker'[i].stream = toWorker'[j].stream
              => i = j
        BY <3>1 DEF Once
      <4>2. \A i \in DOMAIN toWorker' : toWorker'[i].kind = "request" =>
              /\ toWorker'[i].stream \in Requests
              /\ \A j \in DOMAIN jobs : jobs[j] # toWorker'[i].stream
              /\ served'[toWorker'[i].stream] = 0 /\ pc'[toWorker'[i].stream] \notin Unsent
        BY <2>2, <3>1, <3>3, InPipes DEF Once
      <4> HIDE DEF TypeOK
      <4> QED
        BY <2>1, <2>2, <3>2, <3>3, <3>4, <4>1, <4>2 DEF Once, TypeOK
  <2>4. served[r] = 0
    BY <2>1 DEF Once
  <2>5. Own'
    <3> HIDE DEF r
    <3> QED
      BY <2>1, <2>2, <2>4, AnswerOwn
  <2> QED
    BY <2>3, <2>5
<1>30. CASE ReadJob
  <2> DEFINE r == Head(toWorker).stream
  <2>1. /\ r \in Requests /\ toWorker[1].kind = "request" /\ r = toWorker[1].stream
        /\ 1 \in DOMAIN toWorker /\ toWorker' = Tail(toWorker) /\ toWorker # <<>>
    BY <1>30, TailAt, InPipes DEF ReadJob, Reads
  <2>2. jobs' = Append(jobs, r) /\ UNCHANGED <<pc, served, toClient, slot, stage>>
    BY <1>30 DEF ReadJob
  <2>3. Once'
    <3>1. \A i \in DOMAIN toWorker' :
            /\ i \in Nat /\ i # 0 /\ i + 1 \in DOMAIN toWorker /\ toWorker'[i] = toWorker[i + 1]
            /\ toWorker'[i].kind = "request" => toWorker'[i].stream # r
      BY <2>1, TailAt DEF Once
    <3>2. \A j \in DOMAIN jobs : jobs[j] # r
      BY <2>1 DEF Once
    <3>3. \A j \in DOMAIN jobs' :
            \/ j \in DOMAIN jobs /\ jobs'[j] = jobs[j]
            \/ j = Len(jobs) + 1 /\ j \notin DOMAIN jobs /\ jobs'[j] = r
      BY <2>1, <2>2, AppendAt
    <3>4. served[r] = 0 /\ pc[r] \notin Unsent
      BY <2>1 DEF Once
    <3> HIDE DEF r
    <3> QED
      <4>1. \A i, j \in DOMAIN toWorker' :
              /\ toWorker'[i].kind = "request" /\ toWorker'[j].kind = "request"
              /\ toWorker'[i].stream = toWorker'[j].stream
              => i = j
        BY <3>1 DEF Once
      <4>2. \A i \in DOMAIN toWorker' : toWorker'[i].kind = "request" =>
              /\ \A j \in DOMAIN jobs' : jobs'[j] # toWorker'[i].stream
              /\ served[toWorker'[i].stream] = 0 /\ pc[toWorker'[i].stream] \notin Unsent
        BY <3>1, <3>3 DEF Once
      <4>3. \A i, j \in DOMAIN jobs' : jobs'[i] \in Requests /\ jobs'[i] = jobs'[j] => i = j
        <5>1. \A i, j \in DOMAIN jobs : jobs[i] \in Requests /\ jobs[i] = jobs[j] => i = j
          BY DEF Once
        <5> HIDE DEF TypeOK, AnswerInv
        <5> QED
          BY <3>2, <3>3, <5>1
      <4>4. \A j \in DOMAIN jobs' : jobs'[j] \in Requests =>
              served[jobs'[j]] = 0 /\ pc[jobs'[j]] \notin Unsent
        <5>1. \A j \in DOMAIN jobs : jobs[j] \in Requests =>
                served[jobs[j]] = 0 /\ pc[jobs[j]] \notin Unsent
          BY DEF Once
        <5> HIDE DEF TypeOK, AnswerInv, Unsent
        <5> QED
          BY <3>3, <3>4, <5>1
      <4> HIDE DEF TypeOK
      <4> QED
        BY <2>2, <4>1, <4>2, <4>3, <4>4 DEF Once
  <2>4. Own'
    BY <2>2, SameOwn
  <2> QED
    BY <2>3, <2>4
<1>31. CASE ReadEnd
  <2>1. /\ toWorker' = Tail(toWorker) /\ toWorker # <<>>
        /\ jobs' = Append(jobs, None) /\ UNCHANGED <<pc, served, toClient, slot, stage>>
    BY <1>31 DEF ReadEnd, Reads
  <2>2. Once'
    <3>1. \A i \in DOMAIN toWorker' :
            i \in Nat /\ i # 0 /\ i + 1 \in DOMAIN toWorker /\ toWorker'[i] = toWorker[i + 1]
      BY <2>1, TailAt
    <3>2. \A j \in DOMAIN jobs' :
            \/ j \in DOMAIN jobs /\ jobs'[j] = jobs[j]
            \/ j \notin DOMAIN jobs /\ jobs'[j] = None
      BY <2>1, AppendAt
    <3> QED
      BY <2>1, <3>1, <3>2, InPipes, RequestKinds DEF Once
  <2>3. Own'
    BY <2>1, SameOwn
  <2> QED
    BY <2>2, <2>3
<1>32. CASE ServeJob
  <2>1. PICK r \in Requests : NextJob(r) /\ Answer(r, "ok")
    BY <1>32 DEF ServeJob
  <2>2. jobs' = Tail(jobs) /\ UNCHANGED <<pc, toWorker, slot, stage>>
    BY <1>32 DEF ServeJob
  <2> QED
    BY <2>1, <2>2, JobOnce, AnswerOwn
<1>33. CASE ReexecRefused
  <2>1. PICK r \in Requests : NextJob(r) /\ Answer(r, "refused")
    BY <1>33 DEF ReexecRefused
  <2>2. jobs' = Tail(jobs) /\ UNCHANGED <<pc, toWorker, slot, stage>>
    BY <1>33 DEF ReexecRefused
  <2> QED
    BY <2>1, <2>2, JobOnce, AnswerOwn
<1>34. CASE ReexecReplies
  <2>1. PICK r \in Requests : NextJob(r) /\ Answer(r, "ok")
    BY <1>34 DEF ReexecReplies
  <2>2. jobs' = Tail(jobs) /\ UNCHANGED <<pc, toWorker, slot, stage>>
    BY <1>34 DEF ReexecReplies
  <2> QED
    BY <2>1, <2>2, JobOnce, AnswerOwn
<1>35. CASE Exec
  <2>1. DOMAIN jobs' = {} /\ UNCHANGED <<pc, toWorker, toClient, served, slot, stage>>
    BY <1>35, EmptySeq, LenProperties DEF Exec
  <2>2. Once'
    BY <2>1, InPipes DEF Once
  <2> QED
    BY <2>1, <2>2, SameOwn
<1>36. CASE StubStarts
  <2>1. /\ toWorker' = Tail(toWorker) /\ toWorker # <<>>
        /\ toClient' = Append(toClient, Frame(None, "hello"))
        /\ UNCHANGED <<pc, jobs, served, slot, stage>>
    BY <1>36 DEF StubStarts
  <2>2. Once'
    <3>1. \A i \in DOMAIN toWorker' :
            i \in Nat /\ i # 0 /\ i + 1 \in DOMAIN toWorker /\ toWorker'[i] = toWorker[i + 1]
      BY <2>1, TailAt
    <3> QED
      BY <2>1, <3>1, InPipes DEF Once
  <2>3. Own'
    <3>1. \A i \in DOMAIN toClient' :
            \/ i \in DOMAIN toClient /\ toClient'[i] = toClient[i]
            \/ toClient'[i].kind = "hello"
      BY <2>1, AppendAt DEF Frame, Frames
    <3> QED
      BY <2>1, <3>1 DEF Own
  <2> QED
    BY <2>2, <2>3
<1>37. CASE UNCHANGED vars
  BY <1>37, SameOnce, SameOwn DEF vars
<1> QED
  BY <1>1, <1>2, <1>3, <1>4, <1>5, <1>6, <1>7, <1>8, <1>9, <1>10, <1>11, <1>12, <1>13, <1>14, <1>15, <1>16, <1>17, <1>18, <1>19, <1>20, <1>21, <1>22, <1>23, <1>24, <1>25, <1>26, <1>27, <1>28, <1>29, <1>30, <1>31, <1>32, <1>33, <1>34, <1>35, <1>36, <1>37
  DEF Next, ThreadStep, WorkerStep

---------------------------------------------------------------------------
\* Once and Own hold in every state of every connection.
THEOREM AnswerInvariance == Spec => []AnswerInv
<1>1. Init => AnswerInv
  <2> SUFFICES ASSUME Init PROVE AnswerInv
    OBVIOUS
  <2>1. TypeOK
    BY TurnInit DEF TurnInv
  <2>2. DOMAIN toWorker = {} /\ DOMAIN toClient = {} /\ DOMAIN jobs = {}
    BY EmptySeq, LenProperties DEF Init
  <2>3. Once /\ Own
    BY <2>2 DEF Init, Once, Own
  <2> QED
    BY <2>1, <2>3 DEF AnswerInv
<1>2. AnswerInv /\ [Next]_vars => AnswerInv'
  BY AnswerStep, TypeStep DEF AnswerInv
<1> QED
  BY <1>1, <1>2, PTL DEF Spec

\* The call RequestReply sees for each request.
callView == [r \in Requests |->
  IF pc[r] = "idle" THEN "unmade"
  ELSE IF pc[r] # "done" THEN "open"
  ELSE IF result[r] \in {"value", "refused"} THEN "value" ELSE "failed"]

\* Between its begin and its end a request is one open call.
LEMMA SameCall ==
  ASSUME TypeOK, UNCHANGED result,
         \A q \in Requests :
           (pc'[q] = "idle" <=> pc[q] = "idle") /\ (pc'[q] = "done" <=> pc[q] = "done")
  PROVE  UNCHANGED callView
BY DEF callView

\* A request that ends is the only one that does, and ends as its result says.
LEMMA EndedCall ==
  ASSUME TypeOK, NEW r \in Requests, NEW how, pc[r] # "done", Goto(r, "done"),
         result' = [result EXCEPT ![r] = how], UNCHANGED served
  PROVE  /\ how \notin {"value", "refused"} => Calls!Fail(r)
         /\ how \in {"value", "refused"} /\ pc[r] # "idle" /\ served[r] = 1 => Calls!Answer(r)
<1>1. callView' = [callView EXCEPT ![r] =
                     IF how \in {"value", "refused"} THEN "value" ELSE "failed"]
  BY DEF callView, TypeOK, Goto
<1>2. callView[r] = IF pc[r] = "idle" THEN "unmade" ELSE "open"
  BY DEF callView
<1>3. how \notin {"value", "refused"} => Calls!Fail(r)
  BY <1>1, <1>2 DEF callView, Calls!Fail
<1>4. how \in {"value", "refused"} /\ pc[r] # "idle" /\ served[r] = 1 => Calls!Answer(r)
  BY <1>1, <1>2 DEF callView, Calls!Answer
<1> QED
  BY <1>3, <1>4

\* A step of the worker that executes a request executes it for the first time.
LEMMA ExecutedCall ==
  ASSUME TypeOK, NEW r \in Requests, NEW kind, Answer(r, kind), served[r] = 0,
         pc[r] \notin Unsent, UNCHANGED <<pc, result>>
  PROVE  Calls!Execute(r)
<1>1. served' = [served EXCEPT ![r] = 1]
  BY DEF Answer, TypeOK
<1>2. callView[r] # "unmade" /\ callView' = callView
  BY DEF callView, Unsent
<1> QED
  BY <1>1, <1>2 DEF callView, Calls!Execute

\* Every step is a step of RequestReply or leaves what it sees alone.
LEMMA CallStep ==
  ASSUME AnswerInv, [Next]_vars
  PROVE  [Calls!Next]_<<callView, served>>
<1> USE DEF requestVars, gateVars, turnVars, pipeVars, workerVars
<1>0. TypeOK
  BY DEF AnswerInv
<1>1. SUFFICES \/ \E r \in Requests :
                    Calls!Make(r) \/ Calls!Execute(r) \/ Calls!Answer(r) \/ Calls!Fail(r)
               \/ UNCHANGED <<callView, served>>
  BY DEF Calls!Next
<1>2. ASSUME NEW r \in Requests, Begin(r) PROVE Calls!Make(r)
  <2>1. callView[r] = "unmade" /\ callView' = [callView EXCEPT ![r] = "open"]
    BY <1>0, <1>2 DEF Begin, Goto, callView, TypeOK
  <2> QED
    BY <1>2, <2>1 DEF Begin, callView, Calls!Make
<1>3. ASSUME NEW r \in Requests, BeginLost(r) PROVE Calls!Fail(r)
  <2>1. PICK how \in {"lost"} : result' = [result EXCEPT ![r] = how]
    BY <1>3 DEF BeginLost
  <2> QED
    BY <1>0, <1>3, <2>1, EndedCall DEF BeginLost
<1>4. ASSUME NEW r \in Requests, OpenFails(r) PROVE Calls!Fail(r)
  <2>1. PICK how \in {"error"} : Finish(r, how)
    BY <1>4 DEF OpenFails
  <2> QED
    BY <1>0, <1>4, <2>1, EndedCall DEF OpenFails, Finish
<1>5. ASSUME NEW r \in Requests, SendFails(r) PROVE Calls!Fail(r)
  <2>1. PICK how \in {"timeout", "lost"} : Finish(r, how)
    BY <1>5 DEF SendFails
  <2> QED
    BY <1>0, <1>5, <2>1, EndedCall DEF SendFails, Finish
<1>6. ASSUME NEW r \in Requests, Return(r) PROVE Calls!Answer(r) \/ Calls!Fail(r)
  <2>1. Outcome(r) \in {"value", "refused"} => served[r] = 1
    BY DEF AnswerInv, Own, Outcome
  <2> QED
    BY <1>0, <1>6, <2>1, EndedCall DEF Return, Finish
<1>7. ASSUME NEW r \in Requests, GateShared(r) PROVE UNCHANGED <<callView, served>>
  BY <1>0, <1>7, SameCall DEF GateShared, Goto, TypeOK
<1>8. ASSUME NEW r \in Requests, GateExclusive(r) PROVE UNCHANGED <<callView, served>>
  BY <1>0, <1>8, SameCall DEF GateExclusive, Goto, TypeOK
<1>9. ASSUME NEW r \in Requests, GateClear(r) PROVE UNCHANGED <<callView, served>>
  BY <1>0, <1>9, SameCall DEF GateClear, Goto, TypeOK
<1>10. ASSUME NEW r \in Requests, OpenSlot(r) PROVE UNCHANGED <<callView, served>>
  BY <1>0, <1>10, SameCall DEF OpenSlot, Goto, TypeOK
<1>11. ASSUME NEW r \in Requests, SendRequest(r) PROVE UNCHANGED <<callView, served>>
  BY <1>0, <1>11, SameCall DEF SendRequest, Goto, TypeOK
<1>12. ASSUME NEW r \in Requests, Enter(r) PROVE UNCHANGED <<callView, served>>
  BY <1>0, <1>12, SameCall DEF Enter, Goto, TypeOK
<1>13. ASSUME NEW r \in Requests, PumpReply(r) PROVE UNCHANGED <<callView, served>>
  BY <1>0, <1>13, SameCall DEF PumpReply, Goto, TypeOK, GotoNotify
<1>14. ASSUME NEW r \in Requests, PumpHello(r) PROVE UNCHANGED <<callView, served>>
  BY <1>0, <1>14, SameCall DEF PumpHello, Goto, TypeOK, GotoNotify
<1>15. ASSUME NEW r \in Requests, PumpEnd(r) PROVE UNCHANGED <<callView, served>>
  BY <1>0, <1>15, SameCall DEF PumpEnd, Goto, TypeOK
<1>16. ASSUME NEW r \in Requests, FailSlots(r) PROVE UNCHANGED <<callView, served>>
  BY <1>0, <1>16, SameCall DEF FailSlots, Goto, TypeOK, GotoNotify
<1>17. ASSUME NEW r \in Requests, Check(r) PROVE UNCHANGED <<callView, served>>
  BY <1>0, <1>17, SameCall DEF Check, Goto, TypeOK
<1>18. ASSUME NEW r \in Requests, Quit(r) PROVE UNCHANGED <<callView, served>>
  BY <1>0, <1>18, SameCall DEF Quit, Goto, TypeOK, GotoNotify
<1>19. ASSUME NEW r \in Requests, SwitchReplied(r) PROVE UNCHANGED <<callView, served>>
  BY <1>0, <1>19, SameCall DEF SwitchReplied, Goto, TypeOK
<1>20. ASSUME NEW r \in Requests, SendSource(r) PROVE UNCHANGED <<callView, served>>
  BY <1>0, <1>20, SameCall DEF SendSource, Goto, TypeOK
<1>21. ASSUME NEW r \in Requests, Expire(r) PROVE UNCHANGED <<callView, served>>
  BY <1>0, <1>21, SameCall DEF Expire, Goto, TypeOK
<1>22. ASSUME NEW r \in Requests, Kill(r) PROVE UNCHANGED <<callView, served>>
  BY <1>0, <1>22, SameCall DEF Kill
<1>23. CASE CloseBegins
  BY <1>0, <1>23, SameCall DEF CloseBegins
<1>24. CASE CloseInput
  BY <1>0, <1>24, SameCall DEF CloseInput
<1>25. CASE CloseEnds
  BY <1>0, <1>25, SameCall DEF CloseEnds
<1>26. CASE Drain
  BY <1>0, <1>26, SameCall DEF Drain
<1>27. CASE ReadJob
  BY <1>0, <1>27, SameCall DEF ReadJob
<1>28. CASE ReadEnd
  BY <1>0, <1>28, SameCall DEF ReadEnd
<1>29. CASE ServeEnd
  BY <1>0, <1>29, SameCall DEF ServeEnd
<1>30. CASE Exec
  BY <1>0, <1>30, SameCall DEF Exec
<1>31. CASE StubStarts
  BY <1>0, <1>31, SameCall DEF StubStarts
<1>32. CASE StubFails
  BY <1>0, <1>32, SameCall DEF StubFails
<1>33. CASE Crash
  BY <1>0, <1>33, SameCall DEF Crash
<1>34. CASE ReadLight
  <2>1. /\ Head(toWorker).kind = "request" /\ Head(toWorker) = toWorker[1] /\ 1 \in DOMAIN toWorker
        /\ Head(toWorker).stream \in Requests
    BY <1>0, <1>34, TailAt, InPipes DEF ReadLight, Reads, TypeOK
  <2>2. served[Head(toWorker).stream] = 0 /\ pc[Head(toWorker).stream] \notin Unsent
    BY <2>1 DEF AnswerInv, Once
  <2> QED
    BY <1>0, <1>34, <2>1, <2>2, ExecutedCall DEF ReadLight
<1>35. CASE ServeJob
  <2>1. PICK r \in Requests : NextJob(r) /\ Answer(r, "ok")
    BY <1>35 DEF ServeJob
  <2>2. r = jobs[1] /\ 1 \in DOMAIN jobs
    BY <1>0, <2>1, TailAt DEF NextJob, TypeOK
  <2>3. served[r] = 0 /\ pc[r] \notin Unsent
    BY <2>2 DEF AnswerInv, Once
  <2> QED
    BY <1>0, <1>35, <2>1, <2>3, ExecutedCall DEF ServeJob
<1>36. CASE ReexecRefused
  <2>1. PICK r \in Requests : NextJob(r) /\ Answer(r, "refused")
    BY <1>36 DEF ReexecRefused
  <2>2. r = jobs[1] /\ 1 \in DOMAIN jobs
    BY <1>0, <2>1, TailAt DEF NextJob, TypeOK
  <2>3. served[r] = 0 /\ pc[r] \notin Unsent
    BY <2>2 DEF AnswerInv, Once
  <2> QED
    BY <1>0, <1>36, <2>1, <2>3, ExecutedCall DEF ReexecRefused
<1>37. CASE ReexecReplies
  <2>1. PICK r \in Requests : NextJob(r) /\ Answer(r, "ok")
    BY <1>37 DEF ReexecReplies
  <2>2. r = jobs[1] /\ 1 \in DOMAIN jobs
    BY <1>0, <2>1, TailAt DEF NextJob, TypeOK
  <2>3. served[r] = 0 /\ pc[r] \notin Unsent
    BY <2>2 DEF AnswerInv, Once
  <2> QED
    BY <1>0, <1>37, <2>1, <2>3, ExecutedCall DEF ReexecReplies
<1>38. CASE UNCHANGED vars
  BY <1>38 DEF vars, callView
<1> QED
  BY <1>1, <1>2, <1>3, <1>4, <1>5, <1>6, <1>7, <1>8, <1>9, <1>10, <1>11, <1>12, <1>13, <1>14, <1>15, <1>16, <1>17, <1>18, <1>19, <1>20, <1>21, <1>22, <1>23, <1>24, <1>25, <1>26, <1>27, <1>28, <1>29, <1>30, <1>31, <1>32, <1>33, <1>34, <1>35, <1>36, <1>37, <1>38
  DEF Next, ThreadStep, WorkerStep

(***************************************************************************)
(* Connection implements RequestReply: whatever threads, timers, a switch  *)
(* of interpreter, close and the death of the worker do, the worker        *)
(* executes a request at most once, and a call returns a value only if the *)
(* worker executed that very request.                                      *)
(***************************************************************************)
THEOREM AnswersCorrect == Spec => AnswersAreOwn
<1>1. Init => Calls!Init
  <2> SUFFICES ASSUME Init PROVE Calls!Init
    OBVIOUS
  <2>1. callView = [r \in Requests |-> "unmade"] /\ served = [r \in Requests |-> 0]
    BY DEF Init, callView
  <2> QED
    BY <2>1 DEF callView, Calls!Init
<1>2. AnswerInv /\ [Next]_vars => [Calls!Next]_<<callView, served>>
  BY CallStep
<1> QED
  BY <1>1, <1>2, AnswerInvariance, PTL DEF Spec, AnswersAreOwn, Calls!Spec, callView

-----------------------------------------------------------------------------
\* No reply is lost, and a new interpreter finds the source of its worker first.
Waits == {"enter", "asleep", "read", "clearing", "check"}

\* Past the gate, until the request is over.
Inside == Waits \cup {"open", "send", "quit", "result", "source"}

\* A request that was written and not executed.
OnWay(r) ==
  \/ \E i \in DOMAIN toWorker : toWorker[i].kind = "request" /\ toWorker[i].stream = r
  \/ \E j \in DOMAIN jobs : jobs[j] = r

\* A dead worker holds nothing, and a connection fails only when one is dead and read out.
Ended ==
  /\ wreader => worker = "serve"
  /\ worker = "dead" => toWorker = <<>> /\ jobs = <<>>
  /\ failure => worker = "dead" /\ toClient = <<>>
  /\ \A r \in Requests : pc[r] = "clearing" \/ slot[r] = "error" => failure

\* A request on its way has its slot open, and so its thread still waits; a slot that holds an
\* answer is what its thread returns.
OpenSlots ==
  /\ \A r \in Requests : slot[r] = "open" => pc[r] \in Waits \cup {"send"}
  /\ \A r \in Requests : slot[r] = "none" => served[r] = 0
  /\ \A r \in Requests : OnWay(r) => slot[r] = "open"
  /\ \A r \in Requests : slot[r] \in {"ok", "refused"} /\ pc[r] = "done" /\ ~Switches(r) =>
       result[r] \in {"value", "refused"}

\* A move holds the gate alone, and none sends beside it.
Gates ==
  /\ \A q \in Requests : ~Switches(q) /\ pc[q] \in {"open", "send"} => q \in sending
  /\ \A r \in Requests : Switches(r) /\ pc[r] \in Inside \cup {"clear"} => exclusive = r
  /\ \A r, q \in Requests : Switches(r) /\ pc[r] \in Inside /\ ~Switches(q) => pc[q] \notin {"open", "send"}
  /\ \A r \in Requests : stage[r] = "hello" \/ pc[r] \in {"clear", "source"} => Switches(r)

\* Nothing is asked behind a move.
MoveLast ==
  /\ \A i \in DOMAIN toWorker : toWorker[i].kind \in {"request", "source", "shutdown"}
  /\ \A i \in DOMAIN toClient : toClient[i].kind \in {"ok", "refused", "hello"}
  /\ \A i, j \in DOMAIN toWorker :
       toWorker[i].kind = "request" /\ Switches(toWorker[i].stream) /\ toWorker[j].kind = "request" => j <= i
  /\ \A i \in DOMAIN jobs : jobs[i] \in Requests /\ Switches(jobs[i]) =>
       i = Len(jobs) /\ ~wreader /\ \A j \in DOMAIN toWorker : toWorker[j].kind # "request"

SourceSent == \E i \in DOMAIN toWorker : toWorker[i].kind = "source"
HelloSent == \E i \in DOMAIN toClient : toClient[i].kind = "hello"

\* A thread that waits for the hello of the new interpreter.
Awaits(r) == Switches(r) /\ stage[r] = "hello" /\ pc[r] \in Waits /\ ~hello

\* The source of a worker and its hello are one token, and somebody waits for it.
OneToken ==
  /\ SourceSent \/ HelloSent => \E r \in Requests : Awaits(r)
  /\ \A i, j \in DOMAIN toWorker : toWorker[i].kind = "source" /\ toWorker[j].kind = "source" => i = j
  /\ \A i, j \in DOMAIN toClient : toClient[i].kind = "hello" /\ toClient[j].kind = "hello" => i = j
  /\ ~(SourceSent /\ HelloSent)
  /\ \A r \in Requests : pc[r] = "source" => ~hello

\* The request whose move the worker has begun.
Moving(r) ==
  /\ Switches(r) /\ served[r] = 1
  /\ \/ /\ stage[r] = "reply" /\ pc[r] \in Waits \cup {"quit", "result"} /\ slot[r] \in {"open", "ok"}
        /\ \A i \in DOMAIN toClient : toClient[i].stream = r => toClient[i].kind = "ok"
     \/ pc[r] = "source" /\ ~hello
     \/ Awaits(r)

MoveHeld == worker \in {"reexec", "stub"} => ~HelloSent /\ \E r \in Requests : Moving(r)

KeepInv == Ended /\ OpenSlots /\ Gates /\ MoveLast /\ OneToken /\ MoveHeld /\ CleanSwitch /\ ReplyKept

Known == TurnInv /\ AnswerInv /\ KeepInv

---------------------------------------------------------------------------
\* What the parts say together: a live process is behind every frame, whoever has a request
\* on its way waits for it, moves exclude each other, and who stops waiting has an answer.
LEMMA Together ==
  ASSUME Known
  PROVE  /\ SourceSent \/ HelloSent \/ worker \in {"reexec", "stub"} => ~failure
         /\ \A r \in Requests : OnWay(r) => pc[r] \in Waits /\ stage[r] = "reply" /\ ~failure
         /\ \A r, q \in Requests : Switches(r) /\ Switches(q)
               /\ pc[r] \in Inside \cup {"clear"} /\ pc[q] \in Inside \cup {"clear"} => r = q
         /\ \A r \in Requests : pc[r] \in {"quit", "result"} => slot[r] \in {"ok", "refused", "error"}
         /\ \A r \in Requests : pc[r] \in Unsent => slot[r] \notin {"ok", "refused"} /\ stage[r] = "reply"
<1>1. SourceSent \/ HelloSent \/ worker \in {"reexec", "stub"} => ~failure
  <2>1. SourceSent => toWorker # <<>>
    BY EmptySeq DEF SourceSent
  <2>2. HelloSent => toClient # <<>>
    BY EmptySeq DEF HelloSent
  <2> QED
    BY <2>1, <2>2 DEF Known, KeepInv, Ended
<1>2. ASSUME NEW r \in Requests, OnWay(r) PROVE pc[r] \in Waits /\ stage[r] = "reply" /\ ~failure
  <2>1. slot[r] = "open" /\ pc[r] \in Waits \cup {"send"}
    BY <1>2 DEF Known, KeepInv, OpenSlots
  <2>2. pc[r] \notin Unsent
    BY <1>2 DEF Known, AnswerInv, Once, OnWay
  <2>3. stage[r] = "reply"
    BY <2>1 DEF Known, AnswerInv, Own, TypeOK
  <2>4. toWorker # <<>> \/ jobs # <<>>
    BY <1>2, EmptySeq DEF OnWay
  <2>5. ~failure
    BY <2>4 DEF Known, KeepInv, Ended
  <2> QED
    BY <2>1, <2>2, <2>3, <2>5 DEF Unsent
<1>3. ASSUME NEW r \in Requests, NEW q \in Requests, Switches(r), Switches(q),
             pc[r] \in Inside \cup {"clear"}, pc[q] \in Inside \cup {"clear"}
      PROVE  r = q
  BY <1>3 DEF Known, KeepInv, Gates
<1>4. ASSUME NEW r \in Requests, pc[r] \in {"quit", "result"} PROVE slot[r] \in {"ok", "refused", "error"}
  BY <1>4 DEF Known, TurnInv, TypeOK, SlotHeld, KeepInv, OpenSlots, Waits
<1>5. ASSUME NEW r \in Requests, pc[r] \in Unsent PROVE slot[r] \notin {"ok", "refused"} /\ stage[r] = "reply"
  BY <1>5 DEF Known, AnswerInv, Once, Own, TypeOK
<1> QED
  BY <1>1, <1>2, <1>3, <1>4, <1>5

---------------------------------------------------------------------------
\* Steps that touch neither a pipe nor the worker.
localVars == <<pipeVars, workerVars>>

LEMMA SamePipes ==
  ASSUME Known, UNCHANGED localVars
  PROVE  MoveLast' /\ CleanSwitch' /\ \A r \in Requests : OnWay(r)' <=> OnWay(r)
BY DEF Known, KeepInv, MoveLast, CleanSwitch, OnWay, localVars, pipeVars, workerVars

LEMMA SameToken ==
  ASSUME Known, UNCHANGED pipeVars, \A q \in Requests : ~failure /\ Awaits(q) => Awaits(q)',
         \A q \in Requests : pc'[q] = "source" => ~hello'
  PROVE  OneToken'
<1>1. SourceSent' = SourceSent /\ HelloSent' = HelloSent
  BY DEF SourceSent, HelloSent, pipeVars
<1>2. SourceSent \/ HelloSent => \E r \in Requests : Awaits(r)'
  BY Together DEF Known, KeepInv, OneToken
<1> QED
  BY <1>1, <1>2 DEF Known, KeepInv, OneToken, pipeVars

LEMMA SameMove ==
  ASSUME Known, UNCHANGED <<worker, toClient>>,
         \A q \in Requests : ~failure /\ ~HelloSent /\ worker \in {"reexec", "stub"} /\ Moving(q) => Moving(q)'
  PROVE  MoveHeld'
BY Together DEF Known, KeepInv, MoveHeld, HelloSent

\* A thread that waits on, or stops waiting, is at no gate.
LEMMA WaitGates ==
  ASSUME Gates, UNCHANGED <<sending, exclusive, stage>>,
         \A q \in Requests : pc'[q] = pc[q] \/ (pc[q] \in Waits /\ pc'[q] \in Waits \cup {"quit", "result"})
  PROVE  Gates'
<1> USE DEF Inside, Waits
<1>1. \A q \in Requests : pc'[q] \in {"open", "send", "clear", "source"} => pc[q] = pc'[q]
  OBVIOUS
<1>2. \A q \in Requests : pc'[q] \in Inside => pc[q] \in Inside
  OBVIOUS
<1> QED
  BY <1>1, <1>2 DEF Gates

\* A thread that neither writes nor reads a frame keeps every part.
LEMMA LocalStep ==
  ASSUME Known, TypeOK', NEW r \in Requests,
         \/ Begin(r) \/ BeginLost(r) \/ GateShared(r) \/ GateExclusive(r) \/ GateClear(r) \/ OpenSlot(r) \/ OpenFails(r) \/ SendFails(r)
         \/ Enter(r) \/ PumpEnd(r) \/ FailSlots(r) \/ Check(r) \/ Quit(r) \/ Return(r) \/ SwitchReplied(r) \/ Expire(r)
  PROVE  KeepInv'
<1> USE DEF Known, TypeOK, Goto, GotoNotify, Inside, Waits, Unsent
<1>1. CASE Begin(r)
  <2>1. UNCHANGED localVars /\ UNCHANGED closer
    BY <1>1 DEF Begin, localVars, pipeVars, workerVars, requestVars, gateVars, turnVars
  <2>2. UNCHANGED <<pipeVars, toWorker, toClient, worker, wreader, jobs, served>>
    BY <2>1 DEF localVars, pipeVars, workerVars
  <2>3. Ended'
    BY <1>1, <2>2, Together DEF Begin, KeepInv, Ended, TurnInv, requestVars, turnVars
  <2>4. OpenSlots'
    <3>1. \A q \in Requests : slot'[q] = "open" => pc'[q] \in Waits \cup {"send"}
      BY <1>1, Together DEF Begin, KeepInv, OpenSlots, requestVars
    <3>2. \A q \in Requests : slot'[q] = "none" => served'[q] = 0
      BY <1>1, <2>2, Together DEF Begin, KeepInv, OpenSlots, AnswerInv, Once, requestVars
    <3>3. \A q \in Requests : OnWay(q) => slot'[q] = "open"
      BY <1>1, Together DEF Begin, KeepInv, OpenSlots, Ended, requestVars
    <3>4. \A q \in Requests : slot'[q] \in {"ok", "refused"} /\ pc'[q] = "done" /\ ~Switches(q) =>
            result'[q] \in {"value", "refused"}
      BY <1>1, Together DEF Begin, KeepInv, OpenSlots, Gates, requestVars
    <3> QED
      BY <2>1, <3>1, <3>2, <3>3, <3>4, SamePipes DEF OpenSlots
  <2>5. Gates'
    BY <1>1, <2>2, Together, RequestKinds DEF Begin, KeepInv, Gates, requestVars, gateVars
  <2>6. ASSUME NEW q \in Requests, ~failure, Awaits(q) PROVE Awaits(q)'
    BY <1>1, <2>2, <2>6, Together DEF Begin, Awaits, KeepInv, requestVars, turnVars
  <2>7. ASSUME NEW q \in Requests, ~failure, worker \in {"reexec", "stub"}, Moving(q) PROVE Moving(q)'
    BY <1>1, <2>2, <2>6, <2>7, Together DEF Begin, Moving, KeepInv, Ended, requestVars, turnVars
  <2>9. \A q \in Requests : pc'[q] = "source" => ~hello'
    BY <1>1 DEF Begin, KeepInv, OneToken, turnVars
  <2>8. ReplyKept'
    BY <1>1, <2>1, <2>2, Together, EmptySeq DEF Begin, ReplyKept, KeepInv, OpenSlots, Ended, Gates, AnswerInv, Once, Own, requestVars
  <2> QED
    BY <2>1, <2>2, <2>3, <2>4, <2>5, <2>6, <2>7, <2>8, <2>9, SamePipes, SameToken, SameMove DEF KeepInv
<1>2. CASE BeginLost(r)
  <2>1. UNCHANGED localVars /\ UNCHANGED closer
    BY <1>2 DEF BeginLost, localVars, pipeVars, workerVars, requestVars, gateVars, turnVars
  <2>2. UNCHANGED <<pipeVars, toWorker, toClient, worker, wreader, jobs, served>>
    BY <2>1 DEF localVars, pipeVars, workerVars
  <2>3. Ended'
    BY <1>2, <2>2, Together DEF BeginLost, KeepInv, Ended, TurnInv, requestVars, turnVars
  <2>4. OpenSlots'
    <3>1. \A q \in Requests : slot'[q] = "open" => pc'[q] \in Waits \cup {"send"}
      BY <1>2, Together DEF BeginLost, KeepInv, OpenSlots, requestVars
    <3>2. \A q \in Requests : slot'[q] = "none" => served'[q] = 0
      BY <1>2, <2>2, Together DEF BeginLost, KeepInv, OpenSlots, AnswerInv, Once, requestVars
    <3>3. \A q \in Requests : OnWay(q) => slot'[q] = "open"
      BY <1>2, Together DEF BeginLost, KeepInv, OpenSlots, Ended, requestVars
    <3>4. \A q \in Requests : slot'[q] \in {"ok", "refused"} /\ pc'[q] = "done" /\ ~Switches(q) =>
            result'[q] \in {"value", "refused"}
      BY <1>2, Together DEF BeginLost, KeepInv, OpenSlots, Gates, requestVars
    <3> QED
      BY <2>1, <3>1, <3>2, <3>3, <3>4, SamePipes DEF OpenSlots
  <2>5. Gates'
    BY <1>2, <2>2, Together, RequestKinds DEF BeginLost, KeepInv, Gates, requestVars, gateVars
  <2>6. ASSUME NEW q \in Requests, ~failure, Awaits(q) PROVE Awaits(q)'
    BY <1>2, <2>2, <2>6, Together DEF BeginLost, Awaits, KeepInv, requestVars, turnVars
  <2>7. ASSUME NEW q \in Requests, ~failure, worker \in {"reexec", "stub"}, Moving(q) PROVE Moving(q)'
    BY <1>2, <2>2, <2>6, <2>7, Together DEF BeginLost, Moving, KeepInv, Ended, requestVars, turnVars
  <2>9. \A q \in Requests : pc'[q] = "source" => ~hello'
    BY <1>2 DEF BeginLost, KeepInv, OneToken, turnVars
  <2>8. ReplyKept'
    BY <1>2, <2>1, <2>2, Together, EmptySeq DEF BeginLost, ReplyKept, KeepInv, OpenSlots, Ended, Gates, AnswerInv, Once, Own, requestVars
  <2> QED
    BY <2>1, <2>2, <2>3, <2>4, <2>5, <2>6, <2>7, <2>8, <2>9, SamePipes, SameToken, SameMove DEF KeepInv
<1>3. CASE GateShared(r)
  <2>1. UNCHANGED localVars /\ UNCHANGED closer
    BY <1>3 DEF GateShared, localVars, pipeVars, workerVars, requestVars, gateVars, turnVars
  <2>2. UNCHANGED <<pipeVars, toWorker, toClient, worker, wreader, jobs, served>>
    BY <2>1 DEF localVars, pipeVars, workerVars
  <2>3. Ended'
    BY <1>3, <2>2, Together DEF GateShared, KeepInv, Ended, TurnInv, requestVars, turnVars
  <2>4. OpenSlots'
    <3>1. \A q \in Requests : slot'[q] = "open" => pc'[q] \in Waits \cup {"send"}
      BY <1>3, Together DEF GateShared, KeepInv, OpenSlots, requestVars
    <3>2. \A q \in Requests : slot'[q] = "none" => served'[q] = 0
      BY <1>3, <2>2, Together DEF GateShared, KeepInv, OpenSlots, AnswerInv, Once, requestVars
    <3>3. \A q \in Requests : OnWay(q) => slot'[q] = "open"
      BY <1>3, Together DEF GateShared, KeepInv, OpenSlots, Ended, requestVars
    <3>4. \A q \in Requests : slot'[q] \in {"ok", "refused"} /\ pc'[q] = "done" /\ ~Switches(q) =>
            result'[q] \in {"value", "refused"}
      BY <1>3, Together DEF GateShared, KeepInv, OpenSlots, Gates, requestVars
    <3> QED
      BY <2>1, <3>1, <3>2, <3>3, <3>4, SamePipes DEF OpenSlots
  <2>5. Gates'
    BY <1>3, <2>2, Together, RequestKinds DEF GateShared, KeepInv, Gates, requestVars, gateVars
  <2>6. ASSUME NEW q \in Requests, ~failure, Awaits(q) PROVE Awaits(q)'
    BY <1>3, <2>2, <2>6, Together DEF GateShared, Awaits, KeepInv, requestVars, turnVars
  <2>7. ASSUME NEW q \in Requests, ~failure, worker \in {"reexec", "stub"}, Moving(q) PROVE Moving(q)'
    BY <1>3, <2>2, <2>6, <2>7, Together DEF GateShared, Moving, KeepInv, Ended, requestVars, turnVars
  <2>9. \A q \in Requests : pc'[q] = "source" => ~hello'
    BY <1>3 DEF GateShared, KeepInv, OneToken, turnVars
  <2>8. ReplyKept'
    BY <1>3, <2>1, <2>2, Together, EmptySeq DEF GateShared, ReplyKept, KeepInv, OpenSlots, Ended, Gates, AnswerInv, Once, Own, requestVars
  <2> QED
    BY <2>1, <2>2, <2>3, <2>4, <2>5, <2>6, <2>7, <2>8, <2>9, SamePipes, SameToken, SameMove DEF KeepInv
<1>4. CASE GateExclusive(r)
  <2>1. UNCHANGED localVars /\ UNCHANGED closer
    BY <1>4 DEF GateExclusive, localVars, pipeVars, workerVars, requestVars, gateVars, turnVars
  <2>2. UNCHANGED <<pipeVars, toWorker, toClient, worker, wreader, jobs, served>>
    BY <2>1 DEF localVars, pipeVars, workerVars
  <2>3. Ended'
    BY <1>4, <2>2, Together DEF GateExclusive, KeepInv, Ended, TurnInv, requestVars, turnVars
  <2>4. OpenSlots'
    <3>1. \A q \in Requests : slot'[q] = "open" => pc'[q] \in Waits \cup {"send"}
      BY <1>4, Together DEF GateExclusive, KeepInv, OpenSlots, requestVars
    <3>2. \A q \in Requests : slot'[q] = "none" => served'[q] = 0
      BY <1>4, <2>2, Together DEF GateExclusive, KeepInv, OpenSlots, AnswerInv, Once, requestVars
    <3>3. \A q \in Requests : OnWay(q) => slot'[q] = "open"
      BY <1>4, Together DEF GateExclusive, KeepInv, OpenSlots, Ended, requestVars
    <3>4. \A q \in Requests : slot'[q] \in {"ok", "refused"} /\ pc'[q] = "done" /\ ~Switches(q) =>
            result'[q] \in {"value", "refused"}
      BY <1>4, Together DEF GateExclusive, KeepInv, OpenSlots, Gates, requestVars
    <3> QED
      BY <2>1, <3>1, <3>2, <3>3, <3>4, SamePipes DEF OpenSlots
  <2>5. Gates'
    BY <1>4, <2>2, Together, RequestKinds DEF GateExclusive, KeepInv, Gates, requestVars, gateVars
  <2>6. ASSUME NEW q \in Requests, ~failure, Awaits(q) PROVE Awaits(q)'
    BY <1>4, <2>2, <2>6, Together DEF GateExclusive, Awaits, KeepInv, requestVars, turnVars
  <2>7. ASSUME NEW q \in Requests, ~failure, worker \in {"reexec", "stub"}, Moving(q) PROVE Moving(q)'
    BY <1>4, <2>2, <2>6, <2>7, Together DEF GateExclusive, Moving, KeepInv, Ended, requestVars, turnVars
  <2>9. \A q \in Requests : pc'[q] = "source" => ~hello'
    BY <1>4 DEF GateExclusive, KeepInv, OneToken, turnVars
  <2>8. ReplyKept'
    BY <1>4, <2>1, <2>2, Together, EmptySeq DEF GateExclusive, ReplyKept, KeepInv, OpenSlots, Ended, Gates, AnswerInv, Once, Own, requestVars
  <2> QED
    BY <2>1, <2>2, <2>3, <2>4, <2>5, <2>6, <2>7, <2>8, <2>9, SamePipes, SameToken, SameMove DEF KeepInv
<1>5. CASE GateClear(r)
  <2>1. UNCHANGED localVars /\ UNCHANGED closer
    BY <1>5 DEF GateClear, localVars, pipeVars, workerVars, requestVars, gateVars, turnVars
  <2>2. UNCHANGED <<pipeVars, toWorker, toClient, worker, wreader, jobs, served>>
    BY <2>1 DEF localVars, pipeVars, workerVars
  <2>3. Ended'
    BY <1>5, <2>2, Together DEF GateClear, KeepInv, Ended, TurnInv, requestVars, turnVars
  <2>4. OpenSlots'
    <3>1. \A q \in Requests : slot'[q] = "open" => pc'[q] \in Waits \cup {"send"}
      BY <1>5, Together DEF GateClear, KeepInv, OpenSlots, requestVars
    <3>2. \A q \in Requests : slot'[q] = "none" => served'[q] = 0
      BY <1>5, <2>2, Together DEF GateClear, KeepInv, OpenSlots, AnswerInv, Once, requestVars
    <3>3. \A q \in Requests : OnWay(q) => slot'[q] = "open"
      BY <1>5, Together DEF GateClear, KeepInv, OpenSlots, Ended, requestVars
    <3>4. \A q \in Requests : slot'[q] \in {"ok", "refused"} /\ pc'[q] = "done" /\ ~Switches(q) =>
            result'[q] \in {"value", "refused"}
      BY <1>5, Together DEF GateClear, KeepInv, OpenSlots, Gates, requestVars
    <3> QED
      BY <2>1, <3>1, <3>2, <3>3, <3>4, SamePipes DEF OpenSlots
  <2>5. Gates'
    BY <1>5, <2>2, Together, RequestKinds DEF GateClear, KeepInv, Gates, requestVars, gateVars
  <2>6. ASSUME NEW q \in Requests, ~failure, Awaits(q) PROVE Awaits(q)'
    BY <1>5, <2>2, <2>6, Together DEF GateClear, Awaits, KeepInv, requestVars, turnVars
  <2>7. ASSUME NEW q \in Requests, ~failure, worker \in {"reexec", "stub"}, Moving(q) PROVE Moving(q)'
    BY <1>5, <2>2, <2>6, <2>7, Together DEF GateClear, Moving, KeepInv, Ended, requestVars, turnVars
  <2>9. \A q \in Requests : pc'[q] = "source" => ~hello'
    BY <1>5 DEF GateClear, KeepInv, OneToken, turnVars
  <2>8. ReplyKept'
    BY <1>5, <2>1, <2>2, Together, EmptySeq DEF GateClear, ReplyKept, KeepInv, OpenSlots, Ended, Gates, AnswerInv, Once, Own, requestVars
  <2> QED
    BY <2>1, <2>2, <2>3, <2>4, <2>5, <2>6, <2>7, <2>8, <2>9, SamePipes, SameToken, SameMove DEF KeepInv
<1>6. CASE OpenSlot(r)
  <2>1. UNCHANGED localVars /\ UNCHANGED closer
    BY <1>6 DEF OpenSlot, localVars, pipeVars, workerVars, requestVars, gateVars, turnVars
  <2>2. UNCHANGED <<pipeVars, toWorker, toClient, worker, wreader, jobs, served>>
    BY <2>1 DEF localVars, pipeVars, workerVars
  <2>3. Ended'
    BY <1>6, <2>2, Together DEF OpenSlot, KeepInv, Ended, TurnInv, requestVars, turnVars
  <2>4. OpenSlots'
    <3>1. \A q \in Requests : slot'[q] = "open" => pc'[q] \in Waits \cup {"send"}
      BY <1>6, Together DEF OpenSlot, KeepInv, OpenSlots, requestVars
    <3>2. \A q \in Requests : slot'[q] = "none" => served'[q] = 0
      BY <1>6, <2>2, Together DEF OpenSlot, KeepInv, OpenSlots, AnswerInv, Once, requestVars
    <3>3. \A q \in Requests : OnWay(q) => slot'[q] = "open"
      BY <1>6, Together DEF OpenSlot, KeepInv, OpenSlots, Ended, requestVars
    <3>4. \A q \in Requests : slot'[q] \in {"ok", "refused"} /\ pc'[q] = "done" /\ ~Switches(q) =>
            result'[q] \in {"value", "refused"}
      BY <1>6, Together DEF OpenSlot, KeepInv, OpenSlots, Gates, requestVars
    <3> QED
      BY <2>1, <3>1, <3>2, <3>3, <3>4, SamePipes DEF OpenSlots
  <2>5. Gates'
    BY <1>6, <2>2, Together, RequestKinds DEF OpenSlot, KeepInv, Gates, requestVars, gateVars
  <2>6. ASSUME NEW q \in Requests, ~failure, Awaits(q) PROVE Awaits(q)'
    BY <1>6, <2>2, <2>6, Together DEF OpenSlot, Awaits, KeepInv, requestVars, turnVars
  <2>7. ASSUME NEW q \in Requests, ~failure, worker \in {"reexec", "stub"}, Moving(q) PROVE Moving(q)'
    BY <1>6, <2>2, <2>6, <2>7, Together DEF OpenSlot, Moving, KeepInv, Ended, requestVars, turnVars
  <2>9. \A q \in Requests : pc'[q] = "source" => ~hello'
    BY <1>6 DEF OpenSlot, KeepInv, OneToken, turnVars
  <2>8. ReplyKept'
    BY <1>6, <2>1, <2>2, Together, EmptySeq DEF OpenSlot, ReplyKept, KeepInv, OpenSlots, Ended, Gates, AnswerInv, Once, Own, requestVars
  <2> QED
    BY <2>1, <2>2, <2>3, <2>4, <2>5, <2>6, <2>7, <2>8, <2>9, SamePipes, SameToken, SameMove DEF KeepInv
<1>7. CASE OpenFails(r)
  <2>1. UNCHANGED localVars /\ UNCHANGED closer
    BY <1>7 DEF OpenFails, localVars, pipeVars, workerVars, requestVars, gateVars, turnVars
  <2>2. UNCHANGED <<pipeVars, toWorker, toClient, worker, wreader, jobs, served>>
    BY <2>1 DEF localVars, pipeVars, workerVars
  <2>3. Ended'
    BY <1>7, <2>2, Together DEF OpenFails, Finish, KeepInv, Ended, TurnInv, requestVars, turnVars
  <2>4. OpenSlots'
    <3>1. \A q \in Requests : slot'[q] = "open" => pc'[q] \in Waits \cup {"send"}
      BY <1>7, Together DEF OpenFails, Finish, KeepInv, OpenSlots, requestVars
    <3>2. \A q \in Requests : slot'[q] = "none" => served'[q] = 0
      BY <1>7, <2>2, Together DEF OpenFails, Finish, KeepInv, OpenSlots, AnswerInv, Once, requestVars
    <3>3. \A q \in Requests : OnWay(q) => slot'[q] = "open"
      BY <1>7, Together DEF OpenFails, Finish, KeepInv, OpenSlots, Ended, requestVars
    <3>4. \A q \in Requests : slot'[q] \in {"ok", "refused"} /\ pc'[q] = "done" /\ ~Switches(q) =>
            result'[q] \in {"value", "refused"}
      BY <1>7, Together DEF OpenFails, Finish, KeepInv, OpenSlots, Gates, requestVars
    <3> QED
      BY <2>1, <3>1, <3>2, <3>3, <3>4, SamePipes DEF OpenSlots
  <2>5. Gates'
    BY <1>7, <2>2, Together, RequestKinds DEF OpenFails, Finish, KeepInv, Gates, requestVars, gateVars
  <2>6. ASSUME NEW q \in Requests, ~failure, Awaits(q) PROVE Awaits(q)'
    BY <1>7, <2>2, <2>6, Together DEF OpenFails, Finish, Awaits, KeepInv, requestVars, turnVars
  <2>7. ASSUME NEW q \in Requests, ~failure, worker \in {"reexec", "stub"}, Moving(q) PROVE Moving(q)'
    BY <1>7, <2>2, <2>6, <2>7, Together DEF OpenFails, Finish, Moving, KeepInv, Ended, requestVars, turnVars
  <2>9. \A q \in Requests : pc'[q] = "source" => ~hello'
    BY <1>7 DEF OpenFails, Finish, KeepInv, OneToken, turnVars
  <2>8. ReplyKept'
    BY <1>7, <2>1, <2>2, Together, EmptySeq DEF OpenFails, Finish, ReplyKept, KeepInv, OpenSlots, Ended, Gates, AnswerInv, Once, Own, requestVars
  <2> QED
    BY <2>1, <2>2, <2>3, <2>4, <2>5, <2>6, <2>7, <2>8, <2>9, SamePipes, SameToken, SameMove DEF KeepInv
<1>8. CASE SendFails(r)
  <2>1. UNCHANGED localVars /\ UNCHANGED closer
    BY <1>8 DEF SendFails, localVars, pipeVars, workerVars, requestVars, gateVars, turnVars
  <2>2. UNCHANGED <<pipeVars, toWorker, toClient, worker, wreader, jobs, served>>
    BY <2>1 DEF localVars, pipeVars, workerVars
  <2>3. Ended'
    BY <1>8, <2>2, Together DEF SendFails, Finish, KeepInv, Ended, TurnInv, requestVars, turnVars
  <2>4. OpenSlots'
    <3>1. \A q \in Requests : slot'[q] = "open" => pc'[q] \in Waits \cup {"send"}
      BY <1>8, Together DEF SendFails, Finish, KeepInv, OpenSlots, requestVars
    <3>2. \A q \in Requests : slot'[q] = "none" => served'[q] = 0
      BY <1>8, <2>2, Together DEF SendFails, Finish, KeepInv, OpenSlots, AnswerInv, Once, requestVars
    <3>3. \A q \in Requests : OnWay(q) => slot'[q] = "open"
      <4>1. \A q \in Requests : OnWay(q) => q # r /\ slot[q] = "open"
        BY <1>8, Together DEF SendFails, KeepInv, OpenSlots
      <4> QED
        BY <1>8, <4>1 DEF SendFails
    <3>4. \A q \in Requests : slot'[q] \in {"ok", "refused"} /\ pc'[q] = "done" /\ ~Switches(q) =>
            result'[q] \in {"value", "refused"}
      BY <1>8, Together DEF SendFails, Finish, KeepInv, OpenSlots, Gates, requestVars
    <3> QED
      BY <2>1, <3>1, <3>2, <3>3, <3>4, SamePipes DEF OpenSlots
  <2>5. Gates'
    BY <1>8, <2>2, Together, RequestKinds DEF SendFails, Finish, KeepInv, Gates, requestVars, gateVars
  <2>6. ASSUME NEW q \in Requests, ~failure, Awaits(q) PROVE Awaits(q)'
    BY <1>8, <2>2, <2>6, Together DEF SendFails, Finish, Awaits, KeepInv, requestVars, turnVars
  <2>7. ASSUME NEW q \in Requests, ~failure, worker \in {"reexec", "stub"}, Moving(q) PROVE Moving(q)'
    BY <1>8, <2>2, <2>6, <2>7, Together DEF SendFails, Finish, Moving, KeepInv, Ended, requestVars, turnVars
  <2>9. \A q \in Requests : pc'[q] = "source" => ~hello'
    BY <1>8 DEF SendFails, Finish, KeepInv, OneToken, turnVars
  <2>8. ReplyKept'
    BY <1>8, <2>1, <2>2, Together, EmptySeq DEF SendFails, Finish, ReplyKept, KeepInv, OpenSlots, Ended, Gates, AnswerInv, Once, Own, requestVars
  <2> QED
    BY <2>1, <2>2, <2>3, <2>4, <2>5, <2>6, <2>7, <2>8, <2>9, SamePipes, SameToken, SameMove DEF KeepInv
<1>9. CASE Enter(r)
  <2>1. UNCHANGED localVars /\ UNCHANGED closer
    BY <1>9 DEF Enter, localVars, pipeVars, workerVars, requestVars, gateVars, turnVars
  <2>2. UNCHANGED <<pipeVars, toWorker, toClient, worker, wreader, jobs, served>>
    BY <2>1 DEF localVars, pipeVars, workerVars
  <2>3. Ended'
    BY <1>9, <2>2, Together DEF Enter, Done, TurnFree, KeepInv, Ended, TurnInv, requestVars, turnVars
  <2>4. OpenSlots'
    <3>0. /\ pc' = [pc EXCEPT ![r] = pc'[r]] /\ pc'[r] \in Waits \cup {"result"}
          /\ pc'[r] = "result" => slot[r] # "open"
          /\ slot' = slot
      <4>1. Done(r) \/ (failure /\ TurnFree) => slot[r] # "open"
        BY DEF Done, TurnInv, NoSlotAfterFailure, AnswerInv, Own
      <4> QED
        BY <1>9, <4>1 DEF Enter, requestVars
    <3>1. \A q \in Requests : slot'[q] = "open" => pc'[q] \in Waits \cup {"send"}
      <4>1. \A q \in Requests : slot[q] = "open" => pc[q] \in Waits \cup {"send"}
        BY DEF KeepInv, OpenSlots
      <4> QED
        BY <3>0, <4>1
    <3>2. \A q \in Requests : slot'[q] = "none" => served'[q] = 0
      BY <1>9, <2>2, Together DEF Enter, KeepInv, OpenSlots, AnswerInv, Once, requestVars
    <3>3. \A q \in Requests : OnWay(q) => slot'[q] = "open"
      BY <1>9, Together DEF Enter, KeepInv, OpenSlots, Ended, requestVars
    <3>4. \A q \in Requests : slot'[q] \in {"ok", "refused"} /\ pc'[q] = "done" /\ ~Switches(q) =>
            result'[q] \in {"value", "refused"}
      BY <1>9, Together DEF Enter, KeepInv, OpenSlots, Gates, requestVars
    <3> QED
      BY <2>1, <3>1, <3>2, <3>3, <3>4, SamePipes DEF OpenSlots
  <2>5. Gates'
    <3>1. /\ \A q \in Requests : pc'[q] = pc[q] \/ (pc[q] \in Waits /\ pc'[q] \in Waits \cup {"quit", "result"})
          /\ UNCHANGED <<sending, exclusive, stage>>
      BY <1>9 DEF Enter, gateVars, requestVars
    <3> QED
      BY <3>1, WaitGates DEF KeepInv
  <2>6. ASSUME NEW q \in Requests, ~failure, Awaits(q) PROVE Awaits(q)'
    BY <1>9, <2>2, <2>6, Together DEF Enter, Done, TurnFree, Awaits, KeepInv, requestVars, turnVars
  <2>7. ASSUME NEW q \in Requests, ~failure, worker \in {"reexec", "stub"}, Moving(q) PROVE Moving(q)'
    BY <1>9, <2>2, <2>6, <2>7, Together DEF Enter, Done, TurnFree, Moving, KeepInv, Ended, requestVars, turnVars
  <2>9. \A q \in Requests : pc'[q] = "source" => ~hello'
    BY <1>9 DEF Enter, KeepInv, OneToken, turnVars
  <2>8. ReplyKept'
    BY <1>9, <2>1, <2>2, Together, EmptySeq DEF Enter, Done, TurnFree, ReplyKept, KeepInv, OpenSlots, Ended, Gates, AnswerInv, Once, Own, requestVars
  <2> QED
    BY <2>1, <2>2, <2>3, <2>4, <2>5, <2>6, <2>7, <2>8, <2>9, SamePipes, SameToken, SameMove DEF KeepInv
<1>10. CASE PumpEnd(r)
  <2>1. UNCHANGED localVars /\ UNCHANGED closer
    BY <1>10 DEF PumpEnd, localVars, pipeVars, workerVars, requestVars, gateVars, turnVars
  <2>2. UNCHANGED <<pipeVars, toWorker, toClient, worker, wreader, jobs, served>>
    BY <2>1 DEF localVars, pipeVars, workerVars
  <2>3. Ended'
    BY <1>10, <2>2, Together DEF PumpEnd, WorkerUp, KeepInv, Ended, TurnInv, requestVars, turnVars
  <2>4. OpenSlots'
    <3>1. \A q \in Requests : slot'[q] = "open" => pc'[q] \in Waits \cup {"send"}
      BY <1>10, Together DEF PumpEnd, KeepInv, OpenSlots, requestVars
    <3>2. \A q \in Requests : slot'[q] = "none" => served'[q] = 0
      BY <1>10, <2>2, Together DEF PumpEnd, KeepInv, OpenSlots, AnswerInv, Once, requestVars
    <3>3. \A q \in Requests : OnWay(q) => slot'[q] = "open"
      BY <1>10, Together DEF PumpEnd, KeepInv, OpenSlots, Ended, requestVars
    <3>4. \A q \in Requests : slot'[q] \in {"ok", "refused"} /\ pc'[q] = "done" /\ ~Switches(q) =>
            result'[q] \in {"value", "refused"}
      BY <1>10, Together DEF PumpEnd, KeepInv, OpenSlots, Gates, requestVars
    <3> QED
      BY <2>1, <3>1, <3>2, <3>3, <3>4, SamePipes DEF OpenSlots
  <2>5. Gates'
    BY <1>10, <2>2, Together, RequestKinds DEF PumpEnd, KeepInv, Gates, requestVars, gateVars
  <2>6. ASSUME NEW q \in Requests, ~failure, Awaits(q) PROVE Awaits(q)'
    BY <1>10, <2>2, <2>6, Together DEF PumpEnd, WorkerUp, Awaits, KeepInv, requestVars, turnVars
  <2>7. ASSUME NEW q \in Requests, ~failure, worker \in {"reexec", "stub"}, Moving(q) PROVE Moving(q)'
    BY <1>10, <2>2, <2>6, <2>7, Together DEF PumpEnd, WorkerUp, Moving, KeepInv, Ended, requestVars, turnVars
  <2>9. \A q \in Requests : pc'[q] = "source" => ~hello'
    BY <1>10 DEF PumpEnd, KeepInv, OneToken, turnVars
  <2>8. ReplyKept'
    BY <1>10, <2>1, <2>2, Together, EmptySeq DEF PumpEnd, WorkerUp, ReplyKept, KeepInv, OpenSlots, Ended, Gates, AnswerInv, Once, Own, requestVars
  <2> QED
    BY <2>1, <2>2, <2>3, <2>4, <2>5, <2>6, <2>7, <2>8, <2>9, SamePipes, SameToken, SameMove DEF KeepInv
<1>11. CASE FailSlots(r)
  <2>1. UNCHANGED localVars /\ UNCHANGED closer
    BY <1>11 DEF FailSlots, localVars, pipeVars, workerVars, requestVars, gateVars, turnVars
  <2>2. UNCHANGED <<pipeVars, toWorker, toClient, worker, wreader, jobs, served>>
    BY <2>1 DEF localVars, pipeVars, workerVars
  <2>3. Ended'
    BY <1>11, <2>2, Together DEF FailSlots, KeepInv, Ended, TurnInv, requestVars, turnVars
  <2>4. OpenSlots'
    <3>1. \A q \in Requests : slot'[q] = "open" => pc'[q] \in Waits \cup {"send"}
      BY <1>11, Together DEF FailSlots, KeepInv, OpenSlots, requestVars
    <3>2. \A q \in Requests : slot'[q] = "none" => served'[q] = 0
      BY <1>11, <2>2, Together DEF FailSlots, KeepInv, OpenSlots, AnswerInv, Once, requestVars
    <3>3. \A q \in Requests : OnWay(q) => slot'[q] = "open"
      BY <1>11, Together DEF FailSlots, KeepInv, OpenSlots, Ended, requestVars
    <3>4. \A q \in Requests : slot'[q] \in {"ok", "refused"} /\ pc'[q] = "done" /\ ~Switches(q) =>
            result'[q] \in {"value", "refused"}
      BY <1>11, Together DEF FailSlots, KeepInv, OpenSlots, Gates, requestVars
    <3> QED
      BY <2>1, <3>1, <3>2, <3>3, <3>4, SamePipes DEF OpenSlots
  <2>5. Gates'
    BY <1>11, <2>2, Together, RequestKinds DEF FailSlots, KeepInv, Gates, requestVars, gateVars
  <2>6. ASSUME NEW q \in Requests, ~failure, Awaits(q) PROVE Awaits(q)'
    BY <1>11, <2>2, <2>6, Together DEF FailSlots, Awaits, KeepInv, requestVars, turnVars
  <2>7. ASSUME NEW q \in Requests, ~failure, worker \in {"reexec", "stub"}, Moving(q) PROVE Moving(q)'
    BY <1>11, <2>2, <2>6, <2>7, Together DEF FailSlots, Moving, KeepInv, Ended, requestVars, turnVars
  <2>9. \A q \in Requests : pc'[q] = "source" => ~hello'
    BY <1>11 DEF FailSlots, KeepInv, OneToken, turnVars
  <2>8. ReplyKept'
    BY <1>11, <2>1, <2>2, Together, EmptySeq DEF FailSlots, ReplyKept, KeepInv, OpenSlots, Ended, Gates, AnswerInv, Once, Own, requestVars
  <2> QED
    BY <2>1, <2>2, <2>3, <2>4, <2>5, <2>6, <2>7, <2>8, <2>9, SamePipes, SameToken, SameMove DEF KeepInv
<1>12. CASE Check(r)
  <2>1. UNCHANGED localVars /\ UNCHANGED closer
    BY <1>12 DEF Check, localVars, pipeVars, workerVars, requestVars, gateVars, turnVars
  <2>2. UNCHANGED <<pipeVars, toWorker, toClient, worker, wreader, jobs, served>>
    BY <2>1 DEF localVars, pipeVars, workerVars
  <2>3. Ended'
    BY <1>12, <2>2, Together DEF Check, Done, TurnFree, KeepInv, Ended, TurnInv, requestVars, turnVars
  <2>4. OpenSlots'
    <3>0. /\ pc' = [pc EXCEPT ![r] = pc'[r]] /\ pc'[r] \in Waits \cup {"quit"}
          /\ pc'[r] = "quit" => slot[r] # "open"
          /\ slot' = slot
      <4>1. Done(r) \/ (failure /\ TurnFree) => slot[r] # "open"
        BY DEF Done, TurnInv, NoSlotAfterFailure, AnswerInv, Own
      <4> QED
        BY <1>12, <4>1 DEF Check, requestVars
    <3>1. \A q \in Requests : slot'[q] = "open" => pc'[q] \in Waits \cup {"send"}
      <4>1. \A q \in Requests : slot[q] = "open" => pc[q] \in Waits \cup {"send"}
        BY DEF KeepInv, OpenSlots
      <4> QED
        BY <3>0, <4>1
    <3>2. \A q \in Requests : slot'[q] = "none" => served'[q] = 0
      BY <1>12, <2>2, Together DEF Check, KeepInv, OpenSlots, AnswerInv, Once, requestVars
    <3>3. \A q \in Requests : OnWay(q) => slot'[q] = "open"
      BY <1>12, Together DEF Check, KeepInv, OpenSlots, Ended, requestVars
    <3>4. \A q \in Requests : slot'[q] \in {"ok", "refused"} /\ pc'[q] = "done" /\ ~Switches(q) =>
            result'[q] \in {"value", "refused"}
      BY <1>12, Together DEF Check, KeepInv, OpenSlots, Gates, requestVars
    <3> QED
      BY <2>1, <3>1, <3>2, <3>3, <3>4, SamePipes DEF OpenSlots
  <2>5. Gates'
    <3>1. /\ \A q \in Requests : pc'[q] = pc[q] \/ (pc[q] \in Waits /\ pc'[q] \in Waits \cup {"quit", "result"})
          /\ UNCHANGED <<sending, exclusive, stage>>
      BY <1>12 DEF Check, gateVars, requestVars
    <3> QED
      BY <3>1, WaitGates DEF KeepInv
  <2>6. ASSUME NEW q \in Requests, ~failure, Awaits(q) PROVE Awaits(q)'
    BY <1>12, <2>2, <2>6, Together DEF Check, Done, TurnFree, Awaits, KeepInv, requestVars, turnVars
  <2>7. ASSUME NEW q \in Requests, ~failure, worker \in {"reexec", "stub"}, Moving(q) PROVE Moving(q)'
    BY <1>12, <2>2, <2>6, <2>7, Together DEF Check, Done, TurnFree, Moving, KeepInv, Ended, requestVars, turnVars
  <2>9. \A q \in Requests : pc'[q] = "source" => ~hello'
    BY <1>12 DEF Check, KeepInv, OneToken, turnVars
  <2>8. ReplyKept'
    BY <1>12, <2>1, <2>2, Together, EmptySeq DEF Check, Done, TurnFree, ReplyKept, KeepInv, OpenSlots, Ended, Gates, AnswerInv, Once, Own, requestVars
  <2> QED
    BY <2>1, <2>2, <2>3, <2>4, <2>5, <2>6, <2>7, <2>8, <2>9, SamePipes, SameToken, SameMove DEF KeepInv
<1>13. CASE Quit(r)
  <2>1. UNCHANGED localVars /\ UNCHANGED closer
    BY <1>13 DEF Quit, localVars, pipeVars, workerVars, requestVars, gateVars, turnVars
  <2>2. UNCHANGED <<pipeVars, toWorker, toClient, worker, wreader, jobs, served>>
    BY <2>1 DEF localVars, pipeVars, workerVars
  <2>3. Ended'
    BY <1>13, <2>2, Together DEF Quit, Done, TurnFree, KeepInv, Ended, TurnInv, requestVars, turnVars
  <2>4. OpenSlots'
    <3>1. \A q \in Requests : slot'[q] = "open" => pc'[q] \in Waits \cup {"send"}
      BY <1>13, Together DEF Quit, KeepInv, OpenSlots, requestVars
    <3>2. \A q \in Requests : slot'[q] = "none" => served'[q] = 0
      BY <1>13, <2>2, Together DEF Quit, KeepInv, OpenSlots, AnswerInv, Once, requestVars
    <3>3. \A q \in Requests : OnWay(q) => slot'[q] = "open"
      BY <1>13, Together DEF Quit, KeepInv, OpenSlots, Ended, requestVars
    <3>4. \A q \in Requests : slot'[q] \in {"ok", "refused"} /\ pc'[q] = "done" /\ ~Switches(q) =>
            result'[q] \in {"value", "refused"}
      BY <1>13, Together DEF Quit, KeepInv, OpenSlots, Gates, requestVars
    <3> QED
      BY <2>1, <3>1, <3>2, <3>3, <3>4, SamePipes DEF OpenSlots
  <2>5. Gates'
    BY <1>13, <2>2, Together, RequestKinds DEF Quit, KeepInv, Gates, requestVars, gateVars
  <2>6. ASSUME NEW q \in Requests, ~failure, Awaits(q) PROVE Awaits(q)'
    BY <1>13, <2>2, <2>6, Together DEF Quit, Done, TurnFree, Awaits, KeepInv, requestVars, turnVars
  <2>7. ASSUME NEW q \in Requests, ~failure, worker \in {"reexec", "stub"}, Moving(q) PROVE Moving(q)'
    BY <1>13, <2>2, <2>6, <2>7, Together DEF Quit, Done, TurnFree, Moving, KeepInv, Ended, requestVars, turnVars
  <2>9. \A q \in Requests : pc'[q] = "source" => ~hello'
    BY <1>13 DEF Quit, KeepInv, OneToken, turnVars
  <2>8. ReplyKept'
    BY <1>13, <2>1, <2>2, Together, EmptySeq DEF Quit, Done, TurnFree, ReplyKept, KeepInv, OpenSlots, Ended, Gates, AnswerInv, Once, Own, requestVars
  <2> QED
    BY <2>1, <2>2, <2>3, <2>4, <2>5, <2>6, <2>7, <2>8, <2>9, SamePipes, SameToken, SameMove DEF KeepInv
<1>14. CASE Return(r)
  <2>1. UNCHANGED localVars /\ UNCHANGED closer
    BY <1>14 DEF Return, localVars, pipeVars, workerVars, requestVars, gateVars, turnVars
  <2>2. UNCHANGED <<pipeVars, toWorker, toClient, worker, wreader, jobs, served>>
    BY <2>1 DEF localVars, pipeVars, workerVars
  <2>3. Ended'
    BY <1>14, <2>2, Together DEF Return, Finish, MovesOn, Outcome, KeepInv, Ended, TurnInv, requestVars, turnVars
  <2>4. OpenSlots'
    <3>1. \A q \in Requests : slot'[q] = "open" => pc'[q] \in Waits \cup {"send"}
      BY <1>14, Together DEF Return, Finish, KeepInv, OpenSlots, requestVars
    <3>2. \A q \in Requests : slot'[q] = "none" => served'[q] = 0
      BY <1>14, <2>2, Together DEF Return, Finish, KeepInv, OpenSlots, AnswerInv, Once, requestVars
    <3>3. \A q \in Requests : OnWay(q) => slot'[q] = "open"
      BY <1>14, Together DEF Return, Finish, KeepInv, OpenSlots, Ended, requestVars
    <3>4. \A q \in Requests : slot'[q] \in {"ok", "refused"} /\ pc'[q] = "done" /\ ~Switches(q) =>
            result'[q] \in {"value", "refused"}
      BY <1>14, Together DEF Return, Finish, MovesOn, Outcome, KeepInv, OpenSlots, Gates, requestVars
    <3> QED
      BY <2>1, <3>1, <3>2, <3>3, <3>4, SamePipes DEF OpenSlots
  <2>5. Gates'
    BY <1>14, <2>2, Together, RequestKinds DEF Return, Finish, MovesOn, Outcome, KeepInv, Gates, requestVars, gateVars
  <2>6. ASSUME NEW q \in Requests, ~failure, Awaits(q) PROVE Awaits(q)'
    BY <1>14, <2>2, <2>6, Together DEF Return, Finish, MovesOn, Outcome, Awaits, KeepInv, requestVars, turnVars
  <2>7. ASSUME NEW q \in Requests, ~failure, worker \in {"reexec", "stub"}, Moving(q) PROVE Moving(q)'
    BY <1>14, <2>2, <2>6, <2>7, Together DEF Return, Finish, MovesOn, Outcome, Moving, KeepInv, Ended, requestVars, turnVars
  <2>9. \A q \in Requests : pc'[q] = "source" => ~hello'
    BY <1>14 DEF Return, Finish, KeepInv, OneToken, turnVars
  <2>8. ReplyKept'
    BY <1>14, <2>1, <2>2, Together, EmptySeq DEF Return, Finish, MovesOn, Outcome, ReplyKept, KeepInv, OpenSlots, Ended, Gates, AnswerInv, Once, Own, requestVars
  <2> QED
    BY <2>1, <2>2, <2>3, <2>4, <2>5, <2>6, <2>7, <2>8, <2>9, SamePipes, SameToken, SameMove DEF KeepInv
<1>15. CASE SwitchReplied(r)
  <2>1. UNCHANGED localVars /\ UNCHANGED closer
    BY <1>15 DEF SwitchReplied, localVars, pipeVars, workerVars, requestVars, gateVars, turnVars
  <2>2. UNCHANGED <<pipeVars, toWorker, toClient, worker, wreader, jobs, served>>
    BY <2>1 DEF localVars, pipeVars, workerVars
  <2>3. Ended'
    BY <1>15, <2>2, Together DEF SwitchReplied, MovesOn, KeepInv, Ended, TurnInv, requestVars, turnVars
  <2>4. OpenSlots'
    <3>1. \A q \in Requests : slot'[q] = "open" => pc'[q] \in Waits \cup {"send"}
      BY <1>15, Together DEF SwitchReplied, MovesOn, KeepInv, OpenSlots, requestVars
    <3>2. \A q \in Requests : slot'[q] = "none" => served'[q] = 0
      BY <1>15, <2>2, Together DEF SwitchReplied, MovesOn, KeepInv, OpenSlots, AnswerInv, Once, requestVars
    <3>3. \A q \in Requests : OnWay(q) => slot'[q] = "open"
      BY <1>15, Together DEF SwitchReplied, MovesOn, KeepInv, OpenSlots, Ended, requestVars
    <3>4. \A q \in Requests : slot'[q] \in {"ok", "refused"} /\ pc'[q] = "done" /\ ~Switches(q) =>
            result'[q] \in {"value", "refused"}
      BY <1>15, Together DEF SwitchReplied, MovesOn, KeepInv, OpenSlots, Gates, requestVars
    <3> QED
      BY <2>1, <3>1, <3>2, <3>3, <3>4, SamePipes DEF OpenSlots
  <2>5. Gates'
    BY <1>15, <2>2, Together, RequestKinds DEF SwitchReplied, MovesOn, KeepInv, Gates, requestVars, gateVars
  <2>6. ASSUME NEW q \in Requests, ~failure, Awaits(q) PROVE Awaits(q)'
    BY <1>15, <2>2, <2>6, Together DEF SwitchReplied, MovesOn, Awaits, KeepInv, requestVars, turnVars
  <2>7. ASSUME NEW q \in Requests, ~failure, worker \in {"reexec", "stub"}, Moving(q) PROVE Moving(q)'
    BY <1>15, <2>2, <2>6, <2>7, Together DEF SwitchReplied, MovesOn, Moving, KeepInv, Ended, requestVars, turnVars
  <2>9. \A q \in Requests : pc'[q] = "source" => ~hello'
    BY <1>15 DEF SwitchReplied, KeepInv, OneToken, turnVars
  <2>8. ReplyKept'
    BY <1>15, <2>1, <2>2, Together, EmptySeq DEF SwitchReplied, MovesOn, ReplyKept, KeepInv, OpenSlots, Ended, Gates, AnswerInv, Once, Own, requestVars
  <2> QED
    BY <2>1, <2>2, <2>3, <2>4, <2>5, <2>6, <2>7, <2>8, <2>9, SamePipes, SameToken, SameMove DEF KeepInv
<1>16. CASE Expire(r)
  <2>1. UNCHANGED localVars /\ UNCHANGED closer
    BY <1>16 DEF Expire, localVars, pipeVars, workerVars, requestVars, gateVars, turnVars
  <2>2. UNCHANGED <<pipeVars, toWorker, toClient, worker, wreader, jobs, served>>
    BY <2>1 DEF localVars, pipeVars, workerVars
  <2>3. Ended'
    BY <1>16, <2>2, Together DEF Expire, KeepInv, Ended, TurnInv, requestVars, turnVars
  <2>4. OpenSlots'
    <3>1. \A q \in Requests : slot'[q] = "open" => pc'[q] \in Waits \cup {"send"}
      BY <1>16, Together DEF Expire, KeepInv, OpenSlots, requestVars
    <3>2. \A q \in Requests : slot'[q] = "none" => served'[q] = 0
      BY <1>16, <2>2, Together DEF Expire, KeepInv, OpenSlots, AnswerInv, Once, requestVars
    <3>3. \A q \in Requests : OnWay(q) => slot'[q] = "open"
      BY <1>16, Together DEF Expire, KeepInv, OpenSlots, Ended, requestVars
    <3>4. \A q \in Requests : slot'[q] \in {"ok", "refused"} /\ pc'[q] = "done" /\ ~Switches(q) =>
            result'[q] \in {"value", "refused"}
      BY <1>16, Together DEF Expire, KeepInv, OpenSlots, Gates, requestVars
    <3> QED
      BY <2>1, <3>1, <3>2, <3>3, <3>4, SamePipes DEF OpenSlots
  <2>5. Gates'
    BY <1>16, <2>2, Together, RequestKinds DEF Expire, KeepInv, Gates, requestVars, gateVars
  <2>6. ASSUME NEW q \in Requests, ~failure, Awaits(q) PROVE Awaits(q)'
    BY <1>16, <2>2, <2>6, Together DEF Expire, Awaits, KeepInv, requestVars, turnVars
  <2>7. ASSUME NEW q \in Requests, ~failure, worker \in {"reexec", "stub"}, Moving(q) PROVE Moving(q)'
    BY <1>16, <2>2, <2>6, <2>7, Together DEF Expire, Moving, KeepInv, Ended, requestVars, turnVars
  <2>9. \A q \in Requests : pc'[q] = "source" => ~hello'
    BY <1>16 DEF Expire, KeepInv, OneToken, turnVars
  <2>8. ReplyKept'
    BY <1>16, <2>1, <2>2, Together, EmptySeq DEF Expire, ReplyKept, KeepInv, OpenSlots, Ended, Gates, AnswerInv, Once, Own, requestVars
  <2> QED
    BY <2>1, <2>2, <2>3, <2>4, <2>5, <2>6, <2>7, <2>8, <2>9, SamePipes, SameToken, SameMove DEF KeepInv
<1> QED
  BY <1>1, <1>2, <1>3, <1>4, <1>5, <1>6, <1>7, <1>8, <1>9, <1>10, <1>11, <1>12, <1>13, <1>14, <1>15, <1>16

---------------------------------------------------------------------------
\* What the pipes look like after one frame is taken or added.
LEMMA TakenFrame ==
  ASSUME NEW pipe \in Seq(Frames), NEW rest, pipe # <<>>, rest = Tail(pipe)
  PROVE  /\ 1 \in DOMAIN pipe /\ pipe[1] = Head(pipe) /\ Head(pipe) \in Frames
         /\ \A i \in DOMAIN rest : i \in Nat /\ i # 0 /\ i + 1 \in DOMAIN pipe /\ rest[i] = pipe[i + 1]
         /\ \A i \in DOMAIN pipe : i # 1 => i - 1 \in DOMAIN rest /\ rest[i - 1] = pipe[i] /\ i > 1
<1>1. Len(pipe) \in Nat /\ DOMAIN pipe = 1 .. Len(pipe)
  BY LenProperties
<1>2. DOMAIN rest = 1 .. (Len(pipe) - 1)
  BY <1>1, HeadTailProperties, LenProperties
<1> QED
  BY <1>1, <1>2, TailAt

LEMMA AddedFrame ==
  ASSUME NEW pipe \in Seq(Frames), NEW more, NEW e \in Frames, more = Append(pipe, e)
  PROVE  /\ \A i \in DOMAIN pipe : i \in DOMAIN more /\ more[i] = pipe[i]
         /\ Len(pipe) + 1 \in DOMAIN more /\ more[Len(pipe) + 1] = e
         /\ \A i \in DOMAIN more :
              \/ i \in DOMAIN pipe /\ more[i] = pipe[i]
              \/ i = Len(pipe) + 1 /\ i \notin DOMAIN pipe /\ more[i] = e
         /\ \A i \in DOMAIN pipe : i \in Nat /\ i <= Len(pipe)
<1>1. Len(pipe) \in Nat /\ DOMAIN pipe = 1 .. Len(pipe)
  BY LenProperties
<1>2. DOMAIN more = 1 .. (Len(pipe) + 1)
  BY <1>1, AppendProperties, LenProperties
<1> QED
  BY <1>1, <1>2, AppendProperties

---------------------------------------------------------------------------
\* The death of the worker, and close, which leave what the threads see alone.
LEMMA EndStep ==
  ASSUME Known, TypeOK', WorkerEnds \/ UNCHANGED <<toWorker, worker, wreader, jobs>>,
         UNCHANGED <<pc, stage, slot, result, gateVars, turnVars, toClient, served>>, closer' = "open" => closer = "open"
  PROVE  KeepInv'
<1> USE DEF Known, gateVars, turnVars
<1>1. HelloSent' = HelloSent
  BY DEF HelloSent
<1>2. ReplyKept'
  BY DEF KeepInv, ReplyKept
<1>3. CASE WorkerEnds
  <2>1. DOMAIN toWorker' = {} /\ DOMAIN jobs' = {} /\ toWorker' = <<>> /\ jobs' = <<>>
        /\ worker' = "dead" /\ ~wreader'
    BY <1>3, EmptySeq, LenProperties DEF WorkerEnds
  <2>2. Ended' /\ Gates' /\ MoveLast' /\ MoveHeld' /\ CleanSwitch'
    BY <2>1 DEF KeepInv, Ended, Gates, MoveLast, MoveHeld, CleanSwitch
  <2>3. OpenSlots'
    BY <2>1 DEF KeepInv, OpenSlots, OnWay
  <2>4. OneToken'
    BY <1>1, <2>1 DEF KeepInv, OneToken, SourceSent, Awaits
  <2> QED
    BY <1>2, <2>2, <2>3, <2>4 DEF KeepInv
<1>4. CASE UNCHANGED <<toWorker, worker, wreader, jobs>>
  <2>1. Ended' /\ Gates' /\ MoveLast' /\ CleanSwitch'
    BY <1>4 DEF KeepInv, Ended, Gates, MoveLast, CleanSwitch
  <2>2. OpenSlots'
    BY <1>4 DEF KeepInv, OpenSlots, OnWay
  <2>3. OneToken'
    BY <1>1, <1>4 DEF KeepInv, OneToken, SourceSent, Awaits
  <2>4. MoveHeld'
    BY <1>1, <1>4 DEF KeepInv, MoveHeld, Moving, Awaits
  <2> QED
    BY <1>2, <2>1, <2>2, <2>3, <2>4 DEF KeepInv
<1> QED
  BY <1>3, <1>4

---------------------------------------------------------------------------
\* While a move is under way, no other request is past the gate's door.
LEMMA MoveAlone ==
  ASSUME Known, NEW q \in Requests, Switches(q), pc[q] \in Inside \ {"open", "send"}
  PROVE  \A r \in Requests : pc[r] \notin {"open", "send"}
<1> SUFFICES ASSUME NEW r \in Requests, pc[r] \in {"open", "send"} PROVE FALSE
  OBVIOUS
<1>1. CASE Switches(r)
  BY <1>1, Together DEF Inside
<1>2. CASE ~Switches(r)
  BY <1>2 DEF Known, KeepInv, Gates
<1> QED
  BY <1>1, <1>2

\* A request is written.
LEMMA SendStep ==
  ASSUME Known, TypeOK', NEW r \in Requests, SendRequest(r)
  PROVE  KeepInv'
<1> USE DEF Known, requestVars, gateVars, turnVars, workerVars, Goto
<1> DEFINE e == Frame(r, "request")
<1>1. /\ pc[r] = "send" /\ worker # "dead" /\ toWorker' = Append(toWorker, e) /\ sending' = sending \ {r}
      /\ pc' = [pc EXCEPT ![r] = "enter"]
      /\ UNCHANGED <<requestVars, exclusive, turnVars, closer, toClient, workerVars>>
  BY DEF SendRequest, WorkerUp
<1>2. e \in Frames /\ e.kind = "request" /\ e.stream = r
  BY DEF Frame, Frames
<1> HIDE DEF e
<1>3. /\ \A i \in DOMAIN toWorker : i \in DOMAIN toWorker' /\ toWorker'[i] = toWorker[i]
      /\ \A i \in DOMAIN toWorker' :
           \/ i \in DOMAIN toWorker /\ toWorker'[i] = toWorker[i]
           \/ i = Len(toWorker) + 1 /\ i \notin DOMAIN toWorker /\ toWorker'[i] = e
      /\ \A i \in DOMAIN toWorker : i \in Nat /\ i <= Len(toWorker)
  BY <1>1, <1>2, AddedFrame DEF AnswerInv, TypeOK
<1>4. pc' \in [Requests -> Labels] /\ pc'[r] = "enter" /\ \A q \in Requests \ {r} : pc'[q] = pc[q]
  BY <1>1 DEF AnswerInv, TypeOK
<1>5. worker \notin {"reexec", "stub"}
  <2>1. \A q \in Requests : Moving(q) => Switches(q) /\ pc[q] \in Inside \ {"open", "send"}
    BY DEF Moving, Awaits, Inside, Waits
  <2> QED
    BY <1>1, <2>1, MoveAlone DEF KeepInv, MoveHeld
<1>6. \A q \in Requests : OnWay(q) => ~Switches(q)
  BY <1>1, MoveAlone, Together DEF Inside, Waits
<1>7. slot[r] = "open"
  <2>1. slot[r] \notin {"ok", "refused"} /\ slot[r] # "none" /\ slot[r] # "error"
    BY <1>1, Together DEF TurnInv, SlotHeld, KeepInv, Ended, Unsent
  <2> QED
    BY <2>1 DEF AnswerInv, TypeOK
<1>8. Ended'
  BY <1>1, <1>4 DEF KeepInv, Ended
<1>9. OpenSlots'
  <2>1. \A q \in Requests : OnWay(q)' => OnWay(q) \/ q = r
    BY <1>1, <1>2, <1>3 DEF OnWay
  <2> QED
    BY <1>1, <1>4, <1>7, <2>1 DEF KeepInv, OpenSlots, Waits
<1>10. Gates'
  <2>1. ASSUME NEW p \in Requests, NEW q \in Requests, Switches(p), pc'[p] \in Inside, ~Switches(q)
        PROVE  pc'[q] \notin {"open", "send"}
    BY <1>1, <1>4, <2>1 DEF KeepInv, Gates, Inside
  <2>2. \A q \in Requests : ~Switches(q) /\ pc'[q] \in {"open", "send"} => q \in sending'
    BY <1>1, <1>4 DEF KeepInv, Gates
  <2>3. \A q \in Requests : Switches(q) /\ pc'[q] \in Inside \cup {"clear"} => exclusive' = q
    BY <1>1, <1>4 DEF KeepInv, Gates, Inside
  <2>4. \A q \in Requests : stage'[q] = "hello" \/ pc'[q] \in {"clear", "source"} => Switches(q)
    BY <1>1, <1>4 DEF KeepInv, Gates
  <2> QED
    BY <2>1, <2>2, <2>3, <2>4 DEF Gates
<1>11. MoveLast'
  <2>1. \A i \in DOMAIN toWorker : toWorker[i].kind = "request" => ~Switches(toWorker[i].stream)
    BY <1>6, InPipes DEF OnWay, AnswerInv
  <2>2. \A i \in DOMAIN jobs : jobs[i] \in Requests => ~Switches(jobs[i])
    BY <1>6 DEF OnWay
  <2>3. \A i \in DOMAIN toWorker' : i <= Len(toWorker) + 1
    <3>1. Len(toWorker) \in Nat
      BY LenProperties DEF AnswerInv, TypeOK
    <3> QED
      BY <1>3, <3>1
  <2>4. \A i, j \in DOMAIN toWorker' :
          toWorker'[i].kind = "request" /\ Switches(toWorker'[i].stream) /\ toWorker'[j].kind = "request" => j <= i
    BY <1>3, <2>1, <2>3
  <2> QED
    BY <1>1, <1>2, <1>3, <2>2, <2>4 DEF KeepInv, MoveLast
<1>12. OneToken'
  <2>1. SourceSent' = SourceSent /\ HelloSent' = HelloSent
    BY <1>1, <1>2, <1>3 DEF SourceSent, HelloSent
  <2>2. \A q \in Requests : Awaits(q) => Awaits(q)'
    BY <1>1, <1>4 DEF Awaits, Waits
  <2>3. \A i, j \in DOMAIN toWorker' : toWorker'[i].kind = "source" /\ toWorker'[j].kind = "source" => i = j
    BY <1>2, <1>3 DEF KeepInv, OneToken
  <2> QED
    BY <1>1, <1>4, <2>1, <2>2, <2>3 DEF KeepInv, OneToken
<1>13. MoveHeld' /\ CleanSwitch'
  BY <1>1, <1>5 DEF MoveHeld, CleanSwitch
<1>14. ReplyKept'
  BY <1>1, <1>4 DEF KeepInv, ReplyKept
<1> QED
  BY <1>8, <1>9, <1>10, <1>11, <1>12, <1>13, <1>14 DEF KeepInv

\* The source of the worker is sent, or the shutdown frame: neither is a request.
LEMMA SourceStep ==
  ASSUME Known, TypeOK', NEW r \in Requests, SendSource(r)
  PROVE  KeepInv'
<1> USE DEF Known, requestVars, gateVars, turnVars, workerVars, Goto
<1> DEFINE e == Frame(None, "source")
<1>1. /\ pc[r] = "source" /\ pc' = [pc EXCEPT ![r] = "enter"] /\ stage' = [stage EXCEPT ![r] = "hello"]
      /\ (toWorker' = Append(toWorker, e) /\ WorkerUp) \/ toWorker' = toWorker
      /\ UNCHANGED <<slot, result, gateVars, turnVars, closer, toClient, workerVars>>
  BY DEF SendSource
<1>2. e \in Frames /\ e.kind = "source"
  BY DEF Frame, Frames
<1> HIDE DEF e
<1>3. /\ \A i \in DOMAIN toWorker' :
           \/ i \in DOMAIN toWorker /\ toWorker'[i] = toWorker[i]
           \/ i \notin DOMAIN toWorker /\ i = Len(toWorker) + 1 /\ toWorker'[i] = e /\ WorkerUp
      /\ \A i \in DOMAIN toWorker : i \in DOMAIN toWorker' /\ toWorker'[i] = toWorker[i]
      /\ toWorker' = toWorker \/ WorkerUp
  <2>1. CASE toWorker' = Append(toWorker, e) /\ WorkerUp
    <3>1. toWorker \in Seq(Frames)
      BY DEF AnswerInv, TypeOK
    <3>2. /\ \A i \in DOMAIN toWorker : i \in DOMAIN toWorker' /\ toWorker'[i] = toWorker[i]
          /\ \A i \in DOMAIN toWorker' :
               \/ i \in DOMAIN toWorker /\ toWorker'[i] = toWorker[i]
               \/ i = Len(toWorker) + 1 /\ i \notin DOMAIN toWorker /\ toWorker'[i] = e
      BY <1>2, <2>1, <3>1, AddedFrame
    <3> QED
      BY <2>1, <3>2
  <2>2. CASE toWorker' = toWorker
    BY <2>2
  <2> QED
    BY <1>1, <2>1, <2>2
<1>4. /\ pc' \in [Requests -> Labels] /\ pc'[r] = "enter" /\ \A q \in Requests \ {r} : pc'[q] = pc[q]
      /\ stage'[r] = "hello" /\ \A q \in Requests \ {r} : stage'[q] = stage[q]
  BY <1>1 DEF AnswerInv, TypeOK
<1>5. Switches(r) /\ ~hello /\ slot[r] = "ok" /\ served[r] = 1
  BY <1>1 DEF KeepInv, Gates, OneToken, AnswerInv, Own
<1>6. \A q \in Requests : Awaits(q) \/ Moving(q) => q = r /\ ~Awaits(q)
  BY <1>1, <1>5, Together DEF Awaits, Moving, Inside, Waits
<1>7. Awaits(r)'
  BY <1>1, <1>4, <1>5 DEF Awaits, Waits, Switches
<1>8. ~SourceSent /\ ~HelloSent
  BY <1>6 DEF KeepInv, OneToken
<1>9. Ended'
  BY <1>1, <1>3, <1>4 DEF KeepInv, Ended, WorkerUp
<1>10. OpenSlots'
  <2>1. \A q \in Requests : OnWay(q)' => OnWay(q)
    BY <1>1, <1>2, <1>3 DEF OnWay
  <2> QED
    BY <1>1, <1>4, <1>5, <2>1 DEF KeepInv, OpenSlots, Waits
<1>11. Gates'
  BY <1>1, <1>4, <1>5 DEF KeepInv, Gates, Inside, Waits
<1>12. MoveLast'
  BY <1>1, <1>2, <1>3 DEF KeepInv, MoveLast
<1>13. OneToken'
  <2>1. ~HelloSent'
    BY <1>1, <1>8 DEF HelloSent
  <2>2. \A i, j \in DOMAIN toWorker' : toWorker'[i].kind = "source" /\ toWorker'[j].kind = "source" => i = j
    BY <1>2, <1>3, <1>8 DEF SourceSent
  <2>3. \A i, j \in DOMAIN toClient' : toClient'[i].kind = "hello" /\ toClient'[j].kind = "hello" => i = j
    BY <1>1 DEF KeepInv, OneToken
  <2> QED
    BY <1>1, <1>5, <1>7, <2>1, <2>2, <2>3 DEF OneToken
<1>14. MoveHeld'
  <2>1. Moving(r)'
    BY <1>1, <1>5, <1>7 DEF Moving
  <2>2. ~HelloSent'
    BY <1>1, <1>8 DEF HelloSent
  <2> QED
    BY <2>1, <2>2 DEF MoveHeld
<1>15. CleanSwitch'
  BY <1>1, <1>2, <1>3 DEF KeepInv, CleanSwitch
<1>16. ReplyKept'
  BY <1>1, <1>4 DEF KeepInv, ReplyKept
<1> QED
  BY <1>9, <1>10, <1>11, <1>12, <1>13, <1>14, <1>15, <1>16 DEF KeepInv

LEMMA ShutdownStep ==
  ASSUME Known, TypeOK', CloseInput
  PROVE  KeepInv'
<1> USE DEF Known, requestVars, gateVars, turnVars, workerVars
<1> DEFINE e == Frame(None, "shutdown")
<1>1. /\ (toWorker' = Append(toWorker, e) /\ WorkerUp) \/ toWorker' = toWorker
      /\ closer' = "waiting" /\ UNCHANGED <<pc, requestVars, gateVars, turnVars, toClient, workerVars>>
  BY DEF CloseInput
<1>2. e \in Frames /\ e.kind = "shutdown"
  BY DEF Frame, Frames
<1> HIDE DEF e
<1>3. /\ \A i \in DOMAIN toWorker' :
           \/ i \in DOMAIN toWorker /\ toWorker'[i] = toWorker[i]
           \/ toWorker'[i] = e
      /\ \A i \in DOMAIN toWorker : i \in DOMAIN toWorker' /\ toWorker'[i] = toWorker[i]
      /\ toWorker' = toWorker \/ WorkerUp
  <2>1. CASE toWorker' = Append(toWorker, e) /\ WorkerUp
    BY <1>2, <2>1, AddedFrame DEF AnswerInv, TypeOK
  <2>2. CASE toWorker' = toWorker
    BY <2>2
  <2> QED
    BY <1>1, <2>1, <2>2
<1>4. Ended'
  BY <1>1, <1>3 DEF KeepInv, Ended, WorkerUp
<1>5. OpenSlots'
  <2>1. \A q \in Requests : OnWay(q)' => OnWay(q)
    BY <1>1, <1>2, <1>3 DEF OnWay
  <2> QED
    BY <1>1, <2>1 DEF KeepInv, OpenSlots
<1>6. Gates'
  BY <1>1 DEF KeepInv, Gates
<1>7. MoveLast'
  BY <1>1, <1>2, <1>3 DEF KeepInv, MoveLast
<1>8. SourceSent' = SourceSent /\ HelloSent' = HelloSent
  BY <1>1, <1>2, <1>3 DEF SourceSent, HelloSent
<1>9. \A q \in Requests : Awaits(q)' = Awaits(q) /\ Moving(q)' = Moving(q)
  BY <1>1 DEF Awaits, Moving
<1>10. OneToken'
  BY <1>1, <1>2, <1>3, <1>8, <1>9 DEF KeepInv, OneToken
<1>11. MoveHeld'
  BY <1>1, <1>8, <1>9 DEF KeepInv, MoveHeld
<1>12. CleanSwitch'
  BY <1>1, <1>2, <1>3 DEF KeepInv, CleanSwitch
<1>13. ReplyKept'
  BY <1>1 DEF KeepInv, ReplyKept
<1> QED
  BY <1>4, <1>5, <1>6, <1>7, <1>10, <1>11, <1>12, <1>13 DEF KeepInv

---------------------------------------------------------------------------
\* A frame is read: a reply fills its slot, the hello is set, and _drain only takes.
LEMMA ReplyStep ==
  ASSUME Known, TypeOK', NEW r \in Requests, PumpReply(r)
  PROVE  KeepInv'
<1> USE DEF Known, requestVars, gateVars, turnVars, workerVars, GotoNotify
<1> DEFINE s == toClient[1].stream
           kind == toClient[1].kind
<1>1. /\ pc[r] = "read" /\ toClient # <<>> /\ toClient' = Tail(toClient)
      /\ 1 \in DOMAIN toClient /\ kind \in {"ok", "refused"} /\ s \in Requests
      /\ slot' = [slot EXCEPT ![s] = IF @ = "open" THEN kind ELSE @]
      /\ UNCHANGED <<stage, result, watchdog, gateVars, turnVars, closer, toWorker, workerVars>>
  BY TakenFrame, InPipes DEF PumpReply, Deliver, AnswerInv, TypeOK
<1>2. /\ \A i \in DOMAIN toClient' : i \in Nat /\ i # 0 /\ i + 1 \in DOMAIN toClient /\ toClient'[i] = toClient[i + 1]
      /\ \A i \in DOMAIN toClient : i # 1 => i - 1 \in DOMAIN toClient' /\ toClient'[i - 1] = toClient[i]
  BY <1>1, TakenFrame DEF AnswerInv, TypeOK
<1>3. /\ pc' \in [Requests -> Labels] /\ pc'[r] = "check"
      /\ \A q \in Requests \ {r} : pc'[q] = pc[q] \/ (pc[q] = "asleep" /\ pc'[q] = "enter")
  BY DEF PumpReply, AnswerInv, TypeOK
<1>4. ~failure /\ served[s] = 1
  BY <1>1 DEF KeepInv, Ended, AnswerInv, Own
<1>5. slot[s] \in {"open", "ok", "refused"}
  BY <1>1, <1>4 DEF KeepInv, Ended, OpenSlots, AnswerInv, TypeOK
<1>6. \A q \in Requests : slot'[q] = slot[q] \/ (q = s /\ slot[q] = "open" /\ slot'[q] = kind)
  BY <1>1 DEF AnswerInv, TypeOK
<1>7. \A q \in Requests : (pc[q] \in Waits <=> pc'[q] \in Waits) /\ (pc[q] \notin Waits => pc'[q] = pc[q])
  BY <1>1, <1>3 DEF Waits
<1>8. \A q \in Requests : OnWay(q)' = OnWay(q)
  BY <1>1 DEF OnWay
<1>9. \A q \in Requests : OnWay(q) => q # s
  BY <1>4, <1>1 DEF AnswerInv, Once, OnWay
<1> HIDE DEF s, kind
<1>10. Ended'
  BY <1>1, <1>3, <1>4, <1>6 DEF KeepInv, Ended
<1>11. OpenSlots'
  <2>1. \A q \in Requests : slot'[q] = "open" => pc'[q] \in Waits \cup {"send"}
    BY <1>1, <1>6, <1>7 DEF KeepInv, OpenSlots
  <2>2. \A q \in Requests : slot'[q] = "none" => served'[q] = 0
    BY <1>1, <1>6 DEF KeepInv, OpenSlots
  <2>3. \A q \in Requests : OnWay(q)' => slot'[q] = "open"
    BY <1>6, <1>8, <1>9 DEF KeepInv, OpenSlots
  <2>4. \A q \in Requests : slot'[q] \in {"ok", "refused"} /\ pc'[q] = "done" /\ ~Switches(q) =>
          result'[q] \in {"value", "refused"}
    BY <1>1, <1>6, <1>7 DEF KeepInv, OpenSlots, Waits
  <2> QED
    BY <2>1, <2>2, <2>3, <2>4 DEF OpenSlots
<1>12. Gates'
  BY <1>1, <1>7, WaitGates DEF KeepInv, Waits
<1>13. MoveLast'
  BY <1>1, <1>2 DEF KeepInv, MoveLast
<1>14. \A q \in Requests : Awaits(q)' = Awaits(q)
  BY <1>1, <1>7 DEF Awaits
<1>15. HelloSent' => HelloSent
  BY <1>2 DEF HelloSent
<1>16. OneToken'
  <2>1. SourceSent' = SourceSent
    BY <1>1 DEF SourceSent
  <2>2. \A i, j \in DOMAIN toClient' : toClient'[i].kind = "hello" /\ toClient'[j].kind = "hello" => i = j
    BY <1>2 DEF KeepInv, OneToken
  <2> QED
    BY <1>1, <1>7, <1>14, <1>15, <2>1, <2>2 DEF KeepInv, OneToken, Waits
<1>17. MoveHeld'
  <2>1. \A q \in Requests : Moving(q) => Moving(q)'
    <3> SUFFICES ASSUME NEW q \in Requests, Moving(q) PROVE Moving(q)'
      OBVIOUS
    <3>1. CASE Awaits(q) \/ pc[q] = "source"
      BY <1>1, <1>7, <1>14, <3>1 DEF Moving, Waits
    <3>2. CASE ~(Awaits(q) \/ pc[q] = "source")
      <4>1. /\ stage[q] = "reply" /\ pc[q] \in Waits \cup {"quit", "result"} /\ slot[q] \in {"open", "ok"}
            /\ \A i \in DOMAIN toClient : toClient[i].stream = q => toClient[i].kind = "ok"
        BY <3>2 DEF Moving
      <4>2. slot'[q] \in {"open", "ok"}
        BY <1>1, <1>6, <4>1 DEF s, kind
      <4>3. \A i \in DOMAIN toClient' : toClient'[i].stream = q => toClient'[i].kind = "ok"
        BY <1>2, <4>1
      <4>4. pc'[q] \in Waits \cup {"quit", "result"}
        BY <1>7, <4>1
      <4> QED
        BY <1>1, <4>1, <4>2, <4>3, <4>4 DEF Moving
    <3> QED
      BY <3>1, <3>2
  <2> QED
    BY <1>1, <1>15, <2>1 DEF KeepInv, MoveHeld
<1>18. CleanSwitch'
  BY <1>1 DEF KeepInv, CleanSwitch
<1>19. ReplyKept'
  <2> SUFFICES ASSUME NEW q \in Requests, served[q] > 0, closer = "open", ~(Switches(q) /\ pc[q] = "done")
               PROVE  \/ \E i \in DOMAIN toClient' : toClient'[i].stream = q
                      \/ slot'[q] \in {"ok", "refused"} /\ (pc'[q] = "done" => result'[q] \in {"value", "refused"})
    BY <1>1, <1>7 DEF ReplyKept, Waits
  <2>1. CASE slot[q] \in {"ok", "refused"}
    BY <1>1, <1>6, <1>7, <1>11, <2>1 DEF KeepInv, OpenSlots, Waits
  <2>2. CASE q = s /\ slot[q] = "open"
    <3>1. slot'[q] = kind
      BY <1>1, <2>2 DEF AnswerInv, TypeOK
    <3>2. pc'[q] # "done"
      BY <1>7, <2>2 DEF KeepInv, OpenSlots, Waits
    <3> QED
      BY <1>1, <3>1, <3>2
  <2>3. CASE q # s /\ slot[q] \notin {"ok", "refused"}
    <3>1. PICK i \in DOMAIN toClient : toClient[i].stream = q
      BY <2>3 DEF KeepInv, ReplyKept
    <3> QED
      BY <1>2, <2>3, <3>1 DEF s
  <2> QED
    BY <1>5, <2>1, <2>2, <2>3
<1> QED
  BY <1>10, <1>11, <1>12, <1>13, <1>16, <1>17, <1>18, <1>19 DEF KeepInv


LEMMA HelloStep ==
  ASSUME Known, TypeOK', NEW r \in Requests, PumpHello(r)
  PROVE  KeepInv'
<1> USE DEF Known, requestVars, gateVars, turnVars, workerVars, GotoNotify
<1>1. /\ pc[r] = "read" /\ toClient # <<>> /\ toClient' = Tail(toClient)
      /\ 1 \in DOMAIN toClient /\ toClient[1].kind = "hello" /\ hello'
      /\ UNCHANGED <<requestVars, gateVars, reading, failure, closer, toWorker, workerVars>>
  BY TakenFrame DEF PumpHello, AnswerInv, TypeOK
<1>2. /\ \A i \in DOMAIN toClient' : i \in Nat /\ i # 0 /\ i + 1 \in DOMAIN toClient /\ toClient'[i] = toClient[i + 1]
      /\ \A i \in DOMAIN toClient : i # 1 => i - 1 \in DOMAIN toClient' /\ toClient'[i - 1] = toClient[i]
  BY <1>1, TakenFrame DEF AnswerInv, TypeOK
<1>3. /\ pc' \in [Requests -> Labels] /\ pc'[r] = "check"
      /\ \A q \in Requests \ {r} : pc'[q] = pc[q] \/ (pc[q] = "asleep" /\ pc'[q] = "enter")
  BY DEF PumpHello, AnswerInv, TypeOK
<1>4. HelloSent /\ ~SourceSent /\ ~failure
  BY <1>1 DEF HelloSent, KeepInv, OneToken, Ended
<1>5. \A q \in Requests : (pc[q] \in Waits <=> pc'[q] \in Waits) /\ (pc[q] \notin Waits => pc'[q] = pc[q])
  BY <1>1, <1>3 DEF Waits
<1>6. worker \notin {"reexec", "stub"}
  BY <1>4 DEF KeepInv, MoveHeld
<1>7. Ended'
  BY <1>1, <1>3, <1>4 DEF KeepInv, Ended
<1>8. OpenSlots'
  BY <1>1, <1>5 DEF KeepInv, OpenSlots, OnWay, Waits
<1>9. Gates'
  BY <1>1, <1>5, WaitGates DEF KeepInv, Waits
<1>10. MoveLast'
  BY <1>1, <1>2 DEF KeepInv, MoveLast
<1>11. OneToken'
  <2>1. ~HelloSent'
    <3>1. \A i \in DOMAIN toClient : toClient[i].kind = "hello" => i = 1
      BY <1>1 DEF KeepInv, OneToken
    <3> QED
      BY <1>2, <3>1 DEF HelloSent
  <2>2. ~SourceSent'
    BY <1>1, <1>4 DEF SourceSent
  <2>3. \A q \in Requests : pc'[q] # "source"
    <3> SUFFICES ASSUME NEW q \in Requests, pc'[q] = "source" PROVE FALSE
      OBVIOUS
    <3>1. pc[q] = "source"
      BY <1>5 DEF Waits
    <3>2. PICK p \in Requests : Awaits(p)
      BY <1>4 DEF KeepInv, OneToken
    <3>3. p = q
      BY <3>1, <3>2, Together DEF Awaits, Inside, KeepInv, Gates
    <3> QED
      BY <3>1, <3>2, <3>3 DEF Awaits, Waits
  <2> QED
    BY <1>1, <2>1, <2>2, <2>3 DEF KeepInv, OneToken, HelloSent, SourceSent
<1>12. MoveHeld' /\ CleanSwitch'
  BY <1>1, <1>6 DEF MoveHeld, CleanSwitch
<1>13. ReplyKept'
  <2>1. \A i \in DOMAIN toClient : toClient[i].stream \in Requests => i # 1
    <3>1. toClient[1] \in Frames
      BY <1>1, ElementOfSeq, LenProperties DEF AnswerInv, TypeOK
    <3> QED
      BY <1>1, <3>1, RequestKinds DEF Frames
  <2>2. ASSUME NEW q \in Requests, NEW i \in DOMAIN toClient, toClient[i].stream = q
        PROVE  \E j \in DOMAIN toClient' : toClient'[j].stream = q
    BY <1>2, <2>1, <2>2
  <2> QED
    BY <1>1, <1>5, <2>2 DEF KeepInv, ReplyKept, Waits
<1> QED
  BY <1>7, <1>8, <1>9, <1>10, <1>11, <1>12, <1>13 DEF KeepInv

LEMMA DrainStep ==
  ASSUME Known, TypeOK', Drain
  PROVE  KeepInv'
<1> USE DEF Known, requestVars, gateVars, turnVars, workerVars
<1>1. /\ toClient # <<>> /\ toClient' = Tail(toClient) /\ closer # "open"
      /\ UNCHANGED <<pc, requestVars, gateVars, turnVars, closer, toWorker, workerVars>>
  BY DEF Drain
<1>2. \A i \in DOMAIN toClient' : i \in Nat /\ i # 0 /\ i + 1 \in DOMAIN toClient /\ toClient'[i] = toClient[i + 1]
  BY <1>1, TakenFrame DEF AnswerInv, TypeOK
<1>3. Ended'
  BY <1>1 DEF KeepInv, Ended
<1>4. OpenSlots'
  BY <1>1 DEF KeepInv, OpenSlots, OnWay
<1>5. Gates'
  BY <1>1 DEF KeepInv, Gates
<1>6. MoveLast'
  BY <1>1, <1>2 DEF KeepInv, MoveLast
<1>7. (HelloSent' => HelloSent) /\ SourceSent' = SourceSent /\ \A q \in Requests : Awaits(q)' = Awaits(q)
  BY <1>1, <1>2 DEF HelloSent, SourceSent, Awaits
<1>8. \A i, j \in DOMAIN toClient' : toClient'[i].kind = "hello" /\ toClient'[j].kind = "hello" => i = j
  BY <1>2 DEF KeepInv, OneToken
<1>9. OneToken'
  BY <1>1, <1>7, <1>8 DEF KeepInv, OneToken
<1>10. MoveHeld'
  <2>1. \A q \in Requests : Moving(q) => Moving(q)'
    BY <1>1, <1>2, <1>7 DEF Moving
  <2> QED
    BY <1>1, <1>7, <2>1 DEF KeepInv, MoveHeld
<1>11. CleanSwitch' /\ ReplyKept'
  BY <1>1 DEF KeepInv, CleanSwitch, ReplyKept
<1> QED
  BY <1>3, <1>4, <1>5, <1>6, <1>9, <1>10, <1>11 DEF KeepInv

---------------------------------------------------------------------------
\* The worker reads a frame into its jobs.
LEMMA ReadStep ==
  ASSUME Known, TypeOK', ReadJob \/ ReadEnd
  PROVE  KeepInv'
<1> USE DEF Known, requestVars, gateVars, turnVars
<1>1. /\ wreader /\ toWorker # <<>> /\ toWorker' = Tail(toWorker) /\ 1 \in DOMAIN toWorker
      /\ toWorker[1] = Head(toWorker)
      /\ UNCHANGED <<pc, requestVars, gateVars, turnVars, closer, toClient, worker, served>>
  BY TakenFrame DEF ReadJob, ReadEnd, Reads, AnswerInv, TypeOK
<1>2. \A i \in DOMAIN toWorker' : i \in Nat /\ i # 0 /\ i + 1 \in DOMAIN toWorker /\ toWorker'[i] = toWorker[i + 1]
  BY <1>1, TakenFrame DEF AnswerInv, TypeOK
<1>3. worker = "serve" /\ ~failure
  BY <1>1 DEF KeepInv, Ended
<1>4. PICK e \in Requests \cup {None} :
        /\ jobs' = Append(jobs, e)
        /\ e # None => toWorker[1].kind = "request" /\ toWorker[1].stream = e
        /\ e = None \/ Switches(e) => ~wreader'
  <2>1. CASE ReadJob
    <3>1. toWorker[1].kind = "request" /\ toWorker[1].stream \in Requests
      BY <1>1, <2>1, InPipes DEF ReadJob, Reads, AnswerInv
    <3> QED
      BY <1>1, <2>1, <3>1, RequestKinds DEF ReadJob
  <2>2. CASE ReadEnd
    BY <2>2, RequestKinds DEF ReadEnd
  <2> QED
    BY <2>1, <2>2
<1>5. /\ \A i \in DOMAIN jobs' :
           \/ i \in DOMAIN jobs /\ jobs'[i] = jobs[i]
           \/ i = Len(jobs') /\ jobs'[i] = e
  BY <1>4, AppendAt, AppendProperties DEF AnswerInv, TypeOK
<1>6. Ended'
  BY <1>1, <1>3 DEF KeepInv, Ended
<1>7. OpenSlots'
  <2>1. ASSUME NEW q \in Requests, OnWay(q)' PROVE OnWay(q)
    BY <1>1, <1>2, <1>4, <1>5, <2>1, RequestKinds DEF OnWay
  <2> QED
    BY <1>1, <2>1 DEF KeepInv, OpenSlots
<1>8. Gates'
  BY <1>1 DEF KeepInv, Gates
<1>9. MoveLast'
  <2>1. \A i \in DOMAIN jobs : jobs[i] \in Requests => ~Switches(jobs[i])
    BY <1>1 DEF KeepInv, MoveLast
  <2>2. ASSUME e \in Requests, Switches(e), NEW k \in DOMAIN toWorker' PROVE toWorker'[k].kind # "request"
    <3>1. k \in Nat /\ k # 0 /\ k + 1 \in DOMAIN toWorker /\ toWorker'[k] = toWorker[k + 1]
      BY <1>2
    <3>2. toWorker[k + 1].kind = "request" => k + 1 <= 1
      BY <1>1, <1>4, <2>2, <3>1, RequestKinds DEF KeepInv, MoveLast
    <3> QED
      BY <3>1, <3>2
  <2>3. \A i \in DOMAIN jobs' : jobs'[i] \in Requests /\ Switches(jobs'[i]) =>
          i = Len(jobs') /\ ~wreader' /\ \A k \in DOMAIN toWorker' : toWorker'[k].kind # "request"
    BY <1>4, <1>5, <2>1, <2>2
  <2>4. \A i, k \in DOMAIN toWorker' :
          toWorker'[i].kind = "request" /\ Switches(toWorker'[i].stream) /\ toWorker'[k].kind = "request" => k <= i
    <3> SUFFICES ASSUME NEW i \in DOMAIN toWorker', NEW k \in DOMAIN toWorker',
                        toWorker[i + 1].kind = "request", Switches(toWorker[i + 1].stream), toWorker[k + 1].kind = "request"
                 PROVE  k <= i
      BY <1>2
    <3>1. k + 1 <= i + 1
      BY <1>2 DEF KeepInv, MoveLast
    <3> QED
      BY <1>2, <3>1
  <2> QED
    BY <1>1, <1>2, <2>3, <2>4 DEF KeepInv, MoveLast
<1>10. OneToken'
  <2>1. (SourceSent' => SourceSent) /\ HelloSent' = HelloSent /\ \A q \in Requests : Awaits(q)' = Awaits(q)
    BY <1>1, <1>2 DEF HelloSent, SourceSent, Awaits
  <2>2. \A i, k \in DOMAIN toWorker' : toWorker'[i].kind = "source" /\ toWorker'[k].kind = "source" => i = k
    <3> SUFFICES ASSUME NEW i \in DOMAIN toWorker', NEW k \in DOMAIN toWorker',
                        toWorker[i + 1].kind = "source", toWorker[k + 1].kind = "source"
                 PROVE  i = k
      BY <1>2
    <3>1. i + 1 = k + 1
      BY <1>2 DEF KeepInv, OneToken
    <3> QED
      BY <1>2, <3>1
  <2> QED
    BY <1>1, <2>1, <2>2 DEF KeepInv, OneToken
<1>11. MoveHeld' /\ CleanSwitch'
  BY <1>1, <1>3 DEF MoveHeld, CleanSwitch
<1>12. ReplyKept'
  BY <1>1 DEF KeepInv, ReplyKept
<1> QED
  BY <1>6, <1>7, <1>8, <1>9, <1>10, <1>11, <1>12 DEF KeepInv

---------------------------------------------------------------------------
\* The worker answers a request that was on its way.
LEMMA AnswerPart ==
  ASSUME Known, TypeOK', NEW r \in Requests, NEW kind \in {"ok", "refused"}, OnWay(r), served[r] = 0, Answer(r, kind),
         UNCHANGED <<pc, requestVars, gateVars, turnVars, closer>>,
         \A q \in Requests : OnWay(q)' => OnWay(q)
  PROVE  /\ OpenSlots' /\ Gates' /\ ReplyKept' /\ HelloSent' = HelloSent
         /\ \A i \in DOMAIN toClient' : toClient'[i].kind \in {"ok", "refused", "hello"}
         /\ \A i, j \in DOMAIN toClient' : toClient'[i].kind = "hello" /\ toClient'[j].kind = "hello" => i = j
         /\ \A q \in Requests : Awaits(q)' = Awaits(q)
         /\ slot'[r] = "open" /\ served'[r] = 1 /\ stage'[r] = "reply" /\ pc'[r] \in Waits /\ ~failure'
         /\ \A i \in DOMAIN toClient' : toClient'[i].stream = r => toClient'[i].kind = kind
<1> USE DEF Known, requestVars, gateVars, turnVars
<1> DEFINE e == Frame(r, kind)
<1>1. e \in Frames /\ e.stream = r /\ e.kind = kind /\ toClient' = Append(toClient, e)
  BY DEF Frame, Frames, Answer
<1> HIDE DEF e
<1>2. /\ \A i \in DOMAIN toClient : i \in DOMAIN toClient' /\ toClient'[i] = toClient[i]
      /\ Len(toClient) + 1 \in DOMAIN toClient' /\ toClient'[Len(toClient) + 1] = e
      /\ \A i \in DOMAIN toClient' :
           \/ i \in DOMAIN toClient /\ toClient'[i] = toClient[i]
           \/ i = Len(toClient) + 1 /\ i \notin DOMAIN toClient /\ toClient'[i] = e
  BY <1>1, AddedFrame DEF AnswerInv, TypeOK
<1>3. served' \in [Requests -> Nat] /\ served'[r] = 1 /\ \A q \in Requests \ {r} : served'[q] = served[q]
  BY DEF Answer, AnswerInv, TypeOK
<1>4. slot[r] = "open" /\ stage[r] = "reply" /\ pc[r] \in Waits /\ ~failure
  BY Together DEF KeepInv, OpenSlots
<1>5. OpenSlots'
  BY <1>3, <1>4 DEF KeepInv, OpenSlots
<1>6. Gates'
  BY DEF KeepInv, Gates
<1>7. ReplyKept'
  <2> SUFFICES ASSUME NEW q \in Requests, served'[q] > 0, closer = "open", ~(Switches(q) /\ pc[q] = "done")
               PROVE  \/ \E i \in DOMAIN toClient' : toClient'[i].stream = q
                      \/ slot[q] \in {"ok", "refused"} /\ (pc[q] = "done" => result[q] \in {"value", "refused"})
    BY DEF ReplyKept
  <2>1. CASE q = r
    BY <1>1, <1>2, <2>1
  <2>2. CASE q # r
    BY <1>2, <1>3, <2>2 DEF KeepInv, ReplyKept
  <2> QED
    BY <2>1, <2>2
<1>8. HelloSent' = HelloSent
  BY <1>1, <1>2 DEF HelloSent
<1>9. /\ \A i \in DOMAIN toClient' : toClient'[i].kind \in {"ok", "refused", "hello"}
      /\ \A i, j \in DOMAIN toClient' : toClient'[i].kind = "hello" /\ toClient'[j].kind = "hello" => i = j
  BY <1>1, <1>2 DEF KeepInv, MoveLast, OneToken
<1>10. \A q \in Requests : Awaits(q)' = Awaits(q)
  BY DEF Awaits
<1>11. \A i \in DOMAIN toClient : toClient[i].stream # r
  <2> SUFFICES ASSUME NEW i \in DOMAIN toClient, toClient[i].stream = r PROVE FALSE
    OBVIOUS
  <2>1. toClient[i] \in Frames
    BY ElementOfSeq, LenProperties DEF AnswerInv, TypeOK
  <2>2. toClient[i].kind \in {"ok", "refused"}
    BY <2>1, RequestKinds DEF Frames, KeepInv, MoveLast
  <2> QED
    BY <2>2 DEF AnswerInv, Own
<1> QED
  BY <1>1, <1>2, <1>3, <1>4, <1>5, <1>6, <1>7, <1>8, <1>9, <1>10, <1>11

LEMMA LightStep ==
  ASSUME Known, TypeOK', ReadLight
  PROVE  KeepInv'
<1> USE DEF Known
<1> DEFINE r == Head(toWorker).stream
<1>1. /\ wreader /\ toWorker # <<>> /\ toWorker' = Tail(toWorker) /\ 1 \in DOMAIN toWorker
      /\ toWorker[1] = Head(toWorker) /\ toWorker[1].kind = "request"
      /\ UNCHANGED <<pc, requestVars, gateVars, turnVars, closer, worker, wreader, jobs>>
  BY TakenFrame DEF ReadLight, Reads, AnswerInv, TypeOK
<1>2. \A i \in DOMAIN toWorker' : i \in Nat /\ i # 0 /\ i + 1 \in DOMAIN toWorker /\ toWorker'[i] = toWorker[i + 1]
  BY <1>1, TakenFrame DEF AnswerInv, TypeOK
<1>3. worker = "serve"
  BY <1>1 DEF KeepInv, Ended
<1>4. r \in Requests /\ OnWay(r) /\ served[r] = 0 /\ Answer(r, "ok")
  BY <1>1, InPipes DEF OnWay, ReadLight, AnswerInv, Once
<1> HIDE DEF r
<1>5. \A q \in Requests : OnWay(q)' => OnWay(q)
  BY <1>1, <1>2 DEF OnWay
<1>6. /\ OpenSlots' /\ Gates' /\ ReplyKept' /\ HelloSent' = HelloSent
      /\ \A i \in DOMAIN toClient' : toClient'[i].kind \in {"ok", "refused", "hello"}
      /\ \A i, j \in DOMAIN toClient' : toClient'[i].kind = "hello" /\ toClient'[j].kind = "hello" => i = j
      /\ \A q \in Requests : Awaits(q)' = Awaits(q)
  BY <1>1, <1>4, <1>5, AnswerPart
<1>7. Ended'
  BY <1>1, <1>3 DEF KeepInv, Ended, requestVars, turnVars
<1>8. MoveLast'
  <2>1. \A i \in DOMAIN toWorker' : toWorker'[i].kind \in {"request", "source", "shutdown"}
    BY <1>2 DEF KeepInv, MoveLast
  <2>2. \A i, j \in DOMAIN toWorker' :
          toWorker'[i].kind = "request" /\ Switches(toWorker'[i].stream) /\ toWorker'[j].kind = "request" => j <= i
    BY <1>2 DEF KeepInv, MoveLast
  <2>3. \A i \in DOMAIN jobs : jobs[i] \in Requests => ~Switches(jobs[i])
    BY <1>1 DEF KeepInv, MoveLast
  <2> QED
    BY <1>1, <1>6, <2>1, <2>2, <2>3 DEF MoveLast
<1>9. OneToken'
  <2>1. SourceSent' => SourceSent
    BY <1>2 DEF SourceSent
  <2>2. \A i, j \in DOMAIN toWorker' : toWorker'[i].kind = "source" /\ toWorker'[j].kind = "source" => i = j
    BY <1>2 DEF KeepInv, OneToken
  <2>3. \A q \in Requests : pc'[q] = "source" => ~hello'
    BY <1>1 DEF KeepInv, OneToken, turnVars
  <2> QED
    BY <1>6, <2>1, <2>2, <2>3 DEF KeepInv, OneToken
<1>10. MoveHeld' /\ CleanSwitch'
  BY <1>1, <1>3 DEF MoveHeld, CleanSwitch
<1> QED
  BY <1>6, <1>7, <1>8, <1>9, <1>10 DEF KeepInv

\* A job of the main thread: a request, or a move refused or begun.
LEMMA JobStep ==
  ASSUME Known, TypeOK', ServeJob \/ ReexecRefused \/ ReexecReplies
  PROVE  KeepInv'
<1> USE DEF Known
<1>1. PICK r \in Requests, kind \in {"ok", "refused"} :
        /\ NextJob(r) /\ Answer(r, kind) /\ jobs' = Tail(jobs)
        /\ (~Switches(r) /\ UNCHANGED <<worker, wreader>>)
           \/ (Switches(r) /\ worker' = worker /\ wreader')
           \/ (Switches(r) /\ worker' = "reexec" /\ kind = "ok" /\ UNCHANGED wreader)
  BY DEF ServeJob, ReexecRefused, ReexecReplies, Switches
<1>2. UNCHANGED <<pc, requestVars, gateVars, turnVars, closer, toWorker>>
  BY DEF ServeJob, ReexecRefused, ReexecReplies
<1>3. /\ 1 \in DOMAIN jobs /\ jobs[1] = r
      /\ \A i \in DOMAIN jobs' : i \in Nat /\ i # 0 /\ i + 1 \in DOMAIN jobs /\ jobs'[i] = jobs[i + 1]
  BY <1>1, TailAt DEF NextJob, AnswerInv, TypeOK
<1>4. worker = "serve" /\ OnWay(r) /\ served[r] = 0
  BY <1>1, <1>2, <1>3, JobOnce DEF NextJob, OnWay
<1>5. \A q \in Requests : OnWay(q)' => OnWay(q)
  BY <1>2, <1>3 DEF OnWay
<1>6. /\ OpenSlots' /\ Gates' /\ ReplyKept' /\ HelloSent' = HelloSent
      /\ \A i \in DOMAIN toClient' : toClient'[i].kind \in {"ok", "refused", "hello"}
      /\ \A i, j \in DOMAIN toClient' : toClient'[i].kind = "hello" /\ toClient'[j].kind = "hello" => i = j
      /\ \A q \in Requests : Awaits(q)' = Awaits(q)
      /\ slot'[r] = "open" /\ served'[r] = 1 /\ stage'[r] = "reply" /\ pc'[r] \in Waits /\ ~failure'
      /\ \A i \in DOMAIN toClient' : toClient'[i].stream = r => toClient'[i].kind = kind
  BY <1>1, <1>2, <1>4, <1>5, AnswerPart
<1>7. Len(jobs') = Len(jobs) - 1 /\ Len(jobs) \in Nat /\ jobs' \in Seq(Requests \cup {None}) /\ (Len(jobs) = 1 => jobs' = <<>>)
  <2>1. jobs \in Seq(Requests \cup {None}) /\ jobs # <<>>
    BY <1>1 DEF NextJob, AnswerInv, TypeOK
  <2> QED
    BY <1>1, <2>1, HeadTailProperties, LenProperties, EmptySeq
<1>8. Switches(r) => jobs' = <<>> /\ ~wreader /\ \A j \in DOMAIN toWorker : toWorker[j].kind # "request"
  BY <1>3, <1>7 DEF KeepInv, MoveLast
<1>9. \A i \in DOMAIN jobs' : jobs'[i] \in Requests /\ Switches(jobs'[i]) =>
        ~Switches(r) /\ i = Len(jobs') /\ ~wreader /\ \A j \in DOMAIN toWorker : toWorker[j].kind # "request"
  <2> SUFFICES ASSUME NEW i \in DOMAIN jobs', jobs'[i] \in Requests, Switches(jobs'[i])
               PROVE  ~Switches(r) /\ i = Len(jobs') /\ ~wreader /\ \A j \in DOMAIN toWorker : toWorker[j].kind # "request"
    OBVIOUS
  <2>1. i + 1 = Len(jobs) /\ ~wreader /\ \A j \in DOMAIN toWorker : toWorker[j].kind # "request"
    BY <1>3 DEF KeepInv, MoveLast
  <2>2. ~Switches(r)
    BY <1>8, EmptySeq, LenProperties
  <2> QED
    BY <1>3, <1>7, <2>1, <2>2
<1>10. Ended'
  BY <1>1, <1>2, <1>4, <1>6, <1>8 DEF KeepInv, Ended, requestVars, turnVars
<1>11. MoveLast'
  BY <1>1, <1>2, <1>6, <1>9 DEF KeepInv, MoveLast
<1>12. OneToken'
  <2>1. SourceSent' = SourceSent
    BY <1>2 DEF SourceSent
  <2> QED
    BY <1>2, <1>6, <2>1 DEF KeepInv, OneToken, turnVars
<1>13. MoveHeld'
  <2> SUFFICES ASSUME worker' = "reexec" PROVE ~HelloSent' /\ Moving(r)'
    BY <1>1, <1>4 DEF MoveHeld
  <2>1. Switches(r) /\ kind = "ok"
    BY <1>1, <1>4
  <2>2. Moving(r)'
    BY <1>6, <2>1 DEF Moving, Switches
  <2>3. ~HelloSent
    <3> SUFFICES ASSUME HelloSent PROVE FALSE
      OBVIOUS
    <3>1. PICK q \in Requests : Awaits(q)
      BY DEF KeepInv, OneToken
    <3>2. pc[r] \in Waits /\ stage[r] = "reply"
      BY <1>4, Together
    <3> QED
      BY <2>1, <3>1, <3>2, Together DEF Awaits, Inside
  <2> QED
    BY <1>6, <2>2, <2>3
<1>14. CleanSwitch'
  <2> SUFFICES ASSUME worker' = "reexec"
               PROVE  jobs' = <<>> /\ \A i \in DOMAIN toWorker' : toWorker'[i].kind \in {"source", "shutdown"}
    BY <1>1, <1>4 DEF CleanSwitch
  <2> QED
    BY <1>1, <1>2, <1>4, <1>8 DEF KeepInv, MoveLast
<1> QED
  BY <1>6, <1>10, <1>11, <1>12, <1>13, <1>14 DEF KeepInv

---------------------------------------------------------------------------
\* The process becomes the stub of another interpreter, and the stub the worker.
LEMMA ExecStep ==
  ASSUME Known, TypeOK', Exec
  PROVE  KeepInv'
<1> USE DEF Known, requestVars, gateVars, turnVars, pipeVars
<1>1. /\ worker = "reexec" /\ worker' = "stub" /\ ~wreader' /\ jobs' = <<>> /\ jobs = <<>>
      /\ UNCHANGED <<pc, requestVars, gateVars, turnVars, closer, pipeVars, served>>
  BY DEF Exec, KeepInv, CleanSwitch
<1>2. Ended' /\ Gates' /\ MoveLast' /\ CleanSwitch' /\ ReplyKept'
  BY <1>1, EmptySeq, LenProperties DEF KeepInv, Ended, Gates, MoveLast, CleanSwitch, ReplyKept
<1>3. OpenSlots'
  BY <1>1 DEF KeepInv, OpenSlots, OnWay
<1>4. OneToken'
  BY <1>1 DEF KeepInv, OneToken, SourceSent, HelloSent, Awaits
<1>5. MoveHeld'
  BY <1>1 DEF KeepInv, MoveHeld, Moving, HelloSent, Awaits
<1> QED
  BY <1>2, <1>3, <1>4, <1>5 DEF KeepInv

LEMMA StubStep ==
  ASSUME Known, TypeOK', StubStarts
  PROVE  KeepInv'
<1> USE DEF Known, requestVars, gateVars, turnVars
<1> DEFINE e == Frame(None, "hello")
<1>1. /\ worker = "stub" /\ worker' = "serve" /\ wreader' /\ jobs' = jobs /\ jobs = <<>> /\ DOMAIN jobs = {}
      /\ toWorker # <<>> /\ toWorker' = Tail(toWorker) /\ toClient' = Append(toClient, e)
      /\ 1 \in DOMAIN toWorker /\ toWorker[1].kind = "source"
      /\ UNCHANGED <<pc, requestVars, gateVars, turnVars, closer, served>>
  BY TakenFrame, EmptySeq, LenProperties DEF StubStarts, KeepInv, CleanSwitch, AnswerInv, TypeOK
<1>2. e \in Frames /\ e.kind = "hello"
  BY DEF Frame, Frames
<1> HIDE DEF e
<1>3. \A i \in DOMAIN toWorker' : i \in Nat /\ i # 0 /\ i + 1 \in DOMAIN toWorker /\ toWorker'[i] = toWorker[i + 1]
  BY <1>1, TakenFrame DEF AnswerInv, TypeOK
<1>4. /\ \A i \in DOMAIN toClient : i \in DOMAIN toClient' /\ toClient'[i] = toClient[i]
      /\ \A i \in DOMAIN toClient' :
           \/ i \in DOMAIN toClient /\ toClient'[i] = toClient[i]
           \/ i = Len(toClient) + 1 /\ i \notin DOMAIN toClient /\ toClient'[i] = e
  BY <1>1, <1>2, AddedFrame DEF AnswerInv, TypeOK
<1>5. SourceSent /\ ~HelloSent /\ ~failure
  BY <1>1, Together DEF SourceSent, KeepInv, OneToken
<1>6. Ended'
  BY <1>1, <1>5 DEF KeepInv, Ended
<1>7. OpenSlots'
  <2>1. \A q \in Requests : OnWay(q)' => OnWay(q)
    BY <1>1, <1>3 DEF OnWay
  <2> QED
    BY <1>1, <2>1 DEF KeepInv, OpenSlots
<1>8. Gates'
  BY <1>1 DEF KeepInv, Gates
<1>9. MoveLast'
  <2>1. \A i \in DOMAIN toWorker' : toWorker'[i].kind \in {"source", "shutdown"}
    BY <1>1, <1>3 DEF KeepInv, CleanSwitch
  <2>2. \A i \in DOMAIN toClient' : toClient'[i].kind \in {"ok", "refused", "hello"}
    BY <1>2, <1>4 DEF KeepInv, MoveLast
  <2> QED
    BY <1>1, <2>1, <2>2 DEF MoveLast
<1>10. OneToken'
  <2>1. \A q \in Requests : Awaits(q)' = Awaits(q)
    BY <1>1 DEF Awaits
  <2>2. ~SourceSent'
    <3>1. \A i \in DOMAIN toWorker : toWorker[i].kind = "source" => i = 1
      BY <1>1 DEF KeepInv, OneToken
    <3> QED
      BY <1>3, <3>1 DEF SourceSent
  <2>3. \A i, j \in DOMAIN toClient' : toClient'[i].kind = "hello" /\ toClient'[j].kind = "hello" => i = j
    BY <1>4, <1>5 DEF HelloSent
  <2>4. \A q \in Requests : pc'[q] = "source" => ~hello'
    BY <1>1 DEF KeepInv, OneToken
  <2> QED
    BY <1>5, <2>1, <2>2, <2>3, <2>4 DEF KeepInv, OneToken, SourceSent
<1>11. MoveHeld' /\ CleanSwitch'
  BY <1>1 DEF MoveHeld, CleanSwitch
<1>12. ReplyKept'
  BY <1>1, <1>4 DEF KeepInv, ReplyKept
<1> QED
  BY <1>6, <1>7, <1>8, <1>9, <1>10, <1>11, <1>12 DEF KeepInv

---------------------------------------------------------------------------
LEMMA KeepStep ==
  ASSUME Known, TypeOK', [Next]_vars
  PROVE  KeepInv'
<1>1. ASSUME NEW r \in Requests, Begin(r) \/ BeginLost(r) \/ ThreadStep(r) \/ Expire(r) PROVE KeepInv'
  BY <1>1, LocalStep, SendStep, SourceStep, ReplyStep, HelloStep DEF ThreadStep
<1>2. ASSUME NEW r \in Requests, Kill(r) PROVE KeepInv'
  BY <1>2, EndStep DEF Kill
<1>3. CASE CloseBegins \/ CloseEnds \/ ServeEnd \/ StubFails \/ Crash
  <2>1. CASE CloseBegins
    BY <2>1, EndStep DEF CloseBegins, requestVars, pipeVars, workerVars
  <2>2. CASE CloseEnds \/ ServeEnd
    BY <2>2, EndStep DEF CloseEnds, ServeEnd, requestVars
  <2>3. CASE StubFails \/ Crash
    BY <2>3, EndStep DEF StubFails, Crash, requestVars
  <2> QED
    BY <1>3, <2>1, <2>2, <2>3
<1>4. CASE CloseInput \/ Drain
  BY <1>4, ShutdownStep, DrainStep
<1>5. CASE ReadLight \/ ReadJob \/ ReadEnd \/ ServeJob \/ ReexecRefused \/ ReexecReplies \/ Exec \/ StubStarts
  BY <1>5, LightStep, ReadStep, JobStep, ExecStep, StubStep
<1>6. CASE UNCHANGED vars
  BY <1>6, EndStep DEF vars, requestVars, gateVars, turnVars, pipeVars, workerVars
<1> QED
  BY <1>1, <1>2, <1>3, <1>4, <1>5, <1>6 DEF Next, WorkerStep

LEMMA KeepInit ==
  ASSUME Init
  PROVE  KeepInv
<1>1. DOMAIN toWorker = {} /\ DOMAIN toClient = {} /\ DOMAIN jobs = {}
  BY EmptySeq, LenProperties DEF Init
<1> USE DEF Init
<1>2. Ended /\ Gates /\ MoveLast /\ MoveHeld /\ CleanSwitch /\ ReplyKept
  BY <1>1 DEF Ended, Gates, MoveLast, MoveHeld, CleanSwitch, ReplyKept, Inside, Waits
<1>3. OpenSlots /\ OneToken
  BY <1>1 DEF OpenSlots, OnWay, OneToken, SourceSent, HelloSent
<1> QED
  BY <1>2, <1>3 DEF KeepInv

\* The invariant of replies and moves: where a request on its way is, and who waits for it.
THEOREM KeepInvariance == Spec => []KeepInv
<1>1. Init => KeepInv
  BY KeepInit
<1>2. KeepInv /\ TurnInv /\ AnswerInv /\ AnswerInv' /\ [Next]_vars => KeepInv'
  BY KeepStep DEF Known, AnswerInv
<1> QED
  BY <1>1, <1>2, Invariance, AnswerInvariance, PTL DEF Spec

\* No reply is dropped, no slot stays open on a failed connection, and a new interpreter reads
\* its source first, whoever reads, whenever the worker dies, moves or is closed
\* (Connection._pump and _fail, FramedChannel.switch_interpreter, worker _reexec).
THEOREM RepliesCorrect == Spec => []RepliesKept
<1>1. TurnInv /\ KeepInv => RepliesKept
  BY DEF TurnInv, KeepInv, RepliesKept
<1> QED
  BY <1>1, Invariance, KeepInvariance, PTL

=============================================================================
