----------------------------- MODULE Connection -----------------------------
(***************************************************************************)
(* One worker process and the connection its requests share               *)
(* (letify/runtime/channel.py, and the frame reader and the job loop of    *)
(* letify/protocol/worker.py).                                             *)
(*                                                                         *)
(* Every request runs on a thread of its own.  One waiting thread at a     *)
(* time reads frames and delivers them; the others sleep.  A step is one   *)
(* critical section of Connection._turn, Connection._slots_lock or _Gate,  *)
(* one frame written or read, or one step of the worker.  The requests of  *)
(* the data lane and the device stream are not part of this module.        *)
(***************************************************************************)
EXTENDS Naturals, Sequences

CONSTANTS
  Requests,   \* the requests made on the connection, each on its own thread
  Op,         \* "light", "job" or "reexec": how the worker serves each
  Timed,      \* requests given a timeout
  None,       \* no request
  MayClose,   \* whether PersistentChannel.close may run
  MayCrash    \* whether the worker may die by itself

ASSUME RequestKinds ==
  /\ Op \in [Requests -> {"light", "job", "reexec"}]
  /\ Timed \subseteq Requests /\ None \notin Requests
  /\ MayClose \in BOOLEAN /\ MayCrash \in BOOLEAN

VARIABLES
  pc,         \* where each request's thread is
  stage,      \* what it waits for: the reply, or the next hello of the worker
  slot,       \* its _Slot: "open" while in Connection._slots, then what it holds
  result,     \* how it ended
  watchdog,   \* its _Watchdog
  sending,    \* threads inside _Gate.shared
  exclusive,  \* the thread inside _Gate.exclusive, or None
  reading,    \* Connection._reading
  failure,    \* Connection.failure is set
  hello,      \* Connection.hello is set
  closer,     \* PersistentChannel.close: "open", "closing", "waiting" or "closed"
  toWorker,   \* frames in the worker's standard input
  toClient,   \* frames in its standard output
  worker,     \* "serve", "reexec" (replied, about to exec), "stub" or "dead"
  wreader,    \* whether the worker's frame reader runs
  jobs,       \* worker _JOBS
  served      \* how often the worker has executed each request

requestVars == <<stage, slot, result, watchdog>>
turnVars == <<reading, failure, hello>>
gateVars == <<sending, exclusive>>
pipeVars == <<toWorker, toClient>>
workerVars == <<worker, wreader, jobs, served>>
vars == <<pc, requestVars, gateVars, turnVars, closer, pipeVars, workerVars>>

Labels == {"idle", "gate", "clear", "open", "send", "enter", "asleep", "read",
           "clearing", "check", "quit", "result", "source", "done"}

Frame(r, kind) == [stream |-> r, kind |-> kind]

Frames == [stream : Requests, kind : {"request", "ok", "refused"}]
          \cup [stream : {None}, kind : {"source", "shutdown", "hello"}]

TypeOK ==
  /\ pc \in [Requests -> Labels]
  /\ stage \in [Requests -> {"reply", "hello"}]
  /\ slot \in [Requests -> {"none", "open", "ok", "refused", "error"}]
  /\ result \in [Requests -> {"none", "value", "refused", "timeout", "lost", "error"}]
  /\ watchdog \in [Requests -> {"off", "armed", "expired", "fired"}]
  /\ sending \subseteq Requests /\ exclusive \in Requests \cup {None}
  /\ reading \in BOOLEAN /\ failure \in BOOLEAN /\ hello \in BOOLEAN
  /\ closer \in {"open", "closing", "waiting", "closed"}
  /\ toWorker \in Seq(Frames) /\ toClient \in Seq(Frames)
  /\ worker \in {"serve", "reexec", "stub", "dead"}
  /\ wreader \in BOOLEAN /\ jobs \in Seq(Requests \cup {None}) /\ served \in [Requests -> Nat]

Init ==
  /\ pc = [r \in Requests |-> "idle"]
  /\ stage = [r \in Requests |-> "reply"]
  /\ slot = [r \in Requests |-> "none"]
  /\ result = [r \in Requests |-> "none"]
  /\ watchdog = [r \in Requests |-> "off"]
  /\ sending = {} /\ exclusive = None
  /\ reading = FALSE /\ failure = FALSE /\ hello = TRUE
  /\ closer = "open"
  /\ toWorker = <<>> /\ toClient = <<>>
  /\ worker = "serve" /\ wreader = TRUE /\ jobs = <<>>
  /\ served = [r \in Requests |-> 0]

---------------------------------------------------------------------------
(* Helpers *)

Goto(r, label) == pc' = [pc EXCEPT ![r] = label]

\* Move on and notify_all on Connection._turn: every sleeper looks again.
GotoNotify(r, label) ==
  pc' = [q \in Requests |-> IF q = r THEN label
                            ELSE IF pc[q] = "asleep" THEN "enter" ELSE pc[q]]

\* The done() a waiting thread was given: its event, or the worker's hello.
Done(r) == IF stage[r] = "hello" THEN hello ELSE slot[r] \in {"ok", "refused", "error"}

\* Connection._turn is held across the two steps of Connection._fail.
TurnFree == \A q \in Requests : pc[q] # "clearing"

Switches(r) == Op[r] = "reexec"

WorkerUp == worker # "dead"

Expired(r) == watchdog[r] \in {"expired", "fired"}

\* Mutated form of Finish: the gate is not left.
FinishInGate(r, how) ==
  /\ result' = [result EXCEPT ![r] = how]
  /\ UNCHANGED gateVars
  /\ watchdog' = [watchdog EXCEPT ![r] = IF @ = "armed" THEN "off" ELSE @]

\* Leave the gate, stop the timer and end with this result.
Finish(r, how) ==
  /\ result' = [result EXCEPT ![r] = how]
  /\ sending' = sending \ {r}
  /\ exclusive' = IF exclusive = r THEN None ELSE exclusive
  /\ watchdog' = [watchdog EXCEPT ![r] = IF @ = "armed" THEN "off" ELSE @]

---------------------------------------------------------------------------
(* Connection.request up to the reply *)

\* A request looks at the process first and starts its timer before the gate;
\* switch_interpreter does neither.
Begin(r) ==
  /\ pc[r] = "idle" /\ closer = "open" /\ (WorkerUp \/ Switches(r))
  /\ watchdog' = [watchdog EXCEPT ![r] =
       IF r \in Timed /\ ~Switches(r) THEN "armed" ELSE "off"]
  /\ Goto(r, "gate")
  /\ UNCHANGED <<stage, slot, result, gateVars, turnVars, closer, pipeVars, workerVars>>

\* The process already ended when the request looked.
BeginLost(r) ==
  /\ pc[r] = "idle" /\ closer = "open" /\ ~WorkerUp /\ ~Switches(r)
  /\ result' = [result EXCEPT ![r] = "lost"]
  /\ Goto(r, "done")
  /\ UNCHANGED <<stage, slot, watchdog, gateVars, turnVars, closer, pipeVars, workerVars>>

GateShared(r) ==
  /\ pc[r] = "gate" /\ ~Switches(r) /\ exclusive = None
  /\ sending' = sending \cup {r}
  /\ Goto(r, "open")
  /\ UNCHANGED <<requestVars, exclusive, turnVars, closer, pipeVars, workerVars>>

GateExclusive(r) ==
  /\ pc[r] = "gate" /\ Switches(r) /\ exclusive = None
  /\ exclusive' = r
  /\ Goto(r, "clear")
  /\ UNCHANGED <<requestVars, sending, turnVars, closer, pipeVars, workerVars>>

\* Nobody is sending any more; the request made inside has its own timer.
GateClear(r) ==
  /\ pc[r] = "clear" /\ sending = {}
  /\ watchdog' = [watchdog EXCEPT ![r] = IF r \in Timed THEN "armed" ELSE "off"]
  /\ Goto(r, "open")
  /\ UNCHANGED <<stage, slot, result, gateVars, turnVars, closer, pipeVars, workerVars>>

\* Mutated form of OpenSlot: the failure is not looked at under the lock.
OpenUnchecked(r) ==
  /\ pc[r] = "open"
  /\ slot' = [slot EXCEPT ![r] = "open"]
  /\ Goto(r, "send")
  /\ UNCHANGED <<stage, result, watchdog, gateVars, turnVars, closer, pipeVars, workerVars>>

\* Connection._open, under _slots_lock.
OpenSlot(r) ==
  /\ pc[r] = "open" /\ ~failure
  /\ slot' = [slot EXCEPT ![r] = "open"]
  /\ Goto(r, "send")
  /\ UNCHANGED <<stage, result, watchdog, gateVars, turnVars, closer, pipeVars, workerVars>>

OpenFails(r) ==
  /\ pc[r] = "open" /\ failure
  /\ Finish(r, "error")
  /\ Goto(r, "done")
  /\ UNCHANGED <<stage, slot, turnVars, closer, pipeVars, workerVars>>

\* The bytes go to the worker's standard input, under Sender.lock.
SendRequest(r) ==
  /\ pc[r] = "send" /\ WorkerUp /\ closer \in {"open", "closing"}
  /\ toWorker' = Append(toWorker, Frame(r, "request"))
  /\ sending' = sending \ {r}
  /\ Goto(r, "enter")
  /\ UNCHANGED <<requestVars, exclusive, turnVars, closer, toClient, workerVars>>

\* The pipe is broken or closed: forget the slot.
SendFails(r) ==
  /\ pc[r] = "send" /\ ~(WorkerUp /\ closer \in {"open", "closing"})
  /\ slot' = [slot EXCEPT ![r] = IF @ = "open" THEN "none" ELSE @]
  /\ Finish(r, IF Expired(r) THEN "timeout" ELSE "lost")
  /\ Goto(r, "done")
  /\ UNCHANGED <<stage, turnVars, closer, pipeVars, workerVars>>

---------------------------------------------------------------------------
(* Connection._wait and Connection._pump *)

\* Mutated form of Enter: the reading flag is not looked at.
EnterReading(r) ==
  /\ pc[r] = "enter" /\ TurnFree
  /\ IF Done(r) \/ failure THEN Goto(r, "result") /\ UNCHANGED reading
                           ELSE Goto(r, "read") /\ reading' = TRUE
  /\ UNCHANGED <<requestVars, gateVars, failure, hello, closer, pipeVars, workerVars>>

\* The first section: return, take the turn to read, or sleep.
Enter(r) ==
  /\ pc[r] = "enter" /\ TurnFree
  /\ \/ (Done(r) \/ failure) /\ Goto(r, "result") /\ UNCHANGED reading
     \/ ~Done(r) /\ ~failure /\ ~reading /\ Goto(r, "read") /\ reading' = TRUE
     \/ ~Done(r) /\ ~failure /\ reading /\ Goto(r, "asleep") /\ UNCHANGED reading
  /\ UNCHANGED <<requestVars, gateVars, failure, hello, closer, pipeVars, workerVars>>

\* Mutated form of Deliver: the slot is not looked up by the stream of the frame.
DeliverFirst(q, kind) ==
  \E p \in Requests :
    /\ slot[p] = "open"
    /\ slot' = [slot EXCEPT ![p] = kind]

\* A reply closes the slot of its stream; one nobody waits for is dropped.
Deliver(q, kind) == slot' = [slot EXCEPT ![q] = IF @ = "open" THEN kind ELSE @]

\* The reader takes one frame and hands it to the request it belongs to.
PumpReply(r) ==
  /\ pc[r] = "read" /\ toClient # <<>> /\ Head(toClient).kind \in {"ok", "refused"}
  /\ Deliver(Head(toClient).stream, Head(toClient).kind)
  /\ toClient' = Tail(toClient)
  /\ GotoNotify(r, "check")
  /\ UNCHANGED <<stage, result, watchdog, gateVars, turnVars, closer, toWorker, workerVars>>

PumpHello(r) ==
  /\ pc[r] = "read" /\ toClient # <<>> /\ Head(toClient).kind = "hello"
  /\ hello' = TRUE
  /\ toClient' = Tail(toClient)
  /\ GotoNotify(r, "check")
  /\ UNCHANGED <<requestVars, gateVars, reading, failure, closer, toWorker, workerVars>>

\* End of file: everything the worker wrote has been read.  _fail marks the connection
\* first, keeping Connection._turn ...
PumpEnd(r) ==
  /\ pc[r] = "read" /\ toClient = <<>> /\ ~WorkerUp
  /\ failure' = TRUE
  /\ Goto(r, "clearing")
  /\ UNCHANGED <<requestVars, gateVars, reading, hello, closer, pipeVars, workerVars>>

\* Mutated form of FailSlots: the slots are cleared and their owners are not told.
FailSlotsUntold(r) ==
  /\ pc[r] = "clearing"
  /\ slot' = [q \in Requests |-> IF slot[q] = "open" THEN "none" ELSE slot[q]]
  /\ GotoNotify(r, "check")
  /\ UNCHANGED <<stage, result, watchdog, gateVars, turnVars, closer, pipeVars, workerVars>>

\* ... and then fails every open slot under _slots_lock.
FailSlots(r) ==
  /\ pc[r] = "clearing"
  /\ slot' = [q \in Requests |-> IF slot[q] = "open" THEN "error" ELSE slot[q]]
  /\ GotoNotify(r, "check")
  /\ UNCHANGED <<stage, result, watchdog, gateVars, turnVars, closer, pipeVars, workerVars>>

\* After each frame the reader looks whether its own wait is over.
Check(r) ==
  /\ pc[r] = "check" /\ TurnFree
  /\ Goto(r, IF Done(r) \/ failure THEN "quit" ELSE "read")
  /\ UNCHANGED <<requestVars, gateVars, turnVars, closer, pipeVars, workerVars>>

\* Mutated form of Quit: the turn is given up and nobody is woken.
QuitQuietly(r) ==
  /\ pc[r] = "quit" /\ TurnFree
  /\ reading' = FALSE
  /\ Goto(r, "result")
  /\ UNCHANGED <<requestVars, gateVars, failure, hello, closer, pipeVars, workerVars>>

\* The finally clause hands the turn to whoever wakes first.
Quit(r) ==
  /\ pc[r] = "quit" /\ TurnFree
  /\ reading' = FALSE
  /\ GotoNotify(r, "result")
  /\ UNCHANGED <<requestVars, gateVars, failure, hello, closer, pipeVars, workerVars>>

---------------------------------------------------------------------------
(* The end of Connection.request and of FramedChannel.switch_interpreter *)

Outcome(r) ==
  IF stage[r] = "hello"
  THEN IF hello THEN "value" ELSE IF Expired(r) THEN "timeout" ELSE "error"
  ELSE CASE slot[r] = "ok" -> "value"
         [] slot[r] = "refused" -> "refused"
         [] OTHER -> IF Expired(r) THEN "timeout" ELSE "error"

\* The worker is about to exec: the timer of the request stops, the switch goes on.
MovesOn(r) == Switches(r) /\ stage[r] = "reply" /\ slot[r] = "ok"

Return(r) ==
  /\ pc[r] = "result" /\ ~MovesOn(r)
  /\ Finish(r, Outcome(r))
  /\ Goto(r, "done")
  /\ UNCHANGED <<stage, slot, turnVars, closer, pipeVars, workerVars>>

SwitchReplied(r) ==
  /\ pc[r] = "result" /\ MovesOn(r)
  /\ watchdog' = [watchdog EXCEPT ![r] = IF @ = "armed" THEN "off" ELSE @]
  /\ hello' = FALSE
  /\ Goto(r, "source")
  /\ UNCHANGED <<stage, slot, result, gateVars, reading, failure, closer, pipeVars, workerVars>>

\* _send_worker and the start of _await_ready; a broken pipe is left to the wait.  A timer
\* of the request that has not killed yet is followed instead of the startup timer.
SendSource(r) ==
  /\ pc[r] = "source"
  /\ toWorker' = IF WorkerUp /\ closer \in {"open", "closing"}
                 THEN Append(toWorker, Frame(None, "source")) ELSE toWorker
  /\ stage' = [stage EXCEPT ![r] = "hello"]
  /\ watchdog' = [watchdog EXCEPT ![r] = IF @ = "expired" THEN @ ELSE "armed"]
  /\ Goto(r, "enter")
  /\ UNCHANGED <<slot, result, gateVars, turnVars, closer, toClient, workerVars>>

---------------------------------------------------------------------------
(* _Watchdog and PersistentChannel.close *)

\* The timer fires: from here on cancel has no effect.
Expire(r) ==
  /\ watchdog[r] = "armed"
  /\ watchdog' = [watchdog EXCEPT ![r] = "expired"]
  /\ UNCHANGED <<pc, stage, slot, result, gateVars, turnVars, closer, pipeVars, workerVars>>

\* What the death of the worker leaves: what it wrote can still be read.
WorkerEnds ==
  /\ worker' = "dead" /\ wreader' = FALSE /\ jobs' = <<>> /\ toWorker' = <<>>

\* PersistentChannel._kill: the process of this channel, none once it is being closed.
Kill(r) ==
  /\ watchdog[r] = "expired"
  /\ watchdog' = [watchdog EXCEPT ![r] = "fired"]
  /\ IF closer = "open" THEN WorkerEnds ELSE UNCHANGED <<toWorker, worker, wreader, jobs>>
  /\ UNCHANGED <<pc, stage, slot, result, gateVars, turnVars, closer, toClient, served>>

\* The channel forgets the process and the connection; _drain starts reading.
CloseBegins ==
  /\ MayClose /\ closer = "open"
  /\ closer' = "closing"
  /\ UNCHANGED <<pc, requestVars, gateVars, turnVars, pipeVars, workerVars>>

\* The shutdown frame, and the end of the worker's input.
CloseInput ==
  /\ closer = "closing"
  /\ toWorker' = IF WorkerUp THEN Append(toWorker, Frame(None, "shutdown")) ELSE toWorker
  /\ closer' = "waiting"
  /\ UNCHANGED <<pc, requestVars, gateVars, turnVars, toClient, workerVars>>

\* The worker ended, or is killed after 30 seconds.
CloseEnds ==
  /\ closer = "waiting"
  /\ WorkerEnds
  /\ closer' = "closed"
  /\ UNCHANGED <<pc, requestVars, gateVars, turnVars, toClient, served>>

\* _drain takes what the worker still writes, beside a thread that reads frames.
Drain ==
  /\ closer # "open" /\ toClient # <<>>
  /\ toClient' = Tail(toClient)
  /\ UNCHANGED <<pc, requestVars, gateVars, turnVars, closer, toWorker, workerVars>>

---------------------------------------------------------------------------
(* The worker: _read, _serve, _reexec and the bootstrap stub *)

Reads(kinds) == wreader /\ toWorker # <<>> /\ Head(toWorker).kind \in kinds

Answer(r, kind) ==
  /\ served' = [served EXCEPT ![r] = @ + 1]
  /\ toClient' = Append(toClient, Frame(r, kind))

\* The reader answers a light request itself.
ReadLight ==
  /\ Reads({"request"})
  /\ LET r == Head(toWorker).stream IN Op[r] = "light" /\ Answer(r, "ok")
  /\ toWorker' = Tail(toWorker)
  /\ UNCHANGED <<pc, requestVars, gateVars, turnVars, closer, worker, wreader, jobs>>

\* Every other request waits for the main thread; behind a reexec nothing is read.
ReadJob ==
  /\ Reads({"request"})
  /\ LET r == Head(toWorker).stream
     IN /\ Op[r] # "light" /\ jobs' = Append(jobs, r)
        /\ wreader' = ~Switches(r)
  /\ toWorker' = Tail(toWorker)
  /\ UNCHANGED <<pc, requestVars, gateVars, turnVars, closer, toClient, worker, served>>

\* The shutdown frame, or bytes that are no frame, end the reader.
ReadEnd ==
  /\ Reads({"source", "shutdown"})
  /\ jobs' = Append(jobs, None) /\ wreader' = FALSE
  /\ toWorker' = Tail(toWorker)
  /\ UNCHANGED <<pc, requestVars, gateVars, turnVars, closer, toClient, worker, served>>

NextJob(job) == worker = "serve" /\ jobs # <<>> /\ Head(jobs) = job

ServeJob ==
  /\ \E r \in Requests : NextJob(r) /\ Op[r] = "job" /\ Answer(r, "ok")
  /\ jobs' = Tail(jobs)
  /\ UNCHANGED <<pc, requestVars, gateVars, turnVars, closer, toWorker, worker, wreader>>

ServeEnd ==
  /\ NextJob(None)
  /\ WorkerEnds
  /\ UNCHANGED <<pc, requestVars, gateVars, turnVars, closer, toClient, served>>

\* Not an executable interpreter: reply so and start the reader again.
ReexecRefused ==
  /\ \E r \in Requests : NextJob(r) /\ Switches(r) /\ Answer(r, "refused")
  /\ jobs' = Tail(jobs) /\ wreader' = TRUE
  /\ UNCHANGED <<pc, requestVars, gateVars, turnVars, closer, toWorker, worker>>

ReexecReplies ==
  /\ \E r \in Requests : NextJob(r) /\ Switches(r) /\ Answer(r, "ok")
  /\ jobs' = Tail(jobs) /\ worker' = "reexec"
  /\ UNCHANGED <<pc, requestVars, gateVars, turnVars, closer, toWorker, wreader>>

\* os.execv: the process keeps its pipes and nothing else.
Exec ==
  /\ worker = "reexec"
  /\ worker' = "stub" /\ wreader' = FALSE /\ jobs' = <<>>
  /\ UNCHANGED <<pc, requestVars, gateVars, turnVars, closer, pipeVars, served>>

\* The stub reads a byte count and the worker source, which says hello.
StubStarts ==
  /\ worker = "stub" /\ toWorker # <<>> /\ Head(toWorker).kind = "source"
  /\ worker' = "serve" /\ wreader' = TRUE
  /\ toWorker' = Tail(toWorker)
  /\ toClient' = Append(toClient, Frame(None, "hello"))
  /\ UNCHANGED <<pc, requestVars, gateVars, turnVars, closer, jobs, served>>

\* Anything else in front of it is no byte count.
StubFails ==
  /\ worker = "stub" /\ toWorker # <<>> /\ Head(toWorker).kind # "source"
  /\ WorkerEnds
  /\ UNCHANGED <<pc, requestVars, gateVars, turnVars, closer, toClient, served>>

Crash ==
  /\ MayCrash /\ WorkerUp
  /\ WorkerEnds
  /\ UNCHANGED <<pc, requestVars, gateVars, turnVars, closer, toClient, served>>

---------------------------------------------------------------------------

\* The steps a request's thread takes without the worker.
ThreadStep(r) ==
  \/ GateShared(r) \/ GateExclusive(r) \/ GateClear(r) \/ OpenSlot(r) \/ OpenFails(r)
  \/ SendRequest(r) \/ SendFails(r) \/ Enter(r)
  \/ PumpReply(r) \/ PumpHello(r) \/ PumpEnd(r) \/ FailSlots(r) \/ Check(r) \/ Quit(r)
  \/ Return(r) \/ SwitchReplied(r) \/ SendSource(r)

WorkerStep ==
  \/ ReadLight \/ ReadJob \/ ReadEnd \/ ServeJob \/ ServeEnd
  \/ ReexecRefused \/ ReexecReplies \/ Exec \/ StubStarts \/ StubFails

Next ==
  \/ \E r \in Requests : Begin(r) \/ BeginLost(r) \/ ThreadStep(r) \/ Expire(r) \/ Kill(r)
  \/ CloseBegins \/ CloseInput \/ CloseEnds \/ Drain
  \/ WorkerStep \/ Crash

Spec == Init /\ [][Next]_vars

\* Threads and timers run on; nothing is asked of the worker, and nothing has to be called.
FairSpec ==
  /\ Spec
  /\ \A r \in Requests : WF_vars(ThreadStep(r)) /\ WF_vars(Expire(r)) /\ WF_vars(Kill(r))
  /\ WF_vars(CloseInput) /\ WF_vars(CloseEnds)

---------------------------------------------------------------------------
(* Properties *)

Reading(r) == pc[r] \in {"read", "clearing", "check", "quit"}

Waiting(r) == pc[r] = "asleep" \/ Reading(r)

\* Two threads never read frames at once, and the flag says whether one does: two readers
\* would tear frames apart, and a flag left set would keep every later wait asleep.
OneReader ==
  /\ \A r, q \in Requests : Reading(r) /\ Reading(q) => r = q
  /\ reading <=> \E r \in Requests : Reading(r)

\* Nobody sleeps past its wake-up: a sleeping thread has nothing to return with, and
\* somebody is reading for it (a lost notify_all would hang the request).
NobodyOversleeps ==
  \A r \in Requests : pc[r] = "asleep" =>
    /\ reading /\ (~Done(r) \/ ~TurnFree)
    /\ ~failure \/ ~TurnFree

\* What the worker answered is in the pipe, in the slot, or was returned: no reply is
\* dropped, whoever read it and however the worker ended, until the channel is closed.
ReplyKept ==
  \A r \in Requests : served[r] > 0 =>
    \/ \E i \in DOMAIN toClient : toClient[i].stream = r
    \/ slot[r] \in {"ok", "refused"} /\ (pc[r] = "done" => result[r] \in {"value", "refused"})
    \/ Switches(r) /\ pc[r] = "done"
    \/ closer # "open"

\* A request that waits for a reply can still get one, or already has it, or the
\* connection failed and it was told: none waits on a slot nothing will fill.
WaitersReachable ==
  \A r \in Requests : (Waiting(r) \/ pc[r] = "enter") /\ stage[r] = "reply" =>
    IF failure /\ TurnFree THEN slot[r] \in {"ok", "refused", "error"} ELSE slot[r] # "none"

\* Nothing is left open on a failed connection, whichever of _open and _fail came first.
NoSlotAfterFailure ==
  failure /\ TurnFree => \A r \in Requests : slot[r] # "open"

\* A new interpreter finds the worker source first: no request sent before the switch was
\* over, and none of those it left behind, is in front of it.
CleanSwitch ==
  worker \in {"reexec", "stub"} =>
    /\ jobs = <<>>
    /\ \A i \in DOMAIN toWorker : toWorker[i].kind \in {"source", "shutdown"}

\* No reply is lost, nothing stays open on a connection that failed, and a new interpreter
\* finds nothing of the old one in front of its source (Connection._pump, FramedChannel
\* switch_interpreter, worker _reexec).
RepliesKept == TypeOK /\ ReplyKept /\ NoSlotAfterFailure /\ CleanSwitch

\* What the callers see is one execution at most and the answer of their own request.
Calls == INSTANCE RequestReply WITH
  call <- [r \in Requests |->
    IF pc[r] = "idle" THEN "unmade"
    ELSE IF pc[r] # "done" THEN "open"
    ELSE IF result[r] \in {"value", "refused"} THEN "value" ELSE "failed"],
  executed <- served

AnswersAreOwn == Calls!Spec

\* A request with a timeout ends, even when the worker never answers.
TimedEnd == \A r \in Timed : pc[r] # "idle" ~> pc[r] = "done"

\* When the worker is gone every request ends, with or without a timeout.
DeathEndsAll == \A r \in Requests : (pc[r] # "idle" /\ ~WorkerUp) ~> pc[r] = "done"

=============================================================================
