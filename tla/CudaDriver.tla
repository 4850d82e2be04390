------------------------------ MODULE CudaDriver ------------------------------
(***************************************************************************)
(* The stand-in for the CUDA driver (letify-core): cuMemAlloc hands out    *)
(* virtual pointers from a local table, calls that need no answer are      *)
(* queued, a call that needs one sends the queue first and waits, and the  *)
(* agent on the machine with the device executes them in order, one        *)
(* connection at a time.  Memory is counted in units, one cell each.       *)
(***************************************************************************)
EXTENDS Integers, Sequences, FiniteSets, Functions

CONSTANTS Threads,     \* threads of the program; each copies its own number to the device
          MaxHandles,  \* how many allocations a process makes
          Sizes,       \* of an allocation
          Spacing,     \* units between two virtual pointers, a gigabyte in the code
          DeviceSize, Reserve,  \* units of the device, and those the budget holds back
          MaxPending,  \* how many requests may be queued and on their way
          Processes    \* how many processes attach to the agent, one after the other

VARIABLES process, attached,  \* the process running, and whether cuInit has connected it
          next, live,         \* Table.next, and the sizes of its allocations
          at,                 \* per thread the call it is in
          queue, wire,        \* requests in the writer's buffer, and on their way
          answers,            \* replies on their way, the oldest first
          device,             \* per process what it holds on the device: handle -> cells
          refused,            \* handles the device had no room for
          written,            \* per virtual pointer the last value the program copied to it
          late,               \* a read has timed out, and its reply is still to come
          misread             \* a copy to the host returned what nobody copied there last

driverVars == <<process, attached, next, live, at, queue, wire, answers, device, refused, written,
                late, misread>>
Idle == [op |-> "idle"]
Nothing == [h \in {} |-> 0]
Failed == -1

DriverInit ==
  /\ process = 1 /\ attached = FALSE /\ next = 1 /\ live = Nothing /\ at = [t \in Threads |-> Idle]
  /\ queue = <<>> /\ wire = <<>> /\ answers = <<>> /\ device = [p \in 1 .. Processes |-> Nothing]
  /\ refused = {} /\ written = Nothing /\ late = FALSE /\ misread = FALSE

\* table.rs: the virtual pointer of an allocation, and what a pointer stands for.
PointerOf(h) == h * Spacing
HandleOf(pointer) == pointer \div Spacing
OffsetOf(pointer) == pointer % Spacing
FreeUnits == DeviceSize - SumFunction(live) - Reserve
\* The pointers into the allocations the program holds; a correct program frees none in use.
Given == {h \in DOMAIN live : \A t \in Threads : at[t].op = "allocate" => at[t].handle # h}
Pointers(h) == PointerOf(h) .. PointerOf(h) + live[h] - 1
Usable == UNION {Pointers(h) : h \in Given}

\* attach: cuInit connects and asks for the size; the agent answers when it has served the rest.
Attaches ==
  /\ ~attached /\ wire = <<>> /\ attached' = TRUE
  /\ UNCHANGED <<process, next, live, at, queue, wire, answers, device, refused, written, late, misread>>

\* cuMemAlloc_v2 and cuMemFree_v2 change the table, and queue the request in a step of its own.
\* Assumed: the program calls cuInit first, and no send fails.  An allocation that is not sent
\* returns no pointer and leaves its entry in the table, which the agent then lacks; a send
\* fails only on a dead connection, after which nothing of this process is answered.
Allocates(t, n) ==
  /\ attached /\ at[t] = Idle /\ next <= MaxHandles /\ n <= FreeUnits
  /\ next' = next + 1 /\ live' = [h \in DOMAIN live \union {next} |-> IF h = next THEN n ELSE live[h]]
  /\ at' = [at EXCEPT ![t] = [op |-> "allocate", handle |-> next, units |-> n]]
  /\ UNCHANGED <<process, attached, queue, wire, answers, device, refused, written, late, misread>>
Frees(t, h) ==
  /\ attached /\ at[t] = Idle /\ h \in Given
  /\ \A u \in Threads : at[u].op = "wait" => HandleOf(at[u].pointer) # h
  /\ live' = [k \in DOMAIN live \ {h} |-> live[k]]
  /\ at' = [at EXCEPT ![t] = [op |-> "free", handle |-> h]]
  /\ written' = [p \in DOMAIN written \ Pointers(h) |-> written[p]]
  /\ UNCHANGED <<process, attached, next, queue, wire, answers, device, refused, late, misread>>

\* Client.send: some of the buffer has gone out already, and all of it does at QUEUE_LIMIT.
\* The mutex on the client is held by a call that waits for its answer.
Unlocked == \A t \in Threads : at[t].op # "wait"
By(call) == [op |-> call.op, by |-> process, call |-> call]
Sends(call) ==
  LET all == Append(queue, By(call))
  IN  /\ Unlocked /\ Len(all) + Len(wire) <= MaxPending
      /\ \E n \in {0, Len(queue), Len(all)} : /\ wire' = wire \o SubSeq(all, 1, n)
                                              /\ queue' = SubSeq(all, n + 1, Len(all))
Queues(t) ==
  /\ at[t].op \in {"allocate", "free"} /\ Sends(at[t]) /\ at' = [at EXCEPT ![t] = Idle]
  /\ UNCHANGED <<process, attached, next, live, answers, device, refused, written, late, misread>>
\* cuMemcpyHtoD_v2.
CopiesIn(t, pointer) ==
  /\ at[t] = Idle /\ Sends([op |-> "write", pointer |-> pointer, value |-> t])
  /\ written' = [p \in DOMAIN written \union {pointer} |-> IF p = pointer THEN t ELSE written[p]]
  /\ UNCHANGED <<process, attached, next, live, at, answers, device, refused, late, misread>>

\* Mutant: what is queued stays queued.
AsksAhead(call) == wire' = Append(wire, By(call)) /\ UNCHANGED queue
\* Client.request: everything queued goes out before it.
AsksAfter(call) == wire' = (wire \o queue) \o <<By(call)>> /\ queue' = <<>>
\* cuMemcpyDtoH_v2; any other call that waits for its answer reads no memory.
CopiesOut(t, pointer) ==
  /\ at[t] = Idle /\ Unlocked /\ Len(queue) + Len(wire) < MaxPending
  /\ LET call == [op |-> "wait", pointer |-> pointer, wants |-> written[pointer]]
     IN  AsksAfter(call) /\ at' = [at EXCEPT ![t] = call]
  /\ UNCHANGED <<process, attached, next, live, answers, device, refused, written, late, misread>>
Answered(t) ==
  /\ at[t].op = "wait" /\ answers # <<>> /\ answers' = Tail(answers)
  /\ at' = [at EXCEPT ![t] = Idle]
  /\ misread' = (misread \/ (~late /\ Head(answers) \notin {Failed, at[t].wants}))
  /\ UNCHANGED <<process, attached, next, live, queue, wire, device, refused, written, late>>
\* The read timeout of the socket: the connection stays, and with it the reply to come.
TimesOut(t) ==
  /\ at[t].op = "wait" /\ ~late /\ late' = TRUE /\ at' = [at EXCEPT ![t] = Idle]
  /\ UNCHANGED <<process, attached, next, live, queue, wire, answers, device, refused, written, misread>>

\* The process ends, and some of what it had sent never arrives; its agent frees nothing.
Exits ==
  /\ attached /\ process < Processes /\ process' = process + 1 /\ attached' = FALSE
  /\ next' = 1 /\ live' = Nothing /\ at' = [t \in Threads |-> Idle] /\ queue' = <<>> /\ answers' = <<>>
  /\ \E n \in 0 .. Len(wire) : wire' = SubSeq(wire, 1, n)
  /\ refused' = {} /\ written' = Nothing /\ late' = FALSE
  /\ UNCHANGED <<device, misread>>

-----------------------------------------------------------------------------
\* The agent: serve takes the requests in order, and answers only those that need it.
Held == SumFunction([p \in 1 .. Processes |-> SumFunction([h \in DOMAIN device[p] |-> Len(device[p][h])])])
Cells(p, pointer) == HandleOf(pointer) \in DOMAIN device[p] /\ OffsetOf(pointer) < Len(device[p][HandleOf(pointer)])
Obeys(m) ==
  LET mine == device[m.by]
      h == m.call.handle
  IN  CASE m.op = "allocate" ->
             IF Held + m.call.units <= DeviceSize
             THEN /\ device' = [device EXCEPT ![m.by] = [k \in DOMAIN mine \union {h} |->
                                  IF k = h THEN [c \in 1 .. m.call.units |-> 0] ELSE mine[k]]]
                  /\ UNCHANGED <<refused, answers>>
             ELSE refused' = refused \union (IF m.by = process THEN {h} ELSE {}) /\ UNCHANGED <<device, answers>>
        [] m.op = "free" -> /\ device' = [device EXCEPT ![m.by] = [k \in DOMAIN mine \ {h} |-> mine[k]]]
                            /\ UNCHANGED <<refused, answers>>
        [] m.op = "write" ->
             /\ device' = IF Cells(m.by, m.call.pointer)
                          THEN [device EXCEPT ![m.by][HandleOf(m.call.pointer)][OffsetOf(m.call.pointer) + 1] = m.call.value]
                          ELSE device
             /\ UNCHANGED <<refused, answers>>
        [] m.op = "wait" ->
             /\ answers' = IF m.by # process THEN answers
                           ELSE Append(answers, IF Cells(m.by, m.call.pointer)
                                  THEN mine[HandleOf(m.call.pointer)][OffsetOf(m.call.pointer) + 1] ELSE Failed)
             /\ UNCHANGED <<device, refused>>
Serves ==
  /\ wire # <<>> /\ wire' = Tail(wire) /\ Obeys(Head(wire))
  /\ UNCHANGED <<process, attached, next, live, at, queue, written, late, misread>>

DriverNext ==
  \/ Attaches \/ Exits \/ Serves
  \/ \E t \in Threads :
       \/ \E n \in Sizes : Allocates(t, n)
       \/ \E h \in Given : Frees(t, h)
       \/ \E p \in Usable : CopiesIn(t, p)
       \/ \E p \in Usable \intersect DOMAIN written : CopiesOut(t, p)
       \/ Queues(t) \/ Answered(t) \/ TimesOut(t)
DriverSpec == DriverInit /\ [][DriverNext]_driverVars
-----------------------------------------------------------------------------
\* A copy to the host returns what the program copied there last, or fails, as long as no read
\* has timed out: the queue keeps the order, whichever thread queued what.
CopiesRight == ~misread

\* With nothing queued or on its way, the agent holds exactly the allocations the table has,
\* but for those the device had no room for.
AgentTracks ==
  attached /\ queue = <<>> /\ wire = <<>> /\ (\A t \in Threads : at[t].op \notin {"allocate", "free"}) =>
    /\ DOMAIN device[process] = DOMAIN live \ refused
    /\ \A h \in DOMAIN device[process] : Len(device[process][h]) = live[h]

\* letify-driver/src/table.rs:14 "refuses locally once the budget is gone": what the table
\* accepted, the device has room for.
AcceptedFits == refused = {}
=============================================================================
