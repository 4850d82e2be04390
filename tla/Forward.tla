------------------------------- MODULE Forward -------------------------------
(***************************************************************************)
(* A PyTorch program forwarded to the runtime (remoting/device/client.py): *)
(* operators are queued, captured into steps and sent in batches, handles  *)
(* are released when the program drops their tensors, and only a read      *)
(* waits.  The program is one thread; beside it run the linger thread, the *)
(* sender thread, a thread that awaits a read, and the executor.           *)
(* The eager table is what the same program computes without forwarding.   *)
(***************************************************************************)
EXTENDS DeviceExecutor

CONSTANTS Programs,     \* the programs to forward, sequences of instructions
          Vars,         \* the names the program binds tensors to
          BatchOps,     \* BATCH_OPS
          UnreadLimit,  \* UNREAD_LIMIT
          Described,    \* DESCRIBED_OUTPUTS
          DeadLimit,    \* DEAD_LIMIT
          Crashes,      \* whether the worker can be lost
          Preempts      \* the threads that can send a batch between take and the append

ASSUME ForwardAssumption ==
  Crashes \in BOOLEAN /\ Preempts \subseteq {"linger", "side"} /\ Described \in Nat \ {0}

VARIABLES
  program, ip, pc, held, cur,   \* the program, its position, the entry or count it has in hand
  env, eager, broken,           \* its bindings, the eager table, whether an operator was bad
  client,                       \* the Client
  reads, raised,                \* Pending and Waiter objects, and whether an error was raised
  side, lock,                   \* the thread in Fetch.__await__, and _request_lock
  wire, back, worker, up        \* messages both ways, the Executor, whether it can be reached

threads == <<side, lock>>
remote == <<back, worker, up>>
vars == <<program, ip, pc, held, cur, env, eager, broken, client, reads, raised, threads, wire, remote>>

Unknown == <<"unknown">>
Ok == <<"ok">>
NoEntry == [k |-> "none"]

Init ==
  /\ program \in Programs /\ ip = 1 /\ pc = "ready" /\ held = NoEntry /\ cur = 0
  /\ env = [v \in Vars |-> 0] /\ eager = NewExecutor /\ broken = FALSE
  /\ client = [tracer |-> NewTracer, steps |-> <<>>, templates |-> {}, queue |-> <<>>,
               released |-> {}, dead |-> {}, upto |-> 1, next |-> 1, outbox |-> <<>>,
               sending |-> <<>>, replies |-> <<>>, deferred |-> FALSE, lost |-> FALSE,
               closed |-> FALSE, direct |-> <<>>]
  /\ reads = <<>> /\ raised = FALSE /\ side = [pc |-> "idle", r |-> 0] /\ lock = "free"
  /\ wire = <<>> /\ back = <<>> /\ worker = NewExecutor /\ up = TRUE

I == program[ip]
active == client.tracer.active
Step(c, sid) == c.steps[sid]
Bound(names) == [i \in DOMAIN names |-> env[names[i]]]
Fresh(c, names) == [i \in DOMAIN names |-> c.next + i - 1]

-----------------------------------------------------------------------------
\* _reads: the handles an entry reads.
Reads(e) == CASE e.k = "op" -> ToSet(e.ins) [] e.k = "step" -> ToSet(e.externals)
              [] e.k = "fetch" -> {e.h} [] OTHER -> {}
ReadBy(entries) == UNION {Reads(entries[i]) : i \in DOMAIN entries}

\* _keep: the offsets of a step entry the executor must not drop yet.
Kept(c, e, after, dead) ==
  LET frees == UNION {Frees(Step(c, e.sid), p) : p \in e.start + 1 .. e.stop}
      read == ToSet(c.tracer.active.externals) \union ReadBy(after)
  IN  {o \in frees : e.first + o \notin dead \/ e.first + o \in read}
Filled(c, entries, pending, dead) ==
  [i \in DOMAIN entries |->
     IF entries[i].k = "step"
     THEN [entries[i] EXCEPT !.keep =
             Kept(c, entries[i], SubSeq(entries, i + 1, Len(entries)) \o pending, dead)]
     ELSE entries[i]]
Lowest(c, entries) ==
  Bottom({IF c.tracer.active.sid # 0 THEN c.tracer.active.first ELSE c.next}
           \union {entries[i].first : i \in {j \in DOMAIN entries : entries[j].k = "step"}})
Trimmed(c, entries, pending, dead) ==
  IF Cardinality(dead) > DeadLimit /\ \E i \in DOMAIN entries : entries[i].k = "step"
  THEN {h \in dead : h >= Lowest(c, entries \o pending)} ELSE dead

\* Every handle below this one is made by an entry already sent or in this batch.
Upto(c, entries) ==
  LET making == {i \in DOMAIN entries : entries[i].k = "step"
                                        \/ (entries[i].k = "op" /\ entries[i].outs # <<>>)}
      e == entries[Top(making)]
      made == IF e.k = "step" THEN e.first + NewsBefore(Step(c, e.sid), e.stop)
              ELSE IF e.want = "describe" THEN e.outs[1] + Described ELSE Last(e.outs) + 1
  IN  IF making = {} THEN c.upto ELSE Top({c.upto, made})

\* The reads among the entries of a batch, in their order.
Owns(e) == IF e.k = "fetch" /\ e.id # 0 THEN <<e.id>> ELSE <<>>
Consumers(entries) == FlattenSeq([i \in DOMAIN entries |-> Owns(entries[i])])
Unsent(c) == Len(c.outbox) + Len(c.sending)

\* Mutant: a request is noted before the reads of its batch.
NotedFirst(entries, waiter) == waiter \o Consumers(entries)
Noted(entries, waiter) == Consumers(entries) \o waiter

Direct(c, waiter) == waiter # <<>> /\ Unsent(c) = 0 /\ c.replies = <<>>

\* _flush of the first n entries and what a request adds.
Flush(c, n, extra, waiter) ==
  LET pending == SubSeq(c.queue, n + 1, Len(c.queue))
      raw == SubSeq(c.queue, 1, n) \o extra
      dead == c.dead \union c.released
      upto == Upto(c, raw)
      waits == pending # <<>> \/ Untaken(c.tracer.active)
      release == IF waits THEN {} ELSE {h \in c.released : h < upto}
      consumers == Noted(raw, waiter)
      message == [entries |-> Filled(c, raw, pending, dead), release |-> release,
                  reply |-> consumers # <<>>, close |-> FALSE]
      taken == [c EXCEPT !.queue = pending, !.dead = Trimmed(c, raw, pending, dead),
                         !.upto = upto, !.released = @ \ release]
  IN  IF raw = <<>> /\ release = {} /\ consumers = <<>> THEN taken
      ELSE [taken EXCEPT !.replies = IF consumers # <<>> THEN Append(@, consumers) ELSE @,
                         !.direct = IF Direct(c, waiter) THEN <<message>> ELSE @,
                         !.outbox = IF Direct(c, waiter) THEN @ ELSE Append(@, message)]
FlushAll(c, extra, waiter) == Flush(c, Len(c.queue), extra, waiter)

\* Mutant: the releases taken are not put back.
FlushThroughLoses(c, r) ==
  LET at == {i \in DOMAIN c.queue : c.queue[i].k = "fetch" /\ c.queue[i].id = r}
  IN  IF at = {} THEN [c EXCEPT !.released = {}] ELSE Flush(c, Top(at), <<>>, <<>>)
\* _flush(through=...): nothing when the read has left the queue.
FlushThrough(c, r) ==
  LET at == {i \in DOMAIN c.queue : c.queue[i].k = "fetch" /\ c.queue[i].id = r}
  IN  IF at = {} THEN [c EXCEPT !.dead = @ \union c.released]
      ELSE Flush(c, Top(at), <<>>, <<>>)

\* _enqueue, which sends when the batch is full or its first entry has waited LINGER_S.
Enqueue(c, e, check, due) ==
  LET longer == [c EXCEPT !.queue = Append(@, e)]
  IN  IF check /\ (due \/ Len(longer.queue) >= BatchOps) THEN FlushAll(longer, <<>>, <<>>)
      ELSE longer

\* _template: a new operator is defined once, ahead of the entry that uses it.
Defines(c, op) == IF op \in c.templates THEN <<>> ELSE <<[k |-> "define", op |-> op]>>
Template(c, op) == [c EXCEPT !.templates = @ \union {op}, !.queue = @ \o Defines(c, op)]

\* _dependency_cut: how many queued entries a read of h needs; all of them when one of those
\* after the one that makes h writes in place.
\* Mutant: only steps are looked at.
WritesSteps(c, e) == e.k = "step" /\ \E p \in DOMAIN Step(c, e.sid) : Step(c, e.sid)[p].op \in Mutating
Writes(c, e) == \/ e.k = "op" /\ e.op \in Mutating
                \/ e.k = "step" /\ \E p \in DOMAIN Step(c, e.sid) : Step(c, e.sid)[p].op \in Mutating
Makes(c, e, h) ==
  \/ e.k = "op" /\ e.want # "describe" /\ h \in ToSet(e.outs)
  \/ e.k = "step" /\ h >= e.first /\ h < e.first + NewsBefore(Step(c, e.sid), e.stop)
Stops(c, h) == {i \in DOMAIN c.queue : Writes(c, c.queue[i]) \/ Makes(c, c.queue[i], h)}
NeedsAll(c, h) == c.tracer.active.pos > 0 \/ (Stops(c, h) # {} /\ Writes(c, c.queue[Top(Stops(c, h))]))
DependencyCut(c, h) == IF NeedsAll(c, h) THEN Len(c.queue) ELSE Top({0} \union Stops(c, h))

-----------------------------------------------------------------------------
\* The client hands a message it sends itself to the wire.
Puts(c) ==
  /\ client' = [c EXCEPT !.direct = <<>>, !.lost = @ \/ (c.direct # <<>> /\ ~up)]
  /\ wire' = IF up THEN wire \o c.direct ELSE wire

\* Ref.__del__: a handle no name is bound to any more.
Binds(c, names, handles) ==
  LET now == [v \in Vars |-> IF v \in ToSet(names)
                             THEN handles[CHOOSE i \in DOMAIN names : names[i] = v] ELSE env[v]]
      gone == {env[v] : v \in Vars} \ ({now[v] : v \in Vars} \union {0})
  IN  /\ env' = now
      /\ Puts([c EXCEPT !.released = @ \union gone])

Advances == ip' = ip + 1 /\ pc' = "ready" /\ held' = NoEntry
Proceeds == /\ pc \in {"ready", "drained"} /\ ip <= Len(program) /\ ~client.lost /\ ~client.closed
            /\ I.k = "later" => pc = "drained" \/ Len(client.replies) < UnreadLimit
            /\ I.k \in {"fetch", "item", "sync", "count", "describe", "close"} => lock = "free"

Content(h) == IF broken THEN Unknown ELSE eager.cells[eager.tensors[h]]
Eagerly(outs) ==
  /\ broken' = (broken \/ I.bad)
  /\ eager' = IF I.bad THEN [eager EXCEPT !.tensors = [h \in Handles |-> IF h \in ToSet(outs) THEN h ELSE @[h]]]
              ELSE Applied(eager, I.op, Bound(I.ins), outs)

Matching == active.sid # 0 /\ Matches(Step(client, active.sid), active, I.op, Bound(I.ins))
Completes == active.pos + 1 = Len(Step(client, active.sid))

\* Whether the instruction first turns the operators matched so far into an entry.
Takes ==
  CASE I.k = "op" -> IF Matching THEN Completes ELSE Untaken(active)
    [] I.k \in {"fetch", "item"} -> Untaken(active) /\ NeedsAll(client, env[I.ins[1]])
    [] I.k \in {"wait", "await", "del"} -> FALSE
    [] OTHER -> Untaken(active)

\* take: from here until the append the entry is in neither the tracer nor the queue.
Take ==
  /\ Proceeds /\ Takes
  /\ LET now == IF I.k = "op" /\ Matching THEN Advance(active, Bound(I.ins), I.bad) ELSE active
     IN  /\ held' = Entry(now) /\ client' = [client EXCEPT !.tracer.active = Taken(now)]
  /\ pc' = "append"
  /\ lock' = IF I.k \in {"fetch", "item", "sync", "count", "describe", "close"} THEN "main" ELSE lock
  /\ UNCHANGED <<program, ip, cur, env, eager, broken, reads, raised, side, wire, remote>>

\* The rest of the instruction, with the entry queued first when there is one.
Rest == pc = "append" \/ (Proceeds /\ ~Takes)
Appended(check, due) == IF pc = "append" THEN Enqueue(client, held, check, due) ELSE client

\* An operator the active step expects next, before its last.
MatchOp ==
  /\ Rest /\ pc # "append" /\ I.k = "op" /\ Matching
  /\ LET outs == Fresh(client, I.outs)
     IN  /\ Eagerly(outs)
         /\ Binds([client EXCEPT !.next = @ + Len(outs),
                                 !.tracer.active = Advance(active, Bound(I.ins), I.bad)], I.outs, outs)
  /\ Advances
  /\ UNCHANGED <<program, cur, reads, raised, threads, remote>>

\* The last operator of a repetition: its entry is queued and the next repetition begins.
MatchLast ==
  /\ pc = "append" /\ I.k = "op" /\ active.pos = Len(Step(client, active.sid))
  /\ \E due \in BOOLEAN :
       LET outs == Fresh(client, I.outs)
           c == [Appended(TRUE, due) EXCEPT !.next = @ + Len(outs)]
       IN  /\ Eagerly(outs)
           /\ Binds([c EXCEPT !.tracer = Begin(@, active.sid, c.next)], I.outs, outs)
  /\ Advances
  /\ UNCHANGED <<program, cur, reads, raised, threads, remote>>

\* An operator sent by itself, after what was matched of the step it does not continue.
SentAlone(due) ==
  LET outs == Fresh(client, I.outs)
      fell == [Appended(TRUE, due) EXCEPT !.tracer = IF active.sid # 0 THEN NewTracer ELSE @,
                                          !.next = @ + Len(outs)]
  IN  Enqueue(Template(fell, I.op),
              [k |-> "op", op |-> I.op, ins |-> Bound(I.ins), outs |-> outs, bad |-> I.bad, want |-> ""],
              TRUE, due)

\* When the operator ends a second equal stretch, the stretch becomes a step, defined once.
Captured(c, records) ==
  LET step == Found(records)
      known == {s \in DOMAIN c.steps : c.steps[s] = step}
      sid == IF known = {} THEN Len(c.steps) + 1 ELSE Top(known)
      defined == IF known # {} THEN c
                 ELSE [c EXCEPT !.steps = Append(@, step),
                         !.queue = Append(@, [k |-> "step_define", sid |-> sid, ops |-> step])]
  IN  IF step = <<>> THEN [c EXCEPT !.tracer.records = records]
      ELSE [defined EXCEPT !.tracer = Begin(Reset(@), sid, c.next)]

SendOp ==
  /\ Rest /\ I.k = "op" /\ (pc = "append" => active.pos < Len(Step(client, active.sid)))
  /\ pc # "append" => ~Matching
  /\ \E due \in BOOLEAN :
       LET sent == SentAlone(due)
           outs == Fresh(client, I.outs)
       IN  /\ Eagerly(outs)
           /\ Binds(Captured(sent, Recorded(sent.tracer, I.op, Bound(I.ins), outs)), I.outs, outs)
  /\ Advances
  /\ UNCHANGED <<program, cur, reads, raised, threads, remote>>

Delete ==
  /\ Proceeds /\ I.k = "del" /\ Binds(client, <<I.outs[1]>>, <<0>>) /\ Advances
  /\ UNCHANGED <<program, cur, eager, broken, reads, raised, threads, remote>>

\* call(reply=False): an entry that asks for no result.
Post ==
  /\ Rest /\ I.k = "post"
  /\ \E due \in BOOLEAN : Puts(Enqueue(Appended(FALSE, FALSE), [k |-> "live"], TRUE, due))
  /\ Advances
  /\ UNCHANGED <<program, cur, env, eager, broken, reads, raised, threads, remote>>

\* read_later and read_pending: the read is an entry like the others, and the target is empty.
ReadLater ==
  /\ Rest /\ I.k = "later"
  /\ \E due \in BOOLEAN :
       LET r == Len(reads) + 1
           h == env[I.ins[1]]
       IN  /\ Puts(Enqueue(Appended(FALSE, FALSE), [k |-> "fetch", h |-> h, id |-> r], TRUE, due))
           /\ reads' = Append(reads, [exp |-> Content(h), done |-> FALSE, val |-> Unknown,
                                      waiter |-> FALSE])
  /\ Advances
  /\ UNCHANGED <<program, cur, env, eager, broken, raised, threads, remote>>

-----------------------------------------------------------------------------
\* _request: fetch, read_value, synchronize, live_handles and execute_now.
Waits(c, exp) ==
  /\ Puts(c) /\ reads' = Append(reads, [exp |-> exp, done |-> FALSE, val |-> Unknown, waiter |-> TRUE])
  /\ cur' = Len(reads) + 1 /\ pc' = "reply" /\ lock' = "main" /\ held' = NoEntry
  /\ UNCHANGED <<program, ip, env, raised, side, remote>>
Waiter == <<Len(reads) + 1>>

\* The queue is cut for a read before the batch is taken, and only the request lock spans the two.
Cuts ==
  /\ Proceeds /\ I.k \in {"fetch", "item"} /\ ~NeedsAll(client, env[I.ins[1]])
  /\ held' = [k |-> "cut", n |-> DependencyCut(client, env[I.ins[1]])]
  /\ pc' = "cut" /\ lock' = "main"
  /\ UNCHANGED <<program, ip, cur, env, eager, broken, client, reads, raised, side, wire, remote>>

\* The linger thread sent the whole queue in between: the batch is taken from an empty queue,
\* which raises IndexError.
CutRaises ==
  /\ pc = "cut" /\ held.n > 0 /\ client.queue = <<>>
  /\ client' = [client EXCEPT !.dead = @ \union client.released, !.released = {}]
  /\ pc' = "stopped" /\ lock' = "free" /\ held' = NoEntry
  /\ UNCHANGED <<program, ip, cur, env, eager, broken, reads, raised, side, wire, remote>>

\* How many entries a read sends, when those it was cut at are there.
CutAt(c) == IF pc = "cut" THEN held.n ELSE Len(c.queue)
Requests(kind) ==
  /\ (pc = "cut" \/ Rest) /\ I.k = kind
  /\ IF pc = "cut" THEN held.n <= Len(client.queue) ELSE pc = "append" \/ NeedsAll(client, env[I.ins[1]])

Fetch ==
  /\ Requests("fetch")
  /\ LET h == env[I.ins[1]]
         c == Appended(FALSE, FALSE)
     IN  Waits(Flush(c, CutAt(c), <<[k |-> "fetch", h |-> h, id |-> 0]>>, Waiter), Content(h))
  /\ UNCHANGED <<eager, broken>>
\* read_value defines its template, when it is new, in the message that uses it.
ReadValue ==
  /\ Requests("item")
  /\ LET h == env[I.ins[1]]
         c == Appended(FALSE, FALSE)
         e == [k |-> "op", op |-> "item", ins |-> <<h>>, outs |-> <<>>, bad |-> FALSE, want |-> "value"]
     IN  Waits(Flush([c EXCEPT !.templates = @ \union {"item"}], CutAt(c),
                     Append(Defines(c, "item"), e), Waiter), Content(h))
  /\ UNCHANGED <<eager, broken>>
Synchronize ==
  /\ Rest /\ I.k = "sync"
  /\ Waits(FlushAll(Appended(FALSE, FALSE), <<[k |-> "live"]>>, Waiter), IF broken THEN Unknown ELSE Ok)
  /\ UNCHANGED <<eager, broken>>
LiveHandles ==
  /\ Rest /\ I.k = "count"
  /\ Waits(FlushAll(FlushAll(Appended(FALSE, FALSE), <<>>, <<>>), <<[k |-> "count"]>>, Waiter),
           IF broken THEN Unknown ELSE <<"count", Cardinality({env[v] : v \in Vars} \ {0})>>)
  /\ UNCHANGED <<eager, broken>>
\* execute_now: an operator whose outputs only the runtime can describe.
ExecuteNow ==
  /\ Rest /\ I.k = "describe"
  /\ \E due \in BOOLEAN :
       LET c == [Appended(TRUE, due) EXCEPT !.tracer = NewTracer]
           outs == Fresh(c, I.outs)
           e == [k |-> "op", op |-> I.op, ins |-> Bound(I.ins), outs |-> outs, bad |-> I.bad,
                 want |-> "describe"]
       IN  /\ Eagerly(outs)
           /\ Waits(FlushAll([c EXCEPT !.next = @ + Described, !.templates = @ \union {I.op}],
                             Append(Defines(c, I.op), e), Waiter), IF broken' THEN Unknown ELSE Ok)

\* A request that is answered raises the oldest failure not yet reported, or returns.
Returns ==
  /\ pc = "reply" /\ reads[cur].done
  /\ LET bad == client.deferred \/ reads[cur].val = Failure
         first == client.next - Described
     IN  /\ raised' = (raised \/ bad)
         /\ reads' = [reads EXCEPT ![cur].val = IF bad THEN Failure ELSE @]
         /\ IF I.k = "describe" /\ ~bad
            THEN Binds([client EXCEPT !.deferred = FALSE], I.outs, [i \in DOMAIN I.outs |-> first + i - 1])
            ELSE Puts([client EXCEPT !.deferred = FALSE]) /\ UNCHANGED env
  /\ lock' = "free" /\ cur' = 0 /\ Advances
  /\ UNCHANGED <<program, eager, broken, side, remote>>

\* wait: the read is sent when it is still queued, and replies are read until it is there.
StartWait ==
  /\ Proceeds /\ I.k = "wait" /\ lock = "free" /\ lock' = "main"
  /\ IF reads[I.r].done THEN client' = client /\ wire' = wire ELSE Puts(FlushThrough(client, I.r))
  /\ cur' = I.r /\ pc' = "waiting"
  /\ UNCHANGED <<program, ip, held, env, eager, broken, reads, raised, side, remote>>
EndWait ==
  /\ pc = "waiting" /\ reads[cur].done /\ lock' = "free" /\ cur' = 0
  /\ raised' = (raised \/ reads[cur].val = Failure)
  /\ Advances
  /\ UNCHANGED <<program, env, eager, broken, client, reads, side, wire, remote>>

\* Fetch.__await__ waits on a thread of its own.
Await ==
  /\ Proceeds /\ I.k = "await" /\ side.pc = "idle" /\ side' = [pc |-> "start", r |-> I.r] /\ Advances
  /\ UNCHANGED <<program, cur, env, eager, broken, client, reads, raised, lock, wire, remote>>
SideStarts ==
  /\ side.pc = "start" /\ lock = "free" /\ (pc # "append" \/ "side" \in Preempts)
  /\ IF reads[side.r].done \/ client.lost \/ client.closed
     THEN side' = [side EXCEPT !.pc = "idle"] /\ UNCHANGED <<client, wire, lock>>
     ELSE Puts(FlushThrough(client, side.r)) /\ lock' = "side" /\ side' = [side EXCEPT !.pc = "waiting"]
  /\ UNCHANGED <<program, ip, pc, held, cur, env, eager, broken, reads, raised, remote>>
SideEnds ==
  /\ side.pc = "waiting" /\ reads[side.r].done /\ side' = [side EXCEPT !.pc = "idle"] /\ lock' = "free"
  /\ UNCHANGED <<program, ip, pc, held, cur, env, eager, broken, client, reads, raised, wire, remote>>

-----------------------------------------------------------------------------
\* _receive: the oldest reply goes to the consumers of the oldest message that wanted one.
Received(reply) ==
  LET owners == Head(client.replies)
      Given(r) == LET i == CHOOSE j \in DOMAIN owners : owners[j] = r
                  IN  IF ~reads[r].waiter THEN reply.results[i]
                      ELSE IF reply.failure THEN Failure
                      ELSE IF reads[r].exp = Ok \/ reply.results = <<>> THEN Ok
                      ELSE Last(reply.results)
      noted == \E r \in ToSet(owners) : reads[r].waiter \/ Given(r) = Failure
  IN  /\ reads' = [r \in DOMAIN reads |-> IF r \in ToSet(owners)
                                          THEN [reads[r] EXCEPT !.done = TRUE, !.val = Given(r)] ELSE reads[r]]
      /\ client' = [client EXCEPT !.replies = Tail(@), !.deferred = @ \/ (reply.failure /\ ~noted)]
      /\ back' = Tail(back)

Wants1(thread) ==
  \/ thread = "main" /\ pc \in {"reply", "waiting"} /\ ~reads[cur].done
  \/ thread = "side" /\ side.pc = "waiting" /\ ~reads[side.r].done
Receive ==
  /\ lock \in {"main", "side"} /\ Wants1(lock) /\ back # <<>> /\ Received(Head(back))
  /\ UNCHANGED <<program, ip, pc, held, cur, env, eager, broken, raised, threads, wire, worker, up>>
\* A program that leaves many replies unread takes one before its next read.
Drain ==
  /\ pc = "ready" /\ ip <= Len(program) /\ I.k = "later" /\ Len(client.replies) >= UnreadLimit
  /\ lock = "free" /\ ~client.lost /\ back # <<>> /\ Received(Head(back)) /\ pc' = "drained"
  /\ UNCHANGED <<program, ip, held, cur, env, eager, broken, raised, threads, wire, worker, up>>

\* The channel ended: whoever reads it, or dispatches after a failed send, gets RuntimeLost.
Lost ==
  /\ \/ back = <<>> /\ ~up /\ lock = "main" /\ Wants1("main") /\ lock' = "free"
     \/ pc \in {"ready", "drained"} /\ (client.lost \/ (~up /\ Len(client.replies) >= UnreadLimit /\ back = <<>>))
        /\ UNCHANGED lock
  /\ pc' = "lost" /\ client' = [client EXCEPT !.lost = TRUE]
  /\ UNCHANGED <<program, ip, held, cur, env, eager, broken, reads, raised, side, wire, remote>>
SideLost ==
  /\ back = <<>> /\ ~up /\ lock = "side" /\ Wants1("side") /\ lock' = "free"
  /\ side' = [side EXCEPT !.pc = "idle"] /\ client' = [client EXCEPT !.lost = TRUE]
  /\ UNCHANGED <<program, ip, pc, held, cur, env, eager, broken, reads, raised, wire, remote>>

\* _linger sends what has stayed queued for IDLE_S.
Linger ==
  /\ client.queue # <<>> /\ ~client.lost /\ ~client.closed /\ (pc # "append" \/ "linger" \in Preempts)
  /\ Puts(FlushAll(client, <<>>, <<>>))
  /\ UNCHANGED <<program, ip, pc, held, cur, env, eager, broken, reads, raised, threads, remote>>

\* _send_loop: a batch counts as unsent until its write has returned.
SendTake ==
  /\ client.outbox # <<>> /\ client.sending = <<>> /\ (up \/ ~client.lost)
  /\ client' = [client EXCEPT !.sending = <<Head(client.outbox)>>, !.outbox = Tail(@)]
  /\ UNCHANGED <<program, ip, pc, held, cur, env, eager, broken, reads, raised, threads, wire, remote>>
SendDone ==
  /\ client.sending # <<>>
  /\ client' = [client EXCEPT !.sending = <<>>, !.lost = @ \/ ~up]
  /\ wire' = IF up THEN wire \o client.sending ELSE wire
  /\ UNCHANGED <<program, ip, pc, held, cur, env, eager, broken, reads, raised, threads, remote>>

\* close: everything queued is sent, then the message that ends the executor.
Close ==
  /\ Rest /\ I.k = "close"
  /\ Puts([FlushAll(Appended(FALSE, FALSE), <<>>, <<>>) EXCEPT !.closed = TRUE,
             !.outbox = Append(@, [entries |-> <<>>, release |-> {}, reply |-> FALSE, close |-> TRUE])])
  /\ lock' = "free" /\ pc' = "closing" /\ held' = NoEntry
  /\ UNCHANGED <<program, ip, cur, env, eager, broken, reads, raised, side, remote>>
Closed ==
  /\ pc = "closing" /\ (Unsent(client) = 0 \/ ~up) /\ Advances
  /\ UNCHANGED <<program, cur, env, eager, broken, client, reads, raised, threads, wire, remote>>

\* serve_transport.
WorkerRuns ==
  /\ up /\ wire # <<>> /\ wire' = Tail(wire)
  /\ IF Head(wire).close THEN up' = FALSE /\ UNCHANGED <<worker, back>>
     ELSE LET done == RunMessage(worker, Head(wire))
          IN  /\ worker' = done.table /\ UNCHANGED up
              /\ back' = IF Head(wire).reply
                         THEN Append(back, [results |-> done.results, failure |-> done.failure]) ELSE back
  /\ UNCHANGED <<program, ip, pc, held, cur, env, eager, broken, client, reads, raised, threads>>
WorkerDies ==
  /\ Crashes /\ up /\ up' = FALSE /\ wire' = <<>>
  /\ UNCHANGED <<program, ip, pc, held, cur, env, eager, broken, client, reads, raised, threads, back, worker>>

Over == pc \in {"lost", "stopped"} \/ (pc = "ready" /\ ip > Len(program))
Rests == Over /\ side.pc = "idle" /\ UNCHANGED vars

Next ==
  \/ Take \/ MatchOp \/ MatchLast \/ SendOp \/ Delete \/ Post \/ ReadLater
  \/ Cuts \/ CutRaises \/ Fetch \/ ReadValue \/ Synchronize \/ LiveHandles \/ ExecuteNow \/ Returns
  \/ StartWait \/ EndWait \/ Await \/ SideStarts \/ SideEnds
  \/ Receive \/ Drain \/ Lost \/ SideLost \/ Linger \/ SendTake \/ SendDone
  \/ Close \/ Closed \/ WorkerRuns \/ WorkerDies \/ Rests
Spec == Init /\ [][Next]_vars
-----------------------------------------------------------------------------
\* What a read asked for before any operator was bad is what the program computes without
\* forwarding, and a later read gives a value only after the failure has been raised, is held
\* for the next request, or is on a read of the program: _flush, _keep, _dependency_cut.
Informed == raised \/ client.deferred \/ \E r \in DOMAIN reads : reads[r].val = Failure
ReadsHonest == \A r \in DOMAIN reads : reads[r].done =>
                 IF reads[r].exp # Unknown THEN reads[r].val = reads[r].exp
                 ELSE reads[r].val = Failure \/ Informed

\* The executor is never asked for a handle, template or step it does not hold, unless an
\* operator failed before: releases, kept offsets and definitions are ordered with entries.
NothingMissing == worker.missed => broken

\* client.py:545 "Take ``count`` entries, or all, plus ``extra``, and hand them to the sender
\* thread.", of the entries a read is cut at.
CutsTaken == pc # "stopped"

\* Once nothing is queued or in flight, the executor holds for every name of the program the
\* content the program computes, through whatever mixture of operators and steps it was sent.
Quiet == /\ client.queue = <<>> /\ ~Untaken(active) /\ Unsent(client) = 0 /\ wire = <<>>
         /\ pc \notin {"append", "reply"}
WorkerAgrees == Quiet /\ ~broken /\ up =>
  \A v \in Vars : env[v] # 0 =>
    /\ worker.tensors[env[v]] # 0
    /\ worker.cells[worker.tensors[env[v]]] = eager.cells[eager.tensors[env[v]]]

\* A handle the program dropped is dropped by the executor or still has its release to send.
NoLeak == Quiet /\ ~broken /\ up =>
  \A h \in Handles : worker.tensors[h] # 0 =>
    h \in client.released \/ \E v \in Vars : env[v] = h

\* The reads the results of a message are for, in the order of its entries; 0 for the entry of
\* the request that sent it.
Asks(e) == IF Wants(e) THEN <<IF e.k = "fetch" THEN e.id ELSE 0>> ELSE <<>>
Asked(entries) == FlattenSeq([i \in DOMAIN entries |-> Asks(entries[i])])
Answers(message) == IF message.reply THEN <<message>> ELSE <<>>
Replying(messages) == FlattenSeq([i \in DOMAIN messages |-> Answers(messages[i])])

\* The i-th read of a batch owns the i-th result, and a request comes behind the reads.
Owned(message, owners, table) ==
  LET asked == Asked(message.entries)
  IN  /\ Len(asked) <= Len(owners)
      /\ \A i \in DOMAIN owners :
           IF table[owners[i]].waiter THEN i = Len(owners) /\ (i \in DOMAIN asked => asked[i] = 0)
           ELSE i \in DOMAIN asked /\ asked[i] = owners[i]

Queued(c, r) == \E i \in DOMAIN c.queue : c.queue[i].k = "fetch" /\ c.queue[i].id = r
Owes(c, r) == \E k \in DOMAIN c.replies : r \in ToSet(c.replies[k])

\* Every reply on its way is for the readers it will be handed to, and a read is outstanding,
\* queued or owed a reply but not both, until it is done: the messages of three threads reach
\* the wire in the order in which their readers were noted (_flush, _send_loop, _receive).
RepliesOwned ==
  /\ up => LET asking == Replying(wire \o client.sending \o client.outbox)
            n == Len(back)
        IN  /\ Len(client.replies) = n + Len(asking)
            /\ \A i \in DOMAIN asking : Owned(asking[i], client.replies[n + i], reads)
  /\ \A r \in DOMAIN reads : reads[r].done <=> ~Queued(client, r) /\ ~Owes(client, r)
  /\ \A r \in DOMAIN reads : ~(Queued(client, r) /\ Owes(client, r))

TypeOK ==
  /\ program \in Programs /\ ip \in 1 .. Len(program) + 1 /\ cur \in 0 .. Len(reads)
  /\ pc \in {"ready", "drained", "append", "reply", "waiting", "closing", "lost", "cut", "stopped"}
  /\ pc = "cut" => client.queue = <<>> \/ held.n <= Len(client.queue)
  /\ env \in [Vars -> Handles \union {0}] /\ client.released \subseteq Handles
  /\ client.direct = <<>> /\ Len(client.sending) <= 1 /\ lock \in {"free", "main", "side"}
  /\ worker.tensors \in [Handles -> Handles \union {0}] /\ {broken, raised, up} \subseteq BOOLEAN
=============================================================================
