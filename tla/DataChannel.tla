------------------------------ MODULE DataChannel ------------------------------
(***************************************************************************)
(* The channel of a Modal sandbox (SandboxChannel in providers/modal.py,   *)
(* _listen and _read in protocol/worker.py): after each hello the frames   *)
(* move from the sandbox's standard streams to a data connection of        *)
(* several lanes, and back when the worker moves to another interpreter.   *)
(* The lease thread renews beside it, over the connection it finds.        *)
(* What is read in turns on one connection is Connection's subject.        *)
(***************************************************************************)
EXTENDS Integers, Sequences

CONSTANTS Lanes,     \* the lanes of a data connection
          MaxMoves,  \* how often the worker moves to another interpreter
          MaxAsks,   \* how many renewals and calls are sent
          Apart      \* whether no renewal begins while the channel opens or moves

VARIABLES
  main,              \* the thread that opens the channel, moves the worker and calls it
  conn,              \* SandboxChannel._connection: 0 for the standard streams, else the data connection
  opened,            \* data connections opened so far; only the last one can be open
  lane,              \* its sockets: none, open (the token sent), failed
  shut,              \* whether this side has closed them
  held,              \* the connection whose gate the move holds, or -1
  renewal, on,       \* the lease thread: idle, picked, sent, lost; and the connection it picked
  moves, asks,
  stdin, stdout,     \* frames on the sandbox's standard streams
  inward, outward,   \* frames on the data connection
  worker,            \* stub, reads, listens, deaf (its reading thread is gone), gone
  source,            \* what a worker that reads reads from: 0 or a data connection
  known,             \* the lanes _listen has authenticated
  dropped            \* whether the worker has closed the data connection

clientVars == <<main, conn, opened, lane, shut, held, moves>>
renewVars == <<renewal, on>>
workerVars == <<worker, source, known, dropped>>
channelVars == <<clientVars, renewVars, asks, stdin, stdout, inward, outward, workerVars>>

NoLanes == [l \in Lanes |-> "none"]
ChannelInit ==
  /\ main = "hello" /\ conn = 0 /\ opened = 0 /\ lane = NoLanes /\ shut = TRUE /\ held = -1
  /\ renewal = "off" /\ on = 0 /\ moves = 0 /\ asks = 0
  /\ stdin = <<"source">> /\ stdout = <<>> /\ inward = <<>> /\ outward = <<>>
  /\ worker = "stub" /\ source = 0 /\ known = {} /\ dropped = TRUE

-----------------------------------------------------------------------------
(* A request over connection c, and the head of what comes back over it. *)

Goes(c, what) ==
  IF c = 0 THEN stdin' = Append(stdin, what) /\ UNCHANGED inward
           ELSE inward' = Append(inward, what) /\ UNCHANGED stdin
\* A send over sockets that this side has closed fails; once the far side has, it may.
Sendable(c) == c = 0 \/ (c = opened /\ ~shut)
Fails(c) == worker = "gone" \/ (c > 0 /\ (c < opened \/ shut \/ dropped))
Comes(c, what) ==
  IF c = 0 THEN /\ stdout # <<>> /\ Head(stdout) = what /\ stdout' = Tail(stdout) /\ UNCHANGED outward
           ELSE /\ c = opened /\ ~shut /\ outward # <<>> /\ Head(outward) = what
                /\ outward' = Tail(outward) /\ UNCHANGED stdout

-----------------------------------------------------------------------------
(* The main thread: start or _send_worker, _await_ready, _open_data. *)

StdioHello ==
  /\ main = "hello" /\ Comes(0, "hello") /\ main' = "listen"
  /\ UNCHANGED <<conn, opened, lane, shut, held, moves, renewVars, asks, stdin, inward, workerVars>>
Listen ==
  /\ main = "listen" /\ Goes(0, "listen") /\ main' = "asked"
  /\ opened' = opened + 1 /\ lane' = NoLanes /\ shut' = FALSE /\ outward' = <<>>
  /\ UNCHANGED <<conn, held, moves, renewVars, asks, stdout, workerVars>>
\* The renewals begin once boot has armed the lease, which is after the first opening.
ReadyNow == main' = "ready" /\ held' = -1 /\ renewal' = (IF renewal = "off" THEN "idle" ELSE renewal)
\* Mutant: the sockets are left open.
FallbackOpen == ReadyNow /\ UNCHANGED <<conn, opened, lane, shut, moves, on, asks>>
\* _await_ready, except: whatever went wrong, the sockets are closed and the frames stay.
Fallback == ReadyNow /\ shut' = TRUE /\ UNCHANGED <<conn, opened, lane, moves, on, asks>>

Answered ==
  /\ main = "asked" /\ Comes(0, "listening") /\ main' = "lanes"
  /\ UNCHANGED <<conn, opened, lane, shut, held, moves, renewVars, asks, stdin, inward, workerVars>>
ListenRefused ==
  /\ main = "asked" /\ Comes(0, "refused") /\ Fallback
  /\ UNCHANGED <<stdin, inward, workerVars>>
\* The tunnel's proxy may take a connection that nobody in the sandbox accepts.
LaneOpens(l) ==
  /\ main = "lanes" /\ lane[l] = "none" /\ \E e \in {"open", "failed"} : lane' = [lane EXCEPT ![l] = e]
  /\ UNCHANGED <<main, conn, opened, shut, held, moves, renewVars, asks, stdin, stdout, inward, outward,
                 workerVars>>
TunnelFails ==
  /\ main = "lanes" /\ lane = NoLanes /\ Fallback
  /\ UNCHANGED <<stdin, stdout, inward, outward, workerVars>>
LaneFailed ==
  /\ main = "lanes" /\ "none" \notin {lane[l] : l \in Lanes} /\ "failed" \in {lane[l] : l \in Lanes}
  /\ Fallback /\ UNCHANGED <<stdin, stdout, inward, outward, workerVars>>
DataHello ==
  /\ main = "lanes" /\ \A l \in Lanes : lane[l] = "open"
  /\ Comes(opened, "hello") /\ conn' = opened /\ ReadyNow
  /\ UNCHANGED <<opened, lane, shut, moves, on, asks, stdin, inward, workerVars>>
\* Mutant: the wait for the hello has no limit.
NoHelloWaits ==
  /\ main = "lanes" /\ \A l \in Lanes : lane[l] = "open" /\ dropped /\ known # {}
  /\ Fallback /\ UNCHANGED <<stdin, stdout, inward, outward, workerVars>>
\* No hello in time, or the end of the lanes before it.
NoHello ==
  /\ main = "lanes" /\ \A l \in Lanes : lane[l] = "open"
  /\ Fallback /\ UNCHANGED <<stdin, stdout, inward, outward, workerVars>>

\* switch_interpreter: the gate of the connection it finds is held until the channel is open again.
Move ==
  /\ main = "ready" /\ moves < MaxMoves /\ (Apart => renewal # "picked")
  /\ moves' = moves + 1 /\ held' = conn
  /\ \/ Sendable(conn) /\ Goes(conn, "reexec") /\ main' = "moves"
     \/ Fails(conn) /\ main' = "failed" /\ UNCHANGED <<stdin, inward>>
  /\ UNCHANGED <<conn, opened, lane, shut, renewVars, asks, stdout, outward, workerVars>>
Moved ==
  /\ main = "moves" /\ Comes(conn, "moving") /\ main' = "leaves"
  /\ UNCHANGED <<conn, opened, lane, shut, held, moves, renewVars, asks, stdin, inward, workerVars>>
\* _send_worker: back to the standard streams, then the source for the stub.
Leaves ==
  /\ main = "leaves" /\ main' = "sends" /\ conn' = 0
  /\ shut' = TRUE /\ inward' = <<>> /\ outward' = <<>>
  /\ UNCHANGED <<opened, lane, held, moves, renewVars, asks, stdin, stdout, workerVars>>
SendsSource ==
  /\ main = "sends" /\ main' = "hello" /\ Goes(0, "source")
  /\ UNCHANGED <<conn, opened, lane, shut, held, moves, renewVars, asks, stdout, outward, workerVars>>

Call ==
  /\ main = "ready" /\ asks < MaxAsks /\ asks' = asks + 1
  /\ \/ Sendable(conn) /\ Goes(conn, "call") /\ main' = "called"
     \/ Fails(conn) /\ main' = "failed" /\ UNCHANGED <<stdin, inward>>
  /\ UNCHANGED <<conn, opened, lane, shut, held, moves, renewVars, stdout, outward, workerVars>>
Returns ==
  /\ main = "called" /\ Comes(conn, "returned") /\ main' = "ready"
  /\ UNCHANGED <<conn, opened, lane, shut, held, moves, renewVars, asks, stdin, inward, workerVars>>

Waiting == main \in {"hello", "asked", "moves", "called"}
\* The timer of a request or of the start fires: abort ends the sandbox, then the sockets.
Kill == worker' = "gone" /\ shut' = TRUE /\ dropped' = TRUE /\ UNCHANGED <<source, known>>
MainTimesOut ==
  /\ Waiting /\ Kill
  /\ IF main = "asked" THEN ReadyNow ELSE main' = "failed" /\ UNCHANGED <<held, renewal>>
  /\ UNCHANGED <<conn, opened, lane, moves, on, asks, stdin, stdout, inward, outward>>
\* The streams end with the worker, or with its side of the data connection.
MainLoses ==
  /\ Waiting /\ stdout = <<>> /\ Fails(IF main \in {"hello", "asked"} THEN 0 ELSE conn) /\ (conn > 0 => outward = <<>>)
  /\ IF main = "asked" THEN ReadyNow /\ shut' = TRUE
     ELSE main' = "failed" /\ UNCHANGED <<held, shut, renewal>>
  /\ UNCHANGED <<conn, opened, lane, moves, on, asks, stdin, stdout, inward, outward, workerVars>>

-----------------------------------------------------------------------------
(* The lease thread: FramedChannel.request finds the connection, then waits at its gate. *)

Picks ==
  /\ renewal = "idle" /\ asks < MaxAsks /\ (Apart => main \in {"ready", "called"})
  /\ asks' = asks + 1 /\ renewal' = "picked" /\ on' = conn
  /\ UNCHANGED <<clientVars, stdin, stdout, inward, outward, workerVars>>
Renews ==
  /\ renewal = "picked" /\ held # on
  /\ \/ Sendable(on) /\ Goes(on, "lease") /\ renewal' = "sent"
     \/ Fails(on) /\ renewal' = "lost" /\ UNCHANGED <<stdin, inward>>   \* RuntimeLost: the loop ends
  /\ UNCHANGED <<clientVars, on, asks, stdout, outward, workerVars>>
Renewed ==
  /\ renewal = "sent" /\ Comes(on, "renewed") /\ renewal' = "idle"
  /\ UNCHANGED <<clientVars, on, asks, stdin, inward, workerVars>>
\* Another LetifyError: tried again at the next interval.
RenewalFails ==
  /\ renewal = "sent" /\ Fails(on) /\ (on > 0 => outward = <<>>) /\ renewal' = "idle"
  /\ UNCHANGED <<clientVars, on, asks, stdin, stdout, inward, outward, workerVars>>
RenewalTimesOut ==
  /\ renewal = "sent" /\ renewal' = "idle" /\ Kill
  /\ UNCHANGED <<main, conn, opened, lane, held, moves, on, asks, stdin, stdout, inward, outward>>

-----------------------------------------------------------------------------
(* The worker: the stub, the reading thread with _listen, and the jobs. *)

Reply(what) ==
  IF source = 0 THEN stdout' = Append(stdout, what) /\ UNCHANGED outward
                ELSE outward' = Append(outward, what) /\ UNCHANGED stdout
\* BOOTSTRAP reads the source's length; anything else is none, and the stub ends.
StubReads ==
  /\ worker = "stub" /\ stdin # <<>> /\ stdin' = Tail(stdin)
  /\ IF Head(stdin) = "source" THEN worker' = "reads" /\ source' = 0 /\ stdout' = Append(stdout, "hello")
     ELSE worker' = "gone" /\ UNCHANGED <<source, stdout>>
  /\ UNCHANGED <<clientVars, renewVars, asks, inward, outward, known, dropped>>
Frame == IF source = 0 THEN stdin ELSE inward
Reading == worker = "reads" /\ Frame # <<>>
Consumes == IF source = 0 THEN stdin' = Tail(stdin) /\ UNCHANGED inward
                          ELSE inward' = Tail(inward) /\ UNCHANGED stdin
Serves(ask, answer) ==
  /\ Reading /\ Head(Frame) = ask /\ Consumes /\ Reply(answer)
  /\ UNCHANGED <<clientVars, renewVars, asks, workerVars>>
\* _reexec replies and replaces the process, which closes the data connection.
Execs ==
  /\ Reading /\ Head(Frame) = "reexec" /\ Consumes /\ Reply("moving")
  /\ worker' = "stub" /\ source' = 0 /\ known' = {} /\ dropped' = TRUE
  /\ UNCHANGED <<clientVars, renewVars, asks>>
Listens ==
  /\ Reading /\ Head(Frame) = "listen" /\ Consumes
  /\ \/ Reply("refused") /\ UNCHANGED <<worker, known, dropped>>
     \/ Reply("listening") /\ worker' = "listens" /\ known' = {} /\ dropped' = FALSE
  /\ UNCHANGED <<clientVars, renewVars, asks, source>>
\* Standard input became readable, or the wait ended: every lane is closed.
ListenReturns ==
  /\ worker = "listens" /\ worker' = "reads" /\ dropped' = TRUE
  /\ UNCHANGED <<clientVars, renewVars, asks, stdin, stdout, inward, outward, source, known>>
Accepts(l) ==
  /\ worker = "listens" /\ stdin = <<>> /\ lane[l] = "open" /\ l \notin known
  /\ known' = known \cup {l} /\ UNCHANGED <<source, dropped, worker>>
  /\ UNCHANGED <<clientVars, renewVars, asks, stdin, stdout, inward, outward>>
\* _use_connection: the hello goes over the lanes, which may be closed by then; that ends
\* the reading thread and nothing else.
Adopts ==
  /\ worker = "listens" /\ known = Lanes
  /\ \/ worker' = "reads" /\ source' = opened /\ outward' = Append(outward, "hello")
     \/ shut /\ worker' = "deaf" /\ UNCHANGED <<source, outward>>
  /\ UNCHANGED <<clientVars, renewVars, asks, stdin, stdout, inward, known, dropped>>
\* The end of what it reads ends the worker.
ReadsEnd ==
  /\ worker = "reads" /\ source > 0 /\ shut /\ inward = <<>> /\ worker' = "gone" /\ dropped' = TRUE
  /\ UNCHANGED <<clientVars, renewVars, asks, stdin, stdout, inward, outward, source, known>>

-----------------------------------------------------------------------------
MainSteps ==
  \/ StdioHello \/ Listen \/ Answered \/ ListenRefused \/ TunnelFails \/ LaneFailed \/ DataHello \/ NoHello
  \/ Moved \/ Leaves \/ SendsSource \/ Returns \/ MainTimesOut \/ MainLoses
  \/ \E l \in Lanes : LaneOpens(l)
ChannelNext ==
  \/ MainSteps \/ Move \/ Call
  \/ Picks \/ Renews \/ Renewed \/ RenewalFails \/ RenewalTimesOut
  \/ StubReads \/ Execs \/ Listens \/ ListenReturns \/ Adopts \/ ReadsEnd
  \/ Serves("call", "returned") \/ Serves("lease", "renewed")
  \/ \E l \in Lanes : Accepts(l)
ChannelSpec == ChannelInit /\ [][ChannelNext]_channelVars

-----------------------------------------------------------------------------
\* A channel that is ready writes where the worker reads, or to one that is about to end, and
\* the stub finds nothing but the source (modal.py _await_ready, channel.py switch_interpreter).
ChannelsAgree ==
  /\ main = "ready" => \/ worker = "gone" \/ (worker = "listens" /\ conn = 0)
                       \/ worker = "reads" /\ source = conn
                       \/ shut /\ (worker = "deaf" \/ (worker = "reads" /\ source > 0))
  /\ worker = "stub" /\ stdin # <<>> => Head(stdin) = "source"

\* The lease thread ends only with the session: lease.py "The session is gone."
LeaseLasts == renewal = "lost" => worker = "gone" \/ main = "failed"

\* Opening or moving the channel, and every call over it, ends.
OpeningEnds == main \notin {"ready", "failed"} ~> main \in {"ready", "failed"}
=============================================================================
