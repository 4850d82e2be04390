------------------------------ MODULE MCChannel ------------------------------
(***************************************************************************)
(* What a session's requests go over: the connection whose readers take    *)
(* turns (Connection, here with its fairness), the requests with several   *)
(* replies (Pipelines), the frames of a message (Frames), and for a Modal  *)
(* sandbox the data connection (DataChannel), its lanes (Lanes) and TLS    *)
(* (TlsStream).  A behaviour is about one of these parts; the others stay  *)
(* as they begin.                                                          *)
(***************************************************************************)
EXTENDS Connection, TLC

CONSTANTS renewal, job, switch,
          Sockets, MaxMoves, MaxAsks, Apart, Wires, WriteSizes, StripeMin, StripeHold, Writers, MaxRecords, SocketSize,
          Threads, Messages, Window, Pieces, Parts, Streams

VARIABLES part,
  main, conn, opened, lane, shut, held, lease, on, moves, asks, stdin, stdout, inward, outward, sandbox,
  source, known, dropped,
  written, striping, bytes, refuses, todo, raised, wire, broken, reader, segments, next, alive, ended,
  made, outgoing, wireLock, batch, socket, peer, writer, decrypting, arrived,
  message, frame, link, cut, partial, whole, error,
  numbered, open, inbox, put, putOn, sent, answered, get, getOn, taken, dataJobs, given, replies, lost, done

dataVars == <<main, conn, opened, lane, shut, held, lease, on, moves, asks, stdin, stdout, inward, outward,
              sandbox, source, known, dropped>>
laneVars == <<written, striping, bytes, refuses, todo, raised, wire, broken, reader, segments, next, alive,
              ended>>
tlsVars == <<made, outgoing, wireLock, batch, socket, peer, writer, decrypting, arrived>>
frameVars == <<message, frame, link, cut, partial, whole, error>>
pipelineVars == <<numbered, open, inbox, put, putOn, sent, answered, get, getOn, taken, dataJobs, given,
                  replies, lost, done>>

\* A write has bytes (Sender._all writes while there is a rest) and goes over at least one lane; a
\* request in pieces has at least one; and the writer lock's other holders are no writers.
Lengths == WriteSizes \in Seq(Nat \ {0}) /\ WriteSizes # <<>> /\ Wires \in Nat \ {0} /\ StripeMin \in Nat /\ StripeHold \in Nat
Limits == Window \in Nat /\ Parts \in Nat \ {0} /\ Streams \in Nat
WritersNamed == {"none", "reader"} \cap Writers = {}
ASSUME LayerConstants == Lengths /\ Limits /\ WritersNamed /\ Messages \in Seq(Nat) /\ Sockets # {}

\* A lease renewal and a call without timeout, beside a move to another interpreter.
MCOp == renewal :> "light" @@ job :> "job" @@ switch :> "reexec"
\* Short and long writes, of even and uneven lengths; messages with two buffers and none.
MCWriteSizes == <<3, 1, 4, 2>>
MCMessages == <<2, 0>>

Data == INSTANCE DataChannel WITH worker <- sandbox, renewal <- lease, Lanes <- Sockets
Striped == INSTANCE Lanes WITH sending <- striping, sent <- bytes, pieces <- segments
Tls == INSTANCE TlsStream WITH reading <- decrypting
Framed == INSTANCE Frames
Pipe == INSTANCE Pipelines WITH jobs <- dataJobs, part <- given, served <- done

MCInit ==
  /\ part \in {"requests", "data", "lanes", "tls", "frames", "pipeline"}
  /\ Init /\ Data!ChannelInit /\ Striped!LanesInit /\ Tls!TlsInit /\ Framed!FramesInit /\ Pipe!PipeInit

MCNext ==
  /\ UNCHANGED part
  /\ \/ part = "requests" /\ Next /\ UNCHANGED <<dataVars, laneVars, tlsVars, frameVars, pipelineVars>>
     \/ part = "data" /\ Data!ChannelNext /\ UNCHANGED <<vars, laneVars, tlsVars, frameVars, pipelineVars>>
     \/ part = "lanes" /\ Striped!LanesNext /\ UNCHANGED <<vars, dataVars, tlsVars, frameVars, pipelineVars>>
     \/ part = "tls" /\ Tls!TlsNext /\ UNCHANGED <<vars, dataVars, laneVars, frameVars, pipelineVars>>
     \/ part = "frames" /\ Framed!FramesNext /\ UNCHANGED <<vars, dataVars, laneVars, tlsVars, pipelineVars>>
     \/ part = "pipeline" /\ Pipe!PipeNext /\ UNCHANGED <<vars, dataVars, laneVars, tlsVars, frameVars>>

\* Fairness, for the part that runs: the threads and timers of the requests (FairSpec); the
\* thread that opens the channel, whose every wait has a limit; the threads of the lanes.
MCSpec ==
  /\ MCInit /\ [][MCNext]_<<part, vars, dataVars, laneVars, tlsVars, frameVars, pipelineVars>>
  /\ \A r \in Requests : /\ WF_vars(part = "requests" /\ ThreadStep(r))
                         /\ WF_vars(part = "requests" /\ Expire(r))
                         /\ WF_vars(part = "requests" /\ Kill(r))
  /\ WF_vars(part = "requests" /\ CloseInput) /\ WF_vars(part = "requests" /\ CloseEnds)
  /\ WF_dataVars(part = "data" /\ Data!MainSteps)
  /\ WF_laneVars(part = "lanes" /\ Striped!LanesRun)

-----------------------------------------------------------------------------
\* Both ends of a sandbox's channel agree where frames go; the bytes of a stream over lanes,
\* the records of TLS and the buffers of a message arrive whole and in order; and the replies
\* of a pipeline are those of its own requests.
BytesWhole ==
  Data!ChannelsAgree /\ Striped!StreamWhole /\ Tls!RecordsInOrder /\ Framed!MessagesWhole /\ Pipe!RepliesMatch

\* Opening or moving a sandbox's channel ends, and so does every call over it.
OpeningEnds == part = "data" => Data!OpeningEnds

\* What is striped over lanes that hold is delivered.
StreamDelivers == part = "lanes" => Striped!StreamDelivers

\* lease.py:65 "The session is gone. The pool notices on its next call."
LeaseLasts == Data!LeaseLasts
=============================================================================
