------------------------------ MODULE Pipelines ------------------------------
(***************************************************************************)
(* Requests with more than one reply or reply outstanding on a connection: *)
(* a pipeline, which sends several requests on one stream (Pipeline in     *)
(* runtime/channel.py), beside a request answered in pieces                *)
(* (Connection.stream), both served by the worker's data thread.  Whose    *)
(* turn it is to read the connection is Connection's subject.              *)
(***************************************************************************)
EXTENDS Integers, SequencesExt

CONSTANTS Window,   \* requests of a pipeline that may be unanswered
          Pieces,   \* requests sent on one pipeline
          Parts,    \* replies of a request answered in pieces
          Streams   \* streams opened

VARIABLES
  numbered,           \* Connection._next_stream: streams opened so far
  open,               \* Connection._slots: the streams whose replies are kept
  inbox,              \* per stream _Slot.pieces: the replies that have arrived
  put, putOn,         \* the thread with a pipeline: idle, ready, sends, drains, drained, failed; its stream
  sent, answered,     \* Pipeline.sent and .answered
  get, getOn, taken,  \* the thread with a streamed request: idle, waits; its stream; replies yielded
  jobs, part,         \* worker _DATA_JOBS, and the replies already given to the first one
  replies,            \* frames on their way to the client
  lost,               \* Connection.failure
  served              \* per open stream what the worker answered, in order

putVars == <<put, putOn, sent, answered>>
getVars == <<get, getOn, taken>>
slotVars == <<open, inbox, served>>
linkVars == <<jobs, part, replies, lost>>
pipeVars == <<numbered, slotVars, putVars, getVars, linkVars>>

PipeInit ==
  /\ numbered = 0 /\ open = {} /\ inbox = [s \in 1 .. Streams |-> <<>>]
  /\ put = "idle" /\ putOn = 0 /\ sent = 0 /\ answered = 0
  /\ get = "idle" /\ getOn = 0 /\ taken = 0
  /\ jobs = <<>> /\ part = 0 /\ replies = <<>> /\ lost = FALSE
  /\ served = [s \in 1 .. Streams |-> <<>>]

\* Mutant: the lowest free number is taken again.
FreshLowest == IF \E s \in 1 .. numbered : s \notin open THEN CHOOSE s \in 1 .. numbered : s \notin open
               ELSE numbered + 1
\* _open never uses a number again; a number that was used leads nowhere any more.
Fresh == numbered + 1
MayOpen == ~lost /\ numbered < Streams
Clear(s) == inbox' = [inbox EXCEPT ![s] = <<>>] /\ served' = [served EXCEPT ![s] = <<>>]
Opens(s) == numbered' = numbered + 1 /\ open' = open \cup {s} /\ Clear(s)
Forgets(s) == open' = open \ {s} /\ Clear(s) /\ UNCHANGED numbered

-----------------------------------------------------------------------------
(* The pipeline. *)

OpenPipeline ==
  /\ put = "idle" /\ MayOpen /\ Opens(Fresh) /\ put' = "ready" /\ putOn' = Fresh /\ sent' = 0 /\ answered' = 0
  /\ UNCHANGED <<getVars, linkVars>>
\* _take: the replies that have arrived are counted, up to the first that failed.
Take(where) ==
  LET bad == SelectInSeq(inbox[putOn], LAMBDA r : r = "refused")
  IN  /\ inbox' = [inbox EXCEPT ![putOn] = <<>>]
      /\ answered' = answered + (IF bad > 0 THEN bad ELSE Len(inbox[putOn]))
      /\ put' = IF bad > 0 THEN "failed" ELSE where
\* The replies _settle waits for: room for one more, or all of them.
Needed == IF put = "sends" THEN sent - Window + 1 ELSE sent
SendBegins ==
  /\ put = "ready" /\ sent < Pieces /\ Take("sends")
  /\ UNCHANGED <<numbered, open, served, putOn, sent, getVars, linkVars>>
DrainBegins ==
  /\ put = "ready" /\ Take("drains")
  /\ UNCHANGED <<numbered, open, served, putOn, sent, getVars, linkVars>>
Settles ==
  /\ put \in {"sends", "drains"} /\ answered < Needed
  /\ \/ inbox[putOn] # <<>> /\ Take(put)
     \/ inbox[putOn] = <<>> /\ lost /\ put' = "failed" /\ UNCHANGED <<inbox, answered>>
  /\ UNCHANGED <<numbered, open, served, putOn, sent, getVars, linkVars>>
SendWrites ==
  /\ put = "sends" /\ answered >= Needed
  /\ IF lost THEN put' = "failed" /\ UNCHANGED <<sent, jobs>>
     ELSE put' = "ready" /\ sent' = sent + 1 /\ jobs' = Append(jobs, [on |-> putOn, parts |-> 1])
  /\ UNCHANGED <<numbered, slotVars, putOn, answered, getVars, part, replies, lost>>
Drained ==
  /\ put = "drains" /\ answered >= Needed /\ put' = "drained"
  /\ UNCHANGED <<numbered, slotVars, putOn, sent, answered, getVars, linkVars>>
\* close, by a call that ended, failed or was cancelled between two pieces.
ClosePipeline ==
  /\ put \in {"ready", "drained", "failed"} /\ Forgets(putOn) /\ put' = "idle"
  /\ UNCHANGED <<putOn, sent, answered, getVars, linkVars>>

-----------------------------------------------------------------------------
(* The request answered in pieces. *)

Ask ==
  /\ get = "idle" /\ MayOpen /\ Opens(Fresh) /\ get' = "waits" /\ getOn' = Fresh /\ taken' = 0
  /\ jobs' = Append(jobs, [on |-> Fresh, parts |-> Parts])
  /\ UNCHANGED <<putVars, part, replies, lost>>
Yield ==
  /\ get = "waits" /\ inbox[getOn] # <<>> /\ taken' = taken + 1
  /\ IF Head(inbox[getOn]) = "value" THEN get' = "waits" /\ inbox' = [inbox EXCEPT ![getOn] = Tail(@)] /\ UNCHANGED <<numbered, open, served>>
     ELSE get' = "idle" /\ Forgets(getOn)
  /\ UNCHANGED <<getOn, putVars, linkVars>>
\* The generator is dropped, or the connection is lost.
Leave ==
  /\ get = "waits" /\ Forgets(getOn) /\ get' = "idle"
  /\ UNCHANGED <<getOn, taken, putVars, linkVars>>

-----------------------------------------------------------------------------
(* The worker's data thread, and the client's reads. *)

Answers(what) ==
  LET on == Head(jobs).on
  IN  replies' = Append(replies, [on |-> on, what |-> what]) 
         /\ served' = IF on \in open THEN [served EXCEPT ![on] = Append(@, what)] ELSE served
\* _data_serve and _run: one reply per request, or pieces of which one is marked last.
Serves ==
  /\ jobs # <<>> /\ ~lost
  /\ \/ part + 1 < Head(jobs).parts /\ Answers("value") /\ part' = part + 1 /\ UNCHANGED jobs
     \/ /\ part + 1 = Head(jobs).parts /\ Answers(IF Head(jobs).parts = 1 THEN "value" ELSE "last")
        /\ part' = 0 /\ jobs' = Tail(jobs)
     \/ Answers("refused") /\ part' = 0 /\ jobs' = Tail(jobs)
  /\ UNCHANGED <<numbered, open, inbox, putVars, getVars, lost>>
\* _deliver: a reply on a stream that was released is dropped.
Arrives ==
  /\ replies # <<>> /\ ~lost /\ replies' = Tail(replies)
  /\ LET r == Head(replies)
     IN  inbox' = IF r.on \in open THEN [inbox EXCEPT ![r.on] = Append(@, r.what)] ELSE inbox
  /\ UNCHANGED <<numbered, open, served, putVars, getVars, jobs, part, lost>>
Loses ==
  /\ ~lost /\ lost' = TRUE /\ jobs' = <<>> /\ replies' = <<>> /\ part' = 0
  /\ UNCHANGED <<numbered, slotVars, putVars, getVars>>

PipeNext ==
  \/ OpenPipeline \/ SendBegins \/ DrainBegins \/ Settles \/ SendWrites \/ Drained \/ ClosePipeline
  \/ Ask \/ Yield \/ Leave \/ Serves \/ Arrives \/ Loses
PipeSpec == PipeInit /\ [][PipeNext]_pipeVars

-----------------------------------------------------------------------------
\* The worker never holds more of a pipeline than the window, a drain that returns means that
\* the worker has served every piece and refused none, and what a streamed request yields is
\* what the worker answered to it (pathdata.py Stream.place, "the wave is placed").
RepliesMatch ==
  /\ put \in {"ready", "sends", "drains"} => Cardinality({n \in DOMAIN jobs : jobs[n].on = putOn}) <= Window
  /\ put = "drained" => served[putOn] = [n \in 1 .. sent |-> "value"]
  /\ get = "waits" => taken + Len(inbox[getOn]) <= Len(served[getOn])
                      /\ \A n \in 1 .. Len(inbox[getOn]) : inbox[getOn][n] = served[getOn][taken + n]
=============================================================================
