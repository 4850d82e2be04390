--------------------------------- MODULE Lanes ---------------------------------
(***************************************************************************)
(* One byte stream over several lanes (Striped in protocol/wire.py): a     *)
(* long write is cut into one segment per lane, a thread per lane writes   *)
(* and another reads, and the reader puts the segments back by their       *)
(* offsets.  A lane may break, which loses an end of what is on it.        *)
(***************************************************************************)
EXTENDS Integers, SequencesExt, FiniteSetsExt, Functions

CONSTANTS Wires,      \* the number of lanes
          WriteSizes,     \* the lengths of the writes, in their order under the lock
          StripeMin, StripeHold

Ends == 0 .. Wires - 1

VARIABLES
  written, sending,   \* writes begun, and whether the last one holds the lock
  sent, refuses,      \* Striped._sent and _failure
  todo,               \* per lane the segment its thread has to write, a set of at most one
  raised,             \* lanes whose write raised in this send
  wire, broken,       \* the segments on each lane, and whether it has broken
  reader,             \* per lane: head, checks, body, ended
  pieces, next,       \* Striped._pieces and _next
  alive, ended        \* Striped._live and _ended

writeVars == <<written, sending, sent, refuses, todo, raised>>
readVars == <<reader, pieces, next, alive, ended>>
laneVars == <<writeVars, wire, broken, readVars>>

Segment(at, size) == [at |-> at, size |-> size]
Size(segments) == MapThenSumSet(LAMBDA p : p.size, segments)
Held == Size(pieces)

LanesInit ==
  /\ written = 0 /\ sending = FALSE /\ sent = 0 /\ refuses = FALSE /\ raised = {}
  /\ todo = [l \in Ends |-> {}] /\ wire = [l \in Ends |-> <<>>] /\ broken = [l \in Ends |-> FALSE]
  /\ reader = [l \in Ends |-> "head"] /\ pieces = {} /\ next = 0 /\ alive = Wires /\ ended = FALSE

-----------------------------------------------------------------------------
(* Striped.send, with one thread per lane after the first. *)

\* Mutant: the last lane's segment is as long as the others, so a remainder stays behind.
StepDown(size) == size \div Wires
Step(size) == (size + Wires - 1) \div Wires
\* The segments of a write: the whole of a short one on the first lane.
Cut(at, size) ==
  IF size < StripeMin THEN [l \in Ends |-> IF l = 0 THEN {Segment(at, size)} ELSE {}]
  ELSE [l \in Ends |->
         LET left == size - l * Step(size)
         IN  IF left <= 0 THEN {}
             ELSE {Segment(at + l * Step(size), IF left < Step(size) THEN left ELSE Step(size))}]
Sends ==
  /\ ~sending /\ ~refuses /\ written < Len(WriteSizes)
  /\ written' = written + 1 /\ sending' = TRUE /\ sent' = sent + WriteSizes[written + 1] /\ raised' = {}
  /\ todo' = Cut(sent, WriteSizes[written + 1]) /\ UNCHANGED <<refuses, wire, broken, readVars>>
Puts(l) ==
  /\ todo[l] # {} /\ todo' = [todo EXCEPT ![l] = {}]
  /\ IF broken[l] THEN raised' = raised \cup {l} /\ UNCHANGED wire
     ELSE wire' = [wire EXCEPT ![l] = @ \o SetToSeq(todo[l])] /\ UNCHANGED raised
  /\ UNCHANGED <<written, sending, sent, refuses, broken, readVars>>
\* An error of the first lane is the caller's alone; one of another lane is kept.
Sent ==
  /\ sending /\ \A l \in Ends : todo[l] = {}
  /\ sending' = FALSE /\ refuses' = (raised # {} /\ 0 \notin raised)
  /\ UNCHANGED <<written, sent, todo, raised, wire, broken, readVars>>

\* What the reader has read the header of stays, its body may be lost.
Breaks(l) ==
  /\ ~broken[l] /\ broken' = [broken EXCEPT ![l] = TRUE]
  /\ \E n \in (IF reader[l] \in {"checks", "body"} THEN 1 ELSE 0) .. Len(wire[l]) :
       wire' = [wire EXCEPT ![l] = SubSeq(@, 1, n)]
  /\ UNCHANGED <<writeVars, readVars>>

-----------------------------------------------------------------------------
(* Striped._lane_reader and recv_into. *)

\* _end: the stream ends with the last lane, or with a segment that cannot be.
Stops(l, malformed) ==
  /\ reader' = [reader EXCEPT ![l] = "ended"] /\ alive' = alive - 1
  /\ ended' = (ended \/ malformed \/ alive = 1) /\ UNCHANGED <<pieces, next>>
Header(l) == Head(wire[l])
Known(p) == p.at < next \/ \E q \in pieces : q.at = p.at
ReadsHeader(l) ==
  /\ reader[l] = "head" /\ wire[l] # <<>> /\ reader' = [reader EXCEPT ![l] = "checks"]
  /\ UNCHANGED <<writeVars, wire, broken, pieces, next, alive, ended>>
LosesLane(l) ==
  /\ broken[l] /\ (reader[l] = "body" \/ (reader[l] = "head" /\ wire[l] = <<>>)) /\ Stops(l, FALSE)
  /\ UNCHANGED <<writeVars, wire, broken>>
\* Mutant: a lane waits even with the segment that is next.
WaitsAlways(p) == Held > StripeHold /\ ~ended
\* A lane ahead of the next offset waits while too much is held.
Waits(p) == Held > StripeHold /\ p.at # next /\ ~ended
Checks(l) ==
  /\ reader[l] = "checks" /\ ~Waits(Header(l))
  /\ IF ended \/ Known(Header(l)) THEN Stops(l, TRUE)
     ELSE reader' = [reader EXCEPT ![l] = "body"] /\ UNCHANGED <<pieces, next, alive, ended>>
  /\ UNCHANGED <<writeVars, wire, broken>>
Stores(l) ==
  /\ reader[l] = "body" /\ wire' = [wire EXCEPT ![l] = Tail(@)]
  /\ IF Known(Header(l)) THEN Stops(l, TRUE)
     ELSE /\ pieces' = pieces \cup {Header(l)} /\ reader' = [reader EXCEPT ![l] = "head"]
          /\ UNCHANGED <<next, alive, ended>>
  /\ UNCHANGED <<writeVars, broken>>
\* recv_into hands out the segment at the next offset.
Takes ==
  \E p \in pieces :
    /\ p.at = next /\ pieces' = pieces \ {p} /\ next' = next + p.size
    /\ UNCHANGED <<writeVars, wire, broken, reader, alive, ended>>

ReaderSteps(l) == ReadsHeader(l) \/ LosesLane(l) \/ Checks(l) \/ Stores(l)
LanesNext ==
  \/ Sends \/ Sent \/ Takes
  \/ \E l \in Ends : Puts(l) \/ Breaks(l) \/ ReaderSteps(l)
\* What the threads do by themselves, while there is something to do.
LanesRun == Sends \/ Sent \/ Takes \/ \E l \in Ends : Puts(l) \/ ReaderSteps(l)
LanesSpec == LanesInit /\ [][LanesNext]_laneVars

-----------------------------------------------------------------------------
\* The longest segment: a lane's share of the longest write, or a short write, which is whole.
Longest == Max({StripeMin, Step(Max(ToSet(WriteSizes)))})
\* Without a broken lane every byte that was sent is in exactly one place, in order, and no
\* segment is ever taken for a malformed one; what is held stays below the hold and one
\* segment per lane (wire.py "a lane that is ahead of the next offset waits").
OnTheWay == pieces \cup UNION {todo[l] \cup ToSet(wire[l]) : l \in Ends}
StreamWhole ==
  /\ ~TRUE \in Range(broken) => /\ next + Size(OnTheWay) = sent /\ alive = Wires /\ ~ended
                                /\ \A p, q \in OnTheWay : p.at <= q.at => p = q \/ p.at + p.size <= q.at
  /\ \A p \in pieces : p.at >= next
  /\ Held <= StripeHold + Wires * Longest

\* Without a broken lane everything sent is read, whichever lane is ahead.
StreamDelivers == [](TRUE \notin Range(broken)) => <>(written = Len(WriteSizes) /\ next = sent)

\* Once every lane has broken the stream ends (modal.py _kill: "a blocked read on the data
\* connection returns as soon as every lane is shut down").
EndsWithLanes == FALSE \notin Range(broken) ~> ended
=============================================================================
