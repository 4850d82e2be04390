------------------------------ MODULE StepCapture ------------------------------
(***************************************************************************)
(* Step capture (remoting/device/trace.py): the client watches the         *)
(* operators it sends, finds the sequence that repeats, and from then on   *)
(* sends a repetition as one entry that names the step.  A handle of a     *)
(* step is named by its offset from the step's first handle; -1 stands for *)
(* a handle made before the repetition.                                    *)
(***************************************************************************)
EXTENDS Integers, Sequences, SequencesExt, FiniteSets

CONSTANTS MinStep, MaxStep   \* the shortest and the longest step worth capturing

ASSUME StepAssumption == MinStep \in Nat \ {0} /\ MaxStep \in Nat /\ MinStep <= MaxStep

Top(S) == CHOOSE i \in S : \A j \in S : j <= i
Bottom(S) == CHOOSE i \in S : \A j \in S : i <= j

\* The operators of a step made before position p, as news_before counts them.
NewsBefore(step, p) == LET made[i \in 0 .. p] == IF i = 0 THEN 0 ELSE made[i - 1] + step[i].news
                       IN  made[p]

\* The position that is the last to make or to read an offset.
Touches(step, p, offset) ==
  \/ \E i \in DOMAIN step[p].wiring : step[p].wiring[i] = offset
  \/ offset \in NewsBefore(step, p - 1) .. NewsBefore(step, p) - 1
Frees(step, p) == {offset \in 0 .. NewsBefore(step, Len(step)) - 1 :
                     p = Top({q \in DOMAIN step : Touches(step, q, offset)})}

-----------------------------------------------------------------------------
\* Tracer: the operators recorded since the last reset, and the repetition under way.
Idle == [sid |-> 0, pos |-> 0, start |-> 0, first |-> 0, externals |-> <<>>, scalars |-> <<>>]
NewTracer == [active |-> Idle, records |-> <<>>]

Begin(tracer, sid, first) == [tracer EXCEPT !.active = [Idle EXCEPT !.sid = sid, !.first = first]]
Reset(tracer) == [tracer EXCEPT !.records = <<>>]

\* The operators of one stretch with handles as offsets; <<>> when the handles it makes are
\* not consecutive.
Window(records) ==
  LET made == FlattenSeq([i \in DOMAIN records |-> records[i].outs])
      first == IF made = <<>> THEN 0 ELSE Head(made)
      Wire(h) == IF made # <<>> /\ h >= first THEN h - first ELSE -1
  IN  IF \E i \in DOMAIN made : made[i] # first + i - 1 THEN <<>>
      ELSE [i \in DOMAIN records |->
              [op |-> records[i].op, news |-> Len(records[i].outs),
               wiring |-> [j \in DOMAIN records[i].ins |-> Wire(records[i].ins[j])]]]

Recorded(tracer, op, ins, outs) == Append(tracer.records, [op |-> op, ins |-> ins, outs |-> outs])

\* record: the step that ends with this operator, when the two last stretches are the same.
Found(records) ==
  LET n == Len(records)
      seen == {i \in 1 .. n - 1 : records[i].op = records[n].op}
      period == n - Top(seen)
      Last2 == SubSeq(records, n - 2 * period + 1, n - period)
      Last1 == SubSeq(records, n - period + 1, n)
  IN  IF /\ seen # {} /\ period \in MinStep .. MaxStep /\ n >= 2 * period
         /\ Window(Last1) = Window(Last2)
      THEN Window(Last1) ELSE <<>>

\* match: the next operator of the active step reads what the step's wiring says.
Matches(step, active, op, ins) ==
  LET expected == step[active.pos + 1]
  IN  /\ expected.op = op /\ Len(expected.wiring) = Len(ins)
      /\ \A i \in DOMAIN ins : expected.wiring[i] = IF ins[i] >= active.first
                                                    THEN ins[i] - active.first ELSE -1
Advance(active, ins, scalar) ==
  [active EXCEPT !.pos = @ + 1, !.scalars = Append(@, scalar),
                 !.externals = @ \o SelectSeq(ins, LAMBDA h : h < active.first)]

\* take: the operators matched since the last entry, as one entry.
Untaken(active) == active.sid # 0 /\ active.pos > active.start
Entry(active) == [k |-> "step", sid |-> active.sid, first |-> active.first, start |-> active.start,
                  stop |-> active.pos, externals |-> active.externals,
                  scalars |-> active.scalars, keep |-> {}]
Taken(active) == [active EXCEPT !.start = active.pos, !.externals = <<>>, !.scalars = <<>>]
=============================================================================
