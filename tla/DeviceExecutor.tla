---------------------------- MODULE DeviceExecutor ----------------------------
(***************************************************************************)
(* The executor of a forwarded program (remoting/device/executor.py): it   *)
(* runs the entries of one message in order on the tensors it holds by     *)
(* handle.  A tensor is a cell, so that a view shares the cell it looks    *)
(* at; the content of a cell is the expression that made it.               *)
(***************************************************************************)
EXTENDS StepCapture, TLC

CONSTANTS Handles,    \* handles a run can use, a range 1 .. n
          Mutating,   \* operators that write their first input and return it
          Views       \* operators whose output looks at their first input's cell

ASSUME ExecutorAssumption == Handles = 1 .. Cardinality(Handles)

Nothing == <<>>     \* a handle or a cell with no content
NewExecutor == [tensors |-> [h \in Handles |-> 0], cells |-> [h \in Handles |-> Nothing],
                templates |-> {}, steps |-> <<>>, failed |-> FALSE,
                missed |-> FALSE]                       \* a handle was not there to read

\* The effect of an operator on a table: in place, a view, or a new tensor per output.
Applied(table, op, ins, outs) ==
  LET source == [i \in DOMAIN ins |-> table.tensors[ins[i]]]
      made == <<op, [i \in DOMAIN ins |-> table.cells[source[i]]]>>
  IN  IF op \in Mutating THEN [table EXCEPT !.cells[source[1]] = made]
      ELSE IF op \in Views THEN [table EXCEPT !.tensors[outs[1]] = source[1]]
      ELSE [table EXCEPT !.tensors = [h \in Handles |-> IF h \in ToSet(outs) THEN h ELSE @[h]],
                         !.cells = [h \in Handles |-> IF h \in ToSet(outs) THEN made ELSE @[h]]]

Fails(table, missed) == [table EXCEPT !.failed = TRUE, !.missed = @ \/ missed]
Drop(table, S) == [table EXCEPT !.tensors = [h \in Handles |-> IF h \in S THEN 0 ELSE @[h]]]

\* execute: a missing input or a failure of the operator itself is the failure the worker keeps.
Execute(table, op, ins, outs, bad) ==
  IF op \notin table.templates \/ \E i \in DOMAIN ins : table.tensors[ins[i]] = 0
  THEN Fails(table, TRUE)
  ELSE IF bad THEN Fails(table, FALSE) ELSE Applied(table, op, ins, outs)

\* replay: the operators of a step from start to stop, each with the inputs its wiring names.
Replay(table, e) ==
  LET step == table.steps[e.sid]
      Inputs(p, used) ==
        LET wiring == step[p].wiring
            From(i) == used + Cardinality({j \in 1 .. i : wiring[j] < 0})
        IN  [i \in DOMAIN wiring |-> IF wiring[i] < 0 THEN e.externals[From(i)]
                                     ELSE e.first + wiring[i]]
      External(p) == Cardinality({i \in DOMAIN step[p].wiring : step[p].wiring[i] < 0})
      Run(acc, p) ==
        LET outs == [i \in 1 .. step[p].news |-> e.first + NewsBefore(step, p - 1) + i - 1]
            done == Execute(acc.table, step[p].op, Inputs(p, acc.used), outs, e.scalars[p - e.start])
        IN  [used |-> acc.used + External(p),
             table |-> IF acc.table.failed THEN acc.table ELSE IF done.failed THEN done
                       ELSE Drop(done, {e.first + o : o \in Frees(step, p) \ e.keep})]
  IN  IF e.sid \notin DOMAIN table.steps THEN Fails(table, TRUE)
      ELSE FoldLeft(Run, [used |-> 0, table |-> table],
                    [i \in 1 .. e.stop - e.start |-> e.start + i]).table

-----------------------------------------------------------------------------
\* The outputs of an operator sent with "describe" are any handles from the first one on.
Touched(e, h) ==
  CASE e.k = "op" -> h \in ToSet(e.ins) \union ToSet(e.outs) \/ (e.want = "describe" /\ h >= e.outs[1])
    [] e.k = "step" -> h \in ToSet(e.externals) \/ h >= e.first
    [] e.k = "fetch" -> h = e.h
    [] OTHER -> FALSE
\* run pops a released handle after the last entry that touches it.
Released(message, i) ==
  {h \in message.release :
     i = Top({0} \union {j \in DOMAIN message.entries : Touched(message.entries[j], h)})}

Wants(e) == e.k \in {"fetch", "count"} \/ (e.k = "op" /\ e.want # "")
Failure == <<"failed">>

\* One entry; the result it gives when it wants one.
RunEntry(table, e) ==
  CASE e.k = "define" -> [table EXCEPT !.templates = @ \union {e.op}]
    [] e.k = "step_define" -> [table EXCEPT !.steps = (e.sid :> e.ops) @@ @]
    [] table.failed -> table
    [] e.k = "op" -> Execute(table, e.op, e.ins, e.outs, e.bad)
    [] e.k = "step" -> Replay(table, e)
    [] e.k = "fetch" /\ table.tensors[e.h] = 0 -> Fails(table, TRUE)
    [] OTHER -> table
Result(table, e) ==
  IF table.failed THEN Failure
  ELSE CASE e.k = "fetch" -> table.cells[table.tensors[e.h]]
         [] e.k = "op" -> table.cells[table.tensors[e.ins[1]]]
         [] OTHER -> <<"count", Cardinality({h \in Handles : table.tensors[h] # 0})>>

\* run: the whole message; a message that wants a reply takes the failure away with it.
RunMessage(table, message) ==
  LET Next1(acc, i) ==
        LET e == message.entries[i]
            done == RunEntry(acc.table, e)
        IN  [table |-> Drop(done, Released(message, i)),
             results |-> IF Wants(e) THEN Append(acc.results, Result(done, e)) ELSE acc.results]
      all == FoldLeft(Next1, [table |-> Drop(table, Released(message, 0)), results |-> <<>>],
                      [i \in DOMAIN message.entries |-> i])
  IN  [table |-> IF message.reply THEN [all.table EXCEPT !.failed = FALSE] ELSE all.table,
       results |-> all.results, failure |-> all.table.failed]
=============================================================================
