----------------------------- MODULE EditorPolls -----------------------------
(***************************************************************************)
(* The editor extension reading the quota of one account and keeping what  *)
(* was spent each day.  A refresh runs the command line, which reads the   *)
(* quota some time before its answer arrives; the timer and the user start *)
(* refreshes whether or not one is under way.                              *)
(***************************************************************************)
EXTENDS Integers, Sequences, SequencesExt

CONSTANTS Slots,     \* refreshes that may be under way at once
          Full,      \* the quota after a top up
          Days,      \* days of history kept
          Events,    \* midnights and top ups of an instance
          Ordered,   \* answers arrive in the order in which they were read
          None

VARIABLES quota,     \* what the account has left
          spending,  \* what was really spent
          topped,    \* top ups so far
          today, usage,      \* the last answer shown, None where it had no number
          refreshing, refresh, history, first,
          answers    \* refreshes that have read the quota and not shown it, oldest first

pollVars == <<quota, spending, topped, today, usage, refreshing, refresh, history, first, answers>>

Resting == [stage |-> "idle", by |-> "timer", value |-> None]

PollsInit ==
  /\ quota = Full /\ spending = 0 /\ topped = 0 /\ today = 1
  /\ usage = None /\ refreshing = FALSE
  /\ refresh = [i \in Slots |-> Resting] /\ history = <<>> /\ first = None /\ answers = <<>>

-----------------------------------------------------------------------------
At(i, stage) == refresh[i].stage = stage
Goes(i, stage) == refresh' = [refresh EXCEPT ![i].stage = stage]

\* The days are kept in their order: those that are too old are the first ones.
Recent(days) ==
  LET kept == {i \in DOMAIN days : days[i].day > today - Days}
  IN  SubSeq(days, Min(kept), Len(days))

\* Mutated form of RecordSample: a new day begins without the last value.
ForgetsLast(days, value) ==
  LET n == Len(days)
      open == IF n > 0 /\ days[n].day = today THEN days
              ELSE Append(days, [day |-> today, spent |-> 0, last |-> None])
      bucket == open[Len(open)]
      fall == IF bucket.last # None /\ value # None /\ value < bucket.last THEN bucket.last - value ELSE 0
      filled == [bucket EXCEPT !.spent = @ + fall, !.last = IF value = None THEN @ ELSE value]
  IN Recent([open EXCEPT ![Len(open)] = filled])

\* recordSample: a fall is spending, a rise is not; a new day begins with the last value of the
\* day before, and days that are too old are dropped.
RecordSample(days, value) ==
  LET n == Len(days)
      open == IF n > 0 /\ days[n].day = today THEN days
              ELSE Append(days, [day |-> today, spent |-> 0, last |-> IF n = 0 THEN None ELSE days[n].last])
      bucket == open[Len(open)]
      fall == IF bucket.last # None /\ value # None /\ value < bucket.last THEN bucket.last - value ELSE 0
      filled == [bucket EXCEPT !.spent = @ + fall, !.last = IF value = None THEN @ ELSE value]
  IN Recent([open EXCEPT ![Len(open)] = filled])

\* The interval of the timer ends, or the user, a setting or the start asks for everything.
TimerFires(i) == At(i, "idle") /\ refresh' = [refresh EXCEPT ![i] = [Resting EXCEPT !.stage = "runs"]] /\ UNCHANGED refreshing
RefreshAll(i) ==
  /\ At(i, "idle") /\ ~refreshing /\ refreshing' = TRUE
  /\ refresh' = [refresh EXCEPT ![i] = [Resting EXCEPT !.stage = "runs", !.by = "all"]]

\* The command reads the quota, or an account that cannot be read, or it ends with an error.
Reads(i) ==
  /\ At(i, "runs")
  /\ \/ /\ \E value \in {quota, None} : refresh' = [refresh EXCEPT ![i].stage = "read", ![i].value = value]
        /\ answers' = Append(answers, i)
     \/ Goes(i, "failed") /\ UNCHANGED answers

\* poll: the answer replaces the one shown; an error is shown beside it and leaves it as it is.
Shows(i) ==
  /\ refresh[i].stage \in {"read", "failed"} /\ (Ordered /\ At(i, "read") => Head(answers) = i)
  /\ answers' = RemoveFirst(answers, i)
  /\ usage' = IF At(i, "read") THEN refresh[i].value ELSE usage
  /\ Goes(i, "shown")

Samples(i) ==
  /\ At(i, "shown")
  /\ history' = RecordSample(history, usage)
  /\ first' = IF first = None THEN usage ELSE first
  /\ Goes(i, "saving")

\* Mutated form of Ends: refreshing is only reset when the history could be saved.
EndsWell(i) ==
  /\ At(i, "saving")
  /\ \E saved \in BOOLEAN : refreshing' = IF refresh[i].by = "all" /\ saved THEN FALSE ELSE refreshing
  /\ refresh' = [refresh EXCEPT ![i] = Resting]

\* The history is saved or not; refreshAll ends in either case.
Ends(i) ==
  /\ At(i, "saving")
  /\ refreshing' = IF refresh[i].by = "all" THEN FALSE ELSE refreshing
  /\ refresh' = [refresh EXCEPT ![i] = Resting]

Runs(i) ==
  /\ UNCHANGED <<quota, spending, topped, today>>
  /\ \/ Reads(i) /\ UNCHANGED <<usage, refreshing, history, first>>
     \/ Shows(i) /\ UNCHANGED <<refreshing, history, first>>
     \/ Samples(i) /\ UNCHANGED <<usage, refreshing, answers>>
     \/ Ends(i) /\ UNCHANGED <<usage, history, first, answers>>

Passed == topped + today - 1
Spends == quota > 0 /\ quota' = quota - 1 /\ spending' = spending + 1 /\ UNCHANGED <<topped, today>>
TopsUp == Passed < Events /\ quota < Full /\ quota' = Full /\ topped' = topped + 1 /\ UNCHANGED <<spending, today>>
Midnight == Passed < Events /\ today' = today + 1 /\ UNCHANGED <<quota, spending, topped>>
World == Spends \/ TopsUp \/ Midnight

PollsNext ==
  \/ World /\ UNCHANGED <<usage, refreshing, refresh, history, first, answers>>
  \/ \E i \in Slots :
       \/ (TimerFires(i) \/ RefreshAll(i))
          /\ UNCHANGED <<quota, spending, topped, today, usage, history, first, answers>>
       \/ Runs(i)

-----------------------------------------------------------------------------
PollsTypeOK ==
  /\ quota \in 0 .. Full /\ usage \in 0 .. Full \cup {None} /\ refreshing \in BOOLEAN
  /\ \A i \in Slots : refresh[i].stage \in {"idle", "runs", "read", "failed", "shown", "saving"}
  /\ Len(history) <= Days /\ \A i \in DOMAIN history : history[i].spent \in Nat

Spent == MapThenSumSet(LAMBDA i : history[i].spent, DOMAIN history)

\* history.ts:13 "Quota spent that day": the days kept hold no more than what was spent.
SpentHonest == Spent <= spending

\* No spending between two samples is lost, at midnight either.
SpendingCounted == topped = 0 /\ today <= Days /\ first # None =>
  LET last == history[Len(history)].last IN last # None /\ Spent = first - last

\* refreshing turns the user's refreshes away only while one of them is under way, whatever
\* fails in it.
RefreshGuarded == refreshing <=> \E i \in Slots : refresh[i].by = "all"
=============================================================================
