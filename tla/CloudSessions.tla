---------------------------- MODULE CloudSessions ----------------------------
(***************************************************************************)
(* Sessions on rented machines, one machine for each session: Kaggle       *)
(* (a notebook with a run), Colab (a named session a helper keeps awake)   *)
(* and Modal (a sandbox a helper process drives).  A start makes the       *)
(* machine in several requests, any of which may fail or be interrupted,   *)
(* and the process may die between two of them; what is left must still be *)
(* found or end by itself.  Each account is of one provider.               *)
(***************************************************************************)
EXTENDS Integers, FiniteSets

CONSTANTS Procs,      \* processes of letify that share the account
          Starts,     \* sessions they start
          Providers,  \* the providers considered, of "kaggle", "colab" and "modal"
          Overlaps    \* whether two processes may touch Kaggle's record at once, or die in it

CLI == "letify stop --orphans"
Actors == Procs \union {CLI}

VARIABLES
  provider, owner,  \* the account's provider, and the process of each start
  alive,            \* the processes that run
  step,             \* how far each start is
  machine,          \* "none", "kept" (a notebook that runs nothing), "up", "gone"
  record,           \* Kaggle: the starts whose notebooks the account's record names
  rewrite,          \* Kaggle: for each actor, what it will write over the record, or Idle
  sweep,            \* Kaggle: what the command line will delete, and what it will only forget
  recent,           \* Kaggle: the notebooks made within min_session_interval_s
  cookie,           \* Kaggle: whether the account has a cookie whose claims still hold
  keeper,           \* Colab: the sessions a keep-alive process looks after
  known,            \* Modal: the sandboxes whose ids each process's Adapter has
  helper,           \* Modal: the sandboxes each process's adapter process has made
  skewed,           \* Modal: the processes whose Adapter lost a reply
  said              \* the machines letify told the user to end by hand

kaggleVars == <<record, rewrite, sweep, recent, cookie>>
modalVars == <<known, helper, skewed>>
vars == <<provider, owner, alive, step, machine, kaggleVars, keeper, modalVars, said>>

Idle == [cut |-> FALSE, copy |-> {}, on |-> FALSE]

TypeOK ==
  /\ provider \in Providers /\ owner \in [Starts -> Procs] /\ alive \subseteq Procs
  /\ step \in [Starts -> {"new", "asked", "made", "noted", "running", "open", "closing",
                          "ended", "over"}]
  /\ machine \in [Starts -> {"none", "kept", "up", "gone"}]
  /\ record \subseteq Starts /\ keeper \subseteq Starts /\ said \subseteq Starts
  /\ rewrite \in [Actors -> [cut : BOOLEAN, copy : SUBSET Starts, on : BOOLEAN]]
  /\ sweep \in [delete : SUBSET Starts, forget : SUBSET Starts]
  /\ recent \subseteq Starts /\ cookie \in BOOLEAN
  /\ known \in [Procs -> SUBSET Starts] /\ helper \in [Procs -> SUBSET Starts]
  /\ skewed \subseteq Procs

Init ==
  /\ provider \in Providers /\ owner \in [Starts -> Procs] /\ alive = Procs
  /\ step = [s \in Starts |-> "new"] /\ machine = [s \in Starts |-> "none"]
  /\ record = {} /\ rewrite = [a \in Actors |-> Idle] /\ sweep = [delete |-> {}, forget |-> {}]
  /\ keeper = {} /\ known = [p \in Procs |-> {}] /\ helper = [p \in Procs |-> {}]
  /\ skewed = {} /\ said = {} /\ recent = {} /\ cookie = TRUE

Exists(s) == machine[s] \in {"kept", "up"}
At(s, kind, where) == provider = kind /\ owner[s] \in alive /\ step[s] = where
Goes(s, where) == step' = [step EXCEPT ![s] = where]
Becomes(s, state) == machine' = [machine EXCEPT ![s] = state]

-----------------------------------------------------------------------------
(* The record of an account's notebooks, a file every process appends to   *)
(* and rewrites whole to drop one line.                                    *)

Untouched(a) == Overlaps \/ \A b \in Actors \ {a} : ~rewrite[b].on

\* record_notebook: one line, with the process that made it.
Note(s) ==
  /\ At(s, "kaggle", "made") /\ Untouched(owner[s]) /\ ~rewrite[owner[s]].on
  /\ record' = record \union {s} /\ Goes(s, "noted")
  /\ UNCHANGED <<provider, owner, alive, machine, rewrite, sweep, recent, cookie, keeper, modalVars, said>>

\* Mutant: only the lines of the own process are kept.
ReadsOwn(a, s) ==
  rewrite' = [rewrite EXCEPT ![a] = [cut |-> FALSE, copy |-> {t \in record \ {s} : owner[t] = a},
                                     on |-> TRUE]]
\* forget_ref, first half: every line but this one.
Reads(a, s) == rewrite' = [rewrite EXCEPT ![a] = [cut |-> FALSE, copy |-> record \ {s}, on |-> TRUE]]

\* write_text: the file is cut to nothing, then written.
Cuts(a) ==
  /\ a \in alive \union {CLI} /\ rewrite[a].on /\ ~rewrite[a].cut
  /\ record' = {} /\ rewrite' = [rewrite EXCEPT ![a].cut = TRUE]
  /\ UNCHANGED <<provider, owner, alive, step, machine, sweep, recent, cookie, keeper, modalVars, said>>
Writes(a) ==
  /\ a \in alive \union {CLI} /\ rewrite[a].cut
  /\ record' = rewrite[a].copy /\ rewrite' = [rewrite EXCEPT ![a] = Idle]
  /\ UNCHANGED <<provider, owner, alive, step, machine, sweep, recent, cookie, keeper, modalVars, said>>

-----------------------------------------------------------------------------
(* Kaggle: a notebook, then a run in it. *)

\* require_live_cookie reads the file each time.  Kaggle itself is asked whether it still takes
\* the cookie once a minute at most, so either answer is possible whatever it thinks by now.
CookieLive == cookie
\* wait_before_session: the newest creation the record still names is long enough ago.
GapPassed == record \intersect recent = {}
\* new_notebook, or the ConfigError before it.
KaggleMakes(s) ==
  /\ At(s, "kaggle", "new")
  /\ \/ /\ CookieLive /\ GapPassed
        /\ Becomes(s, "kept") /\ Goes(s, "made") /\ recent' = recent \union {s}
     \/ Goes(s, "over") /\ UNCHANGED <<machine, recent>>
  /\ UNCHANGED <<provider, owner, alive, record, rewrite, sweep, cookie, keeper, modalVars, said>>
\* The cookie expires, or letify login writes another.
LoginChanges ==
  /\ provider = "kaggle" /\ cookie' = ~cookie
  /\ UNCHANGED <<provider, owner, alive, step, machine, record, rewrite, sweep, recent, keeper,
                 modalVars, said>>
\* The interval since the last creation passes.
TimePasses ==
  /\ recent # {} /\ recent' = {}
  /\ UNCHANGED <<provider, owner, alive, step, machine, record, rewrite, sweep, cookie, keeper,
                 modalVars, said>>
\* start_run, which Kaggle may refuse.
KaggleRuns(s) ==
  /\ At(s, "kaggle", "noted") /\ Becomes(s, "up") /\ Goes(s, "running")
  /\ UNCHANGED <<provider, owner, alive, kaggleVars, keeper, modalVars, said>>
\* The tokens, the Jupyter address, the kernel and the bridge: the session is held from here.
KaggleOpens(s) ==
  /\ At(s, "kaggle", "running") /\ machine[s] = "up" /\ Goes(s, "open")
  /\ UNCHANGED <<provider, owner, alive, machine, kaggleVars, keeper, modalVars, said>>
\* A refusal or a timeout on the way: stop finds nothing held under the name.
KaggleFails(s) ==
  /\ \E where \in {"noted", "running"} : At(s, "kaggle", where)
  /\ Goes(s, "over")
  /\ UNCHANGED <<provider, owner, alive, machine, kaggleVars, keeper, modalVars, said>>

\* stop: the run is cancelled when the cookie can be read and Kaggle answers ...
KaggleStops(s) ==
  /\ At(s, "kaggle", "open") /\ Goes(s, "closing")
  /\ \/ cookie /\ machine[s] = "up" /\ Becomes(s, "kept")
     \/ UNCHANGED machine
  /\ UNCHANGED <<provider, owner, alive, kaggleVars, keeper, modalVars, said>>
\* ... and the notebook deleted and forgotten, or named to the user.
KaggleDeletes(s) ==
  /\ At(s, "kaggle", "closing")
  /\ \/ Untouched(owner[s]) /\ ~rewrite[owner[s]].on
        /\ Becomes(s, "gone") /\ Reads(owner[s], s) /\ UNCHANGED said
     \/ said' = said \union {s} /\ UNCHANGED <<machine, rewrite>>
  /\ Goes(s, "over")
  /\ UNCHANGED <<provider, owner, alive, record, sweep, recent, cookie, keeper, modalVars>>

\* Mutant: whoever made it.
OrphansAny == {s \in record : Exists(s)}
\* orphaned_notebooks: the recorded ones the account still has whose process is gone.
Orphans == {s \in record : Exists(s) /\ owner[s] \notin alive}
SweepLooks ==
  /\ provider = "kaggle" /\ sweep.delete = {} /\ Orphans # {}
  /\ sweep' = [sweep EXCEPT !.delete = Orphans]
  /\ UNCHANGED <<provider, owner, alive, step, machine, record, rewrite, recent, cookie, keeper, modalVars, said>>
\* stop_orphan: deletes it, which ends its run, and forgets it.
SweepDeletes(s) ==
  /\ s \in sweep.delete /\ sweep' = [sweep EXCEPT !.delete = @ \ {s}]
  /\ \/ ~rewrite[CLI].on /\ Untouched(CLI) /\ Becomes(s, "gone") /\ Reads(CLI, s)
     \/ UNCHANGED <<machine, rewrite>>
  /\ UNCHANGED <<provider, owner, alive, step, record, recent, cookie, keeper, modalVars, said>>
\* list_notebooks_via_cli: what is recorded and no longer on the account is forgotten.
ListLooks ==
  /\ provider = "kaggle" /\ sweep.forget = {} /\ \E s \in record : ~Exists(s)
  /\ sweep' = [sweep EXCEPT !.forget = {s \in record : ~Exists(s)}]
  /\ UNCHANGED <<provider, owner, alive, step, machine, record, rewrite, recent, cookie, keeper, modalVars, said>>
ListForgets(s) ==
  /\ s \in sweep.forget /\ sweep' = [sweep EXCEPT !.forget = @ \ {s}]
  /\ ~rewrite[CLI].on /\ Untouched(CLI) /\ Reads(CLI, s)
  /\ UNCHANGED <<provider, owner, alive, step, machine, record, recent, cookie, keeper, modalVars, said>>

-----------------------------------------------------------------------------
(* Colab: a session by name, kept awake by a process of its own. *)

\* `colab new`; a command that fails or takes 900 s may have made the session all the same.
ColabMakes(s) ==
  /\ At(s, "colab", "new")
  /\ \/ Becomes(s, "up") /\ \E where \in {"made", "over"} : Goes(s, where)
     \/ UNCHANGED machine /\ Goes(s, "over")
  /\ UNCHANGED <<provider, owner, alive, kaggleVars, keeper, modalVars, said>>
\* The keep-alive says it is ready, or is ended and the session stopped.
ColabKeeps(s) ==
  /\ At(s, "colab", "made")
  /\ \/ keeper' = keeper \union {s} /\ Goes(s, "open") /\ UNCHANGED machine
     \/ Goes(s, "over") /\ UNCHANGED keeper /\ (Becomes(s, "gone") \/ UNCHANGED machine)
  /\ UNCHANGED <<provider, owner, alive, kaggleVars, modalVars, said>>
\* stop: the keep-alive first, then `colab stop`, whose failure is passed over.
ColabStops(s) ==
  /\ At(s, "colab", "open") /\ keeper' = keeper \ {s} /\ Goes(s, "over")
  /\ Becomes(s, "gone") \/ UNCHANGED machine
  /\ UNCHANGED <<provider, owner, alive, kaggleVars, modalVars, said>>
\* Mutant: it looks for the session instead.
KeeperStays(s) ==
  /\ s \in keeper /\ ~Exists(s) /\ keeper' = keeper \ {s}
  /\ UNCHANGED <<provider, owner, alive, step, machine, kaggleVars, modalVars, said>>
\* The keep-alive looks for its owner before every wake.
KeeperEnds(s) ==
  /\ s \in keeper /\ owner[s] \notin alive /\ keeper' = keeper \ {s}
  /\ UNCHANGED <<provider, owner, alive, step, machine, kaggleVars, modalVars, said>>

-----------------------------------------------------------------------------
(* Modal: one adapter process for each letify process, asked one thing at a time. *)

ModalAsks(s) ==
  /\ At(s, "modal", "new") /\ owner[s] \notin skewed /\ Goes(s, "asked")
  /\ \A t \in Starts : owner[t] = owner[s] => step[t] # "asked"
  /\ UNCHANGED <<provider, owner, alive, machine, kaggleVars, keeper, modalVars, said>>
\* The adapter makes the sandbox, and the reply names it.
ModalMakes(s) ==
  /\ At(s, "modal", "asked") /\ Becomes(s, "up") /\ Goes(s, "open")
  /\ known' = [known EXCEPT ![owner[s]] = @ \union {s}]
  /\ helper' = [helper EXCEPT ![owner[s]] = @ \union {s}]
  /\ UNCHANGED <<provider, owner, alive, kaggleVars, keeper, skewed, said>>
\* Interrupted before the reply: nothing that follows can be told from it.
ModalInterrupted(s) ==
  /\ At(s, "modal", "asked") /\ Becomes(s, "up") /\ Goes(s, "over")
  /\ helper' = [helper EXCEPT ![owner[s]] = @ \union {s}]
  /\ skewed' = skewed \union {owner[s]}
  /\ UNCHANGED <<provider, owner, alive, kaggleVars, keeper, known, said>>
\* stop: the adapter ends the sandbox, or refuses to, which is passed over.
ModalStops(s) ==
  /\ At(s, "modal", "open") /\ owner[s] \notin skewed /\ Goes(s, "over")
  /\ \/ /\ machine' = [machine EXCEPT ![s] = "gone"]
        /\ known' = [known EXCEPT ![owner[s]] = @ \ {s}]
        /\ helper' = [helper EXCEPT ![owner[s]] = @ \ {s}]
     \/ UNCHANGED <<machine, known, helper>>
  /\ UNCHANGED <<provider, owner, alive, kaggleVars, keeper, skewed, said>>
\* Adapter.abort, when the adapter cannot be asked: a second adapter ends every sandbox this
\* one knows, whose process is killed; the next request has an adapter of its own.
ModalAborts(p) ==
  /\ provider = "modal" /\ p \in alive
  /\ \E s \in Starts : owner[s] = p /\ step[s] = "open" /\ Goes(s, "over")
  /\ machine' = [s \in Starts |-> IF s \in known[p] THEN "gone" ELSE machine[s]]
  /\ known' = [known EXCEPT ![p] = {}] /\ helper' = [helper EXCEPT ![p] = {}]
  /\ skewed' = skewed \ {p}
  /\ UNCHANGED <<provider, owner, alive, kaggleVars, keeper, said>>
\* The adapter process sees its input end and ends what it made.
HelperEnds(p) ==
  /\ p \notin alive /\ helper[p] # {} /\ helper' = [helper EXCEPT ![p] = {}]
  /\ machine' = [s \in Starts |-> IF s \in helper[p] THEN "gone" ELSE machine[s]]
  /\ UNCHANGED <<provider, owner, alive, step, kaggleVars, keeper, known, skewed, said>>

-----------------------------------------------------------------------------
\* A process ends, or is killed; letify's exit handlers run in the pool's model.
Dies(p) ==
  /\ p \in alive /\ alive' = alive \ {p} /\ (Overlaps \/ ~rewrite[p].on)
  /\ UNCHANGED <<provider, owner, step, machine, kaggleVars, keeper, modalVars, said>>

\* Nothing uses the machine, or keeps it awake.
Unused(s) == s \notin keeper /\ (owner[s] \notin alive \/ step[s] \in {"over", "closing"})
\* The provider ends a machine that does nothing; a notebook stays without its run.
Reclaims(s) ==
  /\ machine[s] = "up" /\ Unused(s)
  /\ Becomes(s, IF provider = "kaggle" THEN "kept" ELSE "gone")
  /\ UNCHANGED <<provider, owner, alive, step, kaggleVars, keeper, modalVars, said>>

Next ==
  \/ \E s \in Starts :
       \/ Note(s) \/ KaggleMakes(s) \/ KaggleRuns(s) \/ KaggleOpens(s) \/ KaggleFails(s)
       \/ KaggleStops(s) \/ KaggleDeletes(s) \/ SweepDeletes(s) \/ ListForgets(s)
       \/ ColabMakes(s) \/ ColabKeeps(s) \/ ColabStops(s) \/ KeeperEnds(s)
       \/ ModalAsks(s) \/ ModalMakes(s) \/ ModalInterrupted(s) \/ ModalStops(s) \/ Reclaims(s)
  \/ SweepLooks \/ ListLooks \/ LoginChanges \/ TimePasses
  \/ \E a \in Actors : Cuts(a) \/ Writes(a)
  \/ \E p \in Procs : ModalAborts(p) \/ HelperEnds(p) \/ Dies(p)

Spec == Init /\ [][Next]_vars
\* The provider's own idle limit, and the helpers' loops.
FairSpec == Spec /\ \A s \in Starts : WF_vars(Reclaims(s)) /\ WF_vars(KeeperEnds(s))

-----------------------------------------------------------------------------
\* A notebook whose process is gone is still in the record, so that `letify stop --orphans`
\* finds it, or the user was told of it; only a process that dies between making the notebook
\* and noting it leaves one nobody finds (kaggle.py: record_notebook, forget_ref).
Findable ==
  \A s \in Starts : provider = "kaggle" /\ Exists(s) /\ owner[s] \notin alive =>
    s \in record \union said \/ step[s] = "made" \/ \E a \in Actors : rewrite[a].cut /\ s \in rewrite[a].copy

\* Only its own process, or the sweep once that process is gone, deletes a notebook.
SweepSafe ==
  [][\A s \in Starts : provider = "kaggle" /\ Exists(s) /\ machine'[s] = "gone" =>
       step[s] = "closing" \/ owner[s] \notin alive]_vars

\* A session is made no sooner than the interval after one that has ended (kaggle.py:
\* wait_before_session).
GapKept ==
  [][\A s, t \in Starts : machine[s] = "none" /\ machine'[s] = "kept" /\ t \in recent =>
       step[t] # "over"]_vars

\* A machine nobody uses any more stops running: the keep-alive ends with its owner and with
\* its session, so that Colab's idle limit takes the machine; Kaggle and Modal have limits of
\* their own (colab_keepalive.py: run; colab.py: stop).
AbandonedEnds ==
  \A s \in Starts : machine[s] = "up" /\ (owner[s] \notin alive \/ step[s] = "over")
    ~> machine[s] # "up"
=============================================================================
