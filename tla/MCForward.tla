------------------------------- MODULE MCForward -------------------------------
(***************************************************************************)
(* Tensor programs on a remote device: the forwarded programs (Forward,    *)
(* straight-line code over four names), the cache of uploaded tensors      *)
(* (UploadCache), the blocks that map torch.cuda (CudaMapping), and the    *)
(* driver of letify-core, for a process of two threads or for two          *)
(* processes after each other (CudaDriver).  A behaviour is about one of   *)
(* these parts; the others stay as they begin.                             *)
(***************************************************************************)
EXTENDS Forward

CONSTANTS Blobs, CacheMin, Budgets, MaxBlobs, MaxBatches, Clients, MaxBlocks, Together,
          MaxHandles, Sizes, Spacing, DeviceSize, Reserve, MaxPending

VARIABLES part,
  uploads, budget, unsaid, batches, table, limit, lacked,
  patched, mappings, clients, foreach, blocks, modes, child,
  process, attached, next, live, at, pending, socket, answers, device, refused, written, late, misread

uploadVars == <<uploads, budget, unsaid, batches, table, limit, lacked>>
mappingVars == <<patched, mappings, clients, foreach, blocks, modes, child>>
driverVars == <<process, attached, next, live, at, pending, socket, answers, device, refused, written,
                late, misread>>

\* One tensor small enough to share the cache with another.
MCSize == [b \in Blobs |-> IF b = CHOOSE a \in Blobs : TRUE THEN 1 ELSE 2]

Upload == INSTANCE UploadCache WITH Size <- MCSize
Mapping == INSTANCE CudaMapping WITH Threads <- {1, 2}
Driver == INSTANCE CudaDriver WITH Threads <- {1, 2}, Processes <- 1, queue <- pending, wire <- socket
DriverAgain == INSTANCE CudaDriver WITH Threads <- {1}, Processes <- 2, queue <- pending, wire <- socket

Run(op, ins, outs) == [k |-> "op", op |-> op, ins |-> ins, outs |-> outs, bad |-> FALSE]
Bad(op, ins, outs) == [k |-> "op", op |-> op, ins |-> ins, outs |-> outs, bad |-> TRUE]
Ask(k, v) == [k |-> k, ins |-> <<v>>]
Del(v) == [k |-> "del", outs |-> <<v>>]
Do(k) == [k |-> k]
WaitFor(k, r) == [k |-> k, r |-> r]
Describe(op, ins, outs) == [k |-> "describe", op |-> op, ins |-> ins, outs |-> outs, bad |-> FALSE]
Loop(body, n) == FlattenSeq([i \in 1 .. n |-> body])

MCHandles == 1 .. 12

X == Run("make", <<>>, <<"x">>)
W == Run("make", <<>>, <<"w">>)
\* A training loop that reads a value that was dropped by the end of its repetition.
Body == <<Run("f", <<"w">>, <<"y">>), Run("g", <<"y">>, <<"x">>)>>
Chain == <<Run("f", <<"x">>, <<"y">>), Run("g", <<"y">>, <<"x">>)>>

MCPrograms == {
  <<X>> \o Loop(Chain, 3) \o <<Ask("later", "x"), WaitFor("wait", 1), Do("count")>>,
  <<X>> \o Loop(<<Run("f", <<"x">>, <<"x">>)>>, 5) \o <<Ask("later", "x"), WaitFor("wait", 1)>>,
  <<X>> \o Loop(Chain, 3) \o <<Run("f", <<"x">>, <<"y">>), Ask("fetch", "y"), Run("g", <<"y">>, <<"x">>), Do("close")>>,
  <<W>> \o Loop(Body, 2) \o <<Run("f", <<"w">>, <<"y">>), Del("w"), Run("g", <<"y">>, <<"x">>), Do("sync")>>,
  <<W>> \o Loop(Body, 2) \o <<Ask("later", "x"), WaitFor("await", 1), Run("f", <<"w">>, <<"y">>), Del("w"), Run("g", <<"y">>, <<"x">>), Do("sync")>>,
  <<X, Run("f", <<"x">>, <<"y">>)>> \o Loop(<<Run("add_", <<"x", "y">>, <<>>), Run("f", <<"x">>, <<"y">>)>>, 3)
    \o <<Ask("fetch", "y"), Ask("item", "x")>>,
  <<X, Run("view", <<"x">>, <<"y">>), Run("f", <<"y">>, <<"z">>), Run("add_", <<"x", "z">>, <<>>), Ask("fetch", "y"),
    Run("f", <<"x">>, <<"x">>), Ask("item", "z"), Del("y"), Do("count")>>,
  <<X, Ask("later", "x"), Bad("f", <<"x">>, <<"y">>), Do("post"), Ask("later", "x"), Run("g", <<"y">>, <<"z">>), Ask("fetch", "x"), Do("sync")>>,
  <<X, Bad("f", <<"x">>, <<"y">>), Ask("later", "x"), WaitFor("await", 1), Run("f", <<"x">>, <<"y">>), Ask("later", "y"), WaitFor("wait", 2), Do("close")>>,
  <<X, Describe("nonzero", <<"x">>, <<"y">>), Run("f", <<"y">>, <<"z">>), Del("y"), Ask("fetch", "z"), Do("count")>>,
  <<X, Ask("later", "x"), Run("f", <<"x">>, <<"x">>), WaitFor("await", 1), Ask("later", "x"), Run("g", <<"x">>, <<"x">>), Ask("later", "x"), WaitFor("wait", 3)>>,
  <<X, Run("add_", <<"x">>, <<>>), Ask("later", "x"), Ask("later", "x"), Run("add_", <<"x">>, <<>>), Ask("item", "x"), Ask("later", "x"), Do("sync")>> }

-----------------------------------------------------------------------------
MCInit ==
  /\ part \in {"program", "upload", "mapping", "driver", "drivers"}
  /\ Init /\ Upload!UploadInit /\ Mapping!MappingInit
  /\ IF part = "drivers" THEN DriverAgain!DriverInit ELSE Driver!DriverInit
  /\ part # "program" => program = CHOOSE p \in Programs : TRUE
  /\ part # "upload" => budget = CHOOSE n \in Budgets : TRUE

MCNext ==
  \/ part = "program" /\ Next /\ UNCHANGED <<part, uploadVars, mappingVars, driverVars>>
  \/ part = "upload" /\ Upload!UploadNext /\ UNCHANGED <<part, vars, mappingVars, driverVars>>
  \/ part = "mapping" /\ Mapping!MappingNext /\ UNCHANGED <<part, vars, uploadVars, driverVars>>
  \/ part = "driver" /\ Driver!DriverNext /\ UNCHANGED <<part, vars, uploadVars, mappingVars>>
  \/ part = "drivers" /\ DriverAgain!DriverNext /\ UNCHANGED <<part, vars, uploadVars, mappingVars>>

MCSpec == MCInit /\ [][MCNext]_<<part, vars, uploadVars, mappingVars, driverVars>>

-----------------------------------------------------------------------------
\* A read gives the value the program computes without forwarding, no operator finds a handle
\* missing, and the executor's table is the program's and holds nothing the program dropped.
ValuesHonest == TypeOK /\ ReadsHonest /\ NothingMissing /\ WorkerAgrees /\ NoLeak

\* A digest sent for a tensor is one the executor holds, and when all is applied both sides
\* remember the same tensors.
DigestsHeld == Upload!UploadTypeOK /\ Upload!DigestsHeld /\ Upload!TablesAgree

\* When every block is over torch.cuda is as it was, and while blocks are open the mapping, the
\* client and the mode in effect belong together.
MappingUndone == Mapping!Undone /\ Mapping!InStep

\* A copy to the host returns what was copied there last, and what the agent holds for the
\* process is what its table says.
DriverKept ==
  /\ Driver!CopiesRight
  /\ IF part = "drivers" THEN DriverAgain!AgentTracks ELSE Driver!AgentTracks

\* table.rs:14 "refuses locally once the budget is gone": what the driver accepts, the device has.
AcceptedFits == Driver!AcceptedFits
=============================================================================
