------------------------------ MODULE CudaMapping ------------------------------
(***************************************************************************)
(* The CUDA mapping (remoting/device/cuda.py): while a body runs with its  *)
(* operators forwarded, torch.cuda answers for the runtime's device.       *)
(* mapped replaces the attributes of torch.cuda and puts them back,        *)
(* unmapped undoes that for a block inside, and a forked child forgets it. *)
(***************************************************************************)
EXTENDS Integers, Sequences, SequencesExt, FiniteSets

CONSTANTS Threads,    \* threads that run host='local' calls
          Clients,    \* the clients they forward to
          MaxBlocks,  \* how deep a thread nests its blocks
          Together    \* whether two threads may have blocks open at once

VARIABLES patched,    \* what torch.cuda, torch.Tensor and torch.compile answer for now
          mappings,   \* _ACTIVE and _ACTIVE_HOST, one table per open mapping
          clients,    \* _CLIENTS
          foreach,    \* whether RemoteTensor is in _foreach_supported_types
          blocks,     \* per thread the open blocks, innermost last
          modes,      \* per thread the CudaMode instances in effect
          child       \* what a forked child was left with

mappingVars == <<patched, mappings, clients, foreach, blocks, modes, child>>

Plain == "plain"
NoClient == "none"

MappingInit ==
  /\ patched = Plain /\ mappings = <<>> /\ clients = <<>> /\ foreach = FALSE /\ child = Plain
  /\ blocks = [t \in Threads |-> <<>>] /\ modes = [t \in Threads |-> <<>>]

May(t) == Len(blocks[t]) < MaxBlocks /\ (~Together => \A o \in Threads \ {t} : blocks[o] = <<>>)
Opens(t, block) == blocks' = [blocks EXCEPT ![t] = Append(@, block)]
Innermost(t) == Last(blocks[t])
Closes(t, kind) == /\ blocks[t] # <<>> /\ Innermost(t).kind = kind
                   /\ blocks' = [blocks EXCEPT ![t] = Front(@)]

\* mapped: the attributes in force are saved, and the client's put in their place.
Maps(t) ==
  /\ May(t)
  /\ \E c \in Clients :
       /\ Opens(t, [kind |-> "mapped", saved |-> patched, client |-> c, added |-> ~foreach])
       /\ patched' = c /\ mappings' = Append(mappings, c) /\ clients' = Append(clients, c)
       /\ foreach' = TRUE /\ modes' = [modes EXCEPT ![t] = Append(@, c)]
  /\ UNCHANGED child

\* Mutant: the attributes of PyTorch itself are put back.
UnmapsPlain(t) ==
  /\ Closes(t, "mapped") /\ patched' = Plain
  /\ mappings' = Front(mappings) /\ clients' = Front(clients)
  /\ foreach' = (foreach /\ ~Innermost(t).added)
  /\ modes' = [modes EXCEPT ![t] = Front(@)] /\ UNCHANGED child
Unmaps(t) ==
  /\ Closes(t, "mapped") /\ patched' = Innermost(t).saved
  /\ mappings' = Front(mappings) /\ clients' = Front(clients)
  /\ foreach' = (foreach /\ ~Innermost(t).added)
  /\ modes' = [modes EXCEPT ![t] = Front(@)] /\ UNCHANGED child

\* unmapped: nothing when no mapping is open, else PyTorch's own attributes for the block and
\* the innermost mode set aside.  Where the thread has no mode to set aside the block raises
\* before its body, and its finally has put everything back: no step.
Suspends(t) ==
  /\ May(t)
  /\ IF mappings = <<>>
     THEN Opens(t, [kind |-> "open", saved |-> patched, client |-> NoClient, added |-> FALSE])
          /\ UNCHANGED <<patched, clients, modes>>
     ELSE /\ modes[t] # <<>>
          /\ Opens(t, [kind |-> "unmapped", saved |-> patched, client |-> Last(modes[t]), added |-> FALSE])
          /\ patched' = Plain /\ clients' = Append(clients, NoClient)
          /\ modes' = [modes EXCEPT ![t] = Front(@)]
  /\ UNCHANGED <<mappings, foreach, child>>
Resumes(t) ==
  \/ Closes(t, "open") /\ UNCHANGED <<patched, mappings, clients, foreach, modes, child>>
  \/ /\ Closes(t, "unmapped") /\ patched' = Innermost(t).saved /\ clients' = Front(clients)
     /\ modes' = [modes EXCEPT ![t] = Append(@, Innermost(t).client)]
     /\ UNCHANGED <<mappings, foreach, child>>

\* _forget_in_child: a child forked inside a mapping starts with PyTorch's own attributes.
Forks(t) ==
  /\ blocks[t] # <<>> /\ child' = IF mappings = <<>> THEN patched ELSE Plain
  /\ UNCHANGED <<patched, mappings, clients, foreach, blocks, modes>>

MappingNext == \E t \in Threads : Maps(t) \/ Unmaps(t) \/ Suspends(t) \/ Resumes(t) \/ Forks(t)
MappingSpec == MappingInit /\ [][MappingNext]_mappingVars

-----------------------------------------------------------------------------
\* With no block open, nothing of the mapping is left behind.
Undone == (\A t \in Threads : blocks[t] = <<>>) =>
            patched = Plain /\ mappings = <<>> /\ clients = <<>> /\ ~foreach

\* Inside a block torch.cuda, current_client and the mode of the thread that opened it answer
\* for the same client, or for none of them; a child answers for none.
InStep ==
  /\ child = Plain
  /\ \A t \in Threads : blocks[t] # <<>> =>
       CASE Innermost(t).kind = "mapped" -> patched = Innermost(t).client /\ clients # <<>>
              /\ Last(clients) = Innermost(t).client /\ foreach /\ Last(modes[t]) = Innermost(t).client
         [] OTHER -> patched = Plain /\ (clients # <<>> => Last(clients) = NoClient)
=============================================================================
