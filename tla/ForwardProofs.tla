----------------------------- MODULE ForwardProofs -----------------------------
(***************************************************************************)
(* Proofs about a forwarded program: the blocks that map torch.cuda put    *)
(* back what they found, however deep they are nested; the channel does    *)
(* what its driver says; both ends of an upload keep the same digests of   *)
(* the values they hold; and every reply on its way is for the readers     *)
(* that were noted for it.                                                 *)
(***************************************************************************)
EXTENDS MCForward, LibraryProofs

\* What is in force for a thread: what torch.cuda answers, the open mappings, the clients, the
\* types, and the thread's modes.
Plain == Mapping!Plain
InForce == {s \in [shown : Clients \cup {Plain}, maps : Seq(Clients), stack : Seq(Clients \cup {Mapping!NoClient}),
                   types : BOOLEAN, calls : Seq(Clients)] :
              s.maps = <<>> => s.shown = Plain /\ s.stack = <<>>}
Outside == [shown |-> Plain, maps |-> <<>>, stack |-> <<>>, types |-> FALSE, calls |-> <<>>]
Now(t) == [shown |-> patched, maps |-> mappings, stack |-> clients, types |-> foreach, calls |-> modes[t]]

\* A block opened where s was in force leaves r in force.
Leads(s, b, r) ==
  CASE b.kind = "mapped" ->
         /\ b.client \in Clients /\ b.saved = s.shown /\ b.added = ~s.types
         /\ r = [shown |-> b.client, maps |-> Append(s.maps, b.client), stack |-> Append(s.stack, b.client),
                 types |-> TRUE, calls |-> Append(s.calls, b.client)]
    [] b.kind = "unmapped" ->
         /\ s.maps # <<>> /\ s.calls # <<>> /\ b.saved = s.shown /\ b.client = Last(s.calls)
         /\ r = [shown |-> Plain, maps |-> s.maps, stack |-> Append(s.stack, Mapping!NoClient),
                 types |-> s.types, calls |-> Front(s.calls)]
    [] b.kind = "open" -> s.maps = <<>> /\ r = s
    [] OTHER -> FALSE

\* The blocks of a thread lead from outside of any block to what is in force now.
Unwinds(t) ==
  \E H \in [0 .. Len(blocks[t]) -> InForce] :
    /\ H[0] = Outside /\ H[Len(blocks[t])] = Now(t)
    /\ \A i \in 1 .. Len(blocks[t]) : Leads(H[i - 1], blocks[t][i], H[i])

Block == [kind : {"mapped", "unmapped", "open"}, saved : Clients \cup {Plain},
          client : Clients \cup {Mapping!NoClient}, added : BOOLEAN]

Alone(t) == \A o \in {1, 2} \ {t} : blocks[o] = <<>>
MappingInv ==
  /\ child = Plain
  /\ blocks \in [{1, 2} -> Seq(Block)] /\ modes \in [{1, 2} -> Seq(Clients)]
  /\ \A t \in {1, 2} : blocks[t] # <<>> => Alone(t)
  /\ \A t \in {1, 2} : blocks[t] = <<>> => modes[t] = <<>>
  /\ \A t \in {1, 2} : Alone(t) => Unwinds(t)

\* The last element of a sequence and the elements before it.
LEMMA FrontLast ==
  ASSUME NEW S, NEW s \in Seq(S), s # <<>>
  PROVE  /\ Front(s) \in Seq(S) /\ Len(Front(s)) = Len(s) - 1 /\ Len(s) \in Nat \ {0}
         /\ \A i \in 1 .. Len(s) - 1 : Front(s)[i] = s[i]
         /\ Last(s) \in S /\ Last(s) = s[Len(s)] /\ Append(Front(s), Last(s)) = s
<1>1. /\ Front(s) \in Seq(S) /\ Len(Front(s)) = Len(s) - 1 /\ Len(s) \in Nat \ {0}
      /\ \A i \in 1 .. Len(s) - 1 : Front(s)[i] = s[i]
      /\ Last(s) \in S /\ Last(s) = s[Len(s)]
  <2>1. Len(s) \in Nat \ {0}
    BY EmptySeq
  <2>2. Last(s) \in S /\ Last(s) = s[Len(s)]
    BY <2>1, ElementOfSeq DEF Last
  <2>3. Front(s) \in Seq(S) /\ Len(Front(s)) = Len(s) - 1
        /\ \A i \in 1 .. Len(s) - 1 : Front(s)[i] = s[i]
    <3> DEFINE n == Len(s) - 1
    <3>1. n \in Nat /\ \A i \in 1 .. n : s[i] \in S
      BY <2>1, ElementOfSeq
    <3>2. /\ SubSeq(s, 1, n) \in Seq(S) /\ Len(SubSeq(s, 1, n)) = IF 1 <= n THEN n - 1 + 1 ELSE 0
          /\ \A i \in 1 .. n - 1 + 1 : SubSeq(s, 1, n)[i] = s[1 + i - 1]
      BY <3>1, SubSeqProperties
    <3> HIDE DEF n
    <3>3. Len(SubSeq(s, 1, n)) = n
      <4>1. (IF 1 <= n THEN n - 1 + 1 ELSE 0) = n
        BY <3>1
      <4> QED
        BY <3>2, <4>1
    <3>4. ASSUME NEW i \in 1 .. n PROVE SubSeq(s, 1, n)[i] = s[i]
      <4>1. i \in 1 .. n - 1 + 1 /\ 1 + i - 1 = i
        BY <3>1
      <4> QED
        BY <3>2, <4>1
    <3> QED
      BY <3>2, <3>3, <3>4 DEF Front, n
  <2> QED
    BY <2>1, <2>2, <2>3
<1>2. Append(Front(s), Last(s)) = s
  <2>1. Append(Front(s), Last(s)) \in Seq(S) /\ Len(Append(Front(s), Last(s))) = Len(s)
    BY <1>1, AppendProperties
  <2>2. \A i \in 1 .. Len(s) : Append(Front(s), Last(s))[i] = s[i]
    BY <1>1, AppendProperties
  <2> QED
    BY <2>1, <2>2, SeqEqual
<1> QED
  BY <1>1, <1>2

\* What a sequence is when an element is appended to it, and that taking it off again undoes it.
LEMMA LastAppended ==
  ASSUME NEW S, NEW s \in Seq(S), NEW x \in S
  PROVE  /\ Append(s, x) \in Seq(S) /\ Append(s, x) # <<>> /\ Len(Append(s, x)) = Len(s) + 1
         /\ \A i \in 1 .. Len(s) : Append(s, x)[i] = s[i]
         /\ Append(s, x)[Len(s) + 1] = x /\ Last(Append(s, x)) = x /\ Front(Append(s, x)) = s
<1>1. /\ Append(s, x) \in Seq(S) /\ Append(s, x) # <<>> /\ Len(Append(s, x)) = Len(s) + 1
      /\ \A i \in 1 .. Len(s) : Append(s, x)[i] = s[i]
      /\ Append(s, x)[Len(s) + 1] = x /\ Last(Append(s, x)) = x
  BY AppendProperties DEF Last
<1>2. Front(Append(s, x)) \in Seq(S) /\ Len(Front(Append(s, x))) = Len(s)
      /\ \A i \in 1 .. Len(s) : Front(Append(s, x))[i] = s[i]
  <2> DEFINE u == Append(s, x)
  <2>1. Len(s) \in Nat /\ u \in Seq(S) /\ u # <<>> /\ Len(u) = Len(s) + 1
        /\ \A i \in 1 .. Len(s) : u[i] = s[i]
    BY <1>1, LenProperties
  <2> HIDE DEF u
  <2>2. Front(u) \in Seq(S) /\ Len(Front(u)) = Len(u) - 1 /\ \A i \in 1 .. Len(u) - 1 : Front(u)[i] = u[i]
    BY <2>1, FrontLast
  <2>3. Len(u) - 1 = Len(s)
    BY <2>1
  <2> QED
    BY <2>1, <2>2, <2>3 DEF u
<1>3. Front(Append(s, x)) = s
  BY <1>2, SeqEqual
<1> QED
  BY <1>1, <1>3

\* A block that is opened goes on where the others led.
LEMMA Opening ==
  ASSUME NEW t \in {1, 2}, Unwinds(t), NEW S, NEW b \in S, blocks[t] \in Seq(S),
         blocks'[t] = Append(blocks[t], b), Now(t)' \in InForce, Leads(Now(t), b, Now(t)')
  PROVE  Unwinds(t)'
<1> DEFINE n == Len(blocks[t])
<1>1. PICK H \in [0 .. n -> InForce] :
        /\ H[0] = Outside /\ H[n] = Now(t)
        /\ \A i \in 1 .. n : Leads(H[i - 1], blocks[t][i], H[i])
  BY DEF Unwinds
<1> DEFINE G == [i \in 0 .. n + 1 |-> IF i = n + 1 THEN Now(t)' ELSE H[i]]
<1>2. n \in Nat /\ Len(blocks'[t]) = n + 1 /\ blocks'[t][n + 1] = b
      /\ \A i \in 1 .. n : blocks'[t][i] = blocks[t][i]
  BY LastAppended, LenProperties
<1>3. G \in [0 .. n + 1 -> InForce]
  BY <1>1, <1>2
<1>4. G[0] = Outside /\ G[n + 1] = Now(t)'
  BY <1>1, <1>2
<1>5. \A i \in 1 .. n + 1 : Leads(G[i - 1], blocks'[t][i], G[i])
  <2>1. TAKE i \in 1 .. n + 1
  <2>2. CASE i = n + 1
    <3>1. G[i - 1] = Now(t) /\ G[i] = Now(t)' /\ blocks'[t][i] = b
      BY <1>1, <1>2, <2>2
    <3> QED
      BY <3>1
  <2>3. CASE i \in 1 .. n
    <3>1. G[i - 1] = H[i - 1] /\ G[i] = H[i] /\ blocks'[t][i] = blocks[t][i]
      BY <1>2, <2>3
    <3> QED
      BY <1>1, <2>3, <3>1
  <2> QED
    BY <1>2, <2>2, <2>3
<1> HIDE DEF G
<1> QED
  BY <1>2, <1>3, <1>4, <1>5 DEF Unwinds

\* A block that is closed leaves what the block below it led to.
LEMMA Closing ==
  ASSUME NEW t \in {1, 2}, Unwinds(t), NEW S, blocks[t] \in Seq(S), blocks[t] # <<>>,
         blocks'[t] = Front(blocks[t]),
         \A s \in InForce : Leads(s, Last(blocks[t]), Now(t)) => Now(t)' = s
  PROVE  Unwinds(t)'
<1> DEFINE n == Len(blocks[t])
<1>1. PICK H \in [0 .. n -> InForce] :
        /\ H[0] = Outside /\ H[n] = Now(t)
        /\ \A i \in 1 .. n : Leads(H[i - 1], blocks[t][i], H[i])
  BY DEF Unwinds
<1> DEFINE G == [i \in 0 .. n - 1 |-> H[i]]
<1>2. n \in Nat \ {0} /\ Len(blocks'[t]) = n - 1 /\ Last(blocks[t]) = blocks[t][n]
      /\ \A i \in 1 .. n - 1 : blocks'[t][i] = blocks[t][i]
  <2>1. /\ Len(Front(blocks[t])) = n - 1 /\ n \in Nat \ {0} /\ Last(blocks[t]) = blocks[t][n]
        /\ \A i \in 1 .. n - 1 : Front(blocks[t])[i] = blocks[t][i]
    BY FrontLast
  <2> QED
    BY <2>1
<1>3. G \in [0 .. n - 1 -> InForce]
  BY <1>1, <1>2
<1>4. G[0] = Outside /\ G[n - 1] = H[n - 1] /\ H[n - 1] \in InForce
  <2>1. 0 \in 0 .. n - 1 /\ n - 1 \in 0 .. n - 1 /\ n - 1 \in 0 .. n
    BY <1>2
  <2> QED
    BY <1>1, <2>1
<1>5. H[n - 1] = Now(t)'
  <2>1. Leads(H[n - 1], blocks[t][n], H[n])
    BY <1>1, <1>2
  <2> QED
    BY <1>1, <1>2, <1>4, <2>1
<1>6. \A i \in 1 .. n - 1 : Leads(G[i - 1], blocks'[t][i], G[i])
  <2>1. TAKE i \in 1 .. n - 1
  <2>2. G[i - 1] = H[i - 1] /\ G[i] = H[i] /\ blocks'[t][i] = blocks[t][i] /\ i \in 1 .. n
    BY <1>2
  <2> QED
    BY <1>1, <2>2
<1> HIDE DEF G
<1> QED
  BY <1>2, <1>3, <1>4, <1>5, <1>6 DEF Unwinds

\* What is in force is of the right kinds, and with no block open it is what it was outside.
LEMMA InForceNow ==
  ASSUME NEW t \in {1, 2}, Unwinds(t)
  PROVE  Now(t) \in InForce /\ (blocks[t] = <<>> => Now(t) = Outside)
<1>1. PICK H \in [0 .. Len(blocks[t]) -> InForce] : H[0] = Outside /\ H[Len(blocks[t])] = Now(t)
  BY DEF Unwinds
<1>2. CASE blocks[t] = <<>>
  <2>1. Len(blocks[t]) = 0
    BY <1>2
  <2> QED
    BY <1>1, <2>1
<1>3. CASE blocks[t] # <<>>
  <2>1. Now(t) \in InForce
    BY <1>1, <1>3, FrontLast, LastAppended
  <2> QED
    BY <1>3, <2>1
<1> QED
  BY <1>2, <1>3

\* A step of one thread, the other being outside of any block, keeps the invariant.
LEMMA OneThread ==
  ASSUME MappingInv, NEW t \in {1, 2}, Alone(t), Unwinds(t)', child' = Plain,
         blocks' \in [{1, 2} -> Seq(Block)], modes' \in [{1, 2} -> Seq(Clients)],
         \A o \in {1, 2} \ {t} : blocks'[o] = blocks[o] /\ modes'[o] = modes[o]
  PROVE  MappingInv'
<1>1. Alone(t)' /\ \A o \in {1, 2} \ {t} : blocks'[o] = <<>> /\ modes'[o] = <<>>
  BY DEF MappingInv, Alone
<1>2. blocks'[t] = <<>> => Now(t)' = Outside
  <2>1. PICK H \in [0 .. Len(blocks'[t]) -> InForce] : H[0] = Outside /\ H[Len(blocks'[t])] = Now(t)'
    BY DEF Unwinds
  <2> QED
    BY <2>1
<1>3. \A o \in {1, 2} : blocks'[o] = <<>> => modes'[o] = <<>>
  BY <1>1, <1>2 DEF Now, Outside
<1>4. ASSUME NEW o \in {1, 2}, Alone(o)' PROVE Unwinds(o)'
  <2>1. CASE o = t
    BY <2>1
  <2>2. CASE o # t
    <3>1. blocks'[t] = <<>> /\ blocks'[o] = <<>> /\ Now(o)' = Outside
      BY <1>1, <1>2, <1>4, <2>2 DEF Alone, Now, Outside
    <3>2. Outside \in InForce /\ Len(blocks'[o]) = 0
      BY <3>1 DEF Outside, InForce
    <3> DEFINE G == [i \in 0 .. 0 |-> Outside]
    <3>3. G \in [0 .. 0 -> InForce] /\ G[0] = Outside
      BY <3>2
    <3> HIDE DEF G
    <3> QED
      BY <3>1, <3>2, <3>3 DEF Unwinds
  <2> QED
    BY <2>1, <2>2
<1>5. \A o \in {1, 2} : blocks'[o] # <<>> => Alone(o)'
  BY <1>1 DEF Alone
<1> QED
  BY <1>3, <1>4, <1>5 DEF MappingInv

\* A new block opens where no other thread has one.
LEMMA OpensAlone ==
  ASSUME ~Together, MappingInv, NEW t \in {1, 2}, Mapping!May(t)
  PROVE  /\ Alone(t) /\ Unwinds(t) /\ Now(t) \in InForce
         /\ blocks[t] \in Seq(Block) /\ modes[t] \in Seq(Clients)
<1>1. Alone(t) /\ blocks[t] \in Seq(Block) /\ modes[t] \in Seq(Clients)
  BY DEF MappingInv, Alone, Mapping!May
<1> QED
  BY <1>1, InForceNow DEF MappingInv

LEMMA MapsKeep ==
  ASSUME ~Together, MappingInv, NEW t \in {1, 2}, Mapping!Maps(t)
  PROVE  MappingInv'
<1>1. /\ Alone(t) /\ Unwinds(t) /\ Now(t) \in InForce
      /\ blocks[t] \in Seq(Block) /\ modes[t] \in Seq(Clients)
  BY OpensAlone DEF Mapping!Maps
<1>2. PICK c \in Clients :
        /\ blocks' = [blocks EXCEPT ![t] = Append(@, [kind |-> "mapped", saved |-> patched, client |-> c, added |-> ~foreach])]
        /\ patched' = c /\ mappings' = Append(mappings, c) /\ clients' = Append(clients, c)
        /\ foreach' = TRUE /\ modes' = [modes EXCEPT ![t] = Append(@, c)]
  BY DEF Mapping!Maps, Mapping!Opens
<1> DEFINE b == [kind |-> "mapped", saved |-> patched, client |-> c, added |-> ~foreach]
<1>3. patched \in Clients \cup {Plain} /\ mappings \in Seq(Clients) /\ foreach \in BOOLEAN
      /\ clients \in Seq(Clients \cup {Mapping!NoClient})
  BY <1>1 DEF Now, InForce
<1>4. b \in Block /\ b.kind = "mapped" /\ b.client = c /\ b.saved = patched /\ b.added = ~foreach
  BY <1>3 DEF Block
<1>5. blocks'[t] = Append(blocks[t], b) /\ modes'[t] = Append(modes[t], c)
      /\ \A o \in {1, 2} \ {t} : blocks'[o] = blocks[o] /\ modes'[o] = modes[o]
  BY <1>2 DEF MappingInv
<1> HIDE DEF b
<1>6. blocks' \in [{1, 2} -> Seq(Block)] /\ modes' \in [{1, 2} -> Seq(Clients)]
  <2>1. Append(blocks[t], b) \in Seq(Block) /\ Append(modes[t], c) \in Seq(Clients)
    BY <1>1, <1>4, FrontLast, LastAppended
  <2> QED
    BY <1>2, <2>1 DEF MappingInv, b
<1>7. Now(t)' \in InForce
  <2>1. /\ mappings' \in Seq(Clients) /\ mappings' # <<>> /\ modes'[t] \in Seq(Clients)
        /\ clients' \in Seq(Clients \cup {Mapping!NoClient})
    <3>1. Append(mappings, c) \in Seq(Clients) /\ Append(mappings, c) # <<>>
      BY <1>3, LastAppended
    <3>2. Append(modes[t], c) \in Seq(Clients)
      BY <1>1, LastAppended
    <3>3. Append(clients, c) \in Seq(Clients \cup {Mapping!NoClient})
      BY <1>3, LastAppended
    <3> QED
      BY <1>2, <1>5, <3>1, <3>2, <3>3
  <2> QED
    BY <1>2, <2>1 DEF Now, InForce
<1>8. Leads(Now(t), b, Now(t)')
  BY <1>2, <1>4, <1>5 DEF Leads, Now
<1>9. Unwinds(t)'
  BY <1>1, <1>4, <1>5, <1>7, <1>8, Opening
<1>10. child' = Plain
  BY DEF MappingInv, Mapping!Maps
<1> QED
  BY <1>1, <1>5, <1>6, <1>9, <1>10, OneThread

LEMMA SuspendsKeep ==
  ASSUME ~Together, MappingInv, NEW t \in {1, 2}, Mapping!Suspends(t)
  PROVE  MappingInv'
<1>1. /\ Alone(t) /\ Unwinds(t) /\ Now(t) \in InForce
      /\ blocks[t] \in Seq(Block) /\ modes[t] \in Seq(Clients)
  BY OpensAlone DEF Mapping!Suspends
<1>2. patched \in Clients \cup {Plain} /\ mappings \in Seq(Clients) /\ foreach \in BOOLEAN
      /\ clients \in Seq(Clients \cup {Mapping!NoClient})
  BY <1>1 DEF Now, InForce
<1>3. child' = Plain /\ mappings' = mappings /\ foreach' = foreach
  BY DEF MappingInv, Mapping!Suspends
<1>4. ASSUME NEW b \in Block, blocks' = [blocks EXCEPT ![t] = Append(@, b)],
             modes' \in [{1, 2} -> Seq(Clients)], \A o \in {1, 2} \ {t} : modes'[o] = modes[o],
             Now(t)' \in InForce, Leads(Now(t), b, Now(t)')
      PROVE  MappingInv'
  <2>1. blocks'[t] = Append(blocks[t], b) /\ \A o \in {1, 2} \ {t} : blocks'[o] = blocks[o]
    BY <1>4 DEF MappingInv
  <2>2. Append(blocks[t], b) \in Seq(Block)
    BY <1>1, FrontLast, LastAppended
  <2>3. blocks' \in [{1, 2} -> Seq(Block)]
    BY <1>4, <2>2 DEF MappingInv
  <2>4. Unwinds(t)'
    BY <1>1, <1>4, <2>1, Opening
  <2> QED
    BY <1>1, <1>3, <1>4, <2>1, <2>3, <2>4, OneThread
<1>5. CASE mappings = <<>>
  <2> DEFINE b == [kind |-> "open", saved |-> patched, client |-> Mapping!NoClient, added |-> FALSE]
  <2>1. b \in Block /\ b.kind = "open"
    BY <1>2 DEF Block
  <2>2. blocks' = [blocks EXCEPT ![t] = Append(@, b)] /\ Now(t)' = Now(t) /\ modes' = modes
    BY <1>3, <1>5 DEF Mapping!Suspends, Mapping!Opens, Now
  <2> HIDE DEF b
  <2>3. Leads(Now(t), b, Now(t)')
    BY <1>5, <2>1, <2>2 DEF Leads, Now
  <2>4. modes' \in [{1, 2} -> Seq(Clients)]
    BY <2>2 DEF MappingInv
  <2> QED
    BY <1>1, <1>4, <2>1, <2>2, <2>3, <2>4
<1>6. CASE mappings # <<>>
  <2> DEFINE b == [kind |-> "unmapped", saved |-> patched, client |-> Last(modes[t]), added |-> FALSE]
  <2>1. /\ modes[t] # <<>> /\ patched' = Plain /\ clients' = Append(clients, Mapping!NoClient)
        /\ blocks' = [blocks EXCEPT ![t] = Append(@, b)] /\ modes' = [modes EXCEPT ![t] = Front(@)]
    <3>1. /\ modes[t] # <<>> /\ Mapping!Opens(t, b)
          /\ patched' = Mapping!Plain /\ clients' = Append(clients, Mapping!NoClient)
          /\ modes' = [modes EXCEPT ![t] = Front(@)]
      BY <1>6 DEF Mapping!Suspends, Mapping!Front, Mapping!Last, Front, Last
    <3> HIDE DEF b
    <3> QED
      BY <3>1 DEF Mapping!Opens, Plain
  <2>2. Front(modes[t]) \in Seq(Clients) /\ Last(modes[t]) \in Clients
    BY <1>1, <2>1, FrontLast, LastAppended
  <2>3. b \in Block /\ b.kind = "unmapped" /\ b.client = Last(modes[t]) /\ b.saved = patched
    BY <1>2, <2>2 DEF Block
  <2> HIDE DEF b
  <2>4. modes'[t] = Front(modes[t]) /\ (\A o \in {1, 2} \ {t} : modes'[o] = modes[o])
        /\ modes' \in [{1, 2} -> Seq(Clients)]
    BY <2>1, <2>2 DEF MappingInv
  <2>5. Now(t)' \in InForce
    <3>1. clients' \in Seq(Clients \cup {Mapping!NoClient})
      BY <1>2, <2>1, FrontLast, LastAppended
    <3> QED
      BY <1>2, <1>3, <1>6, <2>1, <2>2, <2>4, <3>1 DEF Now, InForce
  <2>6. Leads(Now(t), b, Now(t)')
    BY <1>3, <1>6, <2>1, <2>3, <2>4 DEF Leads, Now
  <2> QED
    BY <1>4, <2>1, <2>3, <2>4, <2>5, <2>6
<1> QED
  BY <1>5, <1>6
\* The thread of an open block is the only one with blocks.
LEMMA ClosesAlone ==
  ASSUME MappingInv, NEW t \in {1, 2}, blocks[t] # <<>>
  PROVE  /\ Alone(t) /\ Unwinds(t) /\ Now(t) \in InForce
         /\ blocks[t] \in Seq(Block) /\ modes[t] \in Seq(Clients) /\ Last(blocks[t]) \in Block
         /\ Front(blocks[t]) \in Seq(Block)
<1>1. Alone(t) /\ blocks[t] \in Seq(Block) /\ modes[t] \in Seq(Clients) /\ Unwinds(t)
  BY DEF MappingInv, Alone
<1> QED
  BY <1>1, InForceNow, FrontLast, LastAppended

\* Closing a block undoes what opening it did.
LEMMA ClosesKeep ==
  ASSUME MappingInv, NEW t \in {1, 2}, NEW kind, Mapping!Closes(t, kind), child' = child,
         modes' \in [{1, 2} -> Seq(Clients)], \A o \in {1, 2} \ {t} : modes'[o] = modes[o],
         \A s \in InForce : Leads(s, Last(blocks[t]), Now(t)) => Now(t)' = s
  PROVE  MappingInv'
<1>1. /\ Alone(t) /\ Unwinds(t) /\ blocks[t] \in Seq(Block) /\ Front(blocks[t]) \in Seq(Block)
      /\ blocks[t] # <<>>
  BY ClosesAlone DEF Mapping!Closes
<1>2. blocks'[t] = Front(blocks[t]) /\ (\A o \in {1, 2} \ {t} : blocks'[o] = blocks[o])
      /\ blocks' \in [{1, 2} -> Seq(Block)]
  BY <1>1 DEF MappingInv, Mapping!Closes, Mapping!Front, Front
<1>3. Unwinds(t)'
  BY <1>1, <1>2, Closing
<1> QED
  BY <1>1, <1>2, <1>3, OneThread DEF MappingInv

LEMMA UnmapsKeep ==
  ASSUME MappingInv, NEW t \in {1, 2}, Mapping!Unmaps(t)
  PROVE  MappingInv'
<1> DEFINE b == Last(blocks[t])
<1>1. /\ Mapping!Closes(t, "mapped") /\ b.kind = "mapped" /\ patched' = b.saved
      /\ mappings' = Front(mappings) /\ clients' = Front(clients)
      /\ foreach' = (foreach /\ ~b.added)
      /\ modes' = [modes EXCEPT ![t] = Front(@)] /\ child' = child
  BY DEF Mapping!Unmaps, Mapping!Innermost, Mapping!Closes, Mapping!Front, Mapping!Last, Front, Last
<1>2. /\ Alone(t) /\ Unwinds(t) /\ Now(t) \in InForce /\ modes[t] \in Seq(Clients)
  BY <1>1, ClosesAlone DEF Mapping!Closes
<1> HIDE DEF b
<1>3. PICK H \in [0 .. Len(blocks[t]) -> InForce] :
        /\ H[Len(blocks[t])] = Now(t)
        /\ \A i \in 1 .. Len(blocks[t]) : Leads(H[i - 1], blocks[t][i], H[i])
  BY <1>2 DEF Unwinds
<1>4. Len(blocks[t]) \in Nat \ {0} /\ b = blocks[t][Len(blocks[t])]
  <2>1. blocks[t] \in Seq(Block) /\ blocks[t] # <<>>
    BY <1>1 DEF MappingInv, Mapping!Closes
  <2> QED
    BY <2>1, FrontLast, LastAppended DEF b
<1>5. Leads(H[Len(blocks[t]) - 1], b, Now(t)) /\ H[Len(blocks[t]) - 1] \in InForce
  BY <1>3, <1>4
<1>6. PICK c \in Clients, calls \in Seq(Clients) : modes[t] = Append(calls, c)
  BY <1>1, <1>5 DEF Leads, Now, InForce
<1>7. Front(modes[t]) \in Seq(Clients)
  BY <1>2, <1>6, FrontLast, LastAppended
<1>8. modes'[t] = Front(modes[t]) /\ (\A o \in {1, 2} \ {t} : modes'[o] = modes[o])
      /\ modes' \in [{1, 2} -> Seq(Clients)]
  BY <1>1, <1>7 DEF MappingInv
<1>9. ASSUME NEW s \in InForce, Leads(s, b, Now(t)) PROVE Now(t)' = s
  <2>1. /\ b.client \in Clients /\ b.saved = s.shown /\ b.added = ~s.types
        /\ mappings = Append(s.maps, b.client) /\ clients = Append(s.stack, b.client)
        /\ foreach = TRUE /\ modes[t] = Append(s.calls, b.client)
    BY <1>1, <1>9 DEF Leads, Now
  <2>2. /\ s.maps \in Seq(Clients) /\ s.calls \in Seq(Clients) /\ s.types \in BOOLEAN
        /\ s.stack \in Seq(Clients \cup {Mapping!NoClient})
    BY DEF InForce
  <2>3. mappings' = s.maps /\ modes'[t] = s.calls /\ clients' = s.stack
    <3>1. b.client \in Clients \cup {Mapping!NoClient}
      BY <2>1
    <3> QED
      BY <1>1, <1>8, <2>1, <2>2, <3>1, LastAppended
  <2>4. foreach' = s.types /\ patched' = s.shown
    BY <1>1, <2>1, <2>2
  <2>5. s = [shown |-> s.shown, maps |-> s.maps, stack |-> s.stack, types |-> s.types, calls |-> s.calls]
    BY DEF InForce
  <2> QED
    BY <2>3, <2>4, <2>5 DEF Now
<1> QED
  BY <1>1, <1>8, <1>9, ClosesKeep DEF b

LEMMA ResumesKeep ==
  ASSUME MappingInv, NEW t \in {1, 2}, Mapping!Resumes(t)
  PROVE  MappingInv'
<1> DEFINE b == Last(blocks[t])
<1>1. CASE Mapping!Closes(t, "open") /\ UNCHANGED <<patched, mappings, clients, foreach, modes, child>>
  <2>1. b.kind = "open" /\ modes' \in [{1, 2} -> Seq(Clients)]
    BY <1>1 DEF Mapping!Closes, Mapping!Innermost, MappingInv, Mapping!Last, Last
  <2>2. \A s \in InForce : Leads(s, b, Now(t)) => Now(t)' = s
    BY <1>1, <2>1 DEF Leads, Now
  <2> QED
    BY <1>1, <2>1, <2>2, ClosesKeep
<1>2. CASE /\ Mapping!Closes(t, "unmapped") /\ patched' = Mapping!Innermost(t).saved /\ clients' = Front(clients)
           /\ modes' = [modes EXCEPT ![t] = Append(@, Mapping!Innermost(t).client)]
           /\ UNCHANGED <<mappings, foreach, child>>
  <2>1. b.kind = "unmapped" /\ blocks[t] # <<>> /\ patched' = b.saved
        /\ modes' = [modes EXCEPT ![t] = Append(@, b.client)]
    BY <1>2 DEF Mapping!Closes, Mapping!Innermost, Mapping!Front, Mapping!Last, Front, Last
  <2>2. /\ Alone(t) /\ Unwinds(t) /\ Now(t) \in InForce /\ modes[t] \in Seq(Clients)
    BY <2>1, ClosesAlone
  <2> HIDE DEF b
  <2>3. PICK H \in [0 .. Len(blocks[t]) -> InForce] :
          /\ H[Len(blocks[t])] = Now(t)
          /\ \A i \in 1 .. Len(blocks[t]) : Leads(H[i - 1], blocks[t][i], H[i])
    BY <2>2 DEF Unwinds
  <2>4. Len(blocks[t]) \in Nat \ {0} /\ b = blocks[t][Len(blocks[t])]
    <3>1. blocks[t] \in Seq(Block)
      BY DEF MappingInv
    <3> QED
      BY <2>1, <3>1, FrontLast, LastAppended DEF b
  <2>5. Leads(H[Len(blocks[t]) - 1], b, Now(t)) /\ H[Len(blocks[t]) - 1] \in InForce
    BY <2>3, <2>4
  <2>6. b.client \in Clients
    <3>1. PICK s \in InForce : s.calls # <<>> /\ b.client = Last(s.calls)
      BY <2>1, <2>5 DEF Leads
    <3>2. s.calls \in Seq(Clients)
      BY DEF InForce
    <3> QED
      BY <3>1, <3>2, FrontLast, LastAppended
  <2>7. Append(modes[t], b.client) \in Seq(Clients)
    BY <2>2, <2>6, FrontLast, LastAppended
  <2>8. modes'[t] = Append(modes[t], b.client) /\ (\A o \in {1, 2} \ {t} : modes'[o] = modes[o])
        /\ modes' \in [{1, 2} -> Seq(Clients)]
    BY <2>1, <2>7 DEF MappingInv
  <2>9. ASSUME NEW s \in InForce, Leads(s, b, Now(t)) PROVE Now(t)' = s
    <3>1. /\ s.calls # <<>> /\ b.saved = s.shown /\ b.client = Last(s.calls)
          /\ mappings = s.maps /\ clients = Append(s.stack, Mapping!NoClient)
          /\ foreach = s.types /\ modes[t] = Front(s.calls)
      BY <2>1, <2>9 DEF Leads, Now
    <3>2. s.calls \in Seq(Clients) /\ s.stack \in Seq(Clients \cup {Mapping!NoClient})
      BY DEF InForce
    <3>3. modes'[t] = s.calls
      <4>1. Append(Front(s.calls), Last(s.calls)) = s.calls
        BY <3>1, <3>2, FrontLast
      <4> QED
        BY <2>8, <3>1, <4>1
    <3>4. clients' = s.stack
      BY <1>2, <3>1, <3>2, LastAppended
    <3>5. s = [shown |-> s.shown, maps |-> s.maps, stack |-> s.stack, types |-> s.types, calls |-> s.calls]
      BY DEF InForce
    <3> QED
      BY <1>2, <2>1, <3>1, <3>3, <3>4, <3>5 DEF Now
  <2> QED
    BY <1>2, <2>8, <2>9, ClosesKeep DEF b
<1> QED
  BY <1>1, <1>2 DEF Mapping!Resumes, Mapping!Front, Front
LEMMA ForksKeep ==
  ASSUME MappingInv, NEW t \in {1, 2}, Mapping!Forks(t)
  PROVE  MappingInv'
<1>1. blocks[t] # <<>> /\ child' = (IF mappings = <<>> THEN patched ELSE Mapping!Plain)
      /\ UNCHANGED <<patched, mappings, clients, foreach, blocks, modes>>
  BY DEF Mapping!Forks
<1>2. mappings = <<>> => patched = Plain
  BY <1>1, ClosesAlone DEF Now, InForce
<1>3. child' = child
  BY <1>1, <1>2 DEF Plain, MappingInv
<1>4. \A o \in {1, 2} : Now(o)' = Now(o) /\ (Unwinds(o) <=> Unwinds(o)')
  BY <1>1 DEF Now, Unwinds
<1> QED
  BY <1>1, <1>3, <1>4 DEF MappingInv, Alone

\* Inside a block the mapping, the client and the mode agree, and outside nothing is left.
LEMMA MappingHolds ==
  ASSUME MappingInv PROVE MappingUndone
<1>1. Mapping!Undone
  <2>1. ASSUME \A t \in {1, 2} : blocks[t] = <<>>
        PROVE  patched = Plain /\ mappings = <<>> /\ clients = <<>> /\ ~foreach
    <3>1. Unwinds(1) /\ blocks[1] = <<>>
      BY <2>1 DEF MappingInv, Alone
    <3>2. Now(1) = Outside
      BY <3>1, InForceNow
    <3> QED
      BY <3>2 DEF Now, Outside
  <2> QED
    BY <2>1 DEF Mapping!Undone, Plain
<1>2. ASSUME NEW t \in {1, 2}, blocks[t] # <<>>
      PROVE  CASE Mapping!Innermost(t).kind = "mapped" ->
                    patched = Mapping!Innermost(t).client /\ clients # <<>>
                    /\ Last(clients) = Mapping!Innermost(t).client /\ foreach
                    /\ Last(modes[t]) = Mapping!Innermost(t).client
               [] OTHER -> patched = Plain /\ (clients # <<>> => Last(clients) = Mapping!NoClient)
  <2> DEFINE b == Last(blocks[t])
  <2>1. b = Mapping!Innermost(t) /\ b \in Block /\ blocks[t] \in Seq(Block) /\ Unwinds(t)
    BY <1>2, ClosesAlone DEF Mapping!Innermost, Mapping!Last, Last
  <2> HIDE DEF b
  <2>2. PICK H \in [0 .. Len(blocks[t]) -> InForce] :
          /\ H[Len(blocks[t])] = Now(t)
          /\ \A i \in 1 .. Len(blocks[t]) : Leads(H[i - 1], blocks[t][i], H[i])
    BY <2>1 DEF Unwinds
  <2>3. Len(blocks[t]) \in Nat \ {0} /\ b = blocks[t][Len(blocks[t])]
    BY <1>2, <2>1, FrontLast, LastAppended DEF b
  <2>4. PICK s \in InForce : Leads(s, b, Now(t))
    BY <2>2, <2>3
  <2>5. s.stack \in Seq(Clients \cup {Mapping!NoClient}) /\ s.calls \in Seq(Clients)
        /\ (s.maps = <<>> => s.shown = Plain /\ s.stack = <<>>)
    BY DEF InForce
  <2>6. CASE b.kind = "mapped"
    <3>1. /\ b.client \in Clients /\ patched = b.client /\ clients = Append(s.stack, b.client)
          /\ foreach = TRUE /\ modes[t] = Append(s.calls, b.client)
      BY <2>4, <2>6 DEF Leads, Now
    <3>2. clients # <<>> /\ Last(clients) = b.client
      <4>1. b.client \in Clients \cup {Mapping!NoClient}
        BY <3>1
      <4> QED
        BY <2>5, <3>1, <4>1, LastAppended
    <3>3. Last(modes[t]) = b.client
      BY <2>5, <3>1, FrontLast, LastAppended
    <3> QED
      BY <2>1, <2>6, <3>1, <3>2, <3>3
  <2>7. CASE b.kind = "unmapped"
    <3>1. patched = Plain /\ clients = Append(s.stack, Mapping!NoClient)
      BY <2>4, <2>7 DEF Leads, Now
    <3>2. Last(clients) = Mapping!NoClient
      BY <2>5, <3>1, FrontLast, LastAppended
    <3> QED
      BY <2>1, <2>7, <3>1, <3>2
  <2>8. CASE b.kind = "open"
    <3>1. patched = Plain /\ clients = <<>>
      BY <2>4, <2>5, <2>8 DEF Leads, Now
    <3> QED
      BY <2>1, <2>8, <3>1
  <2> QED
    BY <2>1, <2>6, <2>7, <2>8 DEF Block
<1>3. Mapping!InStep
  BY <1>2 DEF Mapping!InStep, Mapping!Last, Last, Plain, MappingInv
<1> QED
  BY <1>1, <1>3 DEF MappingUndone

LEMMA MappingInits ==
  ASSUME MCInit PROVE MappingInv
<1>1. /\ patched = Plain /\ mappings = <<>> /\ clients = <<>> /\ foreach = FALSE /\ child = Plain
      /\ blocks = [t \in {1, 2} |-> <<>>] /\ modes = [t \in {1, 2} |-> <<>>]
  BY DEF MCInit, Mapping!MappingInit, Plain
<1>2. Outside \in InForce
  BY DEF Outside, InForce
<1>3. ASSUME NEW t \in {1, 2} PROVE Now(t) = Outside /\ Len(blocks[t]) = 0
  BY <1>1 DEF Outside, Now
<1>4. ASSUME NEW t \in {1, 2} PROVE Unwinds(t)
  <2> DEFINE G == [i \in 0 .. 0 |-> Outside]
  <2>1. G \in [0 .. 0 -> InForce] /\ G[0] = Outside
    BY <1>2
  <2> HIDE DEF G
  <2> QED
    BY <1>3, <2>1 DEF Unwinds
<1> QED
  BY <1>1, <1>4 DEF MappingInv

LEMMA MappingStays ==
  ASSUME MappingInv, UNCHANGED mappingVars PROVE MappingInv'
<1>1. UNCHANGED <<patched, mappings, clients, foreach, blocks, modes, child>>
  BY DEF mappingVars
<1>2. \A o \in {1, 2} : Now(o)' = Now(o) /\ (Unwinds(o) <=> Unwinds(o)')
  BY <1>1 DEF Now, Unwinds
<1> QED
  BY <1>1, <1>2 DEF MappingInv, Alone

\* Blocks that map torch.cuda, one thread having them open at a time (~Together), put back what
\* they found whatever is nested in what, and inside each the attributes, current_client and the
\* thread's mode answer for one client or for none: mapped and unmapped of cuda.py.
THEOREM MappingCorrect == ~Together => (MCSpec => []MappingUndone)
<1> SUFFICES ASSUME ~Together PROVE MCSpec => []MappingUndone
  OBVIOUS
<1>1. MCInit => MappingInv
  BY MappingInits
<1>2. MappingInv /\ [MCNext]_<<part, vars, uploadVars, mappingVars, driverVars>> => MappingInv'
  <2> SUFFICES ASSUME MappingInv, [MCNext]_<<part, vars, uploadVars, mappingVars, driverVars>>
               PROVE  MappingInv'
    OBVIOUS
  <2>1. CASE UNCHANGED mappingVars
    BY <2>1, MappingStays
  <2>2. CASE Mapping!MappingNext
    BY <2>2, MapsKeep, UnmapsKeep, SuspendsKeep, ResumesKeep, ForksKeep DEF Mapping!MappingNext
  <2> QED
    BY <2>1, <2>2 DEF MCNext
<1>3. MappingInv => MappingUndone
  BY MappingHolds
<1> QED
  BY <1>1, <1>2, <1>3, PTL DEF MCSpec

-----------------------------------------------------------------------------
(* The upload cache: what is evicted, and what is held as the latest. *)

LEMMA BytesOf ==
  ASSUME NEW s \in Once(Blobs)
  PROVE  Weighed(MCSize, ToSet(s)) /\ Upload!Bytes(s) = Total(MCSize, ToSet(s)) /\ Upload!Bytes(s) \in Nat
<1>1. \A b \in Blobs : MCSize[b] \in Nat
  BY DEF MCSize
<1>2. Upload!Bytes(s) = SumSeq(MCSize, s)
  BY DEF Upload!Bytes, Upload!FoldLeft, Upload!MapThenFoldSet, Upload!Max, SumSeq, FoldLeft, MapThenFoldSet, Max
<1>3. Weighed(MCSize, ToSet(s)) /\ SumSeq(MCSize, s) = Total(MCSize, ToSet(s))
  BY <1>1, SumSeqIs DEF Once
<1> QED
  BY <1>2, <1>3, TotalNat

LEMMA LessBytes ==
  ASSUME NEW s \in Once(Blobs), NEW u \in Once(Blobs), ToSet(u) \subseteq ToSet(s)
  PROVE  Upload!Bytes(u) <= Upload!Bytes(s)
  BY BytesOf, TotalGrows

\* Evicted keeps the longest end that fits.
LEMMA Evicts ==
  ASSUME NEW s \in Once(Blobs), NEW most \in Nat
  PROVE  LET e == Upload!Evicted(s, most)
         IN  /\ e \in Once(Blobs) /\ IsEnd(e, s) /\ Upload!Bytes(e) <= most
             /\ \A u \in Once(Blobs) : IsEnd(u, s) /\ Upload!Bytes(u) <= most => IsEnd(u, e)
<1> DEFINE fits == {i \in 1 .. Len(s) + 1 : Upload!Bytes(SubSeq(s, i, Len(s))) <= most}
           from == CHOOSE i \in fits : \A j \in fits : i <= j
           e == SubSeq(s, from, Len(s))
<1>1. Upload!Evicted(s, most) = e
  BY DEF Upload!Evicted
<1>2. s \in Seq(Blobs) /\ Len(s) \in Nat
  BY DEF Once
<1>3. Len(s) + 1 \in fits
  <2>1. SubSeq(s, Len(s) + 1, Len(s)) = <<>>
    BY <1>2
  <2>2. <<>> \in Once(Blobs) /\ ToSet(<<>>) = {}
    BY DEF Once, IsInjective, ToSet
  <2>3. Upload!Bytes(<<>>) = 0
    BY <2>2, BytesOf, TotalOf
  <2>4. Upload!Bytes(SubSeq(s, Len(s) + 1, Len(s))) = 0
    BY <2>1, <2>3, Zenon
  <2> QED
    BY <1>2, <2>4
<1>4. from \in fits /\ \A j \in fits : from <= j
  <2>1. fits \subseteq Nat /\ fits # {}
    BY <1>2, <1>3
  <2> HIDE DEF fits
  <2>2. \E i \in fits : \A j \in fits : i <= j
    BY <2>1, LeastNat
  <2> QED
    BY <2>2
<1>5. from \in 1 .. Len(s) + 1 /\ Upload!Bytes(e) <= most
  BY <1>4
<1> HIDE DEF from
<1>6. e \in Once(Blobs) /\ Len(e) = Len(s) + 1 - from /\ IsEnd(e, s)
  BY <1>5, EndFrom
<1> HIDE DEF e
<1>7. ASSUME NEW u \in Once(Blobs), IsEnd(u, s), Upload!Bytes(u) <= most
      PROVE  IsEnd(u, e)
  <2>1. Len(s) - Len(u) + 1 \in 1 .. Len(s) + 1 /\ u = SubSeq(s, Len(s) - Len(u) + 1, Len(s))
    BY <1>7, EndIs
  <2>2. Len(s) - Len(u) + 1 \in fits
    BY <1>7, <2>1
  <2>3. from <= Len(s) - Len(u) + 1
    BY <1>4, <2>2
  <2>4. Len(u) \in Nat /\ Len(u) <= Len(e) /\ Len(e) \in Nat
    BY <1>2, <1>5, <1>6, <2>3 DEF Once
  <2>5. ASSUME NEW i \in 1 .. Len(u) PROVE u[i] = e[Len(e) - Len(u) + i]
    <3>1. Len(e) - Len(u) + i \in 1 .. Len(e) /\ Len(s) - Len(e) + (Len(e) - Len(u) + i) = Len(s) - Len(u) + i
      BY <1>2, <2>4
    <3>2. e[Len(e) - Len(u) + i] = s[Len(s) - Len(e) + (Len(e) - Len(u) + i)]
      BY <1>6, <3>1 DEF IsEnd
    <3>3. u[i] = s[Len(s) - Len(u) + i]
      BY <1>7 DEF IsEnd
    <3> QED
      BY <3>1, <3>2, <3>3
  <2> QED
    BY <2>4, <2>5 DEF IsEnd
<1> QED
  BY <1>1, <1>5, <1>6, <1>7

Item == {"bytes", "place", "digest"} \X Blobs
Placing == [uploads : Once(Blobs), sent : Seq(Item)]
Resolving == [table : Once(Blobs), lacked : BOOLEAN]

LEMMA LatestOf ==
  ASSUME NEW s \in Once(Blobs), NEW b \in Blobs
  PROVE  LET l == Upload!Latest(s, b)
         IN  /\ l = Moved(s, b) /\ l \in Once(Blobs) /\ ToSet(l) = ToSet(s) \cup {b}
             /\ Contains(s, b) => Upload!Bytes(l) = Upload!Bytes(s)
<1>1. Upload!Latest(s, b) = Moved(s, b)
  BY DEF Upload!Latest, Upload!RemoveFirst, Upload!RemoveAt, Upload!SelectInSeq, Upload!Min, Moved, RemoveFirst,
         RemoveAt, SelectInSeq, Min
<1> DEFINE l == Moved(s, b)
<1>2. l \in Once(Blobs) /\ ToSet(l) = ToSet(s) \cup {b} /\ (Contains(s, b) => ToSet(l) = ToSet(s))
  <2>1. CASE Contains(s, b)
    <3>1. PICK p \in 1 .. Len(s) : s[p] = b
      BY <2>1 DEF Contains
    <3>2. l \in Once(Blobs) /\ ToSet(l) = ToSet(s)
      BY <3>1, MovedAgain
    <3>3. b \in ToSet(s)
      BY <3>1 DEF ToSet, Once
    <3> QED
      BY <3>2, <3>3
  <2>2. CASE ~Contains(s, b)
    BY <2>2, MovedNew
  <2> QED
    BY <2>1, <2>2
<1> HIDE DEF l
<1>3. Contains(s, b) => Upload!Bytes(l) = Upload!Bytes(s)
  BY <1>2, BytesOf
<1> QED
  BY <1>1, <1>2, <1>3 DEF l

\* An end of a table stays one when both are evicted to the same size.
LEMMA EvictsEnds ==
  ASSUME NEW s \in Once(Blobs), NEW r \in Once(Blobs), IsEnd(s, r), NEW most \in Nat
  PROVE  IsEnd(Upload!Evicted(s, most), Upload!Evicted(r, most))
<1> DEFINE e == Upload!Evicted(s, most)
<1>1. e \in Once(Blobs) /\ IsEnd(e, s) /\ Upload!Bytes(e) <= most
  BY Evicts
<1> HIDE DEF e
<1>2. IsEnd(e, r)
  BY <1>1, EndsOn DEF Once
<1> QED
  BY <1>1, <1>2, Evicts DEF e

LEMMA PlacedTyped ==
  ASSUME budget \in Nat, NEW acc \in Placing, NEW b \in Blobs
  PROVE  Upload!Placed(acc, b) \in Placing
<1>1. acc.uploads \in Once(Blobs) /\ acc.sent \in Seq(Item)
  BY DEF Placing
<1>2. Upload!Latest(acc.uploads, b) \in Once(Blobs)
  BY <1>1, LatestOf
<1>3. Upload!Evicted(Upload!Latest(acc.uploads, b), budget) \in Once(Blobs)
  BY <1>2, Evicts
<1>4. \A kind \in {"bytes", "place", "digest"} : Append(acc.sent, <<kind, b>>) \in Seq(Item)
  BY <1>1 DEF Item
<1> QED
  BY <1>1, <1>3, <1>4 DEF Upload!Placed, Placing

LEMMA ResolvedTyped ==
  ASSUME NEW most \in Nat, NEW acc \in Resolving, NEW sent \in Item
  PROVE  Upload!Resolved(most, acc, sent) \in Resolving
<1>1. acc.table \in Once(Blobs) /\ acc.lacked \in BOOLEAN /\ sent[2] \in Blobs
  BY DEF Resolving, Item
<1>2. Upload!Latest(acc.table, sent[2]) \in Once(Blobs)
  BY <1>1, LatestOf
<1>3. Upload!Evicted(Upload!Latest(acc.table, sent[2]), most) \in Once(Blobs)
  BY <1>2, Evicts
<1> QED
  BY <1>1, <1>2, <1>3 DEF Upload!Resolved, Resolving

\* What _place goes through, blob by blob.
LEMMA PlacedPasses ==
  ASSUME budget \in Nat, NEW n \in Nat, NEW blobs \in [1 .. n -> Blobs], NEW start \in Placing
  PROVE  \E h \in [0 .. n -> Placing] :
           /\ h[0] = start /\ Upload!FoldLeft(Upload!Placed, start, blobs) = h[n]
           /\ \A i \in 1 .. n : h[i] = Upload!Placed(h[i - 1], blobs[i])
<1> DEFINE F == [p \in Placing \X (1 .. n) |-> Upload!Placed(p[1], blobs[p[2]])]
           Is(g) == g = [u \in SUBSET (1 .. n) |->
                           IF u = {} THEN start ELSE Upload!Placed(g[u \ {Max(u)}], blobs[Max(u)])]
           c == CHOOSE g : Is(g)
<1>1. DOMAIN blobs = 1 .. n /\ \A i \in 1 .. n : blobs[i] \in Blobs
  OBVIOUS
<1>2. F \in [Placing \X (1 .. n) -> Placing]
  BY <1>1, PlacedTyped
<1>3. Upload!FoldLeft(Upload!Placed, start, blobs) = c[1 .. n]
  BY <1>1 DEF Upload!FoldLeft, Upload!MapThenFoldSet, Upload!Max, Max
<1>4. \A acc \in Placing : \A i \in 1 .. n : F[<<acc, i>>] = Upload!Placed(acc, blobs[i])
  OBVIOUS
<1> HIDE DEF F
<1>5. PICK g \in [SUBSET (1 .. n) -> Placing] : Walks(g, F, start, n)
  BY <1>2, WalkExists
<1>6. \A u \in SUBSET (1 .. n) : u # {} => Max(u) \in 1 .. n /\ u \ {Max(u)} \in SUBSET (1 .. n)
  BY MaxIn
<1>7. \A u \in SUBSET (1 .. n) : u # {} => g[u] = Upload!Placed(g[u \ {Max(u)}], blobs[Max(u)])
  BY <1>4, <1>5, <1>6 DEF Walks
<1>8. Is(g)
  BY <1>5, <1>7 DEF Walks
<1>9. Is(c)
  BY <1>8
<1>10. \A u \in SUBSET (1 .. n) : g[u] = c[u]
  <2>1. c[{}] = start /\ \A u \in SUBSET (1 .. n) : u # {} => c[u] = Upload!Placed(c[u \ {Max(u)}], blobs[Max(u)])
    BY <1>9
  <2>2. g[{}] = start
    BY <1>5 DEF Walks
  <2> HIDE DEF c
  <2>3. GoAlike(g, c, n)
    BY <1>7, <2>1, <2>2 DEF GoAlike
  <2> QED
    BY ONLY n \in Nat, <2>3, WalksAgree
<1> DEFINE h == [i \in 0 .. n |-> g[1 .. i]]
<1>11. h \in [0 .. n -> Placing] /\ Passes(h, F, start, n) /\ h[n] = g[1 .. n]
  BY <1>5, WalkPasses
<1> HIDE DEF h
<1>12. \A i \in 1 .. n : h[i] = Upload!Placed(h[i - 1], blobs[i])
  <2>1. \A i \in 1 .. n : i - 1 \in 0 .. n
    OBVIOUS
  <2> QED
    BY <1>4, <1>11, <2>1 DEF Passes
<1> QED
  BY <1>3, <1>10, <1>11, <1>12 DEF Passes

\* What _apply_uploads does with the uploads of one message, and what it goes through, one by one.
ApplyUploads(most, start, items) ==
  Upload!FoldLeft(LAMBDA acc, sent : Upload!Resolved(most, acc, sent), start, items)

LEMMA ResolvedPasses ==
  ASSUME NEW most \in Nat, NEW items \in Seq(Item), NEW start \in Resolving
  PROVE  \E h \in [0 .. Len(items) -> Resolving] :
           /\ h[0] = start
           /\ ApplyUploads(most, start, items) = h[Len(items)]
           /\ \A i \in 1 .. Len(items) : h[i] = Upload!Resolved(most, h[i - 1], items[i])
<1> DEFINE n == Len(items)
           F == [p \in Resolving \X (1 .. n) |-> Upload!Resolved(most, p[1], items[p[2]])]
           Is(g) == g = [u \in SUBSET (1 .. n) |->
                           IF u = {} THEN start ELSE Upload!Resolved(most, g[u \ {Max(u)}], items[Max(u)])]
           c == CHOOSE g : Is(g)
<1>1. n \in Nat /\ DOMAIN items = 1 .. n /\ \A i \in 1 .. n : items[i] \in Item
  OBVIOUS
<1>2. F \in [Resolving \X (1 .. n) -> Resolving]
  BY <1>1, ResolvedTyped
<1>3. ApplyUploads(most, start, items) = c[1 .. n]
  BY <1>1 DEF ApplyUploads, Upload!FoldLeft, Upload!MapThenFoldSet, Upload!Max, Max
<1>4. \A acc \in Resolving : \A i \in 1 .. n : F[<<acc, i>>] = Upload!Resolved(most, acc, items[i])
  OBVIOUS
<1> HIDE DEF F, n
<1>5. PICK g \in [SUBSET (1 .. n) -> Resolving] : Walks(g, F, start, n)
  BY <1>1, <1>2, WalkExists
<1>6. \A u \in SUBSET (1 .. n) : u # {} => Max(u) \in 1 .. n /\ u \ {Max(u)} \in SUBSET (1 .. n)
  BY <1>1, MaxIn
<1>7. \A u \in SUBSET (1 .. n) : u # {} => g[u] = Upload!Resolved(most, g[u \ {Max(u)}], items[Max(u)])
  BY <1>4, <1>5, <1>6 DEF Walks
<1>8. Is(g)
  BY <1>5, <1>7 DEF Walks
<1>9. Is(c)
  BY <1>8
<1>10. \A u \in SUBSET (1 .. n) : g[u] = c[u]
  <2>1. c[{}] = start /\ \A u \in SUBSET (1 .. n) : u # {} => c[u] = Upload!Resolved(most, c[u \ {Max(u)}], items[Max(u)])
    BY <1>9
  <2>2. g[{}] = start
    BY <1>5 DEF Walks
  <2> HIDE DEF c
  <2>3. GoAlike(g, c, n)
    BY <1>7, <2>1, <2>2 DEF GoAlike
  <2> QED
    <3>1. n \in Nat
      BY <1>1
    <3> QED
      BY ONLY <3>1, <2>3, WalksAgree
<1> DEFINE h == [i \in 0 .. n |-> g[1 .. i]]
<1>11. h \in [0 .. n -> Resolving] /\ Passes(h, F, start, n) /\ h[n] = g[1 .. n]
  BY <1>1, <1>5, WalkPasses
<1> HIDE DEF h
<1>12. \A i \in 1 .. n : h[i] = Upload!Resolved(most, h[i - 1], items[i])
  <2>1. \A i \in 1 .. n : i - 1 \in 0 .. n
    BY <1>1
  <2> QED
    BY <1>4, <1>11, <2>1 DEF Passes
<1> QED
  BY <1>1, <1>3, <1>10, <1>11, <1>12 DEF Passes, n

-----------------------------------------------------------------------------
(* The upload cache: what one message does on both sides. *)

\* Placed at the client and resolved at the executor, an upload leaves the client's table the end
\* of the executor's, and lacks nothing.
LEMMA PlacedResolved ==
  ASSUME budget \in Nat, NEW acc \in Placing, NEW done \in Resolving, NEW b \in Blobs,
         IsEnd(acc.uploads, done.table), Upload!Bytes(done.table) <= budget, ~done.lacked
  PROVE  LET more == Upload!Placed(acc, b)
             item == more.sent[Len(acc.sent) + 1]
             after == Upload!Resolved(budget, done, item)
         IN  /\ item \in Item /\ more.sent = Append(acc.sent, item)
             /\ IsEnd(more.uploads, after.table) /\ Upload!Bytes(after.table) <= budget /\ ~after.lacked
<1> DEFINE more == Upload!Placed(acc, b)
           l == Upload!Latest(acc.uploads, b)
           r == Upload!Latest(done.table, b)
<1>1. acc.uploads \in Once(Blobs) /\ acc.sent \in Seq(Item) /\ done.table \in Once(Blobs) /\ done.lacked = FALSE
      /\ Len(acc.sent) \in Nat
  BY DEF Placing, Resolving
<1>2. \A item \in Item : Append(acc.sent, item)[Len(acc.sent) + 1] = item
  BY <1>1
<1>3. l \in Once(Blobs) /\ r \in Once(Blobs) /\ IsEnd(l, r) /\ (Contains(done.table, b) => Upload!Bytes(r) = Upload!Bytes(done.table))
  BY <1>1, LatestOf, MovedEnds
<1> DEFINE e == Upload!Evicted(l, budget)
           f == Upload!Evicted(r, budget)
<1>4. IsEnd(e, f) /\ e \in Once(Blobs) /\ f \in Once(Blobs) /\ IsEnd(e, l) /\ IsEnd(f, r) /\ Upload!Bytes(f) <= budget
  BY <1>3, EvictsEnds, Evicts
<1>5. IsEnd(e, r)
  BY <1>3, <1>4, EndsOn DEF Once
<1>6. Upload!Contains(acc.uploads, b) => Contains(done.table, b)
  <2> SUFFICES ASSUME NEW i \in 1 .. Len(acc.uploads), acc.uploads[i] = b PROVE Contains(done.table, b)
    BY DEF Upload!Contains
  <2>1. Len(acc.uploads) \in Nat /\ Len(done.table) \in Nat
    BY <1>1 DEF Once
  <2> DEFINE n == Len(acc.uploads)
             m == Len(done.table)
  <2>2. n \in Nat /\ m \in Nat /\ n <= m /\ i \in 1 .. n
    BY <2>1 DEF IsEnd
  <2>3. m - n + i \in 1 .. m
    <3> HIDE DEF n, m
    <3> QED
      BY <2>2
  <2> QED
    BY <2>3 DEF IsEnd, Contains
<1>7. CASE ~Upload!Cached(b)
  <2>1. more = [acc EXCEPT !.sent = Append(acc.sent, <<"bytes", b>>)]
    BY <1>7 DEF Upload!Placed
  <2>2. more.uploads = acc.uploads /\ more.sent = Append(acc.sent, <<"bytes", b>>)
    BY <2>1 DEF Placing
  <2>3. <<"bytes", b>> \in Item
    BY DEF Item
  <2>4. Upload!Resolved(budget, done, <<"bytes", b>>) = done
    BY DEF Upload!Resolved
  <2> HIDE DEF more
  <2> QED
    BY <1>2, <2>2, <2>3, <2>4 DEF more
<1>8. CASE Upload!Cached(b) /\ Upload!Contains(acc.uploads, b)
  <2>1. more.uploads = e /\ more.sent = Append(acc.sent, <<"digest", b>>)
    BY <1>8 DEF Upload!Placed
  <2>2. <<"digest", b>> \in Item
    BY DEF Item
  <2>3. Upload!Resolved(budget, done, <<"digest", b>>) = [table |-> r, lacked |-> FALSE]
    <3>1. Upload!Contains(done.table, b)
      BY <1>6, <1>8 DEF Contains, Upload!Contains
    <3> QED
      BY <1>1, <3>1 DEF Upload!Resolved
  <2>4. Upload!Bytes(r) <= budget
    BY <1>3, <1>6, <1>8
  <2> HIDE DEF more, e, r
  <2> QED
    BY <1>2, <1>5, <2>1, <2>2, <2>3, <2>4 DEF more
<1>9. CASE Upload!Cached(b) /\ ~Upload!Contains(acc.uploads, b)
  <2>1. more.uploads = e /\ more.sent = Append(acc.sent, <<"place", b>>)
    BY <1>9 DEF Upload!Placed
  <2>2. <<"place", b>> \in Item
    BY DEF Item
  <2>3. Upload!Resolved(budget, done, <<"place", b>>) = [done EXCEPT !.table = f]
    BY <1>1 DEF Upload!Resolved
  <2>4. Upload!Resolved(budget, done, <<"place", b>>).table = f /\ ~Upload!Resolved(budget, done, <<"place", b>>).lacked
    BY <1>1, <2>3 DEF Resolving
  <2> HIDE DEF more, e, f
  <2> QED
    BY <1>2, <1>4, <2>1, <2>2, <2>4 DEF more
<1> QED
  BY <1>7, <1>8, <1>9

\* A whole message, from a table of the client that is the end of the executor's.
LEMMA MessageResolved ==
  ASSUME budget \in Nat, NEW n \in Nat, NEW blobs \in [1 .. n -> Blobs],
         NEW u \in Once(Blobs), NEW far \in Once(Blobs), IsEnd(u, far), Upload!Bytes(far) <= budget
  PROVE  LET all == Upload!FoldLeft(Upload!Placed, [uploads |-> u, sent |-> <<>>], blobs)
             done == ApplyUploads(budget, [table |-> far, lacked |-> FALSE], all.sent)
         IN  /\ all \in Placing /\ done \in Resolving /\ ~done.lacked
             /\ IsEnd(all.uploads, done.table) /\ Upload!Bytes(done.table) <= budget
<1> DEFINE start == [uploads |-> u, sent |-> <<>>]
           begin == [table |-> far, lacked |-> FALSE]
           all == Upload!FoldLeft(Upload!Placed, start, blobs)
<1>1. start \in Placing /\ begin \in Resolving
  BY DEF Placing, Resolving
<1>2. PICK h \in [0 .. n -> Placing] :
           /\ h[0] = start /\ all = h[n] /\ \A i \in 1 .. n : h[i] = Upload!Placed(h[i - 1], blobs[i])
  BY <1>1, PlacedPasses
<1> HIDE DEF all
<1> DEFINE items == all.sent
<1>3. items \in Seq(Item) /\ all \in Placing
  BY <1>2 DEF Placing
<1> DEFINE done == ApplyUploads(budget, begin, items)
<1>4. PICK r \in [0 .. Len(items) -> Resolving] :
           /\ r[0] = begin /\ done = r[Len(items)]
           /\ \A i \in 1 .. Len(items) : r[i] = Upload!Resolved(budget, r[i - 1], items[i])
  <2> HIDE DEF items, begin
  <2>1. budget \in Nat /\ items \in Seq(Item) /\ begin \in Resolving
    BY <1>1, <1>3
  <2> QED
    BY ONLY <2>1, ResolvedPasses, ZenonT(90)
<1> HIDE DEF items, done
\* Every step of the client appends one item, and what it appended stays.
<1> DEFINE Added == {i \in 0 .. n : /\ Len(h[i].sent) = i
                                    /\ \A j \in 1 .. i : h[i].sent[j] = h[j].sent[j]}
<1>5. \A i \in 1 .. n : \E item \in Item : h[i].sent = Append(h[i - 1].sent, item)
  <2> SUFFICES ASSUME NEW i \in 1 .. n PROVE \E item \in Item : h[i].sent = Append(h[i - 1].sent, item)
    OBVIOUS
  <2> DEFINE acc == h[i - 1]
  <2>1. i - 1 \in 0 .. n /\ acc \in Placing /\ blobs[i] \in Blobs
    BY <1>2
  <2>2. h[i] = Upload!Placed(acc, blobs[i])
    BY <1>2
  <2> HIDE DEF acc
  <2> QED
    BY <2>1, <2>2 DEF Upload!Placed, Item, Placing, acc
<1>6. 0 \in Added
  BY <1>2
<1>7. ASSUME NEW i \in 1 .. n, i - 1 \in Added PROVE i \in Added
  <2>1. PICK item \in Item : h[i].sent = Append(h[i - 1].sent, item)
    BY <1>5
  <2>2. h[i - 1].sent \in Seq(Item) /\ Len(h[i - 1].sent) = i - 1 /\ i \in 0 .. n
    <3>1. i - 1 \in 0 .. n /\ i \in 0 .. n
      OBVIOUS
    <3>2. h[i - 1] \in Placing
      BY <1>2, <3>1
    <3> QED
      BY <1>7, <3>1, <3>2 DEF Placing
  <2> DEFINE was == h[i - 1].sent
             is == h[i].sent
  <2> HIDE DEF was, is
  <2>3. Len(is) = i /\ \A j \in 1 .. i - 1 : is[j] = was[j]
    BY <2>1, <2>2 DEF was, is
  <2>4. \A j \in 1 .. i - 1 : was[j] = h[j].sent[j]
    BY <1>7 DEF was
  <2>5. \A j \in 1 .. i : is[j] = h[j].sent[j]
    <3> SUFFICES ASSUME NEW j \in 1 .. i PROVE is[j] = h[j].sent[j]
      OBVIOUS
    <3>1. CASE j = i
      BY <3>1 DEF is
    <3>2. CASE j # i
      BY <2>3, <2>4, <3>2
    <3> QED
      BY <3>1, <3>2
  <2> QED
    BY <2>2, <2>3, <2>5 DEF is
<1>8. \A i \in 0 .. n : i \in Added
  <2> HIDE DEF Added
  <2> QED
    BY <1>6, <1>7, Along
<1>9. Len(items) = n /\ \A j \in 1 .. n : items[j] = h[j].sent[j]
  BY <1>2, <1>8 DEF items
\* Both sides in step.
<1> DEFINE Alike == {i \in 0 .. n : IsEnd(h[i].uploads, r[i].table) /\ Upload!Bytes(r[i].table) <= budget /\ ~r[i].lacked}
<1>10. 0 \in Alike
  BY <1>2, <1>4
<1>11. ASSUME NEW i \in 1 .. n, i - 1 \in Alike PROVE i \in Alike
  <2> DEFINE acc == h[i - 1]
             res == r[i - 1]
  <2>1. i - 1 \in 0 .. n /\ i \in 0 .. n /\ acc \in Placing /\ res \in Resolving /\ blobs[i] \in Blobs
    BY <1>2, <1>4, <1>9
  <2>2. h[i] = Upload!Placed(acc, blobs[i]) /\ r[i] = Upload!Resolved(budget, res, items[i])
    BY <1>2, <1>4, <1>9
  <2>3. IsEnd(acc.uploads, res.table) /\ Upload!Bytes(res.table) <= budget /\ ~res.lacked
    BY <1>11
  <2>4. Len(acc.sent) + 1 = i
    <3>1. Len(acc.sent) = i - 1
      BY <1>8, <2>1
    <3> QED
      BY <3>1
  <2>5. items[i] = h[i].sent[Len(acc.sent) + 1]
    BY <1>9, <2>4
  <2> HIDE DEF acc, res
  <2>6. IsEnd(h[i].uploads, r[i].table) /\ Upload!Bytes(r[i].table) <= budget /\ ~r[i].lacked
    BY <2>1, <2>2, <2>3, <2>5, PlacedResolved
  <2> QED
    BY <2>1, <2>6
<1>12. n \in Alike
  <2> HIDE DEF Alike
  <2>1. \A i \in 0 .. n : i \in Alike
    BY <1>10, <1>11, Along
  <2>2. n \in 0 .. n
    OBVIOUS
  <2> QED
    BY <2>1, <2>2
<1>13. IsEnd(all.uploads, done.table) /\ Upload!Bytes(done.table) <= budget /\ ~done.lacked /\ done \in Resolving
  BY <1>2, <1>4, <1>9, <1>12
<1> QED
  BY <1>3, <1>13 DEF all, items, done

-----------------------------------------------------------------------------
(* The upload cache: the two sides, and the messages between them. *)

Message == [cache : Budgets \cup {Upload!NoBudget}, blobs : Seq(Item)]
\* The executor's side once some of the messages are applied.
Stage == [table : Once(Blobs), limit : Budgets]

Most(stage, message) == IF message.cache = Upload!NoBudget THEN stage.limit ELSE message.cache
\* Applying the message leads from one stage to the next, and finds every digest.
LeadsOn(stage, message, after) ==
  /\ after.limit = Most(stage, message) /\ Upload!Bytes(after.table) <= after.limit
  /\ ApplyUploads(after.limit, [table |-> Upload!Evicted(stage.table, after.limit), lacked |-> FALSE], message.blobs)
       = [table |-> after.table, lacked |-> FALSE]

\* Through the messages on their way the executor comes to a table whose end, once cut to the
\* client's budget, is the client's.
InStep ==
  \E T \in [0 .. Len(batches) -> Stage] :
    /\ T[0] = [table |-> table, limit |-> limit]
    /\ \A i \in 1 .. Len(batches) : LeadsOn(T[i - 1], batches[i], T[i])
    /\ IsEnd(uploads, Upload!Evicted(T[Len(batches)].table, budget))
    /\ unsaid = Upload!NoBudget => T[Len(batches)].limit = budget

UploadInv ==
  /\ uploads \in Once(Blobs) /\ table \in Once(Blobs) /\ budget \in Budgets /\ limit \in Budgets
  /\ unsaid \in {Upload!NoBudget, budget} /\ batches \in Seq(Message) /\ Len(batches) <= MaxBatches
  /\ lacked = FALSE /\ Upload!Bytes(table) <= limit
  /\ InStep

Budgeted == Budgets \subseteq Nat /\ MaxBatches \in Nat

LEMMA EmptyTable == <<>> \in Once(Blobs) /\ Upload!Bytes(<<>>) = 0
<1>1. <<>> \in Once(Blobs) /\ ToSet(<<>>) = {}
  BY DEF Once, IsInjective, ToSet
<1> QED
  BY <1>1, BytesOf, TotalOf

LEMMA UploadStart == ASSUME Budgeted, Upload!UploadInit PROVE UploadInv
<1>1. uploads = <<>> /\ table = <<>> /\ batches = <<>> /\ budget \in Budgets /\ limit = budget /\ budget \in Nat
      /\ unsaid = Upload!NoBudget /\ lacked = FALSE
  BY DEF Upload!UploadInit, Budgeted
<1>2. Upload!Bytes(<<>>) <= budget
  BY <1>1, EmptyTable
<1>3. InStep
  <2> DEFINE T == [i \in 0 .. 0 |-> [table |-> <<>>, limit |-> budget]]
  <2>1. T \in [0 .. 0 -> Stage] /\ T[0] = [table |-> <<>>, limit |-> budget]
    BY <1>1, EmptyTable DEF Stage
  <2>2. Len(batches) = 0
    BY <1>1
  <2>3. IsEnd(uploads, Upload!Evicted(<<>>, budget))
    <3>1. Upload!Evicted(<<>>, budget) \in Seq(Blobs)
      BY <1>1, EmptyTable, Evicts DEF Once
    <3> QED
      BY <1>1, <3>1 DEF IsEnd
  <2> HIDE DEF T
  <2>4. T[0].table = <<>> /\ T[0].limit = budget
    BY <2>1
  <2>5. \A i \in 1 .. 0 : LeadsOn(T[i - 1], batches[i], T[i])
    OBVIOUS
  <2> QED
    BY <1>1, <2>1, <2>2, <2>3, <2>4, <2>5 DEF InStep
<1> QED
  BY <1>1, <1>2, <1>3, EmptyTable DEF UploadInv, Budgeted

LEMMA BudgetKeeps == ASSUME Budgeted, UploadInv, Upload!SetsBudget PROVE UploadInv'
<1>1. PICK most \in Budgets : /\ budget' = most /\ uploads' = Upload!Evicted(uploads, most) /\ unsaid' = most
                              /\ batches' = batches /\ table' = table /\ limit' = limit /\ lacked' = lacked
  BY DEF Upload!SetsBudget
<1>2. most \in Nat /\ budget \in Nat /\ uploads \in Once(Blobs) /\ most # Upload!NoBudget
  BY DEF Budgeted, UploadInv, Upload!NoBudget
<1> DEFINE e == Upload!Evicted(uploads, most)
<1>3. e \in Once(Blobs) /\ IsEnd(e, uploads) /\ Upload!Bytes(e) <= most
  BY <1>2, Evicts
<1> HIDE DEF e
<1>4. InStep'
  <2>1. PICK T \in [0 .. Len(batches) -> Stage] :
             /\ T[0] = [table |-> table, limit |-> limit]
             /\ \A i \in 1 .. Len(batches) : LeadsOn(T[i - 1], batches[i], T[i])
             /\ IsEnd(uploads, Upload!Evicted(T[Len(batches)].table, budget))
    BY DEF UploadInv, InStep
  <2> DEFINE far == T[Len(batches)].table
  <2>2. far \in Once(Blobs)
    <3>1. Len(batches) \in 0 .. Len(batches)
      BY DEF UploadInv
    <3> QED
      BY <2>1, <3>1 DEF Stage
  <2> DEFINE f == Upload!Evicted(far, budget)
  <2>3. f \in Once(Blobs) /\ IsEnd(f, far) /\ IsEnd(uploads, f)
    BY <1>2, <2>1, <2>2, Evicts
  <2> HIDE DEF f, far
  <2>4. IsEnd(e, far)
    <3>1. IsEnd(uploads, far)
      BY <1>2, <2>2, <2>3, EndsOn DEF Once
    <3> QED
      BY <1>2, <1>3, <2>2, <3>1, EndsOn DEF Once
  <2>5. IsEnd(e, Upload!Evicted(far, most))
    BY <1>2, <1>3, <2>2, <2>4, Evicts
  <2> QED
    BY <1>1, <1>2, <2>1, <2>5 DEF InStep, LeadsOn, Most, e, far
<1> QED
  BY <1>1, <1>3, <1>4 DEF UploadInv, e

LEMMA SendsKeep == ASSUME Budgeted, UploadInv, Upload!Sends PROVE UploadInv'
<1>1. PICK blobs \in UNION {[1 .. n -> Blobs] : n \in 1 .. MaxBlobs} :
        LET all == Upload!FoldLeft(Upload!Placed, [uploads |-> uploads, sent |-> <<>>], blobs)
        IN  uploads' = all.uploads /\ batches' = Append(batches, [cache |-> unsaid, blobs |-> all.sent])
  BY DEF Upload!Sends
<1>2. PICK n \in Nat : blobs \in [1 .. n -> Blobs]
  OBVIOUS
<1>3. /\ Len(batches) < MaxBatches /\ unsaid' = Upload!NoBudget
      /\ budget' = budget /\ table' = table /\ limit' = limit /\ lacked' = lacked
  BY DEF Upload!Sends
<1>4. PICK T \in [0 .. Len(batches) -> Stage] :
           /\ T[0] = [table |-> table, limit |-> limit]
           /\ \A i \in 1 .. Len(batches) : LeadsOn(T[i - 1], batches[i], T[i])
           /\ IsEnd(uploads, Upload!Evicted(T[Len(batches)].table, budget))
           /\ unsaid = Upload!NoBudget => T[Len(batches)].limit = budget
  BY DEF UploadInv, InStep
<1>5. /\ budget \in Nat /\ budget \in Budgets /\ uploads \in Once(Blobs) /\ batches \in Seq(Message) /\ Len(batches) \in Nat
      /\ unsaid \in {Upload!NoBudget, budget}
  BY DEF UploadInv, Budgeted
<1> DEFINE k == Len(batches)
           stage == T[k]
           far == Upload!Evicted(stage.table, budget)
           all == Upload!FoldLeft(Upload!Placed, [uploads |-> uploads, sent |-> <<>>], blobs)
           done == ApplyUploads(budget, [table |-> far, lacked |-> FALSE], all.sent)
           message == [cache |-> unsaid, blobs |-> all.sent]
           after == [table |-> done.table, limit |-> budget]
<1>6. stage \in Stage
  BY <1>5
<1>7. far \in Once(Blobs) /\ Upload!Bytes(far) <= budget /\ IsEnd(uploads, far)
  <2>1. stage.table \in Once(Blobs)
    BY <1>6 DEF Stage
  <2> QED
    BY <1>4, <1>5, <2>1, Evicts
<1> HIDE DEF far
<1>8. all \in Placing /\ done \in Resolving /\ ~done.lacked /\ IsEnd(all.uploads, done.table)
      /\ Upload!Bytes(done.table) <= budget
  BY <1>2, <1>5, <1>7, MessageResolved
<1>9. uploads' = all.uploads /\ batches' = Append(batches, message)
  BY <1>1
<1> HIDE DEF all
<1>10. message \in Message /\ Most(stage, message) = budget
  <2>1. all.sent \in Seq(Item)
    BY <1>8 DEF Placing
  <2>2. message \in Message
    BY <1>5, <2>1 DEF Message
  <2>3. message.cache = unsaid
    OBVIOUS
  <2> HIDE DEF message, stage
  <2> QED
    BY <1>4, <1>5, <2>2, <2>3 DEF Most, stage
<1>11. done = [table |-> done.table, lacked |-> FALSE] /\ done.table \in Once(Blobs) /\ all.uploads \in Once(Blobs)
  <2> HIDE DEF done
  <2> QED
    BY <1>8 DEF Resolving, Placing
<1>12. after \in Stage /\ LeadsOn(stage, message, after)
  <2>1. after \in Stage /\ after.limit = budget /\ after.table = done.table
    BY <1>5, <1>11 DEF Stage
  <2>2. message.blobs = all.sent
    OBVIOUS
  <2> HIDE DEF after, message
  <2>3. ApplyUploads(budget, [table |-> far, lacked |-> FALSE], message.blobs) = [table |-> after.table, lacked |-> FALSE]
    BY <1>11, <2>1, <2>2
  <2> QED
    BY <1>8, <1>10, <2>1, <2>3 DEF LeadsOn, far
<1>13. Len(batches') = k + 1 /\ batches'[k + 1] = message /\ batches' \in Seq(Message)
       /\ \A i \in 1 .. k : batches'[i] = batches[i]
  <2> HIDE DEF message
  <2> QED
    BY <1>5, <1>9, <1>10
<1>14. IsEnd(all.uploads, Upload!Evicted(done.table, budget))
  <2>1. IsEnd(done.table, done.table)
    <3> HIDE DEF done
    <3>1. Len(done.table) \in Nat
      BY <1>11 DEF Once
    <3> QED
      BY <3>1 DEF IsEnd
  <2> DEFINE e == Upload!Evicted(done.table, budget)
  <2>2. e \in Once(Blobs) /\ IsEnd(done.table, e)
    <3> HIDE DEF done
    <3> QED
      BY <1>5, <1>8, <1>11, <2>1, Evicts
  <2> HIDE DEF e, done
  <2>3. IsEnd(all.uploads, e)
    BY <1>8, <1>11, <2>2, EndsOn DEF Once
  <2> QED
    BY <2>3 DEF e
<1>15. InStep'
  <2> DEFINE U == [i \in 0 .. k + 1 |-> IF i = k + 1 THEN after ELSE T[i]]
  <2> HIDE DEF after, message
  <2>1. U \in [0 .. k + 1 -> Stage] /\ U[0] = T[0] /\ U[k + 1] = after /\ \A i \in 0 .. k : U[i] = T[i]
    BY <1>4, <1>5, <1>12
  <2> HIDE DEF U
  <2>2. ASSUME NEW i \in 1 .. k + 1 PROVE LeadsOn(U[i - 1], batches'[i], U[i])
    <3>1. CASE i = k + 1
      <4>1. U[i - 1] = stage /\ U[i] = after /\ batches'[i] = message
        BY <1>5, <1>13, <2>1, <3>1
      <4> QED
        BY <1>12, <4>1
    <3>2. CASE i # k + 1
      <4>1. i \in 1 .. k /\ i - 1 \in 0 .. k /\ i \in 0 .. k
        BY <1>5, <3>2
      <4>2. U[i - 1] = T[i - 1] /\ U[i] = T[i] /\ batches'[i] = batches[i]
        BY <1>13, <2>1, <4>1
      <4> QED
        BY <1>4, <4>1, <4>2
    <3> QED
      BY <3>1, <3>2
  <2>3. IsEnd(uploads', Upload!Evicted(U[k + 1].table, budget)) /\ U[k + 1].limit = budget
    <3>1. after.table = done.table /\ after.limit = budget
      BY DEF after
    <3> QED
      BY <1>9, <1>14, <2>1, <3>1
  <2>4. U[0] = [table |-> table', limit |-> limit']
    BY <1>3, <1>4, <2>1
  <2> QED
    BY <1>3, <1>13, <2>1, <2>2, <2>3, <2>4 DEF InStep
<1> QED
  <2>1. Len(batches') <= MaxBatches
    BY <1>3, <1>5, <1>13 DEF Budgeted
  <2>2. lacked' = FALSE /\ table' \in Once(Blobs) /\ budget' \in Budgets /\ limit' \in Budgets
        /\ Upload!Bytes(table') <= limit'
    BY <1>3 DEF UploadInv
  <2>3. uploads' \in Once(Blobs) /\ batches' \in Seq(Message) /\ unsaid' \in {Upload!NoBudget, budget'}
    BY <1>3, <1>9, <1>11, <1>13
  <2> QED
    BY <1>15, <2>1, <2>2, <2>3 DEF UploadInv

LEMMA AppliesKeep == ASSUME Budgeted, UploadInv, Upload!Applies PROVE UploadInv'
<1> DEFINE message == Head(batches)
           most == IF message.cache = Upload!NoBudget THEN limit ELSE message.cache
           done == ApplyUploads(most, [table |-> Upload!Evicted(table, most), lacked |-> lacked], message.blobs)
<1>1. /\ batches # <<>> /\ batches' = Tail(batches) /\ limit' = most /\ table' = done.table /\ lacked' = done.lacked
      /\ uploads' = uploads /\ budget' = budget /\ unsaid' = unsaid
  BY DEF Upload!Applies, ApplyUploads
<1>2. PICK T \in [0 .. Len(batches) -> Stage] :
           /\ T[0] = [table |-> table, limit |-> limit]
           /\ \A i \in 1 .. Len(batches) : LeadsOn(T[i - 1], batches[i], T[i])
           /\ IsEnd(uploads, Upload!Evicted(T[Len(batches)].table, budget))
           /\ unsaid = Upload!NoBudget => T[Len(batches)].limit = budget
  BY DEF UploadInv, InStep
<1> DEFINE k == Len(batches)
<1>3. batches \in Seq(Message) /\ k \in Nat /\ k > 0 /\ lacked = FALSE
  BY <1>1 DEF UploadInv
<1>4. message = batches[1] /\ Tail(batches) \in Seq(Message) /\ Len(Tail(batches)) = k - 1
      /\ \A i \in 1 .. k - 1 : Tail(batches)[i] = batches[i + 1]
  BY <1>1, <1>3
<1> HIDE DEF message
<1>5. 0 \in 0 .. k /\ 1 \in 0 .. k /\ 1 \in 1 .. k
  BY <1>3
<1>6. T[1] \in Stage /\ LeadsOn(T[0], message, T[1])
  <2>1. LeadsOn(T[1 - 1], batches[1], T[1])
    BY <1>2, <1>5
  <2> QED
    BY <1>2, <1>4, <1>5, <2>1
<1>7. Most(T[0], message) = most
  BY <1>2 DEF Most
<1> HIDE DEF most
<1>8. T[1].limit = most /\ done = [table |-> T[1].table, lacked |-> FALSE] /\ Upload!Bytes(T[1].table) <= most
  <2>1. T[1].limit = most /\ T[0].table = table
    BY <1>2, <1>6, <1>7 DEF LeadsOn
  <2>2. ApplyUploads(most, [table |-> Upload!Evicted(table, most), lacked |-> FALSE], message.blobs)
          = [table |-> T[1].table, lacked |-> FALSE] /\ Upload!Bytes(T[1].table) <= most
    BY <1>6, <2>1, Zenon DEF LeadsOn
  <2> QED
    BY <1>3, <2>1, <2>2, Zenon
<1> HIDE DEF done
<1>9. table' = T[1].table /\ limit' = T[1].limit /\ lacked' = FALSE /\ table' \in Once(Blobs) /\ limit' \in Budgets
  BY <1>1, <1>6, <1>8 DEF Stage
<1>10. InStep'
  <2> DEFINE U == [i \in 0 .. k - 1 |-> T[i + 1]]
  <2>1. \A i \in 0 .. k - 1 : i + 1 \in 0 .. k
    BY <1>3
  <2>2. U \in [0 .. k - 1 -> Stage] /\ U[0] = T[1] /\ \A i \in 0 .. k - 1 : U[i] = T[i + 1]
    <3>1. 0 \in 0 .. k - 1
      BY <1>3
    <3> QED
      BY <2>1, <3>1
  <2> HIDE DEF U
  <2>3. ASSUME NEW i \in 1 .. k - 1 PROVE LeadsOn(U[i - 1], Tail(batches)[i], U[i])
    <3>1. i - 1 \in 0 .. k - 1 /\ i \in 0 .. k - 1 /\ i + 1 \in 1 .. k /\ (i - 1) + 1 = i /\ (i + 1) - 1 = i
      BY <1>3
    <3>2. U[i - 1] = T[i] /\ U[i] = T[i + 1] /\ Tail(batches)[i] = batches[i + 1]
      BY <1>4, <2>2, <3>1
    <3>3. LeadsOn(T[(i + 1) - 1], batches[i + 1], T[i + 1])
      BY <1>2, <3>1
    <3> QED
      BY <3>1, <3>2, <3>3
  <2>4. U[k - 1] = T[k]
    <3>1. k - 1 \in 0 .. k - 1 /\ (k - 1) + 1 = k
      BY <1>3
    <3> QED
      BY <2>2, <3>1
  <2>5. T[1] = [table |-> table', limit |-> limit']
    BY <1>6, <1>9 DEF Stage
  <2>6. Len(batches') = k - 1 /\ batches' = Tail(batches)
    BY <1>1, <1>4
  <2> QED
    BY <1>1, <1>2, <2>2, <2>3, <2>4, <2>5, <2>6 DEF InStep
<1>11. Len(batches') <= MaxBatches
  <2>1. k <= MaxBatches
    BY DEF UploadInv
  <2> QED
    BY <1>1, <1>3, <1>4, <2>1 DEF Budgeted
<1>12. Upload!Bytes(table') <= limit'
  BY <1>8, <1>9
<1>13. batches' \in Seq(Message) /\ uploads' \in Once(Blobs) /\ budget' \in Budgets /\ unsaid' \in {Upload!NoBudget, budget'}
  BY <1>1, <1>4 DEF UploadInv
<1> QED
  BY <1>9, <1>10, <1>11, <1>12, <1>13 DEF UploadInv

LEMMA UploadHolds == ASSUME Budgeted, UploadInv PROVE DigestsHeld
<1>1. /\ uploads \in Seq(Blobs) /\ table \in Seq(Blobs) /\ IsInjective(uploads) /\ IsInjective(table)
      /\ uploads \in Once(Blobs) /\ table \in Once(Blobs) /\ budget \in Nat
  BY DEF UploadInv, Once, Budgeted
<1>2. Upload!UploadTypeOK
  BY <1>1 DEF Upload!UploadTypeOK, UploadInv, Upload!IsInjective, IsInjective
<1>3. ASSUME batches = <<>>, unsaid = Upload!NoBudget
      PROVE  Upload!IsSuffix(uploads, table) /\ limit = budget /\ Upload!Bytes(table) <= limit
  <2>1. IsEnd(uploads, Upload!Evicted(table, budget)) /\ limit = budget
    <3>1. Len(batches) = 0 /\ 0 \in 0 .. 0
      BY <1>3
    <3>2. PICK T \in [0 .. 0 -> Stage] :
               /\ T[0] = [table |-> table, limit |-> limit]
               /\ IsEnd(uploads, Upload!Evicted(T[0].table, budget))
               /\ T[0].limit = budget
      BY <1>3, <3>1 DEF UploadInv, InStep
    <3> QED
      BY <3>2
  <2> DEFINE e == Upload!Evicted(table, budget)
  <2>2. e \in Once(Blobs) /\ IsEnd(e, table)
    BY <1>1, Evicts
  <2> HIDE DEF e
  <2>3. IsEnd(uploads, table)
    BY <1>1, <2>1, <2>2, EndsOn DEF Once, e
  <2>4. IsSuffix(uploads, table)
    BY <1>1, <2>3, SuffixIs
  <2>5. Upload!IsSuffix(uploads, table)
    BY <2>4 DEF IsSuffix, IsPrefix, Reverse, Upload!IsSuffix, Upload!IsPrefix, Upload!Reverse
  <2> QED
    BY <2>1, <2>5 DEF UploadInv
<1>4. Upload!DigestsHeld
  BY DEF Upload!DigestsHeld, UploadInv
<1> QED
  BY <1>2, <1>3, <1>4 DEF DigestsHeld, Upload!TablesAgree

LEMMA UploadStays == ASSUME UploadInv, UNCHANGED uploadVars PROVE UploadInv'
  BY DEF UploadInv, InStep, uploadVars, LeadsOn, Most

\* A digest the client sends names bytes the executor holds, and once all is applied both sides
\* remember the same tensors up to what an unheard budget would drop: _place and _resolve evict
\* alike, whatever was uploaded, however large, and whichever budgets were set in between.
THEOREM DigestsCorrect == Budgets \subseteq Nat /\ MaxBatches \in Nat => (MCSpec => []DigestsHeld)
<1> SUFFICES ASSUME Budgeted PROVE MCSpec => []DigestsHeld
  BY DEF Budgeted
<1>1. MCInit => UploadInv
  BY UploadStart DEF MCInit
<1>2. UploadInv /\ [MCNext]_<<part, vars, uploadVars, mappingVars, driverVars>> => UploadInv'
  <2> SUFFICES ASSUME UploadInv, [MCNext]_<<part, vars, uploadVars, mappingVars, driverVars>>
               PROVE  UploadInv'
    OBVIOUS
  <2>1. CASE UNCHANGED uploadVars
    BY <2>1, UploadStays
  <2>2. CASE Upload!UploadNext
    BY <2>2, SendsKeep, BudgetKeeps, AppliesKeep DEF Upload!UploadNext
  <2> QED
    BY <2>1, <2>2 DEF MCNext
<1>3. UploadInv => DigestsHeld
  BY UploadHolds
<1> QED
  BY <1>1, <1>2, <1>3, PTL DEF MCSpec

-----------------------------------------------------------------------------
(* Sequences put behind each other. *)

\* A sequence of whatever it holds.
Whole(s) == s \in Seq(ToSet(s))

LEMMA WholeIs ==
  ASSUME NEW S, NEW s \in Seq(S)
  PROVE  Whole(s) /\ Len(s) \in Nat /\ DOMAIN s = 1 .. Len(s)
<1>1. Len(s) \in Nat /\ DOMAIN s = 1 .. Len(s) /\ s \in [1 .. Len(s) -> S]
  OBVIOUS
<1>2. s \in [1 .. Len(s) -> ToSet(s)]
  BY <1>1 DEF ToSet
<1> QED
  BY <1>1, <1>2 DEF Whole

\* Two whole sequences behind each other, one more member, and a part of one.
LEMMA WholeJoins ==
  ASSUME NEW s, Whole(s), NEW t, Whole(t)
  PROVE  /\ Whole(s \o t) /\ Len(s \o t) = Len(s) + Len(t)
         /\ \A i \in 1 .. Len(s) : (s \o t)[i] = s[i]
         /\ \A i \in 1 .. Len(t) : (s \o t)[Len(s) + i] = t[i]
<1> DEFINE S == ToSet(s) \cup ToSet(t)
<1>1. s \in Seq(S) /\ t \in Seq(S)
  <2>1. s \in Seq(ToSet(s)) /\ t \in Seq(ToSet(t))
    BY DEF Whole
  <2> HIDE DEF S
  <2>2. ToSet(s) \subseteq S /\ ToSet(t) \subseteq S
    BY DEF S
  <2> QED
    BY <2>1, <2>2
<1> HIDE DEF S
<1>2. s \o t \in Seq(S)
  BY <1>1
<1>3. Len(s) \in Nat /\ Len(t) \in Nat /\ Len(s \o t) = Len(s) + Len(t)
  BY <1>1
<1>4. \A i \in 1 .. Len(s) : (s \o t)[i] = s[i]
  BY <1>1, <1>3
<1>5. \A i \in 1 .. Len(t) : (s \o t)[Len(s) + i] = t[i]
  BY <1>1, <1>3
<1> QED
  BY <1>2, <1>3, <1>4, <1>5, WholeIs

LEMMA WholeAppend ==
  ASSUME NEW s, Whole(s), NEW e
  PROVE  /\ Whole(Append(s, e)) /\ Len(Append(s, e)) = Len(s) + 1
         /\ Append(s, e)[Len(s) + 1] = e /\ \A i \in 1 .. Len(s) : Append(s, e)[i] = s[i]
<1> DEFINE S == ToSet(s) \cup {e}
<1>1. s \in Seq(S) /\ e \in S
  <2>1. s \in Seq(ToSet(s))
    BY DEF Whole
  <2> HIDE DEF S
  <2>2. ToSet(s) \subseteq S /\ e \in S
    BY DEF S
  <2> QED
    BY <2>1, <2>2
<1> HIDE DEF S
<1>2. Append(s, e) \in Seq(S)
  BY <1>1
<1>3. Whole(Append(s, e))
  BY <1>2, WholeIs
<1>4. /\ Len(Append(s, e)) = Len(s) + 1 /\ Append(s, e)[Len(s) + 1] = e
      /\ \A i \in 1 .. Len(s) : Append(s, e)[i] = s[i]
  BY <1>1
<1> QED
  BY <1>3, <1>4

LEMMA WholePart ==
  ASSUME NEW s, Whole(s), NEW m \in Nat, NEW n \in 0 .. Len(s)
  PROVE  /\ Whole(SubSeq(s, m + 1, n)) /\ Len(SubSeq(s, m + 1, n)) = (IF m <= n THEN n - m ELSE 0)
         /\ \A i \in 1 .. n - m : SubSeq(s, m + 1, n)[i] = s[m + i]
<1> DEFINE S == ToSet(s)
           p == SubSeq(s, m + 1, n)
<1>1. s \in Seq(S) /\ Len(s) \in Nat
  BY DEF Whole
<1> HIDE DEF S
<1>2. p \in Seq(S) /\ Len(p) = (IF m <= n THEN n - m ELSE 0) /\ \A i \in 1 .. n - m : p[i] = s[m + i]
  BY <1>1
<1> HIDE DEF p
<1>3. Whole(p)
  BY <1>2, WholeIs
<1> QED
  BY <1>2, <1>3 DEF p

LEMMA Regroup == \A S : \A p, q, r \in Seq(S) : (p \o q) \o r = p \o (q \o r)
  BY ConcatAssociative

\* What flattening a sequence of sequences passes through.
Flattens(h, s) == h[0] = <<>> /\ \A i \in 1 .. Len(s) : h[i] = h[i - 1] \o s[i]
IsFlat(f, s) == f = [i \in 1 .. Len(s) |-> IF i = 1 THEN s[i] ELSE f[i - 1] \o s[i]]

LEMMA FlattenExists ==
  ASSUME NEW S, NEW s \in Seq(Seq(S))
  PROVE  \E h \in [0 .. Len(s) -> Seq(S)] : Flattens(h, s)
<1> DEFINE n == Len(s)
           Far(h, m) == h[0] = <<>> /\ \A i \in 1 .. m : h[i] = h[i - 1] \o s[i]
           Good == {m \in 0 .. n : \E h \in [0 .. m -> Seq(S)] : Far(h, m)}
<1>1. n \in Nat /\ \A i \in 1 .. n : s[i] \in Seq(S)
  OBVIOUS
<1>2. 0 \in Good
  <2> DEFINE h == [i \in 0 .. 0 |-> <<>>]
  <2>1. h \in [0 .. 0 -> Seq(S)] /\ Far(h, 0)
    OBVIOUS
  <2> HIDE DEF h, Far
  <2> QED
    BY <1>1, <2>1
<1>3. ASSUME NEW m \in 1 .. n, m - 1 \in Good PROVE m \in Good
  <2>1. PICK g \in [0 .. m - 1 -> Seq(S)] : Far(g, m - 1)
    BY <1>3
  <2> DEFINE h == [i \in 0 .. m |-> IF i = m THEN g[m - 1] \o s[m] ELSE g[i]]
  <2>2. m - 1 \in 0 .. m - 1 /\ m \in Nat
    BY <1>1
  <2>3. g[m - 1] \o s[m] \in Seq(S) /\ \A i \in 0 .. m : i # m => i \in 0 .. m - 1
    BY <1>1, <2>2
  <2>4. h \in [0 .. m -> Seq(S)]
    BY <2>3
  <2>5. h[m] = g[m - 1] \o s[m] /\ \A i \in 0 .. m - 1 : h[i] = g[i]
    <3>1. m \in 0 .. m /\ \A i \in 0 .. m - 1 : i \in 0 .. m /\ i # m
      BY <2>2
    <3> QED
      BY <3>1
  <2> HIDE DEF h
  <2>6. ASSUME NEW i \in 1 .. m PROVE h[i] = h[i - 1] \o s[i]
    <3>1. CASE i = m
      BY <2>2, <2>5, <3>1
    <3>2. CASE i # m
      <4>1. i \in 1 .. m - 1 /\ i - 1 \in 0 .. m - 1 /\ i \in 0 .. m - 1
        BY <2>2, <3>2
      <4> QED
        BY <2>1, <2>5, <4>1
    <3> QED
      BY <3>1, <3>2
  <2>7. h[0] = <<>>
    <3>1. 0 \in 0 .. m - 1
      BY <2>2
    <3> QED
      BY <2>1, <2>5, <3>1
  <2>8. Far(h, m)
    BY <2>6, <2>7
  <2> HIDE DEF Far
  <2> QED
    BY <2>4, <2>8
<1> HIDE DEF Good
<1>4. n \in Good
  <2>1. \A i \in 0 .. n : i \in Good
    BY <1>1, <1>2, <1>3, Along
  <2> QED
    BY <1>1, <2>1
<1> QED
  BY <1>4 DEF Good, Flattens

LEMMA FlattenIs ==
  ASSUME NEW S, NEW s \in Seq(Seq(S)), NEW h \in [0 .. Len(s) -> Seq(S)], Flattens(h, s)
  PROVE  FlattenSeq(s) = h[Len(s)] /\ FlattenSeq(s) \in Seq(S)
<1> DEFINE n == Len(s)
           f == [i \in 1 .. n |-> h[i]]
           c == CHOOSE g : IsFlat(g, s)
<1>1. n \in Nat /\ \A i \in 1 .. n : s[i] \in Seq(S)
  OBVIOUS
<1>2. CASE n = 0
  <2>1. s = <<>>
    BY <1>2
  <2> QED
    BY <1>2, <2>1 DEF FlattenSeq, Flattens
<1>3. CASE n # 0
  <2>1. IsFlat(f, s)
    <3>1. ASSUME NEW i \in 1 .. n PROVE f[i] = IF i = 1 THEN s[i] ELSE f[i - 1] \o s[i]
      <4>1. CASE i = 1
        <5>1. h[1] = h[0] \o s[1] /\ h[0] = <<>>
          <6>1. 1 \in 1 .. Len(s) /\ 1 - 1 = 0
            BY <1>1, <4>1
          <6> QED
            BY <6>1 DEF Flattens
        <5>2. <<>> \o s[1] = s[1]
          BY <1>1, <4>1
        <5> QED
          BY <4>1, <5>1, <5>2
      <4>2. CASE i # 1
        <5>1. i - 1 \in 1 .. n
          BY <1>1, <4>2
        <5> QED
          BY <4>2, <5>1 DEF Flattens
      <4> QED
        BY <4>1, <4>2
    <3>2. f = [i \in 1 .. n |-> f[i]]
      OBVIOUS
    <3> HIDE DEF f
    <3>3. f = [i \in 1 .. n |-> IF i = 1 THEN s[i] ELSE f[i - 1] \o s[i]]
      BY <3>1, <3>2
    <3> QED
      BY <3>3 DEF IsFlat
  <2> HIDE DEF f
  <2>2. IsFlat(c, s)
    BY <2>1
  <2>3. FlattenSeq(s) = c[n]
    BY <1>3 DEF FlattenSeq, IsFlat
  <2> HIDE DEF c
  <2> DEFINE Same == {i \in 0 .. n : i # 0 => c[i] = h[i]}
  <2>4. 0 \in Same
    BY <1>1
  <2>5. ASSUME NEW i \in 1 .. n, i - 1 \in Same PROVE i \in Same
    <3>1. c[i] = IF i = 1 THEN s[i] ELSE c[i - 1] \o s[i]
      BY <2>2 DEF IsFlat
    <3>2. h[i] = h[i - 1] \o s[i] /\ h[0] = <<>>
      BY DEF Flattens
    <3>3. CASE i = 1
      <4>1. <<>> \o s[1] = s[1] /\ 1 - 1 = 0 /\ 1 \in 0 .. n
        BY <1>1, <3>3
      <4>2. c[1] = s[1] /\ h[1] = s[1]
        BY <3>1, <3>2, <3>3, <4>1
      <4> QED
        BY <3>3, <4>1, <4>2
    <3>4. CASE i # 1
      <4>1. i - 1 # 0 /\ i \in 0 .. n
        BY <1>1, <3>4
      <4>2. c[i - 1] = h[i - 1]
        BY <2>5, <4>1
      <4> QED
        BY <3>1, <3>2, <3>4, <4>1, <4>2
    <3> QED
      BY <3>3, <3>4
  <2> HIDE DEF Same
  <2>6. \A i \in 0 .. n : i \in Same
    BY <1>1, <2>4, <2>5, Along
  <2>7. c[n] = h[n]
    BY <1>1, <1>3, <2>6 DEF Same
  <2>8. n \in 0 .. n
    BY <1>1
  <2> QED
    BY <2>3, <2>7, <2>8
<1> QED
  BY <1>2, <1>3

\* Flattening: nothing, one sequence more at the end, one at the start.
LEMMA FlattenAppend ==
  ASSUME NEW S, NEW s \in Seq(Seq(S)), NEW p \in Seq(S)
  PROVE  /\ FlattenSeq(s) \in Seq(S) /\ FlattenSeq(<<>>) = <<>>
         /\ FlattenSeq(Append(s, p)) = FlattenSeq(s) \o p
<1> DEFINE n == Len(s)
           t == Append(s, p)
<1>1. n \in Nat /\ t \in Seq(Seq(S)) /\ Len(t) = n + 1 /\ t[n + 1] = p /\ \A i \in 1 .. n : t[i] = s[i]
  OBVIOUS
<1> HIDE DEF t
<1>2. PICK h \in [0 .. Len(t) -> Seq(S)] : Flattens(h, t)
  BY <1>1, FlattenExists
<1> DEFINE g == [i \in 0 .. n |-> h[i]]
<1>3. \A i \in 0 .. n : i \in 0 .. Len(t)
  BY <1>1
<1>4. g \in [0 .. n -> Seq(S)] /\ \A i \in 0 .. n : g[i] = h[i]
  BY <1>2, <1>3
<1> HIDE DEF g
<1>5. Flattens(g, s)
  <2>1. \A i \in 1 .. n : i \in 1 .. Len(t) /\ i \in 0 .. n /\ i - 1 \in 0 .. n
    BY <1>1
  <2>2. 0 \in 0 .. n
    BY <1>1
  <2> QED
    BY <1>1, <1>2, <1>4, <2>1, <2>2 DEF Flattens
<1>6. FlattenSeq(s) = g[n] /\ FlattenSeq(s) \in Seq(S)
  BY <1>4, <1>5, FlattenIs
<1>7. FlattenSeq(t) = h[n + 1]
  BY <1>1, <1>2, FlattenIs
<1>8. h[n + 1] = h[n] \o p /\ g[n] = h[n]
  <2>1. n + 1 \in 1 .. Len(t) /\ (n + 1) - 1 = n /\ n \in 0 .. n
    BY <1>1
  <2> QED
    BY <1>1, <1>2, <1>4, <2>1 DEF Flattens
<1>9. FlattenSeq(<<>>) = <<>>
  BY DEF FlattenSeq
<1> QED
  BY <1>6, <1>7, <1>8, <1>9 DEF t

LEMMA FlattenHead ==
  ASSUME NEW S, NEW s \in Seq(Seq(S)), s # <<>>
  PROVE  FlattenSeq(s) = Head(s) \o FlattenSeq(Tail(s))
<1> DEFINE n == Len(s)
           t == Tail(s)
<1>0. \A p, q, r \in Seq(S) : (p \o q) \o r = p \o (q \o r)
  BY ONLY Regroup
<1>1. /\ n \in Nat \ {0} /\ t \in Seq(Seq(S)) /\ Len(t) = n - 1 /\ \A i \in 1 .. n - 1 : t[i] = s[i + 1]
      /\ Head(s) = s[1] /\ \A i \in 1 .. n : s[i] \in Seq(S)
  BY EmptySeq
<1> HIDE DEF t
<1>2. PICK h \in [0 .. n -> Seq(S)] : Flattens(h, s)
  BY FlattenExists
<1>3. PICK g \in [0 .. n - 1 -> Seq(S)] : Flattens(g, t)
  BY <1>1, FlattenExists
<1> DEFINE Same == {i \in 0 .. n - 1 : h[i + 1] = s[1] \o g[i]}
<1>4. 0 \in Same
  <2>1. h[1] = h[0] \o s[1] /\ h[0] = <<>> /\ g[0] = <<>>
    <3>1. 1 \in 1 .. n /\ 1 - 1 = 0
      BY <1>1
    <3> QED
      BY <1>2, <1>3, <3>1 DEF Flattens
  <2>2. <<>> \o s[1] = s[1] /\ s[1] \o <<>> = s[1] /\ 0 + 1 = 1 /\ 0 \in 0 .. n - 1
    BY <1>1
  <2> QED
    BY <2>1, <2>2
<1>5. ASSUME NEW i \in 1 .. n - 1, i - 1 \in Same PROVE i \in Same
  <2>1. i + 1 \in 1 .. n /\ (i + 1) - 1 = i /\ (i - 1) + 1 = i /\ i \in 1 .. Len(t) /\ i - 1 \in 0 .. n - 1 /\ i \in 0 .. n - 1
    BY <1>1
  <2>2. h[i + 1] = h[i] \o s[i + 1]
    BY <1>2, <2>1 DEF Flattens
  <2>3. g[i] = g[i - 1] \o s[i + 1]
    BY <1>1, <1>3, <2>1 DEF Flattens
  <2>4. h[i] = s[1] \o g[i - 1]
    BY <1>5, <2>1
  <2>5. s[1] \in Seq(S) /\ g[i - 1] \in Seq(S) /\ s[i + 1] \in Seq(S)
    <3>1. 1 \in 1 .. n
      BY <1>1
    <3> QED
      BY <1>1, <1>3, <2>1, <3>1
  <2> DEFINE a == s[1]
             b == g[i - 1]
             e == s[i + 1]
  <2>6. (a \o b) \o e = a \o (b \o e)
    <3>1. a \in Seq(S) /\ b \in Seq(S) /\ e \in Seq(S)
      BY <2>5
    <3> HIDE DEF a, b, e
    <3> QED
      BY ONLY <1>0, <3>1, Zenon
  <2> QED
    BY <2>1, <2>2, <2>3, <2>4, <2>6
<1> HIDE DEF Same
<1>6. \A i \in 0 .. n - 1 : i \in Same
  <2>1. n - 1 \in Nat
    BY <1>1
  <2> QED
    BY <1>4, <1>5, <2>1, Along
<1>7. h[n] = s[1] \o g[n - 1]
  <2>1. n - 1 \in 0 .. n - 1 /\ (n - 1) + 1 = n
    BY <1>1
  <2>2. h[(n - 1) + 1] = s[1] \o g[n - 1]
    BY <1>6, <2>1 DEF Same
  <2> QED
    BY <2>1, <2>2
<1>8. FlattenSeq(s) = h[n] /\ FlattenSeq(t) = g[n - 1]
  <2>1. FlattenSeq(s) = h[n]
    BY <1>2, FlattenIs
  <2>2. FlattenSeq(t) = g[n - 1]
    BY <1>1, <1>3, FlattenIs
  <2> QED
    BY <2>1, <2>2
<1> QED
  BY <1>1, <1>7, <1>8 DEF t

\* It holds what its parts hold.
LEMMA FlattenHolds ==
  ASSUME NEW S, NEW s \in Seq(Seq(S)), NEW x
  PROVE  x \in ToSet(FlattenSeq(s)) <=> \E i \in 1 .. Len(s) : x \in ToSet(s[i])
<1> DEFINE n == Len(s)
<1>1. n \in Nat /\ \A i \in 1 .. n : s[i] \in Seq(S)
  OBVIOUS
<1>2. PICK h \in [0 .. n -> Seq(S)] : Flattens(h, s)
  BY FlattenExists
<1>3. FlattenSeq(s) = h[n]
  BY <1>2, FlattenIs
<1> DEFINE Same == {i \in 0 .. n : x \in ToSet(h[i]) <=> \E j \in 1 .. i : x \in ToSet(s[j])}
<1>4. 0 \in Same
  BY <1>1, <1>2 DEF Flattens, ToSet
<1>5. ASSUME NEW i \in 1 .. n, i - 1 \in Same PROVE i \in Same
  <2>1. h[i] = h[i - 1] \o s[i] /\ h[i - 1] \in Seq(S) /\ s[i] \in Seq(S) /\ i \in 0 .. n /\ i \in Nat
    <3>1. i - 1 \in 0 .. n /\ i \in 0 .. n /\ i \in Nat
      BY <1>1
    <3> QED
      BY <1>1, <1>2, <3>1 DEF Flattens
  <2> DEFINE a == h[i - 1]
             b == s[i]
  <2>2. ToSet(h[i]) = ToSet(a) \cup ToSet(b)
    <3>1. a \in Seq(S) /\ b \in Seq(S) /\ h[i] = a \o b
      BY <2>1
    <3> HIDE DEF a, b
    <3>2. Range(a \o b) = Range(a) \cup Range(b)
      BY ONLY <3>1, RangeConcatenation
    <3>3. ToSet(a \o b) = ToSet(a) \cup ToSet(b)
      BY ONLY <3>2 DEF ToSet, Range
    <3> QED
      BY <3>1, <3>3
  <2>3. \A j \in 1 .. i : j = i \/ j \in 1 .. i - 1
    BY <2>1
  <2>4. i \in 1 .. i /\ \A j \in 1 .. i - 1 : j \in 1 .. i
    BY <2>1
  <2>5. x \in ToSet(h[i - 1]) <=> \E j \in 1 .. i - 1 : x \in ToSet(s[j])
    BY <1>5
  <2>6. x \in ToSet(h[i]) <=> \E j \in 1 .. i : x \in ToSet(s[j])
    BY <2>2, <2>3, <2>4, <2>5, Zenon
  <2> QED
    BY <2>1, <2>6
<1> HIDE DEF Same
<1>6. \A i \in 0 .. n : i \in Same
  BY <1>1, <1>4, <1>5, Along
<1>7. n \in Same
  BY <1>1, <1>6
<1> QED
  BY <1>3, <1>7 DEF Same
-----------------------------------------------------------------------------
\* What the queue holds: entries that want no result, and reads of the program.
Plainly(e) == "k" \in DOMAIN e /\ ~Wants(e)
Fits(e, rd) == Plainly(e) \/ (e.k = "fetch" /\ e.id \in DOMAIN rd /\ ~rd[e.id].waiter)

ClientFields == {"tracer", "steps", "templates", "queue", "released", "dead", "upto", "next", "outbox",
                 "sending", "replies", "deferred", "lost", "closed", "direct"}
Shaped(c, w, rd) ==
  /\ DOMAIN c = ClientFields
  /\ Whole(w) /\ Whole(c.direct) /\ Whole(c.sending) /\ Whole(c.outbox)
  /\ Whole(c.queue) /\ \A i \in DOMAIN c.queue : Fits(c.queue[i], rd)
  /\ c.replies \in Seq(Seq(DOMAIN rd))
ReadFields == {"exp", "done", "val", "waiter"}
Readable(rd) ==
  Whole(rd) /\ \A r \in DOMAIN rd : DOMAIN rd[r] = ReadFields /\ rd[r].done \in BOOLEAN /\ rd[r].waiter \in BOOLEAN

\* A read is outstanding in one place: in hand (K), in the queue, or noted for one reply.
Outstanding(c, rd, K) ==
  /\ \A r \in DOMAIN rd : rd[r].done <=> ~Queued(c, r) /\ ~Owes(c, r) /\ r \notin K
  /\ \A r \in DOMAIN rd : ~(Queued(c, r) /\ Owes(c, r))
  /\ \A r \in K : r \in DOMAIN rd /\ ~Queued(c, r) /\ ~Owes(c, r)
  /\ \A i, j \in DOMAIN c.queue :
       c.queue[i].k = "fetch" /\ c.queue[j].k = "fetch" /\ c.queue[i].id = c.queue[j].id => i = j
  /\ \A k, l \in DOMAIN c.replies : ToSet(c.replies[k]) \cap ToSet(c.replies[l]) # {} => k = l

\* What is noted behind the n replies that have arrived is for the messages on their way.
Pipe(c, w) == ((w \o c.direct) \o c.sending) \o c.outbox
Matched(asking, replies, n, rd) ==
  /\ Len(replies) = n + Len(asking)
  /\ \A i \in 1 .. Len(asking) : Owned(asking[i], replies[n + i], rd)
Ordered(c, w, n, u, rd) == n <= Len(c.replies) /\ (u => Matched(Replying(Pipe(c, w)), c.replies, n, rd))

\* The inductive invariant: n replies have arrived, the worker can be reached (u) or not, and
\* the reads of K are begun and not yet queued or noted.
Good(c, w, n, u, rd, K) ==
  Shaped(c, w, rd) /\ Readable(rd) /\ Outstanding(c, rd, K) /\ Ordered(c, w, n, u, rd)
RepliesInv ==
  /\ Good(client, wire, Len(back), up, reads, {}) /\ client.direct = <<>> /\ Whole(back)
  /\ pc = "append" => Plainly(held)

-----------------------------------------------------------------------------
\* A sequence as a function, one more member, and one less.
LEMMA SeqIs ==
  ASSUME NEW S, NEW s \in Seq(S), NEW n \in Nat, Len(s) = n, NEW f, DOMAIN f = 1 .. n, f = [i \in 1 .. n |-> f[i]],
         \A i \in 1 .. n : s[i] = f[i]
  PROVE  s = f
<1>1. s = [i \in 1 .. n |-> s[i]]
  OBVIOUS
<1> QED
  BY <1>1

\* What is appended, and what is left without the first, as functions.
LEMMA AppendIs ==
  ASSUME NEW S, NEW s \in Seq(S), NEW e
  PROVE  Append(s, e) = [i \in 1 .. Len(s) + 1 |-> IF i = Len(s) + 1 THEN e ELSE s[i]]
<1> DEFINE T == S \cup {e}
           n == Len(s)
           f == [i \in 1 .. n + 1 |-> IF i = n + 1 THEN e ELSE s[i]]
           a == Append(s, e)
<1>1. s \in Seq(T) /\ e \in T /\ n \in Nat
  BY SeqMonotonic
<1> HIDE DEF T
<1>2. a \in Seq(T) /\ Len(a) = n + 1 /\ (\A i \in 1 .. n : a[i] = s[i]) /\ a[n + 1] = e
  BY <1>1
<1> HIDE DEF a, n
<1>3. DOMAIN f = 1 .. n + 1 /\ f = [i \in 1 .. n + 1 |-> f[i]] /\ \A i \in 1 .. n + 1 : f[i] = IF i = n + 1 THEN e ELSE s[i]
  OBVIOUS
<1> HIDE DEF f
<1>4. \A i \in 1 .. n + 1 : a[i] = f[i]
  <2>1. \A i \in 1 .. n + 1 : i = n + 1 \/ i \in 1 .. n
    BY <1>1
  <2> QED
    BY <1>2, <1>3, <2>1
<1>5. n + 1 \in Nat
  BY <1>1
<1>6. a = f
  BY ONLY <1>2, <1>3, <1>4, <1>5, SeqIs
<1> QED
  BY <1>6 DEF a, f, n

LEMMA TailIs ==
  ASSUME NEW S, NEW s \in Seq(S), Len(s) # 0
  PROVE  Tail(s) = [i \in 1 .. Len(s) - 1 |-> s[i + 1]]
<1> DEFINE n == Len(s)
           f == [i \in 1 .. n - 1 |-> s[i + 1]]
           t == Tail(s)
<1>1. s # <<>> /\ n \in Nat \ {0}
  BY EmptySeq
<1>2. t \in Seq(S) /\ Len(t) = n - 1 /\ \A i \in 1 .. n - 1 : t[i] = s[i + 1]
  BY <1>1, HeadTailProperties
<1> HIDE DEF t, n
<1>3. DOMAIN f = 1 .. n - 1 /\ f = [i \in 1 .. n - 1 |-> f[i]] /\ \A i \in 1 .. n - 1 : f[i] = s[i + 1]
  OBVIOUS
<1> HIDE DEF f
<1>4. \A i \in 1 .. n - 1 : t[i] = f[i]
  BY <1>2, <1>3
<1>5. n - 1 \in Nat
  BY <1>1
<1>6. t = f
  BY ONLY <1>2, <1>3, <1>4, <1>5, SeqIs
<1> QED
  BY <1>6 DEF t, f, n

\* The reads of a batch, in their order.
LEMMA ConsumersAre ==
  ASSUME NEW R, Whole(R), NEW D, \A i \in 1 .. Len(R) : Owns(R[i]) \in Seq(D)
  PROVE  /\ Consumers(R) \in Seq(D) /\ Consumers(<<>>) = <<>>
         /\ \A r : r \in ToSet(Consumers(R)) <=> \E i \in 1 .. Len(R) : R[i].k = "fetch" /\ R[i].id # 0 /\ R[i].id = r
<1>1. Len(R) \in Nat /\ DOMAIN R = 1 .. Len(R)
  BY WholeIs DEF Whole
<1> DEFINE parts == [i \in DOMAIN R |-> Owns(R[i])]
<1>2. parts \in Seq(Seq(D)) /\ Len(parts) = Len(R) /\ \A i \in 1 .. Len(R) : parts[i] = Owns(R[i])
  BY <1>1
<1>3. Consumers(R) = FlattenSeq(parts)
  BY DEF Consumers
<1> HIDE DEF parts
<1>4. Consumers(R) \in Seq(D)
  BY <1>2, <1>3, FlattenAppend, EmptySeq
<1>5. Consumers(<<>>) = <<>>
  <2>1. [i \in DOMAIN <<>> |-> Owns(<<>>[i])] = <<>>
    OBVIOUS
  <2> QED
    BY <2>1 DEF Consumers, FlattenSeq
<1>6. ASSUME NEW r
      PROVE  r \in ToSet(Consumers(R)) <=> \E i \in 1 .. Len(R) : R[i].k = "fetch" /\ R[i].id # 0 /\ R[i].id = r
  <2>1. r \in ToSet(Consumers(R)) <=> \E i \in 1 .. Len(parts) : r \in ToSet(parts[i])
    BY <1>2, <1>3, FlattenHolds
  <2>2. ASSUME NEW i \in 1 .. Len(R) PROVE r \in ToSet(parts[i]) <=> R[i].k = "fetch" /\ R[i].id # 0 /\ R[i].id = r
    <3>1. CASE R[i].k = "fetch" /\ R[i].id # 0
      <4>1. parts[i] = <<R[i].id>>
        BY <1>2, <3>1 DEF Owns
      <4> QED
        BY <3>1, <4>1 DEF ToSet
    <3>2. CASE ~(R[i].k = "fetch" /\ R[i].id # 0)
      <4>1. parts[i] = <<>>
        BY <1>2, <3>2 DEF Owns
      <4> QED
        BY <3>2, <4>1 DEF ToSet
    <3> QED
      BY <3>1, <3>2
  <2> QED
    BY <1>2, <2>1, <2>2
<1> QED
  BY <1>4, <1>5, <1>6

\* The entries as they are sent ask for the reads noted, and at most the last for the request.
LEMMA AskedIs ==
  ASSUME NEW R, Whole(R), NEW E, Whole(E), Len(E) = Len(R), NEW D,
         \A i \in 1 .. Len(R) : Owns(R[i]) \in Seq(D),
         \A i \in 1 .. Len(R) :
           \/ Asks(E[i]) = Owns(R[i])
           \/ i = Len(R) /\ Asks(E[i]) = << 0 >> /\ Owns(R[i]) = <<>>
  PROVE  \/ Asked(E) = Consumers(R)
         \/ Asked(E) = Append(Consumers(R), 0) /\ \E i \in 1 .. Len(R) : Asks(E[i]) # Owns(R[i])
<1> DEFINE n == Len(R)
           owns == [i \in DOMAIN R |-> Owns(R[i])]
           asks == [i \in DOMAIN E |-> Asks(E[i])]
<1>1. n \in Nat /\ DOMAIN R = 1 .. n /\ DOMAIN E = 1 .. n
  BY WholeIs DEF Whole
<1>7. /\ \A i \in 1 .. n : Owns(R[i]) \in Seq(D)
      /\ \A i \in 1 .. n : Asks(E[i]) = Owns(R[i]) \/ (i = n /\ Asks(E[i]) = <<0>> /\ Owns(R[i]) = <<>>)
  OBVIOUS
<1> HIDE DEF n
<1>2. owns \in Seq(Seq(D)) /\ Len(owns) = n /\ \A i \in 1 .. n : owns[i] = Owns(R[i])
  BY <1>1, <1>7
<1>3. /\ DOMAIN asks = 1 .. n /\ DOMAIN owns = 1 .. n /\ \A i \in 1 .. n : asks[i] = Asks(E[i])
      /\ asks = [i \in 1 .. n |-> asks[i]] /\ owns = [i \in 1 .. n |-> owns[i]]
  BY <1>1
<1>4. Consumers(R) = FlattenSeq(owns) /\ Asked(E) = FlattenSeq(asks)
  BY DEF Consumers, Asked
<1> HIDE DEF owns, asks
<1>5. CASE \A i \in 1 .. n : asks[i] = owns[i]
  <2>1. asks = owns
    BY <1>3, <1>5
  <2> QED
    BY <1>4, <2>1
<1>6. CASE ~\A i \in 1 .. n : asks[i] = owns[i]
  <2>1. n \in 1 .. n /\ asks[n] = <<0>> /\ owns[n] = <<>> /\ \A i \in 1 .. n - 1 : asks[i] = owns[i]
    <3>1. PICK i \in 1 .. n : asks[i] # owns[i]
      BY <1>6
    <3>2. i = n /\ Asks(E[i]) = <<0>> /\ Owns(R[i]) = <<>>
      BY <1>2, <1>3, <1>7, <3>1
    <3>3. \A j \in 1 .. n - 1 : j \in 1 .. n /\ j # n
      BY <1>1
    <3>4. \A j \in 1 .. n - 1 : asks[j] = owns[j]
      BY <1>2, <1>3, <1>7, <3>3
    <3> QED
      BY <1>2, <1>3, <3>1, <3>2, <3>4
  <2> DEFINE front == [i \in 1 .. n - 1 |-> owns[i]]
             S == D \cup {0}
  <2>2. front \in Seq(Seq(D)) /\ Len(front) = n - 1 /\ \A i \in 1 .. n - 1 : front[i] = owns[i]
    <3>1. n - 1 \in Nat /\ \A i \in 1 .. n - 1 : i \in 1 .. n
      BY <1>1, <2>1
    <3>2. \A i \in 1 .. n - 1 : owns[i] \in Seq(D)
      BY <1>2, <1>7, <3>1
    <3>3. DOMAIN front = 1 .. n - 1 /\ front \in [1 .. n - 1 -> Seq(D)] /\ \A i \in 1 .. n - 1 : front[i] = owns[i]
      BY <3>2
    <3> HIDE DEF front
    <3> QED
      BY <3>1, <3>3
  <2> HIDE DEF front
  <2>3. owns = Append(front, <<>>) /\ asks = Append(front, <<0>>)
    <3>1. n - 1 \in Nat /\ (n - 1) + 1 = n /\ \A i \in 1 .. n : i = n \/ i \in 1 .. n - 1
      BY <1>1, <2>1
    <3>2. Append(front, <<>>) = [i \in 1 .. n |-> IF i = n THEN <<>> ELSE front[i]]
      BY <2>2, <3>1, AppendIs
    <3>3. Append(front, <<0>>) = [i \in 1 .. n |-> IF i = n THEN <<0>> ELSE front[i]]
      BY <2>2, <3>1, AppendIs
    <3>4. \A i \in 1 .. n : owns[i] = IF i = n THEN <<>> ELSE front[i]
      BY <2>1, <2>2, <3>1
    <3>5. \A i \in 1 .. n : asks[i] = IF i = n THEN <<0>> ELSE front[i]
      BY <2>1, <2>2, <3>1
    <3> QED
      BY <1>3, <3>2, <3>3, <3>4, <3>5
  <2>4. FlattenSeq(owns) = FlattenSeq(front) \o <<>> /\ FlattenSeq(front) \in Seq(D)
    BY <2>2, <2>3, FlattenAppend, EmptySeq
  <2>5. FlattenSeq(asks) = FlattenSeq(front) \o <<0>>
    <3>1. Seq(D) \subseteq Seq(S)
      BY SeqMonotonic
    <3>2. front \in Seq(Seq(S)) /\ <<0>> \in Seq(S)
      <4>1. front \in Seq(Seq(S))
        BY <2>2, <3>1
      <4> QED
        BY <4>1
    <3> HIDE DEF S
    <3> QED
      BY <2>3, <3>2, FlattenAppend
  <2>6. FlattenSeq(asks) = Append(FlattenSeq(owns), 0)
    BY <2>4, <2>5
  <2>7. \E i \in 1 .. n : Asks(E[i]) # Owns(R[i])
    BY <1>2, <1>3, <1>6
  <2> QED
    BY <1>4, <2>6, <2>7 DEF n
<1> QED
  BY <1>5, <1>6

\* The messages that want an answer: one more message, and one less.
LEMMA ReplyingAre ==
  ASSUME NEW ms, Whole(ms), NEW m
  PROVE  /\ Whole(Replying(ms)) /\ Replying(<<>>) = <<>>
         /\ Replying(Append(ms, m)) = IF m.reply THEN Append(Replying(ms), m) ELSE Replying(ms)
<1> DEFINE S == ToSet(ms) \cup {m}
           t == Append(ms, m)
           parts == [i \in DOMAIN ms |-> Answers(ms[i])]
           all == [i \in DOMAIN t |-> Answers(t[i])]
<1>1. ms \in Seq(S) /\ m \in S /\ Len(ms) \in Nat /\ DOMAIN ms = 1 .. Len(ms)
  <2>1. ms \in Seq(ToSet(ms)) /\ ToSet(ms) \subseteq S
    BY DEF Whole
  <2> HIDE DEF S
  <2> QED
    BY <2>1, SeqMonotonic DEF S
<1> HIDE DEF S
<1>2. /\ t \in Seq(S) /\ Len(t) = Len(ms) + 1 /\ DOMAIN t = 1 .. Len(ms) + 1
      /\ t[Len(ms) + 1] = m /\ \A i \in 1 .. Len(ms) : t[i] = ms[i]
  BY <1>1
<1> HIDE DEF t
<1>3. \A x \in S : Answers(x) \in Seq(S)
  BY DEF Answers
<1>4. parts \in Seq(Seq(S)) /\ Len(parts) = Len(ms) /\ \A i \in 1 .. Len(ms) : parts[i] = Answers(ms[i])
  BY <1>1, <1>3
<1>5. all = Append(parts, Answers(m))
  <2>1. Append(parts, Answers(m)) = [i \in 1 .. Len(ms) + 1 |-> IF i = Len(ms) + 1 THEN Answers(m) ELSE parts[i]]
    BY <1>1, <1>4
  <2>2. \A i \in 1 .. Len(ms) + 1 : all[i] = IF i = Len(ms) + 1 THEN Answers(m) ELSE parts[i]
    <3>1. \A i \in 1 .. Len(ms) + 1 : i = Len(ms) + 1 \/ i \in 1 .. Len(ms)
      BY <1>1
    <3> QED
      BY <1>2, <1>4, <3>1
  <2>3. all = [i \in 1 .. Len(ms) + 1 |-> all[i]]
    BY <1>2
  <2> HIDE DEF all
  <2> QED
    BY <2>1, <2>2, <2>3
<1>6. Replying(ms) = FlattenSeq(parts) /\ Replying(t) = FlattenSeq(all)
  BY DEF Replying
<1> HIDE DEF parts, all
<1>7. Replying(ms) \in Seq(S) /\ Replying(t) = Replying(ms) \o Answers(m)
  BY <1>1, <1>3, <1>4, <1>5, <1>6, FlattenAppend
<1>8. Replying(<<>>) = <<>>
  <2>1. [i \in DOMAIN <<>> |-> Answers(<<>>[i])] = <<>>
    OBVIOUS
  <2> QED
    BY <2>1 DEF Replying, FlattenSeq
<1>9. Replying(t) = IF m.reply THEN Append(Replying(ms), m) ELSE Replying(ms)
  <2>1. CASE m.reply
    <3>1. Replying(ms) \o <<m>> = Append(Replying(ms), m)
      BY <1>1, <1>7
    <3> QED
      BY <1>7, <2>1, <3>1 DEF Answers
  <2>2. CASE ~m.reply
    <3>1. Replying(ms) \o <<>> = Replying(ms)
      BY <1>7
    <3> QED
      BY <1>7, <2>2, <3>1 DEF Answers
  <2> QED
    BY <2>1, <2>2
<1> QED
  BY <1>7, <1>8, <1>9, WholeIs DEF t

\* Without its first message a pipe asks for one reply less, or for as many.
LEMMA ReplyingRest ==
  ASSUME NEW ms, Whole(ms), ms # <<>>
  PROVE  IF Head(ms).reply
         THEN Replying(ms) = <<Head(ms)>> \o Replying(Tail(ms))
         ELSE Replying(ms) = Replying(Tail(ms))
<1> DEFINE S == ToSet(ms)
           t == Tail(ms)
           parts == [i \in DOMAIN ms |-> Answers(ms[i])]
           rest == [i \in DOMAIN t |-> Answers(t[i])]
           n == Len(ms)
<1>1. ms \in Seq(S) /\ n \in Nat \ {0} /\ DOMAIN ms = 1 .. n /\ Head(ms) = ms[1]
  <2>1. ms \in Seq(S)
    BY DEF Whole
  <2> HIDE DEF S
  <2> QED
    BY <2>1, EmptySeq
<1> HIDE DEF S
<1>2. t \in Seq(S) /\ DOMAIN t = 1 .. n - 1 /\ \A i \in 1 .. n - 1 : t[i] = ms[i + 1]
  BY <1>1
<1> HIDE DEF t
<1>3. \A x \in S : Answers(x) \in Seq(S)
  BY DEF Answers
<1>4. parts \in Seq(Seq(S)) /\ Len(parts) = n /\ \A i \in 1 .. n : parts[i] = Answers(ms[i])
  BY <1>1, <1>3
<1>5. rest \in Seq(Seq(S)) /\ DOMAIN rest = 1 .. n - 1 /\ \A i \in 1 .. n - 1 : rest[i] = Answers(ms[i + 1])
  <2>1. n - 1 \in Nat /\ \A i \in 1 .. n - 1 : t[i] \in S
    BY <1>1, <1>2
  <2> QED
    BY <1>2, <1>3, <2>1
<1>6. Replying(ms) = FlattenSeq(parts) /\ Replying(t) = FlattenSeq(rest)
  BY DEF Replying
<1> HIDE DEF parts, rest
<1>7. parts # <<>> /\ Head(parts) = Answers(Head(ms)) /\ Tail(parts) = rest
  <2>1. parts # <<>> /\ Head(parts) = parts[1] /\ 1 \in 1 .. n
    BY <1>1, <1>4
  <2>2. Tail(parts) = [i \in 1 .. n - 1 |-> parts[i + 1]]
    BY <1>1, <1>4, TailIs
  <2>3. \A i \in 1 .. n - 1 : parts[i + 1] = rest[i]
    <3>1. \A i \in 1 .. n - 1 : i + 1 \in 1 .. n
      BY <1>1
    <3> QED
      BY <1>4, <1>5, <3>1
  <2>4. rest = [i \in 1 .. n - 1 |-> rest[i]]
    BY <1>5
  <2> QED
    BY <1>1, <1>4, <2>1, <2>2, <2>3, <2>4
<1>8. Replying(ms) = Answers(Head(ms)) \o Replying(t)
  BY <1>4, <1>6, <1>7, FlattenHead
<1>9. Replying(t) \in Seq(S)
  BY <1>5, <1>6, FlattenAppend, EmptySeq
<1>10. CASE Head(ms).reply
  BY <1>8, <1>10 DEF Answers, t
<1>11. CASE ~Head(ms).reply
  <2>1. <<>> \o Replying(t) = Replying(t)
    BY <1>9
  <2> QED
    BY <1>8, <1>11, <2>1 DEF Answers, t
<1> QED
  BY <1>10, <1>11

-----------------------------------------------------------------------------
\* What a flush leaves: nothing was there to send, or one message more is on its way.
Taking(c, m, extra) == SubSeq(c.queue, 1, m) \o extra
Left(c, m) == SubSeq(c.queue, m + 1, Len(c.queue))
SameMail(d, c) == d.replies = c.replies /\ d.outbox = c.outbox /\ d.direct = c.direct
Posts(d, c, waiter, message) ==
  IF Direct(c, waiter) THEN d.direct = <<message>> /\ d.outbox = c.outbox
  ELSE d.direct = c.direct /\ d.outbox = Append(c.outbox, message)

Batch(c, m, extra) == Filled(c, Taking(c, m, extra), Left(c, m), c.dead \union c.released)
Flushes(d, c, m, batch, owners, waiter) ==
  /\ DOMAIN d = ClientFields /\ d.sending = c.sending /\ d.queue = Left(c, m)
  /\ \/ owners = <<>> /\ SameMail(d, c)
     \/ \E message :
          /\ message.entries = batch /\ message.reply = (owners # <<>>)
          /\ d.replies = (IF owners # <<>> THEN Append(c.replies, owners) ELSE c.replies)
          /\ Posts(d, c, waiter, message)

\* What a flush does to the queue, to the replies and to what is to be sent.
LEMMA FlushIs ==
  ASSUME NEW c, DOMAIN c = ClientFields, NEW m, NEW extra, NEW waiter
  PROVE  Flushes(Flush(c, m, extra, waiter), c, m, Batch(c, m, extra), Noted(Taking(c, m, extra), waiter), waiter)
<1> DEFINE pend == Left(c, m)
           raw == Taking(c, m, extra)
           dead == c.dead \union c.released
           high == Upto(c, raw)
           waits == pend # <<>> \/ Untaken(c.tracer.active)
           rel == IF waits THEN {} ELSE {h \in c.released : h < high}
           noted == Noted(raw, waiter)
           message == [entries |-> Filled(c, raw, pend, dead), release |-> rel, reply |-> noted # <<>>, close |-> FALSE]
           taken == [c EXCEPT !.queue = pend, !.dead = Trimmed(c, raw, pend, dead),
                              !.upto = high, !.released = @ \ rel]
           sent == [taken EXCEPT !.replies = IF noted # <<>> THEN Append(@, noted) ELSE @,
                         !.direct = IF Direct(c, waiter) THEN <<message>> ELSE @,
                         !.outbox = IF Direct(c, waiter) THEN @ ELSE Append(@, message)]
           d == Flush(c, m, extra, waiter)
<1>1. d = IF raw = <<>> /\ rel = {} /\ noted = <<>> THEN taken ELSE sent
  BY DEF Flush, Taking, Left
<1>2. /\ message.entries = Filled(c, raw, pend, dead)
      /\ message.reply = (noted # <<>>)
  OBVIOUS
<1> HIDE DEF message, noted, rel, waits, high, dead, raw, pend
<1>3. /\ DOMAIN taken = ClientFields /\ taken.sending = c.sending /\ taken.queue = pend
      /\ taken.replies = c.replies /\ taken.outbox = c.outbox /\ taken.direct = c.direct
  BY DEF ClientFields
<1>4. sent = [taken EXCEPT !.replies = IF noted # <<>> THEN Append(taken.replies, noted) ELSE taken.replies,
                         !.direct = IF Direct(c, waiter) THEN <<message>> ELSE taken.direct,
                         !.outbox = IF Direct(c, waiter) THEN taken.outbox ELSE Append(taken.outbox, message)]
  OBVIOUS
<1> HIDE DEF taken, sent, d
<1>5. /\ DOMAIN sent = ClientFields /\ sent.sending = c.sending /\ sent.queue = pend
      /\ sent.replies = (IF noted # <<>> THEN Append(c.replies, noted) ELSE c.replies)
      /\ sent.direct = (IF Direct(c, waiter) THEN <<message>> ELSE c.direct)
      /\ sent.outbox = (IF Direct(c, waiter) THEN c.outbox ELSE Append(c.outbox, message))
  BY <1>3, <1>4 DEF ClientFields
<1>6. CASE raw = <<>> /\ rel = {} /\ noted = <<>>
  BY <1>1, <1>3, <1>6 DEF SameMail, Flushes, raw, noted, pend, d
<1>7. CASE ~(raw = <<>> /\ rel = {} /\ noted = <<>>)
  <2>1. d = sent /\ Posts(sent, c, waiter, message)
    BY <1>1, <1>5, <1>7 DEF Posts
  <2>2. \E msg : /\ msg.entries = Filled(c, raw, pend, dead)
                 /\ msg.reply = (noted # <<>>)
                 /\ d.replies = (IF noted # <<>> THEN Append(c.replies, noted) ELSE c.replies)
                 /\ Posts(d, c, waiter, msg)
    BY <1>2, <1>5, <2>1
  <2> QED
    BY <1>5, <2>1, <2>2 DEF Flushes, Batch, raw, noted, pend, dead, d
<1> QED
  BY <1>6, <1>7

\* What a request adds to the entries taken from the queue.
Adds(extra) ==
  /\ Whole(extra)
  /\ \A i \in 1 .. Len(extra) :
       \/ Plainly(extra[i])
       \/ i = Len(extra) /\ extra[i].k # "step" /\ Asks(extra[i]) = <<0>> /\ Owns(extra[i]) = <<>>

\* The kept offsets are filled in; which entry asks and which is a read's stays.
LEMMA FilledAre ==
  ASSUME NEW R, Whole(R), \A i \in 1 .. Len(R) : R[i].k = "step" => "k" \in DOMAIN R[i], NEW c, NEW pend, NEW gone
  PROVE  LET E == Filled(c, R, pend, gone)
         IN  /\ Whole(E) /\ Len(E) = Len(R)
             /\ \A i \in 1 .. Len(R) : IF R[i].k = "step" THEN Asks(E[i]) = <<>> ELSE E[i] = R[i]
<1> DEFINE E == Filled(c, R, pend, gone)
<1>1. Len(R) \in Nat /\ DOMAIN R = 1 .. Len(R)
  BY WholeIs DEF Whole
<1>2. E = [i \in 1 .. Len(R) |-> E[i]] /\ DOMAIN E = 1 .. Len(R)
  BY <1>1 DEF Filled
<1>3. ASSUME NEW i \in 1 .. Len(R)
      PROVE  IF R[i].k = "step" THEN Asks(E[i]) = <<>> ELSE E[i] = R[i]
  <2>1. CASE R[i].k # "step"
    BY <1>1, <2>1 DEF Filled
  <2>2. CASE R[i].k = "step"
    <3> DEFINE keep == Kept(c, R[i], SubSeq(R, i + 1, Len(R)) \o pend, gone)
    <3>1. E[i] = [R[i] EXCEPT !.keep = keep]
      BY <1>1, <2>2 DEF Filled
    <3> HIDE DEF keep
    <3>2. E[i].k = "step"
      BY <2>2, <3>1
    <3> HIDE DEF E
    <3>3. ~Wants(E[i])
      BY <3>2 DEF Wants
    <3> QED
      BY <2>2, <3>3 DEF Asks
  <2> QED
    BY <2>1, <2>2
<1> HIDE DEF E
<1>4. E \in Seq({E[i] : i \in 1 .. Len(R)}) /\ Len(E) = Len(R)
  <2> DEFINE T == {E[i] : i \in 1 .. Len(R)}
  <2>1. \A i \in 1 .. Len(R) : E[i] \in T
    OBVIOUS
  <2> HIDE DEF T
  <2>2. E \in [1 .. Len(R) -> T]
    BY <1>2, <2>1
  <2>3. E \in Seq(T) /\ Len(E) = Len(R)
    BY <1>1, <2>2
  <2> QED
    BY <2>3 DEF T
<1> QED
  BY <1>3, <1>4, WholeIs DEF E

\* What an entry of the queue asks for, sent or not.
LEMMA FitsIs ==
  ASSUME NEW rd, Readable(rd), NEW e, Fits(e, rd)
  PROVE  /\ Owns(e) \in Seq(DOMAIN rd) /\ Owns(e) = Asks(e)
         /\ (e.k = "step" => "k" \in DOMAIN e /\ Owns(e) = <<>>)
         /\ (e.k = "fetch" => e.id # 0 /\ e.id \in DOMAIN rd /\ ~rd[e.id].waiter)
<1>1. DOMAIN rd = 1 .. Len(rd) /\ Len(rd) \in Nat
  BY WholeIs DEF Readable, Whole
<1>2. CASE Plainly(e)
  <2>1. ~Wants(e) /\ e.k # "fetch"
    BY <1>2 DEF Plainly, Wants
  <2> QED
    BY <1>2, <2>1, EmptySeq DEF Owns, Asks, Plainly
<1>3. CASE e.k = "fetch" /\ e.id \in DOMAIN rd /\ ~rd[e.id].waiter
  <2>1. e.id # 0 /\ Wants(e)
    BY <1>1, <1>3 DEF Wants
  <2>2. <<e.id>> \in Seq(DOMAIN rd)
    BY <1>3
  <2> QED
    BY <1>3, <2>1, <2>2 DEF Owns, Asks
<1> QED
  BY <1>2, <1>3 DEF Fits

JoinOf(r, s, t) ==
  /\ Whole(r) /\ Len(r) = Len(s) + Len(t)
  /\ \A i \in 1 .. Len(s) : r[i] = s[i]
  /\ \A i \in 1 .. Len(t) : r[Len(s) + i] = t[i]
\* Two sequences behind each other, as one fact.
LEMMA JoinsAre == \A s, t : Whole(s) /\ Whole(t) => JoinOf(s \o t, s, t)
  BY WholeJoins DEF JoinOf

\* What a flush takes: m entries of the queue, and extra behind them.
TakesBoth(raw, q, m, extra, rd) ==
  /\ Whole(raw) /\ Len(raw) = m + Len(extra) /\ m \in Nat /\ Len(extra) \in Nat
  /\ \A i \in 1 .. m : raw[i] = q[i] /\ Fits(raw[i], rd)
  /\ \A i \in 1 .. Len(extra) : raw[m + i] = extra[i]
  /\ \A i \in 1 .. Len(raw) : i \in 1 .. m \/ (i - m \in 1 .. Len(extra) /\ raw[i] = extra[i - m])

\* The entries a flush takes are entries of the queue and what the request adds behind them.
LEMMA TakingIs ==
  ASSUME NEW c, NEW rd, NEW w, Shaped(c, w, rd), Readable(rd), NEW m \in 0 .. Len(c.queue), NEW extra, Adds(extra)
  PROVE  TakesBoth(Taking(c, m, extra), c.queue, m, extra, rd)
<1> DEFINE q == c.queue
           front == SubSeq(q, 1, m)
           raw == Taking(c, m, extra)
<1>1. Whole(q) /\ Len(q) \in Nat /\ DOMAIN q = 1 .. Len(q) /\ \A i \in 1 .. Len(q) : Fits(q[i], rd)
  BY WholeIs DEF Shaped, Whole
<1>2. Whole(extra) /\ Len(extra) \in Nat /\ m \in Nat
  BY <1>1, WholeIs DEF Adds, Whole
<1>3. raw = front \o extra
  BY DEF Taking
<1> HIDE DEF q, raw
<1>4. Whole(front) /\ Len(front) = m /\ \A i \in 1 .. m : front[i] = q[i]
  <2>1. 0 \in Nat /\ m \in 0 .. Len(q) /\ 0 + 1 = 1 /\ m - 0 = m /\ 0 <= m
    BY <1>1, <1>2 DEF q
  <2>2. /\ Whole(SubSeq(q, 0 + 1, m)) /\ Len(SubSeq(q, 0 + 1, m)) = (IF 0 <= m THEN m - 0 ELSE 0)
        /\ \A i \in 1 .. m - 0 : SubSeq(q, 0 + 1, m)[i] = q[0 + i]
    BY <1>1, <2>1, WholePart
  <2>3. \A i \in 1 .. m : 0 + i = i
    BY <1>2
  <2> QED
    BY <2>1, <2>2, <2>3
<1> HIDE DEF front
<1>5. /\ Whole(raw) /\ Len(raw) = m + Len(extra)
      /\ \A i \in 1 .. m : raw[i] = front[i]
      /\ \A i \in 1 .. Len(extra) : raw[m + i] = extra[i]
  <2>1. Whole(front) /\ Whole(extra)
    BY <1>2, <1>4
  <2>2. JoinOf(raw, front, extra)
    BY ONLY <1>3, <2>1, JoinsAre
  <2> QED
    BY <1>4, <2>2 DEF JoinOf
<1>6. \A i \in 1 .. m : raw[i] = q[i] /\ Fits(raw[i], rd)
  <2>1. \A i \in 1 .. m : i \in 1 .. Len(q)
    BY <1>1 DEF q
  <2> QED
    BY <1>1, <1>4, <1>5, <2>1
<1>7. ASSUME NEW i \in 1 .. Len(raw) PROVE i \in 1 .. m \/ (i - m \in 1 .. Len(extra) /\ raw[i] = extra[i - m])
  <2>1. i \in 1 .. m \/ (i - m \in 1 .. Len(extra) /\ m + (i - m) = i)
    BY <1>2, <1>5
  <2>2. CASE i - m \in 1 .. Len(extra) /\ m + (i - m) = i
    <3>1. raw[m + (i - m)] = extra[i - m]
      BY <1>5, <2>2
    <3> QED
      BY <2>2, <3>1
  <2> QED
    BY <2>1, <2>2
<1> QED
  BY <1>2, <1>5, <1>6, <1>7 DEF TakesBoth, raw, q

Reading(reader, batch, q, m, extra, rd) ==
  /\ reader \in Seq(DOMAIN rd)
  /\ \/ Asked(batch) = reader
     \/ Asked(batch) = Append(reader, 0) /\ extra # <<>>
  /\ \A r : r \in ToSet(reader) <=> \E i \in 1 .. m : q[i].k = "fetch" /\ q[i].id = r
  /\ \A r \in ToSet(reader) : ~rd[r].waiter

\* The batch of a flush asks for the reads in it, in their order, and then for the request.
LEMMA TakenAsks ==
  ASSUME NEW c, NEW rd, NEW w, Shaped(c, w, rd), Readable(rd), NEW m \in 0 .. Len(c.queue), NEW extra, Adds(extra)
  PROVE  Reading(Consumers(Taking(c, m, extra)), Batch(c, m, extra), c.queue, m, extra, rd)
<1> DEFINE raw == Taking(c, m, extra)
           E == Filled(c, raw, Left(c, m), c.dead \union c.released)
           q == c.queue
<1>1. /\ Whole(raw) /\ Len(raw) = m + Len(extra) /\ m \in Nat /\ Len(extra) \in Nat
      /\ \A i \in 1 .. m : raw[i] = q[i] /\ Fits(raw[i], rd)
      /\ \A i \in 1 .. Len(extra) : raw[m + i] = extra[i]
      /\ \A i \in 1 .. Len(raw) : i \in 1 .. m \/ (i - m \in 1 .. Len(extra) /\ raw[i] = extra[i - m])
  <2>1. Shaped(c, w, rd) /\ Readable(rd) /\ m \in 0 .. Len(c.queue) /\ Adds(extra)
    OBVIOUS
  <2>2. TakesBoth(raw, q, m, extra, rd)
    BY ONLY <2>1, TakingIs
  <2> QED
    BY <2>2 DEF TakesBoth
<1> HIDE DEF raw
\* An entry the request adds owns nothing; only the last may ask.
<1>2. ASSUME NEW i \in 1 .. Len(raw), i \notin 1 .. m
      PROVE  /\ Owns(raw[i]) = <<>> /\ (raw[i].k = "step" => "k" \in DOMAIN raw[i])
             /\ \/ Plainly(raw[i]) \/ (i = Len(raw) /\ raw[i].k # "step" /\ Asks(raw[i]) = <<0>> /\ extra # <<>>)
  <2>1. i - m \in 1 .. Len(extra) /\ raw[i] = extra[i - m]
    BY <1>1, <1>2
  <2>2. i - m = Len(extra) => i = Len(raw)
    BY <1>1, <1>2
  <2>3. extra # <<>>
    BY <2>1
  <2>4. Plainly(extra[i - m]) \/ (i - m = Len(extra) /\ extra[i - m].k # "step" /\ Asks(extra[i - m]) = <<0>> /\ Owns(extra[i - m]) = <<>>)
    BY <2>1 DEF Adds
  <2>5. CASE Plainly(raw[i])
    <3>1. raw[i].k # "fetch"
      BY <2>5 DEF Plainly, Wants
    <3> QED
      BY <2>5, <3>1 DEF Owns, Plainly
  <2> QED
    BY <2>1, <2>2, <2>3, <2>4, <2>5
<1>3. \A i \in 1 .. Len(raw) : Owns(raw[i]) \in Seq(DOMAIN rd) /\ (raw[i].k = "step" => "k" \in DOMAIN raw[i] /\ Owns(raw[i]) = <<>>)
  <2>1. \A i \in 1 .. m : Owns(raw[i]) \in Seq(DOMAIN rd) /\ (raw[i].k = "step" => "k" \in DOMAIN raw[i] /\ Owns(raw[i]) = <<>>)
    BY <1>1, FitsIs
  <2>2. <<>> \in Seq(DOMAIN rd)
    BY EmptySeq
  <2> QED
    BY <1>2, <2>1, <2>2
<1>4. /\ Whole(E) /\ Len(E) = Len(raw)
      /\ \A i \in 1 .. Len(raw) : IF raw[i].k = "step" THEN Asks(E[i]) = <<>> ELSE E[i] = raw[i]
  BY <1>1, <1>3, FilledAre
<1> HIDE DEF E
<1>5. ASSUME NEW i \in 1 .. Len(raw)
      PROVE  \/ Asks(E[i]) = Owns(raw[i])
             \/ i = Len(raw) /\ Asks(E[i]) = <<0>> /\ Owns(raw[i]) = <<>> /\ extra # <<>>
  <2>1. CASE raw[i].k = "step"
    BY <1>3, <1>4, <2>1
  <2>2. CASE raw[i].k # "step" /\ i \in 1 .. m
    <3>1. Owns(raw[i]) = Asks(raw[i])
      BY <1>1, <2>2, FitsIs
    <3> QED
      BY <1>4, <2>2, <3>1
  <2>3. CASE raw[i].k # "step" /\ i \notin 1 .. m
    <3>1. E[i] = raw[i] /\ Owns(raw[i]) = <<>>
      BY <1>2, <1>4, <2>3
    <3>2. CASE Plainly(raw[i])
      BY <3>1, <3>2 DEF Asks, Plainly
    <3> QED
      BY <1>2, <2>3, <3>1, <3>2
  <2> QED
    BY <2>1, <2>2, <2>3
<1>6. Consumers(raw) \in Seq(DOMAIN rd)
  BY <1>1, <1>3, ConsumersAre
<1>7. \/ Asked(E) = Consumers(raw)
      \/ Asked(E) = Append(Consumers(raw), 0) /\ extra # <<>>
  <2> DEFINE D == DOMAIN rd
  <2>1. \A i \in 1 .. Len(raw) : Owns(raw[i]) \in Seq(D)
    BY <1>3
  <2> HIDE DEF D
  <2>2. \/ Asked(E) = Consumers(raw)
        \/ Asked(E) = Append(Consumers(raw), 0) /\ \E i \in 1 .. Len(raw) : Asks(E[i]) # Owns(raw[i])
    BY <1>1, <1>4, <1>5, <2>1, AskedIs
  <2> QED
    BY <1>5, <2>2
<1>8. ASSUME NEW r
      PROVE  /\ r \in ToSet(Consumers(raw)) <=> \E i \in 1 .. m : q[i].k = "fetch" /\ q[i].id = r
             /\ r \in ToSet(Consumers(raw)) => r \in DOMAIN rd /\ ~rd[r].waiter
  <2>1. r \in ToSet(Consumers(raw)) <=> \E i \in 1 .. Len(raw) : raw[i].k = "fetch" /\ raw[i].id # 0 /\ raw[i].id = r
    <3> DEFINE D == DOMAIN rd
    <3>1. Whole(raw) /\ \A i \in 1 .. Len(raw) : Owns(raw[i]) \in Seq(D)
      BY <1>1, <1>3
    <3> HIDE DEF D
    <3> QED
      BY ONLY <3>1, ConsumersAre
  <2>2. \A i \in 1 .. m : i \in 1 .. Len(raw)
    BY <1>1
  <2>3. \A i \in 1 .. m : raw[i].k = "fetch" => raw[i].id # 0 /\ raw[i].id \in DOMAIN rd /\ ~rd[raw[i].id].waiter
    BY <1>1, FitsIs
  <2>4. \A i \in 1 .. Len(raw) : raw[i].k = "fetch" /\ raw[i].id # 0 => i \in 1 .. m
    <3> SUFFICES ASSUME NEW i \in 1 .. Len(raw), raw[i].k = "fetch", raw[i].id # 0, i \notin 1 .. m PROVE FALSE
      OBVIOUS
    <3>1. Owns(raw[i]) = <<raw[i].id>>
      BY DEF Owns
    <3>2. Owns(raw[i]) = <<>>
      BY <1>2
    <3>3. \A x : <<x>> # <<>>
      OBVIOUS
    <3> QED
      BY ONLY <3>1, <3>2, <3>3
  <2> QED
    BY <1>1, <2>1, <2>2, <2>3, <2>4
<1> QED
  BY <1>6, <1>7, <1>8 DEF Reading, Batch, raw, E

\* The readers noted for a message are those its results are for.
LEMMA NotedOwns ==
  ASSUME NEW rd, NEW reader \in Seq(DOMAIN rd), \A r \in ToSet(reader) : ~rd[r].waiter,
         NEW message, NEW waiter,
         \/ waiter = <<>> /\ Asked(message.entries) = reader
         \/ /\ \E x \in DOMAIN rd : waiter = <<x>> /\ rd[x].waiter
            /\ Asked(message.entries) = reader \/ Asked(message.entries) = Append(reader, 0)
  PROVE  reader \o waiter \in Seq(DOMAIN rd) /\ Owned(message, reader \o waiter, rd)
<1> DEFINE asked == Asked(message.entries)
           n == Len(reader)
<1>1. n \in Nat /\ DOMAIN reader = 1 .. n /\ \A i \in 1 .. n : reader[i] \in DOMAIN rd /\ ~rd[reader[i]].waiter
  BY DEF ToSet
<1>2. CASE waiter = <<>> /\ asked = reader
  <2>1. reader \o waiter = reader
    BY <1>2
  <2> QED
    BY <1>1, <1>2, <2>1 DEF Owned
<1>3. ASSUME NEW x \in DOMAIN rd, waiter = <<x>>, rd[x].waiter, asked = reader \/ asked = Append(reader, 0)
      PROVE  reader \o waiter \in Seq(DOMAIN rd) /\ Owned(message, reader \o waiter, rd)
  <2> DEFINE both == reader \o waiter
  <2>1. /\ both \in Seq(DOMAIN rd) /\ DOMAIN both = 1 .. n + 1 /\ Len(both) = n + 1 /\ both[n + 1] = x
        /\ \A i \in 1 .. n : both[i] = reader[i]
    BY <1>1, <1>3
  <2>2. /\ Len(asked) <= n + 1 /\ Len(asked) \in Nat /\ DOMAIN asked = 1 .. Len(asked) /\ n <= Len(asked)
        /\ \A i \in 1 .. n : asked[i] = reader[i]
        /\ (n + 1 \in DOMAIN asked => asked[n + 1] = 0)
    <3>1. CASE asked = reader
      <4>1. n + 1 \notin 1 .. n /\ n <= n + 1 /\ n <= n
        BY <1>1
      <4> QED
        BY <1>1, <3>1, <4>1
    <3>2. CASE asked = Append(reader, 0)
      <4> DEFINE D == DOMAIN rd \cup {0}
      <4>1. reader \in Seq(D) /\ 0 \in D
        BY SeqMonotonic
      <4> HIDE DEF D
      <4>2. Len(asked) = n + 1 /\ DOMAIN asked = 1 .. n + 1 /\ asked[n + 1] = 0 /\ \A i \in 1 .. n : asked[i] = reader[i]
        BY <3>2, <4>1
      <4> HIDE DEF n, asked
      <4> QED
        BY <1>1, <4>2
    <3> QED
      BY <1>3, <3>1, <3>2
  <2> HIDE DEF both, asked, n
  <2>3. ASSUME NEW i \in 1 .. n + 1
        PROVE  IF rd[both[i]].waiter THEN i = n + 1 /\ (i \in DOMAIN asked => asked[i] = 0)
               ELSE i \in DOMAIN asked /\ asked[i] = both[i]
    <3>1. CASE i = n + 1
      BY <1>3, <2>1, <2>2, <3>1
    <3>2. CASE i # n + 1
      <4>1. i \in 1 .. n /\ i \in 1 .. Len(asked)
        BY <1>1, <2>2, <3>2
      <4> QED
        BY <1>1, <2>1, <2>2, <4>1
    <3> QED
      BY <3>1, <3>2
  <2> QED
    BY <2>1, <2>2, <2>3 DEF Owned, both, asked
<1> QED
  BY <1>2, <1>3

-----------------------------------------------------------------------------
\* All the accounts of readers look at.
Alike(d, c) ==
  /\ DOMAIN d = ClientFields /\ d.queue = c.queue /\ d.replies = c.replies
  /\ d.outbox = c.outbox /\ d.sending = c.sending /\ d.direct = c.direct

\* What the accounts do not look at may change.
LEMMA AlikeGood ==
  ASSUME NEW c, NEW w, NEW n, NEW u, NEW rd, NEW K, Good(c, w, n, u, rd, K), NEW d, Alike(d, c)
  PROVE  Good(d, w, n, u, rd, K)
<1>1. Shaped(d, w, rd)
  BY DEF Good, Alike, Shaped
<1>2. (\A r : Queued(d, r) <=> Queued(c, r)) /\ (\A r : Owes(d, r) <=> Owes(c, r))
  BY DEF Alike, Queued, Owes
<1>3. Outstanding(d, rd, K)
  BY <1>2 DEF Good, Alike, Outstanding
<1>4. Ordered(d, w, n, u, rd)
  BY DEF Good, Alike, Ordered, Pipe
<1> QED
  BY <1>1, <1>3, <1>4 DEF Good

\* A message posted is the last of those on their way.
LEMMA PostedPipe ==
  ASSUME NEW c, NEW w, NEW rd, Shaped(c, w, rd), c.direct = <<>>, NEW d, d.sending = c.sending,
         NEW waiter, NEW message, Posts(d, c, waiter, message)
  PROVE  /\ Pipe(d, w) = Append(Pipe(c, w), message) /\ Whole(Pipe(c, w))
         /\ Whole(d.direct) /\ Whole(d.outbox) /\ (waiter = <<>> => d.direct = <<>>)
<1> DEFINE S == ToSet(w) \cup ToSet(c.sending) \cup ToSet(c.outbox) \cup {message}
           s == c.sending
           o == c.outbox
<1>0. \A p, q, r \in Seq(S) : (p \o q) \o r = p \o (q \o r)
  BY ONLY Regroup
<1>1. w \in Seq(S) /\ s \in Seq(S) /\ o \in Seq(S) /\ message \in S
  <2>1. w \in Seq(ToSet(w)) /\ s \in Seq(ToSet(s)) /\ o \in Seq(ToSet(o))
    BY DEF Shaped, Whole
  <2>2. ToSet(w) \subseteq S /\ ToSet(s) \subseteq S /\ ToSet(o) \subseteq S /\ message \in S
    OBVIOUS
  <2> HIDE DEF S
  <2> QED
    BY <2>1, <2>2, SeqMonotonic
<1> HIDE DEF S, s, o
<1>2. Pipe(c, w) = (w \o s) \o o /\ Pipe(c, w) \in Seq(S)
  <2>1. w \o <<>> = w
    BY <1>1
  <2>2. (w \o s) \o o \in Seq(S)
    BY <1>1
  <2> QED
    BY <2>1, <2>2 DEF Pipe, s, o
<1>3. \A e \in S, p \in Seq(S) : Append(p, e) = p \o <<e>> /\ <<e>> \in Seq(S)
  OBVIOUS
<1>4. CASE Direct(c, waiter)
  <2>1. s = <<>> /\ o = <<>>
    <3>1. Len(o) \in Nat /\ Len(s) \in Nat
      BY <1>1
    <3>2. Len(o) + Len(s) = 0
      BY <1>4, Zenon DEF Direct, Unsent, s, o
    <3>3. Len(o) = 0 /\ Len(s) = 0
      BY <3>1, <3>2
    <3> QED
      BY <1>1, <3>3, EmptySeq
  <2>2. d.direct = <<message>> /\ d.outbox = <<>> /\ d.sending = <<>> /\ waiter # <<>>
    BY <1>4, <2>1 DEF Posts, Direct, s, o
  <2>3. Pipe(d, w) = ((w \o <<message>>) \o <<>>) \o <<>> /\ Pipe(c, w) = (w \o <<>>) \o <<>>
    BY <1>2, <2>1, <2>2 DEF Pipe
  <2>4. w \o <<>> = w /\ w \o <<message>> \in Seq(S) /\ Append(w, message) = w \o <<message>>
    BY <1>1
  <2>5. (w \o <<message>>) \o <<>> = w \o <<message>>
    BY <2>4
  <2>6. Pipe(d, w) = Append(Pipe(c, w), message)
    BY <2>3, <2>4, <2>5
  <2>7. <<message>> \in Seq(S) /\ <<>> \in Seq(S)
    BY <1>1
  <2>8. Whole(<<message>>) /\ Whole(<<>>)
    BY <2>7, WholeIs
  <2> QED
    BY <1>2, <2>2, <2>6, <2>8, WholeIs
<1>5. CASE ~Direct(c, waiter)
  <2>1. d.direct = <<>> /\ d.outbox = Append(o, message)
    BY <1>5 DEF Posts, o
  <2>2. Pipe(d, w) = (w \o s) \o Append(o, message)
    <3>1. w \o <<>> = w
      BY <1>1
    <3> QED
      BY <2>1, <3>1 DEF Pipe, s
  <2>3. Append(o, message) = o \o <<message>> /\ Append((w \o s) \o o, message) = ((w \o s) \o o) \o <<message>>
    BY <1>1, <1>2, <1>3
  <2>4. ((w \o s) \o o) \o <<message>> = (w \o s) \o (o \o <<message>>)
    <3>1. w \o s \in Seq(S) /\ <<message>> \in Seq(S)
      BY <1>1
    <3> QED
      BY ONLY <1>0, <1>1, <3>1, Zenon
  <2>5. Append(o, message) \in Seq(S) /\ <<>> \in Seq(S)
    BY <1>1
  <2> QED
    BY <1>2, <2>1, <2>2, <2>3, <2>4, <2>5, WholeIs
<1> QED
  BY <1>4, <1>5

\* One more message that wants an answer, and its readers noted.
LEMMA MatchedMore ==
  ASSUME NEW asking, Whole(asking), NEW rd, NEW replies \in Seq(Seq(DOMAIN rd)), NEW n \in Nat,
         Matched(asking, replies, n, rd), NEW message, NEW owners \in Seq(DOMAIN rd), Owned(message, owners, rd)
  PROVE  Matched(Append(asking, message), Append(replies, owners), n, rd)
<1> DEFINE a == Append(asking, message)
           p == Append(replies, owners)
           k == Len(asking)
<1>1. /\ k \in Nat /\ Len(a) = k + 1 /\ a[k + 1] = message /\ \A i \in 1 .. k : a[i] = asking[i]
  <2>1. k \in Nat
    BY WholeIs DEF Whole
  <2> QED
    BY <2>1, WholeAppend
<1>2. /\ Len(replies) = n + k /\ Len(p) = (n + k) + 1 /\ p[(n + k) + 1] = owners
      /\ \A i \in 1 .. n + k : p[i] = replies[i]
  <2>1. Len(replies) = n + k
    BY DEF Matched
  <2>2. Len(p) = Len(replies) + 1 /\ p[Len(replies) + 1] = owners /\ \A i \in 1 .. Len(replies) : p[i] = replies[i]
    OBVIOUS
  <2> QED
    BY <2>1, <2>2
<1> HIDE DEF a, p, k
<1>3. ASSUME NEW i \in 1 .. Len(a) PROVE Owned(a[i], p[n + i], rd)
  <2>1. CASE i = k + 1
    <3>1. n + i = (n + k) + 1
      BY <1>1, <2>1
    <3> QED
      BY <1>1, <1>2, <2>1, <3>1
  <2>2. CASE i # k + 1
    <3>1. i \in 1 .. k /\ n + i \in 1 .. n + k
      BY <1>1, <2>2
    <3>2. Owned(asking[i], replies[n + i], rd)
      BY <3>1 DEF Matched, k
    <3> QED
      BY <1>1, <1>2, <3>1, <3>2
  <2> QED
    BY <2>1, <2>2
<1>4. Len(p) = n + Len(a)
  BY <1>1, <1>2
<1> QED
  BY <1>3, <1>4 DEF Matched, a, p

\* A flush hands the reads it takes from the queue, and the one in hand, to the reply noted.
LEMMA FlushOutstanding ==
  ASSUME NEW c, NEW w, NEW rd, Shaped(c, w, rd), NEW K, Outstanding(c, rd, K), NEW m \in 0 .. Len(c.queue),
         NEW d, d.queue = Left(c, m), NEW owners \in Seq(DOMAIN rd),
         \A r : r \in ToSet(owners) <=> r \in K \/ \E i \in 1 .. m : c.queue[i].k = "fetch" /\ c.queue[i].id = r,
         d.replies = (IF owners # <<>> THEN Append(c.replies, owners) ELSE c.replies)
  PROVE  /\ Outstanding(d, rd, {}) /\ d.replies \in Seq(Seq(DOMAIN rd))
         /\ Whole(d.queue) /\ \A i \in DOMAIN d.queue : Fits(d.queue[i], rd)
<1> DEFINE q == c.queue
           p == d.queue
           n == Len(q)
           Sent(r) == \E i \in 1 .. m : q[i].k = "fetch" /\ q[i].id = r
           k == Len(c.replies)
           D == DOMAIN rd
<1>1. Whole(q) /\ n \in Nat /\ DOMAIN q = 1 .. n /\ m \in Nat /\ \A i \in 1 .. n : Fits(q[i], rd)
  BY WholeIs DEF Shaped, Whole
<1>2. /\ Whole(p) /\ Len(p) = n - m /\ DOMAIN p = 1 .. n - m /\ \A i \in 1 .. n - m : p[i] = q[m + i]
  <2>1. n \in 0 .. n
    BY <1>1
  <2>2. Whole(SubSeq(q, m + 1, n)) /\ Len(SubSeq(q, m + 1, n)) = (IF m <= n THEN n - m ELSE 0)
        /\ \A i \in 1 .. n - m : SubSeq(q, m + 1, n)[i] = q[m + i]
    BY <1>1, <2>1, WholePart
  <2>3. p = SubSeq(q, m + 1, n)
    BY DEF Left
  <2>4. m <= n
    BY <1>1
  <2>5. Whole(p) /\ Len(p) = n - m /\ \A i \in 1 .. n - m : p[i] = q[m + i]
    BY <2>2, <2>3, <2>4
  <2>6. DOMAIN p = 1 .. Len(p)
    BY <2>5, WholeIs DEF Whole
  <2> QED
    BY <2>5, <2>6
<1>3. m <= n
  BY <1>1
<1>a. \A i \in 1 .. n - m : m + i \in 1 .. n /\ m + i \notin 1 .. m
  BY <1>1
<1>b. \A i \in 1 .. n : i \notin 1 .. m => i - m \in 1 .. n - m /\ m + (i - m) = i
  BY <1>1
<1>c. \A i \in 1 .. m : i \in 1 .. n
  BY <1>1, <1>3
<1> HIDE DEF n, p
<1>4. ASSUME NEW r PROVE (Queued(c, r) <=> Queued(d, r) \/ Sent(r)) /\ ~(Queued(d, r) /\ Sent(r))
  <2>1. Queued(d, r) <=> \E i \in 1 .. n - m : q[m + i].k = "fetch" /\ q[m + i].id = r
    <3>1. Queued(d, r) <=> \E i \in DOMAIN p : p[i].k = "fetch" /\ p[i].id = r
      BY DEF Queued, p
    <3> QED
      BY ONLY <1>2, <3>1
  <2>2. Queued(c, r) <=> \E i \in 1 .. n : q[i].k = "fetch" /\ q[i].id = r
    BY <1>1 DEF Queued
  <2>3. ASSUME Queued(d, r) \/ Sent(r) PROVE Queued(c, r)
    BY <1>a, <1>c, <2>1, <2>2, <2>3
  <2>4. ASSUME Queued(c, r), ~Sent(r) PROVE Queued(d, r)
    <3>1. PICK i \in 1 .. n : q[i].k = "fetch" /\ q[i].id = r
      BY <2>2, <2>4
    <3>2. i \notin 1 .. m
      BY <2>4, <3>1
    <3> QED
      BY <1>b, <2>1, <3>1, <3>2
  <2>5. ASSUME Queued(d, r), Sent(r) PROVE FALSE
    <3>1. PICK i \in 1 .. n - m : q[m + i].k = "fetch" /\ q[m + i].id = r
      BY <2>1, <2>5
    <3>2. PICK j \in 1 .. m : q[j].k = "fetch" /\ q[j].id = r
      BY <2>5
    <3>3. m + i = j
      BY <1>1, <1>a, <1>c, <3>1, <3>2 DEF Outstanding
    <3> QED
      BY <1>a, <3>2, <3>3
  <2> QED
    BY <2>3, <2>4, <2>5
<1>5. /\ c.replies \in Seq(Seq(D)) /\ k \in Nat /\ DOMAIN c.replies = 1 .. k
      /\ \A l \in 1 .. k + 1 : l = k + 1 \/ l \in 1 .. k
  <2>1. c.replies \in Seq(Seq(D)) /\ k \in Nat /\ DOMAIN c.replies = 1 .. k
    BY DEF Shaped
  <2> HIDE DEF k
  <2> QED
    BY <2>1
<1>d. /\ d.replies \in Seq(Seq(D)) /\ \A r : Owes(d, r) <=> Owes(c, r) \/ r \in ToSet(owners)
      /\ \/ d.replies = c.replies
         \/ DOMAIN d.replies = 1 .. k + 1 /\ d.replies[k + 1] = owners /\ \A l \in 1 .. k : d.replies[l] = c.replies[l]
  <2>1. CASE owners = <<>>
    <3>1. d.replies = c.replies
      BY <2>1
    <3>2. ToSet(owners) = {}
      BY <2>1 DEF ToSet
    <3> QED
      BY <1>5, <3>1, <3>2 DEF Owes
  <2>2. CASE owners # <<>>
    <3> DEFINE a == Append(c.replies, owners)
    <3>1. a \in Seq(Seq(D)) /\ DOMAIN a = 1 .. k + 1 /\ a[k + 1] = owners /\ \A l \in 1 .. k : a[l] = c.replies[l]
      BY <1>5
    <3>2. d.replies = a
      BY <2>2
    <3> HIDE DEF a, k, D
    <3>3. \A l \in 1 .. k + 1 : l = k + 1 \/ l \in 1 .. k
      BY <1>5
    <3>4. k + 1 \in 1 .. k + 1 /\ \A l \in 1 .. k : l \in 1 .. k + 1
      BY <1>5
    <3> QED
      BY <1>5, <3>1, <3>2, <3>3, <3>4 DEF Owes
  <2> QED
    BY <2>1, <2>2
<1>6. ASSUME NEW r PROVE r \in ToSet(owners) <=> r \in K \/ Sent(r)
  OBVIOUS
<1>7. /\ \A r \in D : rd[r].done <=> ~Queued(c, r) /\ ~Owes(c, r) /\ r \notin K
      /\ \A r \in D : ~(Queued(c, r) /\ Owes(c, r))
      /\ \A r \in K : r \in D /\ ~Queued(c, r) /\ ~Owes(c, r)
  BY DEF Outstanding
<1>8. \A i, j \in DOMAIN p : p[i].k = "fetch" /\ p[j].k = "fetch" /\ p[i].id = p[j].id => i = j
  <2> SUFFICES ASSUME NEW i \in DOMAIN p, NEW j \in DOMAIN p, p[i].k = "fetch", p[j].k = "fetch", p[i].id = p[j].id
               PROVE  i = j
    OBVIOUS
  <2>1. i \in 1 .. n - m /\ j \in 1 .. n - m /\ p[i] = q[m + i] /\ p[j] = q[m + j]
    BY ONLY <1>2, i \in DOMAIN p, j \in DOMAIN p
  <2>2. m + i \in DOMAIN q /\ m + j \in DOMAIN q /\ q[m + i].k = "fetch" /\ q[m + j].k = "fetch" /\ q[m + i].id = q[m + j].id
    BY <1>1, <1>a, <2>1
  <2>3. m + i = m + j
    BY <2>2 DEF Outstanding
  <2> QED
    BY <1>1, <2>1, <2>3
<1>9. \A r \in ToSet(owners) : r \in D /\ ~Owes(c, r)
  <2> SUFFICES ASSUME NEW r \in ToSet(owners) PROVE r \in D /\ ~Owes(c, r)
    OBVIOUS
  <2>1. r \in D
    BY DEF ToSet
  <2> QED
    BY <1>4, <1>6, <1>7, <2>1
<1>10. \A x, l \in DOMAIN d.replies : ToSet(d.replies[x]) \cap ToSet(d.replies[l]) # {} => x = l
  <2>1. \A x, l \in DOMAIN c.replies : ToSet(c.replies[x]) \cap ToSet(c.replies[l]) # {} => x = l
    BY DEF Outstanding
  <2>2. CASE d.replies = c.replies
    BY <2>1, <2>2
  <2>3. CASE DOMAIN d.replies = 1 .. k + 1 /\ d.replies[k + 1] = owners /\ \A l \in 1 .. k : d.replies[l] = c.replies[l]
    <3>2. \A l \in 1 .. k : ToSet(owners) \cap ToSet(c.replies[l]) = {}
      BY <1>5, <1>9 DEF Owes
    <3> HIDE DEF k
    <3>3. \A l \in 1 .. k : d.replies[l] = c.replies[l] /\ l \in DOMAIN c.replies
      BY <1>5, <2>3
    <3>4. \A x, l \in 1 .. k : ToSet(d.replies[x]) \cap ToSet(d.replies[l]) # {} => x = l
      BY <2>1, <3>3
    <3>5. \A l \in 1 .. k : ToSet(d.replies[k + 1]) \cap ToSet(d.replies[l]) = {} /\ ToSet(d.replies[l]) \cap ToSet(d.replies[k + 1]) = {}
      BY <2>3, <3>2, <3>3
    <3> QED
      BY <1>5, <2>3, <3>4, <3>5
  <2> QED
    BY <1>d, <2>2, <2>3
<1>11. Outstanding(d, rd, {})
  <2>1. ASSUME NEW r \in D
        PROVE  (rd[r].done <=> ~Queued(d, r) /\ ~Owes(d, r) /\ r \notin {}) /\ ~(Queued(d, r) /\ Owes(d, r))
    BY <1>4, <1>6, <1>7, <1>d
  <2> QED
    BY <1>8, <1>10, <2>1 DEF Outstanding, p
<1>12. \A i \in DOMAIN p : Fits(p[i], rd)
  BY <1>1, <1>2, <1>a
<1> QED
  BY <1>2, <1>11, <1>12, <1>d DEF p

\* A flush keeps the accounts, whatever it takes and whatever a request adds to it.
Asking(waiter, K, extra, rd) ==
  \/ waiter = <<>> /\ K = {} /\ extra = <<>>
  \/ \E x \in DOMAIN rd : waiter = <<x>> /\ K = {x} /\ rd[x].waiter

\* A flush keeps the accounts, and a read in hand is then noted behind the reads of its batch.
LEMMA FlushGood ==
  ASSUME NEW c, NEW w, NEW n \in Nat, NEW u, NEW rd, NEW K, Good(c, w, n, u, rd, K), c.direct = <<>>,
         NEW m \in 0 .. Len(c.queue), NEW extra, Adds(extra), NEW waiter, Asking(waiter, K, extra, rd)
  PROVE  /\ Good(Flush(c, m, extra, waiter), w, n, u, rd, {})
         /\ waiter = <<>> => Flush(c, m, extra, waiter).direct = <<>>
<1> DEFINE d == Flush(c, m, extra, waiter)
           reader == Consumers(Taking(c, m, extra))
           owners == Noted(Taking(c, m, extra), waiter)
           E == Batch(c, m, extra)
           D == DOMAIN rd
<1>1. /\ Shaped(c, w, rd) /\ Readable(rd) /\ Outstanding(c, rd, K) /\ Ordered(c, w, n, u, rd) /\ DOMAIN c = ClientFields
      /\ c.replies \in Seq(Seq(D)) /\ Whole(w) /\ Whole(c.sending) /\ Whole(c.outbox)
  BY DEF Good, Shaped
<1>b. Reading(reader, E, c.queue, m, extra, rd)
  BY <1>1, TakenAsks
<1>c. Flushes(d, c, m, E, owners, waiter)
  BY <1>1, FlushIs
<1>a. owners = reader \o waiter
  BY DEF Noted
<1> HIDE DEF d, reader, owners, E
<1>2. /\ reader \in Seq(D)
      /\ \/ Asked(E) = reader
         \/ Asked(E) = Append(reader, 0) /\ extra # <<>>
      /\ \A r : r \in ToSet(reader) <=> \E i \in 1 .. m : c.queue[i].k = "fetch" /\ c.queue[i].id = r
      /\ \A r \in ToSet(reader) : ~rd[r].waiter
  BY <1>b DEF Reading
<1>3. /\ DOMAIN d = ClientFields /\ d.sending = c.sending /\ d.queue = Left(c, m)
      /\ \/ owners = <<>> /\ SameMail(d, c)
         \/ \E message :
              /\ message.entries = E /\ message.reply = (owners # <<>>)
              /\ d.replies = (IF owners # <<>> THEN Append(c.replies, owners) ELSE c.replies)
              /\ Posts(d, c, waiter, message)
  BY <1>c DEF Flushes
<1>4. owners \in Seq(D) /\ \A message : message.entries = E => Owned(message, owners, rd)
  <2> SUFFICES ASSUME NEW message
               PROVE  owners \in Seq(D) /\ (message.entries = E => Owned(message, owners, rd))
    OBVIOUS
  <2>1. ASSUME NEW msg, Asked(msg.entries) = Asked(E) PROVE reader \o waiter \in Seq(D) /\ Owned(msg, reader \o waiter, rd)
    <3>1. \/ waiter = <<>> /\ Asked(msg.entries) = reader
          \/ /\ \E x \in D : waiter = <<x>> /\ rd[x].waiter
             /\ Asked(msg.entries) = reader \/ Asked(msg.entries) = Append(reader, 0)
      BY <1>2, <2>1 DEF Asking
    <3> QED
      BY ONLY <1>2, <3>1, NotedOwns
  <2>2. [entries |-> E].entries = E
    OBVIOUS
  <2> QED
    BY <1>a, <2>1, <2>2
<1>5. \A r : r \in ToSet(owners) <=> r \in K \/ \E i \in 1 .. m : c.queue[i].k = "fetch" /\ c.queue[i].id = r
  <2>1. \A r : r \in ToSet(owners) <=> r \in ToSet(reader) \/ r \in K
    <3>1. CASE waiter = <<>> /\ K = {}
      <4>1. owners = reader
        BY <1>2, <1>a, <3>1
      <4> QED
        BY <3>1, <4>1
    <3>2. ASSUME NEW x \in D, waiter = <<x>>, K = {x} PROVE \A r : r \in ToSet(owners) <=> r \in ToSet(reader) \/ r \in K
      <4>1. waiter \in Seq(D) /\ Range(waiter) = {x}
        BY <3>2 DEF Range
      <4>2. Range(reader \o waiter) = Range(reader) \cup Range(waiter)
        BY ONLY <1>2, <4>1, RangeConcatenation
      <4> QED
        BY <1>a, <3>2, <4>1, <4>2 DEF ToSet, Range
    <3> QED
      BY <3>1, <3>2 DEF Asking
  <2> QED
    BY <1>2, <2>1
<1>6. d.replies = (IF owners # <<>> THEN Append(c.replies, owners) ELSE c.replies)
  BY <1>3 DEF SameMail
<1>7. /\ Outstanding(d, rd, {}) /\ d.replies \in Seq(Seq(D))
      /\ Whole(d.queue) /\ \A i \in DOMAIN d.queue : Fits(d.queue[i], rd)
  <2>1. /\ Shaped(c, w, rd) /\ Outstanding(c, rd, K) /\ m \in 0 .. Len(c.queue) /\ d.queue = Left(c, m)
        /\ owners \in Seq(DOMAIN rd)
    BY <1>1, <1>3, <1>4
  <2> QED
    BY ONLY <2>1, <1>5, <1>6, FlushOutstanding
<1>8. CASE owners = <<>> /\ SameMail(d, c)
  <2>1. Pipe(d, w) = Pipe(c, w) /\ d.direct = <<>> /\ Whole(d.direct) /\ Whole(d.outbox) /\ d.replies = c.replies
    BY <1>1, <1>3, <1>8 DEF SameMail, Pipe, Shaped
  <2>2. Shaped(d, w, rd) /\ Ordered(d, w, n, u, rd)
    BY <1>1, <1>3, <1>7, <2>1 DEF Shaped, Ordered
  <2> QED
    BY <1>1, <1>7, <2>1, <2>2 DEF Good, d
<1>9. ASSUME NEW message, message.entries = E, message.reply = (owners # <<>>), Posts(d, c, waiter, message)
      PROVE  Good(d, w, n, u, rd, {}) /\ (waiter = <<>> => d.direct = <<>>)
  <2>1. /\ Pipe(d, w) = Append(Pipe(c, w), message) /\ Whole(Pipe(c, w))
        /\ Whole(d.direct) /\ Whole(d.outbox) /\ (waiter = <<>> => d.direct = <<>>)
    BY <1>1, <1>3, <1>9, PostedPipe
  <2>2. Shaped(d, w, rd)
    BY <1>1, <1>3, <1>7, <2>1 DEF Shaped
  <2>3. Whole(Replying(Pipe(c, w)))
        /\ Replying(Pipe(d, w)) = IF message.reply THEN Append(Replying(Pipe(c, w)), message) ELSE Replying(Pipe(c, w))
    BY <2>1, ReplyingAre
  <2>4. n <= Len(c.replies) /\ (u => Matched(Replying(Pipe(c, w)), c.replies, n, rd))
    BY <1>1 DEF Ordered
  <2>5. CASE owners = <<>>
    BY <1>1, <1>6, <1>7, <1>9, <2>1, <2>2, <2>3, <2>4, <2>5 DEF Good, Ordered
  <2>6. CASE owners # <<>>
    <3>1. Owned(message, owners, rd) /\ message.reply
      BY <1>4, <1>9, <2>6
    <3>2. u => Matched(Append(Replying(Pipe(c, w)), message), Append(c.replies, owners), n, rd)
      BY <1>1, <1>4, <2>3, <2>4, <3>1, MatchedMore
    <3>3. n <= Len(Append(c.replies, owners))
      <4>1. Len(Append(c.replies, owners)) = Len(c.replies) + 1 /\ Len(c.replies) \in Nat
        BY <1>1, <1>4
      <4> QED
        BY <2>4, <4>1
    <3>4. Ordered(d, w, n, u, rd)
      BY <1>6, <2>3, <2>6, <3>1, <3>2, <3>3 DEF Ordered
    <3> QED
      BY <1>1, <1>7, <2>1, <2>2, <3>4 DEF Good
  <2> QED
    BY <2>5, <2>6
<1> QED
  BY <1>3, <1>8, <1>9 DEF d

\* An entry queued: what wants no result leaves the accounts alone, a read in hand is now queued.
Adding(e, K, L, rd) ==
  \/ Plainly(e) /\ L = K
  \/ e.k = "fetch" /\ e.id \in K /\ ~rd[e.id].waiter /\ L = K \ {e.id}

\* An entry queued keeps the accounts, and a read in hand is then in the queue.
LEMMA QueuedGood ==
  ASSUME NEW c, NEW w, NEW n, NEW u, NEW rd, NEW K, Good(c, w, n, u, rd, K), NEW e, NEW L, Adding(e, K, L, rd),
         NEW d, DOMAIN d = ClientFields, d.queue = Append(c.queue, e), SameMail(d, c), d.sending = c.sending
  PROVE  Good(d, w, n, u, rd, L)
<1> DEFINE q == c.queue
           p == Append(q, e)
           k == Len(q)
           D == DOMAIN rd
<1>1. Shaped(c, w, rd) /\ Readable(rd) /\ Outstanding(c, rd, K) /\ Ordered(c, w, n, u, rd)
  BY DEF Good
<1>2. /\ Whole(q) /\ k \in Nat /\ DOMAIN q = 1 .. k /\ \A i \in 1 .. k : Fits(q[i], rd)
      /\ \A i \in 1 .. k + 1 : i = k + 1 \/ i \in 1 .. k
      /\ k + 1 \in 1 .. k + 1 /\ \A i \in 1 .. k : i \in 1 .. k + 1 /\ i # k + 1
  <2>1. Whole(q) /\ k \in Nat /\ DOMAIN q = 1 .. k /\ \A i \in 1 .. k : Fits(q[i], rd)
    BY <1>1, WholeIs DEF Shaped, Whole
  <2> HIDE DEF k
  <2> QED
    BY <2>1
<1>3. Whole(p) /\ DOMAIN p = 1 .. k + 1 /\ p[k + 1] = e /\ \A i \in 1 .. k : p[i] = q[i]
  <2>1. Whole(p) /\ Len(p) = k + 1 /\ p[k + 1] = e /\ \A i \in 1 .. k : p[i] = q[i]
    BY <1>2, WholeAppend
  <2>2. DOMAIN p = 1 .. Len(p)
    BY <2>1, WholeIs DEF Whole
  <2> QED
    BY <2>1, <2>2
<1>4. d.queue = p /\ d.replies = c.replies /\ d.outbox = c.outbox /\ d.direct = c.direct
  BY DEF SameMail
<1> HIDE DEF p, k
<1>5. \A r : Queued(d, r) <=> Queued(c, r) \/ (e.k = "fetch" /\ e.id = r)
  <2> SUFFICES ASSUME NEW r PROVE Queued(d, r) <=> Queued(c, r) \/ (e.k = "fetch" /\ e.id = r)
    OBVIOUS
  <2>1. Queued(d, r) <=> \E i \in 1 .. k + 1 : p[i].k = "fetch" /\ p[i].id = r
    BY <1>3, <1>4 DEF Queued
  <2>2. Queued(c, r) <=> \E i \in 1 .. k : q[i].k = "fetch" /\ q[i].id = r
    BY <1>2 DEF Queued
  <2> QED
    BY ONLY <1>2, <1>3, <2>1, <2>2
<1>6. \A r : Owes(d, r) <=> Owes(c, r)
  BY <1>4 DEF Owes
<1>a. Plainly(e) => e.k # "fetch"
  BY DEF Plainly, Wants
<1>b. e.k = "fetch" => e.id \in K /\ ~rd[e.id].waiter /\ L = K \ {e.id}
  BY <1>a DEF Adding
<1>c. e.k # "fetch" => L = K /\ Plainly(e)
  BY <1>a DEF Adding
<1>7. e.k = "fetch" => e.id \in D /\ ~Queued(c, e.id) /\ ~Owes(c, e.id)
  BY <1>1, <1>b DEF Outstanding
<1>8. Shaped(d, w, rd)
  <2>1. Fits(e, rd)
    BY <1>7, <1>b, <1>c DEF Fits
  <2>2. \A i \in DOMAIN p : Fits(p[i], rd)
    BY <1>2, <1>3, <2>1
  <2> QED
    BY <1>1, <1>3, <1>4, <2>2 DEF Shaped
<1>9. Outstanding(d, rd, L)
  <2>1. /\ \A r \in D : rd[r].done <=> ~Queued(c, r) /\ ~Owes(c, r) /\ r \notin K
        /\ \A r \in D : ~(Queued(c, r) /\ Owes(c, r))
        /\ \A r \in K : r \in D /\ ~Queued(c, r) /\ ~Owes(c, r)
    BY <1>1 DEF Outstanding
  <2>2. ASSUME NEW r \in D
        PROVE  (rd[r].done <=> ~Queued(d, r) /\ ~Owes(d, r) /\ r \notin L) /\ ~(Queued(d, r) /\ Owes(d, r))
    BY <1>5, <1>6, <1>7, <1>b, <1>c, <2>1
  <2>3. ASSUME NEW r \in L PROVE r \in D /\ ~Queued(d, r) /\ ~Owes(d, r)
    BY <1>5, <1>6, <1>b, <1>c, <2>1, <2>3
  <2>4. \A i, j \in DOMAIN p : p[i].k = "fetch" /\ p[j].k = "fetch" /\ p[i].id = p[j].id => i = j
    <3>1. \A i, j \in 1 .. k : p[i].k = "fetch" /\ p[j].k = "fetch" /\ p[i].id = p[j].id => i = j
      BY <1>1, <1>2, <1>3 DEF Outstanding
    <3>2. \A i \in 1 .. k : e.k = "fetch" /\ p[i].k = "fetch" => p[i].id # e.id
      BY <1>2, <1>3, <1>7 DEF Queued
    <3> QED
      BY <1>2, <1>3, <3>1, <3>2
  <2>5. \A x, l \in DOMAIN d.replies : ToSet(d.replies[x]) \cap ToSet(d.replies[l]) # {} => x = l
    BY <1>1, <1>4 DEF Outstanding
  <2> QED
    BY <1>4, <2>2, <2>3, <2>4, <2>5 DEF Outstanding
<1>10. Ordered(d, w, n, u, rd)
  BY <1>1, <1>4 DEF Ordered, Pipe
<1> QED
  BY <1>1, <1>8, <1>9, <1>10 DEF Good

\* All that is queued is sent, by whoever flushes.
LEMMA FlushAllGood ==
  ASSUME NEW c, NEW w, NEW n \in Nat, NEW u, NEW rd, NEW K, Good(c, w, n, u, rd, K), c.direct = <<>>,
         NEW extra, Adds(extra), NEW waiter, Asking(waiter, K, extra, rd)
  PROVE  /\ Good(FlushAll(c, extra, waiter), w, n, u, rd, {})
         /\ waiter = <<>> => FlushAll(c, extra, waiter).direct = <<>>
<1>1. Len(c.queue) \in 0 .. Len(c.queue)
  <2>1. Len(c.queue) \in Nat
    BY WholeIs DEF Good, Shaped, Whole
  <2> QED
    BY <2>1
<1> QED
  BY <1>1, FlushGood DEF FlushAll

\* A flush without a request.
LEMMA NothingAdds == Adds(<<>>) /\ \A rd : Asking(<<>>, {}, <<>>, rd)
<1>1. <<>> \in Seq({}) /\ Len(<<>>) = 0
  OBVIOUS
<1>2. Whole(<<>>)
  BY <1>1, WholeIs
<1>3. \A i \in 1 .. Len(<<>>) : FALSE
  OBVIOUS
<1> QED
  BY <1>2, <1>3 DEF Adds, Asking

\* _enqueue, whether it sends or not.
LEMMA EnqueueGood ==
  ASSUME NEW c, NEW w, NEW n \in Nat, NEW u, NEW rd, NEW K, Good(c, w, n, u, rd, K), c.direct = <<>>,
         NEW e, Adding(e, K, {}, rd), NEW check, NEW due
  PROVE  Good(Enqueue(c, e, check, due), w, n, u, rd, {}) /\ Enqueue(c, e, check, due).direct = <<>>
<1> DEFINE longer == [c EXCEPT !.queue = Append(@, e)]
<1>1. /\ DOMAIN longer = ClientFields /\ longer.queue = Append(c.queue, e) /\ SameMail(longer, c)
      /\ longer.sending = c.sending /\ longer.direct = <<>>
  BY DEF Good, Shaped, ClientFields, SameMail
<1>2. Enqueue(c, e, check, due) = longer \/ Enqueue(c, e, check, due) = FlushAll(longer, <<>>, <<>>)
  BY DEF Enqueue
<1> HIDE DEF longer
<1>3. Good(longer, w, n, u, rd, {})
  BY <1>1, QueuedGood
<1>4. Good(FlushAll(longer, <<>>, <<>>), w, n, u, rd, {}) /\ FlushAll(longer, <<>>, <<>>).direct = <<>>
  BY <1>1, <1>3, NothingAdds, FlushAllGood
<1> QED
  BY <1>1, <1>2, <1>3, <1>4

\* The last of some positions is one of them, so a flush is told a position of the queue.
LEMMA TopIn ==
  ASSUME NEW n \in Nat, NEW S \in SUBSET (0 .. n), S # {}
  PROVE  Top(S) \in S
<1> DEFINE T == {n - x : x \in S}
<1>1. T \subseteq Nat /\ T # {}
  <2>1. \A x \in S : x \in Int /\ x <= n
    OBVIOUS
  <2>2. \A x \in S : n - x \in Nat
    BY <2>1
  <2> QED
    BY <2>2
<1>2. PICK t \in T : \A v \in T : t <= v
  <2> HIDE DEF T
  <2> QED
    BY <1>1, LeastNat
<1>3. PICK x \in S : t = n - x
  BY <1>2
<1>4. \A y \in S : y <= x
  <2> SUFFICES ASSUME NEW y \in S PROVE y <= x
    OBVIOUS
  <2>1. x \in Int /\ y \in Int /\ n - y \in T
    OBVIOUS
  <2>2. n - x <= n - y
    BY <1>2, <1>3, <2>1
  <2> QED
    BY <2>1, <2>2
<1> QED
  BY <1>4 DEF Top

\* _dependency_cut is told a position of the queue.
LEMMA CutIn ==
  ASSUME NEW c, Whole(c.queue), NEW h
  PROVE  DependencyCut(c, h) \in 0 .. Len(c.queue)
<1> DEFINE n == Len(c.queue)
           S == {0} \union Stops(c, h)
<1>1. n \in Nat /\ DOMAIN c.queue = 1 .. n
  BY WholeIs DEF Whole
<1>2. Stops(c, h) \subseteq DOMAIN c.queue
  BY DEF Stops
<1> HIDE DEF n
<1>3. S \in SUBSET (0 .. n) /\ S # {}
  <2>1. 0 \in 0 .. n /\ \A i \in 1 .. n : i \in 0 .. n
    BY <1>1
  <2> QED
    BY <1>1, <1>2, <2>1
<1> HIDE DEF S
<1>4. Top(S) \in 0 .. n
  BY <1>1, <1>3, TopIn
<1>5. n \in 0 .. n
  BY <1>1
<1>6. DependencyCut(c, h) = n \/ DependencyCut(c, h) = Top(S)
  BY DEF DependencyCut, n, S
<1> QED
  BY <1>4, <1>5, <1>6 DEF n

\* _flush(through=...), whether the read is still queued or not.
LEMMA FlushThroughGood ==
  ASSUME NEW c, NEW w, NEW n \in Nat, NEW u, NEW rd, Good(c, w, n, u, rd, {}), c.direct = <<>>, NEW r
  PROVE  Good(FlushThrough(c, r), w, n, u, rd, {}) /\ FlushThrough(c, r).direct = <<>>
<1> DEFINE S == {i \in DOMAIN c.queue : c.queue[i].k = "fetch" /\ c.queue[i].id = r}
           d == [c EXCEPT !.dead = @ \union c.released]
           k == Len(c.queue)
<1>1. FlushThrough(c, r) = IF S = {} THEN d ELSE Flush(c, Top(S), <<>>, <<>>)
  BY DEF FlushThrough
<1>2. Alike(d, c)
  BY DEF Good, Shaped, Alike, ClientFields
<1>3. k \in Nat /\ DOMAIN c.queue = 1 .. k
  BY WholeIs DEF Good, Shaped, Whole
<1> HIDE DEF d, k
<1>4. S \in SUBSET (0 .. k)
  <2>1. \A i \in 1 .. k : i \in 0 .. k
    BY <1>3
  <2> QED
    BY <1>3, <2>1
<1> HIDE DEF S
<1>5. CASE S = {}
  BY <1>1, <1>2, <1>5, AlikeGood DEF Alike
<1>6. CASE S # {}
  <2>1. Top(S) \in 0 .. k
    BY <1>3, <1>4, <1>6, TopIn
  <2> QED
    BY <1>1, <1>6, <2>1, NothingAdds, FlushGood DEF k
<1> QED
  BY <1>5, <1>6

\* The reads may change as long as who waits for what stays.
LEMMA OwnedStill ==
  ASSUME NEW rd, NEW more, DOMAIN rd \subseteq DOMAIN more, \A r \in DOMAIN rd : more[r].waiter = rd[r].waiter,
         NEW message, NEW owners \in Seq(DOMAIN rd), Owned(message, owners, rd)
  PROVE  Owned(message, owners, more)
<1>1. \A i \in DOMAIN owners : more[owners[i]].waiter = rd[owners[i]].waiter
  OBVIOUS
<1> QED
  BY <1>1 DEF Owned

\* Reads may be added, as long as who waits for what stays.
LEMMA OtherReads ==
  ASSUME NEW c, NEW w, NEW n \in Nat, NEW u, NEW rd, Shaped(c, w, rd), Ordered(c, w, n, u, rd),
         NEW more, DOMAIN rd \subseteq DOMAIN more, \A r \in DOMAIN rd : more[r].waiter = rd[r].waiter
  PROVE  Shaped(c, w, more) /\ Ordered(c, w, n, u, more)
<1>1. Shaped(c, w, more)
  <2>1. Seq(DOMAIN rd) \subseteq Seq(DOMAIN more)
    BY SeqMonotonic
  <2>2. c.replies \in Seq(Seq(DOMAIN more))
    BY <2>1, SeqMonotonic DEF Shaped
  <2>3. \A i \in DOMAIN c.queue : Fits(c.queue[i], more)
    BY DEF Shaped, Fits
  <2> QED
    BY <2>2, <2>3 DEF Shaped
<1>2. ASSUME u PROVE Matched(Replying(Pipe(c, w)), c.replies, n, more)
  <2> DEFINE asking == Replying(Pipe(c, w))
             p == c.replies
             k == Len(asking)
  <2>1. Len(p) = n + k /\ \A i \in 1 .. k : Owned(asking[i], p[n + i], rd)
    BY <1>2 DEF Ordered, Matched
  <2>2. p \in Seq(Seq(DOMAIN rd)) /\ Len(p) \in Nat
    BY DEF Shaped
  <2> HIDE DEF asking, p
  <2>3. \A i \in 1 .. k : p[n + i] \in Seq(DOMAIN rd)
    <3>1. \A i \in 1 .. k : n + i \in 1 .. Len(p)
      BY <2>1, <2>2
    <3> QED
      BY <2>2, <3>1
  <2>4. \A i \in 1 .. k : Owned(asking[i], p[n + i], more)
    BY <2>1, <2>3, OwnedStill
  <2> QED
    BY <2>1, <2>4 DEF Matched, asking, p
<1> QED
  BY <1>1, <1>2 DEF Ordered

\* A read begins in hand.
Begun(read) == DOMAIN read = ReadFields /\ read.done = FALSE /\ read.waiter \in BOOLEAN
InHand(c, w, n, u, rd, r, read) == Good(c, w, n, u, rd, {r}) /\ r \in DOMAIN rd /\ rd[r] = read

\* A read that is begun is in hand and nowhere else.
LEMMA NewRead ==
  ASSUME NEW c, NEW w, NEW n \in Nat, NEW u, NEW rd, Good(c, w, n, u, rd, {}),
         NEW read, Begun(read), NEW more, more = Append(rd, read)
  PROVE  InHand(c, w, n, u, more, Len(rd) + 1, read)
<1> DEFINE k == Len(rd)
<1>a. DOMAIN read = ReadFields /\ read.done = FALSE /\ read.waiter \in BOOLEAN
  BY DEF Begun
<1>1. Shaped(c, w, rd) /\ Readable(rd) /\ Outstanding(c, rd, {}) /\ Ordered(c, w, n, u, rd)
  BY DEF Good
<1>2. Whole(rd) /\ k \in Nat /\ DOMAIN rd = 1 .. k
  BY <1>1, WholeIs DEF Readable, Whole
<1>3. Whole(more) /\ DOMAIN more = 1 .. k + 1 /\ more[k + 1] = read /\ \A r \in 1 .. k : more[r] = rd[r]
  <2>1. Whole(more) /\ Len(more) = k + 1 /\ more[k + 1] = read /\ \A r \in 1 .. k : more[r] = rd[r]
    BY <1>2, WholeAppend
  <2>2. DOMAIN more = 1 .. Len(more)
    BY <2>1, WholeIs DEF Whole
  <2> QED
    BY <2>1, <2>2
<1>4. /\ \A r \in 1 .. k + 1 : r = k + 1 \/ r \in 1 .. k
      /\ k + 1 \in 1 .. k + 1 /\ k + 1 \notin 1 .. k /\ \A r \in 1 .. k : r \in 1 .. k + 1 /\ r # k + 1
  <2> HIDE DEF k
  <2> QED
    BY <1>2
<1> HIDE DEF k
<1>5. Shaped(c, w, more) /\ Ordered(c, w, n, u, more)
  BY <1>1, <1>2, <1>3, <1>4, OtherReads
<1>6. Readable(more)
  BY <1>1, <1>2, <1>3, <1>4, <1>a DEF Readable
<1>7. ~Queued(c, k + 1) /\ ~Owes(c, k + 1)
  <2>1. ~Queued(c, k + 1)
    BY <1>1, <1>2, <1>4, FitsIs DEF Queued, Shaped
  <2>2. ASSUME Owes(c, k + 1) PROVE FALSE
    <3>1. PICK l \in DOMAIN c.replies : k + 1 \in ToSet(c.replies[l])
      BY <2>2 DEF Owes
    <3>2. c.replies[l] \in Seq(1 .. k)
      BY <1>1, <1>2 DEF Shaped
    <3>3. k + 1 \in 1 .. k
      <4> DEFINE owners == c.replies[l]
      <4>1. owners \in Seq(1 .. k) /\ k + 1 \in ToSet(owners)
        BY <3>1, <3>2
      <4> HIDE DEF owners
      <4>2. PICK j \in DOMAIN owners : owners[j] = k + 1
        BY <4>1 DEF ToSet
      <4> DEFINE D == 1 .. k
      <4>3. owners \in Seq(D)
        BY <4>1
      <4> HIDE DEF D
      <4>4. owners[j] \in D
        BY <4>2, <4>3
      <4> QED
        BY <4>2, <4>4 DEF D
    <3> QED
      BY <1>4, <3>3
  <2> QED
    BY <2>1, <2>2
<1>8. Outstanding(c, more, {k + 1})
  <2>1. ASSUME NEW r \in 1 .. k + 1
        PROVE  /\ more[r].done <=> ~Queued(c, r) /\ ~Owes(c, r) /\ r \notin {k + 1}
               /\ ~(Queued(c, r) /\ Owes(c, r))
    <3>1. CASE r = k + 1
      BY <1>3, <1>7, <1>a, <3>1
    <3>2. CASE r \in 1 .. k
      BY <1>1, <1>2, <1>3, <1>4, <3>2 DEF Outstanding
    <3> QED
      BY <1>4, <3>1, <3>2
  <2> QED
    BY <1>1, <1>3, <1>4, <1>7, <2>1 DEF Outstanding
<1> QED
  BY <1>3, <1>4, <1>5, <1>6, <1>8 DEF Good, InHand, k

\* What the reads are worth may change.
LEMMA ValuesGood ==
  ASSUME NEW c, NEW w, NEW n \in Nat, NEW u, NEW rd, NEW K, Good(c, w, n, u, rd, K),
         NEW more, Readable(more), DOMAIN more = DOMAIN rd,
         \A r \in DOMAIN rd : more[r].waiter = rd[r].waiter /\ more[r].done = rd[r].done
  PROVE  Good(c, w, n, u, more, K)
<1>1. Shaped(c, w, more) /\ Ordered(c, w, n, u, more)
  BY OtherReads DEF Good
<1>2. Outstanding(c, more, K)
  BY DEF Good, Outstanding
<1> QED
  BY <1>1, <1>2 DEF Good

\* The messages on their way are a sequence.
LEMMA PipeWhole ==
  ASSUME NEW c, NEW w, NEW rd, Shaped(c, w, rd)
  PROVE  Whole(Pipe(c, w))
<1>1. Whole(w) /\ Whole(c.direct) /\ Whole(c.sending) /\ Whole(c.outbox)
  BY DEF Shaped
<1> QED
  BY <1>1, WholeJoins DEF Pipe

\* A reply taken: the oldest readers have it, and the replies behind it move up.
LEMMA ReceivedGood ==
  ASSUME NEW c, NEW w, NEW n \in Nat \ {0}, NEW u, NEW rd, Good(c, w, n, u, rd, {}),
         NEW d, DOMAIN d = ClientFields, d.queue = c.queue, d.outbox = c.outbox, d.sending = c.sending,
         d.direct = c.direct, d.replies = Tail(c.replies),
         NEW more, Readable(more), DOMAIN more = DOMAIN rd,
         \A r \in DOMAIN rd : /\ more[r].waiter = rd[r].waiter
                              /\ more[r].done = (rd[r].done \/ r \in ToSet(Head(c.replies)))
  PROVE  Good(d, w, n - 1, u, more, {})
<1> DEFINE p == c.replies
           t == Tail(c.replies)
           k == Len(p)
           owners == Head(p)
           D == DOMAIN rd
<1>1. Shaped(c, w, rd) /\ Readable(rd) /\ Outstanding(c, rd, {}) /\ Ordered(c, w, n, u, rd)
  BY DEF Good
<1>2. p \in Seq(Seq(D)) /\ k \in Nat /\ DOMAIN p = 1 .. k /\ n <= k /\ k # 0
  <2>1. p \in Seq(Seq(D)) /\ k \in Nat /\ DOMAIN p = 1 .. k /\ n <= k
    BY <1>1 DEF Shaped, Ordered
  <2> HIDE DEF k
  <2> QED
    BY <2>1
<1>3. t \in Seq(Seq(D)) /\ Len(t) = k - 1 /\ DOMAIN t = 1 .. k - 1 /\ (\A i \in 1 .. k - 1 : t[i] = p[i + 1]) /\ owners = p[1]
  <2> DEFINE T == Seq(D)
  <2>1. p \in Seq(T) /\ p # <<>>
    BY <1>2
  <2> HIDE DEF T
  <2>2. t \in Seq(T) /\ Len(t) = k - 1 /\ DOMAIN t = 1 .. k - 1 /\ (\A i \in 1 .. k - 1 : t[i] = p[i + 1]) /\ owners = p[1]
    BY <1>2, <2>1
  <2> QED
    BY <2>2 DEF T
<1>4. d.replies = t
  OBVIOUS
<1> HIDE DEF p, t, k, owners
<1>5. /\ \A i \in 1 .. k - 1 : i + 1 \in 1 .. k /\ i + 1 # 1
      /\ \A i \in 1 .. k : i = 1 \/ (i - 1 \in 1 .. k - 1 /\ (i - 1) + 1 = i)
      /\ 1 \in 1 .. k
  BY <1>2
<1>6. \A r : Queued(d, r) <=> Queued(c, r)
  BY DEF Queued
<1>7. \A r : (Owes(c, r) <=> Owes(d, r) \/ r \in ToSet(owners)) /\ ~(Owes(d, r) /\ r \in ToSet(owners))
  <2> SUFFICES ASSUME NEW r
               PROVE  (Owes(c, r) <=> Owes(d, r) \/ r \in ToSet(owners)) /\ ~(Owes(d, r) /\ r \in ToSet(owners))
    OBVIOUS
  <2>1. Owes(c, r) <=> \E i \in 1 .. k : r \in ToSet(p[i])
    BY <1>2 DEF Owes, p
  <2>2. Owes(d, r) <=> \E i \in 1 .. k - 1 : r \in ToSet(p[i + 1])
    BY <1>3, <1>4 DEF Owes
  <2>3. Owes(c, r) <=> Owes(d, r) \/ r \in ToSet(owners)
    BY <1>3, <1>5, <2>1, <2>2
  <2>4. ASSUME Owes(d, r), r \in ToSet(owners) PROVE FALSE
    <3>1. PICK i \in 1 .. k - 1 : r \in ToSet(p[i + 1])
      BY <2>2, <2>4
    <3>2. i + 1 = 1
      BY <1>1, <1>2, <1>3, <1>5, <2>4, <3>1 DEF Outstanding, p
    <3> QED
      BY <1>5, <3>2
  <2> QED
    BY <2>3, <2>4
<1>8. Outstanding(d, more, {})
  <2>1. /\ \A r \in D : rd[r].done <=> ~Queued(c, r) /\ ~Owes(c, r)
        /\ \A r \in D : ~(Queued(c, r) /\ Owes(c, r))
    BY <1>1 DEF Outstanding
  <2>2. ASSUME NEW r \in D
        PROVE  (more[r].done <=> ~Queued(d, r) /\ ~Owes(d, r) /\ r \notin {}) /\ ~(Queued(d, r) /\ Owes(d, r))
    <3>1. more[r].done = (rd[r].done \/ r \in ToSet(owners))
      BY DEF owners, p
    <3>2. more[r].done \in BOOLEAN /\ rd[r].done \in BOOLEAN
      BY <1>1 DEF Readable
    <3>3. more[r].done <=> rd[r].done \/ r \in ToSet(owners)
      BY <3>1, <3>2
    <3> QED
      BY <1>6, <1>7, <2>1, <3>3
  <2>3. \A i, j \in DOMAIN d.queue : d.queue[i].k = "fetch" /\ d.queue[j].k = "fetch" /\ d.queue[i].id = d.queue[j].id => i = j
    BY <1>1 DEF Outstanding
  <2>4. \A i, j \in 1 .. k - 1 : ToSet(t[i]) \cap ToSet(t[j]) # {} => i = j
    <3> SUFFICES ASSUME NEW i \in 1 .. k - 1, NEW j \in 1 .. k - 1, ToSet(t[i]) \cap ToSet(t[j]) # {} PROVE i = j
      OBVIOUS
    <3>1. i + 1 \in DOMAIN p /\ j + 1 \in DOMAIN p /\ t[i] = p[i + 1] /\ t[j] = p[j + 1]
      BY <1>2, <1>3, <1>5
    <3>2. \A x, l \in DOMAIN p : ToSet(p[x]) \cap ToSet(p[l]) # {} => x = l
      BY <1>1 DEF Outstanding, p
    <3>3. i + 1 = j + 1
      BY <3>1, <3>2
    <3> QED
      BY <1>2, <3>3
  <2> QED
    BY <1>3, <1>4, <2>2, <2>3, <2>4 DEF Outstanding
<1>9. Ordered(d, w, n - 1, u, rd)
  <2> DEFINE asking == Replying(Pipe(c, w))
             a == Len(asking)
  <2>1. u => k = n + a /\ \A i \in 1 .. a : Owned(asking[i], p[n + i], rd)
    BY <1>1 DEF Ordered, Matched, p, k
  <2>2. Pipe(d, w) = Pipe(c, w)
    BY DEF Pipe
  <2>3. n - 1 <= Len(d.replies)
    <3>1. Len(d.replies) = k - 1
      BY <1>3, <1>4
    <3>2. n - 1 <= k - 1
      BY <1>2
    <3> QED
      BY <3>1, <3>2
  <2>4. a \in Nat
    <3>2. Whole(Pipe(c, w))
      BY <1>1, PipeWhole
    <3>3. Whole(asking)
      BY <3>2, ReplyingAre
    <3> QED
      BY <3>3, WholeIs DEF Whole
  <2> HIDE DEF asking, a
  <2>5. ASSUME u PROVE Matched(asking, t, n - 1, rd)
    <3>1. k = n + a
      BY <2>1, <2>5
    <3>2. Len(t) = (n - 1) + a
      BY <1>2, <1>3, <2>4, <3>1
    <3>3. ASSUME NEW i \in 1 .. a PROVE Owned(asking[i], t[(n - 1) + i], rd)
      <4>1. (n - 1) + i \in 1 .. k - 1 /\ ((n - 1) + i) + 1 = n + i
        BY <1>2, <2>4, <3>1
      <4>2. t[(n - 1) + i] = p[n + i]
        BY <1>3, <4>1
      <4> QED
        BY <2>1, <2>5, <4>2
    <3> QED
      BY <3>2, <3>3 DEF Matched, a
  <2> QED
    BY <1>4, <2>2, <2>3, <2>5 DEF Ordered, asking
<1>10. Shaped(d, w, rd)
  BY <1>1, <1>3, <1>4 DEF Shaped
<1>11. n - 1 \in Nat
  OBVIOUS
<1>12. Shaped(d, w, more) /\ Ordered(d, w, n - 1, u, more)
  BY <1>9, <1>10, <1>11, OtherReads
<1> QED
  BY <1>8, <1>12 DEF Good

-----------------------------------------------------------------------------
\* The messages on their way, as the threads hand them on.
LEMMA HeadJoined ==
  ASSUME NEW S, NEW e \in S, NEW s \in Seq(S)
  PROVE  Head(<<e>> \o s) = e /\ Tail(<<e>> \o s) = s /\ <<e>> \o s # <<>>
<1> DEFINE r == <<e>> \o s
<1>1. /\ r \in Seq(S) /\ Len(r) = 1 + Len(s) /\ r[1] = e /\ Len(s) \in Nat
      /\ \A i \in 1 .. Len(s) : r[i + 1] = s[i]
  <2>1. <<e>> \in Seq(S) /\ Len(<<e>>) = 1 /\ <<e>>[1] = e /\ Len(s) \in Nat
    OBVIOUS
  <2>2. /\ r \in Seq(S) /\ Len(r) = 1 + Len(s) /\ r[1] = e
    BY <2>1
  <2>3. ASSUME NEW i \in 1 .. Len(s) PROVE r[i + 1] = s[i]
    BY <2>1
  <2> QED
    BY <2>1, <2>2, <2>3
<1> HIDE DEF r
<1>2. r # <<>> /\ Head(r) = r[1]
  BY <1>1, EmptySeq
<1>3. Tail(r) \in Seq(S) /\ Len(Tail(r)) = Len(r) - 1 /\ \A i \in 1 .. Len(r) - 1 : Tail(r)[i] = r[i + 1]
  BY <1>1, <1>2, HeadTailProperties
<1>4. Len(Tail(r)) = Len(s) /\ \A i \in 1 .. Len(s) : Tail(r)[i] = s[i]
  <2>1. Len(r) - 1 = Len(s)
    BY <1>1
  <2> QED
    BY <1>1, <1>3, <2>1
<1>5. Tail(r) = s
  BY <1>3, <1>4, SeqEqual
<1> QED
  BY <1>1, <1>2, <1>5 DEF r

LEMMA InOne ==
  ASSUME NEW w, Whole(w), NEW p, Whole(p), NEW q, Whole(q)
  PROVE  \E S : w \in Seq(S) /\ p \in Seq(S) /\ q \in Seq(S)
<1> DEFINE S == ToSet(w) \cup ToSet(p) \cup ToSet(q)
<1>1. w \in Seq(ToSet(w)) /\ p \in Seq(ToSet(p)) /\ q \in Seq(ToSet(q))
  BY DEF Whole
<1>2. ToSet(w) \subseteq S /\ ToSet(p) \subseteq S /\ ToSet(q) \subseteq S
  OBVIOUS
<1> HIDE DEF S
<1>3. w \in Seq(S) /\ p \in Seq(S) /\ q \in Seq(S)
  BY <1>1, <1>2, SeqMonotonic
<1> QED
  BY <1>3

\* Nothing before or behind a sequence adds nothing.
LEMMA Joined ==
  ASSUME NEW w, Whole(w), NEW p, Whole(p)
  PROVE  w \o <<>> = w /\ <<>> \o w = w /\ Whole(<<>>) /\ Whole(w \o p)
<1>1. PICK S : w \in Seq(S) /\ p \in Seq(S)
  BY InOne
<1>2. w \o <<>> = w /\ <<>> \o w = w /\ w \o p \in Seq(S) /\ <<>> \in Seq(S)
  BY <1>1
<1> QED
  BY <1>2, WholeIs

\* The head and the rest of a sequence another is put behind.
HeadOf(r, w, p) == r # <<>> /\ Head(r) = Head(w) /\ Tail(r) = Tail(w) \o p /\ Whole(r)

\* A sequence is its head before its tail.
LEMMA JoinedHead ==
  ASSUME NEW w, Whole(w), w # <<>>, NEW p, Whole(p)
  PROVE  /\ Whole(Tail(w)) /\ Whole(<<Head(w)>>) /\ <<Head(w)>> \o Tail(w) = w /\ HeadOf(w \o p, w, p)
<1>1. PICK S : w \in Seq(S) /\ p \in Seq(S)
  BY InOne
<1>0. \A x, y, z \in Seq(S) : (x \o y) \o z = x \o (y \o z)
  BY ONLY Regroup
<1> DEFINE one == <<Head(w)>>
           t == Tail(w)
<1>2. Head(w) \in S /\ t \in Seq(S)
  BY <1>1, HeadTailProperties
<1>3. one \in Seq(S) /\ one \o t = w
  <2>1. one \in Seq(S) /\ Len(one) = 1 /\ one[1] = w[1] /\ Head(w) = w[1]
    BY <1>2
  <2>2. Len(t) = Len(w) - 1 /\ Len(w) \in Nat \ {0} /\ \A i \in 1 .. Len(w) - 1 : t[i] = w[i + 1]
    BY <1>1, HeadTailProperties, EmptySeq
  <2> DEFINE v == one \o t
  <2>a. Whole(one) /\ Whole(t)
    BY <1>2, <2>1, WholeIs
  <2> HIDE DEF one, t
  <2>b. JoinOf(one \o t, one, t) /\ one \o t \in Seq(S)
    BY <1>2, <2>1, <2>a, JoinsAre
  <2>3. v \in Seq(S) /\ Len(v) = 1 + Len(t) /\ v[1] = one[1] /\ \A i \in 1 .. Len(t) : v[1 + i] = t[i]
    <3> HIDE DEF v
    <3>1. JoinOf(v, one, t) /\ v \in Seq(S)
      BY <2>b DEF v
    <3>2. 1 \in 1 .. Len(one)
      BY <2>1
    <3> QED
      BY <2>1, <3>1, <3>2 DEF JoinOf
  <2> HIDE DEF v
  <2>4. \A i \in 1 .. Len(w) : v[i] = w[i]
    <3> SUFFICES ASSUME NEW i \in 1 .. Len(w) PROVE v[i] = w[i]
      OBVIOUS
    <3>1. CASE i = 1
      BY <2>1, <2>3, <3>1
    <3>2. CASE i # 1
      <4>1. i - 1 \in 1 .. Len(t) /\ i - 1 \in 1 .. Len(w) - 1 /\ (i - 1) + 1 = i /\ 1 + (i - 1) = i
        BY <2>2, <3>2
      <4>2. v[i] = t[i - 1]
        BY <2>3, <4>1
      <4> QED
        BY <2>2, <4>1, <4>2
    <3> QED
      BY <3>1, <3>2
  <2>5. Len(w) \in Nat /\ Len(v) = Len(w)
    BY <2>2, <2>3
  <2>6. v = w
    BY <1>1, <2>3, <2>4, <2>5, SeqEqual
  <2> QED
    BY <2>1, <2>6 DEF v
<1>4. w \o p = one \o (t \o p)
  <2>1. one \in Seq(S) /\ t \in Seq(S) /\ p \in Seq(S)
    BY <1>1, <1>2, <1>3
  <2> HIDE DEF one, t
  <2>2. (one \o t) \o p = one \o (t \o p)
    BY ONLY <1>0, <2>1, Zenon
  <2>3. one \o t = w
    BY <1>3
  <2> QED
    BY ONLY <2>2, <2>3, Zenon
<1> DEFINE rest == t \o p
<1>5. rest \in Seq(S)
  BY <1>1, <1>2
<1> HIDE DEF rest
<1>6. \A e \in S, s \in Seq(S) : Head(<<e>> \o s) = e /\ Tail(<<e>> \o s) = s /\ <<e>> \o s # <<>>
  BY HeadJoined
<1>7. Head(w \o p) = Head(w) /\ Tail(w \o p) = rest /\ w \o p # <<>>
  BY <1>2, <1>4, <1>5, <1>6 DEF rest
<1>8. Whole(w \o p)
  <2>1. w \o p \in Seq(S)
    BY <1>1
  <2> QED
    BY <2>1, WholeIs
<1> QED
  BY <1>2, <1>3, <1>7, <1>8, WholeIs DEF rest, HeadOf

\* A client whose queue and notes are untouched keeps its accounts when what is on its way does.
LEMMA MailGood ==
  ASSUME NEW c, NEW w, NEW n, NEW u, NEW rd, NEW K, Good(c, w, n, u, rd, K),
         NEW d, DOMAIN d = ClientFields, d.queue = c.queue, d.replies = c.replies,
         NEW v, Whole(v), Whole(d.direct), Whole(d.sending), Whole(d.outbox),
         NEW m, NEW on, m <= Len(c.replies), on => Matched(Replying(Pipe(d, v)), c.replies, m, rd)
  PROVE  Good(d, v, m, on, rd, K)
<1>1. (\A r : Queued(d, r) <=> Queued(c, r)) /\ (\A r : Owes(d, r) <=> Owes(c, r))
  BY DEF Queued, Owes
<1>2. Outstanding(d, rd, K)
  BY <1>1 DEF Good, Outstanding
<1>3. Shaped(d, v, rd) /\ Ordered(d, v, m, on, rd)
  BY DEF Good, Shaped, Ordered
<1> QED
  BY <1>2, <1>3 DEF Good

\* What the client sends itself goes to the wire, or is lost with the channel.
LEMMA PutsGood ==
  ASSUME NEW c, NEW w, NEW n, NEW u, NEW rd, NEW K, Good(c, w, n, u, rd, K),
         NEW d, DOMAIN d = ClientFields, d.queue = c.queue, d.replies = c.replies, d.outbox = c.outbox,
         d.sending = c.sending, d.direct = <<>>, NEW v, v = (IF u THEN w \o c.direct ELSE w)
  PROVE  Good(d, v, n, u, rd, K)
<1>1. /\ Whole(w) /\ Whole(c.direct) /\ Whole(c.sending) /\ Whole(c.outbox) /\ n <= Len(c.replies)
      /\ u => Matched(Replying(Pipe(c, w)), c.replies, n, rd)
  BY DEF Good, Shaped, Ordered
<1>2. Whole(<<>>) /\ Whole(w \o c.direct)
  BY <1>1, Joined
<1>3. (w \o c.direct) \o <<>> = w \o c.direct
  BY <1>2, Joined
<1>4. u => Pipe(d, v) = Pipe(c, w)
  BY <1>3 DEF Pipe
<1>5. Whole(v)
  BY <1>1, <1>2
<1> QED
  BY <1>1, <1>2, <1>4, <1>5, MailGood

\* The sender takes the oldest message, and has written it when the write returns.
LEMMA SendTakeGood ==
  ASSUME NEW c, NEW w, NEW n, NEW u, NEW rd, NEW K, Good(c, w, n, u, rd, K), c.outbox # <<>>, c.sending = <<>>,
         NEW d, DOMAIN d = ClientFields, d.queue = c.queue, d.replies = c.replies, d.direct = c.direct,
         d.outbox = Tail(c.outbox), d.sending = <<Head(c.outbox)>>
  PROVE  Good(d, w, n, u, rd, K)
<1>1. /\ Whole(w) /\ Whole(c.direct) /\ Whole(c.outbox) /\ n <= Len(c.replies)
      /\ u => Matched(Replying(Pipe(c, w)), c.replies, n, rd)
  BY DEF Good, Shaped, Ordered
<1>2. Whole(w \o c.direct)
  BY <1>1, Joined
<1>3. Whole(Tail(c.outbox)) /\ Whole(<<Head(c.outbox)>>) /\ <<Head(c.outbox)>> \o Tail(c.outbox) = c.outbox
  BY <1>1, JoinedHead
<1>4. Pipe(d, w) = Pipe(c, w)
  <2> DEFINE front == w \o c.direct
             one == <<Head(c.outbox)>>
             t == Tail(c.outbox)
  <2>1. front \o <<>> = front
    BY <1>2, Joined
  <2>2. (front \o one) \o t = front \o (one \o t)
    <3>1. Whole(front) /\ Whole(one) /\ Whole(t)
      BY <1>2, <1>3
    <3> HIDE DEF front, one, t
    <3> QED
      <4>1. PICK S : front \in Seq(S) /\ one \in Seq(S) /\ t \in Seq(S)
        BY <3>1, InOne
      <4>2. \A x, y, z \in Seq(S) : (x \o y) \o z = x \o (y \o z)
        BY ONLY Regroup
      <4> QED
        BY ONLY <4>1, <4>2, Zenon
  <2> QED
    BY <1>3, <2>1, <2>2 DEF Pipe
<1> QED
  BY <1>1, <1>3, <1>4, MailGood

\* What was being sent is on the wire, or is lost with the channel.
LEMMA SendDoneGood ==
  ASSUME NEW c, NEW w, NEW n, NEW u, NEW rd, NEW K, Good(c, w, n, u, rd, K), c.direct = <<>>,
         NEW d, DOMAIN d = ClientFields, d.queue = c.queue, d.replies = c.replies, d.direct = <<>>,
         d.outbox = c.outbox, d.sending = <<>>, NEW v, v = (IF u THEN w \o c.sending ELSE w)
  PROVE  Good(d, v, n, u, rd, K)
<1>1. /\ Whole(w) /\ Whole(c.sending) /\ Whole(c.outbox) /\ n <= Len(c.replies)
      /\ u => Matched(Replying(Pipe(c, w)), c.replies, n, rd)
  BY DEF Good, Shaped, Ordered
<1>2. Whole(<<>>) /\ Whole(w \o c.sending) /\ w \o <<>> = w
  BY <1>1, Joined
<1>3. (w \o c.sending) \o <<>> = w \o c.sending
  BY <1>2, Joined
<1>4. u => Pipe(d, v) = Pipe(c, w)
  BY <1>2, <1>3 DEF Pipe
<1>5. Whole(v)
  BY <1>1, <1>2
<1> QED
  BY <1>1, <1>2, <1>4, <1>5, MailGood

\* A message that wants no answer is nobody's.
LEMMA LastGood ==
  ASSUME NEW c, NEW w, NEW n, NEW u, NEW rd, NEW K, Good(c, w, n, u, rd, K), NEW message, ~message.reply,
         NEW d, DOMAIN d = ClientFields, d.queue = c.queue, d.replies = c.replies, d.direct = c.direct,
         d.outbox = Append(c.outbox, message), d.sending = c.sending
  PROVE  Good(d, w, n, u, rd, K)
<1> DEFINE front == (w \o c.direct) \o c.sending
<1>1. /\ Whole(w) /\ Whole(c.direct) /\ Whole(c.sending) /\ Whole(c.outbox) /\ n <= Len(c.replies)
      /\ u => Matched(Replying(Pipe(c, w)), c.replies, n, rd)
  BY DEF Good, Shaped, Ordered
<1>2. Whole(w \o c.direct)
  BY <1>1, Joined
<1>3. Whole(front)
  BY <1>1, <1>2, Joined
<1>4. Whole(front \o c.outbox)
  BY <1>1, <1>3, Joined
<1>5. Whole(d.outbox)
  BY <1>1, WholeAppend
<1> HIDE DEF front
<1>6. front \o Append(c.outbox, message) = Append(front \o c.outbox, message)
  <2> DEFINE S == ToSet(front) \cup ToSet(c.outbox) \cup {message}
             o == c.outbox
  <2>1. front \in Seq(S) /\ o \in Seq(S) /\ message \in S
    <3>1. front \in Seq(ToSet(front)) /\ o \in Seq(ToSet(o))
      BY <1>1, <1>3 DEF Whole
    <3>2. ToSet(front) \subseteq S /\ ToSet(o) \subseteq S /\ message \in S
      OBVIOUS
    <3> HIDE DEF S
    <3> QED
      BY <3>1, <3>2, SeqMonotonic
  <2> HIDE DEF S, o
  <2>0. \A x, y, z \in Seq(S) : (x \o y) \o z = x \o (y \o z)
    BY ONLY Regroup
  <2>2. /\ Append(o, message) = o \o <<message>> /\ <<message>> \in Seq(S) /\ front \o o \in Seq(S)
        /\ Append(front \o o, message) = (front \o o) \o <<message>>
    BY <2>1, AppendIsConcat
  <2>3. (front \o o) \o <<message>> = front \o (o \o <<message>>)
    BY ONLY <2>0, <2>1, <2>2, Zenon
  <2> QED
    BY <2>2, <2>3 DEF o
<1>7. Pipe(c, w) = front \o c.outbox /\ Pipe(d, w) = Append(front \o c.outbox, message)
  BY <1>6 DEF Pipe, front
<1>8. Replying(Pipe(d, w)) = Replying(Pipe(c, w))
  BY <1>4, <1>7, ReplyingAre
<1> QED
  BY <1>1, <1>5, <1>8, MailGood

\* The worker answers the oldest message on the wire, or ends.
LEMMA RunsGood ==
  ASSUME NEW c, NEW w, NEW n \in Nat, NEW u, NEW rd, NEW K, Good(c, w, n, u, rd, K), u, w # <<>>
  PROVE  Good(c, Tail(w), IF Head(w).reply THEN n + 1 ELSE n, u, rd, K)
<1>1. /\ Whole(w) /\ Whole(c.direct) /\ Whole(c.sending) /\ Whole(c.outbox) /\ n <= Len(c.replies)
      /\ Matched(Replying(Pipe(c, w)), c.replies, n, rd) /\ DOMAIN c = ClientFields /\ Len(c.replies) \in Nat
  BY DEF Good, Shaped, Ordered
<1>2. Whole(Tail(w))
  BY <1>1, JoinedHead
<1>3. Pipe(c, w) # <<>> /\ Head(Pipe(c, w)) = Head(w) /\ Tail(Pipe(c, w)) = Pipe(c, Tail(w)) /\ Whole(Pipe(c, w))
  <2> DEFINE a == w \o c.direct
             b == a \o c.sending
             d == b \o c.outbox
  <2>1. HeadOf(a, w, c.direct)
    BY <1>1, JoinedHead
  <2>2. b = a \o c.sending /\ d = b \o c.outbox /\ Pipe(c, w) = d
    BY DEF Pipe
  <2> HIDE DEF a, b, d
  <2>3. HeadOf(b, a, c.sending)
    <3>1. a # <<>> /\ Whole(a)
      BY <2>1 DEF HeadOf
    <3> QED
      BY <1>1, <2>2, <3>1, JoinedHead
  <2>4. HeadOf(d, b, c.outbox)
    <3>1. b # <<>> /\ Whole(b)
      BY <2>3 DEF HeadOf
    <3> QED
      BY <1>1, <2>2, <3>1, JoinedHead
  <2> QED
    BY <2>1, <2>2, <2>3, <2>4 DEF HeadOf, Pipe
<1> DEFINE asking == Replying(Pipe(c, w))
           rest == Replying(Pipe(c, Tail(w)))
           p == c.replies
<1>4. IF Head(w).reply THEN asking = <<Head(w)>> \o rest ELSE asking = rest
  BY <1>3, ReplyingRest
<1>5. Whole(rest)
  <2>1. Whole(Pipe(c, Tail(w)))
    BY <1>3, JoinedHead
  <2> QED
    BY <2>1, ReplyingAre
<1>6. Len(p) = n + Len(asking) /\ \A i \in 1 .. Len(asking) : Owned(asking[i], p[n + i], rd)
  BY <1>1 DEF Matched
<1> HIDE DEF asking, rest, p
<1>7. CASE ~Head(w).reply
  <2>1. Matched(Replying(Pipe(c, Tail(w))), c.replies, n, rd)
    BY <1>4, <1>6, <1>7 DEF Matched, rest, p
  <2> QED
    BY <1>1, <1>2, <1>7, <2>1, MailGood
<1>8. CASE Head(w).reply
  <2> DEFINE k == Len(rest)
  <2>1. k \in Nat /\ Len(asking) = 1 + k /\ \A i \in 1 .. k : asking[1 + i] = rest[i]
    <3> DEFINE one == <<Head(w)>>
    <3>1. Whole(one) /\ Len(one) = 1
      BY <1>1, JoinedHead
    <3> HIDE DEF one
    <3>2. JoinOf(one \o rest, one, rest)
      BY <1>5, <3>1, JoinsAre
    <3>3. JoinOf(asking, one, rest)
      BY <1>4, <1>8, <3>2 DEF one
    <3>4. k \in Nat
      BY <1>5, WholeIs DEF Whole
    <3> QED
      BY <3>1, <3>3, <3>4 DEF JoinOf
  <2> HIDE DEF k
  <2>2. Len(p) = (n + 1) + k /\ n + 1 <= Len(p)
    BY <1>6, <2>1
  <2>3. ASSUME NEW i \in 1 .. k PROVE Owned(rest[i], p[(n + 1) + i], rd)
    <3>1. 1 + i \in 1 .. Len(asking) /\ n + (1 + i) = (n + 1) + i
      BY <2>1
    <3> QED
      BY <1>6, <2>1, <3>1
  <2>4. Matched(Replying(Pipe(c, Tail(w))), c.replies, n + 1, rd)
    BY <2>2, <2>3 DEF Matched, rest, p, k
  <2>5. n + 1 <= Len(c.replies)
    BY <2>2 DEF p
  <2> QED
    BY <1>1, <1>2, <1>8, <2>4, <2>5, MailGood
<1> QED
  BY <1>7, <1>8

\* Without the worker nothing is on its way, whatever is left to send.
LEMMA DownGood ==
  ASSUME NEW c, NEW w, NEW n, NEW u, NEW rd, NEW K, Good(c, w, n, u, rd, K), NEW v, Whole(v)
  PROVE  Good(c, v, n, FALSE, rd, K)
<1>1. /\ Whole(c.direct) /\ Whole(c.sending) /\ Whole(c.outbox) /\ n <= Len(c.replies) /\ DOMAIN c = ClientFields
  BY DEF Good, Shaped, Ordered
<1> QED
  BY <1>1, MailGood

-----------------------------------------------------------------------------
\* The steps of the program and of its threads.
Accounts(c, rd) == Good(c, wire, Len(back), up, rd, {}) /\ c.direct = <<>>

\* At first nothing is read, queued or on its way.
LEMMA RepliesStart == ASSUME Init PROVE RepliesInv
<1>1. /\ DOMAIN client = ClientFields /\ client.queue = <<>> /\ client.replies = <<>> /\ client.outbox = <<>>
      /\ client.sending = <<>> /\ client.direct = <<>>
  BY DEF Init, ClientFields
<1>2. reads = <<>> /\ wire = <<>> /\ back = <<>> /\ pc = "ready"
  BY DEF Init
<1>3. <<>> \in Seq({}) /\ <<>> \in Seq(Seq(DOMAIN <<>>)) /\ Len(<<>>) = 0 /\ DOMAIN <<>> = {} /\ \A S : <<>> \in Seq(S)
  BY EmptySeq
<1>4. Whole(<<>>)
  BY <1>3, WholeIs
<1>5. Shaped(client, wire, reads) /\ Readable(reads)
  BY <1>1, <1>2, <1>3, <1>4 DEF Shaped, Readable
<1>6. Outstanding(client, reads, {})
  BY <1>1, <1>2, <1>3 DEF Outstanding, Queued, Owes
<1>7. Pipe(client, wire) = <<>>
  BY <1>1, <1>2, <1>4, Joined DEF Pipe
<1>8. Matched(Replying(<<>>), <<>>, 0, reads)
  <2>1. Replying(<<>>) = <<>>
    BY <1>4, ReplyingAre
  <2> QED
    BY <1>3, <2>1 DEF Matched
<1>9. Ordered(client, wire, Len(back), up, reads)
  BY <1>1, <1>2, <1>3, <1>7, <1>8 DEF Ordered
<1> QED
  BY <1>1, <1>2, <1>4, <1>5, <1>6, <1>9 DEF RepliesInv, Good

\* Between steps the program has no message of its own in hand.
LEMMA Counted == ASSUME RepliesInv PROVE Len(back) \in Nat /\ Accounts(client, reads)
  BY WholeIs DEF RepliesInv, Accounts, Whole

\* What the program does last is hand its own message to the wire.
LEMMA PutsKeep ==
  ASSUME RepliesInv, NEW c, Good(c, wire, Len(back), up, reads', {}), Puts(c), back' = back, up' = up,
         pc' = "append" => Plainly(held')
  PROVE  RepliesInv'
<1>1. client' = [c EXCEPT !.direct = <<>>, !.lost = @ \/ (c.direct # <<>> /\ ~up)]
      /\ wire' = IF up THEN wire \o c.direct ELSE wire
  BY DEF Puts
<1> DEFINE d == [c EXCEPT !.direct = <<>>, !.lost = @ \/ (c.direct # <<>> /\ ~up)]
<1>2. /\ DOMAIN d = ClientFields /\ d.queue = c.queue /\ d.replies = c.replies /\ d.outbox = c.outbox
      /\ d.sending = c.sending /\ d.direct = <<>>
  BY DEF Good, Shaped, ClientFields
<1>3. client' = d
  BY <1>1
<1> HIDE DEF d
<1>4. Good(d, wire', Len(back), up, reads', {})
  BY <1>1, <1>2, PutsGood
<1>5. Good(client', wire', Len(back'), up', reads', {}) /\ client'.direct = <<>>
  BY <1>2, <1>3, <1>4
<1> QED
  BY <1>5 DEF RepliesInv

\* The same between steps.
LEMMA AlikeIs ==
  ASSUME NEW c, NEW rd, Accounts(c, rd), NEW d, Alike(d, c)
  PROVE  Accounts(d, rd)
  BY AlikeGood DEF Accounts, Alike

\* Names that are bound anew only release handles.
LEMMA BindsKeep ==
  ASSUME RepliesInv, NEW c, Accounts(c, reads'), NEW names, NEW handles, Binds(c, names, handles), back' = back, up' = up,
         pc' = "append" => Plainly(held')
  PROVE  RepliesInv'
<1>1. PICK gone : Puts([c EXCEPT !.released = @ \union gone])
  BY DEF Binds
<1> DEFINE d == [c EXCEPT !.released = @ \union gone]
<1>2. Alike(d, c)
  BY DEF Accounts, Good, Shaped, Alike, ClientFields
<1>3. Puts(d)
  BY <1>1
<1> HIDE DEF d
<1>4. Accounts(d, reads')
  BY <1>2, AlikeIs
<1> QED
  BY <1>3, <1>4, PutsKeep DEF Accounts

\* What wants no result is queued or sent.
LEMMA EnqueueKeeps ==
  ASSUME RepliesInv, NEW c, NEW rd, Accounts(c, rd), NEW e, Plainly(e), NEW check, NEW due
  PROVE  Accounts(Enqueue(c, e, check, due), rd)
<1>1. Adding(e, {}, {}, rd)
  BY DEF Adding
<1> QED
  BY <1>1, Counted, EnqueueGood DEF Accounts

\* The entry taken before the instruction is queued.
LEMMA AppendedKeeps ==
  ASSUME RepliesInv, NEW check, NEW due
  PROVE  Accounts(Appended(check, due), reads)
<1>1. CASE pc = "append"
  BY <1>1, Counted, EnqueueKeeps DEF RepliesInv, Appended
<1>2. CASE pc # "append"
  BY <1>2, Counted DEF Appended
<1> QED
  BY <1>1, <1>2

\* A template is defined ahead of its use.
LEMMA TemplateKeeps ==
  ASSUME RepliesInv, NEW c, NEW rd, Accounts(c, rd), NEW op
  PROVE  Accounts(Template(c, op), rd)
<1> DEFINE d == Template(c, op)
           e == [k |-> "define", op |-> op]
<1>1. Good(c, wire, Len(back), up, rd, {}) /\ c.direct = <<>> /\ DOMAIN c = ClientFields /\ Whole(c.queue)
  BY DEF Accounts, Good, Shaped
<1>2. /\ DOMAIN d = ClientFields /\ d.queue = c.queue \o Defines(c, op) /\ SameMail(d, c) /\ d.sending = c.sending
  BY <1>1 DEF Template, ClientFields, SameMail
<1> HIDE DEF d
<1>3. CASE Defines(c, op) = <<>>
  <2>1. d.queue = c.queue
    BY <1>1, <1>2, <1>3, Joined
  <2>2. Alike(d, c)
    BY <1>2, <2>1 DEF Alike, SameMail
  <2> QED
    BY <2>2, AlikeIs DEF d
<1>4. CASE Defines(c, op) = <<e>>
  <2>1. c.queue \o <<e>> = Append(c.queue, e)
    <3> DEFINE q == c.queue
               S == ToSet(q) \cup {e}
    <3>1. q \in Seq(S) /\ e \in S
      <4>1. q \in Seq(ToSet(q)) /\ ToSet(q) \subseteq S /\ e \in S
        BY <1>1 DEF Whole
      <4> HIDE DEF S
      <4> QED
        BY <4>1, SeqMonotonic
    <3> HIDE DEF q, S, e
    <3>2. q \o <<e>> = Append(q, e)
      BY <3>1, AppendIsConcat
    <3> QED
      BY <3>2 DEF q
  <2>2. Adding(e, {}, {}, rd)
    BY DEF Adding, Plainly, Wants
  <2> HIDE DEF e
  <2>3. Good(d, wire, Len(back), up, rd, {})
    BY <1>1, <1>2, <1>4, <2>1, <2>2, QueuedGood
  <2> QED
    BY <1>1, <1>2, <2>3 DEF Accounts, SameMail, d
<1> QED
  BY <1>3, <1>4 DEF Defines

\* Take, and the operators of the program: no read is begun.
LEMMA TakeReplies == ASSUME RepliesInv, Take PROVE RepliesInv'
<1>1. PICK now : held' = Entry(now) /\ client' = [client EXCEPT !.tracer.active = Taken(now)]
  BY DEF Take
<1>2. Plainly(held')
  BY <1>1 DEF Plainly, Wants, Entry
<1> DEFINE d == [client EXCEPT !.tracer.active = Taken(now)]
<1>3. Alike(d, client)
  BY DEF RepliesInv, Good, Shaped, Alike, ClientFields
<1>4. client' = d
  BY <1>1
<1> HIDE DEF d
<1>5. Accounts(d, reads)
  BY <1>3, Counted, AlikeIs
<1>6. wire' = wire /\ back' = back /\ up' = up /\ reads' = reads
  BY DEF Take, remote
<1> QED
  BY <1>2, <1>4, <1>5, <1>6 DEF RepliesInv, Accounts

LEMMA MatchReplies == ASSUME RepliesInv, MatchOp PROVE RepliesInv'
<1> DEFINE outs == Fresh(client, I.outs)
           c == [client EXCEPT !.next = @ + Len(outs), !.tracer.active = Advance(active, Bound(I.ins), I.bad)]
<1>1. Binds(c, I.outs, outs) /\ back' = back /\ up' = up /\ reads' = reads /\ pc' = "ready"
  BY DEF MatchOp, Advances, remote
<1>2. Alike(c, client)
  BY DEF RepliesInv, Good, Shaped, Alike, ClientFields
<1> HIDE DEF c
<1>3. Accounts(c, reads')
  BY <1>1, <1>2, Counted, AlikeIs
<1> QED
  BY <1>1, <1>3, BindsKeep

LEMMA LastReplies == ASSUME RepliesInv, MatchLast PROVE RepliesInv'
<1>1. PICK due \in BOOLEAN :
        LET outs == Fresh(client, I.outs)
            c == [Appended(TRUE, due) EXCEPT !.next = @ + Len(outs)]
        IN  Binds([c EXCEPT !.tracer = Begin(@, active.sid, c.next)], I.outs, outs)
  BY DEF MatchLast
<1> DEFINE outs == Fresh(client, I.outs)
           a == Appended(TRUE, due)
           c == [a EXCEPT !.next = @ + Len(outs)]
           d == [c EXCEPT !.tracer = Begin(@, active.sid, c.next)]
<1>2. Binds(d, I.outs, outs) /\ back' = back /\ up' = up /\ reads' = reads /\ pc' = "ready"
  BY <1>1 DEF MatchLast, Advances, remote
<1>3. Accounts(a, reads)
  BY AppendedKeeps
<1> HIDE DEF a
<1>4. Alike(d, a)
  BY <1>3 DEF Accounts, Good, Shaped, Alike, ClientFields
<1> HIDE DEF d
<1>5. Accounts(d, reads')
  BY <1>2, <1>3, <1>4, AlikeIs
<1> QED
  BY <1>2, <1>5, BindsKeep

\* An operator sent by itself, with its template and with the step it may complete.
LEMMA SentReplies ==
  ASSUME RepliesInv, NEW c, Accounts(c, reads), NEW step, NEW sid
  PROVE  LET defined == [c EXCEPT !.steps = Append(@, step),
                                  !.queue = Append(@, [k |-> "step_define", sid |-> sid, ops |-> step])]
         IN  Accounts(defined, reads)
<1> DEFINE e == [k |-> "step_define", sid |-> sid, ops |-> step]
           d == [c EXCEPT !.steps = Append(@, step), !.queue = Append(@, e)]
<1>1. DOMAIN d = ClientFields /\ d.queue = Append(c.queue, e) /\ SameMail(d, c) /\ d.sending = c.sending
  BY DEF Accounts, Good, Shaped, ClientFields, SameMail
<1>2. Adding(e, {}, {}, reads)
  BY DEF Adding, Plainly, Wants
<1> HIDE DEF e, d
<1>3. Good(d, wire, Len(back), up, reads, {})
  BY <1>1, <1>2, QueuedGood DEF Accounts
<1> QED
  BY <1>1, <1>3 DEF Accounts, SameMail, d, e

\* An operator sent by itself.
LEMMA SentKeeps == ASSUME RepliesInv, NEW due PROVE Accounts(SentAlone(due), reads)
<1> DEFINE outs == Fresh(client, I.outs)
           a == Appended(TRUE, due)
           fell == [a EXCEPT !.tracer = IF active.sid # 0 THEN NewTracer ELSE @, !.next = @ + Len(outs)]
           e == [k |-> "op", op |-> I.op, ins |-> Bound(I.ins), outs |-> outs, bad |-> I.bad, want |-> ""]
<1>1. SentAlone(due) = Enqueue(Template(fell, I.op), e, TRUE, due)
  BY DEF SentAlone
<1>2. Accounts(a, reads)
  BY AppendedKeeps
<1> HIDE DEF a
<1>3. Alike(fell, a)
  BY <1>2 DEF Accounts, Good, Shaped, Alike, ClientFields
<1>4. Plainly(e)
  BY DEF Plainly, Wants
<1> HIDE DEF fell, e
<1>5. Accounts(fell, reads)
  BY <1>2, <1>3, AlikeIs
<1> QED
  BY <1>1, <1>4, <1>5, TemplateKeeps, EnqueueKeeps

\* A step that is captured is defined once.
LEMMA CapturedKeeps ==
  ASSUME RepliesInv, NEW c, Accounts(c, reads), NEW records
  PROVE  Accounts(Captured(c, records), reads)
<1> DEFINE step == Found(records)
           known == {s \in DOMAIN c.steps : c.steps[s] = step}
           sid == IF known = {} THEN Len(c.steps) + 1 ELSE Top(known)
           longer == [c EXCEPT !.steps = Append(@, step),
                               !.queue = Append(@, [k |-> "step_define", sid |-> sid, ops |-> step])]
           defined == IF known # {} THEN c ELSE longer
           one == [c EXCEPT !.tracer.records = records]
           all == [defined EXCEPT !.tracer = Begin(Reset(@), sid, c.next)]
<1>1. Captured(c, records) = one \/ Captured(c, records) = all
  BY DEF Captured
<1> HIDE DEF step, sid, known
<1>2. Accounts(one, reads)
  <2>1. Alike(one, c)
    BY DEF Accounts, Good, Shaped, Alike, ClientFields
  <2> HIDE DEF one
  <2> QED
    BY <2>1, AlikeIs
<1>3. Accounts(longer, reads)
  BY SentReplies
<1> HIDE DEF longer
<1>4. Accounts(defined, reads)
  BY <1>3
<1> HIDE DEF defined
<1>5. Accounts(all, reads)
  <2>1. Alike(all, defined)
    BY <1>4 DEF Accounts, Good, Shaped, Alike, ClientFields
  <2> HIDE DEF all
  <2> QED
    BY <1>4, <2>1, AlikeIs
<1> HIDE DEF one, all
<1> QED
  BY <1>1, <1>2, <1>5

LEMMA SendReplies == ASSUME RepliesInv, SendOp PROVE RepliesInv'
<1>1. PICK due \in BOOLEAN :
        LET sent == SentAlone(due)
            outs == Fresh(client, I.outs)
        IN  Binds(Captured(sent, Recorded(sent.tracer, I.op, Bound(I.ins), outs)), I.outs, outs)
  BY DEF SendOp
<1> DEFINE outs == Fresh(client, I.outs)
           sent == SentAlone(due)
           records == Recorded(sent.tracer, I.op, Bound(I.ins), outs)
           d == Captured(sent, records)
<1>2. Binds(d, I.outs, outs)
  BY <1>1
<1>3. back' = back /\ up' = up /\ reads' = reads /\ pc' = "ready"
  BY DEF SendOp, Advances, remote
<1>4. Accounts(d, reads)
  <2>1. Accounts(sent, reads)
    BY SentKeeps
  <2> HIDE DEF sent, records
  <2> QED
    BY <2>1, CapturedKeeps
<1>5. Accounts(d, reads')
  BY <1>3, <1>4
<1> HIDE DEF d
<1> QED
  BY <1>2, <1>3, <1>5, BindsKeep

LEMMA DeleteReplies == ASSUME RepliesInv, Delete PROVE RepliesInv'
<1>1. Binds(client, <<I.outs[1]>>, <<0>>) /\ back' = back /\ up' = up /\ reads' = reads /\ pc' = "ready"
  BY DEF Delete, Advances, remote
<1> QED
  BY <1>1, Counted, BindsKeep

LEMMA PostReplies == ASSUME RepliesInv, Post PROVE RepliesInv'
<1> DEFINE e == [k |-> "live"]
<1>1. PICK due \in BOOLEAN : Puts(Enqueue(Appended(FALSE, FALSE), e, TRUE, due))
  BY DEF Post
<1>2. back' = back /\ up' = up /\ reads' = reads /\ pc' = "ready"
  BY DEF Post, Advances, remote
<1>3. Plainly(e)
  BY DEF Plainly, Wants
<1> HIDE DEF e
<1>4. Accounts(Enqueue(Appended(FALSE, FALSE), e, TRUE, due), reads)
  BY <1>3, AppendedKeeps, EnqueueKeeps
<1> QED
  BY <1>1, <1>2, <1>4, PutsKeep DEF Accounts

\* The read an instruction begins is in hand.
LEMMA Begins ==
  ASSUME RepliesInv, NEW c, Accounts(c, reads), NEW read, Begun(read), reads' = Append(reads, read)
  PROVE  InHand(c, wire, Len(back), up, reads', Len(reads) + 1, read)
<1>1. PICK n : n = Len(back)
  OBVIOUS
<1>2. PICK more : more = reads'
  OBVIOUS
<1>3. Good(c, wire, n, up, reads, {}) /\ n \in Nat /\ more = Append(reads, read) /\ Begun(read)
  BY <1>1, <1>2, Counted DEF Accounts
<1>4. InHand(c, wire, n, up, more, Len(reads) + 1, read)
  BY ONLY <1>3, NewRead
<1> QED
  BY <1>1, <1>2, <1>4

\* A later read is queued like an operator.
LEMMA LaterReplies == ASSUME RepliesInv, ReadLater PROVE RepliesInv'
<1> DEFINE r == Len(reads) + 1
           h == env[I.ins[1]]
           e == [k |-> "fetch", h |-> h, id |-> r]
           a == Appended(FALSE, FALSE)
           read == [exp |-> Content(h), done |-> FALSE, val |-> Unknown, waiter |-> FALSE]
<1>1. PICK due \in BOOLEAN : Puts(Enqueue(a, e, TRUE, due))
  BY DEF ReadLater
<1>2. back' = back /\ up' = up /\ pc' = "ready" /\ reads' = Append(reads, read)
  BY DEF ReadLater, Advances, remote
<1>3. Begun(read) /\ read.waiter = FALSE /\ e.k = "fetch" /\ e.id = r
  BY DEF Begun, ReadFields
<1> HIDE DEF read
<1>4. Accounts(a, reads) /\ Len(back) \in Nat
  BY AppendedKeeps, Counted
<1> HIDE DEF a, e, h
<1>5. Good(a, wire, Len(back), up, reads', {r}) /\ r \in DOMAIN reads' /\ reads'[r] = read
  BY <1>2, <1>3, <1>4, Begins DEF InHand
<1> HIDE DEF r
<1>6. Adding(e, {r}, {}, reads')
  BY <1>3, <1>5 DEF Adding
<1>7. Good(Enqueue(a, e, TRUE, due), wire, Len(back), up, reads', {})
  BY <1>4, <1>5, <1>6, EnqueueGood DEF Accounts
<1> QED
  BY <1>1, <1>2, <1>7, PutsKeep

\* A request: its read begins in hand and is noted behind the reads of its message.
LEMMA WaitsKeep ==
  ASSUME RepliesInv, NEW c, Accounts(c, reads), NEW m \in 0 .. Len(c.queue), NEW extra, Adds(extra), NEW exp,
         Waits(Flush(c, m, extra, Waiter), exp)
  PROVE  RepliesInv'
<1> DEFINE r == Len(reads) + 1
           d == Flush(c, m, extra, Waiter)
           read == [exp |-> exp, done |-> FALSE, val |-> Unknown, waiter |-> TRUE]
<1>1. Puts(d) /\ reads' = Append(reads, read) /\ back' = back /\ up' = up /\ pc' = "reply"
  BY DEF Waits, remote
<1>2. Begun(read) /\ read.waiter = TRUE /\ Waiter = <<r>>
  BY DEF Begun, ReadFields, Waiter
<1> HIDE DEF read
<1>3. Good(c, wire, Len(back), up, reads', {r}) /\ r \in DOMAIN reads' /\ reads'[r] = read
  BY <1>1, <1>2, Begins DEF InHand
<1> HIDE DEF r
<1>4. Asking(Waiter, {r}, extra, reads')
  BY <1>2, <1>3 DEF Asking
<1>5. Good(d, wire, Len(back), up, reads', {})
  BY <1>3, <1>4, Counted, FlushGood DEF Accounts
<1> HIDE DEF d
<1> QED
  BY <1>1, <1>5, PutsKeep

\* All of the queue is a part of it.
LEMMA QueueLen ==
  ASSUME NEW c, NEW rd, Accounts(c, rd)
  PROVE  Whole(c.queue) /\ Len(c.queue) \in 0 .. Len(c.queue)
<1>1. Whole(c.queue) /\ Len(c.queue) \in Nat
  BY WholeIs DEF Accounts, Good, Shaped, Whole
<1> QED
  BY <1>1

LEMMA WaitsAllKeep ==
  ASSUME RepliesInv, NEW c, Accounts(c, reads), NEW extra, Adds(extra), NEW exp, Waits(FlushAll(c, extra, Waiter), exp)
  PROVE  RepliesInv'
  BY QueueLen, WaitsKeep DEF FlushAll

\* The entry of a request is the last of its message, behind a template nobody reads.
Bare(e) == "k" \in DOMAIN e /\ (Plainly(e) \/ (e.k # "step" /\ Asks(e) = <<0>> /\ Owns(e) = <<>>))

\* What a request adds: its entry, and the template it may need first.
LEMMA OneAdds ==
  ASSUME NEW e, Bare(e)
  PROVE  Adds(<<e>>)
<1> DEFINE one == <<e>>
<1>1. one \in Seq({e}) /\ Len(one) = 1 /\ one[1] = e
  OBVIOUS
<1>2. Whole(one)
  BY <1>1, WholeIs
<1> HIDE DEF one
<1>3. \A i \in 1 .. Len(one) : i = 1
  BY <1>1
<1> QED
  BY <1>1, <1>2, <1>3 DEF Adds, Bare

LEMMA TwoAdds ==
  ASSUME NEW c, NEW op, NEW e, Bare(e)
  PROVE  Adds(Append(Defines(c, op), e))
<1> DEFINE d == [k |-> "define", op |-> op]
           two == Append(<<d>>, e)
<1>1. CASE Defines(c, op) = <<>>
  <2>1. Append(<<>>, e) = <<e>>
    OBVIOUS
  <2> QED
    BY <1>1, <2>1, OneAdds
<1>2. CASE Defines(c, op) = <<d>>
  <2>1. Plainly(d)
    BY DEF Plainly, Wants
  <2> HIDE DEF d
  <2>2. two \in Seq({d, e}) /\ Len(two) = 2 /\ two[1] = d /\ two[2] = e
    OBVIOUS
  <2>3. Whole(two)
    BY <2>2, WholeIs
  <2> HIDE DEF two
  <2>4. \A i \in 1 .. Len(two) : i = 1 \/ i = 2
    BY <2>2
  <2>5. Adds(two)
    BY <2>1, <2>2, <2>3, <2>4 DEF Adds, Bare
  <2> QED
    BY <1>2, <2>5 DEF two
<1> QED
  BY <1>1, <1>2 DEF Defines

\* A request that cut the queue knows how many entries it needs; between the cut and the flush
\* nobody cuts again.
CutKnown == pc = "cut" => held.n \in Nat

LEMMA CutStart == ASSUME Init PROVE CutKnown
  BY DEF Init, CutKnown

LEMMA CutStep == ASSUME RepliesInv, CutKnown, Next PROVE CutKnown'
<1>1. ASSUME Cuts PROVE CutKnown'
  <2>1. PICK h : held' = [k |-> "cut", n |-> DependencyCut(client, h)]
    BY <1>1 DEF Cuts
  <2>2. DependencyCut(client, h) \in 0 .. Len(client.queue)
    BY Counted, QueueLen, CutIn
  <2>3. held'.n \in Nat
    BY <2>1, <2>2
  <2> QED
    BY <2>3 DEF CutKnown
<1>2. ASSUME pc' = pc /\ held' = held PROVE CutKnown'
  BY <1>2 DEF CutKnown
<1>3. ASSUME pc' # "cut" PROVE CutKnown'
  BY <1>3 DEF CutKnown
<1>4. ASSUME Take \/ MatchOp \/ MatchLast \/ SendOp \/ Delete \/ Post \/ ReadLater \/ CutRaises PROVE pc' # "cut"
  BY <1>4 DEF Take, MatchOp, MatchLast, SendOp, Delete, Post, ReadLater, CutRaises, Advances
<1>5. ASSUME Fetch \/ ReadValue \/ Synchronize \/ LiveHandles \/ ExecuteNow \/ Returns PROVE pc' # "cut"
  BY <1>5 DEF Fetch, ReadValue, Synchronize, LiveHandles, ExecuteNow, Returns, Waits, Advances
<1>6. ASSUME StartWait \/ EndWait \/ Await \/ Drain \/ Close \/ Closed PROVE pc' # "cut"
  BY <1>6 DEF StartWait, EndWait, Await, Drain, Close, Closed, Advances
<1>7. ASSUME SideStarts \/ SideEnds \/ Receive \/ SideLost \/ Linger \/ SendTake \/ SendDone PROVE pc' = pc /\ held' = held
  BY <1>7 DEF SideStarts, SideEnds, Receive, SideLost, Linger, SendTake, SendDone
<1>8. ASSUME WorkerRuns \/ WorkerDies \/ Rests PROVE pc' = pc /\ held' = held
  BY <1>8 DEF WorkerRuns, WorkerDies, Rests, vars
<1>9. ASSUME Lost PROVE pc' # "cut"
  BY <1>9 DEF Lost
<1> QED
  BY <1>1, <1>2, <1>3, <1>4, <1>5, <1>6, <1>7, <1>8, <1>9 DEF Next

\* What a read takes is there.
LEMMA CutFits ==
  ASSUME RepliesInv, CutKnown, NEW kind, Requests(kind)
  PROVE  CutAt(Appended(FALSE, FALSE)) \in 0 .. Len(Appended(FALSE, FALSE).queue)
<1> DEFINE c == Appended(FALSE, FALSE)
<1>1. Accounts(c, reads) /\ Accounts(client, reads)
  BY Counted, AppendedKeeps
<1>2. CASE pc = "cut"
  <2>1. c = client /\ held.n \in Nat /\ held.n <= Len(client.queue)
    BY <1>2 DEF Appended, CutKnown, Requests
  <2>2. Len(client.queue) \in Nat
    BY <1>1, QueueLen
  <2>3. held.n \in 0 .. Len(client.queue)
    BY <2>1, <2>2
  <2> QED
    BY <1>2, <2>1, <2>3 DEF CutAt
<1>3. CASE pc # "cut"
  BY <1>1, <1>3, QueueLen DEF CutAt
<1> QED
  BY <1>2, <1>3

\* The five requests.
LEMMA FetchReplies == ASSUME RepliesInv, CutKnown, Fetch PROVE RepliesInv'
<1> DEFINE h == env[I.ins[1]]
           c == Appended(FALSE, FALSE)
           m == CutAt(c)
           e == [k |-> "fetch", h |-> h, id |-> 0]
<1>1. PICK exp : Waits(Flush(c, m, <<e>>, Waiter), exp)
  BY DEF Fetch
<1>2. Accounts(c, reads)
  BY AppendedKeeps
<1>3. Bare(e)
  BY DEF Bare, Asks, Owns, Wants
<1> HIDE DEF c, e
<1>4. m \in 0 .. Len(c.queue)
  BY CutFits DEF Fetch, c
<1> QED
  BY <1>1, <1>2, <1>3, <1>4, OneAdds, WaitsKeep

LEMMA ValueReplies == ASSUME RepliesInv, CutKnown, ReadValue PROVE RepliesInv'
<1> DEFINE h == env[I.ins[1]]
           c == Appended(FALSE, FALSE)
           d == [c EXCEPT !.templates = @ \union {"item"}]
           m == CutAt(c)
           e == [k |-> "op", op |-> "item", ins |-> <<h>>, outs |-> <<>>, bad |-> FALSE, want |-> "value"]
<1>1. PICK exp : Waits(Flush(d, m, Append(Defines(c, "item"), e), Waiter), exp)
  BY DEF ReadValue
<1>2. Accounts(c, reads)
  BY AppendedKeeps
<1>3. Bare(e)
  BY DEF Bare, Asks, Owns, Wants
<1> HIDE DEF c, e
<1>4. m \in 0 .. Len(c.queue)
  BY CutFits DEF ReadValue, c
<1>5. Alike(d, c)
  BY <1>2 DEF Accounts, Good, Shaped, Alike, ClientFields
<1>6. m \in 0 .. Len(d.queue)
  BY <1>4, <1>5 DEF Alike
<1> HIDE DEF d, m
<1>7. Accounts(d, reads)
  BY <1>2, <1>5, AlikeIs
<1>8. Adds(Append(Defines(c, "item"), e))
  BY <1>3, TwoAdds
<1> QED
  BY <1>1, <1>6, <1>7, <1>8, WaitsKeep

LEMMA SyncReplies == ASSUME RepliesInv, Synchronize PROVE RepliesInv'
<1> DEFINE e == [k |-> "live"]
<1>1. PICK exp : Waits(FlushAll(Appended(FALSE, FALSE), <<e>>, Waiter), exp)
  BY DEF Synchronize
<1>2. Bare(e)
  BY DEF Bare, Plainly, Wants
<1> HIDE DEF e
<1> QED
  BY <1>1, <1>2, AppendedKeeps, OneAdds, WaitsAllKeep

\* What is flushed with no request behind it.
LEMMA FlushKeeps ==
  ASSUME RepliesInv, NEW c, Accounts(c, reads)
  PROVE  Accounts(FlushAll(c, <<>>, <<>>), reads)
  BY Counted, NothingAdds, FlushAllGood DEF Accounts

LEMMA CountReplies == ASSUME RepliesInv, LiveHandles PROVE RepliesInv'
<1> DEFINE e == [k |-> "count"]
           c == FlushAll(Appended(FALSE, FALSE), <<>>, <<>>)
<1>1. PICK exp : Waits(FlushAll(c, <<e>>, Waiter), exp)
  BY DEF LiveHandles
<1>2. Bare(e)
  BY DEF Bare, Asks, Owns, Wants
<1>3. Accounts(c, reads)
  BY AppendedKeeps, FlushKeeps
<1> HIDE DEF c, e
<1> QED
  BY <1>1, <1>2, <1>3, OneAdds, WaitsAllKeep

LEMMA ExecuteReplies == ASSUME RepliesInv, ExecuteNow PROVE RepliesInv'
<1>1. PICK due \in BOOLEAN :
        LET c == [Appended(TRUE, due) EXCEPT !.tracer = NewTracer]
            outs == Fresh(c, I.outs)
            e == [k |-> "op", op |-> I.op, ins |-> Bound(I.ins), outs |-> outs, bad |-> I.bad,
                  want |-> "describe"]
        IN  Waits(FlushAll([c EXCEPT !.next = @ + Described, !.templates = @ \union {I.op}],
                           Append(Defines(c, I.op), e), Waiter), IF broken' THEN Unknown ELSE Ok)
  BY DEF ExecuteNow
<1> DEFINE a == Appended(TRUE, due)
           c == [a EXCEPT !.tracer = NewTracer]
           outs == Fresh(c, I.outs)
           e == [k |-> "op", op |-> I.op, ins |-> Bound(I.ins), outs |-> outs, bad |-> I.bad, want |-> "describe"]
           d == [c EXCEPT !.next = @ + Described, !.templates = @ \union {I.op}]
<1>2. PICK exp : Waits(FlushAll(d, Append(Defines(c, I.op), e), Waiter), exp)
  BY <1>1
<1>3. Accounts(a, reads)
  BY AppendedKeeps
<1>4. Bare(e)
  BY DEF Bare, Asks, Owns, Wants
<1> HIDE DEF a, e
<1>5. Alike(d, a)
  BY <1>3 DEF Accounts, Good, Shaped, Alike, ClientFields
<1> HIDE DEF c, d
<1>6. Accounts(d, reads)
  BY <1>3, <1>5, AlikeIs
<1>7. Adds(Append(Defines(c, I.op), e))
  BY <1>4, TwoAdds
<1> QED
  BY <1>2, <1>6, <1>7, WaitsAllKeep
\* A step that changes nothing of the accounts.
LEMMA Rested ==
  ASSUME RepliesInv, client' = client, wire' = wire, back' = back, up' = up, reads' = reads,
         pc' = "append" => Plainly(held')
  PROVE  RepliesInv'
  BY DEF RepliesInv

LEMMA HeldStill ==
  ASSUME RepliesInv, pc' = pc, held' = held
  PROVE  pc' = "append" => Plainly(held')
  BY DEF RepliesInv

\* Reads that are changed are reads still.
LEMMA StillReadable ==
  ASSUME NEW rd, Readable(rd), NEW more, DOMAIN more = DOMAIN rd, more = [r \in DOMAIN rd |-> more[r]],
         \A r \in DOMAIN rd : DOMAIN more[r] = ReadFields /\ more[r].done \in BOOLEAN /\ more[r].waiter \in BOOLEAN
  PROVE  Readable(more)
<1>1. Whole(rd)
  BY DEF Readable
<1>2. Len(rd) \in Nat /\ DOMAIN rd = 1 .. Len(rd)
  BY <1>1, WholeIs DEF Whole
<1> DEFINE n == Len(rd)
<1>3. more \in [1 .. n -> ToSet(more)]
  BY <1>2 DEF ToSet
<1>4. n \in Nat
  BY <1>2
<1> HIDE DEF n
<1>5. more \in Seq(ToSet(more))
  BY <1>3, <1>4
<1> QED
  BY <1>5, WholeIs DEF Readable

\* A request that is answered changes what its read is worth.
LEMMA ReturnsReplies == ASSUME RepliesInv, Returns PROVE RepliesInv'
<1> DEFINE bad == client.deferred \/ reads[cur].val = Failure
           c == [client EXCEPT !.deferred = FALSE]
           val == IF bad THEN Failure ELSE reads[cur].val
           more == [reads EXCEPT ![cur].val = val]
<1>1. /\ reads' = more /\ back' = back /\ up' = up /\ pc' = "ready"
      /\ Puts(c) \/ \E names, handles : Binds(c, names, handles)
  BY DEF Returns, Advances, remote
<1>2. Readable(reads) /\ Good(client, wire, Len(back), up, reads, {}) /\ client.direct = <<>> /\ Len(back) \in Nat
  BY Counted DEF RepliesInv, Good
<1>3. /\ DOMAIN more = DOMAIN reads /\ more = [r \in DOMAIN reads |-> more[r]]
      /\ \A r \in DOMAIN reads : /\ DOMAIN more[r] = DOMAIN reads[r]
                                 /\ more[r].waiter = reads[r].waiter /\ more[r].done = reads[r].done
  <2> HIDE DEF val
  <2>1. \A r \in DOMAIN reads : more[r] = IF r = cur THEN [reads[r] EXCEPT !.val = val] ELSE reads[r]
    OBVIOUS
  <2>2. \A r \in DOMAIN reads : DOMAIN reads[r] = ReadFields
    BY <1>2 DEF Readable
  <2> QED
    BY <2>1, <2>2 DEF ReadFields
<1> HIDE DEF more
<1>4. Readable(more)
  <2>1. \A r \in DOMAIN reads : DOMAIN more[r] = ReadFields /\ more[r].done \in BOOLEAN /\ more[r].waiter \in BOOLEAN
    BY <1>2, <1>3 DEF Readable
  <2> QED
    BY <1>2, <1>3, <2>1, StillReadable
<1>5. Good(client, wire, Len(back), up, more, {})
  BY <1>2, <1>3, <1>4, ValuesGood
<1>6. Accounts(client, more)
  BY <1>2, <1>5 DEF Accounts
<1>7. Alike(c, client)
  BY <1>2 DEF Good, Shaped, Alike, ClientFields
<1> HIDE DEF c
<1>8. Accounts(c, reads')
  BY <1>1, <1>6, <1>7, AlikeIs
<1>9. CASE Puts(c)
  BY <1>1, <1>8, <1>9, PutsKeep DEF Accounts
<1>10. CASE \E names, handles : Binds(c, names, handles)
  BY <1>1, <1>8, <1>10, BindsKeep
<1> QED
  BY <1>1, <1>9, <1>10

\* A wait sends its read when it is still queued.
LEMMA ThroughKeeps ==
  ASSUME RepliesInv, NEW r, Puts(FlushThrough(client, r)), reads' = reads, back' = back, up' = up,
         pc' = "append" => Plainly(held')
  PROVE  RepliesInv'
<1>1. Good(FlushThrough(client, r), wire, Len(back), up, reads, {})
  BY Counted, FlushThroughGood DEF Accounts
<1> QED
  BY <1>1, PutsKeep

\* The waits of the program and of the thread beside it.
LEMMA WaitReplies == ASSUME RepliesInv, StartWait PROVE RepliesInv'
<1>1. reads' = reads /\ back' = back /\ up' = up /\ pc' = "waiting"
  BY DEF StartWait, remote
<1>2. (client' = client /\ wire' = wire) \/ Puts(FlushThrough(client, I.r))
  BY DEF StartWait
<1> QED
  BY <1>1, <1>2, Rested, ThroughKeeps

LEMMA SideReplies == ASSUME RepliesInv, SideStarts PROVE RepliesInv'
<1>1. reads' = reads /\ back' = back /\ up' = up /\ pc' = pc /\ held' = held
  BY DEF SideStarts, remote
<1>2. (client' = client /\ wire' = wire) \/ Puts(FlushThrough(client, side.r))
  BY DEF SideStarts
<1>3. pc' = "append" => Plainly(held')
  BY <1>1, HeldStill
<1>4. CASE client' = client /\ wire' = wire
  BY <1>1, <1>3, <1>4, Rested
<1>5. CASE Puts(FlushThrough(client, side.r))
  BY <1>1, <1>3, <1>5, ThroughKeeps
<1> QED
  BY <1>2, <1>4, <1>5

\* What only moves the program or a thread.
LEMMA MovesReplies == ASSUME RepliesInv, EndWait \/ Await \/ SideEnds \/ Closed PROVE RepliesInv'
<1>1. client' = client /\ wire' = wire /\ back' = back /\ up' = up /\ reads' = reads
  BY DEF EndWait, Await, SideEnds, Closed, remote, threads
<1>2. pc' = "ready" \/ (pc' = pc /\ held' = held)
  BY DEF EndWait, Await, SideEnds, Closed, Advances
<1>3. pc' = "append" => Plainly(held')
  BY <1>2, HeldStill
<1> QED
  BY <1>1, <1>3, Rested
\* A reply is received: the reads it is for have it.
LEMMA ReceivedKeeps ==
  ASSUME RepliesInv, back # <<>>, NEW reply, Received(reply), wire' = wire, up' = up, pc' = "append" => Plainly(held')
  PROVE  RepliesInv'
<1> DEFINE owners == Head(client.replies)
           n == Len(back)
           more == reads'
           Value(r) == LET i == CHOOSE j \in DOMAIN owners : owners[j] = r
                       IN  IF ~reads[r].waiter THEN reply.results[i]
                           ELSE IF reply.failure THEN Failure
                           ELSE IF reads[r].exp = Ok \/ reply.results = <<>> THEN Ok
                           ELSE Last(reply.results)
<1>1. reads' = [r \in DOMAIN reads |-> IF r \in ToSet(owners)
                                       THEN [reads[r] EXCEPT !.done = TRUE, !.val = Value(r)] ELSE reads[r]]
  BY DEF Received
<1> HIDE DEF Value
<1>2. PICK error : client' = [client EXCEPT !.replies = Tail(@), !.deferred = error]
  BY DEF Received
<1>3. back' = Tail(back)
  BY DEF Received
<1>4. Readable(reads) /\ Good(client, wire, n, up, reads, {}) /\ client.direct = <<>> /\ Whole(back)
  BY DEF RepliesInv, Good
<1>5. n \in Nat \ {0} /\ Len(back') = n - 1 /\ Whole(back')
  <2>1. back \in Seq(ToSet(back)) /\ n \in Nat \ {0} /\ Len(Tail(back)) = n - 1
    BY <1>4 DEF Whole
  <2>2. Whole(Tail(back))
    BY <1>4, JoinedHead
  <2> QED
    BY <1>3, <2>1, <2>2
<1>6. \A r \in DOMAIN reads : DOMAIN reads[r] = ReadFields /\ reads[r].done \in BOOLEAN /\ reads[r].waiter \in BOOLEAN
  BY <1>4 DEF Readable
<1> DEFINE d == [client EXCEPT !.replies = Tail(@), !.deferred = error]
<1>7. /\ DOMAIN d = ClientFields /\ d.queue = client.queue /\ d.outbox = client.outbox /\ d.sending = client.sending
      /\ d.direct = client.direct /\ d.replies = Tail(client.replies)
  BY <1>4 DEF Good, Shaped, ClientFields
<1> HIDE DEF d, n, owners
<1>8. DOMAIN more = DOMAIN reads /\ more = [r \in DOMAIN reads |-> more[r]]
  BY <1>1
<1>9. \A r \in DOMAIN reads : /\ DOMAIN more[r] = ReadFields /\ more[r].waiter = reads[r].waiter
                              /\ more[r].done = (reads[r].done \/ r \in ToSet(owners))
  <2> SUFFICES ASSUME NEW r \in DOMAIN reads
               PROVE  /\ DOMAIN more[r] = ReadFields /\ more[r].waiter = reads[r].waiter
                      /\ more[r].done = (reads[r].done \/ r \in ToSet(owners))
    OBVIOUS
  <2>1. more[r] = IF r \in ToSet(owners) THEN [reads[r] EXCEPT !.done = TRUE, !.val = Value(r)] ELSE reads[r]
    BY <1>1
  <2>2. DOMAIN reads[r] = ReadFields /\ reads[r].done \in BOOLEAN
    BY <1>6
  <2> HIDE DEF more
  <2>3. CASE r \in ToSet(owners)
    BY <2>1, <2>2, <2>3 DEF ReadFields
  <2>4. CASE r \notin ToSet(owners)
    BY <2>1, <2>2, <2>4
  <2> QED
    BY <2>3, <2>4
<1> HIDE DEF more
<1>10. Readable(more)
  <2>1. \A r \in DOMAIN reads : DOMAIN more[r] = ReadFields /\ more[r].done \in BOOLEAN /\ more[r].waiter \in BOOLEAN
    BY <1>6, <1>9
  <2> QED
    BY <1>4, <1>8, <2>1, StillReadable
<1>11. Good(d, wire, n - 1, up, more, {})
  <2>1. \A r \in DOMAIN reads : /\ more[r].waiter = reads[r].waiter
                                /\ more[r].done = (reads[r].done \/ r \in ToSet(Head(client.replies)))
    BY <1>9 DEF owners
  <2> QED
    BY <1>4, <1>5, <1>7, <1>8, <1>10, <2>1, ReceivedGood
<1>12. client' = d
  BY <1>2 DEF d
<1>13. Good(client', wire', Len(back'), up', reads', {}) /\ client'.direct = <<>>
  BY <1>4, <1>5, <1>7, <1>11, <1>12 DEF more
<1> QED
  BY <1>5, <1>13 DEF RepliesInv

\* _receive, for whoever holds the lock, and before a program leaves too many unread.
LEMMA ReceiveReplies == ASSUME RepliesInv, Receive PROVE RepliesInv'
<1>1. PICK reply : Received(reply)
  BY DEF Receive
<1>2. back # <<>> /\ wire' = wire /\ up' = up /\ pc' = pc /\ held' = held
  BY DEF Receive
<1> QED
  BY <1>1, <1>2, HeldStill, ReceivedKeeps

LEMMA DrainReplies == ASSUME RepliesInv, Drain PROVE RepliesInv'
<1>1. PICK reply : Received(reply)
  BY DEF Drain
<1>2. back # <<>> /\ wire' = wire /\ up' = up /\ pc' = "drained"
  BY DEF Drain
<1> QED
  BY <1>1, <1>2, ReceivedKeeps

\* What changes in the client only beside the accounts.
LEMMA AlikeKeeps ==
  ASSUME RepliesInv, Alike(client', client), wire' = wire, back' = back, up' = up, reads' = reads,
         pc' = "append" => Plainly(held')
  PROVE  RepliesInv'
<1>1. Accounts(client', reads)
  BY Counted, AlikeIs
<1> QED
  BY <1>1 DEF RepliesInv, Accounts

\* Cutting the queue changes nothing of it, and a request that finds it empty breaks off.
LEMMA CutReplies == ASSUME RepliesInv, Cuts \/ CutRaises PROVE RepliesInv'
<1>1. /\ wire' = wire /\ back' = back /\ up' = up /\ reads' = reads /\ (pc' = "append" => Plainly(held'))
  BY DEF Cuts, CutRaises, remote
<1>2. CASE Cuts
  BY <1>1, <1>2, Rested DEF Cuts
<1>3. CASE CutRaises
  <2> DEFINE d == [client EXCEPT !.dead = @ \union client.released, !.released = {}]
  <2>1. client' = d
    BY <1>3 DEF CutRaises
  <2>2. Alike(d, client)
    BY DEF RepliesInv, Good, Shaped, Alike, ClientFields
  <2> HIDE DEF d
  <2>3. Alike(client', client)
    BY <2>1, <2>2
  <2> QED
    BY <1>1, <2>3, AlikeKeeps
<1> QED
  BY <1>2, <1>3

\* A channel that ended, and the linger thread.
LEMMA LostReplies == ASSUME RepliesInv, Lost \/ SideLost PROVE RepliesInv'
<1> DEFINE d == [client EXCEPT !.lost = TRUE]
<1>1. client' = d /\ wire' = wire /\ back' = back /\ up' = up /\ reads' = reads
  BY DEF Lost, SideLost, remote
<1>2. pc' = "lost" \/ (pc' = pc /\ held' = held)
  BY DEF Lost, SideLost
<1>3. Alike(d, client)
  BY DEF RepliesInv, Good, Shaped, Alike, ClientFields
<1> HIDE DEF d
<1>4. Alike(client', client)
  BY <1>1, <1>3
<1>5. pc' = "append" => Plainly(held')
  BY <1>2, HeldStill
<1> QED
  BY <1>1, <1>4, <1>5, AlikeKeeps

LEMMA LingerReplies == ASSUME RepliesInv, Linger PROVE RepliesInv'
<1>1. /\ Puts(FlushAll(client, <<>>, <<>>)) /\ back' = back /\ up' = up /\ reads' = reads
      /\ pc' = pc /\ held' = held
  BY DEF Linger, remote
<1>2. Accounts(FlushAll(client, <<>>, <<>>), reads)
  BY Counted, FlushKeeps
<1> QED
  BY <1>1, <1>2, HeldStill, PutsKeep DEF Accounts
\* The sender takes a message, and its write returns.
LEMMA TakenReplies == ASSUME RepliesInv, SendTake PROVE RepliesInv'
<1> DEFINE d == [client EXCEPT !.sending = <<Head(client.outbox)>>, !.outbox = Tail(@)]
<1>1. /\ client' = d /\ wire' = wire /\ back' = back /\ up' = up /\ reads' = reads /\ pc' = pc /\ held' = held
      /\ client.outbox # <<>> /\ client.sending = <<>>
  BY DEF SendTake, remote
<1>2. Good(client, wire, Len(back), up, reads, {}) /\ client.direct = <<>>
  BY DEF RepliesInv
<1>3. /\ DOMAIN d = ClientFields /\ d.queue = client.queue /\ d.replies = client.replies /\ d.direct = client.direct
      /\ d.outbox = Tail(client.outbox) /\ d.sending = <<Head(client.outbox)>>
  BY <1>2 DEF Good, Shaped, ClientFields
<1> HIDE DEF d
<1>4. Good(d, wire, Len(back), up, reads, {})
  BY <1>1, <1>2, <1>3, SendTakeGood
<1> QED
  BY <1>1, <1>2, <1>3, <1>4 DEF RepliesInv

LEMMA WrittenReplies == ASSUME RepliesInv, SendDone PROVE RepliesInv'
<1> DEFINE d == [client EXCEPT !.sending = <<>>, !.lost = @ \/ ~up]
<1>1. /\ client' = d /\ back' = back /\ up' = up /\ reads' = reads /\ pc' = pc /\ held' = held
      /\ wire' = IF up THEN wire \o client.sending ELSE wire
  BY DEF SendDone, remote
<1>2. Good(client, wire, Len(back), up, reads, {}) /\ client.direct = <<>>
  BY DEF RepliesInv
<1>3. /\ DOMAIN d = ClientFields /\ d.queue = client.queue /\ d.replies = client.replies /\ d.direct = <<>>
      /\ d.outbox = client.outbox /\ d.sending = <<>>
  BY <1>2 DEF Good, Shaped, ClientFields
<1> HIDE DEF d
<1>4. Good(d, wire', Len(back), up, reads, {})
  BY <1>1, <1>2, <1>3, SendDoneGood
<1> QED
  BY <1>1, <1>2, <1>3, <1>4 DEF RepliesInv

\* The message that ends the executor goes behind all that is queued.
LEMMA CloseReplies == ASSUME RepliesInv, Close PROVE RepliesInv'
<1> DEFINE end == [entries |-> <<>>, release |-> {}, reply |-> FALSE, close |-> TRUE]
           c == FlushAll(Appended(FALSE, FALSE), <<>>, <<>>)
           d == [c EXCEPT !.closed = TRUE, !.outbox = Append(@, end)]
<1>1. Puts(d) /\ back' = back /\ up' = up /\ reads' = reads /\ pc' = "closing"
  BY DEF Close, remote
<1>2. ~end.reply
  OBVIOUS
<1>3. Accounts(c, reads)
  BY AppendedKeeps, FlushKeeps
<1> HIDE DEF c, end
<1>4. /\ DOMAIN d = ClientFields /\ d.queue = c.queue /\ d.replies = c.replies /\ d.direct = c.direct
      /\ d.outbox = Append(c.outbox, end) /\ d.sending = c.sending
  BY <1>3 DEF Accounts, Good, Shaped, ClientFields
<1> HIDE DEF d
<1>5. Good(d, wire, Len(back), up, reads, {})
  BY <1>2, <1>3, <1>4, LastGood DEF Accounts
<1> QED
  BY <1>1, <1>5, PutsKeep

\* The executor runs a message, or ends.
LEMMA RunReplies == ASSUME RepliesInv, WorkerRuns PROVE RepliesInv'
<1>1. /\ up /\ wire # <<>> /\ wire' = Tail(wire) /\ client' = client /\ reads' = reads /\ pc' = pc /\ held' = held
  BY DEF WorkerRuns
<1>2. /\ Good(client, wire, Len(back), up, reads, {}) /\ client.direct = <<>> /\ Whole(back) /\ Len(back) \in Nat
      /\ pc' = "append" => Plainly(held')
  BY <1>1, Counted DEF RepliesInv
<1>3. CASE Head(wire).close
  <2>1. up' = FALSE /\ back' = back
    BY <1>3 DEF WorkerRuns
  <2>2. Whole(wire')
    <3>1. Whole(wire)
      BY <1>2 DEF Good, Shaped
    <3> QED
      BY <1>1, <3>1, JoinedHead
  <2>3. Good(client, wire', Len(back), FALSE, reads, {})
    BY <1>2, <2>2, DownGood
  <2> QED
    BY <1>1, <1>2, <2>1, <2>3 DEF RepliesInv
<1>4. CASE ~Head(wire).close
  <2>1. /\ up' = up
        /\ \/ Head(wire).reply /\ \E answer : back' = Append(back, answer)
           \/ ~Head(wire).reply /\ back' = back
    BY <1>4 DEF WorkerRuns
  <2>2. Good(client, Tail(wire), IF Head(wire).reply THEN Len(back) + 1 ELSE Len(back), up, reads, {})
    BY <1>1, <1>2, RunsGood
  <2>3. Whole(back') /\ Len(back') = IF Head(wire).reply THEN Len(back) + 1 ELSE Len(back)
    <3>1. CASE Head(wire).reply
      <4>1. PICK answer : back' = Append(back, answer)
        BY <2>1, <3>1
      <4>2. Whole(Append(back, answer)) /\ Len(Append(back, answer)) = Len(back) + 1
        BY <1>2, WholeAppend
      <4> QED
        BY <3>1, <4>1, <4>2
    <3>2. CASE ~Head(wire).reply
      BY <1>2, <2>1, <3>2
    <3> QED
      BY <3>1, <3>2
  <2> QED
    BY <1>1, <1>2, <2>1, <2>2, <2>3 DEF RepliesInv
<1> QED
  BY <1>3, <1>4

\* The worker is lost with what was on the wire.
LEMMA DieReplies == ASSUME RepliesInv, WorkerDies PROVE RepliesInv'
<1>1. /\ up' = FALSE /\ wire' = <<>> /\ client' = client /\ back' = back /\ reads' = reads /\ pc' = pc /\ held' = held
  BY DEF WorkerDies
<1>2. Good(client, wire, Len(back), up, reads, {}) /\ client.direct = <<>> /\ Whole(back)
  BY DEF RepliesInv
<1>3. Whole(<<>>)
  BY NothingAdds DEF Adds
<1>4. Good(client, <<>>, Len(back), FALSE, reads, {})
  BY <1>2, <1>3, DownGood
<1> QED
  BY <1>1, <1>2, <1>4 DEF RepliesInv

-----------------------------------------------------------------------------
\* Every step keeps the accounts.
LEMMA RepliesStep == ASSUME RepliesInv, CutKnown, Next PROVE RepliesInv'
<1>1. CASE Take \/ MatchOp \/ MatchLast \/ SendOp \/ Delete \/ Post \/ ReadLater
  BY <1>1, TakeReplies, MatchReplies, LastReplies, SendReplies, DeleteReplies, PostReplies, LaterReplies
<1>2. CASE Fetch \/ ReadValue \/ Synchronize \/ LiveHandles \/ ExecuteNow \/ Returns
  BY <1>2, FetchReplies, ValueReplies, SyncReplies, CountReplies, ExecuteReplies, ReturnsReplies
<1>3. CASE StartWait \/ EndWait \/ Await \/ SideStarts \/ SideEnds \/ Closed
  BY <1>3, WaitReplies, SideReplies, MovesReplies
<1>4. CASE Receive \/ Drain \/ Lost \/ SideLost \/ Linger
  BY <1>4, ReceiveReplies, DrainReplies, LostReplies, LingerReplies
<1>5. CASE SendTake \/ SendDone \/ Close \/ WorkerRuns \/ WorkerDies
  BY <1>5, TakenReplies, WrittenReplies, CloseReplies, RunReplies, DieReplies
<1>6. CASE Rests
  BY <1>6 DEF Rests, vars, threads, remote, RepliesInv
<1>7. CASE Cuts \/ CutRaises
  BY <1>7, CutReplies
<1> QED
  BY <1>1, <1>2, <1>3, <1>4, <1>5, <1>6, <1>7 DEF Next

\* With nothing of its own in the program's hands, the pipe is what the property looks at.
LEMMA RepliesFollow == ASSUME RepliesInv PROVE RepliesOwned
<1>1. Shaped(client, wire, reads) /\ Outstanding(client, reads, {}) /\ Ordered(client, wire, Len(back), up, reads)
      /\ client.direct = <<>>
  BY DEF RepliesInv, Good
<1>2. Pipe(client, wire) = wire \o client.sending \o client.outbox
  <2>1. wire \o client.direct = wire
    BY <1>1, Joined DEF Shaped
  <2> QED
    BY <2>1 DEF Pipe
<1>3. up => LET asking == Replying(wire \o client.sending \o client.outbox)
                n == Len(back)
            IN  /\ Len(client.replies) = n + Len(asking)
                /\ \A i \in DOMAIN asking : Owned(asking[i], client.replies[n + i], reads)
  <2> SUFFICES ASSUME up
               PROVE  LET asking == Replying(wire \o client.sending \o client.outbox)
                          n == Len(back)
                      IN  /\ Len(client.replies) = n + Len(asking)
                          /\ \A i \in DOMAIN asking : Owned(asking[i], client.replies[n + i], reads)
    OBVIOUS
  <2> DEFINE asking == Replying(Pipe(client, wire))
  <2>1. /\ Len(client.replies) = Len(back) + Len(asking)
        /\ \A i \in 1 .. Len(asking) : Owned(asking[i], client.replies[Len(back) + i], reads)
    BY <1>1 DEF Ordered, Matched
  <2>2. Whole(asking)
    BY <1>1, PipeWhole, ReplyingAre
  <2>3. DOMAIN asking = 1 .. Len(asking)
    BY <2>2, WholeIs DEF Whole
  <2> HIDE DEF asking
  <2>4. asking = Replying(wire \o client.sending \o client.outbox)
    BY <1>2 DEF asking
  <2> QED
    BY <2>1, <2>3, <2>4
<1>4. /\ \A r \in DOMAIN reads : reads[r].done <=> ~Queued(client, r) /\ ~Owes(client, r)
      /\ \A r \in DOMAIN reads : ~(Queued(client, r) /\ Owes(client, r))
  BY <1>1 DEF Outstanding
<1> QED
  BY <1>3, <1>4 DEF RepliesOwned
\* Every reply on its way is for the readers noted for it, and a read is queued or owed a reply
\* and not both until it is done, whatever the program, whenever the linger and the sender
\* thread run, though the linger thread may send the queue a request has just cut for its read, and
\* with or without a loss of the worker: _flush notes the readers where it posts
\* the message, _send_loop keeps the order, and _receive takes both from the front.
THEOREM ReadersCorrect == (Spec => []RepliesOwned) /\ (MCSpec => []RepliesOwned)
<1>1. Init => RepliesInv /\ CutKnown
  BY RepliesStart, CutStart
<1>2. RepliesInv /\ CutKnown /\ [Next]_vars => RepliesInv' /\ CutKnown'
  <2>1. ASSUME RepliesInv, UNCHANGED vars PROVE RepliesInv'
    BY <2>1 DEF RepliesInv, vars, threads, remote
  <2>2. ASSUME CutKnown, UNCHANGED vars PROVE CutKnown'
    BY <2>2 DEF CutKnown, vars
  <2> QED
    BY <2>1, <2>2, RepliesStep, CutStep
<1>3. RepliesInv => RepliesOwned
  BY RepliesFollow
<1>4. Spec => []RepliesOwned
  BY <1>1, <1>2, <1>3, PTL DEF Spec
<1>5. MCInit => Init
  BY DEF MCInit
<1>6. [MCNext]_<<part, vars, uploadVars, mappingVars, driverVars>> => [Next]_vars
  BY DEF MCNext
<1>7. MCSpec => []RepliesOwned
  BY <1>1, <1>2, <1>3, <1>5, <1>6, PTL DEF MCSpec
<1> QED
  BY <1>4, <1>7

-----------------------------------------------------------------------------
\* The driver of the two parts, as DriverProofs has it.
One == INSTANCE DriverProofs WITH Threads <- {1, 2}, Processes <- 1, queue <- pending, wire <- socket
Again == INSTANCE DriverProofs WITH Threads <- {1}, Processes <- 2, queue <- pending, wire <- socket

\* No allocation is larger than the distance between two virtual pointers.
SizesFit == Spacing \in Nat \ {0} /\ Sizes \subseteq 1 .. Spacing

\* One process of two threads.
LEMMA SameDriver ==
  /\ Driver!DriverInit => One!DriverInit
  /\ [Driver!DriverNext]_driverVars => [One!DriverNext]_One!driverVars
  /\ One!CopiesRight => Driver!CopiesRight
  /\ One!AgentTracks => Driver!AgentTracks
<1>1. Driver!DriverInit => One!DriverInit
  BY DEF Driver!DriverInit, Driver!Idle, Driver!Nothing, One!DriverInit, One!Idle, One!Nothing
<1>2. Driver!DriverNext => One!DriverNext
  BY DEF Driver!DriverNext, Driver!Idle, Driver!Nothing, Driver!Failed, Driver!PointerOf,
          Driver!HandleOf, Driver!OffsetOf, Driver!FreeUnits, Driver!Given, Driver!Pointers,
          Driver!Usable, Driver!Attaches, Driver!Allocates, Driver!Frees, Driver!Unlocked,
          Driver!By, Driver!Sends, Driver!Queues, Driver!CopiesIn, Driver!AsksAfter,
          Driver!CopiesOut, Driver!Answered, Driver!TimesOut, Driver!Exits, Driver!Held,
          Driver!Cells, Driver!Obeys, Driver!Serves, Driver!SumFunction, Driver!SumFunctionOnSet,
          Driver!FoldFunctionOnSet, Driver!MapThenFoldSet, One!DriverNext, One!Idle, One!Nothing,
          One!Failed, One!PointerOf, One!HandleOf, One!OffsetOf, One!FreeUnits, One!Given,
          One!Pointers, One!Usable, One!Attaches, One!Allocates, One!Frees, One!Unlocked, One!By,
          One!Sends, One!Queues, One!CopiesIn, One!AsksAfter, One!CopiesOut, One!Answered,
          One!TimesOut, One!Exits, One!Held, One!Cells, One!Obeys, One!Serves, One!SumFunction,
          One!SumFunctionOnSet, One!FoldFunctionOnSet, One!MapThenFoldSet
<1>3. UNCHANGED driverVars => UNCHANGED One!driverVars
  BY DEF driverVars, One!driverVars
<1>4. (One!CopiesRight => Driver!CopiesRight) /\ (One!AgentTracks => Driver!AgentTracks)
  BY DEF Driver!CopiesRight, Driver!AgentTracks, One!CopiesRight, One!AgentTracks
<1> QED
  BY <1>1, <1>2, <1>3, <1>4

\* Two processes of one thread, one after the other.
LEMMA SameDrivers ==
  /\ DriverAgain!DriverInit => Again!DriverInit
  /\ [DriverAgain!DriverNext]_driverVars => [Again!DriverNext]_Again!driverVars
  /\ Again!CopiesRight => DriverAgain!CopiesRight
  /\ Again!AgentTracks => DriverAgain!AgentTracks
<1>1. DriverAgain!DriverInit => Again!DriverInit
  BY DEF DriverAgain!DriverInit, DriverAgain!Idle, DriverAgain!Nothing, Again!DriverInit,
          Again!Idle, Again!Nothing
<1>2. DriverAgain!DriverNext => Again!DriverNext
  BY DEF DriverAgain!DriverNext, DriverAgain!Idle, DriverAgain!Nothing, DriverAgain!Failed,
          DriverAgain!PointerOf, DriverAgain!HandleOf, DriverAgain!OffsetOf,
          DriverAgain!FreeUnits, DriverAgain!Given, DriverAgain!Pointers, DriverAgain!Usable,
          DriverAgain!Attaches, DriverAgain!Allocates, DriverAgain!Frees, DriverAgain!Unlocked,
          DriverAgain!By, DriverAgain!Sends, DriverAgain!Queues, DriverAgain!CopiesIn,
          DriverAgain!AsksAfter, DriverAgain!CopiesOut, DriverAgain!Answered,
          DriverAgain!TimesOut, DriverAgain!Exits, DriverAgain!Held, DriverAgain!Cells,
          DriverAgain!Obeys, DriverAgain!Serves, DriverAgain!SumFunction,
          DriverAgain!SumFunctionOnSet, DriverAgain!FoldFunctionOnSet, DriverAgain!MapThenFoldSet,
          Again!DriverNext, Again!Idle, Again!Nothing, Again!Failed, Again!PointerOf,
          Again!HandleOf, Again!OffsetOf, Again!FreeUnits, Again!Given, Again!Pointers,
          Again!Usable, Again!Attaches, Again!Allocates, Again!Frees, Again!Unlocked, Again!By,
          Again!Sends, Again!Queues, Again!CopiesIn, Again!AsksAfter, Again!CopiesOut,
          Again!Answered, Again!TimesOut, Again!Exits, Again!Held, Again!Cells, Again!Obeys,
          Again!Serves, Again!SumFunction, Again!SumFunctionOnSet, Again!FoldFunctionOnSet,
          Again!MapThenFoldSet
<1>3. UNCHANGED driverVars => UNCHANGED Again!driverVars
  BY DEF driverVars, Again!driverVars
<1>4. (Again!CopiesRight => DriverAgain!CopiesRight) /\ (Again!AgentTracks => DriverAgain!AgentTracks)
  BY DEF DriverAgain!CopiesRight, DriverAgain!AgentTracks, Again!CopiesRight, Again!AgentTracks
<1> QED
  BY <1>1, <1>2, <1>3, <1>4

\* A copy back returns what was copied there last, and the agent holds what the table says, while
\* two threads share the connection and while a process takes the agent over from another.
THEOREM DriversCorrect == SizesFit => (MCSpec => []DriverKept)
<1> DEFINE Inv == IF part = "drivers" THEN Again!DriverInv ELSE One!DriverInv
<1> SUFFICES ASSUME SizesFit PROVE MCSpec => []DriverKept
  OBVIOUS
<1>1. One!DriverConstants /\ Again!DriverConstants
  BY DEF SizesFit, One!DriverConstants, Again!DriverConstants
<1>2. MCInit => Inv
  BY <1>1, One!DriverInits, Again!DriverInits, SameDriver, SameDrivers DEF MCInit
<1>3. Inv /\ [MCNext]_<<part, vars, uploadVars, mappingVars, driverVars>> => Inv'
  <2> SUFFICES ASSUME Inv, [MCNext]_<<part, vars, uploadVars, mappingVars, driverVars>> PROVE Inv'
    OBVIOUS
  <2>1. /\ part' = part
        /\ part = "drivers" => [DriverAgain!DriverNext]_driverVars
        /\ part # "drivers" => [Driver!DriverNext]_driverVars
    BY DEF MCNext
  <2>2. CASE part = "drivers"
    <3>1. Again!DriverInv /\ [Again!DriverNext]_Again!driverVars
      BY <2>1, <2>2, SameDrivers
    <3>2. Again!DriverInv'
      BY <1>1, <3>1, Again!DriverSteps
    <3> QED
      BY <2>1, <2>2, <3>2
  <2>3. CASE part # "drivers"
    <3>1. One!DriverInv /\ [One!DriverNext]_One!driverVars
      BY <2>1, <2>3, SameDriver
    <3>2. One!DriverInv'
      BY <1>1, <3>1, One!DriverSteps
    <3> QED
      BY <2>1, <2>3, <3>2
  <2> QED
    BY <2>2, <2>3
<1>4. Inv => DriverKept
  <2> SUFFICES ASSUME Inv PROVE DriverKept
    OBVIOUS
  <2>1. CASE part = "drivers"
    <3>1. Again!CopiesRight /\ Again!AgentTracks
      BY <1>1, <2>1, Again!DriverHolds
    <3>2. Driver!CopiesRight
      BY <3>1 DEF Driver!CopiesRight, Again!CopiesRight
    <3> QED
      BY <2>1, <3>1, <3>2, SameDrivers DEF DriverKept
  <2>2. CASE part # "drivers"
    <3>1. One!CopiesRight /\ One!AgentTracks
      BY <1>1, <2>2, One!DriverHolds
    <3> QED
      BY <2>2, <3>1, SameDriver DEF DriverKept
  <2> QED
    BY <2>1, <2>2
<1> QED
  BY <1>2, <1>3, <1>4, PTL DEF MCSpec
=============================================================================
