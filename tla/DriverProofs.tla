----------------------------- MODULE DriverProofs -----------------------------
(***************************************************************************)
(* Proofs about the stand-in for the CUDA driver: a copy back from the     *)
(* device returns what was copied there last, and the agent holds what the *)
(* table of the process says, for any number of threads, of processes one  *)
(* after the other, of allocations and of requests queued and on their way.*)
(***************************************************************************)
EXTENDS CudaDriver, SequenceTheorems, TLAPS

\* The constants: no allocation is larger than the distance between two virtual pointers.
DriverConstants ==
  /\ Spacing \in Nat \ {0} /\ Sizes \subseteq 1 .. Spacing /\ Processes \in Nat \ {0}

Cell == Threads \cup {0}
Call == [op : {"idle"}] \cup [op : {"allocate"}, handle : Nat, units : Sizes]
        \cup [op : {"free"}, handle : Nat] \cup [op : {"write"}, pointer : Nat, value : Threads]
        \cup [op : {"wait"}, pointer : Nat, wants : Threads]
Request == {m \in [op : {"allocate", "free", "write", "wait"}, by : 1 .. Processes, call : Call] :
              m.op = m.call.op}

DriverTypes ==
  /\ process \in 1 .. Processes /\ attached \in BOOLEAN /\ late \in BOOLEAN /\ misread \in BOOLEAN
  /\ next \in Nat \ {0} /\ DOMAIN live \subseteq 1 .. next - 1 /\ \A h \in DOMAIN live : live[h] \in Sizes
  /\ at \in [Threads -> Call] /\ \A t \in Threads : at[t].op # "write"
  /\ wire \in Seq(Request) /\ queue \in Seq(Request) /\ answers \in Seq(Cell \cup {Failed})
  /\ DOMAIN device = 1 .. Processes
  /\ \A p \in 1 .. Processes : \A h \in DOMAIN device[p] : device[p][h] \in Seq(Cell)
  /\ \A p \in DOMAIN written : p \in Nat /\ written[p] \in Threads

\* Every request of the process that is not served yet, in the order the agent will see them.
Pending == wire \o queue
Asked(i, op) == i \in 1 .. Len(Pending) /\ Pending[i].by = process /\ Pending[i].op = op
AllocAt(i, h) == Asked(i, "allocate") /\ Pending[i].call.handle = h
FreeAt(i, h) == Asked(i, "free") /\ Pending[i].call.handle = h
WriteAt(i, p) == Asked(i, "write") /\ Pending[i].call.pointer = p
\* A thread has changed the table and not queued the request yet.
InHand(op, h) == \E t \in Threads : at[t].op = op /\ at[t].handle = h
Mine == device[process]

\* While a process is attached the agent serves nobody else; before that the process has nothing.
Attachment ==
  /\ \A i \in 1 .. Len(Pending) : Pending[i].by <= process /\ (attached => Pending[i].by = process)
  /\ \A p \in process + 1 .. Processes : DOMAIN device[p] = {}
  /\ ~attached => /\ DOMAIN live = {} /\ DOMAIN written = {} /\ DOMAIN Mine = {} /\ refused = {}
                  /\ queue = <<>> /\ answers = <<>> /\ ~late /\ (\A t \in Threads : at[t].op = "idle")
                  /\ \A i \in 1 .. Len(Pending) : Pending[i].by # process

\* An allocation is asked for once, before it is freed; a handle is at one place between the
\* table and the device at any time.
AskedOnce ==
  \A i \in Nat, h \in Nat : AllocAt(i, h) =>
    /\ h < next /\ h \notin DOMAIN Mine /\ h \notin refused /\ ~InHand("allocate", h)
    /\ \A j \in Nat : AllocAt(j, h) => i = j
    /\ h \in DOMAIN live => Pending[i].call.units = live[h]
    /\ h \notin DOMAIN live => InHand("free", h) \/ \E j \in Nat : FreeAt(j, h)
FreedAfter ==
  \A i \in Nat, h \in Nat : FreeAt(i, h) =>
    h < next /\ h \notin DOMAIN live /\ \A j \in Nat : AllocAt(j, h) => j < i
HandsHold ==
  /\ \A t \in Threads : at[t].op = "allocate" =>
       /\ at[t].handle \in DOMAIN live /\ live[at[t].handle] = at[t].units
       /\ at[t].handle \notin DOMAIN Mine /\ at[t].handle \notin refused
       /\ \A u \in Threads : at[u].op = "allocate" /\ at[u].handle = at[t].handle => u = t
  /\ \A t \in Threads : at[t].op = "free" => at[t].handle \notin DOMAIN live /\ at[t].handle < next
LiveSomewhere ==
  \A h \in DOMAIN live :
    \/ InHand("allocate", h) \/ (\E i \in Nat : AllocAt(i, h)) \/ h \in refused
    \/ h \in DOMAIN Mine /\ Len(Mine[h]) = live[h]
DeviceKnown ==
  /\ \A h \in DOMAIN Mine : /\ h \in Nat /\ h < next /\ h \notin refused
                            /\ h \notin DOMAIN live => InHand("free", h) \/ \E i \in Nat : FreeAt(i, h)
  /\ \A h \in refused : h \in Nat /\ h < next

\* What the program copied last is the last write on its way, or else in the cell.
LastWrite(p) ==
  \E i \in Nat : /\ WriteAt(i, p) /\ Pending[i].call.value = written[p]
                 /\ \A j \in Nat : (WriteAt(j, p) => j <= i) /\ (AllocAt(j, HandleOf(p)) => j < i)
InCell(p) ==
  /\ \A j \in Nat : ~WriteAt(j, p) /\ ~AllocAt(j, HandleOf(p))
  /\ Cells(process, p) => Mine[HandleOf(p)][OffsetOf(p) + 1] = written[p]
Memory ==
  \A p \in DOMAIN written :
    /\ HandleOf(p) \in DOMAIN live /\ p \in Pointers(HandleOf(p)) /\ ~InHand("allocate", HandleOf(p))
    /\ LastWrite(p) \/ InCell(p)

\* One thread waits at a time; its question is the last request on its way, or its answer is there.
Question(t) ==
  /\ answers = <<>>
  /\ \E i \in Nat : /\ Asked(i, "wait") /\ Pending[i].call.pointer = at[t].pointer
                    /\ \A j \in Nat : (Asked(j, "wait") => j = i) /\ (WriteAt(j, at[t].pointer) => j < i)
Answer(t) ==
  /\ \A j \in Nat : ~Asked(j, "wait")
  /\ Len(answers) = 1 /\ answers[1] \in {Failed, at[t].wants}
Reading ==
  ~late =>
    /\ \A t, u \in Threads : at[t].op = "wait" /\ at[u].op = "wait" => t = u
    /\ (\A t \in Threads : at[t].op # "wait") => answers = <<>> /\ \A i \in Nat : ~Asked(i, "wait")
    /\ \A t \in Threads : at[t].op = "wait" =>
         /\ at[t].pointer \in DOMAIN written /\ at[t].wants = written[at[t].pointer]
         /\ Question(t) \/ Answer(t)

DriverInv ==
  /\ DriverTypes /\ Attachment /\ AskedOnce /\ FreedAfter /\ HandsHold /\ LiveSomewhere /\ DeviceKnown
  /\ Memory /\ Reading /\ ~misread

-----------------------------------------------------------------------------
\* Virtual pointers: a pointer into an allocation names its handle, and two pointers that name
\* one handle and one offset are the same.
LEMMA PointersOf ==
  ASSUME DriverConstants, DriverTypes
  PROVE  /\ \A h \in DOMAIN live : h \in Nat /\ live[h] \in 1 .. Spacing
         /\ \A h \in DOMAIN live, p \in Nat : p \in Pointers(h) => HandleOf(p) = h
         /\ \A p \in Nat : HandleOf(p) \in Nat /\ OffsetOf(p) \in Nat
         /\ \A p, q \in Nat : HandleOf(p) = HandleOf(q) /\ OffsetOf(p) = OffsetOf(q) => p = q
<1>1. ASSUME NEW h \in DOMAIN live PROVE h \in Nat /\ live[h] \in 1 .. Spacing
  <2>1. h \in 1 .. next - 1 /\ next \in Nat \ {0}
    BY DEF DriverTypes
  <2>2. live[h] \in Sizes
    BY DEF DriverTypes
  <2>3. h \in Nat
    BY <2>1
  <2>4. live[h] \in 1 .. Spacing
    BY <2>2 DEF DriverConstants
  <2> QED
    BY <2>3, <2>4
<1>2. ASSUME NEW h \in DOMAIN live, NEW p \in Nat, p \in Pointers(h) PROVE HandleOf(p) = h
  <2>1. h * Spacing <= p /\ p < h * Spacing + Spacing /\ h \in Nat /\ Spacing \in Nat \ {0}
    <3>1. p \in h * Spacing .. h * Spacing + live[h] - 1
      BY <1>2 DEF Pointers, PointerOf
    <3>2. h * Spacing \in Nat /\ live[h] \in Nat /\ live[h] <= Spacing /\ Spacing \in Nat \ {0}
      BY <1>1 DEF DriverConstants
    <3> QED
      BY <1>1, <3>1, <3>2
  <2>2. p \div Spacing = h
    BY <2>1
  <2> QED
    BY <2>2 DEF HandleOf
<1>3. ASSUME NEW p \in Nat PROVE HandleOf(p) \in Nat /\ OffsetOf(p) \in Nat
  BY DEF HandleOf, OffsetOf, DriverConstants
<1>4. ASSUME NEW p \in Nat, NEW q \in Nat, HandleOf(p) = HandleOf(q), OffsetOf(p) = OffsetOf(q)
      PROVE  p = q
  BY <1>4 DEF HandleOf, OffsetOf, DriverConstants
<1> QED
  BY <1>1, <1>2, <1>3, <1>4

\* What is queued goes to the end of what is pending, however much of the buffer goes out.
LEMMA Sending ==
  ASSUME DriverTypes, NEW call \in Call, call.op \in {"allocate", "free", "write", "wait"}, Sends(call)
  PROVE  /\ By(call) \in Request /\ Unlocked /\ Pending' = Append(Pending, By(call))
         /\ wire' \in Seq(Request) /\ queue' \in Seq(Request) /\ Pending \in Seq(Request)
<1> DEFINE m == By(call)
           all == Append(queue, m)
<1>1. m \in Request
  BY DEF By, Request, DriverTypes
<1> HIDE DEF m
<1>2. /\ wire \in Seq(Request) /\ queue \in Seq(Request) /\ Pending \in Seq(Request)
      /\ all \in Seq(Request) /\ Len(all) = Len(queue) + 1 /\ Len(queue) \in Nat
  BY <1>1, AppendProperties, ConcatProperties, LenProperties DEF DriverTypes, Pending
<1>3. PICK n \in 0 .. Len(all) : wire' = wire \o SubSeq(all, 1, n) /\ queue' = SubSeq(all, n + 1, Len(all))
  <2>1. PICK n \in {0, Len(queue), Len(all)} : wire' = wire \o SubSeq(all, 1, n) /\ queue' = SubSeq(all, n + 1, Len(all))
    BY DEF Sends, m
  <2>2. n \in 0 .. Len(all)
    BY <1>2
  <2> QED
    BY <2>1, <2>2
<1> HIDE DEF all
<1>4. Len(all) \in Nat /\ \A i \in 1 .. Len(all) : all[i] \in Request
  BY <1>2, ElementOfSeq
<1>5. SubSeq(all, 1, n) \in Seq(Request) /\ SubSeq(all, n + 1, Len(all)) \in Seq(Request)
  BY <1>4, SubSeqProperties
<1>6. SubSeq(all, 1, n) \o SubSeq(all, n + 1, Len(all)) = all
  <2>1. 1 \in 1 .. Len(all) + 1 /\ n \in 1 - 1 .. Len(all) /\ Len(all) \in n .. Len(all)
    BY <1>4
  <2>2. SubSeq(all, 1, n) \o SubSeq(all, n + 1, Len(all)) = SubSeq(all, 1, Len(all))
    BY <1>2, <2>1, ConcatAdjacentSubSeq
  <2> QED
    BY <1>2, <2>2, SubSeqFull
<1>7. wire' \in Seq(Request) /\ queue' \in Seq(Request)
  BY <1>2, <1>3, <1>5, ConcatProperties
<1>8. Pending' = wire \o all
  <2> DEFINE one == SubSeq(all, 1, n)
             two == SubSeq(all, n + 1, Len(all))
  <2>1. Pending' = (wire \o one) \o two
    BY <1>3 DEF Pending
  <2>2. one \o two = all
    BY <1>6
  <2>4. wire \in Seq(Request) /\ one \in Seq(Request) /\ two \in Seq(Request)
    BY <1>2, <1>5
  <2> HIDE DEF one, two
  <2>3. (wire \o one) \o two = wire \o (one \o two)
    BY ONLY <2>4
  <2> QED
    BY <2>1, <2>2, <2>3
<1>9. wire \o all = Append(Pending, m)
  <2>1. all = queue \o <<m>> /\ Append(Pending, m) = Pending \o <<m>> /\ <<m>> \in Seq(Request)
    BY <1>1, <1>2, AppendIsConcat DEF all
  <2>2. (wire \o queue) \o <<m>> = wire \o (queue \o <<m>>)
    BY <1>2, <2>1, ConcatAssociative
  <2> QED
    BY <2>1, <2>2 DEF Pending
<1> QED
  BY <1>1, <1>2, <1>7, <1>8, <1>9 DEF Sends, m

\* A question goes behind everything that is pending.
LEMMA Asking ==
  ASSUME DriverTypes, NEW call \in Call, call.op \in {"allocate", "free", "write", "wait"}, AsksAfter(call)
  PROVE  /\ By(call) \in Request /\ Pending' = Append(Pending, By(call))
         /\ wire' \in Seq(Request) /\ queue' \in Seq(Request) /\ Pending \in Seq(Request)
<1> DEFINE m == By(call)
<1>1. m \in Request
  BY DEF By, Request, DriverTypes
<1>2. wire' = (wire \o queue) \o <<m>> /\ queue' = <<>>
  BY DEF AsksAfter
<1> HIDE DEF m
<1>3. Pending \in Seq(Request) /\ <<m>> \in Seq(Request)
  BY <1>1, ConcatProperties DEF DriverTypes, Pending
<1>4. wire' = Append(Pending, m) /\ Append(Pending, m) \in Seq(Request)
  BY <1>1, <1>2, <1>3, AppendIsConcat, AppendProperties DEF Pending
<1>5. Pending' = Append(Pending, m)
  BY <1>2, <1>4, ConcatEmptySeq DEF Pending
<1> QED
  BY <1>1, <1>2, <1>3, <1>4, <1>5, EmptySeq DEF m

\* What is served is the first of what is pending.
LEMMA Serving ==
  ASSUME DriverTypes, wire # <<>>, wire' = Tail(wire), queue' = queue
  PROVE  /\ Pending \in Seq(Request) /\ Len(Pending) \in Nat \ {0} /\ Len(Pending') = Len(Pending) - 1
         /\ Pending[1] = Head(wire) /\ Head(wire) \in Request
         /\ \A i \in 1 .. Len(Pending) - 1 : Pending'[i] = Pending[i + 1]
         /\ wire' \in Seq(Request)
<1>1. wire \in Seq(Request) /\ queue \in Seq(Request) /\ Tail(wire) \in Seq(Request)
      /\ Len(Tail(wire)) = Len(wire) - 1 /\ Head(wire) \in Request
      /\ \A i \in 1 .. Len(Tail(wire)) : Tail(wire)[i] = wire[i + 1]
  BY HeadTailProperties DEF DriverTypes
<1>2. Len(wire) \in Nat \ {0} /\ Len(queue) \in Nat /\ Head(wire) = wire[1]
  BY <1>1, EmptySeq, LenProperties
<1>3. /\ Pending \in Seq(Request) /\ Len(Pending) = Len(wire) + Len(queue)
      /\ \A i \in 1 .. Len(wire) + Len(queue) :
           Pending[i] = IF i <= Len(wire) THEN wire[i] ELSE queue[i - Len(wire)]
  BY <1>1, ConcatProperties DEF Pending
<1> DEFINE w == Tail(wire)
<1>4. /\ Len(Pending') = Len(w) + Len(queue)
      /\ \A i \in 1 .. Len(w) + Len(queue) :
           Pending'[i] = IF i <= Len(w) THEN w[i] ELSE queue[i - Len(w)]
  BY <1>1, ConcatProperties DEF Pending
<1> HIDE DEF w
<1>5. ASSUME NEW i \in 1 .. Len(Pending) - 1 PROVE Pending'[i] = Pending[i + 1]
  <2>1. i \in 1 .. Len(w) + Len(queue) /\ i + 1 \in 1 .. Len(wire) + Len(queue) /\ Len(w) = Len(wire) - 1
    BY <1>1, <1>2, <1>3 DEF w
  <2>2. CASE i <= Len(w)
    BY <1>1, <1>2, <1>3, <1>4, <2>1, <2>2 DEF w
  <2>3. CASE ~(i <= Len(w))
    <3>1. Pending'[i] = queue[i - Len(w)] /\ Pending[i + 1] = queue[i + 1 - Len(wire)]
      BY <1>2, <1>3, <1>4, <2>1, <2>3
    <3>2. i - Len(w) = i + 1 - Len(wire)
      BY <1>2, <2>1
    <3> QED
      BY <3>1, <3>2
  <2> QED
    BY <2>2, <2>3
<1> QED
  BY <1>1, <1>2, <1>3, <1>4, <1>5 DEF w

-----------------------------------------------------------------------------
\* What is pending keeps its place when nothing is sent and nothing served.
LEMMA Unmoved ==
  ASSUME Pending' = Pending, process' = process
  PROVE  \A i, h \in Nat : /\ AllocAt(i, h)' <=> AllocAt(i, h)
                           /\ FreeAt(i, h)' <=> FreeAt(i, h)
                           /\ WriteAt(i, h)' <=> WriteAt(i, h)
                           /\ Asked(i, "wait")' <=> Asked(i, "wait")
BY DEF AllocAt, FreeAt, WriteAt, Asked

\* A request that is sent is the last; those before it keep their places.
LEMMA Grown ==
  ASSUME Pending \in Seq(Request), NEW m \in Request, m.by = process,
         Pending' = Append(Pending, m), process' = process
  PROVE  \E n \in Nat :
           /\ \A i, h \in Nat :
                /\ AllocAt(i, h)' <=> AllocAt(i, h) \/ (i = n /\ m.op = "allocate" /\ m.call.handle = h)
                /\ FreeAt(i, h)' <=> FreeAt(i, h) \/ (i = n /\ m.op = "free" /\ m.call.handle = h)
                /\ WriteAt(i, h)' <=> WriteAt(i, h) \/ (i = n /\ m.op = "write" /\ m.call.pointer = h)
                /\ Asked(i, "wait")' <=> Asked(i, "wait") \/ (i = n /\ m.op = "wait")
                /\ AllocAt(i, h) \/ FreeAt(i, h) \/ WriteAt(i, h) \/ Asked(i, "wait") =>
                     i < n /\ Pending'[i] = Pending[i]
           /\ Pending'[n] = m
<1> DEFINE n == Len(Pending) + 1
<1>1. /\ Len(Pending) \in Nat /\ Len(Pending') = n /\ Pending'[n] = m /\ n \in Nat
      /\ \A i \in 1 .. Len(Pending) : Pending'[i] = Pending[i]
  BY AppendProperties, LenProperties
<1>2. \A i \in Nat : i \in 1 .. Len(Pending') <=> i \in 1 .. Len(Pending) \/ i = n
  BY <1>1
<1>3. \A i \in 1 .. Len(Pending) : i < n
  BY <1>1
<1> HIDE DEF n
<1>4. ASSUME NEW i \in Nat, NEW op \in {"allocate", "free", "write", "wait"}
      PROVE  /\ Asked(i, op)' <=> Asked(i, op) \/ (i = n /\ m.op = op)
             /\ Asked(i, op) => i < n /\ Pending'[i] = Pending[i]
  <2>1. CASE i \in 1 .. Len(Pending)
    BY <1>1, <1>2, <1>3, <2>1 DEF Asked
  <2>2. CASE i \notin 1 .. Len(Pending)
    BY <1>1, <1>2, <2>2 DEF Asked
  <2> QED
    BY <2>1, <2>2
<1>5. n \in Nat
  BY <1>1 DEF n
<1>6. ASSUME NEW i \in Nat, NEW h \in Nat
      PROVE  /\ AllocAt(i, h)' <=> AllocAt(i, h) \/ (i = n /\ m.op = "allocate" /\ m.call.handle = h)
             /\ FreeAt(i, h)' <=> FreeAt(i, h) \/ (i = n /\ m.op = "free" /\ m.call.handle = h)
             /\ WriteAt(i, h)' <=> WriteAt(i, h) \/ (i = n /\ m.op = "write" /\ m.call.pointer = h)
             /\ Asked(i, "wait")' <=> Asked(i, "wait") \/ (i = n /\ m.op = "wait")
             /\ AllocAt(i, h) \/ FreeAt(i, h) \/ WriteAt(i, h) \/ Asked(i, "wait") =>
                  i < n /\ Pending'[i] = Pending[i]
  <2>1. i = n => Pending'[i] = m
    BY <1>1
  <2>2. \A op \in {"allocate", "free", "write", "wait"} :
          /\ Asked(i, op)' <=> Asked(i, op) \/ (i = n /\ m.op = op)
          /\ Asked(i, op) => i < n /\ Pending'[i] = Pending[i]
    BY <1>4
  <2>3. AllocAt(i, h)' <=> AllocAt(i, h) \/ (i = n /\ m.op = "allocate" /\ m.call.handle = h)
    BY <2>1, <2>2, <1>5 DEF AllocAt
  <2>4. FreeAt(i, h)' <=> FreeAt(i, h) \/ (i = n /\ m.op = "free" /\ m.call.handle = h)
    BY <2>1, <2>2, <1>5 DEF FreeAt
  <2>5. WriteAt(i, h)' <=> WriteAt(i, h) \/ (i = n /\ m.op = "write" /\ m.call.pointer = h)
    BY <2>1, <2>2, <1>5 DEF WriteAt
  <2> QED
    BY <2>2, <2>3, <2>4, <2>5 DEF AllocAt, FreeAt, WriteAt
<1> QED
  BY <1>1, <1>5, <1>6

\* When the first request is served every other moves up by one.
LEMMA Shrunk ==
  ASSUME Len(Pending) \in Nat \ {0}, Len(Pending') = Len(Pending) - 1,
         \A i \in 1 .. Len(Pending) - 1 : Pending'[i] = Pending[i + 1], process' = process
  PROVE  /\ \A i, h \in Nat :
              /\ AllocAt(i, h)' <=> i # 0 /\ AllocAt(i + 1, h)
              /\ FreeAt(i, h)' <=> i # 0 /\ FreeAt(i + 1, h)
              /\ WriteAt(i, h)' <=> i # 0 /\ WriteAt(i + 1, h)
              /\ Asked(i, "wait")' <=> i # 0 /\ Asked(i + 1, "wait")
              /\ AllocAt(i, h) \/ FreeAt(i, h) \/ WriteAt(i, h) \/ Asked(i, "wait") =>
                   i # 0 /\ (i # 1 => Pending'[i - 1] = Pending[i])
<1>1. ASSUME NEW i \in Nat, NEW op \in {"allocate", "free", "write", "wait"}
      PROVE  /\ Asked(i, op)' <=> i # 0 /\ Asked(i + 1, op)
             /\ Asked(i, op) => i # 0 /\ (i # 1 => Pending'[i - 1] = Pending[i])
             /\ Asked(i, op)' => Pending'[i] = Pending[i + 1]
  <2>1. i \in 1 .. Len(Pending') <=> i # 0 /\ i + 1 \in 1 .. Len(Pending)
    OBVIOUS
  <2>2. i \in 1 .. Len(Pending') => Pending'[i] = Pending[i + 1]
    OBVIOUS
  <2>3. i \in 1 .. Len(Pending) /\ i # 1 => i - 1 \in 1 .. Len(Pending) - 1 /\ i - 1 + 1 = i
    OBVIOUS
  <2>4. i \in 1 .. Len(Pending) => i # 0 /\ (i # 1 => Pending'[i - 1] = Pending[i])
    BY <2>3
  <2> QED
    BY <2>1, <2>2, <2>4 DEF Asked
<1>2. ASSUME NEW i \in Nat, NEW h \in Nat
      PROVE  /\ AllocAt(i, h)' <=> i # 0 /\ AllocAt(i + 1, h)
             /\ FreeAt(i, h)' <=> i # 0 /\ FreeAt(i + 1, h)
             /\ WriteAt(i, h)' <=> i # 0 /\ WriteAt(i + 1, h)
             /\ Asked(i, "wait")' <=> i # 0 /\ Asked(i + 1, "wait")
             /\ AllocAt(i, h) \/ FreeAt(i, h) \/ WriteAt(i, h) \/ Asked(i, "wait") =>
                  i # 0 /\ (i # 1 => Pending'[i - 1] = Pending[i])
  <2>1. \A op \in {"allocate", "free", "write", "wait"} :
             /\ Asked(i, op)' <=> i # 0 /\ Asked(i + 1, op)
             /\ Asked(i, op) => i # 0 /\ (i # 1 => Pending'[i - 1] = Pending[i])
             /\ Asked(i, op)' => Pending'[i] = Pending[i + 1]
    BY <1>1
  <2> QED
    BY <2>1 DEF AllocAt, FreeAt, WriteAt
<1> QED
  BY <1>2

\* What is in hand when one thread goes from one call to another.
LEMMA Hands ==
  ASSUME DriverTypes, NEW t \in Threads, NEW c, at' = [at EXCEPT ![t] = c]
  PROVE  /\ at'[t] = c /\ \A u \in Threads : u # t => at'[u] = at[u]
         /\ \A k \in Nat : \A op \in {"allocate", "free"} :
              /\ InHand(op, k)' => InHand(op, k) \/ (c.op = op /\ c.handle = k)
              /\ InHand(op, k) => InHand(op, k)' \/ (at[t].op = op /\ at[t].handle = k)
              /\ c.op = op /\ c.handle = k => InHand(op, k)'
<1>1. at'[t] = c /\ \A u \in Threads : u # t => at'[u] = at[u]
  BY DEF DriverTypes
<1> QED
  BY <1>1 DEF InHand

\* The fields of a call a thread is in.
LEMMA CallsOf ==
  ASSUME DriverTypes, NEW t \in Threads
  PROVE  /\ at[t].op \in {"idle", "allocate", "free", "wait"}
         /\ at[t].op = "allocate" => at[t].handle \in Nat /\ at[t].units \in Sizes
         /\ at[t].op = "free" => at[t].handle \in Nat
         /\ at[t].op = "wait" => at[t].pointer \in Nat /\ at[t].wants \in Threads
<1>1. at[t] \in Call /\ at[t].op # "write"
  BY DEF DriverTypes
<1> QED
  BY <1>1 DEF Call

-----------------------------------------------------------------------------
LEMMA AttachesKeep ==
  ASSUME DriverInv, Attaches PROVE DriverInv'
<1>1. /\ ~attached /\ wire = <<>> /\ attached' = TRUE
      /\ UNCHANGED <<process, next, live, at, queue, wire, answers, device, refused, written, late, misread>>
  BY DEF Attaches
<1>2. Pending' = Pending /\ Pending = <<>> /\ Len(Pending) = 0 /\ DOMAIN live = {} /\ DOMAIN written = {}
  <2>1. queue = <<>>
    BY <1>1 DEF DriverInv, Attachment
  <2> QED
    BY <1>1, <2>1 DEF Pending, DriverInv, Attachment
<1>3. DriverTypes'
  BY <1>1 DEF DriverInv, DriverTypes
<1>4. Attachment'
  <2>1. \A i \in 1 .. Len(Pending') : FALSE
    BY <1>2
  <2> QED
    BY <1>1, <2>1 DEF DriverInv, Attachment, Mine
<1>5. (AskedOnce /\ FreedAfter /\ HandsHold /\ LiveSomewhere /\ DeviceKnown)'
  BY <1>1 DEF DriverInv, AskedOnce, FreedAfter, HandsHold, LiveSomewhere, DeviceKnown, AllocAt, FreeAt,
              Asked, InHand, Mine, Pending
<1>6. Memory'
  BY <1>1, <1>2 DEF Memory
<1>7. Reading' /\ ~misread'
  BY <1>1 DEF DriverInv, Reading, Question, Answer, WriteAt, Asked, Pending
<1> QED
  BY <1>3, <1>4, <1>5, <1>6, <1>7 DEF DriverInv

\* cuMemAlloc: the handle is new, so nothing is pending for it and the device has nothing for it.
LEMMA AllocatesKeep ==
  ASSUME DriverConstants, DriverInv, NEW t \in Threads, NEW n \in Sizes, Allocates(t, n)
  PROVE  DriverInv'
<1> DEFINE c == [op |-> "allocate", handle |-> next, units |-> n]
<1>1. /\ attached /\ at[t].op = "idle" /\ next' = next + 1
      /\ live' = [h \in DOMAIN live \union {next} |-> IF h = next THEN n ELSE live[h]]
      /\ at' = [at EXCEPT ![t] = c]
      /\ UNCHANGED <<process, attached, queue, wire, answers, device, refused, written, late, misread>>
  BY DEF Allocates, Idle
<1>2. /\ DriverTypes /\ next \in Nat /\ DOMAIN live' = DOMAIN live \cup {next} /\ live'[next] = n
      /\ \A h \in DOMAIN live : h \in Nat /\ h < next /\ live'[h] = live[h]
  BY <1>1 DEF DriverInv, DriverTypes
<1>3. c.op = "allocate" /\ c.handle = next /\ c.units = n /\ c \in Call
  BY <1>2 DEF Call
<1> HIDE DEF c
<1>4. /\ at'[t] = c /\ \A u \in Threads : u # t => at'[u] = at[u]
      /\ \A k \in Nat : InHand("allocate", k)' <=> InHand("allocate", k) \/ k = next
      /\ \A k \in Nat : InHand("free", k)' <=> InHand("free", k)
  BY <1>1, <1>2, <1>3, Hands
<1>5. Pending' = Pending
  BY <1>1 DEF Pending
<1>6. \A i, h \in Nat : /\ AllocAt(i, h)' <=> AllocAt(i, h)
                        /\ FreeAt(i, h)' <=> FreeAt(i, h)
                        /\ WriteAt(i, h)' <=> WriteAt(i, h)
                        /\ Asked(i, "wait")' <=> Asked(i, "wait")
  BY <1>1, <1>5, Unmoved
<1>7. DriverTypes'
  <2>1. next' \in Nat \ {0} /\ DOMAIN live' \subseteq 1 .. next' - 1 /\ \A h \in DOMAIN live' : live'[h] \in Sizes
    BY <1>1, <1>2 DEF DriverTypes
  <2>2. at' \in [Threads -> Call] /\ \A u \in Threads : at'[u].op # "write"
    BY <1>1, <1>2, <1>3, <1>4 DEF DriverTypes
  <2> QED
    BY <1>1, <1>2, <2>1, <2>2 DEF DriverTypes
<1>8. Attachment'
  BY <1>1, <1>5 DEF DriverInv, Attachment, Mine
<1>9. AskedOnce'
  <2> SUFFICES ASSUME NEW i \in Nat, NEW h \in Nat, AllocAt(i, h)'
               PROVE  /\ h < next' /\ h \notin DOMAIN Mine' /\ h \notin refused' /\ ~InHand("allocate", h)'
                      /\ \A j \in Nat : AllocAt(j, h)' => i = j
                      /\ h \in DOMAIN live' => Pending'[i].call.units = live'[h]
                      /\ h \notin DOMAIN live' => InHand("free", h)' \/ \E j \in Nat : FreeAt(j, h)'
    BY DEF AskedOnce
  <2>1. /\ h < next /\ h \notin DOMAIN Mine /\ h \notin refused /\ ~InHand("allocate", h)
        /\ \A j \in Nat : AllocAt(j, h) => i = j
        /\ h \in DOMAIN live => Pending[i].call.units = live[h]
        /\ h \notin DOMAIN live => InHand("free", h) \/ \E j \in Nat : FreeAt(j, h)
    BY <1>6 DEF DriverInv, AskedOnce
  <2> QED
    BY <1>1, <1>2, <1>4, <1>5, <1>6, <2>1 DEF Mine
<1>10. FreedAfter'
  <2>1. \A i, h \in Nat : FreeAt(i, h) => h < next /\ h \notin DOMAIN live /\ \A j \in Nat : AllocAt(j, h) => j < i
    BY DEF DriverInv, FreedAfter
  <2> QED
    BY <1>1, <1>2, <1>6, <2>1 DEF FreedAfter
<1>11. HandsHold'
  <2>1. next \notin DOMAIN Mine /\ next \notin refused
    BY <1>2 DEF DriverInv, DeviceKnown
  <2>2. ASSUME NEW u \in Threads, at'[u].op = "allocate"
        PROVE  /\ at'[u].handle \in DOMAIN live' /\ live'[at'[u].handle] = at'[u].units
               /\ at'[u].handle \notin DOMAIN Mine' /\ at'[u].handle \notin refused'
               /\ \A w \in Threads : at'[w].op = "allocate" /\ at'[w].handle = at'[u].handle => w = u
    BY <1>1, <1>2, <1>3, <1>4, <2>1, <2>2 DEF DriverInv, HandsHold, Mine
  <2>3. ASSUME NEW u \in Threads, at'[u].op = "free"
        PROVE  at'[u].handle \notin DOMAIN live' /\ at'[u].handle < next'
    <3>1. u # t /\ at'[u] = at[u]
      BY <1>3, <1>4, <2>3
    <3>2. at[u].handle \in Nat /\ at[u].handle < next /\ at[u].handle \notin DOMAIN live
      BY <1>2, <2>3, <3>1, CallsOf DEF DriverInv, HandsHold
    <3> QED
      BY <1>1, <1>2, <3>1, <3>2
  <2> QED
    BY <2>2, <2>3 DEF HandsHold
<1>12. LiveSomewhere'
  <2> SUFFICES ASSUME NEW h \in DOMAIN live'
               PROVE  \/ InHand("allocate", h)' \/ (\E i \in Nat : AllocAt(i, h)') \/ h \in refused'
                      \/ h \in DOMAIN Mine' /\ Len(Mine'[h]) = live'[h]
    BY DEF LiveSomewhere
  <2>1. CASE h = next
    BY <1>2, <1>4, <2>1
  <2>2. CASE h \in DOMAIN live
    <3>1. \/ InHand("allocate", h) \/ (\E i \in Nat : AllocAt(i, h)) \/ h \in refused
          \/ h \in DOMAIN Mine /\ Len(Mine[h]) = live[h]
      BY <2>2 DEF DriverInv, LiveSomewhere
    <3> QED
      BY <1>1, <1>2, <1>4, <1>6, <2>2, <3>1 DEF Mine
  <2> QED
    BY <1>2, <2>1, <2>2
<1>13. DeviceKnown'
  <2>1. \A h \in DOMAIN Mine : /\ h \in Nat /\ h < next /\ h \notin refused
                               /\ h \notin DOMAIN live => InHand("free", h) \/ \E i \in Nat : FreeAt(i, h)
    BY DEF DriverInv, DeviceKnown
  <2>2. \A h \in refused : h \in Nat /\ h < next
    BY DEF DriverInv, DeviceKnown
  <2> QED
    BY <1>1, <1>2, <1>4, <1>6, <2>1, <2>2 DEF DeviceKnown, Mine
<1>14. Memory'
  <2> SUFFICES ASSUME NEW p \in DOMAIN written
               PROVE  /\ HandleOf(p) \in DOMAIN live' /\ p \in Pointers(HandleOf(p))' /\ ~InHand("allocate", HandleOf(p))'
                      /\ LastWrite(p)' \/ InCell(p)'
    BY <1>1 DEF Memory
  <2>1. p \in Nat /\ HandleOf(p) \in Nat
    BY <1>2, PointersOf DEF DriverTypes
  <2>2. /\ HandleOf(p) \in DOMAIN live /\ p \in Pointers(HandleOf(p)) /\ ~InHand("allocate", HandleOf(p))
        /\ LastWrite(p) \/ InCell(p)
    BY DEF DriverInv, Memory
  <2>3. p \in Pointers(HandleOf(p))' /\ HandleOf(p) \in DOMAIN live' /\ ~InHand("allocate", HandleOf(p))'
    BY <1>2, <1>4, <2>1, <2>2 DEF Pointers
  <2>4. LastWrite(p) => LastWrite(p)'
    BY <1>1, <1>5, <1>6, <2>1 DEF LastWrite
  <2>5. InCell(p) => InCell(p)'
    BY <1>1, <1>6, <2>1 DEF InCell, Cells, Mine
  <2> QED
    BY <2>2, <2>3, <2>4, <2>5
<1>15. Reading'
  <2>1. \A u \in Threads : at'[u].op = "wait" <=> at[u].op = "wait"
    BY <1>1, <1>3, <1>4
  <2>2. \A u \in Threads : at[u].op = "wait" => at'[u] = at[u]
    BY <1>1, <1>4
  <2>3. \A u \in Threads : at[u].op = "wait" => at[u].pointer \in Nat
    BY <1>2, CallsOf
  <2>4. \A u \in Threads : at[u].op = "wait" => (Question(u) => Question(u)') /\ (Answer(u) => Answer(u)')
    BY <1>1, <1>5, <1>6, <2>2, <2>3 DEF Question, Answer
  <2> QED
    BY <1>1, <1>6, <2>1, <2>2, <2>4 DEF DriverInv, Reading
<1> QED
  BY <1>1, <1>7, <1>8, <1>9, <1>10, <1>11, <1>12, <1>13, <1>14, <1>15 DEF DriverInv

\* cuMemFree: what is asked of the handle before stays ahead of the free.
LEMMA FreesKeep ==
  ASSUME DriverConstants, DriverInv, NEW t \in Threads, NEW h \in Given, Frees(t, h)
  PROVE  DriverInv'
<1> DEFINE c == [op |-> "free", handle |-> h]
<1>1. /\ attached /\ at[t].op = "idle" /\ \A u \in Threads : at[u].op = "wait" => HandleOf(at[u].pointer) # h
      /\ live' = [k \in DOMAIN live \ {h} |-> live[k]]
      /\ at' = [at EXCEPT ![t] = c]
      /\ written' = [p \in DOMAIN written \ Pointers(h) |-> written[p]]
      /\ UNCHANGED <<process, attached, next, queue, wire, answers, device, refused, late, misread>>
  BY DEF Frees, Idle
<1>2. /\ DriverTypes /\ next \in Nat /\ DOMAIN live' = DOMAIN live \ {h} /\ h \in DOMAIN live
      /\ \A k \in DOMAIN live : k \in Nat /\ k < next
      /\ \A k \in DOMAIN live' : live'[k] = live[k]
      /\ \A u \in Threads : at[u].op = "allocate" => at[u].handle # h
  BY <1>1 DEF DriverInv, DriverTypes, Given
<1>3. c.op = "free" /\ c.handle = h /\ c \in Call
  BY <1>2 DEF Call
<1> HIDE DEF c
<1>4. /\ at'[t] = c /\ \A u \in Threads : u # t => at'[u] = at[u]
      /\ \A k \in Nat : InHand("free", k)' <=> InHand("free", k) \/ k = h
      /\ \A k \in Nat : InHand("allocate", k)' <=> InHand("allocate", k)
  BY <1>1, <1>2, <1>3, Hands
<1>5. Pending' = Pending
  BY <1>1 DEF Pending
<1>6. \A i, k \in Nat : /\ AllocAt(i, k)' <=> AllocAt(i, k)
                        /\ FreeAt(i, k)' <=> FreeAt(i, k)
                        /\ WriteAt(i, k)' <=> WriteAt(i, k)
                        /\ Asked(i, "wait")' <=> Asked(i, "wait")
  BY <1>1, <1>5, Unmoved
<1>7. DriverTypes'
  <2>1. DOMAIN live' \subseteq 1 .. next' - 1 /\ \A k \in DOMAIN live' : live'[k] \in Sizes
    BY <1>1, <1>2 DEF DriverTypes
  <2>2. at' \in [Threads -> Call] /\ \A u \in Threads : at'[u].op # "write"
    BY <1>1, <1>2, <1>3, <1>4 DEF DriverTypes
  <2>3. \A p \in DOMAIN written' : p \in Nat /\ written'[p] \in Threads
    BY <1>1, <1>2 DEF DriverTypes
  <2> QED
    BY <1>1, <1>2, <2>1, <2>2, <2>3 DEF DriverTypes
<1>8. Attachment'
  BY <1>1, <1>5 DEF DriverInv, Attachment, Mine
<1>9. AskedOnce'
  <2> SUFFICES ASSUME NEW i \in Nat, NEW k \in Nat, AllocAt(i, k)'
               PROVE  /\ k < next' /\ k \notin DOMAIN Mine' /\ k \notin refused' /\ ~InHand("allocate", k)'
                      /\ \A j \in Nat : AllocAt(j, k)' => i = j
                      /\ k \in DOMAIN live' => Pending'[i].call.units = live'[k]
                      /\ k \notin DOMAIN live' => InHand("free", k)' \/ \E j \in Nat : FreeAt(j, k)'
    BY DEF AskedOnce
  <2>1. /\ k < next /\ k \notin DOMAIN Mine /\ k \notin refused /\ ~InHand("allocate", k)
        /\ \A j \in Nat : AllocAt(j, k) => i = j
        /\ k \in DOMAIN live => Pending[i].call.units = live[k]
        /\ k \notin DOMAIN live => InHand("free", k) \/ \E j \in Nat : FreeAt(j, k)
    BY <1>6 DEF DriverInv, AskedOnce
  <2> QED
    BY <1>1, <1>2, <1>4, <1>5, <1>6, <2>1 DEF Mine
<1>10. FreedAfter'
  <2>1. \A i, k \in Nat : FreeAt(i, k) => k < next /\ k \notin DOMAIN live /\ \A j \in Nat : AllocAt(j, k) => j < i
    BY DEF DriverInv, FreedAfter
  <2> QED
    BY <1>1, <1>2, <1>6, <2>1 DEF FreedAfter
<1>11. HandsHold'
  <2>1. ASSUME NEW u \in Threads, at'[u].op = "allocate"
        PROVE  /\ at'[u].handle \in DOMAIN live' /\ live'[at'[u].handle] = at'[u].units
               /\ at'[u].handle \notin DOMAIN Mine' /\ at'[u].handle \notin refused'
               /\ \A w \in Threads : at'[w].op = "allocate" /\ at'[w].handle = at'[u].handle => w = u
    BY <1>1, <1>2, <1>3, <1>4, <2>1 DEF DriverInv, HandsHold, Mine
  <2>2. ASSUME NEW u \in Threads, at'[u].op = "free"
        PROVE  at'[u].handle \notin DOMAIN live' /\ at'[u].handle < next'
    BY <1>1, <1>2, <1>3, <1>4, <2>2 DEF DriverInv, HandsHold
  <2> QED
    BY <2>1, <2>2 DEF HandsHold
<1>12. LiveSomewhere'
  <2>1. \A k \in DOMAIN live :
          \/ InHand("allocate", k) \/ (\E i \in Nat : AllocAt(i, k)) \/ k \in refused
          \/ k \in DOMAIN Mine /\ Len(Mine[k]) = live[k]
    BY DEF DriverInv, LiveSomewhere
  <2> QED
    BY <1>1, <1>2, <1>4, <1>6, <2>1 DEF LiveSomewhere, Mine
<1>13. DeviceKnown'
  <2>1. \A k \in DOMAIN Mine : /\ k \in Nat /\ k < next /\ k \notin refused
                               /\ k \notin DOMAIN live => InHand("free", k) \/ \E i \in Nat : FreeAt(i, k)
    BY DEF DriverInv, DeviceKnown
  <2>2. \A k \in refused : k \in Nat /\ k < next
    BY DEF DriverInv, DeviceKnown
  <2> QED
    BY <1>1, <1>2, <1>4, <1>6, <2>1, <2>2 DEF DeviceKnown, Mine
<1>14. \A p \in Nat : p \in Pointers(h) => HandleOf(p) = h
  BY <1>2, PointersOf
<1>15. Memory'
  <2> SUFFICES ASSUME NEW p \in DOMAIN written'
               PROVE  /\ HandleOf(p) \in DOMAIN live' /\ p \in Pointers(HandleOf(p))' /\ ~InHand("allocate", HandleOf(p))'
                      /\ LastWrite(p)' \/ InCell(p)'
    BY DEF Memory
  <2>1. p \in Nat /\ HandleOf(p) \in Nat /\ p \in DOMAIN written /\ p \notin Pointers(h) /\ written'[p] = written[p]
    BY <1>1, <1>2, PointersOf DEF DriverTypes
  <2>2. /\ HandleOf(p) \in DOMAIN live /\ p \in Pointers(HandleOf(p)) /\ ~InHand("allocate", HandleOf(p))
        /\ LastWrite(p) \/ InCell(p)
    BY <2>1 DEF DriverInv, Memory
  <2>3. p \in Pointers(HandleOf(p))' /\ HandleOf(p) \in DOMAIN live' /\ ~InHand("allocate", HandleOf(p))'
    BY <1>2, <1>4, <2>1, <2>2 DEF Pointers
  <2>4. LastWrite(p) => LastWrite(p)'
    BY <1>1, <1>5, <1>6, <2>1 DEF LastWrite
  <2>5. InCell(p) => InCell(p)'
    BY <1>1, <1>6, <2>1 DEF InCell, Cells, Mine
  <2> QED
    BY <2>2, <2>3, <2>4, <2>5
<1>16. Reading'
  <2>1. \A u \in Threads : at'[u].op = "wait" <=> at[u].op = "wait"
    BY <1>1, <1>3, <1>4
  <2>2. \A u \in Threads : at[u].op = "wait" => at'[u] = at[u]
    BY <1>1, <1>4
  <2>3. \A u \in Threads : at[u].op = "wait" => at[u].pointer \in Nat
    BY <1>2, CallsOf
  <2>4. \A u \in Threads : at[u].op = "wait" => (Question(u) => Question(u)') /\ (Answer(u) => Answer(u)')
    BY <1>1, <1>5, <1>6, <2>2, <2>3 DEF Question, Answer
  <2>5. \A u \in Threads : at[u].op = "wait" /\ at[u].pointer \in DOMAIN written =>
          at[u].pointer \in DOMAIN written' /\ written'[at[u].pointer] = written[at[u].pointer]
    BY <1>1, <1>14, <2>3
  <2> QED
    BY <1>1, <1>6, <2>1, <2>2, <2>4, <2>5 DEF DriverInv, Reading
<1> QED
  BY <1>1, <1>7, <1>8, <1>9, <1>10, <1>11, <1>12, <1>13, <1>15, <1>16 DEF DriverInv

\* What is sent while the process is attached is its own.
LEMMA AttachedGrows ==
  ASSUME DriverInv, attached, NEW m \in Request, m.by = process, Pending \in Seq(Request),
         Pending' = Append(Pending, m), process' = process, attached' = attached, device' = device
  PROVE  Attachment'
<1>1. /\ Len(Pending) \in Nat /\ Len(Pending') = Len(Pending) + 1 /\ Pending'[Len(Pending) + 1] = m
      /\ \A i \in 1 .. Len(Pending) : Pending'[i] = Pending[i]
  BY AppendProperties, LenProperties
<1>2. process \in Nat
  BY DEF DriverInv, DriverTypes
<1>3. ASSUME NEW i \in 1 .. Len(Pending') PROVE Pending'[i].by <= process /\ Pending'[i].by = process
  <2>1. i \in 1 .. Len(Pending) \/ i = Len(Pending) + 1
    BY <1>1
  <2> QED
    BY <1>1, <1>2, <2>1 DEF DriverInv, Attachment
<1> QED
  BY <1>3 DEF DriverInv, Attachment, Mine

\* A request that changed the table goes to the end of the queue.
LEMMA QueuesKeep ==
  ASSUME DriverConstants, DriverInv, NEW t \in Threads, Queues(t)
  PROVE  DriverInv'
<1>0. PICK c : c = at[t]
  OBVIOUS
<1> DEFINE m == By(c)
<1>1. /\ c.op \in {"allocate", "free"} /\ Sends(c) /\ at' = [at EXCEPT ![t] = Idle]
      /\ UNCHANGED <<process, attached, next, live, answers, device, refused, written, late, misread>>
  BY <1>0 DEF Queues
<1>2. DriverTypes /\ c \in Call /\ attached /\ c.handle \in Nat
  BY <1>0, <1>1, CallsOf DEF DriverInv, DriverTypes, Attachment
<1>3. /\ m \in Request /\ Unlocked /\ Pending' = Append(Pending, m) /\ Pending \in Seq(Request)
      /\ wire' \in Seq(Request) /\ queue' \in Seq(Request)
  BY <1>1, <1>2, Sending
<1>4. m.by = process /\ m.op = c.op /\ m.call = c
  BY DEF By
<1> HIDE DEF m
<1>5. PICK n \in Nat :
        /\ \A i, h \in Nat :
             /\ AllocAt(i, h)' <=> AllocAt(i, h) \/ (i = n /\ m.op = "allocate" /\ m.call.handle = h)
             /\ FreeAt(i, h)' <=> FreeAt(i, h) \/ (i = n /\ m.op = "free" /\ m.call.handle = h)
             /\ WriteAt(i, h)' <=> WriteAt(i, h) \/ (i = n /\ m.op = "write" /\ m.call.pointer = h)
             /\ Asked(i, "wait")' <=> Asked(i, "wait") \/ (i = n /\ m.op = "wait")
             /\ AllocAt(i, h) \/ FreeAt(i, h) \/ WriteAt(i, h) \/ Asked(i, "wait") =>
                  i < n /\ Pending'[i] = Pending[i]
        /\ Pending'[n] = m
  BY <1>1, <1>3, <1>4, Grown
<1>6. \A i, h \in Nat :
        /\ AllocAt(i, h)' <=> AllocAt(i, h) \/ (i = n /\ c.op = "allocate" /\ c.handle = h)
        /\ FreeAt(i, h)' <=> FreeAt(i, h) \/ (i = n /\ c.op = "free" /\ c.handle = h)
        /\ WriteAt(i, h)' <=> WriteAt(i, h)
        /\ Asked(i, "wait")' <=> Asked(i, "wait")
        /\ AllocAt(i, h) \/ FreeAt(i, h) \/ WriteAt(i, h) \/ Asked(i, "wait") =>
             i < n /\ Pending'[i] = Pending[i]
  BY <1>1, <1>4, <1>5
<1>7. Idle \in Call /\ Idle.op = "idle"
  BY DEF Idle, Call
<1>8. /\ at'[t] = Idle /\ \A u \in Threads : u # t => at'[u] = at[u]
      /\ \A k \in Nat : \A op \in {"allocate", "free"} :
           /\ InHand(op, k)' => InHand(op, k)
           /\ InHand(op, k) => InHand(op, k)' \/ (c.op = op /\ c.handle = k)
  <2>1. at'[t] = Idle /\ \A u \in Threads : u # t => at'[u] = at[u]
    BY <1>1, <1>2 DEF DriverTypes
  <2>2. ASSUME NEW k \in Nat, NEW op \in {"allocate", "free"}
        PROVE  /\ InHand(op, k)' => InHand(op, k)
               /\ InHand(op, k) => InHand(op, k)' \/ (c.op = op /\ c.handle = k)
    BY ONLY <1>0, <1>7, <2>1, <2>2 DEF InHand
  <2> QED
    BY <2>1, <2>2
<1>9. DriverTypes'
  <2>1. at' \in [Threads -> Call] /\ \A u \in Threads : at'[u].op # "write"
    BY <1>1, <1>2, <1>7, <1>8 DEF DriverTypes
  <2> QED
    BY <1>1, <1>2, <1>3, <2>1 DEF DriverTypes
<1>10. Attachment'
  BY <1>1, <1>2, <1>3, <1>4, AttachedGrows
<1>11. \A h \in DOMAIN live : h \in Nat /\ h < next
  BY <1>2 DEF DriverTypes
<1>12. c.op = "allocate" => /\ c.handle \in DOMAIN live /\ live[c.handle] = c.units /\ c.handle \notin DOMAIN Mine
                            /\ c.handle \notin refused /\ InHand("allocate", c.handle)
                            /\ ~InHand("allocate", c.handle)'
  <2> SUFFICES ASSUME c.op = "allocate"
               PROVE  /\ c.handle \in DOMAIN live /\ live[c.handle] = c.units /\ c.handle \notin DOMAIN Mine
                      /\ c.handle \notin refused /\ InHand("allocate", c.handle)
                      /\ ~InHand("allocate", c.handle)'
    OBVIOUS
  <2>1. /\ c.handle \in DOMAIN live /\ live[c.handle] = c.units /\ c.handle \notin DOMAIN Mine
        /\ c.handle \notin refused
        /\ \A u \in Threads : at[u].op = "allocate" /\ at[u].handle = c.handle => u = t
    BY <1>0 DEF DriverInv, HandsHold
  <2>2. InHand("allocate", c.handle)
    BY <1>0 DEF InHand
  <2>3. ~InHand("allocate", c.handle)'
    <3>1. \A u \in Threads : ~(at'[u].op = "allocate" /\ at'[u].handle = c.handle)
      BY <1>7, <1>8, <2>1
    <3> QED
      BY <3>1 DEF InHand
  <2> QED
    BY <2>1, <2>2, <2>3
<1>13. c.op = "free" => c.handle \notin DOMAIN live /\ c.handle < next
  BY <1>0, <1>1 DEF DriverInv, HandsHold
<1>14. AskedOnce'
  <2> SUFFICES ASSUME NEW i \in Nat, NEW k \in Nat, AllocAt(i, k)'
               PROVE  /\ k < next' /\ k \notin DOMAIN Mine' /\ k \notin refused' /\ ~InHand("allocate", k)'
                      /\ \A j \in Nat : AllocAt(j, k)' => i = j
                      /\ k \in DOMAIN live' => Pending'[i].call.units = live'[k]
                      /\ k \notin DOMAIN live' => InHand("free", k)' \/ \E j \in Nat : FreeAt(j, k)'
    BY DEF AskedOnce
  <2>0. ASSUME NEW j \in Nat, AllocAt(j, k)
        PROVE  /\ k < next /\ k \notin DOMAIN Mine /\ k \notin refused /\ ~InHand("allocate", k)
               /\ \A l \in Nat : AllocAt(l, k) => j = l
               /\ k \in DOMAIN live => Pending[j].call.units = live[k]
               /\ k \notin DOMAIN live => InHand("free", k) \/ \E l \in Nat : FreeAt(l, k)
    BY <2>0 DEF DriverInv, AskedOnce
  <2>1. CASE AllocAt(i, k)
    <3>1. ~(c.op = "allocate" /\ c.handle = k)
      BY <1>12, <2>0, <2>1
    <3>2. Pending'[i] = Pending[i] /\ \A j \in Nat : AllocAt(j, k)' => i = j
      BY <1>6, <2>0, <2>1, <3>1
    <3>3. k \notin DOMAIN live => InHand("free", k)' \/ \E j \in Nat : FreeAt(j, k)'
      BY <1>6, <1>8, <2>0, <2>1
    <3> QED
      BY <1>1, <1>8, <2>0, <2>1, <3>2, <3>3 DEF Mine
  <2>2. CASE ~AllocAt(i, k)
    <3>1. i = n /\ c.op = "allocate" /\ c.handle = k
      BY <1>6, <2>2
    <3>2. \A j \in Nat : ~AllocAt(j, k)
      BY <1>12, <2>0, <3>1
    <3>3. \A j \in Nat : AllocAt(j, k)' => i = j
      BY <1>6, <3>1, <3>2
    <3>4. Pending'[i].call.units = live'[k]
      BY <1>1, <1>4, <1>5, <1>12, <3>1
    <3> QED
      BY <1>1, <1>11, <1>12, <3>1, <3>3, <3>4 DEF Mine
  <2> QED
    BY <2>1, <2>2
<1>15. FreedAfter'
  <2>1. \A i, h \in Nat : FreeAt(i, h) => h < next /\ h \notin DOMAIN live /\ \A j \in Nat : AllocAt(j, h) => j < i
    BY DEF DriverInv, FreedAfter
  <2> QED
    BY <1>1, <1>6, <1>12, <1>13, <2>1 DEF FreedAfter
<1>16. HandsHold'
  BY <1>1, <1>7, <1>8 DEF DriverInv, HandsHold, Mine
<1>17. LiveSomewhere'
  <2>1. \A k \in DOMAIN live :
          \/ InHand("allocate", k) \/ (\E i \in Nat : AllocAt(i, k)) \/ k \in refused
          \/ k \in DOMAIN Mine /\ Len(Mine[k]) = live[k]
    BY DEF DriverInv, LiveSomewhere
  <2> QED
    BY <1>1, <1>6, <1>8, <1>11, <2>1 DEF LiveSomewhere, Mine
<1>18. DeviceKnown'
  <2>1. \A k \in DOMAIN Mine : /\ k \in Nat /\ k < next /\ k \notin refused
                               /\ k \notin DOMAIN live => InHand("free", k) \/ \E i \in Nat : FreeAt(i, k)
    BY DEF DriverInv, DeviceKnown
  <2>2. \A k \in refused : k \in Nat /\ k < next
    BY DEF DriverInv, DeviceKnown
  <2> QED
    BY <1>1, <1>6, <1>8, <2>1, <2>2 DEF DeviceKnown, Mine
<1>19. Memory'
  <2> SUFFICES ASSUME NEW p \in DOMAIN written
               PROVE  /\ HandleOf(p) \in DOMAIN live' /\ p \in Pointers(HandleOf(p))' /\ ~InHand("allocate", HandleOf(p))'
                      /\ LastWrite(p)' \/ InCell(p)'
    BY <1>1 DEF Memory
  <2>1. p \in Nat /\ HandleOf(p) \in Nat
    BY <1>2, PointersOf DEF DriverTypes
  <2>2. /\ HandleOf(p) \in DOMAIN live /\ p \in Pointers(HandleOf(p)) /\ ~InHand("allocate", HandleOf(p))
        /\ LastWrite(p) \/ InCell(p)
    BY DEF DriverInv, Memory
  <2>3. p \in Pointers(HandleOf(p))' /\ HandleOf(p) \in DOMAIN live' /\ ~InHand("allocate", HandleOf(p))'
    BY <1>1, <1>8, <2>1, <2>2 DEF Pointers
  <2>4. \A j \in Nat : AllocAt(j, HandleOf(p))' <=> AllocAt(j, HandleOf(p))
    BY <1>6, <1>12, <2>1, <2>2
  <2>5. LastWrite(p) => LastWrite(p)'
    BY <1>1, <1>6, <2>1, <2>4 DEF LastWrite
  <2>6. InCell(p) => InCell(p)'
    BY <1>1, <1>6, <2>1, <2>4 DEF InCell, Cells, Mine
  <2> QED
    BY <2>2, <2>3, <2>5, <2>6
<1>20. Reading'
  <2>1. \A u \in Threads : at[u].op # "wait" /\ at'[u].op # "wait"
    BY <1>3, <1>7, <1>8 DEF Unlocked
  <2> QED
    BY <1>1, <1>6, <2>1 DEF DriverInv, Reading
<1> QED
  BY <1>1, <1>9, <1>10, <1>14, <1>15, <1>16, <1>17, <1>18, <1>19, <1>20 DEF DriverInv

\* cuMemcpyHtoD: the copy is the last request for its pointer, and of an allocation asked for before.
LEMMA CopiesInKeep ==
  ASSUME DriverConstants, DriverInv, NEW t \in Threads, NEW q \in Usable, CopiesIn(t, q)
  PROVE  DriverInv'
<1>0. PICK c : c = [op |-> "write", pointer |-> q, value |-> t]
  OBVIOUS
<1> DEFINE m == By(c)
<1>1. /\ Sends(c)
      /\ written' = [p \in DOMAIN written \union {q} |-> IF p = q THEN t ELSE written[p]]
      /\ UNCHANGED <<process, attached, next, live, at, answers, device, refused, late, misread>>
  BY <1>0 DEF CopiesIn
<1>2. PICK k \in Given : q \in Pointers(k)
  BY DEF Usable
<1>3. DriverTypes /\ k \in DOMAIN live /\ k \in Nat /\ ~InHand("allocate", k) /\ live[k] \in 1 .. Spacing
  BY <1>2, PointersOf DEF DriverInv, Given, InHand
<1>4. q \in Nat /\ HandleOf(q) = k
  <2>1. q \in k * Spacing .. k * Spacing + live[k] - 1
    BY <1>2 DEF Pointers, PointerOf
  <2>2. k * Spacing \in Nat /\ live[k] \in Nat
    BY <1>3 DEF DriverConstants
  <2>3. q \in Nat
    BY <2>1, <2>2
  <2> QED
    BY <1>2, <1>3, <2>3, PointersOf
<1>5. c \in Call /\ c.op = "write" /\ c.pointer = q /\ c.value = t /\ attached
  BY <1>0, <1>3, <1>4 DEF Call, DriverInv, Attachment
<1>6. /\ m \in Request /\ Unlocked /\ Pending' = Append(Pending, m) /\ Pending \in Seq(Request)
      /\ wire' \in Seq(Request) /\ queue' \in Seq(Request)
  BY <1>1, <1>3, <1>5, Sending
<1>7. m.by = process /\ m.op = c.op /\ m.call = c
  BY DEF By
<1> HIDE DEF m
<1>8. PICK n \in Nat :
        /\ \A i, h \in Nat :
             /\ AllocAt(i, h)' <=> AllocAt(i, h) \/ (i = n /\ m.op = "allocate" /\ m.call.handle = h)
             /\ FreeAt(i, h)' <=> FreeAt(i, h) \/ (i = n /\ m.op = "free" /\ m.call.handle = h)
             /\ WriteAt(i, h)' <=> WriteAt(i, h) \/ (i = n /\ m.op = "write" /\ m.call.pointer = h)
             /\ Asked(i, "wait")' <=> Asked(i, "wait") \/ (i = n /\ m.op = "wait")
             /\ AllocAt(i, h) \/ FreeAt(i, h) \/ WriteAt(i, h) \/ Asked(i, "wait") =>
                  i < n /\ Pending'[i] = Pending[i]
        /\ Pending'[n] = m
  BY <1>1, <1>6, <1>7, Grown
<1>9. \A i, h \in Nat :
        /\ AllocAt(i, h)' <=> AllocAt(i, h)
        /\ FreeAt(i, h)' <=> FreeAt(i, h)
        /\ WriteAt(i, h)' <=> WriteAt(i, h) \/ (i = n /\ h = q)
        /\ Asked(i, "wait")' <=> Asked(i, "wait")
        /\ AllocAt(i, h) \/ FreeAt(i, h) \/ WriteAt(i, h) => i < n /\ Pending'[i] = Pending[i]
  BY <1>5, <1>7, <1>8
<1>10. \A h : /\ InHand("allocate", h)' <=> InHand("allocate", h)
              /\ InHand("free", h)' <=> InHand("free", h)
  BY <1>1 DEF InHand
<1>11. /\ DOMAIN written' = DOMAIN written \cup {q} /\ written'[q] = t
       /\ \A p \in DOMAIN written : p # q => written'[p] = written[p]
  BY <1>1
<1>12. DriverTypes'
  <2>1. \A p \in DOMAIN written' : p \in Nat /\ written'[p] \in Threads
    BY <1>3, <1>4, <1>11 DEF DriverTypes
  <2> QED
    BY <1>1, <1>3, <1>6, <2>1 DEF DriverTypes
<1>13. Attachment'
  BY <1>1, <1>5, <1>6, <1>7, AttachedGrows
<1>14. AskedOnce'
  <2> SUFFICES ASSUME NEW i \in Nat, NEW h \in Nat, AllocAt(i, h)'
               PROVE  /\ h < next' /\ h \notin DOMAIN Mine' /\ h \notin refused' /\ ~InHand("allocate", h)'
                      /\ \A j \in Nat : AllocAt(j, h)' => i = j
                      /\ h \in DOMAIN live' => Pending'[i].call.units = live'[h]
                      /\ h \notin DOMAIN live' => InHand("free", h)' \/ \E j \in Nat : FreeAt(j, h)'
    BY DEF AskedOnce
  <2>1. /\ h < next /\ h \notin DOMAIN Mine /\ h \notin refused /\ ~InHand("allocate", h)
        /\ \A j \in Nat : AllocAt(j, h) => i = j
        /\ h \in DOMAIN live => Pending[i].call.units = live[h]
        /\ h \notin DOMAIN live => InHand("free", h) \/ \E j \in Nat : FreeAt(j, h)
    BY <1>9 DEF DriverInv, AskedOnce
  <2> QED
    BY <1>1, <1>9, <1>10, <2>1 DEF Mine
<1>15. FreedAfter'
  BY <1>1, <1>9 DEF DriverInv, FreedAfter
<1>16. HandsHold'
  BY <1>1 DEF DriverInv, HandsHold, Mine
<1>17. LiveSomewhere'
  <2>1. \A h \in DOMAIN live : h \in Nat
    BY <1>3, PointersOf
  <2> QED
    BY <1>1, <1>9, <1>10, <2>1 DEF DriverInv, LiveSomewhere, Mine
<1>18. DeviceKnown'
  BY <1>1, <1>9, <1>10 DEF DriverInv, DeviceKnown, Mine
<1>19. Memory'
  <2> SUFFICES ASSUME NEW p \in DOMAIN written'
               PROVE  /\ HandleOf(p) \in DOMAIN live' /\ p \in Pointers(HandleOf(p))' /\ ~InHand("allocate", HandleOf(p))'
                      /\ LastWrite(p)' \/ InCell(p)'
    BY DEF Memory
  <2>1. p \in Nat /\ HandleOf(p) \in Nat
    BY <1>3, <1>4, <1>11, PointersOf DEF DriverTypes
  <2>2. CASE p = q
    <3>1. HandleOf(p) \in DOMAIN live' /\ p \in Pointers(HandleOf(p))' /\ ~InHand("allocate", HandleOf(p))'
      BY <1>1, <1>2, <1>3, <1>4, <1>10, <2>2 DEF Pointers
    <3>2. WriteAt(n, p)' /\ Pending'[n].call.value = written'[p]
      <4>1. Pending'[n].call = c
        BY <1>7, <1>8
      <4>2. WriteAt(n, q)'
        BY <1>4, <1>9
      <4> QED
        BY <1>5, <1>11, <2>2, <4>1, <4>2
    <3>3. \A j \in Nat : (WriteAt(j, p)' => j <= n) /\ (AllocAt(j, HandleOf(p))' => j < n)
      BY <1>9, <2>1
    <3>4. LastWrite(p)'
      BY <3>2, <3>3 DEF LastWrite
    <3> QED
      BY <3>1, <3>4
  <2>3. CASE p # q
    <3>1. p \in DOMAIN written /\ written'[p] = written[p]
      BY <1>11, <2>3
    <3>2. /\ HandleOf(p) \in DOMAIN live /\ p \in Pointers(HandleOf(p)) /\ ~InHand("allocate", HandleOf(p))
          /\ LastWrite(p) \/ InCell(p)
      BY <3>1 DEF DriverInv, Memory
    <3>3. HandleOf(p) \in DOMAIN live' /\ p \in Pointers(HandleOf(p))' /\ ~InHand("allocate", HandleOf(p))'
      BY <1>1, <1>10, <3>2 DEF Pointers
    <3>4. \A j \in Nat : (WriteAt(j, p)' <=> WriteAt(j, p)) /\ (AllocAt(j, HandleOf(p))' <=> AllocAt(j, HandleOf(p)))
      BY <1>9, <2>1, <2>3
    <3>5. LastWrite(p) => LastWrite(p)'
      BY <1>9, <2>1, <3>1, <3>4 DEF LastWrite
    <3>6. InCell(p) => InCell(p)'
      BY <1>1, <3>1, <3>4 DEF InCell, Cells, Mine
    <3> QED
      BY <3>2, <3>3, <3>5, <3>6
  <2> QED
    BY <2>2, <2>3
<1>20. Reading'
  <2>1. \A u \in Threads : at[u].op # "wait"
    BY <1>6 DEF Unlocked
  <2> QED
    BY <1>1, <1>9, <2>1 DEF DriverInv, Reading
<1> QED
  BY <1>1, <1>12, <1>13, <1>14, <1>15, <1>16, <1>17, <1>18, <1>19, <1>20 DEF DriverInv

\* cuMemcpyDtoH: the question goes out behind every copy to its pointer, and nobody else waits.
LEMMA CopiesOutKeep ==
  ASSUME DriverConstants, DriverInv, NEW t \in Threads, NEW q \in Usable \cap DOMAIN written, CopiesOut(t, q)
  PROVE  DriverInv'
<1>0. PICK c : c = [op |-> "wait", pointer |-> q, wants |-> written[q]]
  OBVIOUS
<1> DEFINE m == By(c)
<1>1. /\ at[t].op = "idle" /\ Unlocked /\ AsksAfter(c) /\ at' = [at EXCEPT ![t] = c]
      /\ UNCHANGED <<process, attached, next, live, answers, device, refused, written, late, misread>>
  BY <1>0 DEF CopiesOut, Idle
<1>2. DriverTypes /\ q \in Nat /\ written[q] \in Threads /\ attached
  BY DEF DriverInv, DriverTypes, Attachment
<1>3. c \in Call /\ c.op = "wait" /\ c.pointer = q /\ c.wants = written[q]
  BY <1>0, <1>2 DEF Call
<1>4. /\ m \in Request /\ Pending' = Append(Pending, m) /\ Pending \in Seq(Request)
      /\ wire' \in Seq(Request) /\ queue' \in Seq(Request)
  BY <1>1, <1>2, <1>3, Asking
<1>5. m.by = process /\ m.op = c.op /\ m.call = c
  BY DEF By
<1> HIDE DEF m
<1>6. PICK n \in Nat :
        /\ \A i, h \in Nat :
             /\ AllocAt(i, h)' <=> AllocAt(i, h) \/ (i = n /\ m.op = "allocate" /\ m.call.handle = h)
             /\ FreeAt(i, h)' <=> FreeAt(i, h) \/ (i = n /\ m.op = "free" /\ m.call.handle = h)
             /\ WriteAt(i, h)' <=> WriteAt(i, h) \/ (i = n /\ m.op = "write" /\ m.call.pointer = h)
             /\ Asked(i, "wait")' <=> Asked(i, "wait") \/ (i = n /\ m.op = "wait")
             /\ AllocAt(i, h) \/ FreeAt(i, h) \/ WriteAt(i, h) \/ Asked(i, "wait") =>
                  i < n /\ Pending'[i] = Pending[i]
        /\ Pending'[n] = m
  BY <1>1, <1>4, <1>5, Grown
<1>7. \A i, h \in Nat :
        /\ AllocAt(i, h)' <=> AllocAt(i, h)
        /\ FreeAt(i, h)' <=> FreeAt(i, h)
        /\ WriteAt(i, h)' <=> WriteAt(i, h)
        /\ Asked(i, "wait")' <=> Asked(i, "wait") \/ i = n
        /\ AllocAt(i, h) \/ FreeAt(i, h) \/ WriteAt(i, h) => i < n /\ Pending'[i] = Pending[i]
  BY <1>3, <1>5, <1>6
<1>8. at'[t] = c /\ \A u \in Threads : u # t => at'[u] = at[u]
  BY <1>1, <1>2 DEF DriverTypes
<1>9. \A h : /\ InHand("allocate", h)' <=> InHand("allocate", h)
             /\ InHand("free", h)' <=> InHand("free", h)
  <2>1. ASSUME NEW h, NEW op \in {"allocate", "free"} PROVE InHand(op, h)' <=> InHand(op, h)
    BY ONLY <1>1, <1>3, <1>8, <2>1 DEF InHand
  <2> QED
    BY <2>1
<1>10. DriverTypes'
  <2>1. at' \in [Threads -> Call] /\ \A u \in Threads : at'[u].op # "write"
    BY <1>1, <1>2, <1>3, <1>8 DEF DriverTypes
  <2> QED
    BY <1>1, <1>2, <1>4, <2>1 DEF DriverTypes
<1>11. Attachment'
  BY <1>1, <1>2, <1>4, <1>5, AttachedGrows
<1>12. AskedOnce'
  <2> SUFFICES ASSUME NEW i \in Nat, NEW h \in Nat, AllocAt(i, h)'
               PROVE  /\ h < next' /\ h \notin DOMAIN Mine' /\ h \notin refused' /\ ~InHand("allocate", h)'
                      /\ \A j \in Nat : AllocAt(j, h)' => i = j
                      /\ h \in DOMAIN live' => Pending'[i].call.units = live'[h]
                      /\ h \notin DOMAIN live' => InHand("free", h)' \/ \E j \in Nat : FreeAt(j, h)'
    BY DEF AskedOnce
  <2>1. /\ h < next /\ h \notin DOMAIN Mine /\ h \notin refused /\ ~InHand("allocate", h)
        /\ \A j \in Nat : AllocAt(j, h) => i = j
        /\ h \in DOMAIN live => Pending[i].call.units = live[h]
        /\ h \notin DOMAIN live => InHand("free", h) \/ \E j \in Nat : FreeAt(j, h)
    BY <1>7 DEF DriverInv, AskedOnce
  <2> QED
    BY <1>1, <1>7, <1>9, <2>1 DEF Mine
<1>13. FreedAfter'
  BY <1>1, <1>7 DEF DriverInv, FreedAfter
<1>14. HandsHold'
  BY <1>1, <1>3, <1>8 DEF DriverInv, HandsHold, Mine
<1>15. LiveSomewhere'
  <2>1. \A h \in DOMAIN live : h \in Nat
    BY <1>2, PointersOf
  <2> QED
    BY <1>1, <1>7, <1>9, <2>1 DEF DriverInv, LiveSomewhere, Mine
<1>16. DeviceKnown'
  BY <1>1, <1>7, <1>9 DEF DriverInv, DeviceKnown, Mine
<1>17. Memory'
  <2> SUFFICES ASSUME NEW p \in DOMAIN written
               PROVE  /\ HandleOf(p) \in DOMAIN live' /\ p \in Pointers(HandleOf(p))' /\ ~InHand("allocate", HandleOf(p))'
                      /\ LastWrite(p)' \/ InCell(p)'
    BY <1>1 DEF Memory
  <2>1. p \in Nat /\ HandleOf(p) \in Nat
    BY <1>2, PointersOf DEF DriverTypes
  <2>2. /\ HandleOf(p) \in DOMAIN live /\ p \in Pointers(HandleOf(p)) /\ ~InHand("allocate", HandleOf(p))
        /\ LastWrite(p) \/ InCell(p)
    BY DEF DriverInv, Memory
  <2>3. HandleOf(p) \in DOMAIN live' /\ p \in Pointers(HandleOf(p))' /\ ~InHand("allocate", HandleOf(p))'
    BY <1>1, <1>9, <2>2 DEF Pointers
  <2>4. LastWrite(p) => LastWrite(p)'
    BY <1>1, <1>7, <2>1 DEF LastWrite
  <2>5. InCell(p) => InCell(p)'
    BY <1>1, <1>7, <2>1 DEF InCell, Cells, Mine
  <2> QED
    BY <2>2, <2>3, <2>4, <2>5
<1>18. Reading'
  <2> SUFFICES ASSUME ~late PROVE Reading'
    BY <1>1 DEF Reading
  <2>1. /\ \A u \in Threads : at[u].op # "wait"
        /\ answers = <<>> /\ \A i \in Nat : ~Asked(i, "wait")
    BY <1>1 DEF Unlocked, DriverInv, Reading
  <2>2. \A u \in Threads : at'[u].op = "wait" <=> u = t
    BY <1>3, <1>8, <2>1
  <2>3. at'[t].pointer = q /\ at'[t].pointer \in DOMAIN written' /\ at'[t].wants = written'[at'[t].pointer]
    BY <1>1, <1>3, <1>8
  <2>4. Asked(n, "wait")' /\ Pending'[n].call.pointer = q
    BY <1>3, <1>5, <1>6
  <2>5. \A j \in Nat : (Asked(j, "wait")' => j = n) /\ (WriteAt(j, q)' => j < n)
    BY <1>2, <1>7, <2>1
  <2>6. Question(t)'
    BY <1>1, <2>1, <2>3, <2>4, <2>5 DEF Question
  <2> QED
    BY <2>2, <2>3, <2>6 DEF Reading
<1> QED
  BY <1>1, <1>10, <1>11, <1>12, <1>13, <1>14, <1>15, <1>16, <1>17, <1>18 DEF DriverInv

\* A thread that comes back from a wait changes nothing of the table, the requests and the device.
LEMMA WokenKeeps ==
  ASSUME DriverConstants, DriverInv, NEW t \in Threads, at[t].op = "wait", at' = [at EXCEPT ![t] = Idle],
         UNCHANGED <<process, attached, next, live, queue, wire, device, refused, written>>
  PROVE  /\ at'[t] = Idle /\ \A u \in Threads : u # t => at'[u] = at[u]
         /\ at' \in [Threads -> Call] /\ \A u \in Threads : at'[u].op # "write"
         /\ Pending' = Pending /\ attached
         /\ \A i, h \in Nat : (WriteAt(i, h)' <=> WriteAt(i, h)) /\ (Asked(i, "wait")' <=> Asked(i, "wait"))
         /\ (AskedOnce /\ FreedAfter /\ HandsHold /\ LiveSomewhere /\ DeviceKnown /\ Memory)'
<1>2. DriverTypes /\ Idle \in Call /\ Idle.op = "idle"
  BY DEF DriverInv, DriverTypes, Idle, Call
<1>3. at'[t] = Idle /\ \A u \in Threads : u # t => at'[u] = at[u]
  BY <1>2 DEF DriverTypes
<1>4. \A h : /\ InHand("allocate", h)' <=> InHand("allocate", h)
             /\ InHand("free", h)' <=> InHand("free", h)
  <2>1. ASSUME NEW h, NEW op \in {"allocate", "free"} PROVE InHand(op, h)' <=> InHand(op, h)
    BY <1>2, <1>3, <2>1 DEF InHand
  <2> QED
    BY <2>1
<1>5. Pending' = Pending
  BY DEF Pending
<1>6. \A i, h \in Nat : /\ AllocAt(i, h)' <=> AllocAt(i, h)
                        /\ FreeAt(i, h)' <=> FreeAt(i, h)
                        /\ WriteAt(i, h)' <=> WriteAt(i, h)
                        /\ Asked(i, "wait")' <=> Asked(i, "wait")
  BY <1>5, Unmoved
<1>7. at' \in [Threads -> Call] /\ \A u \in Threads : at'[u].op # "write"
  BY <1>2, <1>3 DEF DriverTypes
<1>8. attached
  BY DEF DriverInv, Attachment
<1>9. (AskedOnce /\ FreedAfter)'
  <2>1. AskedOnce'
    BY <1>4, <1>5, <1>6 DEF DriverInv, AskedOnce, Mine
  <2>2. FreedAfter'
    BY <1>6 DEF DriverInv, FreedAfter
  <2> QED
    BY <2>1, <2>2
<1>10. HandsHold'
  BY <1>2, <1>3 DEF DriverInv, HandsHold, Mine
<1>11. LiveSomewhere'
  <2>1. \A h \in DOMAIN live : h \in Nat
    BY <1>2, PointersOf
  <2> QED
    BY <1>4, <1>6, <2>1 DEF DriverInv, LiveSomewhere, Mine
<1>12. DeviceKnown'
  BY <1>4, <1>6 DEF DriverInv, DeviceKnown, Mine
<1>13. Memory'
  <2> SUFFICES ASSUME NEW p \in DOMAIN written
               PROVE  /\ HandleOf(p) \in DOMAIN live' /\ p \in Pointers(HandleOf(p))' /\ ~InHand("allocate", HandleOf(p))'
                      /\ LastWrite(p)' \/ InCell(p)'
    BY DEF Memory
  <2>1. p \in Nat /\ HandleOf(p) \in Nat
    BY <1>2, PointersOf DEF DriverTypes
  <2>2. /\ HandleOf(p) \in DOMAIN live /\ p \in Pointers(HandleOf(p)) /\ ~InHand("allocate", HandleOf(p))
        /\ LastWrite(p) \/ InCell(p)
    BY DEF DriverInv, Memory
  <2>3. HandleOf(p) \in DOMAIN live' /\ p \in Pointers(HandleOf(p))' /\ ~InHand("allocate", HandleOf(p))'
    BY <1>4, <2>2 DEF Pointers
  <2>4. LastWrite(p) => LastWrite(p)'
    BY <1>5, <1>6, <2>1 DEF LastWrite
  <2>5. InCell(p) => InCell(p)'
    BY <1>6, <2>1 DEF InCell, Cells, Mine
  <2> QED
    BY <2>2, <2>3, <2>4, <2>5
<1> QED
  BY <1>3, <1>5, <1>6, <1>7, <1>8, <1>9, <1>10, <1>11, <1>12, <1>13

\* The answer a thread waits for is what it copied there last, or a failure.
LEMMA AnsweredKeep ==
  ASSUME DriverConstants, DriverInv, NEW t \in Threads, Answered(t)
  PROVE  DriverInv'
<1>1. /\ at[t].op = "wait" /\ answers # <<>> /\ answers' = Tail(answers) /\ at' = [at EXCEPT ![t] = Idle]
      /\ misread' = (misread \/ (~late /\ Head(answers) \notin {Failed, at[t].wants}))
      /\ UNCHANGED <<process, attached, next, live, queue, wire, device, refused, written, late>>
  BY DEF Answered
<1>2. DriverTypes /\ Idle.op = "idle" /\ answers \in Seq(Cell \cup {Failed})
  BY DEF DriverInv, DriverTypes, Idle
<1>3. /\ at'[t] = Idle /\ \A u \in Threads : u # t => at'[u] = at[u]
      /\ at' \in [Threads -> Call] /\ \A u \in Threads : at'[u].op # "write"
      /\ Pending' = Pending /\ attached
      /\ \A i, h \in Nat : (WriteAt(i, h)' <=> WriteAt(i, h)) /\ (Asked(i, "wait")' <=> Asked(i, "wait"))
      /\ (AskedOnce /\ FreedAfter /\ HandsHold /\ LiveSomewhere /\ DeviceKnown /\ Memory)'
  BY <1>1, WokenKeeps
<1>4. ~late => /\ Answer(t) /\ \A u \in Threads : at[u].op = "wait" => u = t
  BY <1>1 DEF DriverInv, Reading, Question
<1>5. Head(answers) = answers[1] /\ Tail(answers) \in Seq(Cell \cup {Failed}) /\ Len(Tail(answers)) = Len(answers) - 1
  BY <1>1, <1>2, HeadTailProperties
<1>6. misread' = FALSE
  BY <1>1, <1>4, <1>5 DEF DriverInv, Answer
<1>7. DriverTypes'
  BY <1>1, <1>2, <1>3, <1>5, <1>6 DEF DriverTypes
<1>8. Attachment'
  BY <1>1, <1>3 DEF DriverInv, Attachment, Mine
<1>9. Reading'
  <2> SUFFICES ASSUME ~late PROVE Reading'
    BY <1>1 DEF Reading
  <2>1. \A u \in Threads : at'[u].op # "wait"
    BY <1>2, <1>3, <1>4
  <2>2. answers' = <<>>
    BY <1>1, <1>4, <1>5, EmptySeq DEF Answer
  <2>3. \A j \in Nat : ~Asked(j, "wait")'
    BY <1>3, <1>4 DEF Answer
  <2> QED
    BY <2>1, <2>2, <2>3 DEF Reading
<1> QED
  BY <1>3, <1>6, <1>7, <1>8, <1>9 DEF DriverInv

\* After a read timed out nothing is said of what is read; the rest stays as it was.
LEMMA TimesOutKeep ==
  ASSUME DriverConstants, DriverInv, NEW t \in Threads, TimesOut(t)
  PROVE  DriverInv'
<1>1. /\ at[t].op = "wait" /\ late' = TRUE /\ at' = [at EXCEPT ![t] = Idle]
      /\ UNCHANGED <<process, attached, next, live, queue, wire, answers, device, refused, written, misread>>
  BY DEF TimesOut
<1>2. /\ at' \in [Threads -> Call] /\ \A u \in Threads : at'[u].op # "write"
      /\ Pending' = Pending /\ attached
      /\ (AskedOnce /\ FreedAfter /\ HandsHold /\ LiveSomewhere /\ DeviceKnown /\ Memory)'
  BY <1>1, WokenKeeps
<1>3. DriverTypes'
  BY <1>1, <1>2 DEF DriverInv, DriverTypes
<1>4. Attachment'
  BY <1>1, <1>2 DEF DriverInv, Attachment, Mine
<1> QED
  BY <1>1, <1>2, <1>3, <1>4 DEF DriverInv, Reading

\* The process that comes next has nothing on the device, and what is on its way is not its own.
LEMMA ExitsKeep ==
  ASSUME DriverConstants, DriverInv, Exits
  PROVE  DriverInv'
<1>1. /\ process < Processes /\ process' = process + 1 /\ attached' = FALSE
      /\ next' = 1 /\ live' = Nothing /\ at' = [t \in Threads |-> Idle] /\ queue' = <<>> /\ answers' = <<>>
      /\ refused' = {} /\ written' = Nothing /\ late' = FALSE /\ UNCHANGED <<device, misread>>
  BY DEF Exits
<1>2. PICK n \in 0 .. Len(wire) : wire' = SubSeq(wire, 1, n)
  BY DEF Exits
<1>3. /\ DriverTypes /\ wire \in Seq(Request) /\ queue \in Seq(Request) /\ Len(wire) \in Nat
      /\ process \in Nat /\ process' \in 1 .. Processes /\ process' # process
  BY <1>1, LenProperties DEF DriverInv, DriverTypes, DriverConstants
<1>4. /\ wire' \in Seq(Request) /\ Len(wire') = n /\ \A i \in 1 .. n : wire'[i] = wire[i]
  <2>1. \A i \in 1 .. n : wire[i] \in Request
    BY <1>3, ElementOfSeq
  <2>2. n \in Nat /\ 1 \in Int
    BY <1>3
  <2> QED
    BY <1>2, <2>1, <2>2, SubSeqProperties
<1>5. Pending' = wire'
  BY <1>1, <1>4, ConcatEmptySeq DEF Pending
<1>6. \A i \in 1 .. n : i \in 1 .. Len(Pending) /\ Pending[i] = wire[i]
  BY <1>3, ConcatProperties, LenProperties DEF Pending
<1>7. \A i \in 1 .. Len(Pending') : Pending'[i].by <= process' /\ Pending'[i].by # process'
  <2> SUFFICES ASSUME NEW i \in 1 .. n PROVE Pending'[i].by <= process' /\ Pending'[i].by # process'
    BY <1>4, <1>5
  <2>1. Pending'[i].by <= process /\ Pending'[i] = wire[i]
    BY <1>4, <1>5, <1>6 DEF DriverInv, Attachment
  <2>2. wire[i] \in Request
    BY <1>3, ElementOfSeq
  <2>3. wire[i].by \in Nat
    BY <2>2 DEF Request
  <2> QED
    BY <1>1, <1>3, <2>1, <2>3
<1>8. DOMAIN Mine' = {} /\ \A p \in process' + 1 .. Processes : DOMAIN device'[p] = {}
  <2>1. process' \in process + 1 .. Processes
    BY <1>1, <1>3 DEF DriverConstants
  <2>2. \A p \in process' + 1 .. Processes : p \in process + 1 .. Processes
    BY <1>1, <1>3
  <2> QED
    BY <1>1, <2>1, <2>2 DEF DriverInv, Attachment, Mine
<1>9. DOMAIN live' = {} /\ DOMAIN written' = {}
  BY <1>1 DEF Nothing
<1>10. \A t \in Threads : at'[t].op = "idle"
  BY <1>1 DEF Idle
<1>11. DriverTypes'
  <2>1. at' \in [Threads -> Call] /\ \A t \in Threads : at'[t].op # "write"
    BY <1>1, <1>10 DEF Idle, Call
  <2>2. queue' \in Seq(Request) /\ answers' \in Seq(Cell \cup {Failed})
    BY <1>1, EmptySeq
  <2>3. process' \in 1 .. Processes /\ attached' \in BOOLEAN /\ late' \in BOOLEAN /\ misread' \in BOOLEAN
    BY <1>1, <1>3 DEF DriverTypes
  <2>4. next' \in Nat \ {0} /\ DOMAIN live' \subseteq 1 .. next' - 1 /\ \A h \in DOMAIN live' : live'[h] \in Sizes
    BY <1>1, <1>9
  <2>5. /\ DOMAIN device' = 1 .. Processes
        /\ \A p \in 1 .. Processes : \A h \in DOMAIN device'[p] : device'[p][h] \in Seq(Cell)
    BY <1>1, <1>3 DEF DriverTypes
  <2> QED
    BY <1>4, <1>9, <2>1, <2>2, <2>3, <2>4, <2>5 DEF DriverTypes
<1>12. Attachment'
  BY <1>1, <1>7, <1>8, <1>9, <1>10 DEF Attachment
<1>13. \A i, op : ~Asked(i, op)'
  BY <1>7 DEF Asked
<1>14. (AskedOnce /\ FreedAfter)'
  BY <1>13 DEF AskedOnce, FreedAfter, AllocAt, FreeAt
<1>15. (HandsHold /\ LiveSomewhere /\ DeviceKnown /\ Memory)'
  BY <1>1, <1>8, <1>9, <1>10 DEF HandsHold, LiveSomewhere, DeviceKnown, Memory
<1>16. Reading'
  BY <1>1, <1>10, <1>13 DEF Reading
<1> QED
  BY <1>1, <1>11, <1>12, <1>14, <1>15, <1>16 DEF DriverInv

\* The fields of a request.
LEMMA RequestsOf ==
  ASSUME NEW m \in Request
  PROVE  /\ m.op \in {"allocate", "free", "write", "wait"} /\ m.by \in 1 .. Processes
         /\ m.op \in {"allocate", "free"} => m.call.handle \in Nat
         /\ m.op = "allocate" => m.call.units \in Sizes
         /\ m.op \in {"write", "wait"} => m.call.pointer \in Nat
         /\ m.op = "write" => m.call.value \in Threads
<1>1. m.op = m.call.op /\ m.call \in Call /\ m.by \in 1 .. Processes /\ m.op \in {"allocate", "free", "write", "wait"}
  BY DEF Request
<1> QED
  BY <1>1 DEF Call

\* An allocation is counted in units.
LEMMA SizesAreUnits ==
  ASSUME DriverConstants, NEW n \in Sizes PROVE n \in Nat \ {0}
<1>1. n \in 1 .. Spacing /\ Spacing \in Nat
  BY DEF DriverConstants
<1> QED
  BY <1>1

\* What the agent does with a request touches the memory of the process that sent it, and no other.
LEMMA ObeysOwn ==
  ASSUME DriverConstants, DriverTypes, NEW m \in Request, Obeys(m)
  PROVE  /\ DOMAIN device' = 1 .. Processes /\ \A p \in 1 .. Processes : p # m.by => device'[p] = device[p]
         /\ \A h \in DOMAIN device'[m.by] : device'[m.by][h] \in Seq(Cell)
         /\ answers' \in Seq(Cell \cup {Failed})
         /\ m.by # process => answers' = answers /\ refused' = refused
<1> DEFINE mine == device[m.by]
           h == m.call.handle
<1>1. /\ DOMAIN device = 1 .. Processes /\ m.by \in 1 .. Processes /\ \A k \in DOMAIN mine : mine[k] \in Seq(Cell)
      /\ answers \in Seq(Cell \cup {Failed})
  BY RequestsOf DEF DriverTypes
<1>2. CASE m.op = "allocate"
  <2>1. CASE Held + m.call.units <= DeviceSize
    <3> DEFINE new == [k \in DOMAIN mine \union {h} |-> IF k = h THEN [c \in 1 .. m.call.units |-> 0] ELSE mine[k]]
    <3>1. device' = [device EXCEPT ![m.by] = new] /\ UNCHANGED <<refused, answers>>
      BY <1>2, <2>1 DEF Obeys
    <3>2. m.call.units \in Nat
      BY <1>2, RequestsOf, SizesAreUnits
    <3>3. [c \in 1 .. m.call.units |-> 0] \in Seq(Cell)
      BY <3>2, IsASeq DEF Cell
    <3>4. \A k \in DOMAIN new : new[k] \in Seq(Cell)
      BY <1>1, <3>3
    <3> HIDE DEF new
    <3> QED
      BY <1>1, <3>1, <3>4
  <2>2. CASE ~(Held + m.call.units <= DeviceSize)
    BY <1>1, <1>2, <2>2 DEF Obeys
  <2> QED
    BY <2>1, <2>2
<1>3. CASE m.op = "free"
  <2> DEFINE new == [k \in DOMAIN mine \ {h} |-> mine[k]]
  <2>1. device' = [device EXCEPT ![m.by] = new] /\ UNCHANGED <<refused, answers>>
    BY <1>3 DEF Obeys
  <2>2. \A k \in DOMAIN new : new[k] \in Seq(Cell)
    BY <1>1
  <2> HIDE DEF new
  <2> QED
    BY <1>1, <2>1, <2>2
<1>4. CASE m.op = "write"
  <2> DEFINE q == m.call.pointer
             k == HandleOf(q)
             o == OffsetOf(q) + 1
  <2>1. UNCHANGED <<refused, answers>>
    BY <1>4 DEF Obeys
  <2>2. CASE Cells(m.by, q)
    <3>1. device' = [device EXCEPT ![m.by][k][o] = m.call.value]
      BY <1>4, <2>2 DEF Obeys
    <3>2. k \in DOMAIN mine /\ mine[k] \in Seq(Cell) /\ m.call.value \in Cell
      BY <1>1, <1>4, <2>2, RequestsOf DEF Cells, Cell
    <3>7. o \in 1 .. Len(mine[k])
      <4>1. OffsetOf(q) \in Nat /\ OffsetOf(q) < Len(mine[k])
        BY <1>4, <2>2, RequestsOf, PointersOf DEF Cells
      <4> QED
        BY <3>2, <4>1, LenProperties
    <3> HIDE DEF k, o
    <3>3. [mine[k] EXCEPT ![o] = m.call.value] \in Seq(Cell)
      BY <3>2, <3>7, ExceptSeq
    <3>4. DOMAIN device' = 1 .. Processes /\ \A p \in 1 .. Processes : p # m.by => device'[p] = device[p]
      BY <1>1, <3>1
    <3>5. device'[m.by] = [mine EXCEPT ![k] = [mine[k] EXCEPT ![o] = m.call.value]]
      BY <1>1, <3>1
    <3>6. \A j \in DOMAIN device'[m.by] : device'[m.by][j] \in Seq(Cell)
      BY <1>1, <3>2, <3>3, <3>5
    <3> QED
      BY <1>1, <2>1, <3>4, <3>6
  <2>3. CASE ~Cells(m.by, q)
    <3>1. device' = device
      BY <1>4, <2>3 DEF Obeys
    <3> QED
      BY <1>1, <2>1, <3>1
  <2> QED
    BY <2>2, <2>3
<1>5. CASE m.op = "wait"
  <2> DEFINE q == m.call.pointer
             v == IF Cells(m.by, q) THEN mine[HandleOf(q)][OffsetOf(q) + 1] ELSE Failed
  <2>1. UNCHANGED <<device, refused>> /\ answers' = IF m.by # process THEN answers ELSE Append(answers, v)
    BY <1>5 DEF Obeys
  <2>2. v \in Cell \cup {Failed}
    <3>1. CASE Cells(m.by, q)
      <4>1. HandleOf(q) \in DOMAIN mine /\ OffsetOf(q) < Len(mine[HandleOf(q)]) /\ OffsetOf(q) \in Nat
        BY <1>5, <3>1, RequestsOf, PointersOf DEF Cells
      <4>2. mine[HandleOf(q)] \in Seq(Cell) /\ OffsetOf(q) + 1 \in 1 .. Len(mine[HandleOf(q)])
        BY <1>1, <4>1, LenProperties
      <4> QED
        BY <3>1, <4>2, ElementOfSeq
    <3> QED
      BY <3>1
  <2> HIDE DEF v
  <2>3. Append(answers, v) \in Seq(Cell \cup {Failed})
    BY <1>1, <2>2, AppendProperties
  <2> QED
    BY <1>1, <2>1, <2>3
<1> QED
  BY <1>2, <1>3, <1>4, <1>5, RequestsOf

\* An allocation adds one empty block, or the device has no room and the handle is refused.
LEMMA ObeysAllocation ==
  ASSUME DriverConstants, DriverTypes, NEW m \in Request, Obeys(m), m.by = process, process' = process,
         m.op = "allocate", NEW h, h = m.call.handle
  PROVE  /\ answers' = answers
         /\ \/ /\ refused' = refused /\ DOMAIN Mine' = DOMAIN Mine \cup {h} /\ Len(Mine'[h]) = m.call.units
               /\ \A k \in DOMAIN Mine : k # h => Mine'[k] = Mine[k]
            \/ refused' = refused \cup {h} /\ Mine' = Mine
<1>1. DOMAIN device = 1 .. Processes /\ process \in 1 .. Processes
  BY DEF DriverTypes
<1>2. CASE Held + m.call.units <= DeviceSize
  <2> DEFINE zero == [c \in 1 .. m.call.units |-> 0]
             new == [k \in DOMAIN Mine \union {h} |-> IF k = h THEN zero ELSE Mine[k]]
  <2>1. device' = [device EXCEPT ![process] = new] /\ UNCHANGED <<refused, answers>>
    BY <1>2 DEF Obeys, Mine
  <2>2. Len(zero) = m.call.units
    <3>1. m.call.units \in Nat
      BY RequestsOf, SizesAreUnits
    <3> QED
      BY <3>1
  <2> HIDE DEF zero
  <2>3. DOMAIN new = DOMAIN Mine \cup {h} /\ new[h] = zero /\ \A k \in DOMAIN Mine : k # h => new[k] = Mine[k]
    OBVIOUS
  <2> HIDE DEF new
  <2>4. Mine' = new
    BY <1>1, <2>1 DEF Mine
  <2> QED
    BY <2>1, <2>2, <2>3, <2>4
<1>3. CASE ~(Held + m.call.units <= DeviceSize)
  BY <1>3 DEF Obeys, Mine
<1> QED
  BY <1>2, <1>3

\* A free takes one block away.
LEMMA ObeysFree ==
  ASSUME DriverTypes, NEW m, Obeys(m), m.by = process, process' = process, m.op = "free"
  PROVE  /\ answers' = answers /\ refused' = refused
         /\ DOMAIN Mine' = DOMAIN Mine \ {m.call.handle} /\ \A k \in DOMAIN Mine' : Mine'[k] = Mine[k]
<1> DEFINE new == [k \in DOMAIN Mine \ {m.call.handle} |-> Mine[k]]
<1>1. DOMAIN device = 1 .. Processes /\ process \in 1 .. Processes
  BY DEF DriverTypes
<1>2. device' = [device EXCEPT ![process] = new] /\ UNCHANGED <<refused, answers>>
  BY DEF Obeys, Mine
<1>3. Mine' = new
  BY <1>1, <1>2 DEF Mine
<1> QED
  BY <1>2, <1>3

\* A copy changes the cell of its pointer, and no other.
LEMMA ObeysWrite ==
  ASSUME DriverConstants, DriverTypes, NEW m \in Request, Obeys(m), m.by = process, process' = process,
         m.op = "write", NEW q, q = m.call.pointer
  PROVE  /\ answers' = answers /\ refused' = refused /\ q \in Nat
         /\ DOMAIN Mine' = DOMAIN Mine /\ \A k \in DOMAIN Mine : Len(Mine'[k]) = Len(Mine[k])
         /\ Cells(process, q) => Mine'[HandleOf(q)][OffsetOf(q) + 1] = m.call.value
         /\ \A p \in Nat : p # q /\ Cells(process, p) =>
              Mine'[HandleOf(p)][OffsetOf(p) + 1] = Mine[HandleOf(p)][OffsetOf(p) + 1]
<1>1. /\ DOMAIN device = 1 .. Processes /\ process \in 1 .. Processes /\ \A k \in DOMAIN Mine : Mine[k] \in Seq(Cell)
      /\ q \in Nat /\ HandleOf(q) \in Nat /\ OffsetOf(q) \in Nat /\ m.call.value \in Cell
  BY RequestsOf, PointersOf DEF DriverTypes, Mine, Cell
<1>2. UNCHANGED <<refused, answers>>
  BY DEF Obeys
<1>3. CASE Cells(process, q)
  <2> DEFINE k == HandleOf(q)
             o == OffsetOf(q) + 1
             new == [Mine[k] EXCEPT ![o] = m.call.value]
  <2>1. device' = [device EXCEPT ![process][k][o] = m.call.value]
    BY <1>3 DEF Obeys
  <2>2. k \in DOMAIN Mine /\ Mine[k] \in Seq(Cell) /\ o \in 1 .. Len(Mine[k])
    <3>1. k \in DOMAIN Mine /\ OffsetOf(q) < Len(Mine[k]) /\ Len(Mine[k]) \in Nat
      BY <1>1, <1>3, LenProperties DEF Cells, Mine
    <3> QED
      BY <1>1, <3>1
  <2>3. Mine' = [Mine EXCEPT ![k] = new]
    BY <1>1, <2>1 DEF Mine
  <2>4. Len(new) = Len(Mine[k]) /\ \A j \in 1 .. Len(Mine[k]) : new[j] = IF j = o THEN m.call.value ELSE Mine[k][j]
    BY <1>1, <2>2, ExceptSeq
  <2> HIDE DEF new
  <2>5. DOMAIN Mine' = DOMAIN Mine /\ Mine'[k] = new /\ \A j \in DOMAIN Mine : j # k => Mine'[j] = Mine[j]
    BY <2>2, <2>3
  <2>6. ASSUME NEW p \in Nat, p # q, Cells(process, p)
        PROVE  Mine'[HandleOf(p)][OffsetOf(p) + 1] = Mine[HandleOf(p)][OffsetOf(p) + 1]
    <3>1. HandleOf(p) \in DOMAIN Mine /\ OffsetOf(p) < Len(Mine[HandleOf(p)]) /\ OffsetOf(p) \in Nat
      BY <2>6, PointersOf DEF Cells, Mine
    <3>2. CASE HandleOf(p) # k
      BY <2>5, <3>1, <3>2
    <3>3. CASE HandleOf(p) = k
      <4>1. OffsetOf(p) # OffsetOf(q)
        BY <1>1, <2>6, <3>3, PointersOf
      <4>2. OffsetOf(p) + 1 \in 1 .. Len(Mine[k]) /\ OffsetOf(p) + 1 # o
        BY <1>1, <2>2, <3>1, <3>3, <4>1, LenProperties
      <4> HIDE DEF o, k
      <4>3. new[OffsetOf(p) + 1] = Mine[k][OffsetOf(p) + 1]
        BY <2>4, <4>2
      <4> QED
        BY <2>5, <3>3, <4>3
    <3> QED
      BY <3>2, <3>3
  <2> QED
    BY <1>1, <1>2, <2>2, <2>4, <2>5, <2>6
<1>4. CASE ~Cells(process, q)
  <2>1. device' = device
    BY <1>4 DEF Obeys
  <2> QED
    BY <1>1, <1>2, <1>4, <2>1 DEF Mine
<1> QED
  BY <1>3, <1>4

\* A question changes no memory, and its answer is what the cell holds.
LEMMA ObeysWait ==
  ASSUME NEW m, Obeys(m), m.by = process, process' = process, m.op = "wait", NEW q, q = m.call.pointer
  PROVE  /\ refused' = refused /\ Mine' = Mine
         /\ answers' = Append(answers, IF Cells(process, q) THEN Mine[HandleOf(q)][OffsetOf(q) + 1] ELSE Failed)
BY DEF Obeys, Mine

\* What a request of the process itself does to its memory and to its answers.
LEMMA ObeysMine ==
  ASSUME DriverConstants, DriverTypes, NEW m \in Request, Obeys(m), m.by = process, process' = process
  PROVE  /\ \A k \in DOMAIN Mine' : k \in DOMAIN Mine \/ (m.op = "allocate" /\ k = m.call.handle)
         /\ \A k \in DOMAIN Mine : \/ k \in DOMAIN Mine' /\ Len(Mine'[k]) = Len(Mine[k])
                                   \/ m.op \in {"allocate", "free"} /\ k = m.call.handle
         /\ m.op = "free" => m.call.handle \notin DOMAIN Mine'
         /\ refused \subseteq refused'
         /\ \A k \in refused' : k \in refused \/ (m.op = "allocate" /\ k = m.call.handle)
         /\ m.op = "allocate" /\ m.call.handle \notin DOMAIN Mine /\ m.call.handle \notin refused =>
              \/ m.call.handle \in refused' /\ m.call.handle \notin DOMAIN Mine'
              \/ /\ m.call.handle \notin refused' /\ m.call.handle \in DOMAIN Mine'
                 /\ Len(Mine'[m.call.handle]) = m.call.units
         /\ \A p \in Nat :
              Cells(process, p)' /\ (m.op = "allocate" => HandleOf(p) # m.call.handle)
                /\ (m.op = "write" => p # m.call.pointer) =>
                   Cells(process, p) /\ Mine'[HandleOf(p)][OffsetOf(p) + 1] = Mine[HandleOf(p)][OffsetOf(p) + 1]
         /\ m.op = "write" /\ Cells(process, m.call.pointer)' =>
              Mine'[HandleOf(m.call.pointer)][OffsetOf(m.call.pointer) + 1] = m.call.value
         /\ m.op # "wait" => answers' = answers
<1>1. PICK h : h = m.call.handle
  OBVIOUS
<1>2. PICK q : q = m.call.pointer
  OBVIOUS
<1>3. \A p : (Cells(process, p) <=> HandleOf(p) \in DOMAIN Mine /\ OffsetOf(p) < Len(Mine[HandleOf(p)]))
             /\ (Cells(process, p)' <=> HandleOf(p) \in DOMAIN Mine' /\ OffsetOf(p) < Len(Mine'[HandleOf(p)]))
  BY DEF Cells, Mine
<1>4. CASE m.op = "allocate"
  <2>1. /\ answers' = answers
        /\ \/ /\ refused' = refused /\ DOMAIN Mine' = DOMAIN Mine \cup {h} /\ Len(Mine'[h]) = m.call.units
              /\ \A k \in DOMAIN Mine : k # h => Mine'[k] = Mine[k]
           \/ refused' = refused \cup {h} /\ Mine' = Mine
    BY <1>1, <1>4, ObeysAllocation
  <2> QED
    BY <1>1, <1>3, <1>4, <2>1
<1>5. CASE m.op = "free"
  <2>1. /\ answers' = answers /\ refused' = refused
        /\ DOMAIN Mine' = DOMAIN Mine \ {h} /\ \A k \in DOMAIN Mine' : Mine'[k] = Mine[k]
    BY <1>1, <1>5, ObeysFree
  <2> QED
    BY <1>1, <1>3, <1>5, <2>1
<1>6. CASE m.op = "write"
  <2>1. /\ answers' = answers /\ refused' = refused /\ q \in Nat
        /\ DOMAIN Mine' = DOMAIN Mine /\ \A k \in DOMAIN Mine : Len(Mine'[k]) = Len(Mine[k])
        /\ Cells(process, q) => Mine'[HandleOf(q)][OffsetOf(q) + 1] = m.call.value
        /\ \A p \in Nat : p # q /\ Cells(process, p) =>
             Mine'[HandleOf(p)][OffsetOf(p) + 1] = Mine[HandleOf(p)][OffsetOf(p) + 1]
    BY <1>2, <1>6, ObeysWrite
  <2> QED
    BY <1>2, <1>3, <1>6, <2>1
<1>7. CASE m.op = "wait"
  <2>1. refused' = refused /\ Mine' = Mine
    BY <1>2, <1>7, ObeysWait
  <2> QED
    BY <1>3, <1>7, <2>1
<1> QED
  BY <1>4, <1>5, <1>6, <1>7, RequestsOf

\* What is pending after the first request is served.
LEMMA ServesFirst ==
  ASSUME DriverInv, Serves
  PROVE  \E m \in Request :
           /\ Obeys(m) /\ wire' \in Seq(Request) /\ m.by <= process /\ (attached => m.by = process)
           /\ Len(Pending) \in Nat \ {0} /\ Len(Pending') = Len(Pending) - 1 /\ Pending[1] = m
           /\ \A i \in 1 .. Len(Pending) - 1 : Pending'[i] = Pending[i + 1]
           /\ UNCHANGED <<process, attached, next, live, at, queue, written, late, misread>>
           /\ \A i, h \in Nat :
                /\ AllocAt(i, h)' <=> i # 0 /\ AllocAt(i + 1, h)
                /\ FreeAt(i, h)' <=> i # 0 /\ FreeAt(i + 1, h)
                /\ WriteAt(i, h)' <=> i # 0 /\ WriteAt(i + 1, h)
                /\ Asked(i, "wait")' <=> i # 0 /\ Asked(i + 1, "wait")
                /\ AllocAt(i, h) \/ FreeAt(i, h) \/ WriteAt(i, h) \/ Asked(i, "wait") =>
                     i # 0 /\ (i # 1 => Pending'[i - 1] = Pending[i])
           /\ \A h \in Nat : /\ AllocAt(1, h) <=> m.by = process /\ m.op = "allocate" /\ m.call.handle = h
                             /\ FreeAt(1, h) <=> m.by = process /\ m.op = "free" /\ m.call.handle = h
                             /\ WriteAt(1, h) <=> m.by = process /\ m.op = "write" /\ m.call.pointer = h
           /\ Asked(1, "wait") <=> m.by = process /\ m.op = "wait"
<1> DEFINE m == Head(wire)
<1>1. /\ wire # <<>> /\ wire' = Tail(wire) /\ Obeys(m)
      /\ UNCHANGED <<process, attached, next, live, at, queue, written, late, misread>>
  BY DEF Serves
<1>2. /\ Len(Pending) \in Nat \ {0} /\ Len(Pending') = Len(Pending) - 1
      /\ Pending[1] = m /\ m \in Request /\ wire' \in Seq(Request)
      /\ \A i \in 1 .. Len(Pending) - 1 : Pending'[i] = Pending[i + 1]
  BY <1>1, Serving DEF DriverInv
<1> HIDE DEF m
<1>3. \A i, h \in Nat :
        /\ AllocAt(i, h)' <=> i # 0 /\ AllocAt(i + 1, h)
        /\ FreeAt(i, h)' <=> i # 0 /\ FreeAt(i + 1, h)
        /\ WriteAt(i, h)' <=> i # 0 /\ WriteAt(i + 1, h)
        /\ Asked(i, "wait")' <=> i # 0 /\ Asked(i + 1, "wait")
        /\ AllocAt(i, h) \/ FreeAt(i, h) \/ WriteAt(i, h) \/ Asked(i, "wait") =>
             i # 0 /\ (i # 1 => Pending'[i - 1] = Pending[i])
  BY <1>1, <1>2, Shrunk
<1>4. 1 \in 1 .. Len(Pending)
  BY <1>2
<1>5. /\ \A h \in Nat : /\ AllocAt(1, h) <=> m.by = process /\ m.op = "allocate" /\ m.call.handle = h
                        /\ FreeAt(1, h) <=> m.by = process /\ m.op = "free" /\ m.call.handle = h
                        /\ WriteAt(1, h) <=> m.by = process /\ m.op = "write" /\ m.call.pointer = h
      /\ Asked(1, "wait") <=> m.by = process /\ m.op = "wait"
  BY <1>2, <1>4 DEF AllocAt, FreeAt, WriteAt, Asked
<1>6. m.by <= process /\ (attached => m.by = process)
  BY <1>2, <1>4 DEF DriverInv, Attachment
<1> QED
  BY <1>1, <1>2, <1>3, <1>5, <1>6

\* The agent serves the first request, of whichever process it is.
LEMMA ServesKeep ==
  ASSUME DriverConstants, DriverInv, Serves
  PROVE  DriverInv'
<1>1. PICK m \in Request :
        /\ Obeys(m) /\ wire' \in Seq(Request) /\ m.by <= process /\ (attached => m.by = process)
        /\ Len(Pending) \in Nat \ {0} /\ Len(Pending') = Len(Pending) - 1 /\ Pending[1] = m
        /\ \A i \in 1 .. Len(Pending) - 1 : Pending'[i] = Pending[i + 1]
        /\ UNCHANGED <<process, attached, next, live, at, queue, written, late, misread>>
        /\ \A i, h \in Nat :
             /\ AllocAt(i, h)' <=> i # 0 /\ AllocAt(i + 1, h)
             /\ FreeAt(i, h)' <=> i # 0 /\ FreeAt(i + 1, h)
             /\ WriteAt(i, h)' <=> i # 0 /\ WriteAt(i + 1, h)
             /\ Asked(i, "wait")' <=> i # 0 /\ Asked(i + 1, "wait")
             /\ AllocAt(i, h) \/ FreeAt(i, h) \/ WriteAt(i, h) \/ Asked(i, "wait") =>
                  i # 0 /\ (i # 1 => Pending'[i - 1] = Pending[i])
        /\ \A h \in Nat : /\ AllocAt(1, h) <=> m.by = process /\ m.op = "allocate" /\ m.call.handle = h
                          /\ FreeAt(1, h) <=> m.by = process /\ m.op = "free" /\ m.call.handle = h
                          /\ WriteAt(1, h) <=> m.by = process /\ m.op = "write" /\ m.call.pointer = h
        /\ Asked(1, "wait") <=> m.by = process /\ m.op = "wait"
  BY ServesFirst
<1>2. /\ DriverTypes /\ process \in 1 .. Processes
      /\ DOMAIN device' = 1 .. Processes /\ \A p \in 1 .. Processes : p # m.by => device'[p] = device[p]
      /\ \A h \in DOMAIN device'[m.by] : device'[m.by][h] \in Seq(Cell)
      /\ answers' \in Seq(Cell \cup {Failed})
      /\ m.by # process => answers' = answers /\ refused' = refused
  <2>1. DriverTypes /\ process \in 1 .. Processes
    BY DEF DriverInv, DriverTypes
  <2> QED
    BY <1>1, <2>1, ObeysOwn
<1>3. DriverTypes'
  <2>1. \A p \in 1 .. Processes : \A h \in DOMAIN device'[p] : device'[p][h] \in Seq(Cell)
    BY <1>2 DEF DriverTypes
  <2>2. queue' \in Seq(Request) /\ wire' \in Seq(Request)
    BY <1>1, <1>2 DEF DriverTypes
  <2> QED
    BY <1>1, <1>2, <2>1, <2>2 DEF DriverTypes
<1>4. \A h : /\ InHand("allocate", h)' <=> InHand("allocate", h)
             /\ InHand("free", h)' <=> InHand("free", h)
  BY <1>1 DEF InHand
<1>5. m.by \in Nat /\ process \in Nat
  BY <1>2, RequestsOf
<1>6. Attachment'
  <2>1. ASSUME NEW i \in 1 .. Len(Pending')
        PROVE  i + 1 \in 1 .. Len(Pending) /\ Pending'[i] = Pending[i + 1]
    <3>1. i \in 1 .. Len(Pending) - 1 /\ i + 1 \in 1 .. Len(Pending)
      BY <1>1
    <3> QED
      BY <1>1, <3>1
  <2>2. \A i \in 1 .. Len(Pending') : Pending'[i].by <= process /\ (attached => Pending'[i].by = process)
    BY <2>1 DEF DriverInv, Attachment
  <2>3. ASSUME NEW p \in process + 1 .. Processes PROVE DOMAIN device'[p] = {}
    <3>1. p \in 1 .. Processes /\ p # m.by
      BY <1>1, <1>2, <1>5
    <3> QED
      BY <1>2, <3>1 DEF DriverInv, Attachment
  <2>4. ~attached => /\ Mine' = Mine /\ refused' = refused /\ answers' = answers
                     /\ \A i \in 1 .. Len(Pending') : Pending'[i].by # process
    <3> SUFFICES ASSUME ~attached
                 PROVE  /\ Mine' = Mine /\ refused' = refused /\ answers' = answers
                        /\ \A i \in 1 .. Len(Pending') : Pending'[i].by # process
      OBVIOUS
    <3>1. \A i \in 1 .. Len(Pending) : Pending[i].by # process
      BY DEF DriverInv, Attachment
    <3>2. 1 \in 1 .. Len(Pending)
      BY <1>1
    <3>3. m.by # process
      BY <1>1, <3>1, <3>2
    <3>4. Mine' = Mine
      BY <1>1, <1>2, <3>3 DEF Mine
    <3>5. \A i \in 1 .. Len(Pending') : Pending'[i].by # process
      BY <2>1, <3>1
    <3> QED
      BY <1>2, <3>3, <3>4, <3>5
  <2> QED
    BY <1>1, <2>2, <2>3, <2>4 DEF DriverInv, Attachment
<1>7. CASE m.by # process
  <2>1. ~attached
    BY <1>1, <1>7
  <2>2. /\ DOMAIN live = {} /\ DOMAIN written = {} /\ DOMAIN Mine = {} /\ refused = {}
        /\ answers = <<>> /\ (\A t \in Threads : at[t].op = "idle")
    BY <2>1 DEF DriverInv, Attachment
  <2>3. \A i \in 1 .. Len(Pending') : Pending'[i].by # process'
    BY <1>1, <1>6, <2>1 DEF Attachment
  <2>4. \A i, op : ~Asked(i, op)'
    BY <2>3 DEF Asked
  <2>5. Mine' = Mine /\ answers' = answers /\ refused' = refused
    BY <1>1, <1>2, <1>7 DEF Mine
  <2>6. (AskedOnce /\ FreedAfter)'
    BY <2>4 DEF AskedOnce, FreedAfter, AllocAt, FreeAt
  <2>7. (HandsHold /\ LiveSomewhere /\ DeviceKnown /\ Memory)'
    BY <1>1, <2>2, <2>5 DEF HandsHold, LiveSomewhere, DeviceKnown, Memory
  <2>8. Reading'
    BY <1>1, <2>2, <2>4, <2>5 DEF Reading
  <2> QED
    BY <1>1, <1>3, <1>6, <2>6, <2>7, <2>8 DEF DriverInv
<1>8. CASE m.by = process
  <2>1. /\ \A k \in DOMAIN Mine' : k \in DOMAIN Mine \/ (m.op = "allocate" /\ k = m.call.handle)
        /\ \A k \in DOMAIN Mine : \/ k \in DOMAIN Mine' /\ Len(Mine'[k]) = Len(Mine[k])
                                  \/ m.op \in {"allocate", "free"} /\ k = m.call.handle
        /\ m.op = "free" => m.call.handle \notin DOMAIN Mine'
        /\ refused \subseteq refused'
        /\ \A k \in refused' : k \in refused \/ (m.op = "allocate" /\ k = m.call.handle)
        /\ m.op = "allocate" /\ m.call.handle \notin DOMAIN Mine /\ m.call.handle \notin refused =>
             \/ m.call.handle \in refused' /\ m.call.handle \notin DOMAIN Mine'
             \/ /\ m.call.handle \notin refused' /\ m.call.handle \in DOMAIN Mine'
                /\ Len(Mine'[m.call.handle]) = m.call.units
        /\ \A p \in Nat :
             Cells(process, p)' /\ (m.op = "allocate" => HandleOf(p) # m.call.handle)
               /\ (m.op = "write" => p # m.call.pointer) =>
                  Cells(process, p) /\ Mine'[HandleOf(p)][OffsetOf(p) + 1] = Mine[HandleOf(p)][OffsetOf(p) + 1]
        /\ m.op = "write" /\ Cells(process, m.call.pointer)' =>
             Mine'[HandleOf(m.call.pointer)][OffsetOf(m.call.pointer) + 1] = m.call.value
        /\ m.op # "wait" => answers' = answers
    BY <1>1, <1>2, <1>8, ObeysMine
  <2>2. /\ m.op \in {"allocate", "free"} => m.call.handle \in Nat
        /\ \A h \in DOMAIN live : h \in Nat
    BY <1>2, RequestsOf, PointersOf
  \* The handle the request names, if it is an allocation or a free.
  <2>3. m.op = "allocate" => /\ AllocAt(1, m.call.handle) /\ m.call.handle < next /\ m.call.handle \notin DOMAIN Mine
                             /\ m.call.handle \notin refused /\ ~InHand("allocate", m.call.handle)
                             /\ \A j \in Nat : AllocAt(j, m.call.handle) => j = 1
                             /\ m.call.handle \in DOMAIN live => m.call.units = live[m.call.handle]
                             /\ m.call.handle \notin DOMAIN live =>
                                  InHand("free", m.call.handle) \/ \E j \in Nat : FreeAt(j, m.call.handle)
    <3> SUFFICES ASSUME m.op = "allocate", NEW k, k = m.call.handle
                 PROVE  /\ AllocAt(1, k) /\ k < next /\ k \notin DOMAIN Mine
                        /\ k \notin refused /\ ~InHand("allocate", k)
                        /\ \A j \in Nat : AllocAt(j, k) => j = 1
                        /\ k \in DOMAIN live => m.call.units = live[k]
                        /\ k \notin DOMAIN live => InHand("free", k) \/ \E j \in Nat : FreeAt(j, k)
      OBVIOUS
    <3>1. AllocAt(1, k) /\ k \in Nat /\ 1 \in Nat
      BY <1>1, <1>8, <2>2
    <3>2. /\ k < next /\ k \notin DOMAIN Mine /\ k \notin refused /\ ~InHand("allocate", k)
          /\ \A j \in Nat : AllocAt(j, k) => 1 = j
          /\ k \in DOMAIN live => Pending[1].call.units = live[k]
          /\ k \notin DOMAIN live => InHand("free", k) \/ \E j \in Nat : FreeAt(j, k)
      BY <3>1 DEF DriverInv, AskedOnce
    <3> QED
      BY <1>1, <3>1, <3>2
  <2>4. m.op = "free" => /\ FreeAt(1, m.call.handle) /\ m.call.handle \notin DOMAIN live
                         /\ \A j \in Nat : ~AllocAt(j, m.call.handle)
    <3> SUFFICES ASSUME m.op = "free", NEW k, k = m.call.handle
                 PROVE  FreeAt(1, k) /\ k \notin DOMAIN live /\ \A j \in Nat : ~AllocAt(j, k)
      OBVIOUS
    <3>1. FreeAt(1, k) /\ k \in Nat /\ 1 \in Nat
      BY <1>1, <1>8, <2>2
    <3>2. k \notin DOMAIN live /\ \A j \in Nat : AllocAt(j, k) => j < 1
      BY <3>1 DEF DriverInv, FreedAfter
    <3>3. \A j \in Nat : AllocAt(j, k) => j # 0
      BY <1>1, <3>1
    <3> QED
      BY <3>1, <3>2, <3>3
  \* What is asked of a handle later than the first request is asked of it still.
  <2>5. \A i, h \in Nat : /\ AllocAt(i, h) /\ i # 1 => i - 1 \in Nat /\ AllocAt(i - 1, h)'
                          /\ FreeAt(i, h) /\ i # 1 => i - 1 \in Nat /\ FreeAt(i - 1, h)'
                          /\ WriteAt(i, h) /\ i # 1 => i - 1 \in Nat /\ WriteAt(i - 1, h)'
    BY <1>1
  <2>6. AskedOnce'
    <3> SUFFICES ASSUME NEW i \in Nat, NEW h \in Nat, AllocAt(i, h)'
                 PROVE  /\ h < next' /\ h \notin DOMAIN Mine' /\ h \notin refused' /\ ~InHand("allocate", h)'
                        /\ \A j \in Nat : AllocAt(j, h)' => i = j
                        /\ h \in DOMAIN live' => Pending'[i].call.units = live'[h]
                        /\ h \notin DOMAIN live' => InHand("free", h)' \/ \E j \in Nat : FreeAt(j, h)'
      BY DEF AskedOnce
    <3>1. i + 1 \in Nat /\ AllocAt(i + 1, h) /\ i # 0 /\ i + 1 # 1
      BY <1>1
    <3>2. /\ h < next /\ h \notin DOMAIN Mine /\ h \notin refused /\ ~InHand("allocate", h)
          /\ \A j \in Nat : AllocAt(j, h) => i + 1 = j
          /\ h \in DOMAIN live => Pending[i + 1].call.units = live[h]
          /\ h \notin DOMAIN live => InHand("free", h) \/ \E j \in Nat : FreeAt(j, h)
      BY <3>1 DEF DriverInv, AskedOnce
    <3>3. ~(m.op = "allocate" /\ h = m.call.handle)
      BY <2>3, <3>1
    <3>4. h \notin DOMAIN Mine' /\ h \notin refused'
      BY <2>1, <3>2, <3>3
    <3>5. \A j \in Nat : AllocAt(j, h)' => i = j
      <4> SUFFICES ASSUME NEW j \in Nat, AllocAt(j, h)' PROVE i = j
        OBVIOUS
      <4>1. j + 1 \in Nat
        OBVIOUS
      <4>2. AllocAt(j + 1, h)
        BY <1>1
      <4> QED
        BY <3>2, <4>1, <4>2
    <3>6. Pending'[i] = Pending[i + 1]
      BY <1>1, <3>1
    <3>7. h \notin DOMAIN live => InHand("free", h) \/ \E j \in Nat : FreeAt(j, h)'
      <4> SUFFICES ASSUME h \notin DOMAIN live, NEW j \in Nat, FreeAt(j, h) PROVE \E l \in Nat : FreeAt(l, h)'
        BY <3>2
      <4>1. i + 1 < j
        BY <3>1 DEF DriverInv, FreedAfter
      <4>2. j # 1
        BY <3>1, <4>1
      <4> QED
        BY <2>5, <4>2
    <3> QED
      BY <1>1, <1>4, <3>2, <3>4, <3>5, <3>6, <3>7
  <2>7. FreedAfter'
    <3> SUFFICES ASSUME NEW i \in Nat, NEW h \in Nat, FreeAt(i, h)'
                 PROVE  h < next' /\ h \notin DOMAIN live' /\ \A j \in Nat : AllocAt(j, h)' => j < i
      BY DEF FreedAfter
    <3>1. i + 1 \in Nat /\ FreeAt(i + 1, h)
      BY <1>1
    <3>2. h < next /\ h \notin DOMAIN live /\ \A j \in Nat : AllocAt(j, h) => j < i + 1
      BY <3>1 DEF DriverInv, FreedAfter
    <3>3. \A j \in Nat : AllocAt(j, h)' => j < i
      <4> SUFFICES ASSUME NEW j \in Nat, AllocAt(j, h)' PROVE j < i
        OBVIOUS
      <4>1. j + 1 \in Nat
        OBVIOUS
      <4>2. AllocAt(j + 1, h)
        BY <1>1
      <4>3. j + 1 < i + 1
        BY <3>2, <4>1, <4>2
      <4> QED
        BY <4>3
    <3> QED
      BY <1>1, <3>2, <3>3
  <2>8. HandsHold'
    <3> SUFFICES ASSUME NEW t \in Threads, at[t].op = "allocate"
                 PROVE  at[t].handle \notin DOMAIN Mine' /\ at[t].handle \notin refused'
      BY <1>1 DEF DriverInv, HandsHold
    <3>1. at[t].handle \notin DOMAIN Mine /\ at[t].handle \notin refused /\ InHand("allocate", at[t].handle)
      BY DEF DriverInv, HandsHold, InHand
    <3> QED
      BY <2>1, <2>3, <3>1
  <2>9. LiveSomewhere'
    <3> SUFFICES ASSUME NEW h \in DOMAIN live
                 PROVE  \/ InHand("allocate", h)' \/ (\E i \in Nat : AllocAt(i, h)') \/ h \in refused'
                        \/ h \in DOMAIN Mine' /\ Len(Mine'[h]) = live[h]
      BY <1>1 DEF LiveSomewhere
    <3>1. CASE InHand("allocate", h)
      BY <1>4, <3>1
    <3>2. CASE \E i \in Nat : AllocAt(i, h)
      <4>1. PICK i \in Nat : AllocAt(i, h)
        BY <3>2
      <4>2. CASE i = 1
        <5>1. m.op = "allocate" /\ m.call.handle = h
          BY <1>1, <2>2, <4>1, <4>2
        <5> QED
          BY <2>1, <2>3, <5>1
      <4>3. CASE i # 1
        BY <2>2, <2>5, <4>1, <4>3
      <4> QED
        BY <4>2, <4>3
    <3>3. CASE h \in refused
      BY <2>1, <3>3
    <3>4. CASE h \in DOMAIN Mine /\ Len(Mine[h]) = live[h]
      <4>1. ~(m.op \in {"allocate", "free"} /\ h = m.call.handle)
        BY <2>3, <2>4, <3>4
      <4> QED
        BY <2>1, <3>4, <4>1
    <3> QED
      BY <3>1, <3>2, <3>3, <3>4 DEF DriverInv, LiveSomewhere
  <2>10. DeviceKnown'
    <3>1. ASSUME NEW h \in DOMAIN Mine'
          PROVE  /\ h \in Nat /\ h < next /\ h \notin refused'
                 /\ h \notin DOMAIN live => InHand("free", h) \/ \E i \in Nat : FreeAt(i, h)'
      <4>1. CASE h \in DOMAIN Mine
        <5>1. /\ h \in Nat /\ h < next /\ h \notin refused
              /\ h \notin DOMAIN live => InHand("free", h) \/ \E i \in Nat : FreeAt(i, h)
          BY <4>1 DEF DriverInv, DeviceKnown
        <5>2. ~(m.op = "allocate" /\ h = m.call.handle)
          BY <2>3, <4>1
        <5>3. h \notin refused'
          BY <2>1, <5>1, <5>2
        <5>4. ASSUME NEW i \in Nat, FreeAt(i, h) PROVE \E j \in Nat : FreeAt(j, h)'
          <6>1. i # 1
            BY <1>1, <2>1, <5>1, <5>4
          <6> QED
            BY <2>5, <5>1, <5>4, <6>1
        <5> QED
          BY <5>1, <5>3, <5>4
      <4>2. CASE h \notin DOMAIN Mine
        <5>1. m.op = "allocate" /\ h = m.call.handle /\ h \in Nat /\ AllocAt(1, h)
          BY <2>1, <2>2, <2>3, <4>2
        <5>2. h < next /\ h \notin refused'
          BY <2>1, <2>3, <5>1
        <5>3. ASSUME NEW i \in Nat, FreeAt(i, h) PROVE \E j \in Nat : FreeAt(j, h)'
          <6>1. 1 < i
            BY <5>1, <5>3 DEF DriverInv, FreedAfter
          <6>2. i # 1
            BY <6>1
          <6> QED
            BY <2>5, <5>1, <5>3, <6>2
        <5> QED
          BY <2>3, <5>1, <5>2, <5>3
      <4> QED
        BY <4>1, <4>2
    <3>2. \A h \in refused' : h \in Nat /\ h < next
      BY <2>1, <2>2, <2>3 DEF DriverInv, DeviceKnown
    <3> QED
      BY <1>1, <1>4, <3>1, <3>2 DEF DeviceKnown
  <2>11. Memory'
    <3> SUFFICES ASSUME NEW p \in DOMAIN written
                 PROVE  /\ HandleOf(p) \in DOMAIN live' /\ p \in Pointers(HandleOf(p))' /\ ~InHand("allocate", HandleOf(p))'
                        /\ LastWrite(p)' \/ InCell(p)'
      BY <1>1 DEF Memory
    <3>1. p \in Nat /\ HandleOf(p) \in Nat
      BY <1>2, PointersOf DEF DriverTypes
    <3>2. /\ HandleOf(p) \in DOMAIN live /\ p \in Pointers(HandleOf(p)) /\ ~InHand("allocate", HandleOf(p))
          /\ LastWrite(p) \/ InCell(p)
      BY DEF DriverInv, Memory
    <3>3. HandleOf(p) \in DOMAIN live' /\ p \in Pointers(HandleOf(p))' /\ ~InHand("allocate", HandleOf(p))'
      BY <1>1, <1>4, <3>2 DEF Pointers
    <3>4. CASE LastWrite(p)
      <4>1. PICK i \in Nat : /\ WriteAt(i, p) /\ Pending[i].call.value = written[p]
                             /\ \A j \in Nat : (WriteAt(j, p) => j <= i) /\ (AllocAt(j, HandleOf(p)) => j < i)
        BY <3>4 DEF LastWrite
      <4>2. ASSUME NEW j \in Nat
            PROVE  (WriteAt(j, p)' => j + 1 <= i /\ j # 0) /\ (AllocAt(j, HandleOf(p))' => j + 1 < i /\ j # 0)
        <5>1. j + 1 \in Nat
          OBVIOUS
        <5> QED
          BY <1>1, <3>1, <4>1, <5>1
      <4>3. CASE i = 1
        <5>1. m.op = "write" /\ m.call.pointer = p /\ m.call.value = written[p]
          BY <1>1, <3>1, <4>1, <4>3
        <5>2. \A j \in Nat : ~WriteAt(j, p)' /\ ~AllocAt(j, HandleOf(p))'
          BY <4>2, <4>3
        <5>3. Cells(process, p)' => Mine'[HandleOf(p)][OffsetOf(p) + 1] = written[p]
          BY <2>1, <5>1
        <5>4. InCell(p)'
          BY <1>1, <5>2, <5>3 DEF InCell, Cells
        <5> QED
          BY <3>3, <5>4
      <4>4. CASE i # 1
        <5>1. WriteAt(i - 1, p)' /\ i - 1 \in Nat
          BY <2>5, <3>1, <4>1, <4>4
        <5>2. Pending'[i - 1].call.value = written[p]
          BY <1>1, <3>1, <4>1, <4>4
        <5>3. \A j \in Nat : (WriteAt(j, p)' => j <= i - 1) /\ (AllocAt(j, HandleOf(p))' => j < i - 1)
          BY <4>2
        <5>4. LastWrite(p)'
          BY <1>1, <5>1, <5>2, <5>3 DEF LastWrite
        <5> QED
          BY <3>3, <5>4
      <4> QED
        BY <4>3, <4>4
    <3>5. CASE InCell(p)
      <4>1. /\ \A j \in Nat : ~WriteAt(j, p) /\ ~AllocAt(j, HandleOf(p))
            /\ Cells(process, p) => Mine[HandleOf(p)][OffsetOf(p) + 1] = written[p]
        BY <3>5 DEF InCell
      <4>2. \A j \in Nat : ~WriteAt(j, p)' /\ ~AllocAt(j, HandleOf(p))'
        BY <1>1, <3>1, <4>1
      <4>3. (m.op = "allocate" => HandleOf(p) # m.call.handle) /\ (m.op = "write" => p # m.call.pointer)
        <5>1. ~WriteAt(1, p) /\ ~AllocAt(1, HandleOf(p))
          BY <4>1
        <5> QED
          BY <1>1, <1>8, <3>1, <5>1
      <4>4. Cells(process, p)' => Mine'[HandleOf(p)][OffsetOf(p) + 1] = written[p]
        BY <2>1, <3>1, <4>1, <4>3
      <4>5. InCell(p)'
        BY <1>1, <4>2, <4>4 DEF InCell, Cells
      <4> QED
        BY <3>3, <4>5
    <3> QED
      BY <3>2, <3>4, <3>5
  <2>12. Reading'
    <3> SUFFICES ASSUME ~late PROVE Reading'
      BY <1>1 DEF Reading
    <3>1. /\ \A t, u \in Threads : at[t].op = "wait" /\ at[u].op = "wait" => t = u
          /\ (\A t \in Threads : at[t].op # "wait") => answers = <<>> /\ \A i \in Nat : ~Asked(i, "wait")
          /\ \A t \in Threads : at[t].op = "wait" =>
               /\ at[t].pointer \in DOMAIN written /\ at[t].wants = written[at[t].pointer]
               /\ Question(t) \/ Answer(t)
      BY DEF DriverInv, Reading
    <3>2. (\A i \in Nat : ~Asked(i, "wait")) => answers' = answers /\ \A i \in Nat : ~Asked(i, "wait")'
      BY <1>1, <1>8, <2>1
    <3>3. ASSUME NEW t \in Threads, at[t].op = "wait", Question(t) PROVE Question(t)' \/ Answer(t)'
      <4>1. PICK i \in Nat : /\ Asked(i, "wait") /\ Pending[i].call.pointer = at[t].pointer
                             /\ \A j \in Nat : (Asked(j, "wait") => j = i) /\ (WriteAt(j, at[t].pointer) => j < i)
        BY <3>3 DEF Question
      <4>2. PICK p : p = at[t].pointer
        OBVIOUS
      <4>3. p \in Nat /\ p \in DOMAIN written /\ at[t].wants = written[p] /\ answers = <<>>
        BY <1>2, <3>1, <3>3, <4>2, CallsOf DEF Question
      <4>4. ASSUME NEW j \in Nat
            PROVE  (Asked(j, "wait")' => j + 1 = i /\ j # 0) /\ (WriteAt(j, p)' => j + 1 < i /\ j # 0)
        <5>1. j + 1 \in Nat
          OBVIOUS
        <5> QED
          BY <1>1, <4>1, <4>2, <4>3, <5>1
      <4>5. CASE i = 1
        <5>1. m.op = "wait" /\ m.call.pointer = p
          BY <1>1, <4>1, <4>2, <4>5
        <5>2. answers' = Append(answers, IF Cells(process, p) THEN Mine[HandleOf(p)][OffsetOf(p) + 1] ELSE Failed)
          BY <1>1, <1>8, <5>1, ObeysWait
        <5>3. ~LastWrite(p)
          <6>1. \A j \in Nat : WriteAt(j, p) => j < 1 /\ j # 0
            BY <1>1, <4>1, <4>2, <4>3, <4>5
          <6>2. \A j \in Nat : ~WriteAt(j, p)
            BY <6>1
          <6> QED
            BY <6>2 DEF LastWrite
        <5>4. Cells(process, p) => Mine[HandleOf(p)][OffsetOf(p) + 1] = at[t].wants
          BY <4>3, <5>3 DEF DriverInv, Memory, InCell
        <5>5. Len(answers') = 1 /\ answers'[1] \in {Failed, at[t].wants}
          <6> DEFINE v == IF Cells(process, p) THEN Mine[HandleOf(p)][OffsetOf(p) + 1] ELSE Failed
          <6>1. v \in {Failed, at[t].wants}
            BY <5>4
          <6>2. answers' = <<v>>
            BY <4>3, <5>2
          <6> HIDE DEF v
          <6> QED
            BY <6>1, <6>2
        <5>6. \A j \in Nat : ~Asked(j, "wait")'
          BY <4>4, <4>5
        <5> QED
          BY <1>1, <5>5, <5>6 DEF Answer
      <4>6. CASE i # 1
        <5>1. i - 1 \in Nat /\ Asked(i - 1, "wait")' /\ Pending'[i - 1] = Pending[i]
          BY <1>1, <4>1, <4>6
        <5>2. answers' = <<>>
          <6>1. m.op # "wait"
            BY <1>1, <1>8, <4>1, <4>6
          <6> QED
            BY <2>1, <4>3, <6>1
        <5>3. \A j \in Nat : (Asked(j, "wait")' => j = i - 1) /\ (WriteAt(j, p)' => j < i - 1)
          BY <4>4
        <5> QED
          BY <1>1, <4>1, <4>2, <5>1, <5>2, <5>3 DEF Question
      <4> QED
        BY <4>5, <4>6
    <3>4. ASSUME NEW t \in Threads, Answer(t) PROVE Answer(t)'
      BY <1>1, <3>2, <3>4 DEF Answer
    <3> QED
      BY <1>1, <3>1, <3>2, <3>3, <3>4 DEF Reading
  <2> QED
    BY <1>1, <1>3, <1>6, <2>6, <2>7, <2>8, <2>9, <2>10, <2>11, <2>12 DEF DriverInv
<1> QED
  BY <1>7, <1>8

-----------------------------------------------------------------------------
LEMMA DriverInits ==
  ASSUME DriverConstants, DriverInit PROVE DriverInv
<1>1. /\ process = 1 /\ attached = FALSE /\ next = 1 /\ at = [t \in Threads |-> Idle]
      /\ queue = <<>> /\ wire = <<>> /\ answers = <<>> /\ refused = {} /\ late = FALSE /\ misread = FALSE
      /\ DOMAIN live = {} /\ DOMAIN written = {} /\ DOMAIN device = 1 .. Processes
      /\ \A p \in 1 .. Processes : DOMAIN device[p] = {}
  BY DEF DriverInit, Nothing
<1>2. Pending = <<>> /\ Len(Pending) = 0 /\ process \in 1 .. Processes
  BY <1>1 DEF Pending, DriverConstants
<1>3. \A t \in Threads : at[t] = Idle /\ Idle.op = "idle" /\ Idle \in Call
  BY <1>1 DEF Idle, Call
<1>4. DriverTypes
  <2>1. wire \in Seq(Request) /\ queue \in Seq(Request) /\ answers \in Seq(Cell \cup {Failed})
    BY <1>1, EmptySeq
  <2>2. at \in [Threads -> Call] /\ \A t \in Threads : at[t].op # "write"
    BY <1>1, <1>3
  <2>3. next \in Nat \ {0} /\ DOMAIN live \subseteq 1 .. next - 1 /\ \A h \in DOMAIN live : live[h] \in Sizes
    BY <1>1
  <2>4. attached \in BOOLEAN /\ late \in BOOLEAN /\ misread \in BOOLEAN
    BY <1>1
  <2> QED
    BY <1>1, <1>2, <2>1, <2>2, <2>3, <2>4 DEF DriverTypes
<1>5. \A i, op : ~Asked(i, op)
  <2>1. \A i : i \notin 1 .. Len(Pending)
    BY <1>2
  <2> QED
    BY <2>1 DEF Asked
<1>6. Attachment
  <2>1. \A i \in 1 .. Len(Pending) : FALSE
    BY <1>2
  <2>2. DOMAIN Mine = {} /\ \A p \in process + 1 .. Processes : DOMAIN device[p] = {}
    BY <1>1, <1>2 DEF Mine, DriverConstants
  <2> QED
    BY <1>1, <1>3, <2>1, <2>2 DEF Attachment
<1>7. AskedOnce /\ FreedAfter
  BY <1>5 DEF AskedOnce, FreedAfter, AllocAt, FreeAt
<1>8. HandsHold /\ LiveSomewhere /\ DeviceKnown /\ Memory
  BY <1>1, <1>2, <1>3 DEF HandsHold, LiveSomewhere, DeviceKnown, Memory, Mine
<1>9. Reading
  BY <1>1, <1>3, <1>5 DEF Reading
<1> QED
  BY <1>1, <1>4, <1>6, <1>7, <1>8, <1>9 DEF DriverInv

LEMMA DriverSteps ==
  ASSUME DriverConstants, DriverInv, [DriverNext]_driverVars PROVE DriverInv'
<1>1. CASE Attaches
  BY <1>1, AttachesKeep
<1>2. CASE Exits
  BY <1>2, ExitsKeep
<1>3. CASE Serves
  BY <1>3, ServesKeep
<1>4. ASSUME NEW t \in Threads, NEW n \in Sizes, Allocates(t, n) PROVE DriverInv'
  BY <1>4, AllocatesKeep
<1>5. ASSUME NEW t \in Threads, NEW h \in Given, Frees(t, h) PROVE DriverInv'
  BY <1>5, FreesKeep
<1>6. ASSUME NEW t \in Threads, NEW p \in Usable, CopiesIn(t, p) PROVE DriverInv'
  BY <1>6, CopiesInKeep
<1>7. ASSUME NEW t \in Threads, NEW p \in Usable \cap DOMAIN written, CopiesOut(t, p) PROVE DriverInv'
  BY <1>7, CopiesOutKeep
<1>8. ASSUME NEW t \in Threads, Queues(t) PROVE DriverInv'
  BY <1>8, QueuesKeep
<1>9. ASSUME NEW t \in Threads, Answered(t) PROVE DriverInv'
  BY <1>9, AnsweredKeep
<1>10. ASSUME NEW t \in Threads, TimesOut(t) PROVE DriverInv'
  BY <1>10, TimesOutKeep
<1>11. CASE UNCHANGED driverVars
  <2>1. /\ UNCHANGED <<process, attached, next, live, at, queue, wire, answers, device, refused, written, late, misread>>
        /\ Pending' = Pending /\ Mine' = Mine
    BY <1>11 DEF driverVars, Pending, Mine
  <2>2. DriverTypes' /\ Attachment'
    BY <2>1 DEF DriverInv, DriverTypes, Attachment
  <2>3. (AskedOnce /\ FreedAfter /\ HandsHold /\ LiveSomewhere /\ DeviceKnown)'
    BY <2>1 DEF DriverInv, AskedOnce, FreedAfter, HandsHold, LiveSomewhere, DeviceKnown, InHand, AllocAt, FreeAt, Asked
  <2>4. Memory'
    BY <2>1 DEF DriverInv, Memory, LastWrite, InCell, Pointers, Cells, InHand, AllocAt, WriteAt, Asked
  <2>5. Reading'
    BY <2>1 DEF DriverInv, Reading, Question, Answer, WriteAt, Asked
  <2> QED
    BY <2>1, <2>2, <2>3, <2>4, <2>5 DEF DriverInv
<1> QED
  BY <1>1, <1>2, <1>3, <1>4, <1>5, <1>6, <1>7, <1>8, <1>9, <1>10, <1>11 DEF DriverNext

LEMMA DriverHolds ==
  ASSUME DriverConstants, DriverInv PROVE CopiesRight /\ AgentTracks
<1>1. CopiesRight
  BY DEF DriverInv, CopiesRight
<1>2. AgentTracks
  <2> SUFFICES ASSUME attached, queue = <<>>, wire = <<>>, \A t \in Threads : at[t].op \notin {"allocate", "free"}
               PROVE  /\ DOMAIN device[process] = DOMAIN live \ refused
                      /\ \A h \in DOMAIN device[process] : Len(device[process][h]) = live[h]
    BY DEF AgentTracks
  <2>1. Pending = <<>> /\ Len(Pending) = 0
    BY DEF Pending
  <2>2. \A i : i \notin 1 .. Len(Pending)
    BY <2>1
  <2>3. \A i, h : ~AllocAt(i, h) /\ ~FreeAt(i, h) /\ ~InHand("allocate", h) /\ ~InHand("free", h)
    BY <2>2 DEF AllocAt, FreeAt, Asked, InHand
  <2>4. \A h \in DOMAIN live : h \in refused \/ (h \in DOMAIN Mine /\ Len(Mine[h]) = live[h])
    BY <2>3 DEF DriverInv, LiveSomewhere
  <2>5. \A h \in DOMAIN Mine : h \in DOMAIN live /\ h \notin refused
    BY <2>3 DEF DriverInv, DeviceKnown
  <2> QED
    BY <2>4, <2>5 DEF Mine
<1> QED
  BY <1>1, <1>2

\* With any number of threads, whatever one of them copies back from the device is what was copied
\* there last, until a read times out, and the agent holds what the table says once all is served.
\* table.rs leaves one thing to its caller: an allocation is no larger than the distance between
\* two virtual pointers.
THEOREM DriverCorrect == DriverConstants => (DriverSpec => [](CopiesRight /\ AgentTracks))
<1> SUFFICES ASSUME DriverConstants PROVE DriverSpec => [](CopiesRight /\ AgentTracks)
  OBVIOUS
<1>1. DriverInit => DriverInv
  BY DriverInits
<1>2. DriverInv /\ [DriverNext]_driverVars => DriverInv'
  BY DriverSteps
<1>3. DriverInv => CopiesRight /\ AgentTracks
  BY DriverHolds
<1> QED
  BY <1>1, <1>2, <1>3, PTL DEF DriverSpec
=============================================================================
