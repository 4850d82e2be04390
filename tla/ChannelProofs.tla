---------------------------- MODULE ChannelProofs ----------------------------
(***************************************************************************)
(* Proofs about what a session's requests go over: both ends of a          *)
(* sandbox's channel agree where frames go, and the bytes of a stream over *)
(* lanes, the records of TLS, the buffers of a message and the replies of  *)
(* a pipeline arrive whole, in order and where they belong, for any writes,*)
(* messages, lanes, threads and limits.                                    *)
(***************************************************************************)
EXTENDS MCChannel, Integers, SequenceTheorems, FiniteSetTheorems, WellFoundedInduction, TLAPS

-----------------------------------------------------------------------------
(* TLS: one thread at a time puts records on the socket. *)

\* The lock is held by who sends, and what is read out of the buffer is only there while it is.
TlsInv ==
  /\ made \in Nat /\ {outgoing, batch, socket, peer} \subseteq Seq(Nat)
  /\ writer \in [Writers -> {"idle", "locked", "sends"}] /\ decrypting \in {"reads", "pending", "flushes"}
  /\ wireLock \in Writers \cup {"none", "reader"}
  /\ \A w \in Writers : writer[w] # "idle" <=> wireLock = w
  /\ decrypting = "flushes" <=> wireLock = "reader"
  /\ wireLock = "none" => batch = <<>>
  /\ \A w \in Writers : writer[w] = "locked" => batch = <<>>
  /\ Tls!RecordsInOrder

\* The records made, in their order.
Numbers(n) == [i \in 1 .. n |-> i]

\* One more record is made.
LEMMA NextNumber ==
  ASSUME NEW n \in Nat
  PROVE  Numbers(n) \in Seq(Nat) /\ Append(Numbers(n), n + 1) = Numbers(n + 1)
<1>1. Numbers(n) \in Seq(Nat) /\ Numbers(n + 1) \in Seq(Nat) /\ Len(Numbers(n)) = n /\ Len(Numbers(n + 1)) = n + 1
  BY DEF Numbers
<1>2. Len(Append(Numbers(n), n + 1)) = n + 1 /\ Append(Numbers(n), n + 1) \in Seq(Nat)
      /\ \A i \in 1 .. n + 1 : Append(Numbers(n), n + 1)[i] = i
  BY <1>1, AppendProperties DEF Numbers
<1> QED
  BY <1>1, <1>2, SeqEqual DEF Numbers

\* What is taken from the front of one sequence and put behind the other leaves the two as one.
LEMMA PassedOn ==
  ASSUME NEW s \in Seq(Nat), NEW t \in Seq(Nat), t # <<>>
  PROVE  /\ Append(s, Head(t)) \o Tail(t) = s \o t
         /\ Append(s, Head(t)) \in Seq(Nat) /\ Tail(t) \in Seq(Nat) /\ Head(t) \in Nat
<1>1. Head(t) \in Nat /\ Tail(t) \in Seq(Nat) /\ <<Head(t)>> \in Seq(Nat) /\ t = <<Head(t)>> \o Tail(t)
  BY HeadTailProperties, HeadTailAppend, ConcatProperties
<1>2. Append(s, Head(t)) = s \o <<Head(t)>> /\ Append(s, Head(t)) \in Seq(Nat)
  BY <1>1, AppendIsConcat, AppendProperties
<1>3. (s \o <<Head(t)>>) \o Tail(t) = s \o (<<Head(t)>> \o Tail(t))
  BY <1>1, ConcatAssociative
<1> QED
  BY <1>1, <1>2, <1>3

\* What is put behind the second of two sequences is behind both.
LEMMA PutBehind ==
  ASSUME NEW s \in Seq(Nat), NEW t \in Seq(Nat), NEW x \in Nat
  PROVE  s \o Append(t, x) = Append(s \o t, x) /\ Append(t, x) \in Seq(Nat) /\ s \o <<>> = s /\ s \o t \in Seq(Nat)
<1>1. <<x>> \in Seq(Nat) /\ s \o t \in Seq(Nat) /\ s \o <<>> = s
  BY ConcatProperties, ConcatEmptySeq
<1>2. Append(t, x) = t \o <<x>> /\ Append(s \o t, x) = (s \o t) \o <<x>> /\ Append(t, x) \in Seq(Nat)
  BY <1>1, AppendIsConcat, AppendProperties
<1>3. (s \o t) \o <<x>> = s \o (t \o <<x>>)
  BY <1>1, ConcatAssociative
<1> QED
  BY <1>1, <1>2, <1>3

\* A writer's step.
LEMMA WriterKeepsRecords ==
  ASSUME WritersNamed, TlsInv, NEW w \in Writers,
         Tls!Locks(w) \/ Tls!Encrypts(w) \/ Tls!Writes(w) \/ Tls!Unlocks(w)
  PROVE  TlsInv'
<1> DEFINE ps == peer \o socket
<1>1. made \in Nat /\ peer \in Seq(Nat) /\ socket \in Seq(Nat) /\ batch \in Seq(Nat) /\ outgoing \in Seq(Nat)
      /\ (ps \o batch) \o outgoing = Numbers(made)
  BY DEF TlsInv, Tls!RecordsInOrder, Numbers
<1>2. ps \in Seq(Nat) /\ ps \o batch \in Seq(Nat) /\ ps \o <<>> = ps
  BY <1>1, ConcatProperties, ConcatEmptySeq
<1> HIDE DEF ps
<1>3. CASE Tls!Locks(w)
  BY <1>3 DEF TlsInv, Tls!Locks, Tls!RecordsInOrder, WritersNamed
<1>4. CASE Tls!Encrypts(w)
  <2>1. batch = <<>> /\ wireLock = w
    BY <1>4 DEF Tls!Encrypts, TlsInv
  <2>2. batch' = Append(outgoing, made + 1) /\ outgoing' = <<>> /\ made' = made + 1 /\ ps' = ps
    BY <1>4 DEF Tls!Encrypts, ps
  <2>3. batch' \in Seq(Nat) /\ ps \o batch' = Append(ps \o outgoing, made + 1) /\ ps \o batch' \in Seq(Nat)
    <3>1. made + 1 \in Nat /\ ps \o outgoing \in Seq(Nat)
      BY <1>1, <1>2, PutBehind
    <3> QED
      BY <1>1, <1>2, <2>2, <3>1, PutBehind, AppendProperties
  <2>4. (ps \o batch') \o outgoing' = Numbers(made')
    BY <1>1, <1>2, <2>1, <2>2, <2>3, NextNumber, ConcatEmptySeq
  <2>5. Tls!RecordsInOrder'
    BY <2>2, <2>4 DEF Tls!RecordsInOrder, Numbers, ps
  <2> QED
    BY <1>1, <1>4, <2>1, <2>2, <2>3, <2>5 DEF TlsInv, Tls!Encrypts, WritersNamed
<1>5. CASE Tls!Writes(w)
  <2>1. socket' = Append(socket, Head(batch)) /\ batch' = Tail(batch) /\ batch # <<>>
        /\ outgoing' = outgoing /\ made' = made /\ peer' = peer
    BY <1>5 DEF Tls!Writes, Tls!SendsOne
  <2>2. Head(batch) \in Nat /\ batch' \in Seq(Nat) /\ socket' \in Seq(Nat) /\ ps' = Append(ps, Head(batch))
    <3>1. Head(batch) \in Nat /\ batch' \in Seq(Nat) /\ socket' \in Seq(Nat)
      BY <1>1, <2>1, PassedOn
    <3>2. peer \o Append(socket, Head(batch)) = Append(peer \o socket, Head(batch))
      <4> DEFINE h == Head(batch)
      <4>1. peer \in Seq(Nat) /\ socket \in Seq(Nat) /\ h \in Nat
        BY <1>1, <3>1
      <4> HIDE DEF h
      <4>2. peer \o Append(socket, h) = Append(peer \o socket, h)
        BY <4>1, PutBehind
      <4> QED
        BY <4>2 DEF h
    <3> QED
      BY <2>1, <3>1, <3>2 DEF ps
  <2>3. ps' \o batch' = ps \o batch
    BY <1>1, <1>2, <2>1, <2>2, PassedOn
  <2>4. Tls!RecordsInOrder'
    BY <1>1, <2>1, <2>3 DEF Tls!RecordsInOrder, Numbers, ps
  <2> QED
    BY <1>1, <1>5, <2>1, <2>2, <2>4 DEF TlsInv, Tls!Writes, WritersNamed
<1>6. CASE Tls!Unlocks(w)
  BY <1>6 DEF TlsInv, Tls!Unlocks, Tls!RecordsInOrder, WritersNamed
<1> QED
  BY <1>3, <1>4, <1>5, <1>6

\* A step of the reading thread or of the far end.
LEMMA ReaderKeepsRecords ==
  ASSUME WritersNamed, TlsInv, Tls!Decrypts \/ Tls!Flushes \/ Tls!Flushed \/ Tls!PeerSends \/ Tls!PeerReads
  PROVE  TlsInv'
<1> DEFINE ps == peer \o socket
<1>1. made \in Nat /\ peer \in Seq(Nat) /\ socket \in Seq(Nat) /\ batch \in Seq(Nat) /\ outgoing \in Seq(Nat)
      /\ (ps \o batch) \o outgoing = Numbers(made)
  BY DEF TlsInv, Tls!RecordsInOrder, Numbers
<1>2. ps \in Seq(Nat) /\ ps \o batch \in Seq(Nat) /\ ps \o <<>> = ps
  BY <1>1, ConcatProperties, ConcatEmptySeq
<1> HIDE DEF ps
<1>3. CASE Tls!Decrypts
  <2>1. CASE Head(arrived) = "request"
    <3>1. outgoing' = Append(outgoing, made + 1) /\ made' = made + 1 /\ batch' = batch /\ ps' = ps
      BY <1>3, <2>1 DEF Tls!Decrypts, ps
    <3>2. outgoing' \in Seq(Nat) /\ (ps \o batch) \o outgoing' = Append((ps \o batch) \o outgoing, made + 1)
      <4> DEFINE b == ps \o batch
                 n == made + 1
      <4>1. b \in Seq(Nat) /\ n \in Nat
        BY <1>1, <1>2
      <4> HIDE DEF b, n
      <4>2. Append(outgoing, n) \in Seq(Nat) /\ b \o Append(outgoing, n) = Append(b \o outgoing, n)
        BY <1>1, <4>1, PutBehind
      <4> QED
        BY <3>1, <4>2 DEF b, n
    <3>3. Tls!RecordsInOrder'
      BY <1>1, <3>1, <3>2, NextNumber DEF Tls!RecordsInOrder, Numbers, ps
    <3> QED
      BY <1>1, <1>3, <3>1, <3>2, <3>3 DEF TlsInv, Tls!Decrypts
  <2>2. CASE Head(arrived) # "request"
    BY <1>3, <2>2 DEF TlsInv, Tls!Decrypts, Tls!RecordsInOrder
  <2> QED
    BY <2>1, <2>2
<1>4. CASE Tls!Flushes
  <2>1. CASE wireLock = "none"
    <3>1. batch = <<>> /\ batch' = outgoing /\ outgoing' = <<>> /\ ps' = ps /\ made' = made
      BY <1>4, <2>1 DEF Tls!Flushes, TlsInv, ps
    <3>2. (ps \o batch') \o outgoing' = (ps \o batch) \o outgoing /\ ps \o outgoing \in Seq(Nat)
      BY <1>1, <1>2, <3>1, ConcatProperties, ConcatEmptySeq
    <3>3. Tls!RecordsInOrder'
      BY <1>1, <3>1, <3>2 DEF Tls!RecordsInOrder, Numbers, ps
    <3> QED
      BY <1>1, <1>4, <2>1, <3>1, <3>3 DEF TlsInv, Tls!Flushes, WritersNamed
  <2>2. CASE wireLock # "none"
    BY <1>4, <2>2 DEF TlsInv, Tls!Flushes, Tls!RecordsInOrder
  <2> QED
    BY <2>1, <2>2
<1>5. CASE Tls!Flushed
  <2>1. CASE batch = <<>>
    BY <1>5, <2>1 DEF TlsInv, Tls!Flushed, Tls!RecordsInOrder, WritersNamed
  <2>2. CASE batch # <<>>
    <3>1. socket' = Append(socket, Head(batch)) /\ batch' = Tail(batch)
          /\ outgoing' = outgoing /\ made' = made /\ peer' = peer
      BY <1>5, <2>2 DEF Tls!Flushed, Tls!SendsOne
    <3>2. Head(batch) \in Nat /\ batch' \in Seq(Nat) /\ socket' \in Seq(Nat) /\ ps' = Append(ps, Head(batch))
      <4>1. Head(batch) \in Nat /\ batch' \in Seq(Nat) /\ socket' \in Seq(Nat)
        BY <1>1, <2>2, <3>1, PassedOn
      <4>2. peer \o Append(socket, Head(batch)) = Append(peer \o socket, Head(batch))
        <5> DEFINE h == Head(batch)
        <5>1. peer \in Seq(Nat) /\ socket \in Seq(Nat) /\ h \in Nat
          BY <1>1, <4>1
        <5> HIDE DEF h
        <5>2. peer \o Append(socket, h) = Append(peer \o socket, h)
          BY <5>1, PutBehind
        <5> QED
          BY <5>2 DEF h
      <4> QED
        BY <3>1, <4>1, <4>2 DEF ps
    <3>3. ps' \o batch' = ps \o batch
      BY <1>1, <1>2, <2>2, <3>1, <3>2, PassedOn
    <3>4. Tls!RecordsInOrder'
      BY <1>1, <3>1, <3>3 DEF Tls!RecordsInOrder, Numbers, ps
    <3> QED
      BY <1>1, <1>5, <2>2, <3>1, <3>2, <3>4 DEF TlsInv, Tls!Flushed, WritersNamed
  <2> QED
    BY <2>1, <2>2
<1>6. CASE Tls!PeerSends
  BY <1>6 DEF TlsInv, Tls!PeerSends, Tls!RecordsInOrder
<1>7. CASE Tls!PeerReads
  <2>1. peer' = Append(peer, Head(socket)) /\ socket' = Tail(socket) /\ socket # <<>>
        /\ outgoing' = outgoing /\ made' = made /\ batch' = batch
    BY <1>7 DEF Tls!PeerReads
  <2>2. peer' \in Seq(Nat) /\ socket' \in Seq(Nat) /\ peer' \o socket' = ps
    <3>1. Append(peer, Head(socket)) \in Seq(Nat) /\ Append(peer, Head(socket)) \o Tail(socket) = peer \o socket
          /\ Tail(socket) \in Seq(Nat)
      BY <1>1, <2>1, PassedOn
    <3> QED
      BY <2>1, <3>1 DEF ps
  <2>3. Tls!RecordsInOrder'
    BY <1>1, <2>1, <2>2 DEF Tls!RecordsInOrder, Numbers, ps
  <2> QED
    BY <1>1, <1>7, <2>1, <2>2, <2>3 DEF TlsInv, Tls!PeerReads
<1> QED
  BY <1>3, <1>4, <1>5, <1>6, <1>7

\* Before the first record.
LEMMA RecordsBegin ==
  ASSUME WritersNamed, Tls!TlsInit
  PROVE  TlsInv
<1>1. <<>> \in Seq(Nat) /\ <<>> \o <<>> = <<>>
  BY EmptySeq, ConcatEmptySeq
<1>2. Numbers(0) = <<>>
  BY DEF Numbers
<1>3. Tls!RecordsInOrder
  BY <1>1, <1>2 DEF Tls!TlsInit, Tls!RecordsInOrder, Numbers
<1> QED
  BY <1>1, <1>3 DEF Tls!TlsInit, TlsInv, WritersNamed

\* Every step of the connection keeps its records in order.
LEMMA RecordsStep ==
  ASSUME WritersNamed, TlsInv, Tls!TlsNext \/ UNCHANGED tlsVars
  PROVE  TlsInv'
<1>1. CASE UNCHANGED tlsVars
  BY <1>1 DEF tlsVars, TlsInv, Tls!RecordsInOrder
<1> QED
  BY <1>1, WriterKeepsRecords, ReaderKeepsRecords DEF Tls!TlsNext

-----------------------------------------------------------------------------
(* The frames of a message. *)

\* Where a thread is, or its reader: the message and the frame of it that comes next.
FramePlaces ==
  {p \in (Nat \ {0}) \X Nat : p[1] <= Len(Messages) + 1 /\ p[2] <= (IF p[1] <= Len(Messages) THEN Messages[p[1]] ELSE 0)}
\* The place after a frame, and the place up to which a stream was read.
AfterFrame(p) == IF p[2] = Messages[p[1]] THEN <<p[1] + 1, 0>> ELSE <<p[1], p[2] + 1>>
ReadTo(t) == <<Len(whole[t]) + 1, IF partial[t] = Framed!Nothing THEN 0 ELSE partial[t].got + 1>>

\* A frame is the one its thread was to write at that place.
IsFrame(f, p) ==
  /\ f.of = p[1] /\ f.of <= Len(Messages) /\ f.count = Messages[p[1]]
  /\ f.kind = (IF p[2] = 0 THEN "head" ELSE "data")

\* From where the reader is, the frames of the thread on the connection lead step by step to
\* where the thread is; those of other threads between them lead nowhere.
Leading(t, p) ==
  /\ p \in [0 .. Len(link) -> FramePlaces] /\ p[0] = ReadTo(t)
  /\ \A i \in 1 .. Len(link) :
       IF link[i].stream = t THEN IsFrame(link[i], p[i - 1]) /\ p[i] = AfterFrame(p[i - 1]) ELSE p[i] = p[i - 1]
  /\ ~cut => p[Len(link)] = <<message[t], frame[t]>>

\* The message being filled is the next one, and what it lacks is what has not been read.
Filling(t) ==
  \/ partial[t] = Framed!Nothing
  \/ \E of \in 1 .. Len(Messages), got \in Nat, left \in Nat \ {0} :
       /\ partial[t] = [of |-> of, got |-> got, left |-> left]
       /\ of = Len(whole[t]) + 1 /\ got + left = Messages[of]
PutTogether(t) ==
  /\ whole[t] \in Seq(Nat \X Nat) /\ Len(whole[t]) <= Len(Messages)
  /\ \A i \in 1 .. Len(whole[t]) : whole[t][i] = <<i, Messages[i]>>
\* What the frames on the connection are.
FrameKind == [stream : Threads, kind : {"head", "data"}, of : Nat, count : Nat]
\* The frames on the connection lead from what was read to what is to be written.
FramesInv ==
  /\ ~error /\ link \in Seq(FrameKind) /\ cut \in BOOLEAN
  /\ message \in [Threads -> Nat] /\ frame \in [Threads -> Nat]
  /\ DOMAIN partial = Threads /\ DOMAIN whole = Threads
  /\ \A t \in Threads : Filling(t) /\ PutTogether(t) /\ \E p : Leading(t, p)

\* Before the first frame.
LEMMA FramesBegin ==
  ASSUME Messages \in Seq(Nat), Framed!FramesInit
  PROVE  FramesInv
<1>1. link = <<>> /\ link \in Seq(FrameKind) /\ Len(link) = 0 /\ cut = FALSE /\ ~error
  BY EmptySeq DEF Framed!FramesInit
<1>2. ASSUME NEW t \in Threads
      PROVE  Filling(t) /\ PutTogether(t) /\ \E p : Leading(t, p)
  <2>1. partial[t] = Framed!Nothing /\ whole[t] = <<>> /\ message[t] = 1 /\ frame[t] = 0
    BY DEF Framed!FramesInit
  <2>2. <<1, 0>> \in FramePlaces
    BY DEF FramePlaces
  <2>3. Leading(t, [i \in 0 .. 0 |-> <<1, 0>>])
    BY <1>1, <2>1, <2>2 DEF Leading, ReadTo
  <2> QED
    BY <2>1, <2>3 DEF Filling, PutTogether
<1> QED
  BY <1>1, <1>2 DEF FramesInv, Framed!FramesInit

\* A frame leads to a place of its thread.
LEMMA AfterPlace ==
  ASSUME Messages \in Seq(Nat), NEW p \in FramePlaces, p[1] <= Len(Messages)
  PROVE  AfterFrame(p) \in FramePlaces
<1>1. PICK m \in Nat \ {0}, f \in Nat : p = <<m, f>>
  BY DEF FramePlaces
<1>2. m <= Len(Messages) /\ f <= Messages[m] /\ Messages[m] \in Nat /\ Len(Messages) \in Nat
  BY <1>1, LenProperties, ElementOfSeq DEF FramePlaces
<1>3. CASE f = Messages[m]
  <2>1. AfterFrame(p) = <<m + 1, 0>>
    BY <1>1, <1>3 DEF AfterFrame
  <2>2. m + 1 \in Nat \ {0} /\ m + 1 <= Len(Messages) + 1
    BY <1>2
  <2>3. m + 1 <= Len(Messages) => Messages[m + 1] \in Nat
    BY <2>2, ElementOfSeq
  <2> QED
    BY <2>1, <2>2, <2>3 DEF FramePlaces
<1>4. CASE f # Messages[m]
  <2>1. AfterFrame(p) = <<m, f + 1>>
    BY <1>1, <1>4 DEF AfterFrame
  <2>2. f + 1 \in Nat /\ f + 1 <= Messages[m] /\ m <= Len(Messages) + 1
    BY <1>2, <1>4
  <2> QED
    BY <1>2, <2>1, <2>2 DEF FramePlaces
<1> QED
  BY <1>3, <1>4

\* A thread puts its next frame on the connection.
LEMMA WritingKeepsFrames ==
  ASSUME Messages \in Seq(Nat), FramesInv, NEW t \in Threads, Framed!Writes(t)
  PROVE  FramesInv'
<1> DEFINE f == [stream |-> t, kind |-> IF frame[t] = 0 THEN "head" ELSE "data",
                 of |-> message[t], count |-> Messages[message[t]]]
<1>0. PICK n : n = Len(link)
  OBVIOUS
<1>1. /\ message[t] <= Len(Messages) /\ ~cut /\ link' = Append(link, f)
      /\ cut' = cut /\ partial' = partial /\ whole' = whole /\ error' = error
  BY DEF Framed!Writes
<1>2. link \in Seq(FrameKind) /\ n \in Nat /\ n \in 0 .. n /\ message[t] \in Nat /\ frame[t] \in Nat
      /\ message \in [Threads -> Nat] /\ frame \in [Threads -> Nat]
  BY <1>0, LenProperties DEF FramesInv
<1>3. message' \in [Threads -> Nat] /\ frame' \in [Threads -> Nat]
      /\ <<message'[t], frame'[t]>> = AfterFrame(<<message[t], frame[t]>>)
      /\ \A u \in Threads \ {t} : message'[u] = message[u] /\ frame'[u] = frame[u]
  <2>1. CASE frame[t] = Messages[message[t]]
    <3>1. message' = [message EXCEPT ![t] = @ + 1] /\ frame' = [frame EXCEPT ![t] = 0]
      BY <2>1 DEF Framed!Writes
    <3>2. message'[t] = message[t] + 1 /\ frame'[t] = 0
      BY <1>2, <3>1
    <3>3. AfterFrame(<<message[t], frame[t]>>) = <<message[t] + 1, 0>>
      BY <2>1 DEF AfterFrame
    <3> QED
      BY <1>2, <3>1, <3>2, <3>3
  <2>2. CASE frame[t] # Messages[message[t]]
    <3>1. message' = message /\ frame' = [frame EXCEPT ![t] = @ + 1]
      BY <2>2 DEF Framed!Writes
    <3>2. message'[t] = message[t] /\ frame'[t] = frame[t] + 1
      BY <1>2, <3>1
    <3>3. AfterFrame(<<message[t], frame[t]>>) = <<message[t], frame[t] + 1>>
      BY <2>2 DEF AfterFrame
    <3> QED
      BY <1>2, <3>1, <3>2, <3>3
  <2> QED
    BY <2>1, <2>2
<1>4. PICK o : Leading(t, o)
  BY DEF FramesInv
<1>5. <<message[t], frame[t]>> \in FramePlaces
  <2>1. o \in [0 .. n -> FramePlaces] /\ o[n] = <<message[t], frame[t]>>
    BY <1>0, <1>1, <1>4 DEF Leading
  <2> QED
    BY <1>2, <2>1
<1>6. message[t] \in 1 .. Len(Messages) /\ Messages[message[t]] \in Nat
  BY <1>1, <1>2, <1>5, LenProperties, ElementOfSeq DEF FramePlaces
<1>7. f \in FrameKind /\ f.stream = t /\ IsFrame(f, <<message[t], frame[t]>>)
  BY <1>2, <1>6, LenProperties DEF FrameKind, IsFrame
<1> HIDE DEF f
<1>8. link' \in Seq(FrameKind) /\ Len(link') = n + 1 /\ link'[n + 1] = f /\ \A i \in 1 .. n : link'[i] = link[i]
  BY <1>0, <1>1, <1>2, <1>7, AppendProperties
<1>9. ASSUME NEW u \in Threads
      PROVE  \E p : Leading(u, p)'
  <2>1. PICK p : Leading(u, p)
    BY DEF FramesInv
  <2> DEFINE last == IF u = t THEN AfterFrame(p[n]) ELSE p[n]
  <2>2. p \in [0 .. n -> FramePlaces] /\ p[n] = <<message[u], frame[u]>> /\ p[n] \in FramePlaces
    <3>1. p \in [0 .. n -> FramePlaces] /\ p[n] = <<message[u], frame[u]>>
      BY <1>0, <1>1, <2>1 DEF Leading
    <3> QED
      BY <1>2, <3>1
  <2>3. last \in FramePlaces /\ last = <<message'[u], frame'[u]>>
    BY <1>1, <1>3, <1>5, <2>2, AfterPlace
  <2> HIDE DEF last
  <2>9. PICK q : q = [i \in 0 .. n + 1 |-> IF i = n + 1 THEN last ELSE p[i]]
    OBVIOUS
  <2>4. q \in [0 .. n + 1 -> FramePlaces] /\ q[n + 1] = last /\ \A i \in 0 .. n : q[i] = p[i]
    BY <1>2, <2>2, <2>3, <2>9
  <2>5. q[0] = ReadTo(u)'
    BY <1>1, <1>2, <2>1, <2>4 DEF Leading, ReadTo
  <2>6. ASSUME NEW i \in 1 .. n + 1
        PROVE  IF link'[i].stream = u THEN IsFrame(link'[i], q[i - 1]) /\ q[i] = AfterFrame(q[i - 1]) ELSE q[i] = q[i - 1]
    <3>1. CASE i = n + 1
      <4>1. i - 1 = n /\ q[i - 1] = p[n] /\ link'[i] = f /\ q[i] = last
        BY <1>2, <1>8, <2>4, <3>1
      <4> QED
        BY <1>7, <2>2, <4>1 DEF last
    <3>2. CASE i # n + 1
      <4>1. i \in 1 .. n /\ i - 1 \in 0 .. n /\ i \in 0 .. n
        BY <1>2, <3>2
      <4>2. link'[i] = link[i] /\ q[i] = p[i] /\ q[i - 1] = p[i - 1]
        BY <1>8, <2>4, <4>1
      <4>3. IF link[i].stream = u THEN IsFrame(link[i], p[i - 1]) /\ p[i] = AfterFrame(p[i - 1]) ELSE p[i] = p[i - 1]
        BY <1>0, <2>1, <4>1 DEF Leading
      <4> QED
        BY <4>2, <4>3
    <3> QED
      BY <3>1, <3>2
  <2>7. Leading(u, q)'
    BY <1>8, <2>3, <2>4, <2>5, <2>6 DEF Leading
  <2> QED
    BY <2>7
<1>10. \A u \in Threads : Filling(u)' /\ PutTogether(u)'
  <2>1. partial' = partial /\ whole' = whole
    BY <1>1
  <2>2. \A u \in Threads : Filling(u) /\ PutTogether(u)
    BY DEF FramesInv
  <2>3. \A u \in Threads : Filling(u)'
    <3>1. TAKE u \in Threads
    <3>2. CASE partial[u] = Framed!Nothing
      BY <2>1, <3>2 DEF Filling, Framed!Nothing
    <3>3. ASSUME NEW of \in 1 .. Len(Messages), NEW got \in Nat, NEW left \in Nat \ {0},
                 partial[u] = [of |-> of, got |-> got, left |-> left],
                 of = Len(whole[u]) + 1, got + left = Messages[of]
          PROVE  Filling(u)'
      <4>1. partial'[u] = [of |-> of, got |-> got, left |-> left] /\ of = Len(whole'[u]) + 1
        BY <2>1, <3>3
      <4> QED
        BY <3>3, <4>1 DEF Filling
    <3> QED
      BY <2>2, <3>2, <3>3 DEF Filling
  <2>4. \A u \in Threads : PutTogether(u)'
    BY <2>1, <2>2 DEF PutTogether
  <2> QED
    BY <2>3, <2>4
<1> QED
  BY <1>1, <1>3, <1>8, <1>9, <1>10 DEF FramesInv

\* The connection ends, with some of the frames on it.
LEMMA CuttingKeepsFrames ==
  ASSUME Messages \in Seq(Nat), FramesInv, Framed!Cuts
  PROVE  FramesInv'
<1>1. PICK n \in 0 .. Len(link) : link' = SubSeq(link, 1, n)
  BY DEF Framed!Cuts
<1>2. cut' = TRUE /\ UNCHANGED <<message, frame, partial, whole, error>>
  BY DEF Framed!Cuts
<1>3. link' \in Seq(FrameKind) /\ Len(link') = n /\ \A i \in 1 .. n : link'[i] = link[i]
  <2>1. link \in Seq(FrameKind) /\ n \in Nat /\ n <= Len(link) /\ Len(link) \in Nat
    BY LenProperties DEF FramesInv
  <2>2. \A i \in 1 .. n : link[i] \in FrameKind
    BY <2>1, ElementOfSeq
  <2> QED
    BY <1>1, <2>1, <2>2, SubSeqProperties
<1>4. ASSUME NEW u \in Threads
      PROVE  \E p : Leading(u, p)'
  <2>1. PICK p : Leading(u, p)
    BY DEF FramesInv
  <2>8. PICK q : q = [i \in 0 .. n |-> p[i]]
    OBVIOUS
  <2>2. n \in Nat /\ Len(link) \in Nat /\ n <= Len(link) /\ p \in [0 .. Len(link) -> FramePlaces]
    BY <2>1, LenProperties DEF Leading, FramesInv
  <2>3. q \in [0 .. n -> FramePlaces] /\ q[0] = p[0] /\ \A i \in 1 .. n : q[i] = p[i] /\ q[i - 1] = p[i - 1]
    <3>1. \A i \in 0 .. n : i \in 0 .. Len(link) /\ q[i] = p[i]
      BY <2>2, <2>8
    <3>2. 0 \in 0 .. n /\ \A i \in 1 .. n : i \in 0 .. n /\ i - 1 \in 0 .. n
      BY <2>2
    <3> QED
      BY <2>2, <2>8, <3>1, <3>2
  <2>4. \A i \in 1 .. n : IF link[i].stream = u THEN IsFrame(link[i], p[i - 1]) /\ p[i] = AfterFrame(p[i - 1]) ELSE p[i] = p[i - 1]
    BY <2>1, <2>2 DEF Leading
  <2>5. q[0] = ReadTo(u)'
    BY <1>2, <2>1, <2>3 DEF Leading, ReadTo
  <2>6. Leading(u, q)'
    BY <1>2, <1>3, <2>3, <2>4, <2>5 DEF Leading
  <2> QED
    BY <2>6
<1>5. \A u \in Threads : Filling(u)' /\ PutTogether(u)'
  <2> SUFFICES ASSUME NEW u \in Threads PROVE Filling(u)' /\ PutTogether(u)'
    OBVIOUS
  <2>1. Filling(u) /\ PutTogether(u)
    BY DEF FramesInv
  <2>2. Filling(u)'
    BY <1>2, <2>1 DEF Filling, Framed!Nothing
  <2>3. PutTogether(u)'
    BY <1>2, <2>1 DEF PutTogether
  <2> QED
    BY <2>2, <2>3
<1> QED
  BY <1>2, <1>3, <1>4, <1>5 DEF FramesInv

\* The frame that is read is the next one of its stream, and reading it leads there.
LEMMA ReadsNext ==
  ASSUME Messages \in Seq(Nat), FramesInv, Framed!Reads, NEW t \in Threads, t = Head(link).stream,
         IsFrame(Head(link), ReadTo(t)), ReadTo(t) \in FramePlaces
  PROVE  /\ ~error' /\ DOMAIN partial' = Threads /\ DOMAIN whole' = Threads
         /\ Filling(t)' /\ PutTogether(t)' /\ ReadTo(t)' = AfterFrame(ReadTo(t))
         /\ \A u \in Threads \ {t} : partial'[u] = partial[u] /\ whole'[u] = whole[u]
<1>1. PICK f : f = Head(link)
  OBVIOUS
<1>2. PICK m : m = Len(whole[t]) + 1
  OBVIOUS
<1>3. /\ m \in Nat \ {0} /\ whole[t] \in Seq(Nat \X Nat) /\ Len(whole[t]) \in Nat /\ Filling(t)
      /\ \A i \in 1 .. Len(whole[t]) : whole[t][i] = <<i, Messages[i]>>
      /\ DOMAIN partial = Threads /\ DOMAIN whole = Threads /\ ~error
  <2>1. Filling(t) /\ PutTogether(t) /\ DOMAIN partial = Threads /\ DOMAIN whole = Threads /\ ~error
    BY DEF FramesInv
  <2>2. whole[t] \in Seq(Nat \X Nat) /\ \A i \in 1 .. Len(whole[t]) : whole[t][i] = <<i, Messages[i]>>
    BY <2>1 DEF PutTogether
  <2>3. Len(whole[t]) \in Nat
    BY <2>2, LenProperties
  <2> QED
    BY <1>2, <2>1, <2>2, <2>3
<1>4. f.stream = t /\ f.of = m /\ m <= Len(Messages) /\ f.count = Messages[m]
      /\ f.kind = (IF partial[t] = Framed!Nothing THEN "head" ELSE "data")
  <2>1. f.stream = t /\ f.of = m /\ m <= Len(Messages) /\ f.count = Messages[m] /\ f.kind = (IF ReadTo(t)[2] = 0 THEN "head" ELSE "data")
    BY <1>1, <1>2 DEF IsFrame, ReadTo
  <2>2. CASE partial[t] = Framed!Nothing
    BY <2>1, <2>2 DEF ReadTo
  <2>3. CASE partial[t] # Framed!Nothing
    <3>1. partial[t].got \in Nat
      <4>1. PICK of \in 1 .. Len(Messages), got \in Nat, left \in Nat \ {0} : partial[t] = [of |-> of, got |-> got, left |-> left]
        BY <1>3, <2>3 DEF Filling
      <4> QED
        BY <4>1
    <3>2. ReadTo(t)[2] # 0
      BY <2>3, <3>1 DEF ReadTo
    <3> QED
      BY <2>1, <2>3, <3>2
  <2> QED
    BY <2>2, <2>3
<1>5. m \in 1 .. Len(Messages) /\ Messages[m] \in Nat
  BY <1>3, <1>4, LenProperties, ElementOfSeq
<1>9. Framed!ReadsInto(f, t)
  BY <1>1, <1>4 DEF Framed!Reads, Framed!Fills
\* A message is complete with this frame.
<1>6. ASSUME partial'[t] = Framed!Nothing, whole' = [whole EXCEPT ![t] = Append(@, <<m, Messages[m]>>)]
      PROVE  Filling(t)' /\ PutTogether(t)' /\ ReadTo(t)' = <<m + 1, 0>> /\ DOMAIN whole' = Threads
             /\ \A u \in Threads \ {t} : whole'[u] = whole[u]
  <2> DEFINE x == <<m, Messages[m]>>
  <2>1. x \in Nat \X Nat
    BY <1>3, <1>5
  <2> HIDE DEF x
  <2>2. whole'[t] = Append(whole[t], x) /\ DOMAIN whole' = Threads /\ \A u \in Threads \ {t} : whole'[u] = whole[u]
    BY <1>3, <1>6 DEF x
  <2>3. whole'[t] \in Seq(Nat \X Nat) /\ Len(whole'[t]) = m /\ whole'[t][m] = x
        /\ \A i \in 1 .. Len(whole[t]) : whole'[t][i] = whole[t][i]
    BY <1>2, <1>3, <2>1, <2>2, AppendProperties
  <2>4. \A i \in 1 .. m : whole'[t][i] = <<i, Messages[i]>>
    <3>1. TAKE i \in 1 .. m
    <3>2. i = m \/ i \in 1 .. Len(whole[t])
      BY <1>2, <1>3
    <3> QED
      BY <1>3, <2>3, <3>2 DEF x
  <2>5. PutTogether(t)'
    BY <1>4, <2>3, <2>4 DEF PutTogether
  <2> QED
    BY <1>6, <2>2, <2>3, <2>5 DEF Filling, ReadTo, Framed!Nothing
<1>7. CASE partial[t] = Framed!Nothing
  <2>1. f.kind = "head" /\ ReadTo(t) = <<m, 0>>
    BY <1>2, <1>4, <1>7 DEF ReadTo
  <2>2. CASE Messages[m] = 0
    <3>1. partial' = partial /\ error' = error /\ whole' = [whole EXCEPT ![t] = Append(@, <<m, Messages[m]>>)]
      <4>1. f.kind = "head" /\ f.count = 0 /\ ~(f.count > 0) /\ f.of = m
        BY <1>4, <2>1, <2>2
      <4>2. Framed!Whole(t, <<f.of, 0>>) /\ UNCHANGED <<partial, error>>
        BY <1>9, <4>1 DEF Framed!ReadsInto
      <4> QED
        BY <2>2, <4>1, <4>2 DEF Framed!Whole
    <3>2. AfterFrame(ReadTo(t)) = <<m + 1, 0>>
      BY <2>1, <2>2 DEF AfterFrame
    <3> QED
      BY <1>3, <1>6, <1>7, <3>1, <3>2
  <2>3. CASE Messages[m] # 0
    <3>1. whole' = whole /\ error' = error /\ partial' = [partial EXCEPT ![t] = [of |-> m, got |-> 0, left |-> Messages[m]]]
      BY <1>4, <1>5, <1>7, <1>9, <2>1, <2>3 DEF Framed!ReadsInto
    <3>2. partial'[t] = [of |-> m, got |-> 0, left |-> Messages[m]] /\ DOMAIN partial' = Threads
          /\ \A u \in Threads \ {t} : partial'[u] = partial[u]
      BY <1>3, <3>1
    <3>3. partial'[t] # Framed!Nothing /\ partial'[t].got = 0
      BY <2>3, <3>2 DEF Framed!Nothing
    <3>4. ReadTo(t)' = <<m, 1>> /\ AfterFrame(ReadTo(t)) = <<m, 1>>
      BY <1>2, <2>1, <2>3, <3>1, <3>3 DEF ReadTo, AfterFrame
    <3>5. Messages[m] \in Nat \ {0} /\ 0 \in Nat /\ 0 + Messages[m] = Messages[m] /\ m = Len(whole'[t]) + 1
      BY <1>2, <1>5, <2>3, <3>1
    <3>6. Filling(t)'
      BY <1>5, <3>2, <3>5 DEF Filling
    <3>7. PutTogether(t)'
      BY <3>1 DEF FramesInv, PutTogether
    <3> QED
      BY <1>3, <3>1, <3>2, <3>4, <3>6, <3>7
  <2> QED
    BY <2>2, <2>3
<1>8. CASE partial[t] # Framed!Nothing
  <2>1. PICK got \in Nat, left \in Nat \ {0} :
          partial[t] = [of |-> m, got |-> got, left |-> left] /\ got + left = Messages[m]
    BY <1>2, <1>3, <1>8 DEF Filling
  <2>2. f.kind = "data" /\ ReadTo(t) = <<m, got + 1>> /\ partial[t].left = left /\ partial[t].got = got /\ partial[t].of = m
    BY <1>2, <1>4, <1>8, <2>1 DEF ReadTo
  <2>3. CASE left = 1
    <3>1. error' = error /\ partial' = [partial EXCEPT ![t] = Framed!Nothing]
          /\ whole' = [whole EXCEPT ![t] = Append(@, <<m, got + 1>>)]
      <4>1. f.kind # "head" /\ partial[t].left = 1 /\ ~(partial[t].left > 1) /\ partial[t] # Framed!Nothing
        BY <1>8, <2>2, <2>3
      <4>2. /\ UNCHANGED error /\ partial' = [partial EXCEPT ![t] = Framed!Nothing]
            /\ Framed!Whole(t, <<partial[t].of, partial[t].got + (IF f.of = partial[t].of /\ f.stream = t THEN 1 ELSE 0)>>)
        BY <1>9, <4>1 DEF Framed!ReadsInto
      <4>3. <<partial[t].of, partial[t].got + (IF f.of = partial[t].of /\ f.stream = t THEN 1 ELSE 0)>> = <<m, got + 1>>
        BY <1>4, <2>2
      <4> QED
        BY <4>2, <4>3 DEF Framed!Whole
    <3>2. got + 1 = Messages[m] /\ partial'[t] = Framed!Nothing /\ DOMAIN partial' = Threads
          /\ \A u \in Threads \ {t} : partial'[u] = partial[u]
      BY <1>3, <2>1, <2>3, <3>1
    <3>3. AfterFrame(ReadTo(t)) = <<m + 1, 0>>
      BY <2>2, <3>2 DEF AfterFrame
    <3> QED
      BY <1>3, <1>6, <3>1, <3>2, <3>3
  <2>4. CASE left # 1
    <3>1. left > 1 /\ left - 1 \in Nat \ {0} /\ got + 1 \in Nat /\ (got + 1) + (left - 1) = Messages[m] /\ got + 1 # Messages[m]
      BY <2>1, <2>4
    <3>2. whole' = whole /\ error' = error /\ partial' = [partial EXCEPT ![t].left = @ - 1, ![t].got = @ + 1]
      BY <1>4, <1>8, <1>9, <2>2, <3>1 DEF Framed!ReadsInto
    <3>3. partial'[t] = [of |-> m, got |-> got + 1, left |-> left - 1] /\ DOMAIN partial' = Threads
          /\ \A u \in Threads \ {t} : partial'[u] = partial[u]
      BY <1>3, <2>1, <3>2
    <3>4. partial'[t] # Framed!Nothing /\ partial'[t].got = got + 1
      BY <3>1, <3>3 DEF Framed!Nothing
    <3>5. ReadTo(t)' = <<m, got + 2>> /\ AfterFrame(ReadTo(t)) = <<m, got + 2>>
      <4>1. Len(whole'[t]) + 1 = m /\ (got + 1) + 1 = got + 2
        BY <1>2, <2>1, <3>2
      <4>2. ReadTo(t)' = <<m, got + 2>>
        BY <3>4, <4>1 DEF ReadTo
      <4> QED
        BY <2>2, <3>1, <4>1, <4>2 DEF AfterFrame
    <3>6. Filling(t)'
      <4>1. m = Len(whole'[t]) + 1
        BY <1>2, <3>2
      <4>2. PICK g \in Nat, l \in Nat \ {0} : g = got + 1 /\ l = left - 1 /\ g + l = Messages[m]
        BY <3>1
      <4>3. partial'[t] = [of |-> m, got |-> g, left |-> l]
        BY <3>3, <4>2
      <4> QED
        BY <1>5, <4>1, <4>2, <4>3 DEF Filling
    <3>7. PutTogether(t)'
      BY <3>2 DEF FramesInv, PutTogether
    <3> QED
      BY <1>3, <3>2, <3>3, <3>5, <3>6, <3>7
  <2> QED
    BY <2>3, <2>4
<1> QED
  BY <1>7, <1>8

\* A frame is read.
LEMMA ReadingKeepsFrames ==
  ASSUME Messages \in Seq(Nat), FramesInv, Framed!Reads
  PROVE  FramesInv'
<1>0. PICK n : n = Len(link) - 1
  OBVIOUS
<1>1. link # <<>> /\ link' = Tail(link) /\ UNCHANGED <<message, frame, cut>>
  BY DEF Framed!Reads
<1>2. /\ n \in Nat /\ Len(link) = n + 1 /\ Head(link) = link[1] /\ link[1] \in FrameKind /\ link' \in Seq(FrameKind) /\ Len(link') = n
      /\ \A i \in 1 .. n : link'[i] = link[i + 1]
  <2>1. link \in Seq(FrameKind)
    BY DEF FramesInv
  <2> QED
    BY <1>0, <1>1, <2>1, EmptySeq, HeadTailProperties, ElementOfSeq
<1>3. PICK t : t = Head(link).stream
  OBVIOUS
<1>4. t \in Threads
  BY <1>2, <1>3 DEF FrameKind
<1>5. PICK o : Leading(t, o)
  BY <1>4 DEF FramesInv
<1>6. ReadTo(t) \in FramePlaces /\ IsFrame(Head(link), ReadTo(t))
  <2>1. 1 \in 1 .. n + 1 /\ 0 \in 0 .. n + 1 /\ 1 - 1 = 0
    BY <1>2
  <2> QED
    BY <1>2, <1>3, <1>5, <2>1 DEF Leading
<1>7. /\ ~error' /\ DOMAIN partial' = Threads /\ DOMAIN whole' = Threads
      /\ Filling(t)' /\ PutTogether(t)' /\ ReadTo(t)' = AfterFrame(ReadTo(t))
      /\ \A u \in Threads \ {t} : partial'[u] = partial[u] /\ whole'[u] = whole[u]
  BY <1>3, <1>4, <1>6, ReadsNext
<1>8. ASSUME NEW u \in Threads
      PROVE  Filling(u)' /\ PutTogether(u)'
  <2>1. CASE u = t
    BY <1>7, <2>1
  <2>2. CASE u # t
    <3>1. partial'[u] = partial[u] /\ whole'[u] = whole[u] /\ Filling(u) /\ PutTogether(u)
      BY <1>7, <2>2 DEF FramesInv
    <3>2. PutTogether(u)'
      BY <3>1 DEF PutTogether
    <3>3. CASE partial[u] = Framed!Nothing
      BY <3>1, <3>2, <3>3 DEF Filling, Framed!Nothing
    <3>4. ASSUME NEW of \in 1 .. Len(Messages), NEW got \in Nat, NEW left \in Nat \ {0},
                 partial[u] = [of |-> of, got |-> got, left |-> left],
                 of = Len(whole[u]) + 1, got + left = Messages[of]
          PROVE  Filling(u)'
      <4>1. partial'[u] = [of |-> of, got |-> got, left |-> left] /\ of = Len(whole'[u]) + 1
        BY <3>1, <3>4
      <4> QED
        BY <3>4, <4>1 DEF Filling
    <3> QED
      BY <3>1, <3>2, <3>3, <3>4 DEF Filling
  <2> QED
    BY <2>1, <2>2
<1>9. ASSUME NEW u \in Threads
      PROVE  \E p : Leading(u, p)'
  <2>1. PICK p : Leading(u, p)
    BY DEF FramesInv
  <2>2. PICK q : q = [i \in 0 .. n |-> p[i + 1]]
    OBVIOUS
  <2>3. p \in [0 .. n + 1 -> FramePlaces] /\ p[0] = ReadTo(u)
    BY <1>2, <2>1 DEF Leading
  <2>4. q \in [0 .. n -> FramePlaces] /\ \A i \in 0 .. n : q[i] = p[i + 1]
    <3>1. \A i \in 0 .. n : i + 1 \in 0 .. n + 1
      BY <1>2
    <3> QED
      BY <2>2, <2>3, <3>1
  <2>5. \A i \in 1 .. n + 1 : IF link[i].stream = u THEN IsFrame(link[i], p[i - 1]) /\ p[i] = AfterFrame(p[i - 1]) ELSE p[i] = p[i - 1]
    BY <1>2, <2>1 DEF Leading
  <2>6. q[0] = ReadTo(u)'
    <3>1. q[0] = p[1] /\ 1 \in 1 .. n + 1 /\ 1 - 1 = 0
      BY <1>2, <2>4
    <3>2. CASE u = t
      BY <1>2, <1>3, <1>7, <2>3, <2>5, <3>1, <3>2
    <3>3. CASE u # t
      <4>1. link[1].stream # u
        BY <1>2, <1>3, <3>3
      <4>2. ReadTo(u)' = ReadTo(u)
        BY <1>7, <3>3 DEF ReadTo, Framed!Nothing
      <4> QED
        BY <2>3, <2>5, <3>1, <4>1, <4>2
    <3> QED
      BY <3>2, <3>3
  <2>7. ASSUME NEW i \in 1 .. n
        PROVE  IF link'[i].stream = u THEN IsFrame(link'[i], q[i - 1]) /\ q[i] = AfterFrame(q[i - 1]) ELSE q[i] = q[i - 1]
    <3>1. PICK j : j = i + 1
      OBVIOUS
    <3>2. j \in 1 .. n + 1 /\ j - 1 = i /\ i \in 0 .. n /\ i - 1 \in 0 .. n /\ (i - 1) + 1 = i
      BY <1>2, <3>1
    <3>3. link'[i] = link[j] /\ q[i] = p[j] /\ q[i - 1] = p[j - 1]
      BY <1>2, <2>4, <3>1, <3>2
    <3> QED
      BY <2>5, <3>2, <3>3
  <2>8. ~cut' => q[n] = <<message'[u], frame'[u]>>
    <3>1. ~cut => p[n + 1] = <<message[u], frame[u]>>
      BY <1>2, <2>1 DEF Leading
    <3>2. q[n] = p[n + 1]
      BY <1>2, <2>4
    <3> QED
      BY <1>1, <3>1, <3>2
  <2>9. Leading(u, q)'
    BY <1>2, <2>4, <2>6, <2>7, <2>8 DEF Leading
  <2> QED
    BY <2>9
<1> QED
  BY <1>1, <1>2, <1>7, <1>8, <1>9 DEF FramesInv

\* Every step keeps the frames of every thread in order.
LEMMA FramesStep ==
  ASSUME Messages \in Seq(Nat), FramesInv, Framed!FramesNext \/ UNCHANGED frameVars
  PROVE  FramesInv'
<1>1. CASE UNCHANGED frameVars
  <2>1. \A u \in Threads : Filling(u)' /\ PutTogether(u)' /\ \E p : Leading(u, p)'
    <3>1. TAKE u \in Threads
    <3>2. Filling(u) /\ PutTogether(u) /\ \E p : Leading(u, p)
      BY DEF FramesInv
    <3>3. Filling(u)'
      BY <1>1, <3>2 DEF frameVars, Filling, Framed!Nothing
    <3>4. PutTogether(u)'
      BY <1>1, <3>2 DEF frameVars, PutTogether
    <3>5. \E p : Leading(u, p)'
      BY <1>1, <3>2 DEF frameVars, Leading, ReadTo, Framed!Nothing
    <3> QED
      BY <3>3, <3>4, <3>5
  <2> QED
    BY <1>1, <2>1 DEF frameVars, FramesInv
<1> QED
  BY <1>1, WritingKeepsFrames, CuttingKeepsFrames, ReadingKeepsFrames DEF Framed!FramesNext

\* The messages put together are those that were sent, in their order.
LEMMA FramesWhole ==
  ASSUME FramesInv
  PROVE  Framed!MessagesWhole
<1>1. ASSUME NEW t \in Threads
      PROVE  whole[t] = [i \in 1 .. Len(whole[t]) |-> <<i, Messages[i]>>]
  <2>1. PutTogether(t)
    BY DEF FramesInv
  <2> QED
    BY <2>1, LenProperties DEF PutTogether
<1> QED
  BY <1>1 DEF FramesInv, Framed!MessagesWhole

-----------------------------------------------------------------------------
(* The data channel of a sandbox. *)

\* What a request sends over the channel, and what comes back.
Asks == {"lease", "call"}
Gives == {"renewed", "returned"}
\* The worker reads its standard streams.
ByStdio == sandbox = "reads" /\ source = 0
\* This side has closed the lanes that the worker took, or is about to find that out.
Cast == shut /\ (sandbox = "deaf" \/ (sandbox = "reads" /\ source > 0))
\* The worker waits for lanes; no lanes are in use; nothing is on the standard streams.
Taking == sandbox = "listens" /\ source = 0 /\ opened > 0 /\ known \subseteq {l \in Sockets : lane[l] = "open"}
Alone == inward = <<>> /\ shut
Quiet == stdin = <<>> /\ stdout = <<>>

\* Before the worker's hello over its standard streams, and up to listen.
Starting ==
  /\ Alone /\ conn = 0
  /\ \/ main = "hello" /\ sandbox = "stub" /\ stdin = <<"source">> /\ stdout = <<>>
     \/ main = "hello" /\ ByStdio /\ stdin = <<>> /\ stdout = <<"hello">>
     \/ main = "listen" /\ ByStdio /\ Quiet
\* From the listen request to the answer.
Asking ==
  /\ main = "asked" /\ conn = 0 /\ inward = <<>> /\ outward = <<>> /\ ~shut /\ opened > 0
  /\ \A l \in Sockets : lane[l] = "none"
  /\ \/ ByStdio /\ stdin = <<"listen">> /\ stdout = <<>>
     \/ ByStdio /\ stdin = <<>> /\ stdout \in {<<"refused">>, <<"listening">>}
     \/ Taking /\ stdin = <<>> /\ stdout = <<"listening">> /\ ~dropped
\* While the lanes are opened, up to the hello over them.
Joining ==
  /\ main = "lanes" /\ conn = 0 /\ inward = <<>> /\ ~shut /\ opened > 0 /\ Quiet
  /\ \/ (ByStdio \/ (Taking /\ ~dropped)) /\ outward = <<>>
     \/ sandbox = "reads" /\ source = opened /\ outward = <<"hello">> /\ ~dropped
\* Requests over the connection the worker reads.
Serving ==
  /\ main \in {"ready", "called"}
  /\ \/ /\ conn = 0 /\ Alone /\ stdin \in Seq(Asks) /\ stdout \in Seq(Gives) /\ (ByStdio \/ Taking \/ Cast)
     \/ /\ conn = opened /\ opened > 0 /\ ~shut /\ ~dropped /\ Quiet /\ inward \in Seq(Asks) /\ outward \in Seq(Gives)
        /\ sandbox = "reads" /\ source = conn
\* The request to move is the last, and its answer too.
Moving ==
  /\ main = "moves"
  /\ \/ /\ conn = 0 /\ Alone
        /\ \/ /\ ByStdio \/ Taking \/ Cast
              /\ stdout \in Seq(Gives) /\ \E s \in Seq(Asks) : stdin = Append(s, "reexec")
           \/ sandbox = "stub" /\ stdin = <<>> /\ \E s \in Seq(Gives) : stdout = Append(s, "moving")
     \/ /\ conn = opened /\ opened > 0 /\ ~shut /\ Quiet
        /\ \/ /\ sandbox = "reads" /\ source = conn /\ ~dropped
              /\ outward \in Seq(Gives) /\ \E s \in Seq(Asks) : inward = Append(s, "reexec")
           \/ sandbox = "stub" /\ inward = <<>> /\ \E s \in Seq(Gives) : outward = Append(s, "moving")
\* Between the worker's answer and its source.
Leaving ==
  /\ sandbox = "stub" /\ Quiet /\ inward = <<>>
  /\ \/ main = "leaves"
     \/ main = "sends" /\ conn = 0 /\ shut

\* Both sides are in the same phase, or the sandbox is gone.
ChannelInv ==
  \/ sandbox = "gone"
  \/ /\ opened \in Nat /\ lane \in [Sockets -> {"none", "open", "failed"}]
     /\ lease = "picked" => main \in {"ready", "called"} /\ on = conn
     /\ Starting \/ Asking \/ Joining \/ Serving \/ Moving \/ Leaving

\* The last frame of a connection, and what is ahead of it.
LEMMA LastFrame ==
  ASSUME NEW S, NEW s \in Seq(S), NEW x, x \notin S
  PROVE  /\ Append(s, x) # <<>>
         /\ Head(Append(s, x)) = x => Tail(Append(s, x)) = <<>>
         /\ Head(Append(s, x)) # x => Head(Append(s, x)) \in S /\ \E r \in Seq(S) : Tail(Append(s, x)) = Append(r, x)
<1>1. Head(Append(s, x)) = (IF s = <<>> THEN x ELSE Head(s)) /\ Tail(Append(s, x)) = (IF s = <<>> THEN <<>> ELSE Append(Tail(s), x))
  BY HeadTailAppend
<1>2. s # <<>> => Head(s) \in S /\ Tail(s) \in Seq(S)
  BY HeadTailProperties
<1>3. Append(s, x) # <<>>
  <2>1. s \in Seq(S \cup {x}) /\ x \in S \cup {x}
    BY SeqMonotonic
  <2> QED
    BY <2>1, AppendProperties
<1>4. CASE s = <<>>
  BY <1>1, <1>3, <1>4
<1>5. CASE s # <<>>
  BY <1>1, <1>2, <1>3, <1>5
<1> QED
  BY <1>4, <1>5

\* The last answer of a worker that moves, and what is ahead of it.
LEMMA LastGiven ==
  ASSUME NEW s \in Seq(Gives)
  PROVE  /\ Append(s, "moving") # <<>>
         /\ Head(Append(s, "moving")) = "moving" => Tail(Append(s, "moving")) = <<>>
         /\ Head(Append(s, "moving")) # "moving" => \E r \in Seq(Gives) : Tail(Append(s, "moving")) = Append(r, "moving")
<1>1. "moving" \notin Gives
  BY DEF Gives
<1> QED
  BY <1>1, LastFrame

\* The last request to a worker that moves, and what is ahead of it.
LEMMA LastAsked ==
  ASSUME NEW s \in Seq(Asks)
  PROVE  /\ Append(s, "reexec") # <<>>
         /\ Head(Append(s, "reexec")) = "reexec" => Tail(Append(s, "reexec")) = <<>>
         /\ Head(Append(s, "reexec")) # "reexec" => \E r \in Seq(Asks) : Tail(Append(s, "reexec")) = Append(r, "reexec")
<1>1. "reexec" \notin Asks
  BY DEF Asks
<1> QED
  BY <1>1, LastFrame

\* The first frame of a connection.
LEMMA FirstFrame ==
  ASSUME NEW S, NEW s \in Seq(S), s # <<>>
  PROVE  Head(s) \in S /\ Tail(s) \in Seq(S)
  BY HeadTailProperties

\* A single frame.
LEMMA OneFrame ==
  ASSUME NEW x
  PROVE  <<x>> # <<>> /\ Head(<<x>>) = x /\ Tail(<<x>>) = <<>> /\ Append(<<>>, x) = <<x>>
OBVIOUS

\* What the client is doing tells the phase.
LEMMA PhaseOf ==
  ASSUME ChannelInv, sandbox # "gone"
  PROVE  /\ opened \in Nat /\ lane \in [Sockets -> {"none", "open", "failed"}]
         /\ lease = "picked" => main \in {"ready", "called"} /\ on = conn
         /\ \/ main \in {"hello", "listen"} /\ Starting
            \/ main = "asked" /\ Asking
            \/ main = "lanes" /\ Joining
            \/ main \in {"ready", "called"} /\ Serving
            \/ main = "moves" /\ Moving
            \/ main \in {"leaves", "sends"} /\ Leaving
  BY DEF ChannelInv, Starting, Asking, Joining, Serving, Moving, Leaving

\* The hello over the standard streams.
LEMMA StdioHelloKeeps ==
  ASSUME ChannelInv, sandbox # "gone", Data!StdioHello
  PROVE  ChannelInv'
<1>1. main = "hello" /\ Starting /\ opened \in Nat /\ lane \in [Sockets -> {"none", "open", "failed"}] /\ lease # "picked"
  BY PhaseOf DEF Data!StdioHello
<1>2. stdout # <<>> /\ Head(stdout) = "hello" /\ stdout' = Tail(stdout) /\ main' = "listen"
  BY DEF Data!StdioHello, Data!Comes
<1>3. UNCHANGED <<conn, opened, lane, shut, lease, sandbox, source, stdin, inward>>
  BY DEF Data!StdioHello, Data!renewVars, Data!workerVars
<1>4. ByStdio /\ stdin = <<>> /\ stdout' = <<>> /\ conn = 0 /\ Alone
  BY <1>1, <1>2, OneFrame DEF Starting
<1>5. Starting'
  BY <1>2, <1>3, <1>4 DEF Starting, ByStdio, Quiet, Alone
<1> QED
  BY <1>1, <1>3, <1>5 DEF ChannelInv

\* The request to listen.
LEMMA ListenKeeps ==
  ASSUME ChannelInv, sandbox # "gone", Data!Listen
  PROVE  ChannelInv'
<1>1. main = "listen" /\ Starting /\ opened \in Nat /\ lease # "picked"
  BY PhaseOf DEF Data!Listen
<1>2. /\ main' = "asked" /\ stdin' = Append(stdin, "listen") /\ opened' = opened + 1 /\ shut' = FALSE /\ outward' = <<>>
      /\ lane' = [l \in Sockets |-> "none"] /\ UNCHANGED <<conn, lease, stdout, inward, sandbox, source>>
  BY DEF Data!Listen, Data!Goes, Data!renewVars, Data!workerVars, Data!NoLanes
<1>3. ByStdio /\ stdin' = <<"listen">> /\ stdout = <<>> /\ conn = 0 /\ inward = <<>>
  BY <1>1, <1>2, OneFrame DEF Starting, Quiet, Alone
<1>4. Asking'
  <2>1. opened' > 0 /\ ~shut' /\ \A l \in Sockets : lane'[l] = "none"
    BY <1>1, <1>2
  <2>2. ByStdio' /\ stdin' = <<"listen">> /\ stdout' = <<>> /\ conn' = 0 /\ inward' = <<>> /\ outward' = <<>> /\ main' = "asked"
    BY <1>2, <1>3 DEF ByStdio
  <2> QED
    BY <2>1, <2>2 DEF Asking
<1> QED
  BY <1>1, <1>2, <1>4 DEF ChannelInv

\* The answer to it.
LEMMA AnsweredKeeps ==
  ASSUME ChannelInv, sandbox # "gone", Data!Answered
  PROVE  ChannelInv'
<1>1. main = "asked" /\ Asking /\ opened \in Nat /\ lane \in [Sockets -> {"none", "open", "failed"}] /\ lease # "picked"
  BY PhaseOf DEF Data!Answered
<1>2. stdout # <<>> /\ Head(stdout) = "listening" /\ stdout' = Tail(stdout) /\ main' = "lanes"
      /\ UNCHANGED <<outward, conn, opened, lane, shut, lease, stdin, inward, sandbox, source, known, dropped>>
  BY DEF Data!Answered, Data!Comes, Data!renewVars, Data!workerVars
<1>3. stdin = <<>> /\ stdout' = <<>> /\ (ByStdio \/ (Taking /\ ~dropped))
  BY <1>1, <1>2, OneFrame DEF Asking
<1>4. conn = 0 /\ inward = <<>> /\ outward = <<>> /\ ~shut /\ opened > 0
  BY <1>1 DEF Asking
<1>5. Joining'
  BY <1>2, <1>3, <1>4 DEF Joining, ByStdio, Taking, Quiet
<1> QED
  BY <1>1, <1>2, <1>5 DEF ChannelInv

\* Whatever goes wrong, the frames stay on the standard streams and the lanes are closed.
LEMMA FallbackKeeps ==
  ASSUME opened \in Nat, lane \in [Sockets -> {"none", "open", "failed"}], lease # "picked",
         Data!Fallback, conn = 0, inward' = <<>>, stdin' = <<>>, stdout' = <<>>,
         UNCHANGED <<sandbox, source, known>>, ByStdio \/ Taking \/ (sandbox = "reads" /\ source > 0)
  PROVE  ChannelInv'
<1>1. main' = "ready" /\ shut' = TRUE /\ UNCHANGED <<conn, opened, lane>> /\ lease' \in {"idle", lease}
  BY DEF Data!Fallback, Data!ReadyNow
<1>2. (ByStdio \/ Taking \/ Cast)'
  BY <1>1 DEF ByStdio, Taking, Cast
<1>3. <<>> \in Seq(Asks) /\ <<>> \in Seq(Gives)
  BY EmptySeq
<1>4. Serving'
  BY <1>1, <1>2, <1>3 DEF Serving, Alone
<1> QED
  BY <1>1, <1>4 DEF ChannelInv

\* The listen request, a lane or the hello over the lanes fails.
LEMMA OpeningFails ==
  ASSUME ChannelInv, sandbox # "gone", Data!ListenRefused \/ Data!TunnelFails \/ Data!LaneFailed \/ Data!NoHello
  PROVE  ChannelInv'
<1>1. CASE Data!ListenRefused
  <2>1. main = "asked" /\ Asking /\ opened \in Nat /\ lane \in [Sockets -> {"none", "open", "failed"}] /\ lease # "picked"
    BY <1>1, PhaseOf DEF Data!ListenRefused
  <2>2. /\ stdout # <<>> /\ Head(stdout) = "refused" /\ stdout' = Tail(stdout) /\ Data!Fallback
        /\ UNCHANGED <<stdin, inward, sandbox, source, known>>
    BY <1>1 DEF Data!ListenRefused, Data!Comes, Data!workerVars
  <2>3. stdin = <<>> /\ stdout' = <<>> /\ ByStdio /\ conn = 0 /\ inward = <<>>
    BY <2>1, <2>2, OneFrame DEF Asking
  <2> QED
    BY <2>1, <2>2, <2>3, FallbackKeeps
<1>2. CASE Data!TunnelFails \/ Data!LaneFailed \/ Data!NoHello
  <2>1. main = "lanes" /\ Joining /\ opened \in Nat /\ lane \in [Sockets -> {"none", "open", "failed"}] /\ lease # "picked"
    BY <1>2, PhaseOf DEF Data!TunnelFails, Data!LaneFailed, Data!NoHello
  <2>2. Data!Fallback /\ UNCHANGED <<stdin, stdout, inward, sandbox, source, known>>
    BY <1>2 DEF Data!TunnelFails, Data!LaneFailed, Data!NoHello, Data!workerVars
  <2>3. /\ stdin = <<>> /\ stdout = <<>> /\ conn = 0 /\ inward = <<>>
        /\ ByStdio \/ Taking \/ (sandbox = "reads" /\ source > 0)
    BY <2>1 DEF Joining, Quiet
  <2> QED
    BY <2>1, <2>2, <2>3, FallbackKeeps
<1> QED
  BY <1>1, <1>2

\* A lane is opened.
LEMMA LaneOpensKeeps ==
  ASSUME ChannelInv, sandbox # "gone", NEW l \in Sockets, Data!LaneOpens(l)
  PROVE  ChannelInv'
<1>1. main = "lanes" /\ Joining /\ opened \in Nat /\ lane \in [Sockets -> {"none", "open", "failed"}] /\ lease # "picked"
  BY PhaseOf DEF Data!LaneOpens
<1>2. PICK e \in {"open", "failed"} : lane' = [lane EXCEPT ![l] = e]
  BY DEF Data!LaneOpens
<1>3. lane[l] = "none" /\ UNCHANGED <<main, conn, opened, shut, lease, stdin, stdout, inward, outward, sandbox, source, known, dropped>>
  BY DEF Data!LaneOpens, Data!renewVars, Data!workerVars
<1>4. lane' \in [Sockets -> {"none", "open", "failed"}] /\ \A k \in Sockets : lane[k] = "open" => lane'[k] = "open"
  BY <1>1, <1>2, <1>3
<1>5. Taking => Taking'
  BY <1>3, <1>4 DEF Taking
<1>6. Joining'
  BY <1>1, <1>3, <1>5 DEF Joining, ByStdio, Quiet
<1> QED
  BY <1>1, <1>3, <1>4, <1>6 DEF ChannelInv

\* The hello over the lanes: the channel is on them.
LEMMA DataHelloKeeps ==
  ASSUME ChannelInv, sandbox # "gone", Data!DataHello
  PROVE  ChannelInv'
<1>1. main = "lanes" /\ Joining /\ opened \in Nat /\ lane \in [Sockets -> {"none", "open", "failed"}] /\ lease # "picked"
  BY PhaseOf DEF Data!DataHello
<1>2. opened > 0 /\ opened # 0 /\ ~shut /\ stdin = <<>> /\ stdout = <<>> /\ inward = <<>>
  BY <1>1 DEF Joining, Quiet
<1>3. /\ outward # <<>> /\ Head(outward) = "hello" /\ outward' = Tail(outward) /\ conn' = opened /\ main' = "ready"
      /\ lease' \in {"idle", lease} /\ UNCHANGED <<opened, lane, shut, stdin, stdout, inward, sandbox, source, dropped>>
  BY <1>2 DEF Data!DataHello, Data!Comes, Data!ReadyNow, Data!workerVars
<1>4. sandbox = "reads" /\ source = opened /\ outward' = <<>> /\ ~dropped
  BY <1>1, <1>3, OneFrame DEF Joining
<1>5. <<>> \in Seq(Asks) /\ <<>> \in Seq(Gives)
  BY EmptySeq
<1>6. Serving'
  BY <1>2, <1>3, <1>4, <1>5 DEF Serving, Quiet
<1> QED
  BY <1>1, <1>3, <1>6 DEF ChannelInv

\* The worker has answered that it moves.
LEMMA MovedKeeps ==
  ASSUME ChannelInv, sandbox # "gone", Data!Moved
  PROVE  ChannelInv'
<1>1. main = "moves" /\ Moving /\ opened \in Nat /\ lane \in [Sockets -> {"none", "open", "failed"}] /\ lease # "picked"
  BY PhaseOf DEF Data!Moved
<1>2. Data!Comes(conn, "moving") /\ main' = "leaves" /\ UNCHANGED <<conn, opened, lane, shut, lease, stdin, inward, sandbox>>
  BY DEF Data!Moved, Data!renewVars, Data!workerVars
<1>3. CASE conn = 0
  <2>1. stdout # <<>> /\ Head(stdout) = "moving" /\ stdout' = Tail(stdout)
    BY <1>2, <1>3 DEF Data!Comes
  <2>2. stdout \notin Seq(Gives)
    BY <2>1, FirstFrame DEF Gives
  <2>3. PICK s \in Seq(Gives) : stdout = Append(s, "moving") /\ sandbox = "stub" /\ stdin = <<>> /\ Alone
    BY <1>1, <1>3, <2>2 DEF Moving
  <2>4. stdout' = <<>>
    BY <2>1, <2>3, LastGiven
  <2> QED
    BY <1>1, <1>2, <2>3, <2>4 DEF ChannelInv, Leaving, Quiet, Alone
<1>4. CASE conn # 0
  <2>1. outward # <<>> /\ Head(outward) = "moving" /\ UNCHANGED stdout
    BY <1>2, <1>4 DEF Data!Comes
  <2>2. outward \notin Seq(Gives)
    BY <2>1, FirstFrame DEF Gives
  <2>3. Quiet /\ sandbox = "stub" /\ inward = <<>>
    BY <1>1, <1>4, <2>2 DEF Moving
  <2> QED
    BY <1>1, <1>2, <2>1, <2>3 DEF ChannelInv, Leaving, Quiet
<1> QED
  BY <1>3, <1>4

\* The lanes are left, and the source goes over the standard streams.
LEMMA LeavesKeeps ==
  ASSUME ChannelInv, sandbox # "gone", Data!Leaves \/ Data!SendsSource
  PROVE  ChannelInv'
<1>1. main \in {"leaves", "sends"} /\ Leaving /\ opened \in Nat /\ lane \in [Sockets -> {"none", "open", "failed"}] /\ lease # "picked"
  BY PhaseOf DEF Data!Leaves, Data!SendsSource
<1>2. CASE Data!Leaves
  <2>1. /\ main' = "sends" /\ conn' = 0 /\ shut' = TRUE /\ inward' = <<>>
        /\ UNCHANGED <<opened, lane, lease, stdin, stdout, sandbox>>
    BY <1>2 DEF Data!Leaves, Data!renewVars, Data!workerVars
  <2> QED
    BY <1>1, <2>1 DEF ChannelInv, Leaving, Quiet
<1>3. CASE Data!SendsSource
  <2>1. /\ main = "sends" /\ main' = "hello" /\ stdin' = Append(stdin, "source")
        /\ UNCHANGED <<conn, opened, lane, shut, lease, stdout, inward, sandbox>>
    BY <1>3 DEF Data!SendsSource, Data!Goes, Data!renewVars, Data!workerVars
  <2>2. stdin' = <<"source">> /\ stdout = <<>> /\ inward = <<>> /\ conn = 0 /\ shut /\ sandbox = "stub"
    BY <1>1, <2>1, OneFrame DEF Leaving, Quiet
  <2>3. Starting'
    BY <2>1, <2>2 DEF Starting, Alone
  <2> QED
    BY <1>1, <2>1, <2>3 DEF ChannelInv
<1> QED
  BY <1>2, <1>3

\* The ways a request goes, and what it takes for one to be refused, while the worker runs.
LEMMA ServingGoes ==
  ASSUME Serving, sandbox # "gone", opened \in Nat
  PROVE  /\ ~Data!Fails(conn)
         /\ conn = 0 => stdin \in Seq(Asks) /\ stdout \in Seq(Gives) /\ Alone /\ (ByStdio \/ Taking \/ Cast)
         /\ conn # 0 => /\ conn = opened /\ opened > 0 /\ ~shut /\ ~dropped /\ Quiet /\ inward \in Seq(Asks)
                        /\ outward \in Seq(Gives) /\ sandbox = "reads" /\ source = conn
  BY DEF Serving, Data!Fails

\* A call is sent.
LEMMA CallKeeps ==
  ASSUME ChannelInv, sandbox # "gone", Data!Call
  PROVE  ChannelInv'
<1>1. /\ main \in {"ready", "called"} /\ Serving /\ opened \in Nat /\ lane \in [Sockets -> {"none", "open", "failed"}]
      /\ lease = "picked" => on = conn
  BY PhaseOf DEF Data!Call
<1>2. /\ Data!Goes(conn, "call") /\ main' = "called"
      /\ UNCHANGED <<conn, opened, lane, shut, lease, on, stdout, outward, sandbox, source, known, dropped>>
  BY <1>1, ServingGoes DEF Data!Call, Data!renewVars, Data!workerVars
<1>3. \A s \in Seq(Asks) : Append(s, "call") \in Seq(Asks)
  BY AppendProperties DEF Asks
<1>4. CASE conn = 0
  <2>1. stdin' \in Seq(Asks) /\ UNCHANGED inward
    BY <1>1, <1>2, <1>3, <1>4, ServingGoes DEF Data!Goes
  <2>2. Serving'
    BY <1>1, <1>2, <1>4, <2>1, ServingGoes DEF Serving, Alone, ByStdio, Taking, Cast
  <2> QED
    BY <1>1, <1>2, <2>2 DEF ChannelInv
<1>5. CASE conn # 0
  <2>1. inward' \in Seq(Asks) /\ UNCHANGED stdin
    BY <1>1, <1>2, <1>3, <1>5, ServingGoes DEF Data!Goes
  <2>2. Serving'
    BY <1>1, <1>2, <1>5, <2>1, ServingGoes DEF Serving, Quiet
  <2> QED
    BY <1>1, <1>2, <2>2 DEF ChannelInv
<1> QED
  BY <1>4, <1>5

\* The request to move is sent, while no renewal is between its choice and its write.
LEMMA MoveKeeps ==
  ASSUME Apart, ChannelInv, sandbox # "gone", Data!Move
  PROVE  ChannelInv'
<1>1. main = "ready" /\ Serving /\ opened \in Nat /\ lane \in [Sockets -> {"none", "open", "failed"}] /\ lease # "picked"
  BY PhaseOf DEF Data!Move
<1>2. /\ Data!Goes(conn, "reexec") /\ main' = "moves"
      /\ UNCHANGED <<conn, opened, lane, shut, lease, stdout, outward, sandbox, source, known, dropped>>
  BY <1>1, ServingGoes DEF Data!Move, Data!renewVars, Data!workerVars
<1>3. CASE conn = 0
  <2>1. stdin' = Append(stdin, "reexec") /\ UNCHANGED inward /\ stdin \in Seq(Asks)
    BY <1>1, <1>2, <1>3, ServingGoes DEF Data!Goes
  <2>2. \E s \in Seq(Asks) : stdin' = Append(s, "reexec")
    BY <2>1
  <2>3. Moving'
    BY <1>1, <1>2, <1>3, <2>1, <2>2, ServingGoes DEF Moving, Alone, ByStdio, Taking, Cast
  <2> QED
    BY <1>1, <1>2, <2>3 DEF ChannelInv
<1>4. CASE conn # 0
  <2>1. inward' = Append(inward, "reexec") /\ UNCHANGED stdin /\ inward \in Seq(Asks)
    BY <1>1, <1>2, <1>4, ServingGoes DEF Data!Goes
  <2>2. \E s \in Seq(Asks) : inward' = Append(s, "reexec")
    BY <2>1
  <2>3. Moving'
    BY <1>1, <1>2, <1>4, <2>1, <2>2, ServingGoes DEF Moving, Quiet
  <2> QED
    BY <1>1, <1>2, <2>3 DEF ChannelInv
<1> QED
  BY <1>3, <1>4

\* A call returns.
LEMMA ReturnsKeeps ==
  ASSUME ChannelInv, sandbox # "gone", Data!Returns
  PROVE  ChannelInv'
<1>1. /\ main \in {"ready", "called"} /\ Serving /\ opened \in Nat /\ lane \in [Sockets -> {"none", "open", "failed"}]
      /\ lease = "picked" => on = conn
  BY PhaseOf DEF Data!Returns
<1>2. /\ Data!Comes(conn, "returned") /\ main' = "ready"
      /\ UNCHANGED <<conn, opened, lane, shut, lease, on, stdin, inward, sandbox, source, known, dropped>>
  BY DEF Data!Returns, Data!renewVars, Data!workerVars
<1>3. CASE conn = 0
  <2>1. stdout' \in Seq(Gives) /\ UNCHANGED outward
    BY <1>1, <1>2, <1>3, ServingGoes, FirstFrame DEF Data!Comes
  <2>2. Serving'
    BY <1>1, <1>2, <1>3, <2>1, ServingGoes DEF Serving, Alone, ByStdio, Taking, Cast
  <2> QED
    BY <1>1, <1>2, <2>2 DEF ChannelInv
<1>4. CASE conn # 0
  <2>1. outward' \in Seq(Gives) /\ UNCHANGED stdout
    BY <1>1, <1>2, <1>4, ServingGoes, FirstFrame DEF Data!Comes
  <2>2. Serving'
    BY <1>1, <1>2, <1>4, <2>1, ServingGoes DEF Serving, Quiet
  <2> QED
    BY <1>1, <1>2, <2>2 DEF ChannelInv
<1> QED
  BY <1>3, <1>4

\* Nobody loses a running worker: the end of the streams, or of the lanes, comes with its own.
LEMMA NotLost ==
  ASSUME ChannelInv, sandbox # "gone"
  PROVE  ~Data!MainLoses
<1> SUFFICES ASSUME Data!MainLoses PROVE FALSE
  OBVIOUS
<1>1. /\ main \in {"hello", "asked", "moves", "called"} /\ main \in {"moves", "called"} /\ Data!Fails(conn)
      /\ conn > 0 => outward = <<>>
  BY DEF Data!MainLoses, Data!Waiting, Data!Fails
<1>2. CASE main = "called"
  BY <1>1, <1>2, PhaseOf, ServingGoes
<1>3. CASE main = "moves"
  <2>1. Moving
    BY <1>3, PhaseOf
  <2>2. conn = opened /\ opened > 0 /\ ~shut /\ outward = <<>> /\ dropped
    BY <1>1, <2>1, PhaseOf DEF Moving, Data!Fails
  <2>3. PICK s \in Seq(Gives) : outward = Append(s, "moving")
    BY <2>1, <2>2 DEF Moving
  <2> QED
    BY <2>2, <2>3, LastGiven
<1> QED
  BY <1>1, <1>2, <1>3

\* The sandbox ends: nothing is left to agree on.
LEMMA KilledKeeps ==
  ASSUME Data!MainTimesOut \/ Data!RenewalTimesOut \/ Data!ReadsEnd
  PROVE  ChannelInv'
  BY DEF Data!MainTimesOut, Data!RenewalTimesOut, Data!ReadsEnd, Data!Kill, ChannelInv

\* A renewal chooses its connection, writes to it or fails.
LEMMA RenewalKeeps ==
  ASSUME Apart, ChannelInv, sandbox # "gone", Data!Picks \/ Data!Renews \/ Data!RenewalFails
  PROVE  ChannelInv'
<1>1. /\ opened \in Nat /\ lane \in [Sockets -> {"none", "open", "failed"}]
      /\ lease = "picked" => main \in {"ready", "called"} /\ on = conn
      /\ main \in {"ready", "called"} => Serving
  BY PhaseOf
<1>2. UNCHANGED <<main, conn, opened, lane, shut, stdout, outward, sandbox, source, known, dropped>>
  BY DEF Data!Picks, Data!Renews, Data!RenewalFails, Data!clientVars, Data!workerVars
<1>3. ASSUME UNCHANGED <<stdin, inward>>, lease' = "picked" => main \in {"ready", "called"} /\ on' = conn
      PROVE  ChannelInv'
  <2>1. (Starting \/ Asking \/ Joining \/ Serving \/ Moving \/ Leaving)'
    BY <1>2, <1>3 DEF ChannelInv, Starting, Asking, Joining, Serving, Moving, Leaving, ByStdio, Taking, Cast, Alone, Quiet
  <2> QED
    BY <1>1, <1>2, <1>3, <2>1 DEF ChannelInv
<1>4. CASE Data!Picks
  BY <1>3, <1>4 DEF Data!Picks, Data!clientVars, Data!workerVars
<1>5. CASE Data!RenewalFails
  BY <1>3, <1>5 DEF Data!RenewalFails, Data!clientVars, Data!workerVars
<1>6. CASE Data!Renews
  <2>1. lease = "picked" /\ main \in {"ready", "called"} /\ on = conn /\ Serving /\ lease' # "picked"
    BY <1>1, <1>6 DEF Data!Renews
  <2>2. CASE UNCHANGED <<stdin, inward>>
    BY <1>3, <2>1, <2>2
  <2>3. CASE Data!Goes(conn, "lease")
    <3>1. \A s \in Seq(Asks) : Append(s, "lease") \in Seq(Asks)
      BY AppendProperties DEF Asks
    <3>2. CASE conn = 0
      <4>1. stdin' \in Seq(Asks) /\ UNCHANGED inward
        BY <1>1, <2>1, <2>3, <3>1, <3>2, ServingGoes DEF Data!Goes
      <4>2. Serving'
        BY <1>1, <1>2, <2>1, <3>2, <4>1, ServingGoes DEF Serving, Alone, ByStdio, Taking, Cast
      <4> QED
        BY <1>1, <1>2, <2>1, <4>2 DEF ChannelInv
    <3>3. CASE conn # 0
      <4>1. inward' \in Seq(Asks) /\ UNCHANGED stdin
        BY <1>1, <2>1, <2>3, <3>1, <3>3, ServingGoes DEF Data!Goes
      <4>2. Serving'
        BY <1>1, <1>2, <2>1, <3>3, <4>1, ServingGoes DEF Serving, Quiet
      <4> QED
        BY <1>1, <1>2, <2>1, <4>2 DEF ChannelInv
    <3> QED
      BY <3>2, <3>3
  <2> QED
    BY <1>6, <2>1, <2>2, <2>3 DEF Data!Renews
<1> QED
  BY <1>4, <1>5, <1>6

\* A renewal returns.
LEMMA RenewedKeeps ==
  ASSUME ChannelInv, sandbox # "gone", Data!Renewed
  PROVE  ChannelInv'
<1>1. /\ opened \in Nat /\ lane \in [Sockets -> {"none", "open", "failed"}]
      /\ Starting \/ Asking \/ Joining \/ Serving \/ Moving \/ Leaving
  BY DEF ChannelInv
<1>2. /\ Data!Comes(on, "renewed") /\ lease' # "picked"
      /\ UNCHANGED <<main, conn, opened, lane, shut, stdin, inward, sandbox, source, known, dropped>>
  BY DEF Data!Renewed, Data!clientVars, Data!workerVars
<1>3. CASE on = 0
  <2>1. stdout # <<>> /\ Head(stdout) = "renewed" /\ stdout' = Tail(stdout) /\ UNCHANGED outward
    BY <1>2, <1>3 DEF Data!Comes
  <2>2. stdout # <<"hello">> /\ stdout # <<"refused">> /\ stdout # <<"listening">>
    BY <2>1, OneFrame
  <2>3. ~Starting /\ ~Asking /\ ~Joining /\ ~Leaving
    BY <2>1, <2>2 DEF Starting, Asking, Joining, Leaving, Quiet
  <2>4. stdout \in Seq(Gives) => stdout' \in Seq(Gives)
    BY <2>1, FirstFrame
  <2>5. CASE Serving
    <3>1. Serving'
      BY <1>1, <1>2, <2>1, <2>4, <2>5 DEF Serving, Alone, ByStdio, Taking, Cast, Quiet
    <3> QED
      BY <1>1, <1>2, <3>1 DEF ChannelInv
  <2>6. CASE Moving
    <3>1. ASSUME NEW s \in Seq(Gives), stdout = Append(s, "moving")
          PROVE  \E r \in Seq(Gives) : stdout' = Append(r, "moving")
      <4>1. Head(Append(s, "moving")) # "moving" /\ stdout' = Tail(Append(s, "moving"))
        BY <2>1, <3>1
      <4>2. \E r \in Seq(Gives) : Tail(Append(s, "moving")) = Append(r, "moving")
        BY <3>1, <4>1, LastGiven
      <4> QED
        BY <4>1, <4>2
    <3>2. Moving'
      BY <1>1, <1>2, <2>1, <2>4, <2>6, <3>1 DEF Moving, Alone, ByStdio, Taking, Cast, Quiet
    <3> QED
      BY <1>1, <1>2, <3>2 DEF ChannelInv
  <2> QED
    BY <1>1, <2>3, <2>5, <2>6
<1>4. CASE on # 0
  <2>1. outward # <<>> /\ Head(outward) = "renewed" /\ outward' = Tail(outward) /\ UNCHANGED stdout /\ ~shut
    BY <1>2, <1>4 DEF Data!Comes
  <2>2. outward # <<"hello">>
    BY <2>1, OneFrame
  <2>3. ~Starting /\ ~Asking /\ ~Joining
    BY <2>1, <2>2 DEF Starting, Asking, Joining, Alone
  <2>4. outward \in Seq(Gives) => outward' \in Seq(Gives)
    BY <2>1, FirstFrame
  <2>5. CASE Serving
    <3>1. Serving'
      BY <1>1, <1>2, <2>1, <2>4, <2>5 DEF Serving, Alone, ByStdio, Taking, Cast, Quiet
    <3> QED
      BY <1>1, <1>2, <3>1 DEF ChannelInv
  <2>6. CASE Moving
    <3>1. ASSUME NEW s \in Seq(Gives), outward = Append(s, "moving")
          PROVE  \E r \in Seq(Gives) : outward' = Append(r, "moving")
      <4>1. Head(Append(s, "moving")) # "moving" /\ outward' = Tail(Append(s, "moving"))
        BY <2>1, <3>1
      <4>2. \E r \in Seq(Gives) : Tail(Append(s, "moving")) = Append(r, "moving")
        BY <3>1, <4>1, LastGiven
      <4> QED
        BY <4>1, <4>2
    <3>2. Moving'
      BY <1>1, <1>2, <2>1, <2>4, <2>6, <3>1 DEF Moving, Alone, ByStdio, Taking, Cast, Quiet
    <3> QED
      BY <1>1, <1>2, <3>2 DEF ChannelInv
  <2>7. CASE Leaving
    BY <1>1, <1>2, <2>1, <2>7 DEF ChannelInv, Leaving, Quiet
  <2> QED
    BY <1>1, <2>3, <2>5, <2>6, <2>7
<1> QED
  BY <1>3, <1>4

\* The stub reads the source.
LEMMA StubKeeps ==
  ASSUME ChannelInv, Data!StubReads
  PROVE  ChannelInv'
<1>1. /\ sandbox = "stub" /\ stdin # <<>> /\ stdin' = Tail(stdin) /\ sandbox' \in {"reads", "gone"}
      /\ UNCHANGED <<main, conn, opened, lane, shut, lease, on, inward>>
  BY DEF Data!StubReads, Data!clientVars, Data!renewVars
<1>2. main = "hello" /\ Starting /\ opened \in Nat /\ lane \in [Sockets -> {"none", "open", "failed"}] /\ lease # "picked"
  BY <1>1 DEF ChannelInv, Starting, Asking, Joining, Serving, Moving, Leaving, ByStdio, Taking, Cast, Quiet
<1>3. stdin = <<"source">> /\ stdout = <<>> /\ conn = 0 /\ Alone
  BY <1>1, <1>2 DEF Starting, ByStdio
<1>4. stdin' = <<>> /\ ByStdio' /\ stdout' = <<"hello">>
  BY <1>1, <1>3, OneFrame DEF Data!StubReads, ByStdio
<1>5. Starting'
  BY <1>1, <1>2, <1>3, <1>4 DEF Starting, Alone
<1> QED
  BY <1>1, <1>2, <1>5 DEF ChannelInv

\* What a worker reads, and in which phase.
LEMMA ReadsIn ==
  ASSUME ChannelInv, Data!Reading
  PROVE  \/ Asking /\ ByStdio /\ stdin = <<"listen">> /\ stdout = <<>>
         \/ Serving /\ conn = 0 /\ ByStdio /\ Alone /\ stdin \in Seq(Asks) /\ stdout \in Seq(Gives)
         \/ Moving /\ conn = 0 /\ ByStdio /\ Alone /\ stdout \in Seq(Gives) /\ \E s \in Seq(Asks) : stdin = Append(s, "reexec")
         \/ /\ Serving /\ conn # 0 /\ conn = opened /\ opened > 0 /\ ~shut /\ ~dropped /\ Quiet /\ source = conn
            /\ inward \in Seq(Asks) /\ outward \in Seq(Gives)
         \/ /\ Moving /\ conn # 0 /\ conn = opened /\ opened > 0 /\ ~shut /\ ~dropped /\ Quiet /\ source = conn
            /\ outward \in Seq(Gives) /\ \E s \in Seq(Asks) : inward = Append(s, "reexec")
<1>1. sandbox = "reads" /\ opened \in Nat /\ (source = 0 => stdin # <<>>) /\ (source # 0 => inward # <<>>)
  BY DEF Data!Reading, Data!Frame, ChannelInv
<1>2. CASE Starting
  BY <1>1, <1>2 DEF Starting, ByStdio, Alone, Quiet
<1>3. CASE Asking
  BY <1>1, <1>3 DEF Asking, ByStdio, Taking
<1>4. CASE Joining
  BY <1>1, <1>4 DEF Joining, ByStdio, Taking, Quiet
<1>5. CASE Serving
  BY <1>1, <1>5 DEF Serving, ByStdio, Taking, Cast, Alone, Quiet
<1>6. CASE Moving
  BY <1>1, <1>6 DEF Moving, ByStdio, Taking, Cast, Alone, Quiet
<1>7. CASE Leaving
  BY <1>1, <1>7 DEF Leaving
<1> QED
  BY <1>1, <1>2, <1>3, <1>4, <1>5, <1>6, <1>7 DEF ChannelInv

\* The worker becomes the stub of another interpreter.
LEMMA ExecsKeeps ==
  ASSUME ChannelInv, Data!Execs
  PROVE  ChannelInv'
<1>1. /\ Data!Reading /\ Head(Data!Frame) = "reexec" /\ Data!Consumes /\ Data!Reply("moving")
      /\ sandbox' = "stub" /\ UNCHANGED <<main, conn, opened, lane, shut, lease, on>>
  BY DEF Data!Execs, Data!clientVars, Data!renewVars
<1>2. opened \in Nat /\ lane \in [Sockets -> {"none", "open", "failed"}] /\ sandbox # "gone"
  BY <1>1 DEF ChannelInv, Data!Reading
<1>3. \A s \in Seq(Asks) : s # <<>> => Head(s) # "reexec"
  BY FirstFrame DEF Asks
<1>4. CASE source = 0
  <2>1. stdin # <<>> /\ Head(stdin) = "reexec" /\ stdin' = Tail(stdin) /\ stdout' = Append(stdout, "moving") /\ UNCHANGED inward
    BY <1>1, <1>4 DEF Data!Reading, Data!Frame, Data!Consumes, Data!Reply
  <2>2. Moving /\ conn = 0 /\ Alone /\ stdout \in Seq(Gives) /\ \E s \in Seq(Asks) : stdin = Append(s, "reexec")
    BY <1>1, <1>3, <1>4, <2>1, ReadsIn, OneFrame
  <2>3. stdin' = <<>>
    BY <2>1, <2>2, LastAsked
  <2>4. \E s \in Seq(Gives) : stdout' = Append(s, "moving")
    BY <2>1, <2>2
  <2>5. Moving'
    BY <1>1, <2>1, <2>2, <2>3, <2>4 DEF Moving, Alone
  <2>6. main = "moves"
    BY <2>2 DEF Moving
  <2>7. lease # "picked"
    BY <1>2, <2>6, PhaseOf
  <2> QED
    BY <1>1, <1>2, <2>5, <2>7 DEF ChannelInv
<1>5. CASE source # 0
  <2>1. inward # <<>> /\ Head(inward) = "reexec" /\ inward' = Tail(inward) /\ outward' = Append(outward, "moving") /\ UNCHANGED <<stdin, stdout>>
    BY <1>1, <1>5 DEF Data!Reading, Data!Frame, Data!Consumes, Data!Reply
  <2>2. /\ Moving /\ conn # 0 /\ conn = opened /\ opened > 0 /\ ~shut /\ Quiet /\ outward \in Seq(Gives)
        /\ \E s \in Seq(Asks) : inward = Append(s, "reexec")
    BY <1>1, <1>3, <1>5, <2>1, ReadsIn DEF ByStdio
  <2>3. inward' = <<>>
    BY <2>1, <2>2, LastAsked
  <2>4. \E s \in Seq(Gives) : outward' = Append(s, "moving")
    BY <2>1, <2>2
  <2>5. Moving'
    BY <1>1, <2>1, <2>2, <2>3, <2>4 DEF Moving, Quiet
  <2>6. main = "moves"
    BY <2>2 DEF Moving
  <2>7. lease # "picked"
    BY <1>2, <2>6, PhaseOf
  <2> QED
    BY <1>1, <1>2, <2>5, <2>7 DEF ChannelInv
<1> QED
  BY <1>4, <1>5

\* The worker answers a request.
LEMMA ServesKeeps ==
  ASSUME ChannelInv, NEW ask \in Asks, NEW answer \in Gives, Data!Serves(ask, answer)
  PROVE  ChannelInv'
<1>1. /\ Data!Reading /\ Head(Data!Frame) = ask /\ Data!Consumes /\ Data!Reply(answer)
      /\ UNCHANGED <<main, conn, opened, lane, shut, lease, on, sandbox, source, known, dropped>>
  BY DEF Data!Serves, Data!clientVars, Data!renewVars, Data!workerVars
<1>2. /\ opened \in Nat /\ lane \in [Sockets -> {"none", "open", "failed"}] /\ sandbox # "gone"
      /\ lease = "picked" => main \in {"ready", "called"} /\ on = conn
  BY <1>1 DEF ChannelInv, Data!Reading
<1>3. \A s \in Seq(Asks) : s # <<>> => Tail(s) \in Seq(Asks)
  BY FirstFrame
<1>4. \A s \in Seq(Gives) : Append(s, answer) \in Seq(Gives)
  BY AppendProperties
<1>5. ask # "reexec" /\ ask # "listen"
  BY DEF Asks
<1>6. ASSUME NEW s \in Seq(Asks), Append(s, "reexec") # <<>>, Head(Append(s, "reexec")) = ask
      PROVE  \E r \in Seq(Asks) : Tail(Append(s, "reexec")) = Append(r, "reexec")
  BY <1>5, <1>6, LastAsked
<1>7. CASE source = 0
  <2>1. stdin # <<>> /\ Head(stdin) = ask /\ stdin' = Tail(stdin) /\ stdout' = Append(stdout, answer) /\ UNCHANGED inward
    BY <1>1, <1>7 DEF Data!Reading, Data!Frame, Data!Consumes, Data!Reply
  <2>2. CASE Serving /\ conn = 0 /\ ByStdio /\ Alone /\ stdin \in Seq(Asks) /\ stdout \in Seq(Gives)
    <3>1. Serving'
      BY <1>1, <1>3, <1>4, <2>1, <2>2 DEF Serving, Alone, ByStdio
    <3> QED
      BY <1>1, <1>2, <3>1 DEF ChannelInv
  <2>3. CASE Moving /\ conn = 0 /\ ByStdio /\ Alone /\ stdout \in Seq(Gives) /\ \E s \in Seq(Asks) : stdin = Append(s, "reexec")
    <3>1. \E r \in Seq(Asks) : stdin' = Append(r, "reexec")
      BY <1>6, <2>1, <2>3
    <3>2. Moving'
      BY <1>1, <1>4, <2>1, <2>3, <3>1 DEF Moving, Alone, ByStdio
    <3> QED
      BY <1>1, <1>2, <3>2 DEF ChannelInv
  <2> QED
    BY <1>1, <1>2, <1>5, <1>7, <2>1, <2>2, <2>3, ReadsIn, OneFrame
<1>8. CASE source # 0
  <2>1. inward # <<>> /\ Head(inward) = ask /\ inward' = Tail(inward) /\ outward' = Append(outward, answer) /\ UNCHANGED <<stdin, stdout>>
    BY <1>1, <1>8 DEF Data!Reading, Data!Frame, Data!Consumes, Data!Reply
  <2>2. CASE /\ Serving /\ conn # 0 /\ conn = opened /\ opened > 0 /\ ~shut /\ ~dropped /\ Quiet /\ source = conn
             /\ inward \in Seq(Asks) /\ outward \in Seq(Gives)
    <3>1. Serving'
      BY <1>1, <1>3, <1>4, <2>1, <2>2 DEF Serving, Quiet, Data!Reading
    <3> QED
      BY <1>1, <1>2, <3>1 DEF ChannelInv
  <2>3. CASE /\ Moving /\ conn # 0 /\ conn = opened /\ opened > 0 /\ ~shut /\ ~dropped /\ Quiet /\ source = conn
             /\ outward \in Seq(Gives) /\ \E s \in Seq(Asks) : inward = Append(s, "reexec")
    <3>1. \E r \in Seq(Asks) : inward' = Append(r, "reexec")
      BY <1>6, <2>1, <2>3
    <3>2. Moving'
      BY <1>1, <1>4, <2>1, <2>3, <3>1 DEF Moving, Quiet, Data!Reading
    <3> QED
      BY <1>1, <1>2, <3>2 DEF ChannelInv
  <2> QED
    BY <1>1, <1>8, <2>2, <2>3, ReadsIn DEF ByStdio
<1> QED
  BY <1>7, <1>8

\* The worker waits for lanes, or refuses.
LEMMA ListensKeeps ==
  ASSUME ChannelInv, Data!Listens
  PROVE  ChannelInv'
<1>1. /\ Data!Reading /\ Head(Data!Frame) = "listen" /\ Data!Consumes
      /\ UNCHANGED <<main, conn, opened, lane, shut, lease, on, source>>
  BY DEF Data!Listens, Data!clientVars, Data!renewVars
<1>2. \A s \in Seq(Asks) : s # <<>> => Head(s) # "listen"
  BY FirstFrame DEF Asks
<1>3. \A s \in Seq(Asks) : Head(Append(s, "reexec")) # "listen"
  BY HeadTailAppend, <1>2
<1>4. Asking /\ ByStdio /\ stdin = <<"listen">> /\ stdout = <<>>
  BY <1>1, <1>2, <1>3, ReadsIn DEF Data!Reading, Data!Frame, ByStdio
<1>5. stdin' = <<>> /\ UNCHANGED inward
  BY <1>1, <1>4, OneFrame DEF Data!Consumes, ByStdio
<1>6. \/ stdout' = <<"refused">> /\ UNCHANGED <<outward, sandbox>>
      \/ stdout' = <<"listening">> /\ sandbox' = "listens" /\ known' = {} /\ ~dropped' /\ UNCHANGED outward
  BY <1>4, OneFrame DEF Data!Listens, Data!Reply, ByStdio
<1>7. main = "asked" /\ conn = 0 /\ opened > 0 /\ inward = <<>> /\ outward = <<>> /\ ~shut /\ \A l \in Sockets : lane[l] = "none"
  BY <1>4 DEF Asking
<1>8. (ByStdio /\ stdout \in {<<"refused">>, <<"listening">>})' \/ (Taking /\ stdout = <<"listening">> /\ ~dropped)'
  BY <1>1, <1>4, <1>6, <1>7 DEF ByStdio, Taking
<1>9. Asking'
  BY <1>1, <1>5, <1>6, <1>7, <1>8 DEF Asking
<1>10. opened \in Nat /\ lane \in [Sockets -> {"none", "open", "failed"}] /\ lease # "picked"
  BY <1>4, <1>7, PhaseOf DEF ByStdio
<1> QED
  BY <1>1, <1>9, <1>10 DEF ChannelInv

\* A worker that waits for lanes.
LEMMA ListensIn ==
  ASSUME ChannelInv, sandbox = "listens"
  PROVE  /\ Taking /\ opened \in Nat /\ lane \in [Sockets -> {"none", "open", "failed"}]
         /\ lease = "picked" => main \in {"ready", "called"} /\ on = conn
         /\ \/ Asking /\ ~shut /\ stdin = <<>> /\ stdout = <<"listening">>
            \/ Joining /\ ~shut /\ outward = <<>>
            \/ Serving /\ conn = 0 /\ Alone /\ stdin \in Seq(Asks) /\ stdout \in Seq(Gives)
            \/ Moving /\ conn = 0 /\ Alone /\ stdout \in Seq(Gives) /\ \E s \in Seq(Asks) : stdin = Append(s, "reexec")
  BY DEF ChannelInv, Starting, Asking, Joining, Serving, Moving, Leaving, ByStdio, Cast

\* The worker takes the lanes, or gives up.
LEMMA TakingKeeps ==
  ASSUME Sockets # {}, ChannelInv, Data!ListenReturns \/ Data!Adopts \/ \E l \in Sockets : Data!Accepts(l)
  PROVE  ChannelInv'
<1>1. sandbox = "listens" /\ UNCHANGED <<main, conn, opened, lane, shut, lease, on, stdin, stdout, inward>>
  BY DEF Data!ListenReturns, Data!Adopts, Data!Accepts, Data!clientVars, Data!renewVars
<1>2. /\ Taking /\ opened \in Nat /\ lane \in [Sockets -> {"none", "open", "failed"}]
      /\ lease = "picked" => main \in {"ready", "called"} /\ on = conn
  BY <1>1, ListensIn
<1>3. ASSUME Taking', sandbox' = "listens", UNCHANGED <<outward, dropped>>
      PROVE  ChannelInv'
  <2>1. (Asking \/ Joining \/ Serving \/ Moving)'
    BY <1>1, <1>2, <1>3, ListensIn DEF Asking, Joining, Serving, Moving, Alone, Quiet, ByStdio, Cast
  <2> QED
    BY <1>1, <1>2, <2>1 DEF ChannelInv
<1>4. ASSUME ByStdio', UNCHANGED outward
      PROVE  ChannelInv'
  <2>1. (Asking \/ Joining \/ Serving \/ Moving)'
    BY <1>1, <1>2, <1>4, ListensIn DEF Asking, Joining, Serving, Moving, Alone, Quiet, Taking, ByStdio, Cast
  <2> QED
    BY <1>1, <1>2, <2>1 DEF ChannelInv
<1>5. CASE Data!ListenReturns
  BY <1>2, <1>4, <1>5 DEF Data!ListenReturns, Taking, ByStdio
<1>6. ASSUME NEW l \in Sockets, Data!Accepts(l)
      PROVE  ChannelInv'
  <2>1. Taking'
    BY <1>1, <1>2, <1>6 DEF Data!Accepts, Taking
  <2> QED
    BY <1>1, <1>3, <1>6, <2>1 DEF Data!Accepts
<1>7. CASE Data!Adopts
  <2>1. known = Sockets /\ known \subseteq {l \in Sockets : lane[l] = "open"} /\ opened > 0 /\ UNCHANGED dropped
    BY <1>2, <1>7 DEF Data!Adopts, Taking
  <2>2. ~Asking
    BY <2>1 DEF Asking
  <2>3. \/ sandbox' = "reads" /\ source' = opened /\ outward' = Append(outward, "hello")
        \/ shut /\ sandbox' = "deaf"
    BY <1>7 DEF Data!Adopts
  <2>4. CASE Joining /\ ~shut /\ outward = <<>>
    <3>1. outward' = <<"hello">> /\ ~dropped
      BY <1>1, <2>3, <2>4, OneFrame DEF Joining, ByStdio, Taking
    <3>2. Joining'
      BY <1>1, <2>1, <2>3, <2>4, <3>1 DEF Joining, Quiet
    <3> QED
      BY <1>1, <1>2, <3>2 DEF ChannelInv
  <2>5. ASSUME Alone PROVE Cast'
    BY <1>1, <2>1, <2>3, <2>5 DEF Alone, Cast
  <2>6. CASE Serving /\ conn = 0 /\ Alone /\ stdin \in Seq(Asks) /\ stdout \in Seq(Gives)
    <3>1. Serving'
      BY <1>1, <2>5, <2>6 DEF Serving, Alone
    <3> QED
      BY <1>1, <1>2, <3>1 DEF ChannelInv
  <2>7. CASE Moving /\ conn = 0 /\ Alone /\ stdout \in Seq(Gives) /\ \E s \in Seq(Asks) : stdin = Append(s, "reexec")
    <3>1. Moving'
      BY <1>1, <2>5, <2>7 DEF Moving, Alone
    <3> QED
      BY <1>1, <1>2, <3>1 DEF ChannelInv
  <2> QED
    BY <1>1, <2>2, <2>4, <2>6, <2>7, ListensIn
<1> QED
  BY <1>5, <1>6, <1>7

\* Before the source is read.
LEMMA ChannelBegins == Data!ChannelInit => ChannelInv
  BY DEF Data!ChannelInit, Data!NoLanes, ChannelInv, Starting, Alone

\* Every step of either side keeps the two in the same phase.
LEMMA ChannelStep ==
  ASSUME Sockets # {}, Apart, ChannelInv, Data!ChannelNext \/ UNCHANGED dataVars
  PROVE  ChannelInv'
<1>1. CASE UNCHANGED dataVars
  BY <1>1 DEF dataVars, ChannelInv, Starting, Asking, Joining, Serving, Moving, Leaving, ByStdio, Taking, Cast, Alone, Quiet
<1>2. CASE sandbox = "gone" /\ Data!ChannelNext
  <2>1. sandbox' = "gone"
    BY <1>2 DEF Data!ChannelNext, Data!MainSteps, Data!StdioHello, Data!Listen, Data!Answered, Data!ListenRefused,
          Data!LaneOpens, Data!TunnelFails, Data!LaneFailed, Data!DataHello, Data!NoHello, Data!Move, Data!Moved,
          Data!Leaves, Data!SendsSource, Data!Call, Data!Returns, Data!MainTimesOut, Data!MainLoses, Data!Picks,
          Data!Renews, Data!Renewed, Data!RenewalFails, Data!RenewalTimesOut, Data!StubReads, Data!Execs, Data!Listens,
          Data!ListenReturns, Data!Accepts, Data!Adopts, Data!ReadsEnd, Data!Serves, Data!Reading, Data!Kill,
          Data!workerVars
  <2> QED
    BY <2>1 DEF ChannelInv
<1>3. CASE sandbox # "gone" /\ Data!ChannelNext
  <2>1. CASE Data!MainSteps
    BY <1>3, <2>1, StdioHelloKeeps, ListenKeeps, AnsweredKeeps, OpeningFails, LaneOpensKeeps, DataHelloKeeps, MovedKeeps,
       LeavesKeeps, ReturnsKeeps, KilledKeeps, NotLost DEF Data!MainSteps
  <2>2. CASE Data!Move \/ Data!Call \/ Data!Picks \/ Data!Renews \/ Data!Renewed \/ Data!RenewalFails \/ Data!RenewalTimesOut
    BY <1>3, <2>2, MoveKeeps, CallKeeps, RenewalKeeps, RenewedKeeps, KilledKeeps
  <2>3. CASE \/ Data!StubReads \/ Data!Execs \/ Data!Listens \/ Data!ListenReturns \/ Data!Adopts \/ Data!ReadsEnd
             \/ \E l \in Sockets : Data!Accepts(l)
    BY <1>3, <2>3, StubKeeps, ExecsKeeps, ListensKeeps, TakingKeeps, KilledKeeps
  <2>4. CASE Data!Serves("call", "returned") \/ Data!Serves("lease", "renewed")
    BY <2>4, ServesKeeps DEF Asks, Gives
  <2> QED
    BY <1>3, <2>1, <2>2, <2>3, <2>4 DEF Data!ChannelNext
<1> QED
  BY <1>1, <1>2, <1>3

\* Sides in the same phase agree where the frames go.
LEMMA ChannelsAgreeHold ==
  ASSUME ChannelInv
  PROVE  Data!ChannelsAgree
<1>1. CASE sandbox = "gone"
  BY <1>1 DEF Data!ChannelsAgree
<1>2. CASE sandbox # "gone"
  <2>1. main = "ready" => \/ (sandbox = "listens" /\ conn = 0) \/ (sandbox = "reads" /\ source = conn)
                          \/ shut /\ (sandbox = "deaf" \/ (sandbox = "reads" /\ source > 0))
    <3>1. main = "ready" => Serving
      BY <1>2, PhaseOf
    <3> QED
      BY <3>1 DEF Serving, ByStdio, Taking, Cast
  <2>2. sandbox = "stub" /\ stdin # <<>> => stdin = <<"source">>
    BY <1>2 DEF ChannelInv, Starting, Asking, Joining, Serving, Moving, Leaving, ByStdio, Taking, Cast, Quiet
  <2> QED
    BY <2>1, <2>2, OneFrame DEF Data!ChannelsAgree
<1> QED
  BY <1>1, <1>2

-----------------------------------------------------------------------------
(* Sums over finite sets. *)

\* A set of numbers has a least one.
LEMMA LeastNat ==
  ASSUME NEW T, T \subseteq Nat, T # {}
  PROVE  \E x \in T : \A y \in T : x <= y
<1> DEFINE R == StrictSubsetOrdering(Nat)
           U == {0 .. x - 1 : x \in T}
<1>1. IsWellFoundedOn(R, FiniteSubsetsOf(Nat))
  BY FS_StrictSubsetOrderingWellFounded
<1>2. U \subseteq FiniteSubsetsOf(Nat) /\ U # {}
  <2>1. \A x \in T : IsFiniteSet(0 .. x - 1) /\ 0 .. x - 1 \subseteq Nat
    BY FS_Interval
  <2> QED BY <2>1 DEF FiniteSubsetsOf
<1> HIDE DEF R
<1>3. PICK u \in U : \A v \in U : ~(<<v, u>> \in R)
  BY <1>1, <1>2, WFMin
<1>4. PICK x \in T : u = 0 .. x - 1
  BY <1>3
<1>5. ASSUME NEW y \in T, ~(x <= y)
      PROVE FALSE
  <2>1. 0 .. y - 1 \in U BY <1>5
  <2>2. <<0 .. y - 1, u>> \notin R BY <1>3, <2>1
  <2>3. 0 .. y - 1 \subseteq u /\ 0 .. y - 1 # u /\ u \subseteq Nat
    <3>1. y \in Nat /\ x \in Nat /\ y < x BY <1>5
    <3>2. y \in u /\ y \notin 0 .. y - 1 BY <3>1, <1>4
    <3> QED BY <3>1, <3>2, <1>4
  <2> QED BY <2>2, <2>3 DEF R, StrictSubsetOrdering
<1> QED
  BY <1>5

\* A set of finite sets has a smallest one.
LEMMA Smallest ==
  ASSUME NEW Odd, Odd # {}, \A u \in Odd : IsFiniteSet(u)
  PROVE  \E u \in Odd : \A v \in Odd : Cardinality(u) <= Cardinality(v)
<1> DEFINE C == {Cardinality(u) : u \in Odd}
<1>1. C \subseteq Nat /\ C # {}
  BY FS_CardinalityType
<1>2. PICK n \in C : \A m \in C : n <= m
  <2> HIDE DEF C
  <2> QED
    BY <1>1, LeastNat
<1> QED
  BY <1>2

\* The sum over a set as the fold of the community modules computes it: member by member.
Pick(s) == CHOOSE x \in s : TRUE
Sums(g, S) == g = [s \in SUBSET S |-> IF s = {} THEN 0 ELSE Pick(s).size + g[s \ {Pick(s)}]]
Total(S) == (CHOOSE g : Sums(g, S))[S]
Sized(S) == IsFiniteSet(S) /\ \A x \in S : x.size \in Nat

\* The bytes of a set of segments are such a sum.
LEMMA SizeIs == \A S : Striped!Size(S) = Total(S)
  BY DEF Striped!Size, Striped!MapThenSumSet, Striped!MapThenFoldSet, Pick, Sums, Total

\* What is left of a set without the member picked.
LEMMA Unpicked ==
  ASSUME NEW u, IsFiniteSet(u), u # {}
  PROVE  /\ Pick(u) \in u /\ IsFiniteSet(u \ {Pick(u)})
         /\ Cardinality(u \ {Pick(u)}) = Cardinality(u) - 1 /\ Cardinality(u) \in Nat /\ Cardinality(u) > 0
<1>1. Pick(u) \in u
  BY DEF Pick
<1> QED
  BY <1>1, FS_RemoveElement, FS_CardinalityType, FS_EmptySet

\* Two such functions agree where both say something: else there were a smallest set on which they do not.
LEMMA SumsAgree ==
  ASSUME NEW S, NEW T, NEW g, NEW h, Sums(g, S), Sums(h, T)
  PROVE  \A u \in SUBSET (S \cap T) : IsFiniteSet(u) => g[u] = h[u]
<1> DEFINE Odd == {u \in SUBSET (S \cap T) : IsFiniteSet(u) /\ g[u] # h[u]}
<1>1. SUFFICES ASSUME Odd # {} PROVE FALSE
  OBVIOUS
<1>3. PICK u \in Odd : \A v \in Odd : Cardinality(u) <= Cardinality(v)
  <2> HIDE DEF Odd
  <2>1. \A u \in Odd : IsFiniteSet(u)
    BY DEF Odd
  <2> QED
    BY <1>1, <2>1, Smallest
<1>4. g[{}] = 0 /\ h[{}] = 0
  BY DEF Sums
<1>5. u # {} /\ IsFiniteSet(u) /\ u \in SUBSET S /\ u \in SUBSET T
  BY <1>3, <1>4
<1>6. g[u] = Pick(u).size + g[u \ {Pick(u)}] /\ h[u] = Pick(u).size + h[u \ {Pick(u)}]
  BY <1>5 DEF Sums
<1>7. u \ {Pick(u)} \in Odd
  BY <1>3, <1>5, <1>6, Unpicked
<1> QED
  BY <1>3, <1>5, <1>7, Unpicked

\* There is such a function on every finite set: else there were a smallest set without one.
LEMMA SumsExist ==
  ASSUME NEW S, IsFiniteSet(S)
  PROVE  \E g : Sums(g, S)
<1> DEFINE Odd == {u \in SUBSET S : ~\E g : Sums(g, u)}
<1>1. SUFFICES ASSUME Odd # {} PROVE FALSE
  OBVIOUS
<1>2. \A u \in Odd : IsFiniteSet(u)
  BY FS_Subset
<1>3. PICK u \in Odd : \A v \in Odd : Cardinality(u) <= Cardinality(v)
  <2> HIDE DEF Odd
  <2> QED
    BY <1>1, <1>2, Smallest
<1> DEFINE Of(s) == CHOOSE g : Sums(g, s)
           g == [s \in SUBSET u |-> IF s = {} THEN 0 ELSE Pick(s).size + Of(s \ {Pick(s)})[s \ {Pick(s)}]]
<1>4. \A s \in SUBSET u : s # u => Sums(Of(s), s) /\ IsFiniteSet(s)
  <2> SUFFICES ASSUME NEW s \in SUBSET u, s # u PROVE Sums(Of(s), s) /\ IsFiniteSet(s)
    OBVIOUS
  <2>1. IsFiniteSet(s) /\ Cardinality(s) < Cardinality(u)
    BY <1>2, <1>3, FS_Subset, FS_CardinalityType
  <2>2. s \notin Odd
    BY <1>3, <2>1, <1>2, FS_CardinalityType
  <2>3. \E k : Sums(k, s)
    BY <2>2
  <2> QED
    BY <2>1, <2>3
<1>5. \A s \in SUBSET u : s # {} => s \ {Pick(s)} \in SUBSET u /\ s \ {Pick(s)} # u /\ Pick(s) \in s
  BY DEF Pick
<1> HIDE DEF Of
<1>6. \A s \in SUBSET u : s # u => g[s] = Of(s)[s]
  <2> SUFFICES ASSUME NEW s \in SUBSET u, s # u PROVE g[s] = Of(s)[s]
    OBVIOUS
  <2>1. Sums(Of(s), s) /\ IsFiniteSet(s)
    BY <1>4
  <2>2. CASE s = {}
    BY <2>1, <2>2 DEF Sums
  <2>3. CASE s # {}
    <3> DEFINE t == s \ {Pick(s)}
    <3>1. Sums(Of(t), t) /\ IsFiniteSet(t) /\ t \subseteq s
      BY <1>4, <1>5, <2>3
    <3>2. Of(s)[s] = Pick(s).size + Of(s)[t]
      BY <2>1, <2>3 DEF Sums
    <3>3. Of(s)[t] = Of(t)[t]
      BY <2>1, <3>1, SumsAgree
    <3> QED
      BY <2>3, <3>2, <3>3
  <2> QED
    BY <2>2, <2>3
<1>7. Sums(g, u)
  <2>1. \A s \in SUBSET u : s # {} => g[s \ {Pick(s)}] = Of(s \ {Pick(s)})[s \ {Pick(s)}]
    BY <1>5, <1>6
  <2> QED
    BY <2>1 DEF Sums
<1> QED
  BY <1>3, <1>7

\* The sum, by the member picked.
LEMMA TotalOf ==
  /\ Total({}) = 0
  /\ \A S : IsFiniteSet(S) /\ S # {} => Total(S) = Pick(S).size + Total(S \ {Pick(S)})
<1> DEFINE Of(s) == CHOOSE g : Sums(g, s)
<1>1. \A S : IsFiniteSet(S) => Sums(Of(S), S)
  BY SumsExist
<1>2. \A S : Total(S) = Of(S)[S]
  BY DEF Total
<1> HIDE DEF Of
<1>3. Total({}) = 0
  BY <1>1, <1>2, FS_EmptySet DEF Sums
<1>4. ASSUME NEW S, IsFiniteSet(S), S # {}
      PROVE  Total(S) = Pick(S).size + Total(S \ {Pick(S)})
  <2> DEFINE t == S \ {Pick(S)}
  <2>1. Sums(Of(S), S) /\ Sums(Of(t), t) /\ IsFiniteSet(t)
    BY <1>1, <1>4, Unpicked
  <2>2. Of(S)[S] = Pick(S).size + Of(S)[t]
    BY <1>4, <2>1 DEF Sums
  <2>3. Of(S)[t] = Of(t)[t]
    BY <2>1, SumsAgree
  <2> QED
    BY <1>2, <2>2, <2>3
<1> QED
  BY <1>3, <1>4

\* The sum of numbers is a number.
LEMMA TotalNat ==
  ASSUME NEW S, Sized(S)
  PROVE  Total(S) \in Nat
<1> DEFINE Odd == {u \in SUBSET S : Total(u) \notin Nat}
<1>1. SUFFICES ASSUME Odd # {} PROVE FALSE
  OBVIOUS
<1>2. \A u \in Odd : IsFiniteSet(u)
  BY FS_Subset DEF Sized
<1>3. PICK u \in Odd : \A v \in Odd : Cardinality(u) <= Cardinality(v)
  <2> HIDE DEF Odd
  <2> QED
    BY <1>1, <1>2, Smallest
<1>4. u # {} /\ IsFiniteSet(u)
  <2>1. Total(u) \notin Nat
    BY <1>3
  <2> QED
    BY <1>2, <1>3, <2>1, TotalOf
<1>5. Total(u) = Pick(u).size + Total(u \ {Pick(u)}) /\ Pick(u) \in S
  BY <1>3, <1>4, TotalOf, Unpicked
<1>6. u \ {Pick(u)} \in Odd
  BY <1>3, <1>5 DEF Sized
<1>7. Cardinality(u) <= Cardinality(u \ {Pick(u)})
  BY <1>3, <1>6
<1> QED
  BY <1>4, <1>7, Unpicked

\* The sum of a set is what one of its members adds to the sum of the others.
LEMMA TotalWithout ==
  ASSUME NEW S, Sized(S)
  PROVE  \A x \in S : Total(S) = x.size + Total(S \ {x})
<1> DEFINE Odd == {u \in SUBSET S : \E x \in u : Total(u) # x.size + Total(u \ {x})}
<1>1. SUFFICES ASSUME Odd # {} PROVE FALSE
  OBVIOUS
<1>2. \A u \in Odd : IsFiniteSet(u)
  BY FS_Subset DEF Sized
<1>3. PICK u \in Odd : \A v \in Odd : Cardinality(u) <= Cardinality(v)
  <2> HIDE DEF Odd
  <2> QED
    BY <1>1, <1>2, Smallest
<1>4. PICK x \in u : Total(u) # x.size + Total(u \ {x})
  BY <1>3
<1> DEFINE c == Pick(u)
<1>5. c \in u /\ IsFiniteSet(u) /\ Total(u) = c.size + Total(u \ {c}) /\ x # c
  BY <1>2, <1>3, <1>4, TotalOf, Unpicked
<1>6. \A y \in u : u \ {y} \in SUBSET S /\ u \ {y} \notin Odd
  <2> SUFFICES ASSUME NEW y \in u PROVE u \ {y} \in SUBSET S /\ u \ {y} \notin Odd
    OBVIOUS
  <2>1. Cardinality(u \ {y}) < Cardinality(u)
    <3>1. Cardinality(u \ {y}) = Cardinality(u) - 1 /\ Cardinality(u) \in Nat
      BY <1>5, FS_RemoveElement, FS_CardinalityType
    <3> QED
      BY <3>1
  <2>2. ~(Cardinality(u) <= Cardinality(u \ {y}))
    BY <2>1, <1>5, FS_CardinalityType, FS_RemoveElement
  <2> QED
    BY <1>3, <2>2
<1> HIDE DEF c
<1>7. Total(u \ {c}) = x.size + Total((u \ {c}) \ {x}) /\ Total(u \ {x}) = c.size + Total((u \ {x}) \ {c})
  BY <1>5, <1>6
<1>8. (u \ {c}) \ {x} = (u \ {x}) \ {c}
  OBVIOUS
<1>9. Sized((u \ {x}) \ {c}) /\ x.size \in Nat /\ c.size \in Nat
  BY <1>3, <1>5, FS_Subset DEF Sized
<1>10. Total((u \ {x}) \ {c}) \in Nat
  BY <1>9, TotalNat
<1>11. Total(u) = c.size + (x.size + Total((u \ {x}) \ {c})) /\ Total(u \ {x}) = c.size + Total((u \ {x}) \ {c})
  BY <1>5, <1>7, <1>8
<1> DEFINE r == Total((u \ {x}) \ {c})
<1>12. Total(u) = x.size + Total(u \ {x})
  <2> HIDE DEF r
  <2>1. r \in Nat /\ x.size \in Nat /\ c.size \in Nat
    BY <1>9, <1>10 DEF r
  <2>2. c.size + (x.size + r) = x.size + (c.size + r)
    BY <2>1
  <2> QED
    BY <1>11, <2>2 DEF r
<1> QED
  BY <1>4, <1>12

\* The bytes of a set are those of any one of its segments and of the rest.
LEMMA SizesAdd ==
  /\ Striped!Size({}) = 0
  /\ \A S : Sized(S) => Striped!Size(S) \in Nat /\ \A x \in S : Striped!Size(S) = x.size + Striped!Size(S \ {x})
  BY SizeIs, TotalOf, TotalNat, TotalWithout

-----------------------------------------------------------------------------
(* The lanes: shares and lengths. *)

\* The integer division of the share of a lane.
LEMMA Divides ==
  ASSUME NEW W \in Nat \ {0}, NEW n \in Nat
  PROVE  /\ n \div W \in Nat /\ W * (n \div W) <= n /\ n < W * (n \div W) + W
<1>1. n = W * (n \div W) + (n % W) /\ 0 <= n % W /\ n % W < W /\ n \div W >= 0 /\ n \div W \in Int
  BY Z3
<1> QED
  BY <1>1

\* The share of a lane: the lanes together hold the whole write, and a longer write has longer shares.
LEMMA Shares ==
  ASSUME NEW n \in Nat, Wires \in Nat \ {0}
  PROVE  /\ Striped!Step(n) \in Nat /\ n <= Wires * Striped!Step(n)
         /\ n > 0 => Striped!Step(n) > 0
         /\ \A m \in Nat : n <= m => Striped!Step(n) <= Striped!Step(m)
<1>1. \A k \in Nat : /\ Striped!Step(k) \in Nat /\ Wires * Striped!Step(k) <= k + Wires - 1
                     /\ k + Wires - 1 < Wires * Striped!Step(k) + Wires
  <2> SUFFICES ASSUME NEW k \in Nat
               PROVE  /\ Striped!Step(k) \in Nat /\ Wires * Striped!Step(k) <= k + Wires - 1
                      /\ k + Wires - 1 < Wires * Striped!Step(k) + Wires
    OBVIOUS
  <2>1. k + Wires - 1 \in Nat
    OBVIOUS
  <2> QED
    BY <2>1, Divides DEF Striped!Step
<1> DEFINE s == Striped!Step(n)
<1>2. s \in Nat /\ Wires * s <= n + Wires - 1 /\ n + Wires - 1 < Wires * s + Wires
  BY <1>1
<1> HIDE DEF s
<1>3. n <= Wires * s
  <2>1. Wires * s \in Nat
    BY <1>2
  <2> QED
    BY <1>2, <2>1
<1>4. n > 0 => s > 0
  <2>1. s = 0 => Wires * s = 0
    OBVIOUS
  <2> QED
    BY <1>2, <1>3, <2>1
<1>5. ASSUME NEW m \in Nat, n <= m PROVE s <= Striped!Step(m)
  <2> DEFINE t == Striped!Step(m)
  <2>1. t \in Nat /\ m + Wires - 1 < Wires * t + Wires
    BY <1>1
  <2> HIDE DEF t
  <2>2. ASSUME t + 1 <= s PROVE FALSE
    <3>1. Wires * (t + 1) <= Wires * s
      BY <1>2, <2>1, <2>2
    <3>2. Wires * (t + 1) = Wires * t + Wires
      BY <2>1
    <3>3. Wires * t \in Nat /\ Wires * s \in Nat
      BY <1>2, <2>1
    <3> QED
      BY <1>2, <1>5, <2>1, <3>1, <3>2, <3>3
  <2> QED
    BY <1>2, <2>1, <2>2 DEF t
<1> QED
  BY <1>2, <1>3, <1>4, <1>5 DEF s

\* The longest write.
LEMMA Greatest ==
  ASSUME NEW T, T \subseteq Nat, T # {}, NEW b \in Nat, \A x \in T : x <= b
  PROVE  Striped!Max(T) \in T /\ \A y \in T : y <= Striped!Max(T)
<1> DEFINE C == {c \in Nat : \A x \in T : x <= c}
<1>1. C \subseteq Nat /\ C # {}
  OBVIOUS
<1>2. PICK c \in C : \A d \in C : c <= d
  <2> HIDE DEF C
  <2> QED
    BY <1>1, LeastNat
<1>3. c \in T
  <2>1. ASSUME c \notin T PROVE FALSE
    <3>1. \A x \in T : x <= c - 1 /\ c - 1 \in Nat
      BY <1>2, <2>1
    <3>2. c - 1 \in C
      BY <3>1
    <3> QED
      BY <1>2, <3>2
  <2> QED
    BY <2>1
<1>4. \E x \in T : \A y \in T : x >= y
  BY <1>2, <1>3
<1>5. Striped!Max(T) = CHOOSE x \in T : \A y \in T : x >= y
  BY DEF Striped!Max
<1>6. Striped!Max(T) \in T /\ \A y \in T : Striped!Max(T) >= y
  BY <1>4, <1>5
<1> QED
  BY <1>6

\* A finite set of numbers has a bound.
LEMMA FiniteHasBound ==
  ASSUME NEW T, T \subseteq Nat, IsFiniteSet(T)
  PROVE  \E b \in Nat : \A x \in T : x <= b
<1> DEFINE Odd == {u \in SUBSET T : ~\E b \in Nat : \A x \in u : x <= b}
<1>1. SUFFICES ASSUME Odd # {} PROVE FALSE
  OBVIOUS
<1>2. \A u \in Odd : IsFiniteSet(u)
  BY FS_Subset
<1>3. PICK u \in Odd : \A v \in Odd : Cardinality(u) <= Cardinality(v)
  <2> HIDE DEF Odd
  <2> QED
    BY <1>1, <1>2, Smallest
<1>4. PICK y \in u : TRUE
  BY <1>3
<1>5. Cardinality(u \ {y}) = Cardinality(u) - 1 /\ Cardinality(u) \in Nat
  BY <1>2, <1>3, <1>4, FS_RemoveElement, FS_CardinalityType
<1>6. u \ {y} \notin Odd
  <2>1. ~(Cardinality(u) <= Cardinality(u \ {y}))
    BY <1>5
  <2> QED
    BY <1>3, <2>1
<1>7. PICK b \in Nat : \A x \in u \ {y} : x <= b
  BY <1>3, <1>6
<1>8. \A x \in u : x <= b + y
  BY <1>3, <1>4, <1>7
<1> QED
  BY <1>3, <1>4, <1>8

\* A sequence has finitely many members.
LEMMA SeqRangeFinite ==
  ASSUME NEW s, NEW E, s \in Seq(E)
  PROVE  IsFiniteSet({s[k] : k \in 1 .. Len(s)})
<1> DEFINE T == {s[k] : k \in 1 .. Len(s)}
<1>1. s \in [1 .. Len(s) -> T] /\ Len(s) \in Nat
  <2>1. DOMAIN s = 1 .. Len(s) /\ Len(s) \in Nat /\ s = [k \in 1 .. Len(s) |-> s[k]]
    OBVIOUS
  <2> QED
    BY <2>1
<1>2. s \in Surjection(1 .. Len(s), T)
  BY <1>1 DEF Surjection
<1>3. ExistsSurjection(1 .. Len(s), T)
  BY <1>2 DEF ExistsSurjection
<1> QED
  BY <1>1, <1>3, FS_NatSurjection

\* No segment is cut longer than Longest.
LEMMA LongestWrite ==
  ASSUME Lengths
  PROVE  /\ \A k \in 1 .. Len(WriteSizes) : Striped!Step(WriteSizes[k]) <= Striped!Longest
         /\ StripeMin <= Striped!Longest /\ Striped!Longest \in Nat
<1> DEFINE T == Striped!ToSet(WriteSizes)
           m == Striped!Max(T)
<1>1. T = {WriteSizes[k] : k \in DOMAIN WriteSizes} /\ DOMAIN WriteSizes = 1 .. Len(WriteSizes) /\ 1 \in DOMAIN WriteSizes
  BY DEF Striped!ToSet, Lengths
<1>3. IsFiniteSet(T)
  BY <1>1, SeqRangeFinite DEF Lengths
<1>4. T \subseteq Nat /\ T # {} /\ \A k \in 1 .. Len(WriteSizes) : WriteSizes[k] \in T
  BY <1>1 DEF Lengths
<1> HIDE DEF T
<1>5. \E b \in Nat : \A x \in T : x <= b
  BY <1>3, <1>4, FiniteHasBound
<1>6. m \in T /\ \A x \in T : x <= m
  BY <1>4, <1>5, Greatest
<1>7. m \in Nat /\ \A k \in 1 .. Len(WriteSizes) : WriteSizes[k] \in Nat /\ WriteSizes[k] <= m
  BY <1>4, <1>6
<1> HIDE DEF m
<1>8. /\ Striped!Step(m) \in Nat
      /\ \A k \in 1 .. Len(WriteSizes) : Striped!Step(WriteSizes[k]) \in Nat /\ Striped!Step(WriteSizes[k]) <= Striped!Step(m)
  BY <1>7, Shares DEF Lengths
<1> DEFINE P == {StripeMin, Striped!Step(m)}
<1>9. P \subseteq Nat /\ P # {} /\ StripeMin + Striped!Step(m) \in Nat /\ \A x \in P : x <= StripeMin + Striped!Step(m)
  BY <1>8 DEF Lengths
<1>10. StripeMin \in P /\ Striped!Step(m) \in P /\ Striped!Longest = Striped!Max(P)
  BY DEF Striped!Longest, m, T
<1> HIDE DEF P
<1>11. Striped!Max(P) \in P /\ \A y \in P : y <= Striped!Max(P)
  BY <1>9, Greatest
<1>12. Striped!Longest \in Nat /\ Striped!Step(m) <= Striped!Longest /\ StripeMin <= Striped!Longest
  BY <1>9, <1>10, <1>11
<1> QED
  BY <1>8, <1>12 DEF Lengths

-----------------------------------------------------------------------------
(* The lanes: a write cut into segments. *)

\* The two ends of each lane, and the segments they carry.
Ends == 0 .. Wires - 1
Segs == [at : Nat, size : Nat \ {0}]
\* None or one.
OneOf(S) == S = {} \/ \E p \in Segs : S = {p}

\* The lanes by their numbers.
LEMMA EndsAre == Striped!Ends = Ends
  BY DEF Ends, Striped!Ends

\* One more of the sets that are put together.
LEMMA UnionStep ==
  ASSUME NEW K, NEW f, NEW i \in Nat
  PROVE  /\ K \cup UNION {f[l] : l \in 0 .. (i + 1) - 1} = (K \cup UNION {f[l] : l \in 0 .. i - 1}) \cup f[i]
         /\ K \cup UNION {f[l] : l \in 0 .. 0 - 1} = K
<1>1. 0 .. (i + 1) - 1 = (0 .. i - 1) \cup {i} /\ 0 .. 0 - 1 = {}
  OBVIOUS
<1>2. ASSUME NEW x PROVE (\E l \in 0 .. (i + 1) - 1 : x \in f[l]) <=> (\E l \in 0 .. i - 1 : x \in f[l]) \/ x \in f[i]
  BY <1>1
<1> QED
  BY <1>1, <1>2

\* One more segment adds its bytes.
LEMMA AddOne ==
  ASSUME NEW S, Sized(S), NEW p \in Segs, p \notin S
  PROVE  Sized(S \cup {p}) /\ Striped!Size(S \cup {p}) = Striped!Size(S) + p.size /\ Striped!Size(S) \in Nat
<1>1. Sized(S \cup {p})
  BY FS_AddElement DEF Sized, Segs
<1>2. (S \cup {p}) \ {p} = S
  OBVIOUS
<1>3. Striped!Size(S \cup {p}) = p.size + Striped!Size(S) /\ Striped!Size(S) \in Nat
  BY <1>1, <1>2, SizesAdd
<1> QED
  BY <1>1, <1>3 DEF Segs

\* The multiples of the share.
LEMMA Multiples ==
  ASSUME NEW s \in Nat, NEW l \in Nat, NEW m \in Nat
  PROVE  /\ l * s \in Nat /\ (l + 1) * s = l * s + s
         /\ l < m => l * s + s <= m * s
<1>1. l * s \in Nat /\ (l + 1) * s = l * s + s
  OBVIOUS
<1>2. l < m => (l + 1) * s <= m * s
  OBVIOUS
<1> QED
  BY <1>1, <1>2

\* The part of a long write that a lane carries.
LEMMA LongCut ==
  ASSUME Lengths, NEW at \in Nat, NEW n \in Nat \ {0}, NEW l \in Ends, ~(n < StripeMin)
  PROVE  LET s == Striped!Step(n)
             left == n - l * s
         IN  Striped!Cut(at, n)[l] = IF left <= 0 THEN {}
                                     ELSE {[at |-> at + l * s, size |-> IF left < s THEN left ELSE s]}
  BY EndsAre DEF Striped!Cut, Striped!Segment, Ends

\* A write is cut into at most one segment per lane, inside the write, in order and apart.
LEMMA CutParts ==
  ASSUME Lengths, NEW at \in Nat, NEW n \in Nat \ {0}
  PROVE  /\ \A l \in Ends : OneOf(Striped!Cut(at, n)[l])
         /\ \A l \in Ends : \A p \in Striped!Cut(at, n)[l] :
              p \in Segs /\ at <= p.at /\ p.at + p.size <= at + n /\ (p.size <= Striped!Step(n) \/ p.size < StripeMin)
         /\ \A l, m \in Ends : l < m => \A p \in Striped!Cut(at, n)[l], q \in Striped!Cut(at, n)[m] : p.at + p.size <= q.at
<1> DEFINE c == Striped!Cut(at, n)
           s == Striped!Step(n)
<1>1. CASE n < StripeMin
  <2>1. \A l \in Ends : c[l] = IF l = 0 THEN {[at |-> at, size |-> n]} ELSE {}
    BY <1>1, EndsAre DEF Striped!Cut, Striped!Segment, Ends
  <2> HIDE DEF c
  <2>2. [at |-> at, size |-> n] \in Segs
    BY DEF Segs
  <2>3. \A l \in Ends : OneOf(c[l]) /\ \A p \in c[l] : p \in Segs /\ p.at = at /\ p.size = n /\ l = 0
    BY <2>1, <2>2 DEF OneOf
  <2> QED
    BY <1>1, <2>3 DEF c
<1>2. CASE ~(n < StripeMin)
  <2>1. s \in Nat /\ s > 0
    <3>1. n \in Nat /\ n > 0 /\ Wires \in Nat \ {0}
      BY DEF Lengths
    <3> QED
      BY <3>1, Shares
  <2>2. \A l \in Ends : c[l] = IF n - l * s <= 0 THEN {}
                               ELSE {[at |-> at + l * s, size |-> IF n - l * s < s THEN n - l * s ELSE s]}
    BY <1>2, LongCut
  <2> HIDE DEF c, s
  <2>3. ASSUME NEW l \in Ends, NEW p \in c[l]
        PROVE  /\ p = [at |-> at + l * s, size |-> IF n - l * s < s THEN n - l * s ELSE s] /\ n - l * s > 0
               /\ p \in Segs /\ p.at = at + l * s /\ p.size <= s /\ p.at + p.size <= at + n /\ at <= p.at
    <3>1. l * s \in Nat
      BY <2>1, Multiples DEF Ends, Lengths
    <3>2. p = [at |-> at + l * s, size |-> IF n - l * s < s THEN n - l * s ELSE s] /\ ~(n - l * s <= 0)
      BY <2>2, <2>3
    <3> QED
      BY <2>1, <3>1, <3>2 DEF Segs
  <2>4. \A l \in Ends : OneOf(c[l])
    BY <2>2, <2>3 DEF OneOf
  <2>5. ASSUME NEW l \in Ends, NEW m \in Ends, l < m, NEW p \in c[l], NEW q \in c[m]
        PROVE  p.at + p.size <= q.at
    <3>1. l * s + s <= m * s /\ l * s \in Nat /\ m * s \in Nat
      BY <2>1, <2>5, Multiples DEF Ends, Lengths
    <3>2. p.at = at + l * s /\ p.size <= s /\ q.at = at + m * s /\ p.size \in Nat
      BY <2>3, <2>5 DEF Segs
    <3> QED
      BY <2>1, <3>1, <3>2
  <2> QED
    BY <2>3, <2>4, <2>5 DEF c, s
<1> QED
  BY <1>1, <1>2

\* The segments of a write are all of its bytes.
LEMMA CutWhole ==
  ASSUME Lengths, NEW at \in Nat, NEW n \in Nat \ {0}, NEW S, Sized(S), \A x \in S : x.at < at
  PROVE  /\ Sized(S \cup UNION {Striped!Cut(at, n)[l] : l \in Ends})
         /\ Striped!Size(S \cup UNION {Striped!Cut(at, n)[l] : l \in Ends}) = Striped!Size(S) + n
<1> DEFINE c == Striped!Cut(at, n)
           s == Striped!Step(n)
<1>0. Striped!Size(S) \in Nat /\ 0 \in Ends
  BY SizesAdd DEF Ends, Lengths
<1>1. CASE n < StripeMin
  <2>1. \A l \in Ends : c[l] = IF l = 0 THEN {[at |-> at, size |-> n]} ELSE {}
    BY <1>1, EndsAre DEF Striped!Cut, Striped!Segment, Ends
  <2> HIDE DEF c
  <2>2. UNION {c[l] : l \in Ends} = {[at |-> at, size |-> n]}
    BY <1>0, <2>1
  <2>3. [at |-> at, size |-> n] \in Segs /\ [at |-> at, size |-> n] \notin S
    BY DEF Segs
  <2> QED
    BY <2>2, <2>3, AddOne DEF c
<1>2. CASE ~(n < StripeMin)
  <2>1. s \in Nat /\ s > 0 /\ n <= Wires * s
    <3>1. n \in Nat /\ n > 0 /\ Wires \in Nat \ {0}
      BY DEF Lengths
    <3> QED
      BY <3>1, Shares
  <2>2. \A l \in Ends : c[l] = IF n - l * s <= 0 THEN {}
                               ELSE {[at |-> at + l * s, size |-> IF n - l * s < s THEN n - l * s ELSE s]}
    BY <1>2, LongCut
  <2>3. \A l \in Ends : \A p \in c[l] : p \in Segs /\ at <= p.at
    BY CutParts
  <2>4. \A l, m \in Ends : l < m => \A p \in c[l], q \in c[m] : p.at + p.size <= q.at
    BY CutParts
  <2> HIDE DEF c, s
  <2> DEFINE Upto(j) == S \cup UNION {c[l] : l \in 0 .. j - 1}
             Reach(j) == IF j * s <= n THEN j * s ELSE n
             Odd == {j \in 0 .. Wires : ~(Sized(Upto(j)) /\ Striped!Size(Upto(j)) = Striped!Size(S) + Reach(j))}
  <2>5. Odd = {}
    <3> SUFFICES ASSUME Odd # {} PROVE FALSE
      OBVIOUS
    <3>1. Odd \subseteq Nat
      BY DEF Lengths
    <3>2. PICK j \in Odd : \A k \in Odd : j <= k
      <4> HIDE DEF Odd
      <4> QED
        BY <3>1, LeastNat
    <3>3. j # 0
      <4>1. Upto(0) = S
        BY UnionStep
      <4>2. 0 * s = 0
        BY <2>1
      <4>3. Reach(0) = 0
        BY <4>2
      <4>4. Sized(Upto(0)) /\ Striped!Size(Upto(0)) = Striped!Size(S) + Reach(0)
        <5> HIDE DEF Upto, Reach
        <5> QED
          BY <1>0, <4>1, <4>3
      <4> QED
        BY <3>2, <4>4
    <3>4. PICK i \in Ends : j = i + 1
      <4>1. j - 1 \in Ends /\ j = (j - 1) + 1
        BY <3>2, <3>3 DEF Ends, Lengths
      <4> QED
        BY <4>1
    <3>5. Sized(Upto(i)) /\ Striped!Size(Upto(i)) = Striped!Size(S) + Reach(i)
      <4>1. i \in 0 .. Wires /\ ~(j <= i)
        BY <3>4 DEF Ends, Lengths
      <4> QED
        BY <3>2, <4>1
    <3>6. Upto(j) = Upto(i) \cup c[i]
      <4>1. i \in Nat
        BY <3>4 DEF Ends
      <4> QED
        BY <4>1, <3>4, UnionStep
    <3>7. i * s \in Nat /\ j * s = i * s + s
      BY <2>1, <3>4, Multiples DEF Ends
    <3>8. CASE n - i * s <= 0
      <4>1. c[i] = {}
        BY <2>2, <3>8
      <4>2. Reach(i) = n /\ Reach(j) = n
        BY <2>1, <3>7, <3>8
      <4>3. Upto(j) = Upto(i)
        BY <3>6, <4>1
      <4> QED
        BY <3>2, <3>5, <4>2, <4>3
    <3>9. CASE ~(n - i * s <= 0)
      <4> DEFINE p == [at |-> at + i * s, size |-> IF n - i * s < s THEN n - i * s ELSE s]
      <4>1. c[i] = {p}
        BY <2>2, <3>9
      <4>2. p \in Segs /\ p.at = at + i * s /\ p.size = IF n - i * s < s THEN n - i * s ELSE s
        BY <2>1, <3>7, <3>9 DEF Segs
      <4> HIDE DEF p
      <4>3. p \notin Upto(i)
        <5>1. p \notin S
          BY <3>7, <4>2
        <5>2. ASSUME NEW l \in 0 .. i - 1, p \in c[l] PROVE FALSE
          <6>1. l \in Ends /\ l < i
            BY <5>2 DEF Ends, Lengths
          <6>2. p.at + p.size <= p.at
            BY <2>4, <4>1, <5>2, <6>1
          <6> QED
            BY <4>2, <6>2 DEF Segs
        <5> QED
          BY <5>1, <5>2
      <4>4. Reach(i) + p.size = Reach(j)
        BY <2>1, <3>7, <3>9, <4>2
      <4>5. Reach(i) \in Nat /\ Reach(j) \in Nat /\ p.size \in Nat
        BY <2>1, <3>7, <4>2 DEF Segs
      <4> HIDE DEF Upto, Reach
      <4>6. Sized(Upto(j)) /\ Striped!Size(Upto(j)) = Striped!Size(S) + Reach(i) + p.size
        BY <3>5, <3>6, <4>1, <4>2, <4>3, AddOne
      <4>7. Striped!Size(Upto(j)) = Striped!Size(S) + Reach(j)
        BY <1>0, <4>4, <4>5, <4>6
      <4> QED
        BY <3>2, <4>6, <4>7
    <3> QED
      BY <3>8, <3>9
  <2>6. Sized(Upto(Wires)) /\ Striped!Size(Upto(Wires)) = Striped!Size(S) + Reach(Wires)
    <3>1. Wires \in 0 .. Wires
      BY DEF Lengths
    <3> QED
      BY <2>5, <3>1
  <2>7. Reach(Wires) = n
    <3>1. Wires * s \in Nat
      BY <2>1 DEF Lengths
    <3> QED
      BY <2>1, <3>1
  <2>8. Upto(Wires) = S \cup UNION {c[l] : l \in Ends}
    BY DEF Ends
  <2> QED
    BY <2>6, <2>7, <2>8 DEF c
<1> QED
  BY <1>1, <1>2

\* The sum of sets with at most one member each.
LEMMA SumBound ==
  ASSUME Lengths, NEW K, NEW f, NEW b \in Nat, Sized(K),
         \A l \in Ends : f[l] = {} \/ \E p \in Segs : f[l] = {p} /\ p.size <= b
  PROVE  Striped!Size(K \cup UNION {f[l] : l \in Ends}) <= Striped!Size(K) + Wires * b
<1> DEFINE Upto(j) == K \cup UNION {f[l] : l \in 0 .. j - 1}
           Odd == {j \in 0 .. Wires : ~(Sized(Upto(j)) /\ Striped!Size(Upto(j)) <= Striped!Size(K) + j * b)}
<1>0. Striped!Size(K) \in Nat
  BY SizesAdd
<1>1. Odd = {}
  <2> SUFFICES ASSUME Odd # {} PROVE FALSE
    OBVIOUS
  <2>1. Odd \subseteq Nat
    BY DEF Lengths
  <2>2. PICK j \in Odd : \A k \in Odd : j <= k
    <3> HIDE DEF Odd
    <3> QED
      BY <2>1, LeastNat
  <2>3. j # 0
    <3>1. Upto(0) = K /\ 0 * b = 0
      BY UnionStep
    <3>2. Sized(Upto(0)) /\ Striped!Size(Upto(0)) <= Striped!Size(K) + 0 * b
      <4> HIDE DEF Upto
      <4> QED
        BY <1>0, <3>1
    <3> QED
      BY <2>2, <3>2
  <2>4. PICK i \in Ends : j = i + 1
    <3>1. j - 1 \in Ends /\ j = (j - 1) + 1
      BY <2>2, <2>3 DEF Ends, Lengths
    <3> QED
      BY <3>1
  <2>5. Sized(Upto(i)) /\ Striped!Size(Upto(i)) <= Striped!Size(K) + i * b
    <3>1. i \in 0 .. Wires /\ ~(j <= i)
      BY <2>4 DEF Ends, Lengths
    <3> QED
      BY <2>2, <3>1
  <2>6. Upto(j) = Upto(i) \cup f[i]
    <3>1. i \in Nat
      BY <2>4 DEF Ends
    <3> QED
      BY <3>1, <2>4, UnionStep
  <2>7. i * b \in Nat /\ j * b = i * b + b
    BY <2>4, Multiples DEF Ends
  <2> HIDE DEF Upto
  <2>8. Striped!Size(Upto(i)) \in Nat
    BY <2>5, SizesAdd
  <2>9. CASE f[i] \subseteq Upto(i)
    <3>1. Upto(j) = Upto(i)
      BY <2>6, <2>9
    <3>2. Sized(Upto(j)) /\ Striped!Size(Upto(j)) <= Striped!Size(K) + j * b
      BY <1>0, <2>5, <2>7, <2>8, <3>1
    <3> QED
      BY <2>2, <3>2
  <2>10. ASSUME NEW p \in Segs, f[i] = {p}, p.size <= b, p \notin Upto(i)
         PROVE  FALSE
    <3>1. Sized(Upto(j)) /\ Striped!Size(Upto(j)) = Striped!Size(Upto(i)) + p.size
      BY <2>5, <2>6, <2>10, AddOne
    <3>2. p.size \in Nat
      BY DEF Segs
    <3>3. Striped!Size(Upto(j)) <= Striped!Size(K) + j * b
      BY <1>0, <2>5, <2>7, <2>8, <2>10, <3>1, <3>2
    <3> QED
      BY <2>2, <3>1, <3>3
  <2> QED
    BY <2>9, <2>10
<1>2. Wires \in 0 .. Wires
  BY DEF Lengths
<1>3. Upto(Wires) = K \cup UNION {f[l] : l \in Ends}
  BY DEF Ends
<1>4. Striped!Size(Upto(Wires)) <= Striped!Size(K) + Wires * b
  BY <1>1, <1>2
<1> QED
  BY <1>3, <1>4

-----------------------------------------------------------------------------
(* The lanes: what is where. *)

\* The segments that a lane's thread has not written, and those it has.
OnLane(l) == todo[l] \cup {wire[l][k] : k \in 1 .. Len(wire[l])}
Flow == segments \cup UNION {OnLane(l) : l \in Ends}
Intact == \A l \in Ends : ~broken[l]

\* The types, and what a lane has at most.
LanesTyped ==
  /\ written \in 0 .. Len(WriteSizes) /\ striping \in BOOLEAN /\ bytes \in Nat /\ next \in Nat /\ next <= bytes
  /\ todo \in [Ends -> SUBSET Segs] /\ \A l \in Ends : OneOf(todo[l])
  /\ wire \in [Ends -> Seq(Segs)] /\ broken \in [Ends -> BOOLEAN]
  /\ reader \in [Ends -> {"head", "checks", "body", "ended"}]
  /\ segments \subseteq Segs /\ IsFiniteSet(segments)
  /\ ~striping => \A l \in Ends : todo[l] = {}
  /\ \A l \in Ends : reader[l] \in {"checks", "body"} => wire[l] # <<>>
\* A lane carries its segments in their order.
LanesOrdered ==
  \A l \in Ends : /\ \A i, j \in 1 .. Len(wire[l]) : i < j => wire[l][i].at < wire[l][j].at
                  /\ \A p \in todo[l], i \in 1 .. Len(wire[l]) : wire[l][i].at < p.at
\* No segment is in two places.
LanesApart ==
  /\ \A l, m \in Ends : l # m => OnLane(l) \cap OnLane(m) = {}
  /\ \A l \in Ends : OnLane(l) \cap segments = {}
\* Two segments do not overlap.
Between(p, q) == p = q \/ p.at + p.size <= q.at \/ q.at + q.size <= p.at
\* What is on its way lies between what was read and what was sent.
LanesBounded ==
  /\ \A p \in Flow : p \in Segs /\ next <= p.at /\ p.at + p.size <= bytes /\ p.size <= Striped!Longest
  /\ \A p, q \in Flow : Between(p, q)
\* While every lane holds, it is all of that.
LanesWhole ==
  Intact => /\ next + Striped!Size(Flow) = bytes /\ alive = Wires /\ ~ended
            /\ \A l \in Ends : reader[l] # "ended"
\* What is held is what was held when a lane last found less than the hold, and one segment of
\* each lane since; a segment read in excess of the hold is the next one to be taken.
HeldAs(K, f) ==
  /\ segments = K \cup UNION {f[l] : l \in Ends} /\ Striped!Size(K) <= StripeHold
  /\ \A l \in Ends : /\ f[l] = {} \/ \E p \in segments : f[l] = {p}
                     /\ reader[l] = "body" => f[l] = {}
                     /\ \A q \in f[l], p \in OnLane(l) : q.at < p.at
LanesHold == \E K \in SUBSET segments : \E f \in [Ends -> SUBSET segments] : HeldAs(K, f)

\* What the threads of the lanes and their readers keep of each other.
LanesInv == LanesTyped /\ LanesOrdered /\ LanesApart /\ LanesBounded /\ LanesWhole /\ LanesHold

\* The only member of a set as a sequence.
LEMMA OneInSeq ==
  ASSUME NEW p
  PROVE  Striped!SetToSeq({p}) = <<p>>
<1> DEFINE F == {g \in [1 .. Cardinality({p}) -> {p}] : Striped!IsInjective(g)}
<1>1. Cardinality({p}) = 1
  BY FS_Singleton
<1>2. <<p>> \in [1 .. 1 -> {p}] /\ \A g \in [1 .. 1 -> {p}] : g = <<p>>
  OBVIOUS
<1>3. Striped!IsInjective(<<p>>)
  BY <1>2 DEF Striped!IsInjective
<1>4. F = {<<p>>}
  BY <1>1, <1>2, <1>3
<1>5. Striped!Cardinality({p}) = Cardinality({p})
  BY DEF Striped!Cardinality, Cardinality, Striped!IsFiniteSet, IsFiniteSet
<1>6. Striped!SetToSeq({p}) = CHOOSE g \in [1 .. Cardinality({p}) -> {p}] : Striped!IsInjective(g)
  BY <1>5 DEF Striped!SetToSeq
<1> QED
  BY <1>4, <1>6

\* What is on its way, as the property has it.
LEMMA FlowIs ==
  ASSUME LanesTyped
  PROVE  Striped!OnTheWay = Flow
<1>1. \A l \in Ends : Striped!ToSet(wire[l]) = {wire[l][k] : k \in 1 .. Len(wire[l])}
  <2> SUFFICES ASSUME NEW l \in Ends PROVE Striped!ToSet(wire[l]) = {wire[l][k] : k \in 1 .. Len(wire[l])}
    OBVIOUS
  <2>1. DOMAIN wire[l] = 1 .. Len(wire[l])
    BY DEF LanesTyped
  <2> QED
    BY <2>1 DEF Striped!ToSet
<1>2. \A l \in Ends : todo[l] \cup Striped!ToSet(wire[l]) = OnLane(l)
  BY <1>1 DEF OnLane
<1>3. {todo[l] \cup Striped!ToSet(wire[l]) : l \in Ends} = {OnLane(l) : l \in Ends}
  BY <1>2
<1> QED
  BY <1>3, EndsAre DEF Striped!OnTheWay, Flow

\* What is on its way is finite.
LEMMA FlowSized ==
  ASSUME Lengths, LanesTyped
  PROVE  Sized(Flow) /\ Sized(segments) /\ \A K \in SUBSET segments : Sized(K)
<1>1. \A l \in Ends : IsFiniteSet(OnLane(l)) /\ OnLane(l) \subseteq Segs
  <2> SUFFICES ASSUME NEW l \in Ends PROVE IsFiniteSet(OnLane(l)) /\ OnLane(l) \subseteq Segs
    OBVIOUS
  <2>1. wire[l] \in Seq(Segs) /\ OneOf(todo[l]) /\ todo[l] \subseteq Segs
    BY DEF LanesTyped
  <2>2. IsFiniteSet({wire[l][k] : k \in 1 .. Len(wire[l])})
    BY <2>1, SeqRangeFinite
  <2>3. IsFiniteSet(todo[l])
    BY <2>1, FS_EmptySet, FS_Singleton DEF OneOf
  <2>4. {wire[l][k] : k \in 1 .. Len(wire[l])} \subseteq Segs
    BY <2>1
  <2> QED
    BY <2>1, <2>2, <2>3, <2>4, FS_Union DEF OnLane
<1> DEFINE T == {OnLane(l) : l \in Ends}
           g == [k \in 1 .. Wires |-> OnLane(k - 1)]
<1>2. IsFiniteSet(T)
  <2>1. g \in [1 .. Wires -> T]
    BY DEF Ends, Lengths
  <2>2. \A t \in T : \E k \in 1 .. Wires : g[k] = t
    <3> SUFFICES ASSUME NEW l \in Ends PROVE \E k \in 1 .. Wires : g[k] = OnLane(l)
      OBVIOUS
    <3>1. l + 1 \in 1 .. Wires /\ (l + 1) - 1 = l
      BY DEF Ends, Lengths
    <3>2. g[l + 1] = OnLane(l)
      BY <3>1
    <3> QED
      BY <3>1, <3>2
  <2>3. g \in Surjection(1 .. Wires, T)
    BY <2>1, <2>2 DEF Surjection
  <2>4. ExistsSurjection(1 .. Wires, T) /\ Wires \in Nat
    BY <2>3 DEF ExistsSurjection, Lengths
  <2> QED
    BY <2>4, FS_NatSurjection
<1>3. IsFiniteSet(UNION T)
  BY <1>1, <1>2, FS_UNION
<1>4. IsFiniteSet(Flow) /\ Flow \subseteq Segs
  BY <1>1, <1>3, FS_Union DEF Flow, LanesTyped
<1>5. \A S : IsFiniteSet(S) /\ S \subseteq Segs => Sized(S)
  BY DEF Sized, Segs
<1> QED
  BY <1>4, <1>5, FS_Subset DEF LanesTyped

\* The next segment of a lane is never taken for one that cannot be.
LEMMA HeaderNew ==
  ASSUME LanesInv, NEW l \in Ends, wire[l] # <<>>
  PROVE  /\ ~Striped!Known(Striped!Header(l)) /\ Striped!Header(l) \in OnLane(l) /\ Striped!Header(l) = wire[l][1]
         /\ Striped!Header(l) \in Segs
<1> DEFINE h == Striped!Header(l)
<1>1. wire[l] \in Seq(Segs) /\ Len(wire[l]) >= 1 /\ h = wire[l][1]
  BY DEF LanesInv, LanesTyped, Striped!Header
<1>2. h \in OnLane(l) /\ h \in Flow
  BY <1>1 DEF OnLane, Flow
<1> HIDE DEF h
<1>3. h \in Segs /\ next <= h.at /\ next \in Nat
  BY <1>2 DEF LanesInv, LanesBounded, LanesTyped
<1>4. ASSUME NEW q \in segments, q.at = h.at PROVE FALSE
  <2>1. q \in Flow /\ q \in Segs
    BY <1>4 DEF Flow, LanesInv, LanesTyped
  <2>2. Between(q, h)
    BY <1>2, <2>1 DEF LanesInv, LanesBounded
  <2>3. q = h
    BY <1>3, <1>4, <2>1, <2>2 DEF Between, Segs
  <2> QED
    BY <1>2, <1>4, <2>3 DEF LanesInv, LanesApart
<1>5. ~Striped!Known(h)
  BY <1>3, <1>4 DEF Striped!Known, Segs
<1> QED
  BY <1>1, <1>2, <1>3, <1>5 DEF h

\* A step that puts nothing more on a lane and lets no lane read a body.
LEMMA Fewer ==
  ASSUME LanesInv, \A l \in Ends : OnLane(l)' \subseteq OnLane(l), UNCHANGED <<segments, next, bytes>>,
         \A l \in Ends : reader'[l] = "body" => reader[l] = "body"
  PROVE  LanesApart' /\ LanesBounded' /\ LanesHold'
<1>1. Flow' \subseteq Flow
  BY DEF Flow
<1>2. LanesApart'
  BY DEF LanesInv, LanesApart
<1>3. LanesBounded'
  BY <1>1 DEF LanesInv, LanesBounded
<1>4. PICK K \in SUBSET segments, f \in [Ends -> SUBSET segments] : HeldAs(K, f)
  BY DEF LanesInv, LanesHold
<1>5. HeldAs(K, f)'
  BY <1>4 DEF HeldAs
<1> QED
  BY <1>2, <1>3, <1>4, <1>5 DEF LanesHold

\* The write is over.
LEMMA SentKeeps ==
  ASSUME LanesInv, Striped!Sent
  PROVE  LanesInv'
<1>1. /\ \A l \in Ends : todo[l] = {}
      /\ UNCHANGED <<written, bytes, todo, raised, wire, broken, reader, segments, next, alive, ended>> /\ striping' = FALSE
  BY EndsAre DEF Striped!Sent, Striped!readVars
<1>2. \A l \in Ends : OnLane(l)' = OnLane(l)
  BY <1>1 DEF OnLane
<1>3. Flow' = Flow
  BY <1>1, <1>2 DEF Flow
<1>4. LanesTyped' /\ LanesOrdered'
  BY <1>1 DEF LanesInv, LanesTyped, LanesOrdered
<1>5. LanesWhole'
  BY <1>1, <1>3 DEF LanesInv, LanesWhole, Intact
<1> QED
  BY <1>1, <1>2, <1>4, <1>5, Fewer DEF LanesInv

\* A reader reads a header.
LEMMA ReadsHeaderKeeps ==
  ASSUME LanesInv, NEW l \in Ends, Striped!ReadsHeader(l)
  PROVE  LanesInv'
<1>1. /\ wire[l] # <<>> /\ UNCHANGED <<written, striping, bytes, todo, wire, broken, segments, next, alive, ended>>
      /\ reader' = [reader EXCEPT ![l] = "checks"]
  BY DEF Striped!ReadsHeader, Striped!writeVars
<1>2. /\ reader' \in [Ends -> {"head", "checks", "body", "ended"}] /\ reader'[l] = "checks"
      /\ \A m \in Ends : m # l => reader'[m] = reader[m]
  BY <1>1 DEF LanesInv, LanesTyped
<1>3. \A m \in Ends : OnLane(m)' = OnLane(m)
  BY <1>1 DEF OnLane
<1>4. Flow' = Flow
  BY <1>1, <1>3 DEF Flow
<1>5. LanesTyped' /\ LanesOrdered'
  BY <1>1, <1>2 DEF LanesInv, LanesTyped, LanesOrdered
<1>6. LanesWhole'
  BY <1>1, <1>2, <1>4 DEF LanesInv, LanesWhole, Intact
<1> QED
  BY <1>1, <1>2, <1>3, <1>5, <1>6, Fewer DEF LanesInv

\* A lane that stops reading, once a lane has broken.
LEMMA StopKeeps ==
  ASSUME LanesInv, NEW l \in Ends, ~Intact, reader' = [reader EXCEPT ![l] = "ended"],
         UNCHANGED <<written, striping, bytes, todo, wire, broken, segments, next>>
  PROVE  LanesInv'
<1>2. /\ reader' \in [Ends -> {"head", "checks", "body", "ended"}] /\ reader'[l] = "ended"
      /\ \A m \in Ends : m # l => reader'[m] = reader[m]
  BY DEF LanesInv, LanesTyped
<1>3. \A m \in Ends : OnLane(m)' = OnLane(m)
  BY DEF OnLane
<1>5. LanesTyped' /\ LanesOrdered'
  BY <1>2 DEF LanesInv, LanesTyped, LanesOrdered
<1>6. LanesWhole'
  BY DEF LanesWhole, Intact
<1> QED
  BY <1>2, <1>3, <1>5, <1>6, Fewer DEF LanesInv

\* A reader finds its lane broken.
LEMMA LosesLaneKeeps ==
  ASSUME LanesInv, NEW l \in Ends, Striped!LosesLane(l)
  PROVE  LanesInv'
<1>1. broken[l] /\ ~Intact
  BY DEF Striped!LosesLane, Intact
<1>2. /\ reader' = [reader EXCEPT ![l] = "ended"]
      /\ UNCHANGED <<written, striping, bytes, todo, wire, broken, segments, next>>
  BY DEF Striped!LosesLane, Striped!Stops, Striped!writeVars
<1> QED
  BY <1>1, <1>2, StopKeeps

\* A lane writes a segment.
LEMMA PutsKeeps ==
  ASSUME LanesInv, NEW l \in Ends, Striped!Puts(l)
  PROVE  LanesInv'
<1>1. /\ todo[l] # {} /\ todo' = [todo EXCEPT ![l] = {}]
      /\ UNCHANGED <<written, striping, bytes, broken, reader, segments, next, alive, ended>>
      /\ IF broken[l] THEN UNCHANGED wire ELSE wire' = [wire EXCEPT ![l] = @ \o Striped!SetToSeq(todo[l])]
  BY DEF Striped!Puts, Striped!readVars
<1>2. PICK p \in Segs : todo[l] = {p}
  BY <1>1 DEF LanesInv, LanesTyped, OneOf
<1>3. Striped!SetToSeq(todo[l]) = <<p>>
  BY <1>2, OneInSeq
<1>4. todo' \in [Ends -> SUBSET Segs] /\ todo'[l] = {} /\ \A m \in Ends : m # l => todo'[m] = todo[m]
  BY <1>1 DEF LanesInv, LanesTyped
<1>5. CASE broken[l]
  <2>1. UNCHANGED wire /\ ~Intact
    BY <1>1, <1>5 DEF Intact
  <2>2. \A m \in Ends : OnLane(m)' \subseteq OnLane(m)
    BY <1>4, <2>1 DEF OnLane
  <2>3. LanesTyped'
    BY <1>1, <1>4, <2>1 DEF LanesInv, LanesTyped, OneOf
  <2>4. LanesOrdered'
    BY <1>4, <2>1 DEF LanesInv, LanesOrdered
  <2>5. LanesWhole'
    BY <1>1, <2>1 DEF LanesWhole, Intact
  <2> QED
    BY <1>1, <2>2, <2>3, <2>4, <2>5, Fewer DEF LanesInv
<1>6. CASE ~broken[l]
  <2>1. wire \in [Ends -> Seq(Segs)] /\ wire' = [wire EXCEPT ![l] = @ \o <<p>>]
    BY <1>1, <1>3, <1>6 DEF LanesInv, LanesTyped
  <2>2. wire[l] \in Seq(Segs) /\ wire'[l] = wire[l] \o <<p>> /\ \A m \in Ends : m # l => wire'[m] = wire[m]
    BY <2>1
  <2>3. /\ wire'[l] \in Seq(Segs) /\ Len(wire'[l]) = Len(wire[l]) + 1 /\ wire'[l][Len(wire[l]) + 1] = p
        /\ \A k \in 1 .. Len(wire[l]) : wire'[l][k] = wire[l][k]
    BY <2>2, <1>2
  <2>4. wire' \in [Ends -> Seq(Segs)]
    BY <2>1, <2>3
  <2>5. OnLane(l)' = OnLane(l)
    <3>1. {wire'[l][k] : k \in 1 .. Len(wire'[l])} = {wire[l][k] : k \in 1 .. Len(wire[l])} \cup {p}
      <4>1. 1 .. Len(wire'[l]) = 1 .. Len(wire[l]) \cup {Len(wire[l]) + 1}
        BY <2>2, <2>3
      <4> QED
        BY <2>3, <4>1
    <3> QED
      BY <1>2, <1>4, <3>1 DEF OnLane
  <2>6. \A m \in Ends : OnLane(m)' = OnLane(m)
    <3>1. \A m \in Ends : m # l => OnLane(m)' = OnLane(m)
      BY <1>4, <2>2 DEF OnLane
    <3> QED
      BY <2>5, <3>1
  <2>7. Flow' = Flow
    BY <1>1, <2>6 DEF Flow
  <2>8. wire'[l] # <<>> /\ \A m \in Ends : reader'[m] \in {"checks", "body"} => wire'[m] # <<>>
    BY <1>1, <2>2, <2>3 DEF LanesInv, LanesTyped
  <2>9. LanesTyped'
    BY <1>1, <1>4, <2>4, <2>8 DEF LanesInv, LanesTyped, OneOf
  <2>10. LanesOrdered'
    <3>1. ASSUME NEW i \in 1 .. Len(wire'[l]), NEW j \in 1 .. Len(wire'[l]), i < j
          PROVE  wire'[l][i].at < wire'[l][j].at
      <4>1. i \in 1 .. Len(wire[l]) /\ (j \in 1 .. Len(wire[l]) \/ j = Len(wire[l]) + 1)
        BY <2>2, <2>3, <3>1
      <4> QED
        BY <1>2, <2>3, <3>1, <4>1 DEF LanesInv, LanesOrdered
    <3> QED
      BY <1>4, <2>2, <3>1 DEF LanesInv, LanesOrdered
  <2>11. LanesWhole'
    BY <1>1, <2>7 DEF LanesInv, LanesWhole, Intact
  <2> QED
    BY <1>1, <2>6, <2>9, <2>10, <2>11, Fewer DEF LanesInv
<1> QED
  BY <1>5, <1>6

\* A lane breaks.
LEMMA BreaksKeeps ==
  ASSUME LanesInv, NEW l \in Ends, Striped!Breaks(l)
  PROVE  LanesInv'
<1>1. /\ broken' = [broken EXCEPT ![l] = TRUE]
      /\ UNCHANGED <<written, striping, bytes, todo, reader, segments, next, alive, ended>>
  BY DEF Striped!Breaks, Striped!readVars, Striped!writeVars
<1>2. wire[l] \in Seq(Segs) /\ wire \in [Ends -> Seq(Segs)]
  BY DEF LanesInv, LanesTyped
<1>3. PICK n \in (IF reader[l] \in {"checks", "body"} THEN 1 ELSE 0) .. Len(wire[l]) :
        wire' = [wire EXCEPT ![l] = SubSeq(@, 1, n)]
  BY DEF Striped!Breaks
<1>4. n \in 0 .. Len(wire[l]) /\ (reader[l] \in {"checks", "body"} => n >= 1)
  BY <1>2, <1>3
<1>5. wire'[l] = SubSeq(wire[l], 1, n) /\ \A m \in Ends : m # l => wire'[m] = wire[m]
  BY <1>2, <1>3
<1>6. wire'[l] \in Seq(Segs) /\ Len(wire'[l]) = n /\ \A k \in 1 .. n : k \in 1 .. Len(wire[l]) /\ wire'[l][k] = wire[l][k]
  <2>1. /\ SubSeq(wire[l], 1, n) \in Seq(Segs) /\ Len(SubSeq(wire[l], 1, n)) = n
        /\ \A k \in 1 .. n : k \in 1 .. Len(wire[l]) /\ SubSeq(wire[l], 1, n)[k] = wire[l][k]
    BY <1>2, <1>4
  <2> QED
    BY <1>5, <2>1
<1>7. wire' \in [Ends -> Seq(Segs)] /\ \A m \in Ends : reader[m] \in {"checks", "body"} => wire'[m] # <<>>
  <2>1. wire' \in [Ends -> Seq(Segs)]
    BY <1>2, <1>3, <1>5, <1>6
  <2>2. reader[l] \in {"checks", "body"} => wire'[l] # <<>>
    BY <1>4, <1>6
  <2>3. \A m \in Ends : m # l => (reader[m] \in {"checks", "body"} => wire'[m] # <<>>)
    BY <1>5 DEF LanesInv, LanesTyped
  <2> QED
    BY <2>1, <2>2, <2>3
<1>8. broken' \in [Ends -> BOOLEAN] /\ broken'[l]
  BY <1>1 DEF LanesInv, LanesTyped
<1>9. \A m \in Ends : OnLane(m)' \subseteq OnLane(m)
  BY <1>1, <1>5, <1>6 DEF OnLane
<1>10. LanesTyped'
  BY <1>1, <1>7, <1>8 DEF LanesInv, LanesTyped
<1>11. LanesOrdered'
  <2>1. \A i, j \in 1 .. Len(wire'[l]) : i < j => wire'[l][i].at < wire'[l][j].at
    BY <1>6 DEF LanesInv, LanesOrdered
  <2>2. \A p \in todo[l], i \in 1 .. Len(wire'[l]) : wire'[l][i].at < p.at
    BY <1>6 DEF LanesInv, LanesOrdered
  <2>3. \A m \in Ends : m # l =>
          /\ \A i, j \in 1 .. Len(wire'[m]) : i < j => wire'[m][i].at < wire'[m][j].at
          /\ \A p \in todo[m], i \in 1 .. Len(wire'[m]) : wire'[m][i].at < p.at
    BY <1>5 DEF LanesInv, LanesOrdered
  <2> QED
    BY <1>1, <2>1, <2>2, <2>3 DEF LanesOrdered
<1>12. LanesWhole'
  BY <1>8 DEF LanesWhole, Intact
<1> QED
  BY <1>1, <1>9, <1>10, <1>11, <1>12, Fewer DEF LanesInv

\* A reader waits for room and checks the header.
LEMMA ChecksKeeps ==
  ASSUME Lengths, LanesInv, NEW l \in Ends, Striped!Checks(l)
  PROVE  LanesInv'
<1>1. /\ reader[l] = "checks" /\ ~Striped!Waits(Striped!Header(l))
      /\ UNCHANGED <<written, striping, bytes, todo, wire, broken, segments, next>>
  BY DEF Striped!Checks, Striped!Stops, Striped!writeVars
<1>2. wire[l] # <<>>
  BY <1>1 DEF LanesInv, LanesTyped
<1>3. ~Striped!Known(Striped!Header(l)) /\ Striped!Header(l) \in OnLane(l) /\ Striped!Header(l) \in Segs
  BY <1>2, HeaderNew
<1>4. CASE ended
  <2>1. ~Intact
    BY <1>4 DEF LanesInv, LanesWhole
  <2>2. reader' = [reader EXCEPT ![l] = "ended"]
    BY <1>4 DEF Striped!Checks, Striped!Stops
  <2> QED
    BY <1>1, <2>1, <2>2, StopKeeps
<1>5. CASE ~ended
  <2>1. reader' = [reader EXCEPT ![l] = "body"] /\ UNCHANGED <<alive, ended>>
    BY <1>3, <1>5 DEF Striped!Checks
  <2>2. /\ reader' \in [Ends -> {"head", "checks", "body", "ended"}] /\ reader'[l] = "body"
        /\ \A m \in Ends : m # l => reader'[m] = reader[m]
    BY <2>1 DEF LanesInv, LanesTyped
  <2>3. \A m \in Ends : OnLane(m)' = OnLane(m)
    BY <1>1 DEF OnLane
  <2>4. Flow' = Flow
    BY <1>1, <2>3 DEF Flow
  <2>5. LanesTyped' /\ LanesOrdered'
    BY <1>1, <1>2, <2>2 DEF LanesInv, LanesTyped, LanesOrdered
  <2>6. LanesWhole'
    BY <1>1, <2>1, <2>2, <2>4 DEF LanesInv, LanesWhole, Intact
  <2>7. LanesApart' /\ LanesBounded'
    BY <1>1, <2>3, <2>4 DEF LanesInv, LanesApart, LanesBounded
  <2>8. LanesHold'
    <3>1. CASE Striped!Size(segments) <= StripeHold
      <4> DEFINE f == [m \in Ends |-> {}]
      <4>1. f \in [Ends -> SUBSET segments] /\ \A m \in Ends : f[m] = {}
        OBVIOUS
      <4> HIDE DEF f
      <4>2. segments = segments \cup UNION {f[m] : m \in Ends}
        BY <4>1
      <4>3. \A K : K = segments => HeldAs(K, f)'
        BY <1>1, <3>1, <4>1, <4>2 DEF HeldAs
      <4> QED
        BY <1>1, <4>1, <4>3 DEF LanesHold
    <3>2. CASE Striped!Header(l).at = next
      <4>1. PICK K \in SUBSET segments, f \in [Ends -> SUBSET segments] : HeldAs(K, f)
        BY DEF LanesInv, LanesHold
      <4>2. f[l] = {}
        <5>1. ASSUME NEW q \in f[l] PROVE FALSE
          <6>1. q \in segments /\ q \in Flow
            BY <4>1, <5>1 DEF Flow
          <6>2. q.at < next
            BY <1>3, <3>2, <4>1, <5>1 DEF HeldAs
          <6>3. next <= q.at /\ q \in Segs /\ next \in Nat
            BY <6>1 DEF LanesInv, LanesBounded, LanesTyped
          <6> QED
            BY <6>2, <6>3 DEF Segs
        <5> QED
          BY <5>1
      <4>3. HeldAs(K, f)'
        BY <1>1, <2>2, <2>3, <4>1, <4>2 DEF HeldAs
      <4> QED
        BY <1>1, <4>1, <4>3 DEF LanesHold
    <3>3. ~(Striped!Size(segments) > StripeHold) \/ Striped!Header(l).at = next
      BY <1>1, <1>5 DEF Striped!Waits, Striped!Held
    <3>4. ~(Striped!Size(segments) > StripeHold) <=> Striped!Size(segments) <= StripeHold
      <4>1. Striped!Size(segments) \in Nat /\ StripeHold \in Nat
        BY FlowSized, SizesAdd DEF LanesInv, Lengths
      <4> QED
        BY <4>1
    <3> QED
      BY <3>1, <3>2, <3>3, <3>4
  <2> QED
    BY <2>5, <2>6, <2>7, <2>8 DEF LanesInv
<1> QED
  BY <1>4, <1>5

\* A reader stores the segment.
LEMMA StoresKeeps ==
  ASSUME LanesInv, NEW l \in Ends, Striped!Stores(l)
  PROVE  LanesInv'
<1>1. reader[l] = "body" /\ wire' = [wire EXCEPT ![l] = Tail(@)] /\ UNCHANGED <<written, striping, bytes, todo, broken>>
  BY DEF Striped!Stores, Striped!writeVars
<1>2. wire[l] # <<>>
  BY <1>1 DEF LanesInv, LanesTyped
<1>3. PICK h : h = Striped!Header(l)
  OBVIOUS
<1>4. ~Striped!Known(Striped!Header(l)) /\ h \in OnLane(l) /\ h \in Segs /\ h = wire[l][1]
  BY <1>2, <1>3, HeaderNew
<1>5. segments' = segments \cup {h} /\ reader' = [reader EXCEPT ![l] = "head"] /\ UNCHANGED <<next, alive, ended>>
  BY <1>3, <1>4 DEF Striped!Stores
<1>6. /\ reader' \in [Ends -> {"head", "checks", "body", "ended"}] /\ reader'[l] = "head"
      /\ \A m \in Ends : m # l => reader'[m] = reader[m]
  BY <1>5 DEF LanesInv, LanesTyped
<1>7. wire[l] \in Seq(Segs) /\ wire \in [Ends -> Seq(Segs)]
  BY DEF LanesInv, LanesTyped
<1>8. wire'[l] = Tail(wire[l]) /\ \A m \in Ends : m # l => wire'[m] = wire[m]
  BY <1>1, <1>7
<1>9. /\ wire'[l] \in Seq(Segs) /\ Len(wire'[l]) = Len(wire[l]) - 1
      /\ \A k \in 1 .. Len(wire'[l]) : wire'[l][k] = wire[l][k + 1] /\ k + 1 \in 1 .. Len(wire[l])
  <2>1. /\ Tail(wire[l]) \in Seq(Segs) /\ Len(Tail(wire[l])) = Len(wire[l]) - 1
        /\ \A k \in 1 .. Len(wire[l]) - 1 : Tail(wire[l])[k] = wire[l][k + 1] /\ k + 1 \in 1 .. Len(wire[l])
    BY <1>2, <1>7
  <2> QED
    BY <1>8, <2>1
<1>10. wire' \in [Ends -> Seq(Segs)]
  BY <1>1, <1>7, <1>8, <1>9
<1>11. 1 \in 1 .. Len(wire[l]) /\ \A k \in 1 .. Len(wire[l]) : k = 1 \/ (1 < k /\ k - 1 \in 1 .. Len(wire'[l]) /\ wire[l][k] = wire'[l][k - 1])
  BY <1>2, <1>7, <1>9
<1>12. \A p \in OnLane(l)' : p \in OnLane(l) /\ h.at < p.at
  <2>1. ASSUME NEW k \in 1 .. Len(wire'[l]) PROVE wire'[l][k] \in OnLane(l) /\ h.at < wire'[l][k].at
    <3>1. 1 < k + 1 /\ k + 1 \in 1 .. Len(wire[l]) /\ wire'[l][k] = wire[l][k + 1]
      BY <1>9
    <3> QED
      BY <1>4, <1>11, <3>1 DEF OnLane, LanesInv, LanesOrdered
  <2>2. ASSUME NEW p \in todo[l] PROVE p \in OnLane(l) /\ h.at < p.at
    BY <1>4, <1>11 DEF OnLane, LanesInv, LanesOrdered
  <2> QED
    BY <1>1, <2>1, <2>2 DEF OnLane
<1>13. OnLane(l) = OnLane(l)' \cup {h} /\ h \notin OnLane(l)'
  <2>1. \A p \in OnLane(l) : p = h \/ p \in OnLane(l)'
    <3>1. ASSUME NEW k \in 1 .. Len(wire[l]) PROVE wire[l][k] = h \/ wire[l][k] \in OnLane(l)'
      BY <1>4, <1>11 DEF OnLane
    <3>2. todo[l] \subseteq OnLane(l)'
      BY <1>1 DEF OnLane
    <3> QED
      BY <3>1, <3>2 DEF OnLane
  <2>2. h \notin OnLane(l)'
    BY <1>4, <1>12 DEF Segs
  <2> QED
    BY <1>4, <1>12, <2>1, <2>2
<1>14. \A m \in Ends : m # l => OnLane(m)' = OnLane(m)
  BY <1>1, <1>8 DEF OnLane
<1>15. Flow' = Flow
  <2>1. \A x : x \in Flow' <=> x \in segments \/ x = h \/ \E m \in Ends : x \in OnLane(m)'
    BY <1>5 DEF Flow
  <2>2. \A x : x \in Flow <=> x \in segments \/ \E m \in Ends : x \in OnLane(m)
    BY DEF Flow
  <2>3. \A x : (\E m \in Ends : x \in OnLane(m)) <=> x = h \/ \E m \in Ends : x \in OnLane(m)'
    BY <1>13, <1>14
  <2> QED
    BY <2>1, <2>2, <2>3
<1>16. LanesTyped'
  <2>1. segments' \subseteq Segs /\ IsFiniteSet(segments')
    <3>1. segments \subseteq Segs /\ IsFiniteSet(segments)
      BY DEF LanesInv, LanesTyped
    <3>2. IsFiniteSet(segments \cup {h})
      BY <3>1, FS_AddElement
    <3> QED
      BY <1>4, <1>5, <3>1, <3>2
  <2>2. \A m \in Ends : reader'[m] \in {"checks", "body"} => wire'[m] # <<>>
    BY <1>6, <1>8 DEF LanesInv, LanesTyped
  <2> QED
    BY <1>1, <1>5, <1>6, <1>10, <2>1, <2>2 DEF LanesInv, LanesTyped
<1>17. LanesOrdered'
  <2>1. \A i, j \in 1 .. Len(wire'[l]) : i < j => wire'[l][i].at < wire'[l][j].at
    <3>1. ASSUME NEW i \in 1 .. Len(wire'[l]), NEW j \in 1 .. Len(wire'[l]), i < j
          PROVE wire'[l][i].at < wire'[l][j].at
      <4>1. i + 1 < j + 1
        BY <3>1, <1>9
      <4>2. wire'[l][i] = wire[l][i + 1] /\ wire'[l][j] = wire[l][j + 1] /\ i + 1 \in 1 .. Len(wire[l]) /\ j + 1 \in 1 .. Len(wire[l])
        BY <3>1, <1>9
      <4> QED
        BY <4>1, <4>2 DEF LanesInv, LanesOrdered
    <3> QED
      BY <3>1
  <2>2. \A p \in todo[l], i \in 1 .. Len(wire'[l]) : wire'[l][i].at < p.at
    BY <1>9 DEF LanesInv, LanesOrdered
  <2>3. \A m \in Ends : m # l =>
          /\ \A i, j \in 1 .. Len(wire'[m]) : i < j => wire'[m][i].at < wire'[m][j].at
          /\ \A p \in todo[m], i \in 1 .. Len(wire'[m]) : wire'[m][i].at < p.at
    BY <1>8 DEF LanesInv, LanesOrdered
  <2> QED
    BY <1>1, <2>1, <2>2, <2>3 DEF LanesOrdered
<1>18. LanesApart'
  <2>1. \A m \in Ends : OnLane(m)' \subseteq OnLane(m) /\ h \notin OnLane(m)'
    BY <1>4, <1>13, <1>14 DEF LanesInv, LanesApart
  <2> QED
    BY <1>5, <2>1 DEF LanesInv, LanesApart
<1>19. LanesBounded'
  BY <1>1, <1>5, <1>15 DEF LanesInv, LanesBounded
<1>20. LanesWhole'
  BY <1>1, <1>5, <1>6, <1>15 DEF LanesInv, LanesWhole, Intact
<1>21. LanesHold'
  <2>1. PICK K \in SUBSET segments, f \in [Ends -> SUBSET segments] : HeldAs(K, f)
    BY DEF LanesInv, LanesHold
  <2>2. PICK g : g = [f EXCEPT ![l] = {h}]
    OBVIOUS
  <2>3. g \in [Ends -> SUBSET segments'] /\ g[l] = {h} /\ \A m \in Ends : m # l => g[m] = f[m]
    BY <1>5, <2>1, <2>2
  <2>4. f[l] = {}
    BY <1>1, <2>1 DEF HeldAs
  <2>5. segments' = K \cup UNION {g[m] : m \in Ends}
    <3>1. \A x : (\E m \in Ends : x \in g[m]) <=> (\E m \in Ends : x \in f[m]) \/ x = h
      BY <2>3, <2>4
    <3>2. segments = K \cup UNION {f[m] : m \in Ends}
      BY <2>1 DEF HeldAs
    <3> QED
      BY <1>5, <3>1, <3>2
  <2>6. \A m \in Ends : /\ g[m] = {} \/ \E p \in segments' : g[m] = {p}
                        /\ reader'[m] = "body" => g[m] = {}
                        /\ \A q \in g[m], p \in OnLane(m)' : q.at < p.at
    <3>1. ASSUME NEW m \in Ends, m # l
          PROVE  /\ g[m] = {} \/ \E p \in segments' : g[m] = {p}
                 /\ reader'[m] = "body" => g[m] = {}
                 /\ \A q \in g[m], p \in OnLane(m)' : q.at < p.at
      BY <1>5, <1>6, <1>14, <2>1, <2>3, <3>1 DEF HeldAs
    <3>2. /\ \E p \in segments' : g[l] = {p}
          /\ reader'[l] # "body"
          /\ \A q \in g[l], p \in OnLane(l)' : q.at < p.at
      BY <1>5, <1>6, <1>12, <2>3
    <3> QED
      BY <3>1, <3>2
  <2>7. HeldAs(K, g)'
    BY <2>1, <2>5, <2>6 DEF HeldAs
  <2> QED
    BY <1>5, <2>1, <2>3, <2>7 DEF LanesHold
<1> QED
  BY <1>16, <1>17, <1>18, <1>19, <1>20, <1>21 DEF LanesInv

\* The stream hands out the segment at the next offset.
LEMMA TakesKeeps ==
  ASSUME Lengths, LanesInv, Striped!Takes
  PROVE  LanesInv'
<1>1. PICK p \in segments : p.at = next /\ segments' = segments \ {p} /\ next' = next + p.size
  BY DEF Striped!Takes
<1>2. UNCHANGED <<written, striping, bytes, todo, wire, broken, reader, alive, ended>>
  BY DEF Striped!Takes, Striped!writeVars
<1>3. p \in Segs /\ p \in Flow /\ next \in Nat
  BY DEF Flow, LanesInv, LanesTyped
<1>4. \A l \in Ends : OnLane(l)' = OnLane(l) /\ p \notin OnLane(l)
  BY <1>2 DEF OnLane, LanesInv, LanesApart
<1>5. Flow' = Flow \ {p}
  BY <1>1, <1>4 DEF Flow
<1>6. LanesTyped'
  <2>1. segments' \subseteq Segs /\ IsFiniteSet(segments')
    BY <1>1, FS_RemoveElement DEF LanesInv, LanesTyped
  <2>2. next' \in Nat /\ next' <= bytes
    <3>1. p.at + p.size <= bytes
      BY <1>3 DEF LanesInv, LanesBounded
    <3> QED
      BY <1>1, <1>3, <3>1 DEF Segs
  <2> QED
    BY <1>2, <2>1, <2>2 DEF LanesInv, LanesTyped
<1>7. LanesOrdered'
  BY <1>2 DEF LanesInv, LanesOrdered
<1>8. LanesApart'
  BY <1>1, <1>4 DEF LanesInv, LanesApart
<1>9. LanesBounded'
  <2>1. ASSUME NEW q \in Flow' PROVE next' <= q.at
    <3>1. q \in Flow /\ q # p
      BY <1>5, <2>1
    <3>2. q \in Segs /\ next <= q.at /\ Between(p, q)
      BY <1>3, <3>1 DEF LanesInv, LanesBounded
    <3> QED
      BY <1>1, <1>3, <3>1, <3>2 DEF Between, Segs
  <2> QED
    BY <1>2, <1>5, <2>1 DEF LanesInv, LanesBounded
<1>10. LanesWhole'
  <2>1. Sized(Flow)
    BY FlowSized DEF LanesInv
  <2>2. Striped!Size(Flow) = p.size + Striped!Size(Flow \ {p}) /\ Sized(Flow \ {p})
    BY <1>3, <2>1, SizesAdd, FS_RemoveElement DEF Sized
  <2>3. Striped!Size(Flow \ {p}) \in Nat /\ p.size \in Nat
    BY <1>3, <2>2, SizesAdd DEF Segs
  <2>4. Intact' => Intact
    BY <1>2 DEF Intact
  <2>5. PICK z : z = Striped!Size(Flow \ {p})
    OBVIOUS
  <2>6. Intact => next' + z = bytes
    <3>1. Intact => next + (p.size + z) = bytes
      BY <2>2, <2>5 DEF LanesInv, LanesWhole
    <3> QED
      BY <1>1, <1>3, <2>3, <2>5, <3>1
  <2>7. Striped!Size(Flow)' = z
    BY <1>5, <2>5
  <2> QED
    BY <1>2, <2>4, <2>6, <2>7 DEF LanesInv, LanesWhole
<1>11. LanesHold'
  <2>1. PICK K \in SUBSET segments, f \in [Ends -> SUBSET segments] : HeldAs(K, f)
    BY DEF LanesInv, LanesHold
  <2>2. PICK g : g = [m \in Ends |-> f[m] \ {p}]
    OBVIOUS
  <2>3. g \in [Ends -> SUBSET segments'] /\ \A m \in Ends : g[m] = f[m] \ {p}
    BY <1>1, <2>1, <2>2
  <2>4. segments' = (K \ {p}) \cup UNION {g[m] : m \in Ends}
    <3>1. segments = K \cup UNION {f[m] : m \in Ends}
      BY <2>1 DEF HeldAs
    <3>2. \A x : (\E m \in Ends : x \in g[m]) <=> (\E m \in Ends : x \in f[m]) /\ x # p
      BY <2>3
    <3> QED
      BY <1>1, <3>1, <3>2
  <2>5. Striped!Size(K \ {p}) <= StripeHold
    <3>1. Sized(K) /\ Striped!Size(K) <= StripeHold
      BY <2>1, FlowSized DEF HeldAs, LanesInv
    <3>2. CASE p \notin K
      <4>1. K \ {p} = K
        BY <3>2
      <4> QED
        BY <3>1, <4>1
    <3>3. CASE p \in K
      <4>1. Striped!Size(K) = p.size + Striped!Size(K \ {p})
        BY <3>1, <3>3, SizesAdd
      <4>2. Sized(K \ {p})
        BY <3>1, FS_RemoveElement DEF Sized
      <4>3. Striped!Size(K \ {p}) \in Nat /\ p.size \in Nat
        BY <1>3, <4>2, SizesAdd DEF Segs
      <4> QED
        BY <3>1, <4>1, <4>3 DEF Lengths
    <3> QED
      BY <3>2, <3>3
  <2>6. \A m \in Ends : /\ g[m] = {} \/ \E q \in segments' : g[m] = {q}
                        /\ reader'[m] = "body" => g[m] = {}
                        /\ \A q \in g[m], r \in OnLane(m)' : q.at < r.at
    <3>1. ASSUME NEW m \in Ends
          PROVE  /\ g[m] = {} \/ \E q \in segments' : g[m] = {q}
                 /\ reader'[m] = "body" => g[m] = {}
                 /\ \A q \in g[m], r \in OnLane(m)' : q.at < r.at
      <4>1. g[m] = f[m] \ {p} /\ OnLane(m)' = OnLane(m) /\ reader'[m] = reader[m]
        BY <1>2, <1>4, <2>3
      <4>2. f[m] = {} \/ \E q \in segments : f[m] = {q}
        BY <2>1 DEF HeldAs
      <4>3. g[m] = {} \/ \E q \in segments' : g[m] = {q}
        BY <1>1, <4>1, <4>2
      <4> QED
        BY <2>1, <4>1, <4>3 DEF HeldAs
    <3> QED
      BY <3>1
  <2>7. HeldAs(K \ {p}, g)'
    BY <2>4, <2>5, <2>6 DEF HeldAs
  <2>8. K \ {p} \in SUBSET segments'
    BY <1>1, <2>1
  <2> QED
    BY <2>3, <2>7, <2>8 DEF LanesHold
<1> QED
  BY <1>6, <1>7, <1>8, <1>9, <1>10, <1>11 DEF LanesInv

\* A write is cut into segments.
LEMMA SendsKeeps ==
  ASSUME Lengths, LanesInv, Striped!Sends
  PROVE  LanesInv'
<1>1. /\ ~striping /\ written < Len(WriteSizes) /\ written' = written + 1 /\ striping' = TRUE
      /\ bytes' = bytes + WriteSizes[written + 1] /\ todo' = Striped!Cut(bytes, WriteSizes[written + 1])
      /\ UNCHANGED <<wire, broken, reader, segments, next, alive, ended>>
  BY DEF Striped!Sends, Striped!readVars
<1>2. PICK n : n = WriteSizes[written + 1]
  OBVIOUS
<1>3. n \in Nat \ {0} /\ written + 1 \in 1 .. Len(WriteSizes) /\ bytes \in Nat
  BY <1>1, <1>2 DEF LanesInv, LanesTyped, Lengths
<1>4. bytes' = bytes + n /\ todo' = Striped!Cut(bytes, n)
  BY <1>1, <1>2
<1>5. \A l \in Ends : OnLane(l) = {wire[l][k] : k \in 1 .. Len(wire[l])} /\ todo[l] = {}
  BY <1>1 DEF LanesInv, LanesTyped, OnLane
<1>6. \A l \in Ends : OneOf(todo'[l])
  BY <1>3, <1>4, CutParts
<1>7. \A l \in Ends : \A p \in todo'[l] : p \in Segs /\ bytes <= p.at /\ p.at + p.size <= bytes' /\ p.size <= Striped!Longest
  <2>1. \A l \in Ends : \A p \in todo'[l] :
          p \in Segs /\ bytes <= p.at /\ p.at + p.size <= bytes + n /\ (p.size <= Striped!Step(n) \/ p.size < StripeMin)
    BY <1>3, <1>4, CutParts
  <2>2. Striped!Step(n) <= Striped!Longest /\ StripeMin <= Striped!Longest /\ Striped!Longest \in Nat
    BY <1>2, <1>3, LongestWrite
  <2>3. Striped!Step(n) \in Nat /\ StripeMin \in Nat
    BY <1>3, Shares DEF Lengths
  <2>4. \A p \in Segs : p.size \in Nat
    BY DEF Segs
  <2> QED
    BY <1>4, <2>1, <2>2, <2>3, <2>4
<1>8. \A l, m \in Ends : l < m => \A p \in todo'[l], q \in todo'[m] : p.at + p.size <= q.at
  BY <1>3, <1>4, CutParts
<1>9. \A p \in Flow : p \in Segs /\ next <= p.at /\ p.at + p.size <= bytes /\ p.size <= Striped!Longest /\ p.at < bytes
  BY <1>3 DEF LanesInv, LanesBounded, Segs
<1>10. \A l \in Ends : OnLane(l)' = OnLane(l) \cup todo'[l]
  BY <1>1, <1>5 DEF OnLane
<1>11. Flow' = Flow \cup UNION {todo'[l] : l \in Ends}
  <2>1. \A x : (\E l \in Ends : x \in OnLane(l)') <=> (\E l \in Ends : x \in OnLane(l)) \/ (\E l \in Ends : x \in todo'[l])
    BY <1>10
  <2> QED
    BY <1>1, <2>1 DEF Flow
<1>12. \A l, m \in Ends : l # m => \A p \in todo'[l], q \in todo'[m] : Between(p, q) /\ p # q
  <2> SUFFICES ASSUME NEW l \in Ends, NEW m \in Ends, l # m, NEW p \in todo'[l], NEW q \in todo'[m]
               PROVE  Between(p, q) /\ p # q
    OBVIOUS
  <2>1. p \in Segs /\ q \in Segs
    BY <1>7
  <2>2. l < m \/ m < l
    BY DEF Ends
  <2>3. p.at + p.size <= q.at \/ q.at + q.size <= p.at
    BY <1>8, <2>2
  <2> QED
    BY <2>1, <2>3 DEF Between, Segs
<1>13. \A p \in Flow, l \in Ends : \A q \in todo'[l] : Between(p, q) /\ Between(q, p) /\ p.at < q.at /\ p # q
  <2> SUFFICES ASSUME NEW p \in Flow, NEW l \in Ends, NEW q \in todo'[l]
               PROVE  Between(p, q) /\ Between(q, p) /\ p.at < q.at /\ p # q
    OBVIOUS
  <2>1. p \in Segs /\ q \in Segs /\ p.at + p.size <= bytes /\ p.at < bytes /\ bytes <= q.at
    BY <1>7, <1>9
  <2> QED
    BY <1>3, <2>1 DEF Between, Segs
<1>14. LanesTyped'
  <2>1. todo' \in [Ends -> SUBSET Segs]
    <3>1. todo' = [l \in Ends |-> todo'[l]]
      BY <1>4, EndsAre DEF Striped!Cut
    <3> QED
      BY <1>7, <3>1
  <2>2. bytes' \in Nat /\ written' \in 0 .. Len(WriteSizes) /\ striping' = TRUE
    BY <1>1, <1>3, <1>4 DEF Lengths
  <2> QED
    <3>1. wire' \in [Ends -> Seq(Segs)] /\ broken' \in [Ends -> BOOLEAN] /\ segments' \subseteq Segs
          /\ reader' \in [Ends -> {"head", "checks", "body", "ended"}]
          /\ \A l \in Ends : reader'[l] \in {"checks", "body"} => wire'[l] # <<>>
      BY <1>1 DEF LanesInv, LanesTyped
    <3>2. IsFiniteSet(segments')
      BY <1>1 DEF LanesInv, LanesTyped
    <3>3. next' \in Nat /\ next' <= bytes'
      BY <1>1, <1>3, <1>4 DEF LanesInv, LanesTyped
    <3>4. striping' \in BOOLEAN /\ ~(~striping')
      BY <2>2
    <3> QED
      BY <1>6, <2>1, <2>2, <3>1, <3>2, <3>3, <3>4 DEF LanesTyped
<1>15. LanesOrdered'
  <2>1. \A l \in Ends : \A i \in 1 .. Len(wire[l]) : \A p \in todo'[l] : wire[l][i].at < p.at
    <3> SUFFICES ASSUME NEW l \in Ends, NEW i \in 1 .. Len(wire[l]), NEW p \in todo'[l] PROVE wire[l][i].at < p.at
      OBVIOUS
    <3>1. wire[l][i] \in Flow
      BY DEF Flow, OnLane
    <3> QED
      BY <1>13, <3>1
  <2> QED
    BY <1>1, <2>1 DEF LanesInv, LanesOrdered
<1>16. LanesApart'
  <2>1. \A l \in Ends : OnLane(l) \subseteq Flow /\ segments \subseteq Flow
    BY DEF Flow
  <2>2. \A l, m \in Ends : OnLane(l) \cap todo'[m] = {} /\ segments \cap todo'[m] = {}
    BY <1>13, <2>1
  <2>3. \A l, m \in Ends : l # m => todo'[l] \cap todo'[m] = {}
    BY <1>12
  <2> QED
    BY <1>1, <1>10, <2>2, <2>3 DEF LanesInv, LanesApart
<1>17. LanesBounded'
  <2>1. \A x \in Flow' : x \in Flow \/ \E l \in Ends : x \in todo'[l]
    BY <1>11
  <2>2. ASSUME NEW x \in Flow' PROVE x \in Segs /\ next' <= x.at /\ x.at + x.size <= bytes' /\ x.size <= Striped!Longest
    <3>1. next \in Nat /\ next <= bytes
      BY DEF LanesInv, LanesTyped
    <3>2. CASE x \in Flow
      BY <1>1, <1>3, <1>4, <1>9, <3>2 DEF Segs
    <3>3. CASE \E l \in Ends : x \in todo'[l]
      BY <1>1, <1>3, <1>7, <3>1, <3>3 DEF Segs
    <3> QED
      BY <2>1, <3>2, <3>3
  <2>3. ASSUME NEW p \in Flow', NEW q \in Flow' PROVE Between(p, q)
    <3>1. CASE p \in Flow /\ q \in Flow
      BY <3>1 DEF LanesInv, LanesBounded
    <3>2. CASE p \in Flow /\ \E l \in Ends : q \in todo'[l]
      BY <1>13, <3>2
    <3>3. CASE q \in Flow /\ \E l \in Ends : p \in todo'[l]
      BY <1>13, <3>3
    <3>4. ASSUME NEW l \in Ends, NEW m \in Ends, p \in todo'[l], q \in todo'[m] PROVE Between(p, q)
      <4>1. CASE l # m
        BY <1>12, <3>4, <4>1
      <4>2. CASE l = m
        <5>1. p = q
          BY <1>6, <3>4, <4>2 DEF OneOf
        <5> QED
          BY <5>1 DEF Between
      <4> QED
        BY <4>1, <4>2
    <3> QED
      BY <2>1, <3>1, <3>2, <3>3, <3>4
  <2> QED
    BY <2>2, <2>3 DEF LanesBounded
<1>18. LanesWhole'
  <2>1. Sized(Flow) /\ \A x \in Flow : x.at < bytes
    BY <1>9, FlowSized DEF LanesInv
  <2>2. PICK S : S = Flow
    OBVIOUS
  <2>3. Striped!Size(S \cup UNION {Striped!Cut(bytes, n)[l] : l \in Ends}) = Striped!Size(S) + n
    BY <1>3, <2>1, <2>2, CutWhole
  <2>4. Flow' = S \cup UNION {Striped!Cut(bytes, n)[l] : l \in Ends}
    BY <1>4, <1>11, <2>2
  <2>5. PICK z : z = Striped!Size(S) /\ z \in Nat
    BY <2>1, <2>2, SizesAdd
  <2>6. Striped!Size(Flow)' = z + n
    BY <2>3, <2>4, <2>5
  <2>7. Intact' => Intact
    BY <1>1 DEF Intact
  <2>8. Intact => next + z = bytes
    BY <2>2, <2>5 DEF LanesInv, LanesWhole
  <2>9. next \in Nat
    BY DEF LanesInv, LanesTyped
  <2>10. Intact => next' + (z + n) = bytes'
    BY <1>1, <1>3, <1>4, <2>5, <2>8, <2>9
  <2> QED
    BY <1>1, <2>6, <2>7, <2>10 DEF LanesInv, LanesWhole
<1>19. LanesHold'
  <2>1. PICK K \in SUBSET segments, f \in [Ends -> SUBSET segments] : HeldAs(K, f)
    BY DEF LanesInv, LanesHold
  <2>2. ASSUME NEW l \in Ends, NEW q \in f[l], NEW p \in OnLane(l)' PROVE q.at < p.at
    <3>1. q \in Flow
      BY <2>1, <2>2 DEF Flow
    <3> QED
      BY <1>10, <1>13, <2>1, <2>2, <3>1 DEF HeldAs
  <2>3. HeldAs(K, f)'
    BY <1>1, <2>1, <2>2 DEF HeldAs
  <2> QED
    BY <1>1, <2>1, <2>3 DEF LanesHold
<1> QED
  BY <1>14, <1>15, <1>16, <1>17, <1>18, <1>19 DEF LanesInv

\* Before the first write.
LEMMA LanesBegin ==
  ASSUME Lengths, Striped!LanesInit
  PROVE  LanesInv
<1>1. /\ written = 0 /\ striping = FALSE /\ bytes = 0 /\ todo = [l \in Ends |-> {}] /\ wire = [l \in Ends |-> <<>>]
      /\ broken = [l \in Ends |-> FALSE] /\ reader = [l \in Ends |-> "head"] /\ segments = {} /\ next = 0
      /\ alive = Wires /\ ended = FALSE
  BY EndsAre DEF Striped!LanesInit
<1>2. \A l \in Ends : OnLane(l) = {} /\ todo[l] = {} /\ wire[l] = <<>> /\ reader[l] = "head"
  BY <1>1 DEF OnLane
<1>3. Flow = {}
  BY <1>1, <1>2 DEF Flow
<1>4. LanesTyped
  <2>1. IsFiniteSet(segments)
    BY <1>1, FS_EmptySet
  <2>2. todo \in [Ends -> SUBSET Segs] /\ wire \in [Ends -> Seq(Segs)] /\ broken \in [Ends -> BOOLEAN]
        /\ reader \in [Ends -> {"head", "checks", "body", "ended"}]
    BY <1>1
  <2>3. written \in 0 .. Len(WriteSizes)
    BY <1>1 DEF Lengths
  <2> QED
    <3>1. \A l \in Ends : OneOf(todo[l])
      BY <1>2 DEF OneOf
    <3>2. bytes \in Nat /\ next \in Nat /\ next <= bytes /\ segments \subseteq Segs
      BY <1>1
    <3>3. striping \in BOOLEAN
      BY <1>1
    <3>4. \A l \in Ends : reader[l] \notin {"checks", "body"}
      BY <1>2
    <3> QED
      BY <1>2, <2>1, <2>2, <2>3, <3>1, <3>2, <3>3, <3>4 DEF LanesTyped
<1>5. LanesOrdered /\ LanesApart /\ LanesBounded
  BY <1>2, <1>3 DEF LanesOrdered, LanesApart, LanesBounded
<1>6. LanesWhole
  BY <1>1, <1>2, <1>3, SizesAdd DEF LanesWhole
<1>7. LanesHold
  <2>1. PICK f : f = [l \in Ends |-> {}]
    OBVIOUS
  <2>2. f \in [Ends -> SUBSET segments] /\ \A l \in Ends : f[l] = {}
    BY <2>1
  <2>3. segments = {} \cup UNION {f[l] : l \in Ends}
    BY <1>1, <2>2
  <2>4. Striped!Size({}) <= StripeHold
    BY SizesAdd DEF Lengths
  <2>5. HeldAs({}, f)
    BY <2>2, <2>3, <2>4 DEF HeldAs
  <2>6. {} \in SUBSET segments
    OBVIOUS
  <2> QED
    BY <2>2, <2>5, <2>6 DEF LanesHold
<1> QED
  BY <1>4, <1>5, <1>6, <1>7 DEF LanesInv

\* Every step of a sender, a lane or a reader.
LEMMA LanesStep ==
  ASSUME Lengths, LanesInv, Striped!LanesNext \/ UNCHANGED laneVars
  PROVE  LanesInv'
<1>1. CASE UNCHANGED laneVars
  <2>1. UNCHANGED <<written, striping, bytes, todo, wire, broken, reader, segments, next, alive, ended>>
    BY <1>1 DEF laneVars
  <2>2. \A l \in Ends : OnLane(l)' = OnLane(l)
    BY <2>1 DEF OnLane
  <2>3. Flow' = Flow
    BY <2>1, <2>2 DEF Flow
  <2>4. LanesTyped' /\ LanesOrdered'
    BY <2>1 DEF LanesInv, LanesTyped, LanesOrdered
  <2>5. LanesWhole'
    BY <2>1, <2>3 DEF LanesInv, LanesWhole, Intact
  <2> QED
    BY <2>1, <2>2, <2>4, <2>5, Fewer DEF LanesInv
<1>2. ASSUME NEW l \in Ends, Striped!Puts(l) \/ Striped!Breaks(l) \/ Striped!ReaderSteps(l)
      PROVE  LanesInv'
  BY <1>2, PutsKeeps, BreaksKeeps, ReadsHeaderKeeps, LosesLaneKeeps, ChecksKeeps, StoresKeeps DEF Striped!ReaderSteps
<1>3. CASE Striped!LanesNext
  BY <1>2, <1>3, EndsAre, SendsKeeps, SentKeeps, TakesKeeps DEF Striped!LanesNext
<1> QED
  BY <1>1, <1>3

\* What is on its way accounts for every byte, and the hold is kept.
LEMMA StreamWholeHolds ==
  ASSUME Lengths, LanesInv
  PROVE  Striped!StreamWhole
<1>1. Striped!OnTheWay = Flow
  BY FlowIs DEF LanesInv
<1>2. ~TRUE \in Striped!Range(broken) => Intact
  BY DEF Striped!Range, Intact, LanesInv, LanesTyped
<1>3. Intact => next + Striped!Size(Flow) = bytes /\ alive = Wires /\ ~ended
  BY DEF LanesInv, LanesWhole
<1>4. ASSUME NEW p \in Flow, NEW q \in Flow, p.at <= q.at
      PROVE  p = q \/ p.at + p.size <= q.at
  <2>1. p \in Segs /\ q \in Segs /\ Between(p, q)
    BY DEF LanesInv, LanesBounded
  <2> QED
    BY <1>4, <2>1 DEF Between, Segs
<1>5. ASSUME NEW p \in segments
      PROVE  p.at >= next
  <2>1. p \in Flow
    BY DEF Flow
  <2>2. next <= p.at /\ p \in Segs /\ next \in Nat
    BY <2>1 DEF LanesInv, LanesBounded, LanesTyped
  <2> QED
    BY <2>2 DEF Segs
<1>6. Striped!Held <= StripeHold + Wires * Striped!Longest
  <2>1. PICK K \in SUBSET segments, f \in [Ends -> SUBSET segments] : HeldAs(K, f)
    BY DEF LanesInv, LanesHold
  <2>2. \A l \in Ends : f[l] = {} \/ \E p \in Segs : f[l] = {p} /\ p.size <= Striped!Longest
    <3>1. \A p \in segments : p \in Segs /\ p.size <= Striped!Longest
      BY DEF Flow, LanesInv, LanesBounded
    <3> QED
      BY <2>1, <3>1 DEF HeldAs
  <2>3. Sized(K)
    BY FlowSized DEF LanesInv
  <2>4. Striped!Longest \in Nat
    BY LongestWrite
  <2>5. segments = K \cup UNION {f[l] : l \in Ends} /\ Striped!Size(K) <= StripeHold
    BY <2>1 DEF HeldAs
  <2>6. Striped!Size(K \cup UNION {f[l] : l \in Ends}) <= Striped!Size(K) + Wires * Striped!Longest
    BY <2>2, <2>3, <2>4, SumBound
  <2>7. Striped!Size(segments) \in Nat /\ Striped!Size(K) \in Nat
    BY <2>3, FlowSized, SizesAdd DEF LanesInv
  <2>8. Wires * Striped!Longest \in Nat
    BY <2>4 DEF Lengths
  <2> QED
    BY <2>5, <2>6, <2>7, <2>8 DEF Striped!Held, Lengths
<1> QED
  BY <1>1, <1>2, <1>3, <1>4, <1>5, <1>6 DEF Striped!StreamWhole

-----------------------------------------------------------------------------
(* Pipelines: places in a queue. *)

\* How many of the first i members of a queue are of a stream.
Before(q, s, i) == Cardinality({j \in 1 .. i : q[j].on = s})

\* One more member of the queue.
LEMMA BeforeStep ==
  ASSUME NEW q, NEW s, NEW i \in Nat, NEW k \in Nat, k = i + 1
  PROVE  /\ Before(q, s, i) \in Nat /\ Before(q, s, k) \in Nat /\ Before(q, s, 0) = 0
         /\ q[k].on = s => Before(q, s, k) = Before(q, s, i) + 1
         /\ q[k].on # s => Before(q, s, k) = Before(q, s, i)
<1> DEFINE T(j) == {x \in 1 .. j : q[x].on = s}
<1>1. \A j \in Nat : IsFiniteSet(T(j)) /\ Cardinality(T(j)) \in Nat
  <2> SUFFICES ASSUME NEW j \in Nat PROVE IsFiniteSet(T(j)) /\ Cardinality(T(j)) \in Nat
    OBVIOUS
  <2>1. IsFiniteSet(1 .. j) /\ T(j) \subseteq 1 .. j
    BY FS_Interval
  <2> QED
    BY <2>1, FS_Subset, FS_CardinalityType
<1>2. T(0) = {}
  OBVIOUS
<1>3. q[k].on = s => Cardinality(T(k)) = Cardinality(T(i)) + 1
  <2> SUFFICES ASSUME q[k].on = s PROVE Cardinality(T(k)) = Cardinality(T(i)) + 1
    OBVIOUS
  <2>1. T(k) = T(i) \cup {k} /\ k \notin T(i)
    OBVIOUS
  <2> QED
    BY <1>1, <2>1, FS_AddElement
<1>4. q[k].on # s => T(k) = T(i)
  OBVIOUS
<1>5. Cardinality(T(0)) = 0
  BY <1>2, FS_EmptySet
<1>6. \A j : Before(q, s, j) = Cardinality(T(j))
  BY DEF Before
<1> HIDE DEF T
<1> QED
  BY <1>1, <1>3, <1>4, <1>5, <1>6

\* The same, for any two numbers that follow each other.
LEMMA BeforeNext ==
  \A q, s : \A i, k \in Nat : k = i + 1 => /\ (q[k].on = s => Before(q, s, k) = Before(q, s, i) + 1)
                                           /\ (q[k].on # s => Before(q, s, k) = Before(q, s, i))
  BY BeforeStep

\* It is a number,
LEMMA BeforeNat ==
  \A q, s : \A i \in Nat : Before(q, s, i) \in Nat
<1> SUFFICES ASSUME NEW q, NEW s, NEW i \in Nat PROVE Before(q, s, i) \in Nat
  OBVIOUS
<1>1. i + 1 \in Nat
  OBVIOUS
<1> QED
  BY <1>1, BeforeStep

\* which only grows along the queue,
LEMMA BeforeGrows ==
  ASSUME NEW q, NEW s, NEW i \in Nat, NEW k \in Nat, i <= k
  PROVE  Before(q, s, i) <= Before(q, s, k)
<1> DEFINE T(j) == {x \in 1 .. j : q[x].on = s}
<1>1. IsFiniteSet(T(k)) /\ T(i) \subseteq T(k)
  <2>1. IsFiniteSet(1 .. k) /\ T(k) \subseteq 1 .. k /\ T(i) \subseteq T(k)
    BY FS_Interval
  <2> QED
    BY <2>1, FS_Subset
<1>2. Cardinality(T(i)) <= Cardinality(T(k))
  BY <1>1, FS_Subset
<1> QED
  BY <1>2 DEF Before

\* and is none where no member is of the stream.
LEMMA BeforeNone ==
  ASSUME NEW q, NEW s, NEW i \in Nat, \A j \in 1 .. i : q[j].on # s
  PROVE  Before(q, s, i) = 0
<1>1. {j \in 1 .. i : q[j].on = s} = {}
  OBVIOUS
<1> QED
  BY <1>1, FS_EmptySet DEF Before

\* One more at the end of the queue.
LEMMA BeforeAppend ==
  ASSUME NEW R, NEW q \in Seq(R), NEW e \in R, NEW s
  PROVE  /\ \A i \in 0 .. Len(q) : Before(Append(q, e), s, i) = Before(q, s, i)
         /\ e.on = s => Before(Append(q, e), s, Len(q) + 1) = Before(q, s, Len(q)) + 1
         /\ e.on # s => Before(Append(q, e), s, Len(q) + 1) = Before(q, s, Len(q))
<1> DEFINE z == Append(q, e)
<1>1. \A i \in 0 .. Len(q) : Before(z, s, i) = Before(q, s, i)
  <2> SUFFICES ASSUME NEW i \in 0 .. Len(q) PROVE Before(z, s, i) = Before(q, s, i)
    OBVIOUS
  <2>1. \A j \in 1 .. i : z[j] = q[j]
    OBVIOUS
  <2>2. {j \in 1 .. i : z[j].on = s} = {j \in 1 .. i : q[j].on = s}
    BY <2>1
  <2> QED
    BY <2>2 DEF Before
<1>2. z[Len(q) + 1] = e /\ Len(q) \in Nat /\ Len(q) + 1 \in Nat
  OBVIOUS
<1> HIDE DEF z
<1>3. /\ z[Len(q) + 1].on = s => Before(z, s, Len(q) + 1) = Before(z, s, Len(q)) + 1
      /\ z[Len(q) + 1].on # s => Before(z, s, Len(q) + 1) = Before(z, s, Len(q))
  BY ONLY <1>2, BeforeNext
<1>4. Before(z, s, Len(q)) = Before(q, s, Len(q))
  BY <1>1, <1>2
<1> QED
  BY <1>1, <1>2, <1>3, <1>4 DEF z

\* One less at its front: else there were a least place where this goes wrong.
LEMMA BeforeTail ==
  ASSUME NEW R, NEW q \in Seq(R), q # <<>>, NEW s
  PROVE  \A i \in 0 .. Len(q) - 1 : /\ q[1].on = s => Before(q, s, i + 1) = 1 + Before(Tail(q), s, i)
                                    /\ q[1].on # s => Before(q, s, i + 1) = Before(Tail(q), s, i)
<1> DEFINE first == IF q[1].on = s THEN 1 ELSE 0
           t == Tail(q)
           Odd == {i \in 0 .. Len(q) - 1 : Before(q, s, i + 1) # first + Before(t, s, i)}
<1>0. Len(q) \in Nat /\ Len(q) > 0 /\ \A i \in 1 .. Len(q) - 1 : t[i] = q[i + 1]
  OBVIOUS
<1>4. first \in Nat /\ (q[1].on = s => first = 1) /\ (q[1].on # s => first = 0)
  OBVIOUS
<1> HIDE DEF first, t
<1>1. Odd = {}
  <2>1. SUFFICES ASSUME Odd # {} PROVE FALSE
    OBVIOUS
  <2>2. Odd \subseteq Nat
    BY <1>0
  <2>3. PICK i \in Odd : \A k \in Odd : i <= k
    <3> HIDE DEF Odd
    <3> QED
      BY <2>1, <2>2, LeastNat
  <2>4. CASE i = 0
    <3>1. /\ Before(q, s, 0) = 0 /\ Before(t, s, 0) = 0
          /\ q[1].on = s => Before(q, s, 1) = Before(q, s, 0) + 1
          /\ q[1].on # s => Before(q, s, 1) = Before(q, s, 0)
      BY BeforeStep
    <3>2. Before(q, s, i + 1) # first + Before(t, s, i)
      BY <2>3
    <3> QED
      BY <1>4, <2>4, <3>1, <3>2
  <2>5. CASE i # 0
    <3>1. PICK k \in Nat : i = k + 1 /\ k \in 0 .. Len(q) - 1 /\ k + 1 \in 1 .. Len(q) - 1
      <4>1. i - 1 \in Nat /\ i = (i - 1) + 1 /\ i - 1 \in 0 .. Len(q) - 1 /\ (i - 1) + 1 \in 1 .. Len(q) - 1
        BY <1>0, <2>3, <2>5
      <4> QED
        BY <4>1
    <3>2. Before(q, s, i) = first + Before(t, s, k)
      <4>1. k \notin Odd
        BY <2>3, <3>1
      <4> QED
        BY <3>1, <4>1
    <3>3. i \in Nat /\ i + 1 \in Nat
      BY <3>1
    <3>4. /\ q[i + 1].on = s => Before(q, s, i + 1) = Before(q, s, i) + 1
          /\ q[i + 1].on # s => Before(q, s, i + 1) = Before(q, s, i)
      BY ONLY <3>3, BeforeNext
    <3>5. /\ t[i].on = s => Before(t, s, i) = Before(t, s, k) + 1
          /\ t[i].on # s => Before(t, s, i) = Before(t, s, k)
      BY ONLY <3>1, <3>3, BeforeNext
    <3>10. Before(t, s, k) \in Nat
      BY <3>1, BeforeNat
    <3>6. t[i] = q[i + 1]
      BY <1>0, <3>1
    <3>7. Before(q, s, i + 1) = first + Before(t, s, i)
      BY <1>4, <3>2, <3>4, <3>5, <3>6, <3>10
    <3> QED
      BY <2>3, <3>7
  <2> QED
    BY <2>4, <2>5
<1>2. \A i \in 0 .. Len(q) - 1 : Before(q, s, i + 1) = first + Before(t, s, i) /\ Before(t, s, i) \in Nat
  <2>1. \A i \in 0 .. Len(q) - 1 : i \in Nat /\ i + 1 \in Nat
    BY <1>0
  <2> QED
    BY <1>1, <2>1, BeforeNat
<1> QED
  BY <1>2, <1>4 DEF t

\* The replies, the requests and what a pipeline does that has one.
Whats == {"value", "last", "refused"}
Jobs == [on : Nat, parts : Nat \ {0}]
Replies == [on : Nat, what : Whats]
Waits == put \in {"ready", "sends", "drains", "drained"}

\* The types, and that every stream in use was numbered and is kept.
PipeTyped ==
  /\ numbered \in 0 .. Streams /\ open \subseteq 1 .. numbered
  /\ inbox \in [1 .. Streams -> Seq(Whats)] /\ done \in [1 .. Streams -> Seq(Whats)]
  /\ put \in {"idle", "ready", "sends", "drains", "drained", "failed"} /\ get \in {"idle", "waits"}
  /\ sent \in Nat /\ answered \in Nat /\ taken \in Nat /\ given \in Nat
  /\ dataJobs \in Seq(Jobs) /\ replies \in Seq(Replies)
  /\ lost => dataJobs = <<>> /\ replies = <<>>
  /\ \A i \in 1 .. Len(dataJobs) : dataJobs[i].on \in 1 .. numbered
  /\ \A i \in 1 .. Len(replies) : replies[i].on \in 1 .. numbered
  /\ put # "idle" => putOn \in open
  /\ get = "waits" => getOn \in open
  /\ put # "idle" /\ get = "waits" => putOn # getOn
  /\ put # "idle" => \A i \in 1 .. Len(dataJobs) : dataJobs[i].on = putOn => dataJobs[i].parts = 1

\* What the worker answered on a stream is what was counted of it, what has arrived and what
\* is on its way, in this order.
Follows(s, c) ==
  /\ c + Len(inbox[s]) + Before(replies, s, Len(replies)) <= Len(done[s])
  /\ ~lost => c + Len(inbox[s]) + Before(replies, s, Len(replies)) = Len(done[s])
  /\ \A n \in 1 .. Len(inbox[s]) : inbox[s][n] = done[s][c + n]
  /\ \A i \in 1 .. Len(replies) :
       replies[i].on = s => replies[i].what = done[s][c + Len(inbox[s]) + Before(replies, s, i)]
\* A pipeline has counted values only, and has no more unanswered than the window.
Counted ==
  /\ \A n \in 1 .. answered : done[putOn][n] = "value"
  /\ \A n \in 1 .. Len(done[putOn]) : done[putOn][n] \in {"value", "refused"}
  /\ Len(done[putOn]) + Before(dataJobs, putOn, Len(dataJobs)) <= sent /\ sent <= answered + Window
  /\ put = "drained" => sent <= answered

\* What the threads of a connection and the worker keep of each other.
PipeInv ==
  /\ PipeTyped
  /\ get = "waits" => Follows(getOn, taken)
  /\ Waits => Follows(putOn, answered) /\ Counted

\* A step that leaves a stream alone.
LEMMA FollowsOn ==
  ASSUME NEW s, NEW c, Follows(s, c), UNCHANGED <<replies, lost>>, inbox'[s] = inbox[s], done'[s] = done[s]
  PROVE  Follows(s, c)'
  BY DEF Follows

-----------------------------------------------------------------------------
(* Pipelines: streams opened and forgotten. *)

\* A stream that is kept is one of those opened.
LEMMA StreamsOf ==
  ASSUME Limits, PipeTyped
  PROVE  /\ numbered \in Nat /\ Streams \in Nat /\ open \subseteq 1 .. Streams
         /\ \A s \in open : s \in 1 .. numbered /\ s \in 1 .. Streams /\ inbox[s] \in Seq(Whats) /\ done[s] \in Seq(Whats)
<1>1. numbered \in 0 .. Streams /\ Streams \in Nat /\ open \subseteq 1 .. numbered
  BY DEF Limits, PipeTyped
<1>2. numbered \in Nat /\ 1 .. numbered \subseteq 1 .. Streams
  BY <1>1
<1>3. \A s \in 1 .. Streams : inbox[s] \in Seq(Whats) /\ done[s] \in Seq(Whats)
  BY DEF PipeTyped
<1> QED
  BY <1>1, <1>2, <1>3

\* A stream that is opened begins empty, and leaves the others alone.
LEMMA OpensKeeps ==
  ASSUME Limits, PipeTyped, Pipe!MayOpen, Pipe!Opens(Pipe!Fresh), UNCHANGED <<replies, lost>>,
         NEW n, n = numbered + 1
  PROVE  /\ numbered' = n /\ numbered' \in 0 .. Streams /\ open' = open \cup {n}
         /\ open' \subseteq 1 .. numbered' /\ n \notin open /\ ~lost
         /\ inbox' \in [1 .. Streams -> Seq(Whats)] /\ done' \in [1 .. Streams -> Seq(Whats)]
         /\ Len(done'[n]) = 0 /\ Follows(n, 0)'
         /\ \A s \in open : \A c : inbox'[s] = inbox[s] /\ done'[s] = done[s] /\ (Follows(s, c) => Follows(s, c)')
<1>2. /\ numbered < Streams /\ ~lost /\ numbered' = n /\ open' = open \cup {n}
      /\ inbox' = [inbox EXCEPT ![n] = <<>>] /\ done' = [done EXCEPT ![n] = <<>>]
  BY DEF Pipe!MayOpen, Pipe!Opens, Pipe!Fresh, Pipe!Clear
<1>3. n \in 1 .. Streams /\ numbered \in Nat /\ n \notin open /\ open \subseteq 1 .. numbered
  BY <1>2, StreamsOf DEF PipeTyped, Limits
<1>4. /\ inbox' \in [1 .. Streams -> Seq(Whats)] /\ done' \in [1 .. Streams -> Seq(Whats)]
      /\ inbox'[n] = <<>> /\ done'[n] = <<>> /\ \A s \in open : inbox'[s] = inbox[s] /\ done'[s] = done[s]
  BY <1>2, <1>3 DEF PipeTyped
<1>5. Follows(n, 0)'
  <2>1. \A i \in 1 .. Len(replies) : replies[i].on # n
    BY <1>3 DEF PipeTyped
  <2>2. Len(replies) \in Nat
    BY DEF PipeTyped
  <2>3. Before(replies, n, Len(replies)) = 0
    BY <2>1, <2>2, BeforeNone
  <2>4. Len(inbox'[n]) = 0 /\ Len(done'[n]) = 0
    BY <1>4
  <2> QED
    BY <2>1, <2>3, <2>4 DEF Follows
<1>6. \A s \in open : \A c : Follows(s, c) => Follows(s, c)'
  BY <1>4 DEF Follows
<1>7. Len(done'[n]) = 0
  BY <1>4
<1>8. open' \subseteq 1 .. numbered' /\ numbered' \in 0 .. Streams
  BY <1>2, <1>3
<1> QED
  BY <1>2, <1>3, <1>4, <1>5, <1>6, <1>7, <1>8

\* A stream that is forgotten leaves the others alone.
LEMMA ForgetsKeeps ==
  ASSUME Limits, PipeTyped, NEW s, s \in open, Pipe!Forgets(s), UNCHANGED <<replies, lost>>
  PROVE  /\ numbered' = numbered /\ open' = open \ {s} /\ open' \subseteq 1 .. numbered'
         /\ inbox' \in [1 .. Streams -> Seq(Whats)] /\ done' \in [1 .. Streams -> Seq(Whats)]
         /\ \A r \in open' : \A c : done'[r] = done[r] /\ (Follows(r, c) => Follows(r, c)')
<1>1. /\ numbered' = numbered /\ open' = open \ {s}
      /\ inbox' = [inbox EXCEPT ![s] = <<>>] /\ done' = [done EXCEPT ![s] = <<>>]
  BY DEF Pipe!Forgets, Pipe!Clear
<1>2. s \in 1 .. Streams /\ open \subseteq 1 .. numbered
  BY StreamsOf DEF PipeTyped
<1>3. /\ inbox' \in [1 .. Streams -> Seq(Whats)] /\ done' \in [1 .. Streams -> Seq(Whats)]
      /\ \A r \in open' : inbox'[r] = inbox[r] /\ done'[r] = done[r]
  BY <1>1, <1>2 DEF PipeTyped
<1>4. \A r \in open' : \A c : Follows(r, c) => Follows(r, c)'
  BY <1>3 DEF Follows
<1> QED
  BY <1>1, <1>2, <1>3, <1>4

\* A pipeline is opened.
LEMMA OpenPipelineKeeps ==
  ASSUME Limits, PipeInv, Pipe!OpenPipeline
  PROVE  PipeInv'
<1>1. /\ put = "idle" /\ Pipe!MayOpen /\ Pipe!Opens(Pipe!Fresh) /\ put' = "ready" /\ putOn' = numbered + 1
      /\ sent' = 0 /\ answered' = 0 /\ UNCHANGED <<get, getOn, taken, dataJobs, given, replies, lost>>
  BY DEF Pipe!OpenPipeline, Pipe!getVars, Pipe!linkVars, Pipe!Fresh
<1>2. PipeTyped
  BY DEF PipeInv
<1>3. PICK n : n = numbered + 1
  OBVIOUS
<1>4. /\ numbered' = n /\ numbered' \in 0 .. Streams /\ open' = open \cup {n}
      /\ open' \subseteq 1 .. numbered' /\ n \notin open /\ ~lost
      /\ inbox' \in [1 .. Streams -> Seq(Whats)] /\ done' \in [1 .. Streams -> Seq(Whats)]
      /\ Len(done'[n]) = 0 /\ Follows(n, 0)'
      /\ \A s \in open : \A c : Follows(s, c) => Follows(s, c)'
  BY <1>1, <1>2, <1>3, OpensKeeps
<1>5. \A i \in 1 .. Len(dataJobs) : dataJobs[i].on \in 1 .. numbered /\ dataJobs[i].on # n
  BY <1>2, <1>3 DEF PipeTyped
<1>6. \A i \in 1 .. Len(replies) : replies[i].on \in 1 .. numbered
  BY <1>2 DEF PipeTyped
<1>7. numbered \in Nat /\ 1 .. numbered \subseteq 1 .. numbered'
  BY <1>2, <1>3, <1>4 DEF PipeTyped
<1>8. PipeTyped'
  <2>1. \A i \in 1 .. Len(dataJobs) : dataJobs[i].on \in 1 .. numbered'
    BY <1>5, <1>7
  <2>2. \A i \in 1 .. Len(replies) : replies[i].on \in 1 .. numbered'
    BY <1>6, <1>7
  <2>3. get' = "waits" => getOn' \in open' /\ getOn' # n
    BY <1>1, <1>2, <1>4 DEF PipeTyped
  <2> QED
    BY <1>1, <1>2, <1>3, <1>4, <1>5, <2>1, <2>2, <2>3 DEF PipeTyped
<1>9. (get = "waits" => Follows(getOn, taken))'
  BY <1>1, <1>2, <1>4 DEF PipeInv, PipeTyped
<1>10. Follows(putOn, answered)'
  BY <1>1, <1>3, <1>4 DEF Follows
<1>11. Counted'
  <2>1. Before(dataJobs, n, Len(dataJobs)) = 0
    <3>1. Len(dataJobs) \in Nat
      BY <1>2 DEF PipeTyped
    <3> QED
      BY <1>5, <3>1, BeforeNone
  <2>2. putOn' = n /\ put' # "drained" /\ Window \in Nat
    BY <1>1, <1>3 DEF Limits
  <2> QED
    BY <1>1, <1>4, <2>1, <2>2 DEF Counted
<1> QED
  BY <1>8, <1>9, <1>10, <1>11 DEF PipeInv

\* A request in pieces is sent.
LEMMA AskKeeps ==
  ASSUME Limits, PipeInv, Pipe!Ask
  PROVE  PipeInv'
<1>1. PICK n : n = numbered + 1
  OBVIOUS
<1>2. /\ get = "idle" /\ Pipe!MayOpen /\ Pipe!Opens(Pipe!Fresh) /\ get' = "waits" /\ getOn' = n /\ taken' = 0
      /\ dataJobs' = Append(dataJobs, [on |-> n, parts |-> Parts])
      /\ UNCHANGED <<put, putOn, sent, answered, given, replies, lost>>
  BY <1>1 DEF Pipe!Ask, Pipe!putVars, Pipe!Fresh
<1>3. PipeTyped
  BY DEF PipeInv
<1>4. /\ numbered' = n /\ numbered' \in 0 .. Streams /\ open' = open \cup {n}
      /\ open' \subseteq 1 .. numbered' /\ n \notin open /\ ~lost
      /\ inbox' \in [1 .. Streams -> Seq(Whats)] /\ done' \in [1 .. Streams -> Seq(Whats)]
      /\ Follows(n, 0)'
      /\ \A s \in open : \A c : done'[s] = done[s] /\ (Follows(s, c) => Follows(s, c)')
  BY <1>1, <1>2, <1>3, OpensKeeps
<1>5. PICK e : e = [on |-> n, parts |-> Parts]
  OBVIOUS
<1>6. numbered \in Nat /\ n \in Nat /\ 1 .. numbered \subseteq 1 .. n /\ n \in 1 .. n
  BY <1>1, <1>3 DEF PipeTyped
<1>7. e \in Jobs /\ e.on = n
  BY <1>5, <1>6 DEF Jobs, Limits
<1>8. /\ dataJobs' \in Seq(Jobs) /\ Len(dataJobs') = Len(dataJobs) + 1 /\ Len(dataJobs) \in Nat
      /\ \A i \in 1 .. Len(dataJobs) : dataJobs'[i] = dataJobs[i]
      /\ dataJobs'[Len(dataJobs) + 1] = e
  BY <1>2, <1>3, <1>5, <1>7 DEF PipeTyped
<1>9. \A i \in 1 .. Len(dataJobs') : i \in 1 .. Len(dataJobs) \/ i = Len(dataJobs) + 1
  BY <1>8
<1>10. put # "idle" => putOn \in open /\ putOn # n
  BY <1>3, <1>4 DEF PipeTyped
<1>11. PipeTyped'
  <2>1. \A i \in 1 .. Len(dataJobs') : dataJobs'[i].on \in 1 .. numbered'
    BY <1>3, <1>4, <1>6, <1>7, <1>8, <1>9 DEF PipeTyped
  <2>2. \A i \in 1 .. Len(replies) : replies[i].on \in 1 .. numbered'
    BY <1>3, <1>4, <1>6 DEF PipeTyped
  <2>3. put # "idle" => \A i \in 1 .. Len(dataJobs') : dataJobs'[i].on = putOn => dataJobs'[i].parts = 1
    BY <1>3, <1>7, <1>8, <1>9, <1>10 DEF PipeTyped
  <2> QED
    BY <1>2, <1>3, <1>4, <1>8, <1>10, <2>1, <2>2, <2>3 DEF PipeTyped
<1>12. Follows(getOn, taken)'
  BY <1>2, <1>4 DEF Follows
<1>13. ASSUME Waits PROVE Follows(putOn, answered)' /\ Counted'
  <2>1. put # "idle" /\ putOn \in open /\ putOn # n
    BY <1>10, <1>13 DEF Waits
  <2>2. Follows(putOn, answered)'
    <3>1. PICK p, a : p = putOn /\ a = answered
      OBVIOUS
    <3>2. Follows(p, a)
      BY <1>13, <3>1 DEF PipeInv
    <3>3. Follows(p, a)'
      BY <1>4, <2>1, <3>1, <3>2
    <3> QED
      BY <1>2, <3>1, <3>3 DEF Follows
  <2>3. Before(dataJobs', putOn, Len(dataJobs')) = Before(dataJobs, putOn, Len(dataJobs))
    BY <1>2, <1>3, <1>5, <1>7, <1>8, <2>1, BeforeAppend DEF PipeTyped
  <2>4. Counted'
    BY <1>2, <1>4, <1>13, <2>1, <2>3 DEF PipeInv, Counted
  <2> QED
    BY <2>2, <2>4
<1> QED
  BY <1>2, <1>11, <1>12, <1>13 DEF PipeInv, Waits

\* A pipeline is closed.
LEMMA ClosePipelineKeeps ==
  ASSUME Limits, PipeInv, Pipe!ClosePipeline
  PROVE  PipeInv'
<1>1. /\ put # "idle" /\ Pipe!Forgets(putOn) /\ put' = "idle"
      /\ UNCHANGED <<putOn, sent, answered, get, getOn, taken, dataJobs, given, replies, lost>>
  BY DEF Pipe!ClosePipeline, Pipe!getVars, Pipe!linkVars
<1>2. PipeTyped /\ putOn \in open
  BY <1>1 DEF PipeInv, PipeTyped
<1>3. /\ numbered' = numbered /\ open' = open \ {putOn} /\ open' \subseteq 1 .. numbered'
      /\ inbox' \in [1 .. Streams -> Seq(Whats)] /\ done' \in [1 .. Streams -> Seq(Whats)]
      /\ \A r \in open' : \A c : done'[r] = done[r] /\ (Follows(r, c) => Follows(r, c)')
  BY <1>1, <1>2, ForgetsKeeps
<1>4. get = "waits" => getOn \in open'
  BY <1>1, <1>2, <1>3 DEF PipeTyped
<1>5. PipeTyped'
  <2>1. numbered' \in 0 .. Streams /\ put' \in {"idle", "ready", "sends", "drains", "drained", "failed"}
    BY <1>1, <1>2, <1>3 DEF PipeTyped
  <2>2. /\ \A i \in 1 .. Len(dataJobs') : dataJobs'[i].on \in 1 .. numbered'
        /\ \A i \in 1 .. Len(replies') : replies'[i].on \in 1 .. numbered'
    BY <1>1, <1>2, <1>3 DEF PipeTyped
  <2>3. open' \subseteq 1 .. numbered'
    BY <1>3
  <2>4. inbox' \in [1 .. Streams -> Seq(Whats)] /\ done' \in [1 .. Streams -> Seq(Whats)]
    BY <1>3
  <2>5. get' \in {"idle", "waits"} /\ sent' \in Nat /\ answered' \in Nat /\ taken' \in Nat /\ given' \in Nat
    BY <1>1, <1>2 DEF PipeTyped
  <2>6. dataJobs' \in Seq(Jobs) /\ replies' \in Seq(Replies) /\ (lost' => dataJobs' = <<>> /\ replies' = <<>>)
    BY <1>1, <1>2 DEF PipeTyped, Jobs, Replies
  <2>7. get' = "waits" => getOn' \in open'
    BY <1>1, <1>4
  <2>8. put' = "idle"
    BY <1>1
  <2> QED
    BY <2>1, <2>2, <2>3, <2>4, <2>5, <2>6, <2>7, <2>8 DEF PipeTyped, Jobs, Replies
<1>6. (get = "waits" => Follows(getOn, taken))'
  <2>1. SUFFICES ASSUME get = "waits" PROVE Follows(getOn, taken)'
    BY <1>1
  <2>2. PICK p, a : p = getOn /\ a = taken
    OBVIOUS
  <2>3. Follows(p, a)
    BY <2>1, <2>2 DEF PipeInv
  <2>4. Follows(p, a)'
    BY <1>3, <1>4, <2>1, <2>2, <2>3
  <2> QED
    BY <1>1, <2>2, <2>4 DEF Follows
<1> QED
  BY <1>1, <1>5, <1>6 DEF PipeInv, Waits

\* The request in pieces is over.
LEMMA GetEnds ==
  ASSUME Limits, PipeInv, get = "waits", Pipe!Forgets(getOn), get' = "idle", taken' \in Nat,
         UNCHANGED <<getOn, put, putOn, sent, answered, dataJobs, given, replies, lost>>
  PROVE  PipeInv'
<1>2. PipeTyped /\ getOn \in open
  BY DEF PipeInv, PipeTyped
<1>3. /\ numbered' = numbered /\ open' = open \ {getOn} /\ open' \subseteq 1 .. numbered'
      /\ inbox' \in [1 .. Streams -> Seq(Whats)] /\ done' \in [1 .. Streams -> Seq(Whats)]
      /\ \A r \in open' : \A c : done'[r] = done[r] /\ (Follows(r, c) => Follows(r, c)')
  BY <1>2, ForgetsKeeps
<1>4. put # "idle" => putOn \in open'
  BY <1>2, <1>3 DEF PipeTyped
<1>5. PipeTyped'
  <2>1. /\ numbered' \in 0 .. Streams /\ open' \subseteq 1 .. numbered'
        /\ inbox' \in [1 .. Streams -> Seq(Whats)] /\ done' \in [1 .. Streams -> Seq(Whats)]
    BY <1>2, <1>3 DEF PipeTyped
  <2>2. \A i \in 1 .. Len(dataJobs') : /\ dataJobs'[i].on \in 1 .. numbered'
                                       /\ put' # "idle" /\ dataJobs'[i].on = putOn' => dataJobs'[i].parts = 1
    BY <1>2, <1>3 DEF PipeTyped
  <2>3. \A i \in 1 .. Len(replies') : replies'[i].on \in 1 .. numbered'
    BY <1>2, <1>3 DEF PipeTyped
  <2>4. put' \in {"idle", "ready", "sends", "drains", "drained", "failed"} /\ get' = "idle"
    BY <1>2 DEF PipeTyped
  <2>5. sent' \in Nat /\ answered' \in Nat /\ taken' \in Nat /\ given' \in Nat
    BY <1>2 DEF PipeTyped
  <2>6. dataJobs' \in Seq(Jobs) /\ replies' \in Seq(Replies) /\ (lost' => dataJobs' = <<>> /\ replies' = <<>>)
    BY <1>2 DEF PipeTyped
  <2>7. put' # "idle" => putOn' \in open'
    BY <1>4
  <2> QED
    BY <2>1, <2>2, <2>3, <2>4, <2>5, <2>6, <2>7 DEF PipeTyped
<1>6. ASSUME Waits PROVE Follows(putOn, answered)' /\ Counted'
  <2>1. putOn \in open'
    BY <1>4, <1>6 DEF Waits
  <2>2. Follows(putOn, answered)'
    <3>1. PICK p, a : p = putOn /\ a = answered
      OBVIOUS
    <3>2. Follows(p, a)
      BY <1>6, <3>1 DEF PipeInv
    <3>3. Follows(p, a)'
      BY <1>3, <2>1, <3>1, <3>2
    <3> QED
      BY <3>1, <3>3 DEF Follows
  <2>3. Counted'
    BY <1>3, <1>6, <2>1 DEF PipeInv, Counted
  <2> QED
    BY <2>2, <2>3
<1> QED
  BY <1>5, <1>6 DEF PipeInv, Waits

-----------------------------------------------------------------------------
(* Pipelines: the thread that sends, and the one that reads. *)

\* The place of the first refusal, as _take looks for it.
FirstRefused(s) == LET I == {i \in 1 .. Len(s) : s[i] = "refused"} IN IF I # {} THEN Pipe!Min(I) ELSE 0

\* Without one every reply is a value.
LEMMA RefusedIn ==
  ASSUME NEW s \in Seq(Whats)
  PROVE  FirstRefused(s) \in Nat /\ (~(FirstRefused(s) > 0) => \A i \in 1 .. Len(s) : s[i] # "refused")
<1> DEFINE I == {i \in 1 .. Len(s) : s[i] = "refused"}
<1>1. CASE I = {}
  <2>1. FirstRefused(s) = 0
    BY <1>1 DEF FirstRefused
  <2> QED
    BY <1>1, <2>1
<1>2. CASE I # {}
  <2>1. I \subseteq Nat /\ \A i \in I : i > 0
    OBVIOUS
  <2>2. FirstRefused(s) = Pipe!Min(I)
    BY <1>2 DEF FirstRefused
  <2> HIDE DEF I
  <2>3. \E x \in I : \A y \in I : x =< y
    BY <1>2, <2>1, LeastNat
  <2>4. Pipe!Min(I) = CHOOSE x \in I : \A y \in I : x =< y
    BY DEF Pipe!Min
  <2>5. Pipe!Min(I) \in I
    BY <2>3, <2>4
  <2> QED
    BY <2>1, <2>2, <2>5
<1> QED
  BY <1>1, <1>2

\* The replies that have arrived are counted.
LEMMA TakeKeeps ==
  ASSUME Limits, PipeInv, put \in {"ready", "sends", "drains"}, NEW where \in {"sends", "drains"}, Pipe!Take(where),
         UNCHANGED <<numbered, open, done, putOn, sent, get, getOn, taken, dataJobs, given, replies, lost>>
  PROVE  PipeInv'
<1>1. PICK p, a, b : p = putOn /\ a = answered /\ b = inbox[putOn]
  OBVIOUS
<1>2. /\ inbox' = [inbox EXCEPT ![p] = <<>>]
      /\ answered' = a + (IF FirstRefused(b) > 0 THEN FirstRefused(b) ELSE Len(b))
      /\ put' = IF FirstRefused(b) > 0 THEN "failed" ELSE where
  BY <1>1 DEF Pipe!Take, Pipe!SelectInSeq, FirstRefused
<1>3. PipeTyped
  BY DEF PipeInv
<1>4. p \in open /\ p \in 1 .. Streams /\ b \in Seq(Whats) /\ a \in Nat /\ (get = "waits" => getOn \in open /\ getOn # p)
  BY <1>1, <1>3, StreamsOf DEF PipeTyped
<1>5. FirstRefused(b) \in Nat /\ Len(b) \in Nat /\ (~(FirstRefused(b) > 0) => \A i \in 1 .. Len(b) : b[i] # "refused")
  BY <1>4, RefusedIn
<1>6. inbox' \in [1 .. Streams -> Seq(Whats)] /\ inbox'[p] = <<>> /\ \A s \in open : s # p => inbox'[s] = inbox[s]
  BY <1>2, <1>3, <1>4, StreamsOf DEF PipeTyped
<1>7. answered' \in Nat /\ put' \in {"failed", where}
  BY <1>2, <1>4, <1>5
<1>8. PipeTyped'
  BY <1>1, <1>3, <1>4, <1>6, <1>7 DEF PipeTyped
<1>9. (get = "waits" => Follows(getOn, taken))'
  BY <1>4, <1>6 DEF PipeInv, Follows
<1>10. ASSUME Waits' PROVE Follows(putOn, answered)' /\ Counted'
  <2>1. ~(FirstRefused(b) > 0)
    BY <1>2, <1>10 DEF Waits
  <2>2. answered' = a + Len(b) /\ put' = where /\ \A i \in 1 .. Len(b) : b[i] # "refused"
    BY <1>2, <1>5, <2>1
  <2>3. Follows(p, a) /\ Counted
    BY <1>1 DEF PipeInv, Waits
  <2>4. Len(inbox'[p]) = 0
    BY <1>6
  <2>5. Before(replies, p, Len(replies)) \in Nat /\ Len(done[p]) \in Nat /\ Len(replies) \in Nat
    BY <1>3, <1>4, BeforeNat, StreamsOf DEF PipeTyped
  <2>6. PICK m : m = Len(b) /\ m \in Nat
    BY <1>5
  <2>7. \A i \in 1 .. Len(replies) : Before(replies, p, i) \in Nat
    BY BeforeNat
  <2>8. Follows(p, a + m)'
    <3>1. /\ a + m + Before(replies, p, Len(replies)) <= Len(done[p])
          /\ ~lost => a + m + Before(replies, p, Len(replies)) = Len(done[p])
          /\ \A i \in 1 .. Len(replies) : replies[i].on = p => replies[i].what = done[p][a + m + Before(replies, p, i)]
      BY <1>1, <2>3, <2>6 DEF Follows
    <3>2. a + m + 0 = a + m
      BY <1>4, <2>6
    <3> QED
      BY <2>4, <3>1, <3>2 DEF Follows
  <2>9. Follows(putOn, answered)'
    BY <1>1, <2>2, <2>6, <2>8 DEF Follows
  <2>10. \A n \in 1 .. a + m : done[p][n] = "value"
    <3> SUFFICES ASSUME NEW n \in 1 .. a + m PROVE done[p][n] = "value"
      OBVIOUS
    <3>1. CASE n <= a
      BY <1>1, <1>4, <2>3, <3>1 DEF Counted
    <3>2. CASE ~(n <= a)
      <4>1. n - a \in 1 .. m /\ a + (n - a) = n
        BY <1>4, <2>6, <3>2
      <4>2. b[n - a] = done[p][n] /\ b[n - a] # "refused"
        BY <1>1, <2>2, <2>3, <2>6, <4>1 DEF Follows
      <4>3. a + m <= Len(done[p])
        BY <1>1, <1>4, <2>3, <2>5, <2>6 DEF Follows
      <4>4. done[p][n] \in {"value", "refused"}
        BY <1>1, <1>4, <2>3, <2>5, <2>6, <4>3 DEF Counted
      <4> QED
        BY <4>2, <4>4
    <3> QED
      BY <3>1, <3>2
  <2>11. Counted'
    <3>1. /\ \A n \in 1 .. Len(done[p]) : done[p][n] \in {"value", "refused"}
          /\ Len(done[p]) + Before(dataJobs, p, Len(dataJobs)) <= sent /\ sent <= a + Window /\ sent \in Nat /\ Window \in Nat
      BY <1>1, <1>3, <2>3 DEF Counted, PipeTyped, Limits
    <3>2. sent <= (a + m) + Window
      BY <1>4, <2>6, <3>1
    <3>3. put' # "drained"
      BY <2>2
    <3> QED
      BY <1>1, <2>2, <2>6, <2>10, <3>1, <3>2, <3>3 DEF Counted
  <2> QED
    BY <2>9, <2>11
<1> QED
  BY <1>8, <1>9, <1>10 DEF PipeInv

\* The pipeline fails, for the connection is lost.
LEMMA PutFails ==
  ASSUME Limits, PipeInv, put # "idle", put' = "failed",
         UNCHANGED <<numbered, open, inbox, done, putOn, sent, answered, get, getOn, taken, dataJobs, given, replies, lost>>
  PROVE  PipeInv'
<1>1. PipeTyped'
  BY DEF PipeInv, PipeTyped
<1>2. (get = "waits" => Follows(getOn, taken))'
  BY DEF PipeInv, Follows
<1> QED
  BY <1>1, <1>2 DEF PipeInv, Waits

\* A drain returns.
LEMMA DrainedKeeps ==
  ASSUME Limits, PipeInv, Pipe!Drained
  PROVE  PipeInv'
<1>1. /\ put = "drains" /\ answered >= sent /\ put' = "drained"
      /\ UNCHANGED <<numbered, open, inbox, done, putOn, sent, answered, get, getOn, taken, dataJobs, given, replies, lost>>
  BY DEF Pipe!Drained, Pipe!Needed, Pipe!slotVars, Pipe!getVars, Pipe!linkVars
<1>2. PipeTyped'
  BY <1>1 DEF PipeInv, PipeTyped
<1>3. (get = "waits" => Follows(getOn, taken))' /\ Follows(putOn, answered)'
  BY <1>1 DEF PipeInv, Follows, Waits
<1>4. sent <= answered
  BY <1>1 DEF PipeInv, PipeTyped
<1>5. Counted'
  BY <1>1, <1>4 DEF PipeInv, Counted, Waits
<1> QED
  BY <1>2, <1>3, <1>5 DEF PipeInv

\* A piece is sent.
LEMMA SendWritesKeeps ==
  ASSUME Limits, PipeInv, Pipe!SendWrites
  PROVE  PipeInv'
<1>1. /\ put = "sends" /\ answered >= sent - Window + 1
      /\ UNCHANGED <<numbered, open, inbox, done, putOn, answered, get, getOn, taken, given, replies, lost>>
  BY DEF Pipe!SendWrites, Pipe!Needed, Pipe!slotVars, Pipe!getVars
<1>2. CASE lost
  BY <1>1, <1>2, PutFails DEF Pipe!SendWrites
<1>3. CASE ~lost
  <2>1. PICK p, e : p = putOn /\ e = [on |-> putOn, parts |-> 1]
    OBVIOUS
  <2>2. put' = "ready" /\ sent' = sent + 1 /\ dataJobs' = Append(dataJobs, e)
    BY <1>3, <2>1 DEF Pipe!SendWrites
  <2>3. PipeTyped
    BY DEF PipeInv
  <2>4. p \in open /\ p \in 1 .. numbered /\ p \in Nat
    <3>1. p \in open
      BY <1>1, <2>1, <2>3 DEF PipeTyped
    <3>2. p \in 1 .. numbered /\ numbered \in Nat
      BY <2>3, <3>1, StreamsOf
    <3> QED
      BY <3>1, <3>2
  <2>5. e \in Jobs /\ e.on = p /\ e.parts = 1
    BY <2>1, <2>4 DEF Jobs
  <2>6. /\ dataJobs' \in Seq(Jobs) /\ Len(dataJobs') = Len(dataJobs) + 1 /\ Len(dataJobs) \in Nat
        /\ \A i \in 1 .. Len(dataJobs) : dataJobs'[i] = dataJobs[i]
        /\ dataJobs'[Len(dataJobs) + 1] = e
    BY <2>2, <2>3, <2>5 DEF PipeTyped
  <2>7. \A i \in 1 .. Len(dataJobs') : i \in 1 .. Len(dataJobs) \/ i = Len(dataJobs) + 1
    BY <2>6
  <2>8. PipeTyped'
    <3>1. \A i \in 1 .. Len(dataJobs') : dataJobs'[i].on \in 1 .. numbered /\ (dataJobs'[i].on = p => dataJobs'[i].parts = 1)
      BY <1>1, <2>1, <2>3, <2>4, <2>5, <2>6, <2>7 DEF PipeTyped
    <3>2. sent' \in Nat
      BY <2>2, <2>3 DEF PipeTyped
    <3> QED
      BY <1>1, <1>3, <2>1, <2>2, <2>3, <2>6, <3>1, <3>2 DEF PipeTyped
  <2>9. (get = "waits" => Follows(getOn, taken))' /\ Follows(putOn, answered)'
    BY <1>1 DEF PipeInv, Follows, Waits
  <2>10. Before(dataJobs', p, Len(dataJobs')) = Before(dataJobs, p, Len(dataJobs)) + 1
    BY <2>2, <2>3, <2>5, <2>6, BeforeAppend DEF PipeTyped
  <2>11. Counted'
    <3>1. Counted
      BY <1>1 DEF PipeInv, Waits
    <3>2. Before(dataJobs, p, Len(dataJobs)) \in Nat /\ Len(done[p]) \in Nat /\ answered \in Nat /\ sent \in Nat /\ Window \in Nat
      BY <2>3, <2>4, <2>6, BeforeNat, StreamsOf DEF PipeTyped, Limits
    <3>3. Len(done[p]) + (Before(dataJobs, p, Len(dataJobs)) + 1) <= sent'
      BY <2>1, <2>2, <3>1, <3>2 DEF Counted
    <3>4. sent' <= answered + Window
      BY <1>1, <2>2, <3>2
    <3> QED
      BY <1>1, <2>1, <2>2, <2>10, <3>1, <3>3, <3>4 DEF Counted
  <2> QED
    BY <2>8, <2>9, <2>11 DEF PipeInv
<1> QED
  BY <1>2, <1>3

\* A pipeline waits for replies.
LEMMA SettlesKeeps ==
  ASSUME Limits, PipeInv, Pipe!Settles \/ Pipe!SendBegins \/ Pipe!DrainBegins
  PROVE  PipeInv'
<1>1. UNCHANGED <<numbered, open, done, putOn, sent, get, getOn, taken, dataJobs, given, replies, lost>>
  BY DEF Pipe!Settles, Pipe!SendBegins, Pipe!DrainBegins, Pipe!getVars, Pipe!linkVars
<1>2. CASE Pipe!SendBegins
  BY <1>1, <1>2, TakeKeeps DEF Pipe!SendBegins
<1>3. CASE Pipe!DrainBegins
  BY <1>1, <1>3, TakeKeeps DEF Pipe!DrainBegins
<1>4. CASE Pipe!Settles
  <2>1. PICK w : w = put
    OBVIOUS
  <2>2. w \in {"sends", "drains"} /\ put \in {"ready", "sends", "drains"} /\ put # "idle"
    BY <1>4, <2>1 DEF Pipe!Settles
  <2>3. Pipe!Take(w) \/ (put' = "failed" /\ UNCHANGED <<inbox, answered>>)
    BY <1>4, <2>1 DEF Pipe!Settles
  <2> QED
    BY <1>1, <2>2, <2>3, TakeKeeps, PutFails
<1> QED
  BY <1>2, <1>3, <1>4

\* A reply is yielded, or the request is dropped.
LEMMA YieldKeeps ==
  ASSUME Limits, PipeInv, Pipe!Yield \/ Pipe!Leave
  PROVE  PipeInv'
<1>1. /\ get = "waits"
      /\ UNCHANGED <<getOn, put, putOn, sent, answered, dataJobs, given, replies, lost>>
  BY DEF Pipe!Yield, Pipe!Leave, Pipe!putVars, Pipe!linkVars
<1>2. PipeTyped
  BY DEF PipeInv
<1>3. taken' \in Nat
  BY <1>2 DEF PipeTyped, Pipe!Yield, Pipe!Leave
<1>4. CASE Pipe!Forgets(getOn) /\ get' = "idle"
  BY <1>1, <1>3, <1>4, GetEnds
<1>5. CASE ~(Pipe!Forgets(getOn) /\ get' = "idle")
  <2>1. PICK g, t, b : g = getOn /\ t = taken /\ b = inbox[getOn]
    OBVIOUS
  <2>2. /\ b # <<>> /\ taken' = t + 1 /\ get' = "waits" /\ inbox' = [inbox EXCEPT ![g] = Tail(b)]
        /\ UNCHANGED <<numbered, open, done>>
    BY <1>5, <2>1 DEF Pipe!Yield, Pipe!Leave
  <2>3. g \in open /\ g \in 1 .. Streams /\ b \in Seq(Whats) /\ t \in Nat /\ (put # "idle" => putOn \in open /\ putOn # g)
    BY <1>1, <1>2, <2>1, StreamsOf DEF PipeTyped
  <2>4. /\ Tail(b) \in Seq(Whats) /\ Len(Tail(b)) = Len(b) - 1 /\ Len(b) \in Nat /\ Len(b) > 0
        /\ \A i \in 1 .. Len(Tail(b)) : Tail(b)[i] = b[i + 1] /\ i + 1 \in 1 .. Len(b)
    BY <2>2, <2>3
  <2>5. inbox' \in [1 .. Streams -> Seq(Whats)] /\ inbox'[g] = Tail(b) /\ \A s \in open : s # g => inbox'[s] = inbox[s]
    BY <1>2, <2>2, <2>3, <2>4, StreamsOf DEF PipeTyped
  <2>6. PipeTyped'
    BY <1>1, <1>2, <1>3, <2>1, <2>2, <2>3, <2>5 DEF PipeTyped
  <2>7. Follows(getOn, taken)'
    <3>1. Follows(g, t)
      BY <1>1, <2>1 DEF PipeInv
    <3>2. Before(replies, g, Len(replies)) \in Nat /\ Len(done[g]) \in Nat
      BY <1>2, <2>3, BeforeNat, StreamsOf DEF PipeTyped
    <3>3. \A i \in 1 .. Len(replies) : Before(replies, g, i) \in Nat
      BY BeforeNat
    <3>4. PICK c : c = Tail(b)
      OBVIOUS
    <3>5. /\ (t + 1) + Len(c) + Before(replies, g, Len(replies)) <= Len(done[g])
          /\ ~lost => (t + 1) + Len(c) + Before(replies, g, Len(replies)) = Len(done[g])
      <4>1. /\ t + Len(b) + Before(replies, g, Len(replies)) <= Len(done[g])
            /\ ~lost => t + Len(b) + Before(replies, g, Len(replies)) = Len(done[g])
        BY <2>1, <3>1 DEF Follows
      <4>2. t + Len(b) = (t + 1) + Len(c)
        BY <2>3, <2>4, <3>4
      <4> QED
        BY <4>1, <4>2
    <3>6. \A n \in 1 .. Len(c) : c[n] = done[g][(t + 1) + n]
      <4> SUFFICES ASSUME NEW n \in 1 .. Len(c) PROVE c[n] = done[g][(t + 1) + n]
        OBVIOUS
      <4>1. c[n] = b[n + 1] /\ n + 1 \in 1 .. Len(b)
        BY <2>4, <3>4
      <4>2. b[n + 1] = done[g][t + (n + 1)]
        BY <2>1, <3>1, <4>1 DEF Follows
      <4>3. t + (n + 1) = (t + 1) + n
        BY <2>3, <2>4, <3>4
      <4> QED
        BY <4>1, <4>2, <4>3
    <3>7. \A i \in 1 .. Len(replies) : replies[i].on = g => replies[i].what = done[g][(t + 1) + Len(c) + Before(replies, g, i)]
      <4>1. t + Len(b) = (t + 1) + Len(c)
        BY <2>3, <2>4, <3>4
      <4> QED
        BY <2>1, <3>1, <4>1 DEF Follows
    <3>8. Follows(g, t + 1)'
      BY <1>1, <2>2, <2>5, <3>4, <3>5, <3>6, <3>7 DEF Follows
    <3> QED
      BY <1>1, <2>1, <2>2, <3>8 DEF Follows
  <2>8. ASSUME Waits PROVE Follows(putOn, answered)' /\ Counted'
    <3>1. putOn \in open /\ putOn # g
      BY <2>3, <2>8 DEF Waits
    <3>2. Follows(putOn, answered)'
      BY <1>1, <2>2, <2>5, <2>8, <3>1 DEF PipeInv, Follows
    <3>3. Counted'
      BY <1>1, <2>2, <2>8 DEF PipeInv, Counted
    <3> QED
      BY <3>2, <3>3
  <2> QED
    BY <1>1, <2>6, <2>7, <2>8 DEF PipeInv, Waits
<1> QED
  BY <1>4, <1>5

-----------------------------------------------------------------------------
(* Pipelines: the worker, and what arrives. *)

\* A queue without its first member.
LEMMA TailIs ==
  ASSUME NEW R, NEW q \in Seq(R), q # <<>>
  PROVE  /\ Tail(q) \in Seq(R) /\ Len(Tail(q)) = Len(q) - 1 /\ Len(q) \in Nat /\ Len(q) > 0 /\ Head(q) = q[1] /\ q[1] \in R
         /\ 1 \in 1 .. Len(q) /\ \A i \in 1 .. Len(Tail(q)) : Tail(q)[i] = q[i + 1] /\ i + 1 \in 1 .. Len(q)
  OBVIOUS

\* A queue with one more member.
LEMMA AppendIs ==
  ASSUME NEW R, NEW q \in Seq(R), NEW e \in R
  PROVE  /\ Append(q, e) \in Seq(R) /\ Len(Append(q, e)) = Len(q) + 1 /\ Len(q) \in Nat /\ Append(q, e)[Len(q) + 1] = e
         /\ \A i \in 1 .. Len(q) : Append(q, e)[i] = q[i]
         /\ \A i \in 1 .. Len(Append(q, e)) : i \in 1 .. Len(q) \/ i = Len(q) + 1
  OBVIOUS

\* An answer of the worker follows those before it.
LEMMA AnswerFollows ==
  ASSUME PipeTyped, ~lost, NEW s, NEW c \in Nat, inbox[s] \in Seq(Whats), done[s] \in Seq(Whats), Follows(s, c),
         NEW p, NEW w, [on |-> p, what |-> w] \in Replies, replies' = Append(replies, [on |-> p, what |-> w]),
         done'[s] = IF p = s THEN Append(done[s], w) ELSE done[s], UNCHANGED <<inbox, lost>>
  PROVE  Follows(s, c)'
<1>1. PICK e : e = [on |-> p, what |-> w]
  OBVIOUS
<1>2. e \in Replies /\ e.on = p /\ e.what = w /\ replies' = Append(replies, e) /\ replies \in Seq(Replies) /\ w \in Whats
  BY <1>1 DEF PipeTyped, Replies
<1>3. PICK k, n, b, d : k = Len(replies) /\ n = Len(inbox[s]) /\ b = Before(replies, s, Len(replies)) /\ d = Len(done[s])
  OBVIOUS
<1>4. k \in Nat /\ n \in Nat /\ b \in Nat /\ d \in Nat
  BY <1>2, <1>3, BeforeNat
<1>5. c + n + b = d
  BY <1>3 DEF Follows
<1>6. /\ Len(replies') = k + 1 /\ replies'[k + 1] = e /\ \A i \in 1 .. k : replies'[i] = replies[i]
      /\ \A i \in 1 .. k + 1 : i \in 1 .. k \/ i = k + 1
  BY <1>2, <1>3, AppendIs
<1>7. /\ \A i \in 1 .. k : Before(replies', s, i) = Before(replies, s, i)
      /\ p = s => Before(replies', s, k + 1) = b + 1
      /\ p # s => Before(replies', s, k + 1) = b
  <2>1. \A i \in 1 .. k : i \in 0 .. Len(replies)
    BY <1>3, <1>4
  <2> QED
    BY <1>2, <1>3, <2>1, BeforeAppend
<1>8. \A i \in 1 .. k : Before(replies, s, i) \in Nat /\ Before(replies, s, i) <= b /\ (replies[i].on = s => Before(replies, s, i) > 0)
  <2> SUFFICES ASSUME NEW i \in 1 .. k
               PROVE  Before(replies, s, i) \in Nat /\ Before(replies, s, i) <= b /\ (replies[i].on = s => Before(replies, s, i) > 0)
    OBVIOUS
  <2>1. i \in Nat /\ i <= k /\ i - 1 \in Nat /\ i = (i - 1) + 1
    BY <1>4
  <2>2. Before(replies, s, i) \in Nat /\ Before(replies, s, i) <= b /\ Before(replies, s, i - 1) \in Nat
    BY <1>3, <1>4, <2>1, BeforeNat, BeforeGrows
  <2>3. replies[i].on = s => Before(replies, s, i) = Before(replies, s, i - 1) + 1
    BY ONLY <2>1, BeforeNext
  <2> QED
    BY <2>2, <2>3
<1>9. CASE p # s
  <2>1. done'[s] = done[s]
    BY <1>9
  <2>2. \A i \in 1 .. k + 1 : replies'[i].on = s => replies'[i].what = done[s][c + n + Before(replies', s, i)]
    <3>1. \A i \in 1 .. k : replies[i].on = s => replies[i].what = done[s][c + n + Before(replies, s, i)]
      BY <1>3 DEF Follows
    <3> QED
      BY <1>2, <1>6, <1>7, <1>9, <3>1
  <2>3. Len(replies') = k + 1 /\ Before(replies', s, Len(replies')) = b
    BY <1>6, <1>7, <1>9
  <2>4. \A m \in 1 .. Len(inbox[s]) : inbox[s][m] = done[s][c + m]
    BY DEF Follows
  <2> QED
    BY <1>3, <1>5, <2>1, <2>2, <2>3, <2>4 DEF Follows
<1>10. CASE p = s
  <2>1. /\ Len(done'[s]) = d + 1 /\ done'[s][d + 1] = w /\ \A m \in 1 .. d : done'[s][m] = done[s][m]
    BY <1>2, <1>3, <1>10, AppendIs
  <2>2. ASSUME NEW i \in 1 .. k + 1, replies'[i].on = s
        PROVE  replies'[i].what = done'[s][c + n + Before(replies', s, i)]
    <3>1. CASE i \in 1 .. k
      <4>1. replies[i].on = s /\ replies'[i] = replies[i] /\ Before(replies', s, i) = Before(replies, s, i)
        BY <1>6, <1>7, <2>2, <3>1
      <4>2. replies[i].what = done[s][c + n + Before(replies, s, i)]
        BY <1>3, <3>1, <4>1 DEF Follows
      <4>3. c + n + Before(replies, s, i) \in 1 .. d
        <5>1. PICK x : x = Before(replies, s, i)
          OBVIOUS
        <5>2. x \in Nat /\ x <= b /\ x > 0
          BY <1>8, <3>1, <4>1, <5>1
        <5>3. c + n + x \in 1 .. d
          BY <1>4, <1>5, <5>2
        <5> QED
          BY <5>1, <5>3
      <4> QED
        BY <2>1, <4>1, <4>2, <4>3
    <3>2. CASE i = k + 1
      <4>1. c + n + Before(replies', s, i) = d + 1
        <5>1. Before(replies', s, i) = b + 1
          BY <1>7, <1>10, <3>2
        <5>2. c + n + (b + 1) = d + 1
          BY <1>4, <1>5
        <5> QED
          BY <5>1, <5>2
      <4> QED
        BY <1>2, <1>6, <2>1, <3>2, <4>1
    <3> QED
      BY <1>6, <3>1, <3>2
  <2>3. Len(replies') = k + 1 /\ Before(replies', s, Len(replies')) = b + 1
    BY <1>6, <1>7, <1>10
  <2>4. ASSUME NEW m \in 1 .. n PROVE inbox[s][m] = done'[s][c + m]
    <3>1. inbox[s][m] = done[s][c + m]
      BY <1>3 DEF Follows
    <3>2. c + m \in 1 .. d
      BY <1>4, <1>5
    <3> QED
      BY <2>1, <3>1, <3>2
  <2>5. c + n + (b + 1) = d + 1
    BY <1>4, <1>5
  <2>6. \A i \in 1 .. Len(replies') : replies'[i].on = s => replies'[i].what = done'[s][c + n + Before(replies', s, i)]
    BY <2>2, <2>3
  <2>7. c + n + Before(replies', s, Len(replies')) = Len(done'[s])
    BY <2>1, <2>3, <2>5
  <2>9. d + 1 <= d + 1
    BY <1>4
  <2>8. c + n + Before(replies', s, Len(replies')) <= Len(done'[s])
    BY <2>1, <2>7, <2>9
  <2> QED
    BY <1>3, <2>4, <2>6, <2>7, <2>8 DEF Follows
<1> QED
  BY <1>9, <1>10

\* The worker answers the first request of its queue.
LEMMA AnswersKeeps ==
  ASSUME Limits, PipeInv, Pipe!Serves
  PROVE  PipeInv'
<1>1. PipeTyped
  BY DEF PipeInv
<1>2. PICK h : h = Head(dataJobs)
  OBVIOUS
<1>3. PICK w : /\ dataJobs # <<>> /\ ~lost
               /\ replies' = Append(replies, [on |-> h.on, what |-> w])
               /\ done' = IF h.on \in open THEN [done EXCEPT ![h.on] = Append(@, w)] ELSE done
               /\ \/ given + 1 < h.parts /\ w = "value" /\ given' = given + 1 /\ UNCHANGED dataJobs
                  \/ given + 1 = h.parts /\ w = (IF h.parts = 1 THEN "value" ELSE "last") /\ given' = 0 /\ dataJobs' = Tail(dataJobs)
                  \/ w = "refused" /\ given' = 0 /\ dataJobs' = Tail(dataJobs)
  BY <1>2 DEF Pipe!Serves, Pipe!Answers
<1>4. UNCHANGED <<numbered, open, inbox, put, putOn, sent, answered, get, getOn, taken, lost>>
  BY DEF Pipe!Serves, Pipe!putVars, Pipe!getVars
<1>5. /\ dataJobs \in Seq(Jobs) /\ h = dataJobs[1] /\ h \in Jobs /\ 1 \in 1 .. Len(dataJobs) /\ Len(dataJobs) \in Nat
      /\ Tail(dataJobs) \in Seq(Jobs) /\ Len(Tail(dataJobs)) = Len(dataJobs) - 1
      /\ \A i \in 1 .. Len(Tail(dataJobs)) : Tail(dataJobs)[i] = dataJobs[i + 1] /\ i + 1 \in 1 .. Len(dataJobs)
  BY <1>1, <1>2, <1>3, TailIs DEF PipeTyped
<1>6. w \in Whats /\ given' \in Nat /\ given \in Nat /\ h.parts \in Nat
  BY <1>1, <1>3, <1>5 DEF Whats, PipeTyped, Jobs
<1>7. h.on \in 1 .. numbered /\ numbered \in Nat /\ h.on \in Nat
  BY <1>1, <1>5 DEF PipeTyped
<1>8. PICK e : e = [on |-> h.on, what |-> w] /\ e \in Replies /\ e.on = h.on
  <2>1. [on |-> h.on, what |-> w] \in Replies /\ [on |-> h.on, what |-> w].on = h.on
    BY <1>6, <1>7 DEF Replies
  <2> QED
    BY <2>1
<1>9. /\ replies' \in Seq(Replies) /\ \A i \in 1 .. Len(replies') : replies'[i] = e \/ \E j \in 1 .. Len(replies) : replies'[i] = replies[j]
  <2>1. replies \in Seq(Replies)
    BY <1>1 DEF PipeTyped
  <2> QED
    BY <1>3, <1>8, <2>1, AppendIs
<1>10. /\ done' \in [1 .. Streams -> Seq(Whats)]
       /\ \A s \in open : done'[s] = IF h.on = s THEN Append(done[s], w) ELSE done[s]
  <2>1. open \subseteq 1 .. Streams
    BY <1>1, StreamsOf
  <2>3. done \in [1 .. Streams -> Seq(Whats)]
    BY <1>1 DEF PipeTyped
  <2>2. \A s \in 1 .. Streams : Append(done[s], w) \in Seq(Whats)
    BY <1>6, <2>3, AppendIs
  <2> QED
    BY <1>3, <2>1, <2>2, <2>3
<1>11. dataJobs' \in Seq(Jobs) /\ \A i \in 1 .. Len(dataJobs') : \E j \in 1 .. Len(dataJobs) : dataJobs'[i] = dataJobs[j]
  BY <1>3, <1>5
<1>12. PipeTyped'
  <2>1. \A i \in 1 .. Len(dataJobs') : dataJobs'[i].on \in 1 .. numbered
    BY <1>1, <1>11 DEF PipeTyped
  <2>2. \A i \in 1 .. Len(replies') : replies'[i].on \in 1 .. numbered
    BY <1>1, <1>7, <1>8, <1>9 DEF PipeTyped
  <2>3. put # "idle" => \A i \in 1 .. Len(dataJobs') : dataJobs'[i].on = putOn => dataJobs'[i].parts = 1
    BY <1>1, <1>11 DEF PipeTyped
  <2> QED
    BY <1>1, <1>3, <1>4, <1>6, <1>9, <1>10, <1>11, <2>1, <2>2, <2>3 DEF PipeTyped
<1>13. \A s \in open : \A c \in Nat : Follows(s, c) => Follows(s, c)'
  <2> SUFFICES ASSUME NEW s \in open, NEW c \in Nat, Follows(s, c) PROVE Follows(s, c)'
    OBVIOUS
  <2>1. inbox[s] \in Seq(Whats) /\ done[s] \in Seq(Whats) /\ done'[s] = IF h.on = s THEN Append(done[s], w) ELSE done[s]
    BY <1>1, <1>10, StreamsOf
  <2>2. [on |-> h.on, what |-> w] \in Replies /\ replies' = Append(replies, [on |-> h.on, what |-> w])
    BY <1>3, <1>8
  <2> QED
    BY <1>1, <1>3, <1>4, <2>1, <2>2, AnswerFollows
<1>14. ASSUME get = "waits" PROVE Follows(getOn, taken)'
  <2>1. PICK g, t : g = getOn /\ t = taken
    OBVIOUS
  <2>2. g \in open /\ t \in Nat /\ Follows(g, t)
    BY <1>1, <1>14, <2>1 DEF PipeInv, PipeTyped
  <2>3. Follows(g, t)'
    BY <1>13, <2>2
  <2> QED
    BY <1>4, <2>1, <2>3 DEF Follows
<1>15. ASSUME Waits PROVE Follows(putOn, answered)' /\ Counted'
  <2>1. PICK p, a : p = putOn /\ a = answered
    OBVIOUS
  <2>2. p \in open /\ a \in Nat /\ Follows(p, a) /\ Counted /\ put # "idle"
    BY <1>1, <1>15, <2>1 DEF PipeInv, PipeTyped, Waits
  <2>3. Follows(p, a)'
    BY <1>13, <2>2
  <2>4. Follows(putOn, answered)'
    BY <1>4, <2>1, <2>3 DEF Follows
  <2>5. PICK k, b, d : k = Len(dataJobs) /\ b = Before(dataJobs, p, k) /\ d = Len(done[p])
    OBVIOUS
  <2>6. k \in Nat /\ k > 0 /\ b \in Nat /\ d \in Nat /\ done[p] \in Seq(Whats) /\ sent \in Nat
    BY <1>1, <1>5, <2>2, <2>5, BeforeNat, StreamsOf DEF PipeTyped
  <2>7. /\ h.on = p => b = 1 + Before(Tail(dataJobs), p, k - 1)
        /\ h.on # p => b = Before(Tail(dataJobs), p, k - 1)
        /\ Before(Tail(dataJobs), p, k - 1) \in Nat
    <3>1. k - 1 \in 0 .. Len(dataJobs) - 1 /\ (k - 1) + 1 = k /\ k - 1 \in Nat
      BY <2>5, <2>6
    <3>2. /\ dataJobs[1].on = p => Before(dataJobs, p, (k - 1) + 1) = 1 + Before(Tail(dataJobs), p, k - 1)
          /\ dataJobs[1].on # p => Before(dataJobs, p, (k - 1) + 1) = Before(Tail(dataJobs), p, k - 1)
      BY <1>3, <1>5, <3>1, BeforeTail
    <3> QED
      BY <1>5, <2>5, <3>1, <3>2, BeforeNat
  <2>8. /\ d + b <= sent /\ \A n \in 1 .. a : done[p][n] = "value"
        /\ \A n \in 1 .. d : done[p][n] \in {"value", "refused"}
    BY <2>1, <2>2, <2>5 DEF Counted
  <2>9. a <= d
    <3>1. Before(replies, p, Len(replies)) \in Nat /\ Len(inbox[p]) \in Nat
      BY <1>1, <2>2, BeforeNat, StreamsOf DEF PipeTyped
    <3> QED
      BY <2>2, <2>5, <2>6, <3>1 DEF Follows
  <2>10. CASE h.on = p
    <3>1. h.parts = 1
      BY <1>1, <1>5, <2>1, <2>2, <2>10 DEF PipeTyped
    <3>2. dataJobs' = Tail(dataJobs) /\ w \in {"value", "refused"}
      BY <1>3, <1>6, <3>1
    <3>3. Len(done'[p]) = d + 1 /\ done'[p][d + 1] = w /\ \A m \in 1 .. d : done'[p][m] = done[p][m]
      <4>1. done'[p] = Append(done[p], w)
        BY <1>10, <2>2, <2>10
      <4> QED
        BY <1>6, <2>5, <2>6, <4>1, AppendIs
    <3>4. Before(dataJobs', p, Len(dataJobs')) + 1 = b /\ Before(dataJobs', p, Len(dataJobs')) \in Nat
      BY <1>5, <2>5, <2>7, <2>10, <3>2
    <3>5. Len(done'[p]) + Before(dataJobs', p, Len(dataJobs')) <= sent
      BY <2>6, <2>8, <3>3, <3>4
    <3>6. \A n \in 1 .. a : done'[p][n] = "value"
      BY <2>2, <2>6, <2>8, <2>9, <3>3
    <3>7. \A n \in 1 .. Len(done'[p]) : done'[p][n] \in {"value", "refused"}
      <4> SUFFICES ASSUME NEW n \in 1 .. d + 1 PROVE done'[p][n] \in {"value", "refused"}
        BY <3>3
      <4>1. n \in 1 .. d \/ n = d + 1
        BY <2>6
      <4> QED
        BY <2>8, <3>2, <3>3, <4>1
    <3> QED
      BY <1>4, <2>1, <2>2, <2>4, <3>5, <3>6, <3>7 DEF Counted
  <2>11. CASE h.on # p
    <3>1. done'[p] = done[p]
      BY <1>10, <2>2, <2>11
    <3>2. Before(dataJobs', p, Len(dataJobs')) = b
      <4>1. CASE dataJobs' = dataJobs
        BY <2>5, <4>1
      <4>2. CASE dataJobs' = Tail(dataJobs)
        BY <1>5, <2>5, <2>7, <2>11, <4>2
      <4> QED
        BY <1>3, <4>1, <4>2
    <3> QED
      BY <1>4, <2>1, <2>2, <2>4, <2>5, <2>8, <3>1, <3>2 DEF Counted
  <2> QED
    BY <2>10, <2>11
<1> QED
  BY <1>4, <1>12, <1>14, <1>15 DEF PipeInv, Waits

\* A reply that arrives is the next one of its stream.
LEMMA ReplyFollows ==
  ASSUME PipeTyped, ~lost, replies # <<>>, NEW s, NEW c \in Nat, inbox[s] \in Seq(Whats), Follows(s, c),
         replies' = Tail(replies), UNCHANGED <<done, lost>>,
         inbox'[s] = IF replies[1].on = s THEN Append(inbox[s], replies[1].what) ELSE inbox[s]
  PROVE  Follows(s, c)'
<1>1. PICK q, t : q = replies /\ t = Tail(replies)
  OBVIOUS
<1>2. q \in Seq(Replies) /\ q # <<>> /\ replies' = t
  BY <1>1 DEF PipeTyped
<1>3. PICK k, n, b, d : k = Len(t) /\ n = Len(inbox[s]) /\ b = Before(q, s, Len(q)) /\ d = Len(done[s])
  OBVIOUS
<1>4. /\ Len(q) = k + 1 /\ k \in Nat /\ n \in Nat /\ b \in Nat /\ q[1] \in Replies /\ 1 \in 1 .. k + 1
      /\ \A i \in 1 .. k : t[i] = q[i + 1] /\ i + 1 \in 1 .. k + 1
  <2>1. t \in Seq(Replies) /\ Len(t) = Len(q) - 1 /\ Len(q) \in Nat /\ Len(q) > 0 /\ q[1] \in Replies
        /\ \A i \in 1 .. Len(t) : t[i] = q[i + 1] /\ i + 1 \in 1 .. Len(q)
    BY <1>1, <1>2, TailIs
  <2>2. b \in Nat
    BY <1>3, <2>1, BeforeNat
  <2> QED
    BY <1>3, <2>1, <2>2
<1>5. \A i \in 0 .. k : /\ q[1].on = s => Before(q, s, i + 1) = 1 + Before(t, s, i)
                        /\ q[1].on # s => Before(q, s, i + 1) = Before(t, s, i)
                        /\ Before(t, s, i) \in Nat /\ i \in Nat
  <2>1. \A i \in 0 .. k : i \in 0 .. Len(q) - 1 /\ i \in Nat
    BY <1>4
  <2> QED
    BY <1>1, <1>2, <2>1, BeforeTail, BeforeNat
<1>6. k \in 0 .. k /\ 0 \in 0 .. k /\ \A i \in 1 .. k : i \in 0 .. k
  BY <1>4
<1>7. /\ c + n + Before(q, s, Len(q)) <= d /\ c + n + Before(q, s, Len(q)) = d
      /\ \A m \in 1 .. n : inbox[s][m] = done[s][c + m]
      /\ \A i \in 1 .. k + 1 : q[i].on = s => q[i].what = done[s][c + n + Before(q, s, i)]
  BY <1>1, <1>3, <1>4 DEF Follows
<1>8. CASE q[1].on # s
  <2>1. Len(inbox'[s]) = n /\ inbox'[s] = inbox[s]
    BY <1>1, <1>3, <1>8
  <2>2. c + n + Before(t, s, k) <= d /\ c + n + Before(t, s, k) = d
    BY <1>4, <1>5, <1>6, <1>7, <1>8
  <2>3. \A i \in 1 .. k : t[i].on = s => t[i].what = done[s][c + n + Before(t, s, i)]
    BY <1>4, <1>5, <1>6, <1>7, <1>8
  <2> QED
    BY <1>2, <1>3, <1>7, <2>1, <2>2, <2>3 DEF Follows
<1>9. CASE q[1].on = s
  <2>1. inbox'[s] = Append(inbox[s], q[1].what) /\ q[1].what \in Whats
    BY <1>1, <1>4, <1>9 DEF Replies
  <2>2. /\ Len(inbox'[s]) = n + 1 /\ inbox'[s][n + 1] = q[1].what
        /\ \A m \in 1 .. n : inbox'[s][m] = inbox[s][m]
        /\ \A m \in 1 .. n + 1 : m \in 1 .. n \/ m = n + 1
    <3>1. PICK x, w : x = inbox[s] /\ w = q[1].what
      OBVIOUS
    <3>2. x \in Seq(Whats) /\ w \in Whats /\ Len(x) = n
      BY <1>3, <2>1, <3>1
    <3>3. /\ Len(Append(x, w)) = n + 1 /\ Append(x, w)[n + 1] = w /\ \A m \in 1 .. n : Append(x, w)[m] = x[m]
      BY <3>2, AppendIs
    <3>4. \A m \in 1 .. n + 1 : m \in 1 .. n \/ m = n + 1
      BY <1>4
    <3> QED
      BY <2>1, <3>1, <3>3, <3>4
  <2>3. \A x \in Nat : c + n + (1 + x) = c + (n + 1) + x
    BY <1>4
  <2>4. c + (n + 1) + Before(t, s, k) <= d /\ c + (n + 1) + Before(t, s, k) = d
    BY <1>4, <1>5, <1>6, <1>7, <1>9, <2>3
  <2>5. \A i \in 1 .. k : t[i].on = s => t[i].what = done[s][c + (n + 1) + Before(t, s, i)]
    <3> SUFFICES ASSUME NEW i \in 1 .. k, t[i].on = s PROVE t[i].what = done[s][c + (n + 1) + Before(t, s, i)]
      OBVIOUS
    <3>1. t[i] = q[i + 1] /\ i + 1 \in 1 .. k + 1 /\ i \in 0 .. k
      BY <1>4, <1>6
    <3>2. PICK x : x = Before(t, s, i)
      OBVIOUS
    <3>3. x \in Nat /\ Before(q, s, i + 1) = 1 + x
      BY <1>5, <1>9, <3>1, <3>2
    <3>4. q[i + 1].what = done[s][c + n + Before(q, s, i + 1)]
      BY <1>7, <3>1
    <3>5. c + n + (1 + x) = c + (n + 1) + x
      BY <2>3, <3>3
    <3> QED
      BY <3>1, <3>2, <3>3, <3>4, <3>5
  <2>6. q[1].what = done[s][c + (n + 1)]
    <3>1. Before(q, s, 1) = 1
      <4>1. Before(t, s, 0) = 0
        BY BeforeStep
      <4>2. Before(q, s, 0 + 1) = 1 + Before(t, s, 0)
        BY <1>5, <1>6, <1>9
      <4> QED
        BY <4>1, <4>2
    <3>2. q[1].what = done[s][c + n + Before(q, s, 1)]
      BY <1>4, <1>7, <1>9
    <3>3. c + n + 1 = c + (n + 1)
      BY <1>4
    <3> QED
      BY <3>1, <3>2, <3>3
  <2>7. \A m \in 1 .. n + 1 : inbox'[s][m] = done[s][c + m]
    BY <1>7, <2>2, <2>6
  <2> QED
    BY <1>2, <1>3, <2>2, <2>4, <2>5, <2>7 DEF Follows
<1> QED
  BY <1>8, <1>9

\* A reply arrives.
LEMMA ArrivesKeeps ==
  ASSUME Limits, PipeInv, Pipe!Arrives
  PROVE  PipeInv'
<1>1. PICK r : r = Head(replies)
  OBVIOUS
<1>2. /\ replies # <<>> /\ ~lost /\ replies' = Tail(replies)
      /\ inbox' = IF r.on \in open THEN [inbox EXCEPT ![r.on] = Append(@, r.what)] ELSE inbox
      /\ UNCHANGED <<numbered, open, done, put, putOn, sent, answered, get, getOn, taken, dataJobs, given, lost>>
  BY <1>1 DEF Pipe!Arrives, Pipe!putVars, Pipe!getVars
<1>3. PipeTyped
  BY DEF PipeInv
<1>4. /\ replies \in Seq(Replies) /\ Tail(replies) \in Seq(Replies) /\ r = replies[1] /\ r \in Replies
      /\ \A i \in 1 .. Len(Tail(replies)) : Tail(replies)[i] = replies[i + 1] /\ i + 1 \in 1 .. Len(replies)
  BY <1>1, <1>2, <1>3, TailIs DEF PipeTyped
<1>5. r.what \in Whats
  BY <1>4 DEF Replies
<1>6. /\ inbox' \in [1 .. Streams -> Seq(Whats)]
      /\ \A s \in open : inbox'[s] = IF r.on = s THEN Append(inbox[s], r.what) ELSE inbox[s]
  <2>1. open \subseteq 1 .. Streams
    BY <1>3, StreamsOf
  <2>3. inbox \in [1 .. Streams -> Seq(Whats)]
    BY <1>3 DEF PipeTyped
  <2>2. \A s \in 1 .. Streams : Append(inbox[s], r.what) \in Seq(Whats)
    BY <1>5, <2>3, AppendIs
  <2> QED
    BY <1>2, <2>1, <2>2, <2>3
<1>7. PipeTyped'
  <2>1. \A i \in 1 .. Len(replies') : replies'[i].on \in 1 .. numbered
    BY <1>2, <1>3, <1>4 DEF PipeTyped
  <2> QED
    BY <1>2, <1>3, <1>4, <1>6, <2>1 DEF PipeTyped
<1>8. \A s \in open : \A c \in Nat : Follows(s, c) => Follows(s, c)'
  <2> SUFFICES ASSUME NEW s \in open, NEW c \in Nat, Follows(s, c) PROVE Follows(s, c)'
    OBVIOUS
  <2>1. inbox[s] \in Seq(Whats)
    BY <1>3, StreamsOf
  <2>2. inbox'[s] = IF replies[1].on = s THEN Append(inbox[s], replies[1].what) ELSE inbox[s]
    BY <1>4, <1>6
  <2> QED
    BY <1>2, <1>3, <2>1, <2>2, ReplyFollows
<1>9. ASSUME get = "waits" PROVE Follows(getOn, taken)'
  <2>1. PICK g, t : g = getOn /\ t = taken
    OBVIOUS
  <2>2. g \in open /\ t \in Nat /\ Follows(g, t)
    BY <1>3, <1>9, <2>1 DEF PipeInv, PipeTyped
  <2>3. Follows(g, t)'
    BY <1>8, <2>2
  <2> QED
    BY <1>2, <2>1, <2>3 DEF Follows
<1>10. ASSUME Waits PROVE Follows(putOn, answered)' /\ Counted'
  <2>1. PICK p, a : p = putOn /\ a = answered
    OBVIOUS
  <2>2. p \in open /\ a \in Nat /\ Follows(p, a) /\ Counted
    BY <1>3, <1>10, <2>1 DEF PipeInv, PipeTyped, Waits
  <2>3. Follows(p, a)'
    BY <1>8, <2>2
  <2>4. Follows(putOn, answered)'
    BY <1>2, <2>1, <2>3 DEF Follows
  <2>5. Counted'
    BY <1>2, <2>2 DEF Counted
  <2> QED
    BY <2>4, <2>5
<1> QED
  BY <1>2, <1>7, <1>9, <1>10 DEF PipeInv, Waits

\* The connection is lost.
LEMMA LosesKeeps ==
  ASSUME Limits, PipeInv, Pipe!Loses
  PROVE  PipeInv'
<1>1. /\ lost' = TRUE /\ dataJobs' = <<>> /\ replies' = <<>> /\ given' = 0
      /\ UNCHANGED <<numbered, open, inbox, done, put, putOn, sent, answered, get, getOn, taken>>
  BY DEF Pipe!Loses, Pipe!slotVars, Pipe!putVars, Pipe!getVars
<1>2. PipeTyped
  BY DEF PipeInv
<1>3. Len(dataJobs') = 0 /\ Len(replies') = 0 /\ dataJobs' \in Seq(Jobs) /\ replies' \in Seq(Replies)
  BY <1>1
<1>4. PipeTyped'
  BY <1>1, <1>2, <1>3 DEF PipeTyped
<1>5. \A s \in open : \A c \in Nat : Follows(s, c) => Follows(s, c)'
  <2> SUFFICES ASSUME NEW s \in open, NEW c \in Nat, Follows(s, c) PROVE Follows(s, c)'
    OBVIOUS
  <2>1. PICK b, n, d : b = Before(replies, s, Len(replies)) /\ n = Len(inbox[s]) /\ d = Len(done[s])
    OBVIOUS
  <2>2. b \in Nat /\ n \in Nat /\ d \in Nat /\ c + n + b <= d
    <3>1. Len(replies) \in Nat
      BY <1>2 DEF PipeTyped
    <3> QED
      BY <1>2, <2>1, <3>1, BeforeNat, StreamsOf DEF Follows
  <2>3. c + n + 0 <= d
    BY <2>2
  <2>4. Before(replies', s, Len(replies')) = 0
    BY <1>3, BeforeStep
  <2> QED
    BY <1>1, <1>3, <2>1, <2>3, <2>4 DEF Follows
<1>6. ASSUME get = "waits" PROVE Follows(getOn, taken)'
  <2>1. PICK g, t : g = getOn /\ t = taken
    OBVIOUS
  <2>2. g \in open /\ t \in Nat /\ Follows(g, t)
    BY <1>2, <1>6, <2>1 DEF PipeInv, PipeTyped
  <2>3. Follows(g, t)'
    BY <1>5, <2>2
  <2> QED
    BY <1>1, <2>1, <2>3 DEF Follows
<1>7. ASSUME Waits PROVE Follows(putOn, answered)' /\ Counted'
  <2>1. PICK p, a : p = putOn /\ a = answered
    OBVIOUS
  <2>2. p \in open /\ a \in Nat /\ Follows(p, a) /\ Counted
    BY <1>2, <1>7, <2>1 DEF PipeInv, PipeTyped, Waits
  <2>3. Follows(p, a)'
    BY <1>5, <2>2
  <2>4. Follows(putOn, answered)'
    BY <1>1, <2>1, <2>3 DEF Follows
  <2>5. Counted'
    <3>1. PICK b, d : b = Before(dataJobs, p, Len(dataJobs)) /\ d = Len(done[p])
      OBVIOUS
    <3>2. b \in Nat /\ d \in Nat /\ sent \in Nat /\ d + b <= sent
      <4>1. Len(dataJobs) \in Nat /\ sent \in Nat
        BY <1>2 DEF PipeTyped
      <4> QED
        BY <1>2, <2>1, <2>2, <3>1, <4>1, BeforeNat, StreamsOf DEF Counted
    <3>3. d + 0 <= sent
      BY <3>2
    <3>4. Before(dataJobs', p, Len(dataJobs')) = 0
      BY <1>3, BeforeStep
    <3> QED
      BY <1>1, <2>1, <2>2, <3>1, <3>3, <3>4 DEF Counted
  <2> QED
    BY <2>4, <2>5
<1> QED
  BY <1>1, <1>4, <1>6, <1>7 DEF PipeInv, Waits

\* Before the first stream.
LEMMA PipeBegins ==
  ASSUME Limits, Pipe!PipeInit
  PROVE  PipeInv
<1>1. /\ numbered = 0 /\ open = {} /\ put = "idle" /\ get = "idle" /\ sent = 0 /\ answered = 0 /\ taken = 0 /\ given = 0
      /\ dataJobs = <<>> /\ replies = <<>> /\ inbox = [s \in 1 .. Streams |-> <<>>] /\ done = [s \in 1 .. Streams |-> <<>>]
  BY DEF Pipe!PipeInit
<1>2. inbox \in [1 .. Streams -> Seq(Whats)] /\ done \in [1 .. Streams -> Seq(Whats)]
  BY <1>1
<1>3. dataJobs \in Seq(Jobs) /\ replies \in Seq(Replies) /\ Len(dataJobs) = 0 /\ Len(replies) = 0
  BY <1>1
<1>4. PipeTyped
  BY <1>1, <1>2, <1>3 DEF PipeTyped, Limits
<1> QED
  BY <1>1, <1>4 DEF PipeInv, Waits

\* Every step of a request, the worker or the connection.
LEMMA PipeStep ==
  ASSUME Limits, PipeInv, Pipe!PipeNext \/ UNCHANGED pipelineVars
  PROVE  PipeInv'
<1>1. CASE UNCHANGED pipelineVars
  <2>1. UNCHANGED <<numbered, open, inbox, put, putOn, sent, answered, get, getOn, taken, dataJobs, given, replies, lost, done>>
    BY <1>1 DEF pipelineVars
  <2> QED
    BY <2>1 DEF PipeInv, PipeTyped, Waits, Follows, Counted
<1>2. CASE Pipe!PipeNext
  BY <1>2, OpenPipelineKeeps, SettlesKeeps, SendWritesKeeps, DrainedKeeps, ClosePipelineKeeps, AskKeeps, YieldKeeps,
     AnswersKeeps, ArrivesKeeps, LosesKeeps DEF Pipe!PipeNext
<1> QED
  BY <1>1, <1>2

\* The replies are those of the requests of their stream.
LEMMA RepliesMatchHold ==
  ASSUME Limits, PipeInv
  PROVE  Pipe!RepliesMatch
<1>1. PipeTyped
  BY DEF PipeInv
<1>2. ASSUME put \in {"ready", "sends", "drains"}
      PROVE  Pipe!Cardinality({n \in DOMAIN dataJobs : dataJobs[n].on = putOn}) <= Window
  <2>1. PICK p, a, k, b, d, i, r : /\ p = putOn /\ a = answered /\ k = Len(dataJobs) /\ b = Before(dataJobs, p, Len(dataJobs))
                                   /\ d = Len(done[p]) /\ i = Len(inbox[p]) /\ r = Before(replies, p, Len(replies))
    OBVIOUS
  <2>2. p \in open
    BY <1>1, <1>2, <2>1 DEF PipeTyped
  <2>3. a \in Nat /\ k \in Nat /\ b \in Nat /\ d \in Nat /\ i \in Nat /\ r \in Nat /\ sent \in Nat /\ Window \in Nat
    <3>1. Len(replies) \in Nat /\ Len(dataJobs) \in Nat /\ sent \in Nat /\ a \in Nat /\ Window \in Nat
      BY <1>1, <2>1 DEF PipeTyped, Limits
    <3> QED
      BY <1>1, <2>1, <2>2, <3>1, BeforeNat, StreamsOf
  <2>4. a + i + r <= d /\ d + b <= sent /\ sent <= a + Window
    BY <1>2, <2>1 DEF PipeInv, Waits, Follows, Counted
  <2>5. b <= Window
    BY <2>3, <2>4
  <2>6. Pipe!Cardinality({n \in DOMAIN dataJobs : dataJobs[n].on = putOn}) = b
    <3>1. DOMAIN dataJobs = 1 .. Len(dataJobs)
      BY <1>1 DEF PipeTyped
    <3>2. \A S : Pipe!Cardinality(S) = Cardinality(S)
      BY DEF Pipe!Cardinality, Cardinality, Pipe!IsFiniteSet, IsFiniteSet
    <3> QED
      BY <2>1, <3>1, <3>2 DEF Before
  <2> QED
    BY <2>5, <2>6
<1>3. ASSUME put = "drained"
      PROVE  done[putOn] = [n \in 1 .. sent |-> "value"]
  <2>1. PICK p, a, b, d, i, r : /\ p = putOn /\ a = answered /\ b = Before(dataJobs, p, Len(dataJobs))
                                   /\ d = Len(done[p]) /\ i = Len(inbox[p]) /\ r = Before(replies, p, Len(replies))
    OBVIOUS
  <2>2. p \in open
    BY <1>1, <1>3, <2>1 DEF PipeTyped
  <2>3. a \in Nat /\ b \in Nat /\ d \in Nat /\ i \in Nat /\ r \in Nat /\ sent \in Nat /\ done[p] \in Seq(Whats)
    <3>1. Len(replies) \in Nat /\ Len(dataJobs) \in Nat /\ sent \in Nat /\ a \in Nat
      BY <1>1, <2>1 DEF PipeTyped
    <3> QED
      BY <1>1, <2>1, <2>2, <3>1, BeforeNat, StreamsOf
  <2>4. a + i + r <= d /\ d + b <= sent /\ sent <= a /\ \A n \in 1 .. a : done[p][n] = "value"
    BY <1>3, <2>1 DEF PipeInv, Waits, Follows, Counted
  <2>5. a = sent /\ d = sent
    BY <2>3, <2>4
  <2>6. done[p] = [n \in 1 .. sent |-> done[p][n]]
    <3>1. PICK x : x = done[p]
      OBVIOUS
    <3>2. x \in Seq(Whats) /\ Len(x) = sent
      BY <2>1, <2>3, <2>5, <3>1
    <3>3. x = [n \in 1 .. Len(x) |-> x[n]]
      BY <3>2
    <3> QED
      BY <3>1, <3>2, <3>3
  <2> QED
    BY <2>1, <2>4, <2>5, <2>6
<1>4. ASSUME get = "waits"
      PROVE  /\ taken + Len(inbox[getOn]) <= Len(done[getOn])
             /\ \A n \in 1 .. Len(inbox[getOn]) : inbox[getOn][n] = done[getOn][taken + n]
  <2>1. PICK t, d, i, r : /\ t = taken /\ d = Len(done[getOn]) /\ i = Len(inbox[getOn]) /\ r = Before(replies, getOn, Len(replies))
    OBVIOUS
  <2>2. t + i + r <= d /\ \A n \in 1 .. Len(inbox[getOn]) : inbox[getOn][n] = done[getOn][taken + n]
    BY <1>4, <2>1 DEF PipeInv, Follows
  <2>3. t \in Nat /\ d \in Nat /\ i \in Nat /\ r \in Nat
    <3>1. Len(replies) \in Nat /\ t \in Nat /\ getOn \in open
      BY <1>1, <1>4, <2>1 DEF PipeTyped
    <3> QED
      BY <1>1, <2>1, <3>1, BeforeNat, StreamsOf
  <2>4. t + i <= d
    BY <2>2, <2>3
  <2> QED
    BY <2>1, <2>2, <2>4
<1> QED
  BY <1>2, <1>3, <1>4 DEF Pipe!RepliesMatch

-----------------------------------------------------------------------------
(* The run. *)

\* The layers of a connection, part by part: a behaviour is about one and leaves the others.
LayersInv == LanesInv /\ TlsInv /\ FramesInv /\ PipeInv

\* Every layer keeps its invariant.
LEMMA LayersKept ==
  /\ MCInit => LayersInv
  /\ LayersInv /\ [MCNext]_<<part, vars, dataVars, laneVars, tlsVars, frameVars, pipelineVars>> => LayersInv'
  /\ LayersInv => Striped!StreamWhole /\ Tls!RecordsInOrder /\ Framed!MessagesWhole /\ Pipe!RepliesMatch
<1>1. Lengths /\ Limits /\ WritersNamed /\ Messages \in Seq(Nat)
  BY LayerConstants
<1>2. MCInit => LayersInv
  BY <1>1, LanesBegin, RecordsBegin, FramesBegin, PipeBegins DEF MCInit, LayersInv
<1>3. ASSUME LayersInv, [MCNext]_<<part, vars, dataVars, laneVars, tlsVars, frameVars, pipelineVars>>
      PROVE  LayersInv'
  <2>1. /\ Striped!LanesNext \/ UNCHANGED laneVars
        /\ Tls!TlsNext \/ UNCHANGED tlsVars
        /\ Framed!FramesNext \/ UNCHANGED frameVars
        /\ Pipe!PipeNext \/ UNCHANGED pipelineVars
    BY <1>3 DEF MCNext
  <2> QED
    BY <1>1, <1>3, <2>1, LanesStep, RecordsStep, FramesStep, PipeStep DEF LayersInv
<1>4. ASSUME LayersInv
      PROVE  Striped!StreamWhole /\ Tls!RecordsInOrder /\ Framed!MessagesWhole /\ Pipe!RepliesMatch
  BY <1>1, <1>4, StreamWholeHolds, FramesWhole, RepliesMatchHold DEF LayersInv, TlsInv
<1> QED
  BY <1>2, <1>3, <1>4

\* The bytes written to the lanes of a stream are read whole and in order and never more are
\* held than the hold allows (Striped), the records of a TLS connection go out in the order they
\* were made whichever thread sends them (TlsStream), the messages of several threads are put
\* together of their own buffers (Sender, Receiver), and the replies a pipeline counts and a
\* streamed request yields are their own (Pipeline, Connection.stream): for any lengths, lanes,
\* threads, windows and breaks of a lane or the connection.
THEOREM LayersCorrect ==
  MCSpec => [](Striped!StreamWhole /\ Tls!RecordsInOrder /\ Framed!MessagesWhole /\ Pipe!RepliesMatch)
<1> QED
  BY LayersKept, PTL DEF MCSpec

\* With them both ends of a sandbox's channel agree where frames go, however its opening and its
\* moves fail (SandboxChannel), for any number of lanes, moves and renewals, as long as no
\* renewal begins while the channel opens or moves: the run lease_moves shows what happens else.
THEOREM BytesCorrect == Apart => (MCSpec => []BytesWhole)
<1> SUFFICES ASSUME Apart PROVE MCSpec => []BytesWhole
  OBVIOUS
<1>1. MCInit => ChannelInv
  BY ChannelBegins DEF MCInit
<1>2. ChannelInv /\ [MCNext]_<<part, vars, dataVars, laneVars, tlsVars, frameVars, pipelineVars>> => ChannelInv'
  <2> SUFFICES ASSUME ChannelInv, [MCNext]_<<part, vars, dataVars, laneVars, tlsVars, frameVars, pipelineVars>>
               PROVE  ChannelInv'
    OBVIOUS
  <2>1. Data!ChannelNext \/ UNCHANGED dataVars
    BY DEF MCNext
  <2> QED
    BY <2>1, LayerConstants, ChannelStep
<1>3. /\ MCInit => LayersInv
      /\ LayersInv /\ [MCNext]_<<part, vars, dataVars, laneVars, tlsVars, frameVars, pipelineVars>> => LayersInv'
  BY LayersKept
<1>4. ChannelInv /\ LayersInv => BytesWhole
  BY ChannelsAgreeHold, LayersKept DEF BytesWhole
<1> QED
  BY <1>1, <1>2, <1>3, <1>4, PTL DEF MCSpec
=============================================================================
