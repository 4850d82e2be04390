-------------------------------- MODULE Frames --------------------------------
(***************************************************************************)
(* Messages cut into frames on one connection (Sender and Receiver in      *)
(* protocol/wire.py): a head frame that declares the buffers, then their   *)
(* bytes as DATA frames.  The lock of a sender is held per frame, so the   *)
(* frames of several threads mix; each thread has a stream of its own.     *)
(***************************************************************************)
EXTENDS Integers, Sequences, Functions

CONSTANTS Threads,   \* each sends its messages on its own stream
          Messages   \* the buffer frames of a thread's messages, in order: a sequence of naturals

VARIABLES
  message, frame,    \* per thread: the message it sends and the frames of it that are written
  link, cut,         \* the frames on the connection, and whether it has ended
  partial,           \* Receiver._open: per stream the message whose buffers are being filled
  whole,             \* per stream the messages that have been put together
  error              \* a FrameError

framesVars == <<message, frame, link, cut, partial, whole, error>>

Nothing == [of |-> 0, got |-> 0, left |-> 0]
FramesInit ==
  /\ message = [t \in Threads |-> 1] /\ frame = [t \in Threads |-> 0] /\ link = <<>> /\ cut = FALSE
  /\ partial = [t \in Threads |-> Nothing] /\ whole = [t \in Threads |-> <<>>] /\ error = FALSE

\* Sender.parts: the head, then every buffer frame, each under the lock.
Writes(t) ==
  /\ message[t] <= Len(Messages) /\ ~cut
  /\ link' = Append(link, [stream |-> t, kind |-> IF frame[t] = 0 THEN "head" ELSE "data",
                           of |-> message[t], count |-> Messages[message[t]]])
  /\ IF frame[t] = Messages[message[t]]
     THEN message' = [message EXCEPT ![t] = @ + 1] /\ frame' = [frame EXCEPT ![t] = 0]
     ELSE frame' = [frame EXCEPT ![t] = @ + 1] /\ UNCHANGED message
  /\ UNCHANGED <<cut, partial, whole, error>>
\* The end of the connection takes what is on it.
Cuts ==
  /\ ~cut /\ cut' = TRUE /\ \E n \in 0 .. Len(link) : link' = SubSeq(link, 1, n)
  /\ UNCHANGED <<message, frame, partial, whole, error>>

\* Mutant: the message being filled is whichever was opened last.
FillsLast(s) == CHOOSE t \in Threads : partial[t] # Nothing
\* The message a DATA frame belongs to.
Fills(s) == s
Whole(s, of) == whole' = [whole EXCEPT ![s] = Append(@, of)]
\* A frame of a stream is read into the message of stream s.
ReadsInto(f, s) ==
  LET p == partial[s]
  IN  \/ /\ f.kind = "head" /\ f.count = 0 /\ Whole(s, <<f.of, 0>>) /\ UNCHANGED <<partial, error>>
      \/ /\ f.kind = "head" /\ f.count > 0 /\ UNCHANGED <<whole, error>>
         /\ partial' = [partial EXCEPT ![s] = [of |-> f.of, got |-> 0, left |-> f.count]]
      \/ f.kind = "data" /\ p = Nothing /\ error' = TRUE /\ UNCHANGED <<partial, whole>>
      \/ /\ f.kind = "data" /\ p # Nothing /\ p.left > 1 /\ UNCHANGED <<whole, error>>
         /\ partial' = [partial EXCEPT ![s].left = @ - 1, ![s].got = @ + (IF f.of = p.of /\ f.stream = s THEN 1 ELSE 0)]
      \/ /\ f.kind = "data" /\ p # Nothing /\ p.left = 1 /\ UNCHANGED error
         /\ Whole(s, <<p.of, p.got + (IF f.of = p.of /\ f.stream = s THEN 1 ELSE 0)>>)
         /\ partial' = [partial EXCEPT ![s] = Nothing]
\* next_event.
Reads ==
  /\ link # <<>> /\ ~error /\ link' = Tail(link)
  /\ LET f == Head(link)
     IN  ReadsInto(f, IF f.kind = "data" /\ \E t \in Threads : partial[t] # Nothing THEN Fills(f.stream) ELSE f.stream)
  /\ UNCHANGED <<message, frame, cut>>

FramesNext == Cuts \/ Reads \/ \E t \in Threads : Writes(t)
FramesSpec == FramesInit /\ [][FramesNext]_framesVars

-----------------------------------------------------------------------------
\* Every message that is put together has all of its own bytes and nobody else's, in the
\* order its thread sent them, however the frames of the threads mix; no frame is refused.
MessagesWhole ==
  /\ ~error
  /\ \A t \in Threads : whole[t] = [i \in 1 .. Len(whole[t]) |-> <<i, Messages[i]>>]
=============================================================================
