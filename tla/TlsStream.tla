------------------------------- MODULE TlsStream -------------------------------
(***************************************************************************)
(* TLS over one socket for one reading thread and several writing threads  *)
(* (TlsStream in providers/modal.py).  The TLS object works on two memory  *)
(* buffers; _state guards it and is never held over a socket call, so what *)
(* is done under it is one step.  _wire orders the records on the socket.  *)
(***************************************************************************)
EXTENDS Integers, Sequences

CONSTANTS Writers,     \* the threads that send
          MaxRecords,  \* records the TLS object makes
          SocketSize   \* records the socket takes before sendall blocks

VARIABLES
  made,        \* records made so far; a record is its number
  outgoing,    \* the buffer of records that are not on their way
  wireLock,    \* who holds _wire: a writer, "reader" or "none"
  batch,       \* what the holder has read out of the buffer and has to send, or <<>>
  socket,      \* records in the socket
  peer,        \* records the peer has read
  writer,      \* per writer: idle, locked, sends
  reading,     \* the reading thread: reads, pending, flushes
  arrived      \* what has arrived for it and is not decrypted: plain data or a request of TLS

tlsVars == <<made, outgoing, wireLock, batch, socket, peer, writer, reading, arrived>>

TlsInit ==
  /\ made = 0 /\ outgoing = <<>> /\ wireLock = "none" /\ batch = <<>> /\ socket = <<>> /\ peer = <<>>
  /\ writer = [w \in Writers |-> "idle"] /\ reading = "reads" /\ arrived = <<>>

\* send: under _wire, encrypt and read out all there is under _state, then send it.
Locks(w) ==
  /\ writer[w] = "idle" /\ wireLock = "none" /\ made < MaxRecords
  /\ wireLock' = w /\ writer' = [writer EXCEPT ![w] = "locked"]
  /\ UNCHANGED <<made, outgoing, batch, socket, peer, reading, arrived>>
Encrypts(w) ==
  /\ writer[w] = "locked" /\ writer' = [writer EXCEPT ![w] = "sends"]
  /\ made' = made + 1 /\ batch' = Append(outgoing, made + 1) /\ outgoing' = <<>>
  /\ UNCHANGED <<wireLock, socket, peer, reading, arrived>>
\* sendall blocks while the socket is full.
SendsOne(b) == /\ Len(socket) < SocketSize /\ socket' = Append(socket, Head(b))
Writes(w) ==
  /\ writer[w] = "sends" /\ batch # <<>> /\ SendsOne(batch) /\ batch' = Tail(batch)
  /\ UNCHANGED <<made, outgoing, wireLock, peer, writer, reading, arrived>>
Unlocks(w) ==
  /\ writer[w] = "sends" /\ batch = <<>> /\ wireLock' = "none" /\ writer' = [writer EXCEPT ![w] = "idle"]
  /\ UNCHANGED <<made, outgoing, batch, socket, peer, reading, arrived>>

\* recv_into: decrypting under _state may make a record of its own, an answer of TLS.
Decrypts ==
  /\ reading = "reads" /\ arrived # <<>> /\ arrived' = Tail(arrived)
  /\ IF Head(arrived) = "request" THEN outgoing' = Append(outgoing, made + 1) /\ made' = made + 1
     ELSE UNCHANGED <<outgoing, made>>
  /\ reading' = IF outgoing' = <<>> THEN "reads" ELSE "pending"
  /\ UNCHANGED <<wireLock, batch, socket, peer, writer>>
\* Mutant: the reading thread sends without the lock that orders the socket.
FlushesAnyway ==
  /\ reading = "pending" /\ reading' = "reads" /\ outgoing # <<>> /\ SendsOne(outgoing) /\ outgoing' = Tail(outgoing)
  /\ UNCHANGED <<made, wireLock, batch, peer, writer, arrived>>
\* _flush: only if nobody holds _wire; whoever does is not waited for.
Flushes ==
  /\ reading = "pending"
  /\ IF wireLock = "none"
     THEN /\ wireLock' = "reader" /\ reading' = "flushes" /\ batch' = outgoing /\ outgoing' = <<>>
     ELSE /\ reading' = "reads" /\ UNCHANGED <<wireLock, batch, outgoing>>
  /\ UNCHANGED <<made, socket, peer, writer, arrived>>
Flushed ==
  /\ reading = "flushes"
  /\ IF batch = <<>> THEN reading' = "reads" /\ wireLock' = "none" /\ UNCHANGED <<batch, socket>>
     ELSE SendsOne(batch) /\ batch' = Tail(batch) /\ UNCHANGED <<reading, wireLock>>
  /\ UNCHANGED <<made, outgoing, peer, writer, arrived>>

\* The far end sends, and reads when it likes.
PeerSends ==
  /\ Len(arrived) < 1 /\ made < MaxRecords /\ \E what \in {"data", "request"} : arrived' = Append(arrived, what)
  /\ UNCHANGED <<made, outgoing, wireLock, batch, socket, peer, writer, reading>>
PeerReads ==
  /\ socket # <<>> /\ peer' = Append(peer, Head(socket)) /\ socket' = Tail(socket)
  /\ UNCHANGED <<made, outgoing, wireLock, batch, writer, reading, arrived>>

TlsNext ==
  \/ \E w \in Writers : Locks(w) \/ Encrypts(w) \/ Writes(w) \/ Unlocks(w)
  \/ Decrypts \/ Flushes \/ Flushed \/ PeerSends \/ PeerReads
TlsSpec == TlsInit /\ [][TlsNext]_tlsVars

-----------------------------------------------------------------------------
\* The records reach the peer in the order they were made, none left out and none twice,
\* and what is not on the socket yet comes after what is (TLS numbers its records).
RecordsInOrder ==
  LET all == peer \o socket \o batch \o outgoing IN all = [i \in 1 .. made |-> i]
=============================================================================
