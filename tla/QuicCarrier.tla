------------------------------ MODULE QuicCarrier ------------------------------
(***************************************************************************)
(* The QUIC strategy (transport/strategies.py, nat.py, letify-quic): the   *)
(* rendezvous starts "letify-quic serve" beside the SSH server, and every  *)
(* SSH command over the link starts "letify-quic connect" as its proxy.    *)
(* The first command is the one that verifies the link.                    *)
(***************************************************************************)
EXTENDS Integers, FiniteSets

CONSTANTS Commands   \* 1 .. n, the SSH commands run over one link, in their order

VARIABLES connect,   \* per command its proxy: none, connecting, presenting, open, refused, ended
          serve,     \* the agent's carrier: accepting, checking, splicing, ended
          peer,      \* the connection it serves: a command, or 0 for a stranger or none
          sshd,      \* its connection to the SSH server: none, open, closed
          up, down   \* whether each direction of its splice still runs

carrierVars == <<connect, serve, peer, sshd, up, down>>

CarrierInit ==
  /\ connect = [c \in Commands |-> "none"] /\ serve = "accepting" /\ peer = 0
  /\ sshd = "none" /\ up = FALSE /\ down = FALSE

Gone(c) == connect[c] \in {"refused", "ended"}
\* attempt: the first command verifies the link, and without it there is no link.
Runs(c) ==
  /\ connect[c] = "none" /\ (c > 1 => connect[1] = "ended")
  /\ connect' = [connect EXCEPT ![c] = "connecting"] /\ UNCHANGED <<serve, peer, sshd, up, down>>
\* The handshake of letify-quic connect; after TIMEOUT it gives up.
Arrives(c) ==
  /\ connect[c] = "connecting" /\ serve = "accepting"
  /\ connect' = [connect EXCEPT ![c] = "presenting"] /\ serve' = "checking" /\ peer' = c
  /\ UNCHANGED <<sshd, up, down>>
GivesUp(c) ==
  /\ connect[c] = "connecting" /\ connect' = [connect EXCEPT ![c] = "refused"]
  /\ UNCHANGED <<serve, peer, sshd, up, down>>
StrangerArrives ==
  /\ serve = "accepting" /\ serve' = "checking" /\ UNCHANGED <<connect, peer, sshd, up, down>>

\* serve: one connection is accepted, within TIMEOUT, and its first stream must bring the token.
AcceptExpires == /\ serve = "accepting" /\ serve' = "ended" /\ UNCHANGED <<connect, peer, sshd, up, down>>
Checks ==
  /\ serve = "checking"
  /\ \/ /\ peer # 0 /\ connect[peer] = "presenting"
        /\ serve' = "splicing" /\ sshd' = "open" /\ up' = TRUE /\ down' = TRUE
        /\ connect' = [connect EXCEPT ![peer] = "open"]
     \/ /\ serve' = "ended" /\ UNCHANGED <<sshd, up, down>>     \* no token, or no SSH server
        /\ connect' = IF peer = 0 \/ Gone(peer) THEN connect ELSE [connect EXCEPT ![peer] = "refused"]
  /\ UNCHANGED peer

\* The SSH command ends, and its proxy with it; the SSH server closes its side.
CommandEnds(c) ==
  /\ connect[c] \in {"presenting", "open"}
  /\ connect' = [connect EXCEPT ![c] = IF @ = "open" THEN "ended" ELSE "refused"]
  /\ UNCHANGED <<serve, peer, sshd, up, down>>
SshdCloses == /\ sshd = "open" /\ sshd' = "closed" /\ UNCHANGED <<connect, serve, peer, up, down>>

\* Neither direction tells the other that it is over, and the carrier ends with the last of them.
UpEnds == /\ up /\ Gone(peer) /\ up' = FALSE /\ UNCHANGED <<connect, serve, peer, sshd, down>>
\* Mutant: the direction to the client does not look for the end of the SSH server's side.
DownEndsLate == /\ down /\ sshd = "closed" /\ ~up /\ serve = "ended" /\ down' = FALSE
                /\ UNCHANGED <<connect, serve, peer, sshd, up>>
DownEnds == /\ down /\ sshd = "closed" /\ down' = FALSE /\ UNCHANGED <<connect, serve, peer, sshd, up>>
ServeEnds == /\ serve = "splicing" /\ ~up /\ ~down /\ serve' = "ended" /\ UNCHANGED <<connect, peer, sshd, up, down>>

CarrierNext == \/ StrangerArrives \/ AcceptExpires \/ Checks \/ SshdCloses \/ UpEnds \/ DownEnds \/ ServeEnds
               \/ \E c \in Commands : Runs(c) \/ Arrives(c) \/ GivesUp(c) \/ CommandEnds(c)
CarrierSpec == CarrierInit /\ [][CarrierNext]_carrierVars
\* The carrier's own steps, and its clock.
CarrierRuns == AcceptExpires \/ Checks \/ UpEnds \/ DownEnds \/ ServeEnds
-----------------------------------------------------------------------------
\* transport/link.py:3 "an SSH command line for the worker channel and for bulk transfer": a
\* command over a link the strategy has verified reaches the SSH server.
LinkCarries == \A c \in Commands \ {1} : connect[c] # "refused"

\* The carrier on the machine ends once the command it serves is over and the SSH server has
\* closed its side; it never waits for a second command.
CarrierEnds == serve = "splicing" /\ Gone(peer) /\ sshd = "closed" ~> serve = "ended"
=============================================================================
