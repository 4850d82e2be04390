-------------------------------- MODULE Punch --------------------------------
(***************************************************************************)
(* A connection through two NATs (transport/nat.py, strategies.py,         *)
(* link.py): the client asks the agent over a rendezvous, and then both    *)
(* dial each other and listen (tcp_punch), or the agent dials back         *)
(* (connect_back).  Several connections may come about, and others may     *)
(* dial the same ports; the hello with the token settles on one.  The link *)
(* carries the probe and then one SSH session; each later session punches  *)
(* again.                                                                  *)
(***************************************************************************)
EXTENDS Integers, Sequences, FiniteSets

CONSTANTS Attempts,   \* 1 .. n, the punches of one link, each with a token of its own
          Sessions,   \* the SSH commands run over the link
          MaxConns    \* how many connections may come about

VARIABLES back,           \* whether the agent dials back instead
          conns,          \* connections [attempt, hello, client, agent], with the state of each end
          client, agent,  \* per attempt each side: idle, asking, open, over
          took, got,      \* per attempt the connection each side returned, or 0
          sock,           \* PunchedLink._sock: a connection, 0 when taken or closed
          session         \* per SSH command [at, of], its state and its attempt or connection

punchVars == <<back, conns, client, agent, took, got, sock, session>>

PunchInit ==
  /\ back \in BOOLEAN /\ conns = <<>> /\ sock = 0 /\ session = [s \in Sessions |-> [at |-> "none", of |-> 0]]
  /\ client = [k \in Attempts |-> IF k = 1 THEN "asking" ELSE "idle"] /\ agent = [k \in Attempts |-> "idle"]
  /\ took = [k \in Attempts |-> 0] /\ got = [k \in Attempts |-> 0]

Of(k) == {i \in DOMAIN conns : conns[i].attempt = k}
\* What close_all leaves of one side: the connection it keeps, and no listener.
AfterAll(state, k, i, keep) ==
  IF i = keep THEN "kept" ELSE IF i \in Of(k) /\ state # "absent" THEN "closed" ELSE state
ClientLeft(k, keep) ==
  [i \in DOMAIN conns |-> [conns[i] EXCEPT !.client = AfterAll(conns[i].client, k, i, keep)]]
AgentLeft(k, keep) ==
  [i \in DOMAIN conns |-> [conns[i] EXCEPT !.agent = AfterAll(conns[i].agent, k, i, keep)]]

\* exchange: the agent begins, and its answer may be lost.  Back, the client listens meanwhile.
AgentBegins(k) ==
  /\ client[k] = "asking" /\ agent[k] = "idle" /\ agent' = [agent EXCEPT ![k] = "open"]
  /\ UNCHANGED <<conns, client, took, got, sock, session>>
Exchanged(k) ==
  /\ client[k] = "asking"
  /\ \/ agent[k] # "idle" /\ client' = [client EXCEPT ![k] = "open"] /\ UNCHANGED conns
     \/ client' = [client EXCEPT ![k] = "over"] /\ conns' = ClientLeft(k, 0)
  /\ UNCHANGED <<agent, took, got, sock, session>>

\* A dial that reaches a listener; in connect_back the agent's carries its hello at once.
Connects(k, c, a, hello) ==
  /\ Len(conns) < MaxConns
  /\ conns' = Append(conns, [attempt |-> k, hello |-> hello, client |-> c, agent |-> a])
ClientDials(k) ==
  /\ ~back /\ client[k] = "open" /\ agent[k] = "open" /\ Connects(k, "candidate", "backlog", FALSE)
  /\ UNCHANGED <<client, agent, took, got, sock, session>>
AgentDials(k) ==
  /\ agent[k] = "open" /\ client[k] \in (IF back THEN {"asking", "open"} ELSE {"open"})
  /\ Connects(k, "backlog", IF back THEN "kept" ELSE "candidate", back)
  /\ IF back THEN got' = [got EXCEPT ![k] = Len(conns) + 1] /\ agent' = [agent EXCEPT ![k] = "over"]
     ELSE UNCHANGED <<got, agent>>
  /\ UNCHANGED <<client, took, sock, session>>
StrayDials(k) ==
  /\ \/ client[k] \in (IF back THEN {"asking", "open"} ELSE {"open"}) /\ Connects(k, "backlog", "absent", FALSE)
     \/ ~back /\ agent[k] = "open" /\ Connects(k, "absent", "backlog", FALSE)
  /\ UNCHANGED <<client, agent, took, got, sock, session>>

Accepts(k, i) ==
  /\ i \in Of(k)
  /\ \/ client[k] = "open" /\ conns[i].client = "backlog" /\ conns' = [conns EXCEPT ![i].client = "candidate"]
     \/ agent[k] = "open" /\ conns[i].agent = "backlog" /\ conns' = [conns EXCEPT ![i].agent = "candidate"]
  /\ UNCHANGED <<client, agent, took, got, sock, session>>

Took(k, i) ==
  /\ took' = [took EXCEPT ![k] = i] /\ client' = [client EXCEPT ![k] = "over"]
  /\ sock' = IF k = 1 THEN i ELSE sock
\* punch(initiator=True): the first connection that completes, and the hello written to it.
ClientPicks(k, i) ==
  /\ ~back /\ client[k] = "open" /\ i \in Of(k) /\ conns[i].client = "candidate"
  /\ conns' = [ClientLeft(k, i) EXCEPT ![i].hello = TRUE] /\ Took(k, i)
  /\ UNCHANGED <<agent, got, session>>
\* accept_hello: what brings another hello, or none, is closed.
ClientHears(k, i) ==
  /\ back /\ client[k] = "open" /\ i \in Of(k) /\ conns[i].client = "candidate"
  /\ IF conns[i].hello THEN conns' = ClientLeft(k, i) /\ Took(k, i)
     ELSE conns' = [conns EXCEPT ![i].client = "closed"] /\ UNCHANGED <<took, client, sock>>
  /\ UNCHANGED <<agent, got, session>>

\* Mutant: the agent keeps the first connection that completes too.
AgentHearsAny(k, i) ==
  /\ ~back /\ agent[k] = "open" /\ i \in Of(k) /\ conns[i].agent = "candidate"
  /\ conns' = AgentLeft(k, i) /\ got' = [got EXCEPT ![k] = i] /\ agent' = [agent EXCEPT ![k] = "over"]
  /\ UNCHANGED <<client, took, sock, session>>
\* punch(initiator=False): the connection the hello arrives on; a stray or a closed one goes.
AgentHears(k, i) ==
  /\ ~back /\ agent[k] = "open" /\ i \in Of(k) /\ conns[i].agent = "candidate"
  /\ IF conns[i].hello /\ conns[i].client # "absent"
     THEN conns' = AgentLeft(k, i) /\ got' = [got EXCEPT ![k] = i] /\ agent' = [agent EXCEPT ![k] = "over"]
     ELSE /\ conns[i].client \in {"absent", "closed"} /\ conns' = [conns EXCEPT ![i].agent = "closed"]
          /\ UNCHANGED <<got, agent>>
  /\ UNCHANGED <<client, took, sock, session>>

\* The window closes, or the attempt is cancelled.
TimesOut(k) ==
  /\ \/ client[k] = "open" /\ client' = [client EXCEPT ![k] = "over"] /\ conns' = ClientLeft(k, 0) /\ UNCHANGED agent
     \/ /\ agent[k] = "open" /\ agent' = [agent EXCEPT ![k] = "over"] /\ conns' = AgentLeft(k, 0)
        /\ UNCHANGED client
  /\ UNCHANGED <<took, got, sock, session>>

-----------------------------------------------------------------------------
\* PunchedLink.ssh_command: the session takes the punched connection, or punches again.
\* Mutant: the connection is left for the next session.
TakesAgain(s) ==
  /\ session[s].at = "none" /\ took[1] # 0
  /\ IF sock # 0 THEN session' = [session EXCEPT ![s] = [at |-> "open", of |-> sock]] /\ UNCHANGED <<sock, client>>
     ELSE \E k \in Attempts : /\ client[k] = "idle" /\ client' = [client EXCEPT ![k] = "asking"]
                              /\ session' = [session EXCEPT ![s] = [at |-> "punching", of |-> k]] /\ UNCHANGED sock
  /\ UNCHANGED <<conns, agent, took, got>>
TakesLink(s) ==
  /\ session[s].at = "none" /\ took[1] # 0
  /\ IF sock # 0
     THEN session' = [session EXCEPT ![s] = [at |-> "open", of |-> sock]] /\ sock' = 0 /\ UNCHANGED client
     ELSE \E k \in Attempts : /\ client[k] = "idle" /\ client' = [client EXCEPT ![k] = "asking"]
                              /\ session' = [session EXCEPT ![s] = [at |-> "punching", of |-> k]] /\ UNCHANGED sock
  /\ UNCHANGED <<conns, agent, took, got>>
Redialled(s) ==
  /\ session[s].at = "punching" /\ client[session[s].of] = "over"
  /\ LET k == session[s].of
     IN  session' = [session EXCEPT ![s] = IF took[k] = 0 THEN [at |-> "failed", of |-> 0]
                                           ELSE [at |-> "open", of |-> took[k]]]
  /\ UNCHANGED <<conns, client, agent, took, got, sock>>
\* serve_link: "B" ends the probe, and the agent joins the connection to the SSH server.
Serves(s) ==
  /\ session[s].at = "open" /\ conns[session[s].of].agent = "kept"
  /\ session' = [session EXCEPT ![s].at = "ssh"]
  /\ UNCHANGED <<conns, client, agent, took, got, sock>>
\* splice closes both sides: the agent's once it has the connection.
Splices(i) ==
  conns' = [conns EXCEPT ![i] = [@ EXCEPT !.client = "closed",
                                          !.agent = IF conns[i].agent = "kept" THEN "closed" ELSE conns[i].agent]]
\* PunchedLink.close, or the end of one SSH command.
EndsSession(s) ==
  /\ session[s].at \in {"open", "ssh"} /\ session' = [session EXCEPT ![s].at = "closed"]
  /\ Splices(session[s].of)
  /\ UNCHANGED <<client, agent, took, got, sock>>
ClosesLink ==
  /\ sock # 0 /\ sock' = 0 /\ Splices(sock)
  /\ UNCHANGED <<client, agent, took, got, session>>

PunchNext ==
  /\ UNCHANGED back
  /\ \/ \E k \in Attempts : \/ AgentBegins(k) \/ Exchanged(k) \/ ClientDials(k) \/ AgentDials(k) \/ StrayDials(k)
                            \/ TimesOut(k)
                            \/ \E i \in DOMAIN conns : Accepts(k, i) \/ ClientPicks(k, i) \/ ClientHears(k, i) \/ AgentHears(k, i)
     \/ \E s \in Sessions : TakesLink(s) \/ Redialled(s) \/ Serves(s) \/ EndsSession(s)
     \/ ClosesLink
PunchSpec == PunchInit /\ [][PunchNext]_punchVars
-----------------------------------------------------------------------------
\* When both sides of a punch return a connection, it is the same one, however many crossed.
PunchAgrees == \A k \in Attempts : took[k] # 0 /\ got[k] # 0 => took[k] = got[k]

\* A side whose attempt is over has closed every connection of it but the one it returned.
PunchClosed == \A k \in Attempts : \A i \in Of(k) :
  /\ client[k] = "over" /\ i # took[k] => conns[i].client \in {"absent", "closed"}
  /\ agent[k] = "over" /\ i # got[k] => conns[i].agent \in {"absent", "closed"}

\* Two SSH sessions never share a connection, and none runs over one the agent has not kept
\* for this link's token.
SessionsApart == \A s \in Sessions : session[s].at \in {"open", "ssh"} =>
  /\ \A t \in Sessions \ {s} : session[t].at \in {"open", "ssh"} => session[t].of # session[s].of
  /\ session[s].at = "ssh" => conns[session[s].of].hello /\ got[conns[session[s].of].attempt] = session[s].of
=============================================================================
