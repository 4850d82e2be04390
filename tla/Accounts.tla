------------------------------ MODULE Accounts ------------------------------
(***************************************************************************)
(* What letify login and letify logout keep on a machine: the home file    *)
(* that declares accounts and their devices, the directory with their      *)
(* credentials, the keys machines trust, and the project file that names   *)
(* accounts.  Each of them is written on its own, and a command may end    *)
(* between any two writes.  A target is what one login is for: a machine   *)
(* at an address, or an account of a provider.                             *)
(***************************************************************************)
EXTENDS Naturals, Sequences, FiniteSets

CONSTANTS Procs, Aliases, Targets, Kinds, None

VARIABLES kind,      \* kind[a]: the kind of account alias a is
          home,      \* the home file: account[a] and devices[a], each a target or None
          project,   \* the aliases the project file names
          secrets,   \* credentials kept: <<alias, name, target they are for>>
          trusts,    \* the machines whose authorized_keys hold letify's key
          job,       \* job[p]: the command of process p and how far it is
          out,       \* aliases a logout has dropped since they were last declared
          wrote      \* wrote[p]: what the command of p has put where there was nothing like it

accountVars == <<kind, home, project, secrets, trusts, job, out, wrote>>

\* What a login of each kind keeps, in the order in which it is written.
Keeps == [shell |-> <<>>, tunnel |-> <<>>, password |-> <<"password">>, elice |-> <<"access_token">>,
          kaggle |-> <<"cookie", "access_token", "username">>, modal |-> <<"modal.toml">>,
          colab |-> <<"token.json">>]
Names(a) == {Keeps[kind[a]][i] : i \in DOMAIN Keeps[kind[a]]}
Kept(a, n) == \E t \in Targets : <<a, n, t>> \in secrets

ByKey == {"shell", "tunnel"}

Resting == {"idle", "failed", "done"}
Idle == [at |-> "idle", cmd |-> "none", alias |-> None, target |-> None, text |-> None, found |-> None,
         next |-> 1, ok |-> FALSE, existed |-> FALSE]
NoEntries == [a \in Aliases |-> None]

AccountsInit ==
  /\ kind \in [Aliases -> Kinds]
  /\ home = [account |-> NoEntries, devices |-> NoEntries]
  /\ project = {} /\ secrets = {} /\ trusts = {} /\ out = {}
  /\ job = [p \in Procs |-> Idle] /\ wrote = [p \in Procs |-> {}]

-----------------------------------------------------------------------------
At(p, place) == job[p].at = place
Mine(p) == job[p].alias
Is(p, kinds) == Mine(p) # None /\ kind[Mine(p)] \in kinds
Goes(p, place) == job' = [job EXCEPT ![p].at = place, ![p].text = None]
Puts(p, n, t) ==
  /\ secrets' = {s \in secrets : ~(s[1] = Mine(p) /\ s[2] = n)} \cup {<<Mine(p), n, t>>}
  /\ wrote' = [wrote EXCEPT ![p] = IF Kept(Mine(p), n) THEN @ ELSE @ \cup {n}]

\* log_in of an account that is not declared, or with replace: the flow of its kind runs.
LoginBegins(p, a, t) ==
  /\ job[p].at \in Resting
  /\ job' = [job EXCEPT ![p] = [Idle EXCEPT !.at = "checks", !.cmd = "login", !.alias = a, !.target = t]]
  /\ wrote' = [wrote EXCEPT ![p] = {}]
  /\ UNCHANGED <<kind, home, project, secrets, trusts, out>>

\* log_in of a declared account: it is only named, or given a key or a workspace, or its
\* machine is asked for its cards again.
LoginAgain(p, a) ==
  /\ job[p].at \in Resting /\ home.account[a] # None
  /\ \E place \in {"names", "rewrites", "asks"} :
       /\ place = "asks" => kind[a] \in ByKey
       /\ job' = [job EXCEPT ![p] = [Idle EXCEPT !.at = place, !.cmd = "again", !.alias = a,
                                                !.target = home.account[a]]]
  /\ wrote' = [wrote EXCEPT ![p] = {}]
  /\ UNCHANGED <<kind, home, project, secrets, trusts, out>>

\* A flow that raises LoginError before it has kept anything.  The key may be installed.
Refused(p) ==
  /\ At(p, "checks") /\ ~Is(p, {"modal", "colab"})
  /\ trusts' \in IF Is(p, ByKey) THEN {trusts, trusts \cup {job[p].target}} ELSE {trusts}
  /\ Goes(p, "failed")
  /\ UNCHANGED <<kind, home, project, secrets, out, wrote>>

\* detect_devices: the cards of the machine, or none with a reason.
Detects(t) == {None, t}

\* The key is installed or was there, it lets letify in, and the machine is asked for its cards.
KeyFlow(p) ==
  /\ At(p, "checks")
  /\ trusts' \in {trusts, trusts \cup {job[p].target}} /\ job[p].target \in trusts'
  /\ \E cards \in Detects(job[p].target) : job' = [job EXCEPT ![p].at = "declares", ![p].found = cards]
  /\ UNCHANGED <<kind, home, project, secrets, out, wrote>>

ShellFlow(p) == Is(p, {"shell"}) /\ KeyFlow(p)
TunnelFlow(p) == Is(p, {"tunnel"}) /\ KeyFlow(p)

\* Mutated form of Checked: the project names the account before it is declared.
NamesFirst(p) ==
  /\ At(p, "checks") /\ Goes(p, "stores") /\ project' = project \cup {Mine(p)}
  /\ UNCHANGED <<kind, home, secrets, trusts, out, wrote>>

\* Everything the flow can refuse is checked; what is left is to keep the credentials.
Checked(p) == At(p, "checks") /\ Goes(p, "stores") /\ UNCHANGED <<kind, home, project, secrets, trusts, out, wrote>>
PasswordFlow(p) == Is(p, {"password"}) /\ Checked(p)
EliceFlow(p) == Is(p, {"elice"}) /\ Checked(p)
KaggleFlow(p) == Is(p, {"kaggle"}) /\ Checked(p)

Stores(p) ==
  /\ At(p, "stores")
  /\ LET names == Keeps[kind[Mine(p)]] IN
       /\ Puts(p, names[job[p].next], job[p].target)
       /\ job' = [job EXCEPT ![p].next = @ + 1, ![p].at = IF job[p].next = Len(names) THEN "declares" ELSE @]
  /\ UNCHANGED <<kind, home, project, trusts, out>>

\* A tool signs in; it may write its token and still exit with an error.  What colab sessions
\* lists needs a token.
SignsIn(p, tool) ==
  /\ At(p, "checks") /\ Is(p, {tool})
  /\ \E ok, writes \in BOOLEAN :
       /\ ok /\ tool = "colab" => writes \/ Kept(Mine(p), "token.json")
       /\ job' = [job EXCEPT ![p].at = "signed", ![p].ok = ok, ![p].existed = Kept(Mine(p), Keeps[tool][1])]
       /\ IF writes THEN Puts(p, Keeps[tool][1], job[p].target) ELSE UNCHANGED <<secrets, wrote>>
  /\ UNCHANGED <<kind, home, project, trusts, out>>

\* Mutated form of ModalFlow: a failed sign in removes the token, also one that was there before.
RemovesAlways(p) ==
  /\ At(p, "signed") /\ Is(p, {"modal"})
  /\ IF job[p].ok /\ Kept(Mine(p), "modal.toml")
     THEN Goes(p, "declares") /\ UNCHANGED <<secrets, wrote>>
     ELSE /\ Goes(p, "failed")
          /\ secrets' = {s \in secrets : s[1] # Mine(p)} /\ wrote' = [wrote EXCEPT ![p] = {}]
  /\ UNCHANGED <<kind, home, project, trusts, out>>

\* modal_account: what a failed sign in has written is removed, unless it was there before.
ModalFlow(p) ==
  /\ At(p, "signed") /\ Is(p, {"modal"})
  /\ IF job[p].ok /\ Kept(Mine(p), "modal.toml")
     THEN Goes(p, "declares") /\ UNCHANGED <<secrets, wrote>>
     ELSE /\ Goes(p, "failed")
          /\ IF job[p].existed THEN UNCHANGED <<secrets, wrote>>
             ELSE /\ secrets' = {s \in secrets : s[1] # Mine(p)}
                  /\ wrote' = [wrote EXCEPT ![p] = {}]
  /\ UNCHANGED <<kind, home, project, trusts, out>>

\* colab_account: the token is taken over whatever the exit code is.
ColabFlow(p) ==
  /\ At(p, "signed") /\ Is(p, {"colab"})
  /\ Goes(p, IF job[p].ok THEN "declares" ELSE "failed")
  /\ UNCHANGED <<kind, home, project, secrets, trusts, out, wrote>>

-----------------------------------------------------------------------------
\* writer.update and writer.drop read the whole file, and write it again with one table changed.
Reads(p) ==
  /\ job[p].at \in {"declares", "rewrites", "records", "drops", "clears"} /\ job[p].text = None
  /\ job' = [job EXCEPT ![p].text = home]
  /\ UNCHANGED <<kind, home, project, secrets, trusts, out, wrote>>

Writes(p, table, value) == home' = [job[p].text EXCEPT ![table][Mine(p)] = value]
Holds(p) == job[p].text # None

Declares(p) ==
  /\ At(p, "declares") /\ Holds(p)
  /\ Writes(p, "account", job[p].target)
  /\ out' = out \ {Mine(p)} /\ wrote' = [wrote EXCEPT ![p] = @ \cup {"account"}]
  /\ Goes(p, IF job[p].found = None THEN "names" ELSE "records")
  /\ UNCHANGED <<kind, project, secrets, trusts>>

\* add_colab_key and change_workspace write the entry that log_in read, with one field more;
\* the machine may be asked afterwards.
Rewrites(p) ==
  /\ At(p, "rewrites") /\ Holds(p)
  /\ Writes(p, "account", job[p].target)
  /\ out' = out \ {Mine(p)}
  /\ \E place \in {"names", "asks"} : (place = "asks" => Is(p, ByKey)) /\ Goes(p, place)
  /\ UNCHANGED <<kind, project, secrets, trusts, wrote>>

\* detect_again: nothing found, or not confirmed, leaves the table as it is.
AsksAgain(p) ==
  /\ At(p, "asks")
  /\ \E cards \in Detects(job[p].target) :
       job' = [job EXCEPT ![p].found = cards, ![p].at = IF cards = None THEN "names" ELSE "records"]
  /\ UNCHANGED <<kind, home, project, secrets, trusts, out, wrote>>

Records(p) ==
  /\ At(p, "records") /\ Holds(p)
  /\ Writes(p, "devices", job[p].found)
  /\ Goes(p, "names")
  /\ UNCHANGED <<kind, project, secrets, trusts, out, wrote>>

NamesAccount(p) ==
  /\ At(p, "names")
  /\ project' = project \cup {Mine(p)}
  /\ Goes(p, "done")
  /\ UNCHANGED <<kind, home, secrets, trusts, out, wrote>>

LogoutBegins(p, a) ==
  /\ job[p].at \in Resting
  /\ job' = [job EXCEPT ![p] = [Idle EXCEPT !.at = "drops", !.cmd = "logout", !.alias = a]]
  /\ wrote' = [wrote EXCEPT ![p] = {}]
  /\ UNCHANGED <<kind, home, project, secrets, trusts, out>>

\* Mutated form of Drops: a logout of an account that is not declared ends at once.
DropsOrEnds(p) ==
  /\ At(p, "drops") /\ Holds(p)
  /\ Writes(p, "account", None)
  /\ out' = out \cup {Mine(p)}
  /\ Goes(p, IF job[p].text.account[Mine(p)] = None THEN "done" ELSE "clears")
  /\ UNCHANGED <<kind, project, secrets, trusts, wrote>>

Drops(p) ==
  /\ At(p, "drops") /\ Holds(p)
  /\ Writes(p, "account", None)
  /\ out' = out \cup {Mine(p)}
  /\ Goes(p, "clears")
  /\ UNCHANGED <<kind, project, secrets, trusts, wrote>>

ClearsDevices(p) ==
  /\ At(p, "clears") /\ Holds(p)
  /\ Writes(p, "devices", None)
  /\ Goes(p, "forgets")
  /\ UNCHANGED <<kind, project, secrets, trusts, out, wrote>>

Forgets(p) ==
  /\ At(p, "forgets")
  /\ secrets' = {s \in secrets : s[1] # Mine(p)}
  /\ Goes(p, "done")
  /\ UNCHANGED <<kind, home, project, trusts, out, wrote>>

\* The command is interrupted, or one of its writes fails.
Dies(p) ==
  /\ job[p].at \notin Resting
  /\ job' = [job EXCEPT ![p] = Idle] /\ wrote' = [wrote EXCEPT ![p] = {}]
  /\ UNCHANGED <<kind, home, project, secrets, trusts, out>>

AccountsNext == \E p \in Procs :
  \/ \E a \in Aliases, t \in Targets : LoginBegins(p, a, t)
  \/ \E a \in Aliases : LoginAgain(p, a) \/ LogoutBegins(p, a)
  \/ Refused(p) \/ ShellFlow(p) \/ TunnelFlow(p) \/ PasswordFlow(p) \/ EliceFlow(p) \/ KaggleFlow(p) \/ Stores(p)
  \/ SignsIn(p, "modal") \/ ModalFlow(p) \/ SignsIn(p, "colab") \/ ColabFlow(p)
  \/ Reads(p) \/ Declares(p) \/ Rewrites(p) \/ AsksAgain(p) \/ Records(p) \/ NamesAccount(p)
  \/ Drops(p) \/ ClearsDevices(p) \/ Forgets(p) \/ Dies(p)

-----------------------------------------------------------------------------
\* config.load: a table without a kind, or a name the home file does not have, fails the load
\* of the whole project.
Spoils(a) == home.account[a] = None /\ (home.devices[a] # None \/ a \in project)

AccountsTypeOK ==
  /\ kind \in [Aliases -> Kinds]
  /\ home \in [account : [Aliases -> Targets \cup {None}], devices : [Aliases -> Targets \cup {None}]]
  /\ project \subseteq Aliases /\ out \subseteq Aliases /\ trusts \subseteq Targets
  /\ \A s \in secrets : s[1] \in Aliases /\ s[2] \in Names(s[1]) /\ s[3] \in Targets
  /\ \A p \in Procs : job[p].next \in 1 .. 4 /\ job[p].alias \in Aliases \cup {None}

\* A declared account can be used, wherever a login or a logout ended: its machine trusts the
\* key, or all its credentials are kept.
AccountsUsable == \A a \in Aliases : home.account[a] # None =>
  IF kind[a] \in ByKey THEN home.account[a] \in trusts ELSE \A n \in Names(a) : Kept(a, n)

\* config.load fails over no account but one that was logged out, wherever a login ended.
LoadsUnlessOut == \A a \in Aliases : Spoils(a) => a \in out

\* A logout that ends leaves neither the account nor its devices nor a credential, also after
\* one that did not end; a login that fails leaves nothing there was not before, but for a token
\* the Colab tool has written.
CommandsWhole == \A p \in Procs :
  /\ At(p, "done") /\ job[p].cmd = "logout" =>
       home.account[Mine(p)] = None /\ home.devices[Mine(p)] = None /\ ~\E s \in secrets : s[1] = Mine(p)
  /\ At(p, "failed") /\ ~Is(p, {"colab"}) => wrote[p] = {}

\* login.py:336 "No devices table was written, so letify asks the machine for its GPUs at
\* first use", printed when a login has found none.
AsksAtFirstUse == \A p \in Procs :
  At(p, "done") /\ job[p].cmd = "login" /\ job[p].found = None => home.devices[Mine(p)] = None

\* The same for every kind.
FailedWritesNothing == \A p \in Procs : At(p, "failed") => wrote[p] = {}
=============================================================================
