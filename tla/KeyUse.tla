------------------------------- MODULE KeyUse -------------------------------
(***************************************************************************)
(* The life of a key: ssh-keygen makes it, ssh-agent and ssh-add hold it,  *)
(* ssh-copy-id takes it to a server, ssh logs in with it.  The server's    *)
(* authorized_keys is external, and so is what else ssh-copy-id logs in    *)
(* with.  A locked agent lists nothing and refuses the rest.               *)
(***************************************************************************)
EXTENDS KeyFiles, Agent, FiniteSets

CONSTANT MaxTries   \* the keys that the server refuses before it hangs up

ASSUME MaxTriesAssumption == MaxTries \in Nat

VARIABLES
  authorized,   \* keys in the server's authorized_keys
  listed,       \* the keys that the agent has listed to each ssh
  offers        \* the signers that each ssh has collected, those of the agent first

useVars == <<authorized, listed, offers>>
vars == <<toolVars, fileVars, agentVars, useVars>>

notFiles == <<agentVars, useVars>>
notAgent == <<fileVars, useVars>>

\* Ends a connection with the process that had it.
Finishes(c, x) == Exits(c, x) /\ conn' = [conn EXCEPT ![c] = Nobody]

-----------------------------------------------------------------------------
(* ssh-add.                                                                *)

agentProcVars == <<path, socket, dir, serve, signalled, told, code>>

ConnectAgent(c) ==
  /\ Begins(c, Adders)
  /\ \/ \E name \in Known \cup {Given} :
          LET a == Dialed(name) IN
          /\ a # Nobody
          /\ conn' = [conn EXCEPT ![c] = a]
          /\ BeginsAt(c, IF tool[c] \in {"add", "delete"} THEN "file" ELSE "send")
     \/ /\ \E name \in Known \cup {Given} : Dialed(name) = Nobody
        /\ BeginsInVain(c, "2") /\ UNCHANGED conn
  /\ UNCHANGED <<agentProcVars, keyring, locked, notAgent>>

\* addKey reads the private file, Delete the public one.
ReadToAdd(c) ==
  /\ at[c] = "file"
  /\ LET f == IF tool[c] = "add" THEN priv ELSE pub IN
     IF f.state = "whole"
     THEN Takes(c, f.key) /\ Goes(c, IF f.sealed THEN "ask" ELSE "send") /\ UNCHANGED conn
     ELSE Finishes(c, "1") /\ UNCHANGED key
  /\ UNCHANGED <<spoiled, agentProcVars, keyring, locked, diskVars, sealed, useVars>>

\* Three attempts at the passphrase.
Ask(c) ==
  /\ at[c] = "ask"
  /\ \/ Goes(c, "send") /\ UNCHANGED conn
     \/ Finishes(c, "1")
  /\ UNCHANGED <<spoiled, agentProcVars, keyring, locked, notAgent>>

\* A connection that was accepted is served until the process ends.
Answers(a) == a # Nobody /\ serve[a] \in {"serving", "closing", "closed"}

\* What the keyring does with a request.
Done(c, a, ring, lock) ==
  /\ keyring' = [keyring EXCEPT ![a] = ring]
  /\ locked' = [locked EXCEPT ![a] = lock]
  /\ Finishes(c, "0")

Send(c) ==
  LET a == conn[c] IN
  /\ at[c] = "send" /\ Answers(a)
  /\ IF tool[c] = "unlock" THEN locked[a] /\ Done(c, a, keyring[a], FALSE)
     ELSE /\ ~locked[a]
          /\ \/ tool[c] = "add" /\ Done(c, a, keyring[a] \cup {key[c]}, FALSE)
             \/ tool[c] = "delete" /\ key[c] \in keyring[a] /\ Done(c, a, keyring[a] \ {key[c]}, FALSE)
             \/ tool[c] = "deleteall" /\ Done(c, a, {}, FALSE)
             \/ tool[c] = "lock" /\ Done(c, a, keyring[a], TRUE)
  /\ UNCHANGED <<spoiled, agentProcVars, notAgent>>

\* An error for an answer: locked or not, no such key, another passphrase; or none, from
\* an agent that is gone, or that closed its socket before it accepted.
MayRefuse(c, a) ==
  a = Nobody \/ serve[a] \in {"closing", "closed"} \/ tool[c] \in {"lock", "unlock"}
    \/ (Answers(a) /\ (locked[a] \/ (tool[c] = "delete" /\ key[c] \notin keyring[a])))

Refused(c) ==
  /\ at[c] = "send" /\ MayRefuse(c, conn[c]) = TRUE
  /\ Finishes(c, "1")
  /\ UNCHANGED <<spoiled, agentProcVars, keyring, locked, notAgent>>

-----------------------------------------------------------------------------
(* ssh-copy-id.                                                            *)

\* With -i the .pub file; else the first key of the agent, if it has one, else the file.
LoadPublicKey(c) ==
  /\ Begins(c, {"copyid"})
  /\ \/ /\ pub.state = "whole"
        /\ Takes(c, pub.key) /\ BeginsAt(c, "login")
     \/ /\ pub.state # "whole"
        /\ BeginsInVain(c, "1") /\ UNCHANGED key
     \/ \E name \in Known \cup {Given} :
          LET a == Dialed(name) IN
          /\ Answers(a) /\ ~locked[a]
          /\ \E k \in keyring[a] : Takes(c, k)
          /\ BeginsAt(c, "login")
  /\ UNCHANGED <<diskVars, sealed, notFiles>>

\* Whatever it logs in with, and wherever session.Run fails.
Install(c) ==
  /\ at[c] = "login"
  /\ \/ authorized' = authorized \cup {key[c]} /\ (Exits(c, "0") \/ Exits(c, "1"))
     \/ UNCHANGED authorized /\ Exits(c, "1")
  /\ UNCHANGED <<spoiled, fileVars, agentVars, listed, offers>>

-----------------------------------------------------------------------------
(* ssh: the callback of buildPublicKeyAuth, then the login.                *)

\* Unless IdentitiesOnly, and if the agent answers; then the connection stays open.
AgentSigners(c) ==
  /\ Begins(c, {"ssh"})
  /\ BeginsAt(c, "identity")
  /\ \/ \E name \in Known \cup {Given} :
          LET a == Dialed(name) IN
          /\ Answers(a)
          /\ conn' = [conn EXCEPT ![c] = a]
          /\ \E signers \in {IF locked[a] THEN {} ELSE keyring[a]} :
               /\ listed' = [listed EXCEPT ![c] = signers]
               /\ offers' = [offers EXCEPT ![c] = signers]
     \/ UNCHANGED <<conn, listed, offers>>
  /\ UNCHANGED <<fileVars, agentProcVars, keyring, locked, authorized>>

ReadUnsealed(c) ==   \* no passphrase callback: a sealed file is one that cannot be loaded
  /\ at[c] = "identity"
  /\ IF priv.state = "whole" THEN Takes(c, priv.key) /\ Goes(c, IF priv.sealed THEN "offer" ELSE "signer")
     ELSE Goes(c, "offer") /\ UNCHANGED key
  /\ UNCHANGED <<spoiled, diskVars, sealed, notFiles>>

\* loadPrivateKey: files that cannot be loaded are skipped.
ReadIdentity(c) ==
  /\ at[c] = "identity"
  /\ IF priv.state = "whole" THEN Takes(c, priv.key) /\ Goes(c, IF priv.sealed THEN "passphrase" ELSE "signer")
     ELSE Goes(c, "offer") /\ UNCHANGED key
  /\ UNCHANGED <<spoiled, diskVars, sealed, notFiles>>

PassphraseFor(c) ==
  /\ at[c] = "passphrase"
  /\ \/ Goes(c, "signer") /\ UNCHANGED key
     \/ Goes(c, "offer") /\ Takes(c, NoKey)
  /\ UNCHANGED <<spoiled, diskVars, sealed, notFiles>>

AddSigner(c) ==
  /\ at[c] = "signer"
  /\ Goes(c, "offer")
  /\ offers' = [offers EXCEPT ![c] = @ \cup {key[c]}]
  /\ UNCHANGED <<spoiled, fileVars, agentVars, authorized, listed>>

\* Each key that the server does not know is a failure.
Exhausts(c) == Cardinality(offers[c] \ authorized) >= MaxTries

\* The agent is asked for the signature only now, over the connection it listed its keys on.
Signs(c, k) == LET a == conn[c] IN Answers(a) /\ ~locked[a] /\ k \in keyring[a]
Unsigned(c) == {k \in listed[c] \cap authorized : ~Signs(c, k)}

\* The first key that the server knows decides: one of the agent's, in the agent's order, or
\* the file's.  No signature for it ends the method, with no look at the keys behind it.
LogIn(c) ==
  /\ at[c] = "offer"
  /\ \/ \E k \in listed[c] \cap authorized : Finishes(c, IF Signs(c, k) THEN "0" ELSE "255")
     \/ listed[c] \cap authorized = {} /\ offers[c] \cap authorized # {} /\ Finishes(c, "0")
     \/ (offers[c] \cap authorized = {} \/ Exhausts(c)) /\ Finishes(c, "255")
  /\ UNCHANGED <<spoiled, fileVars, agentProcVars, keyring, locked, useVars>>

UseNext(c) ==
  \/ ConnectAgent(c) \/ ReadToAdd(c) \/ Ask(c) \/ Send(c) \/ Refused(c)
  \/ LoadPublicKey(c) \/ Install(c)
  \/ AgentSigners(c) \/ ReadIdentity(c) \/ PassphraseFor(c) \/ AddSigner(c) \/ LogIn(c)

-----------------------------------------------------------------------------
Init ==
  /\ ToolsInit /\ KeyFilesInit /\ AgentInit
  /\ authorized = {}
  /\ listed = [p \in Procs |-> {}] /\ offers = [p \in Procs |-> {}]

Next ==
  \E p \in Procs :
    \/ KeygenNext(p) /\ UNCHANGED notFiles
    \/ AgentNext(p) /\ UNCHANGED notAgent
    \/ UseNext(p)

\* An agent goes on by itself, and a signal arrives; people, and who kills, need not act.
GoesOn(a) == ChildListens(a) \/ Announce(a) \/ Notify(a) \/ CloseListener(a) \/ CleanUp(a)
Fairness ==
  \A p \in Procs : /\ WF_vars(GoesOn(p) /\ UNCHANGED notAgent)
                   /\ WF_vars(Deliver(p) /\ UNCHANGED notAgent)

Spec == Init /\ [][Next]_vars /\ Fairness

-----------------------------------------------------------------------------
(* Properties.                                                             *)

Places == {"waiting", "ended",
           "overwrite", "make", "unseal", "read", "open", "write", "openpub", "writepub",
           "bound", "unbound", "spawned", "serving",
           "file", "ask", "send", "login", "identity", "passphrase", "signer", "offer"}

TypeOK ==
  /\ tool \in [Procs -> AllTools] /\ at \in [Procs -> Places]
  /\ exit \in [Procs -> {"none", "0", "1", "2", "255", "killed"}]
  /\ alone \in [Procs -> BOOLEAN] /\ spoiled \in BOOLEAN
  /\ KeyFilesTypeOK
  /\ AgentTypeOK(Keys)
  /\ authorized \subseteq Keys
  /\ listed \in [Procs -> SUBSET Keys] /\ offers \in [Procs -> SUBSET Keys]

\* auth.go:93-127, LoadPublicKey, generate.go:127-146: once ssh-copy-id has installed the .pub
\* file of a sound pair, ssh is let in with the private file, whatever became of the attempts
\* to change the files since, unless the passphrase is wrong, ssh-keygen is writing meanwhile,
\* the other keys of an agent use up the tries, or an agent that listed a key the server
\* knows does not sign with it any more.
LoginAfterCopy ==
  [][\A c \in Procs :
       /\ at[c] = "offer" /\ at'[c] = "ended"
       /\ alone[c] /\ ~spoiled /\ pub.state = "whole" /\ pub.key \in authorized
       => exit'[c] = "0" \/ key[c] = NoKey \/ Exhausts(c) \/ Unsigned(c) # {}]_vars
=============================================================================
