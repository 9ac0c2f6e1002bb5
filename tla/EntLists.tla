------------------------------ MODULE EntLists ------------------------------
(***************************************************************************)
(* What the users of ent are promised about the lists it keeps for them:   *)
(* every client, builder, chain and query has a list of its own, and what  *)
(* is done to one is seen in no other.                                     *)
(***************************************************************************)
EXTENDS Integers, Sequences

CONSTANTS Hooks,      \* what is listed: hooks, interceptors, predicates
          Client,     \* the hooks of a client and of all that come from it
          Host,       \* a list of the host's own, which it passes to calls
          App,        \* the entities of an App
          Builders, Chains, Queries

VARIABLES list, made

vars == <<list, made>>

Holders == {Client, Host, App} \cup Builders \cup Chains \cup Queries

Init ==
  /\ list = [h \in Holders |-> <<>>]
  /\ made = {Client, Host}

Keep(h, seq) == list' = [list EXCEPT ![h] = seq]
New(h, seq) == h \notin made /\ made' = made \cup {h} /\ Keep(h, seq)
Grow(h, seq) == h \in made /\ Keep(h, list[h] \o seq) /\ UNCHANGED made

(* Use, Intercept and Where add what they are given.                       *)
Add == \E h \in {Client} \cup Queries : Grow(h, list[Host])

(* A builder has the hooks of its client, an App the entities of its       *)
(* configuration, as they are when it is made.                             *)
Take == \/ \E b \in Builders : New(b, list[Client])
        \/ New(App, list[Host])
        \/ \E q \in Queries : New(q, <<>>)

Clone == \E q, c \in Queries : q \in made /\ New(c, list[q])

(* A chain will always hold the same hooks in the same order.              *)
Chain == \/ \E c \in Chains : New(c, list[Host])
         \/ \E c, d, e \in Chains :
              c \in made /\ (New(d, list[c] \o list[Host]) \/ (e \in made /\ New(d, list[c] \o list[e])))

(* The host's own list is the host's.                                      *)
HostChanges == \E seq \in [DOMAIN list[Host] -> Hooks] : Keep(Host, seq) /\ UNCHANGED made
HostAppends == \E hook \in Hooks : Grow(Host, <<hook>>)

Next == Add \/ Take \/ Clone \/ Chain \/ HostChanges \/ HostAppends

Spec == Init /\ [][Next]_vars
=============================================================================
