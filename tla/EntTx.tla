-------------------------------- MODULE EntTx --------------------------------
(***************************************************************************)
(* Transactions of the generated client: Client.Tx and Client.Debug, the   *)
(* builders that run inside a transaction, Commit and Rollback with their  *)
(* hooks, and hooks added from other goroutines meanwhile.                 *)
(*                                                                         *)
(* The database and database/sql's transactions are external, as is        *)
(* dialect.Debug, which wraps a driver and passes every call on to it.     *)
(* A hook calls its next committer and returns what that returned, or it   *)
(* returns an error, before or after; a hook is added once, to one of them. *)
(***************************************************************************)
EXTENDS Integers, Sequences, FiniteSets, SequencesExt

CONSTANTS Txs,        \* transactions that can be started
          NoTx,       \* the driver of a client that is not transactional
          Books,      \* books that can be saved, each once
          Hooks,      \* completion hooks, each added at most once
          MayDebug    \* Client.Debug is called

ASSUME NoTxAssumption == NoTx \notin Txs
ASSUME DebugAssumption == MayDebug \in BOOLEAN

VARIABLES
  db,       \* the books in the database
  clients,  \* the clients there are
  base,     \* the database transaction under each transaction; NoTx if not started
  state,    \* of each database transaction: open, committed, rolled back
  pending,  \* the books written in it
  writes,   \* the books saved through each transaction's clients
  onCommit, onRollback,
  call,     \* the Commit or Rollback of it that is in progress
  ran,      \* the hooks its last Commit has entered
  reached,  \* the transactions whose Commit got past its last hook
  told      \* what Commit and Rollback have said they did

vars == <<db, clients, base, state, pending, writes, onCommit, onRollback, call, ran, reached, told>>

(* A client is told apart by its driver: a transaction's or the database's, *)
(* wrapped by dialect.Debug or not, and by its debug flag.                 *)
Client(t, wrapped, debug) == [tx |-> t, wrapped |-> wrapped, debug |-> debug]
Idle == [kind |-> "none", hooks |-> <<>>, at |-> 0, back |-> FALSE, ok |-> FALSE]
Saved == (UNION {writes[t] : t \in Txs}) \cup db

Init ==
  /\ db = {}
  /\ \E debug \in BOOLEAN : clients = {Client(NoTx, debug, debug)}
  /\ base = [t \in Txs |-> NoTx]
  /\ state = [t \in Txs |-> "none"]
  /\ pending = [t \in Txs |-> {}] /\ writes = [t \in Txs |-> {}]
  /\ onCommit = [t \in Txs |-> <<>>] /\ onRollback = [t \in Txs |-> <<>>]
  /\ call = [t \in Txs |-> Idle]
  /\ ran = [t \in Txs |-> <<>>] /\ reached = {} /\ told = [t \in Txs |-> {}]

-----------------------------------------------------------------------------
(* Clients.                                                                *)

(* Debug returns the client itself if the flag is set, and does not set it. *)
Debug(c) ==
  /\ MayDebug /\ ~c.debug
  /\ clients' = clients \cup {[c EXCEPT !.wrapped = TRUE]}
  /\ UNCHANGED <<db, base, state, pending, writes, onCommit, onRollback, call, ran, reached, told>>

(* Client.Tx refuses a client whose driver is a txDriver.  A wrapped one is *)
(* not recognised; its Tx returns the txDriver itself, so there is no      *)
(* transaction of its own under the new one.                               *)
Tx(c, t) ==
  /\ c.tx = NoTx \/ c.wrapped
  /\ base[t] = NoTx
  /\ IF c.tx = NoTx
       THEN base' = [base EXCEPT ![t] = t] /\ state' = [state EXCEPT ![t] = "open"]
       ELSE base' = [base EXCEPT ![t] = base[c.tx]] /\ UNCHANGED state
  /\ clients' = clients \cup {Client(t, FALSE, c.debug)}
  /\ UNCHANGED <<db, pending, writes, onCommit, onRollback, call, ran, reached, told>>

-----------------------------------------------------------------------------
(* Builders.                                                               *)

(* A mutant of BuilderCommit: it is passed on to the database.             *)
BuilderCommitThrough(b) ==
  /\ db' = db \cup pending'[b]
  /\ state' = [state EXCEPT ![b] = "committed"]

(* txDriver.Commit, which the builders call: a nop.                        *)
BuilderCommit(b) == UNCHANGED <<db, state>>

(* Saving outside a transaction commits at once, inside one it waits.      *)
Save(c, book) ==
  /\ book \notin Saved
  /\ IF c.tx = NoTx
       THEN db' = db \cup {book} /\ UNCHANGED <<state, pending, writes>>
       ELSE LET b == base[c.tx] IN
            /\ state[b] = "open"
            /\ pending' = [pending EXCEPT ![b] = @ \cup {book}]
            /\ writes' = [writes EXCEPT ![c.tx] = @ \cup {book}]
            /\ BuilderCommit(b)
  /\ UNCHANGED <<clients, base, onCommit, onRollback, call, ran, reached, told>>

(* The context given to Client.Tx is cancelled: database/sql rolls back.   *)
Cancel(t) ==
  /\ base[t] = t /\ state[t] = "open"
  /\ state' = [state EXCEPT ![t] = "rolledback"]
  /\ UNCHANGED <<db, clients, base, pending, writes, onCommit, onRollback, call, ran, reached, told>>

-----------------------------------------------------------------------------
(* Completion.                                                             *)

Unadded(h) == \A t \in Txs : h \notin ToSet(onCommit[t]) \cup ToSet(onRollback[t])

OnCommit(t, h) ==
  /\ base[t] # NoTx /\ Unadded(h)
  /\ onCommit' = [onCommit EXCEPT ![t] = Append(@, h)]
  /\ UNCHANGED <<db, clients, base, state, pending, writes, onRollback, call, ran, reached, told>>

OnRollback(t, h) ==
  /\ base[t] # NoTx /\ Unadded(h)
  /\ onRollback' = [onRollback EXCEPT ![t] = Append(@, h)]
  /\ UNCHANGED <<db, clients, base, state, pending, writes, onCommit, call, ran, reached, told>>

Calling(t, c) == call' = [call EXCEPT ![t] = c]
Same == UNCHANGED <<clients, base, pending, writes, onCommit, onRollback>>

(* A mutant of Commit: the copy is appended to a slice made with its size. *)
CommitSized(t) ==
  /\ base[t] # NoTx /\ call[t].kind = "none"
  /\ LET nils == [i \in DOMAIN onCommit[t] |-> NoTx]
     IN  Calling(t, [Idle EXCEPT !.kind = "commit", !.hooks = nils \o onCommit[t]])
  /\ ran' = [ran EXCEPT ![t] = <<>>]
  /\ Same /\ UNCHANGED <<db, state, reached, told>>

(* Commit and Rollback take a copy of the hooks under the lock.            *)
Commit(t) ==
  /\ base[t] # NoTx /\ call[t].kind = "none"
  /\ Calling(t, [Idle EXCEPT !.kind = "commit", !.hooks = onCommit[t]])
  /\ ran' = [ran EXCEPT ![t] = <<>>]
  /\ Same /\ UNCHANGED <<db, state, reached, told>>

Rollback(t) ==
  /\ base[t] # NoTx /\ call[t].kind = "none"
  /\ Calling(t, [Idle EXCEPT !.kind = "rollback", !.hooks = onRollback[t]])
  /\ Same /\ UNCHANGED <<db, state, ran, reached, told>>

(* A mutant of Wrapped: the loop stops at i > 0.                           *)
WrappedSkipsFirst(t) == IF call[t].hooks = <<>> THEN <<>> ELSE Tail(call[t].hooks)

(* The chain the loop builds: the first hook added is the outermost.       *)
Wrapped(t) == call[t].hooks

EnterHook(t) ==
  /\ call[t].kind # "none" /\ ~call[t].back /\ call[t].at < Len(Wrapped(t))
  /\ \E refuse \in BOOLEAN :
       Calling(t, IF refuse THEN [call[t] EXCEPT !.back = TRUE]
                  ELSE [call[t] EXCEPT !.at = @ + 1])
  /\ ran' = [ran EXCEPT ![t] = IF call[t].kind = "commit"
                               THEN Append(@, Wrapped(t)[call[t].at + 1]) ELSE @]
  /\ Same /\ UNCHANGED <<db, state, reached, told>>

AtBase(t, kind) == call[t].kind = kind /\ ~call[t].back /\ call[t].at = Len(Wrapped(t))
Back(t, ok) == Calling(t, [call[t] EXCEPT !.back = TRUE, !.ok = ok])

(* The innermost committer: the database's, which may fail, or for a       *)
(* transaction without one of its own the nop of the txDriver under it.    *)
CommitBase(t) ==
  /\ AtBase(t, "commit")
  /\ reached' = reached \cup {t}
  /\ \/ base[t] # t /\ Back(t, TRUE) /\ UNCHANGED <<db, state>>
     \/ /\ base[t] = t /\ state[t] = "open"
        /\ state' = [state EXCEPT ![t] = "committed"]
        /\ db' = db \cup pending[t]
        /\ Back(t, TRUE)
     \/ /\ base[t] = t
        /\ state' = [state EXCEPT ![t] = IF @ = "open" THEN "rolledback" ELSE @]
        /\ Back(t, FALSE) /\ UNCHANGED db
  /\ Same /\ UNCHANGED <<ran, told>>

(* A mutant of RollbackBase: a finished transaction is no error.           *)
RollbackBaseAnytime(t) ==
  /\ AtBase(t, "rollback")
  /\ state' = [state EXCEPT ![base[t]] = IF @ = "open" THEN "rolledback" ELSE @]
  /\ Back(t, TRUE)
  /\ Same /\ UNCHANGED <<db, ran, reached, told>>

RollbackBase(t) ==
  /\ AtBase(t, "rollback")
  /\ IF base[t] = t
       THEN /\ state' = [state EXCEPT ![t] = IF @ = "open" THEN "rolledback" ELSE @]
            /\ Back(t, state[t] = "open")
       ELSE Back(t, TRUE) /\ UNCHANGED state
  /\ Same /\ UNCHANGED <<db, ran, reached, told>>

(* The hooks return, with the result or an error of their own.             *)
Complete(t) ==
  /\ call[t].back
  /\ \E ok \in {call[t].ok} \cup (IF call[t].at > 0 THEN {FALSE} ELSE {}) :
       told' = [told EXCEPT ![t] = IF ok THEN @ \cup {call[t].kind} ELSE @]
  /\ Calling(t, Idle)
  /\ Same /\ UNCHANGED <<db, state, ran, reached>>

Next ==
  \/ \E c \in clients : \/ Debug(c)
                        \/ \E t \in Txs : Tx(c, t)
                        \/ \E book \in Books : Save(c, book)
  \/ \E t \in Txs : \/ Cancel(t) \/ Commit(t) \/ Rollback(t) \/ EnterHook(t)
                    \/ CommitBase(t) \/ RollbackBase(t) \/ Complete(t)
                    \/ \E h \in Hooks : OnCommit(t, h) \/ OnRollback(t, h)

Spec == Init /\ [][Next]_vars

-----------------------------------------------------------------------------

Calls == [kind : {"none", "commit", "rollback"}, hooks : Seq(Hooks), at : Nat,
          back : BOOLEAN, ok : BOOLEAN]

TypeOK ==
  /\ db \subseteq Books
  /\ clients \subseteq [tx : Txs \cup {NoTx}, wrapped : BOOLEAN, debug : BOOLEAN]
  /\ base \in [Txs -> Txs \cup {NoTx}]
  /\ state \in [Txs -> {"none", "open", "committed", "rolledback"}]
  /\ pending \in [Txs -> SUBSET Books] /\ writes \in [Txs -> SUBSET Books]
  /\ onCommit \in [Txs -> Seq(Hooks)] /\ onRollback \in [Txs -> Seq(Hooks)]
  /\ call \in [Txs -> Calls] /\ ran \in [Txs -> Seq(Hooks)]
  /\ reached \subseteq Txs /\ told \in [Txs -> SUBSET {"commit", "rollback"}]

Truthful(t) == /\ "commit" \in told[t] => writes[t] \subseteq db
               /\ "rollback" \in told[t] => writes[t] \cap db = {}

(* Commit commits the transaction (tx.go:59), Rollback undoes it: a        *)
(* Commit that reported success has everything saved through the           *)
(* transaction in the database, a Rollback that did nothing of it.         *)
ToldTheTruth == \A t \in Txs : Truthful(t)

(* The same of the transactions that are not nested in another one,        *)
(* whatever goes on in those that are nested in them: hooks that fail      *)
(* after the commit, a second Commit, a cancelled context.                 *)
OwnTold == \A t \in Txs : base[t] = t => Truthful(t)

(* Builders inside a transaction never commit it (tx.go:151-155): nothing  *)
(* saved through it is in the database before the Commit of the database's *)
(* transaction under it has been let through by every commit hook, and a   *)
(* refusal by one keeps all of it out.                                     *)
NothingEarly == \A t \in Txs : writes[t] \cap db # {} => base[t] \in reached

(* A Commit gets to the database only through every hook that had been     *)
(* added when it was called, in the order they were added (tx.go:60-72),   *)
(* however many are being added meanwhile.                                 *)
HooksFirst ==
  \A t \in Txs : call[t].kind = "commit" /\ call[t].ok =>
    /\ ran[t] = call[t].hooks
    /\ IsPrefix(ran[t], onCommit[t])
=============================================================================
