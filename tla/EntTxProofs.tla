---------------------------- MODULE EntTxProofs ----------------------------
(***************************************************************************)
(* Proofs about EntTx, for any number of transactions, books and hooks,    *)
(* with or without Debug.                                                  *)
(***************************************************************************)
EXTENDS EntTx, SequenceTheorems, TLAPS

-----------------------------------------------------------------------------
(* Typing, with what a call in progress looks like.                        *)

(* Only a Commit or Rollback in progress is on its way back, and only then *)
(* it has a result.                                                        *)
CallInv == \A t \in Txs : /\ call[t].ok => call[t].back
                          /\ call[t].back => call[t].kind # "none"

Clients == [tx : Txs \cup {NoTx}, wrapped : BOOLEAN, debug : BOOLEAN]

LEMMA IdleType == Idle \in Calls
BY DEF Idle, Calls

(* Replacing one call by another keeps the others.                         *)
LEMMA CallingType ==
  ASSUME TypeOK, NEW t \in Txs, NEW c \in Calls, Calling(t, c)
  PROVE  /\ call' \in [Txs -> Calls] /\ call'[t] = c
         /\ \A u \in Txs : u # t => call'[u] = call[u]
BY DEF Calling, TypeOK

LEMMA CallKept ==
  ASSUME TypeOK, CallInv, NEW t \in Txs, NEW c \in Calls, Calling(t, c),
         c.ok => c.back, c.back => c.kind # "none"
  PROVE  CallInv'
BY CallingType DEF CallInv

(* The changes that the steps of a call make to it.                        *)
LEMMA CallChanges ==
  ASSUME NEW c \in Calls, NEW ok \in BOOLEAN
  PROVE  /\ [c EXCEPT !.back = TRUE] \in Calls
         /\ [c EXCEPT !.at = @ + 1] \in Calls
         /\ [c EXCEPT !.back = TRUE, !.ok = ok] \in Calls
<1>1. /\ c.kind \in {"none", "commit", "rollback"} /\ c.hooks \in Seq(Hooks)
      /\ c.at \in Nat /\ c.at + 1 \in Nat /\ c.back \in BOOLEAN /\ c.ok \in BOOLEAN
      /\ c = [kind |-> c.kind, hooks |-> c.hooks, at |-> c.at, back |-> c.back, ok |-> c.ok]
  BY DEF Calls
<1> QED
  BY <1>1 DEF Calls

LEMMA InitTypeOK == Init => TypeOK /\ CallInv
<1> SUFFICES ASSUME Init PROVE TypeOK /\ CallInv
  OBVIOUS
<1>1. clients \subseteq Clients
  BY DEF Init, Client, Clients
<1>2. CallInv
  BY DEF Init, CallInv, Idle
<1> QED
  BY <1>1, <1>2, IdleType DEF Init, TypeOK, Clients

LEMMA TxType ==
  ASSUME TypeOK, NEW c \in clients, NEW t \in Txs, Tx(c, t)
  PROVE  TypeOK'
<1>1. clients' \subseteq Clients
  <2>1. c \in Clients /\ clients \subseteq Clients
    BY DEF TypeOK, Clients
  <2>2. Client(t, FALSE, c.debug) \in Clients
    BY <2>1 DEF Client, Clients
  <2>3. clients' = clients \cup {Client(t, FALSE, c.debug)}
    BY DEF Tx
  <2> QED
    BY <2>1, <2>2, <2>3
<1>2. c.tx \in Txs \cup {NoTx}
  BY DEF TypeOK
<1>3. base' \in [Txs -> Txs \cup {NoTx}] /\ state' \in [Txs -> {"none", "open", "committed", "rolledback"}]
  <2>1. CASE c.tx = NoTx
    <3>1. base' = [base EXCEPT ![t] = t] /\ state' = [state EXCEPT ![t] = "open"]
      BY <2>1 DEF Tx
    <3> QED
      BY <3>1 DEF TypeOK
  <2>2. CASE c.tx # NoTx
    <3>1. base' = [base EXCEPT ![t] = base[c.tx]] /\ state' = state
      BY <2>2 DEF Tx
    <3>2. base[c.tx] \in Txs \cup {NoTx}
      BY <1>2, <2>2 DEF TypeOK
    <3> QED
      BY <3>1, <3>2 DEF TypeOK
  <2> QED
    BY <2>1, <2>2
<1> QED
  BY <1>1, <1>3 DEF Tx, TypeOK, Clients

LEMMA SaveType ==
  ASSUME TypeOK, NEW c \in clients, NEW book \in Books, Save(c, book)
  PROVE  TypeOK'
<1>1. CASE c.tx = NoTx
  BY <1>1 DEF Save, TypeOK
<1>2. CASE c.tx # NoTx
  <2> DEFINE b == base[c.tx]
  <2>1. /\ pending' = [pending EXCEPT ![b] = pending[b] \cup {book}]
        /\ writes' = [writes EXCEPT ![c.tx] = writes[c.tx] \cup {book}]
        /\ UNCHANGED <<db, state>>
    BY <1>2 DEF Save, BuilderCommit
  <2>2. pending' \in [Txs -> SUBSET Books]
    BY <2>1 DEF TypeOK
  <2>3. writes' \in [Txs -> SUBSET Books]
    BY <2>1 DEF TypeOK
  <2> QED
    BY <2>1, <2>2, <2>3 DEF Save, TypeOK
<1> QED
  BY <1>1, <1>2

(* Every step keeps the types.                                             *)
LEMMA NextTypeOK == TypeOK /\ CallInv /\ [Next]_vars => TypeOK' /\ CallInv'
<1> SUFFICES ASSUME TypeOK, CallInv, [Next]_vars PROVE TypeOK' /\ CallInv'
  OBVIOUS
<1>1. ASSUME NEW c \in clients, Debug(c) PROVE TypeOK' /\ CallInv'
  BY <1>1 DEF Debug, TypeOK, CallInv
<1>2. ASSUME NEW c \in clients, NEW t \in Txs, Tx(c, t) PROVE TypeOK' /\ CallInv'
  BY <1>2, TxType DEF Tx, CallInv
<1>3. ASSUME NEW c \in clients, NEW book \in Books, Save(c, book) PROVE TypeOK' /\ CallInv'
  BY <1>3, SaveType DEF Save, CallInv
<1>4. ASSUME NEW t \in Txs, Cancel(t) PROVE TypeOK' /\ CallInv'
  BY <1>4 DEF Cancel, TypeOK, CallInv
<1>5. ASSUME NEW t \in Txs, NEW h \in Hooks, OnCommit(t, h) \/ OnRollback(t, h)
      PROVE  TypeOK' /\ CallInv'
  <2>1. /\ Append(onCommit[t], h) \in Seq(Hooks)
        /\ Append(onRollback[t], h) \in Seq(Hooks)
    BY DEF TypeOK
  <2>2. onCommit' \in [Txs -> Seq(Hooks)] /\ onRollback' \in [Txs -> Seq(Hooks)]
    <3>1. onCommit' = onCommit \/ onCommit' = [onCommit EXCEPT ![t] = Append(onCommit[t], h)]
      BY <1>5 DEF OnCommit, OnRollback
    <3>2. onRollback' = onRollback \/ onRollback' = [onRollback EXCEPT ![t] = Append(onRollback[t], h)]
      BY <1>5 DEF OnCommit, OnRollback
    <3>3. onCommit \in [Txs -> Seq(Hooks)] /\ onRollback \in [Txs -> Seq(Hooks)]
      BY DEF TypeOK
    <3>4. onCommit' \in [Txs -> Seq(Hooks)]
      BY <2>1, <3>1, <3>3
    <3>5. onRollback' \in [Txs -> Seq(Hooks)]
      BY <2>1, <3>2, <3>3
    <3> QED
      BY <3>4, <3>5
  <2>3. UNCHANGED <<db, clients, base, state, pending, writes, call, ran, reached, told>>
    BY <1>5 DEF OnCommit, OnRollback
  <2> QED
    BY <2>2, <2>3 DEF TypeOK, CallInv
<1>6. ASSUME NEW t \in Txs, Commit(t) \/ Rollback(t) PROVE TypeOK' /\ CallInv'
  <2>1. PICK c \in Calls : Calling(t, c) /\ ~c.back /\ ~c.ok
    <3>1. /\ [Idle EXCEPT !.kind = "commit", !.hooks = onCommit[t]] \in Calls
          /\ [Idle EXCEPT !.kind = "rollback", !.hooks = onRollback[t]] \in Calls
      BY DEF TypeOK, Calls, Idle
    <3> QED
      BY <1>6, <3>1 DEF Commit, Rollback, Idle
  <2>2. ran' \in [Txs -> Seq(Hooks)]
    <3>1. <<>> \in Seq(Hooks)
      OBVIOUS
    <3>2. ran' = [ran EXCEPT ![t] = <<>>] \/ ran' = ran
      BY <1>6 DEF Commit, Rollback
    <3> QED
      BY <3>1, <3>2 DEF TypeOK
  <2>3. UNCHANGED <<db, clients, base, state, pending, writes, onCommit, onRollback, reached, told>>
    BY <1>6 DEF Commit, Rollback, Same
  <2> QED
    BY <2>1, <2>2, <2>3, CallingType, CallKept DEF TypeOK
<1>7. ASSUME NEW t \in Txs, EnterHook(t) PROVE TypeOK' /\ CallInv'
  <2>1. call[t] \in Calls /\ call[t].kind # "none" /\ ~call[t].ok
    BY <1>7 DEF EnterHook, TypeOK, CallInv
  <2>2. PICK c \in Calls : Calling(t, c) /\ c.kind = call[t].kind /\ ~c.ok
    <3>1. /\ [call[t] EXCEPT !.back = TRUE].kind = call[t].kind
          /\ [call[t] EXCEPT !.at = @ + 1].kind = call[t].kind
          /\ [call[t] EXCEPT !.back = TRUE].ok = call[t].ok
          /\ [call[t] EXCEPT !.at = @ + 1].ok = call[t].ok
      BY <2>1 DEF Calls
    <3> QED
      BY <1>7, <2>1, <3>1, CallChanges DEF EnterHook
  <2>3. call[t].hooks[call[t].at + 1] \in Hooks
    BY <1>7, <2>1 DEF EnterHook, Wrapped, Calls
  <2>4. ran' \in [Txs -> Seq(Hooks)]
    BY <1>7, <2>3 DEF EnterHook, Wrapped, TypeOK
  <2>5. UNCHANGED <<db, clients, base, state, pending, writes, onCommit, onRollback, reached, told>>
    BY <1>7 DEF EnterHook, Same
  <2> QED
    BY <2>1, <2>2, <2>4, <2>5, CallingType, CallKept DEF TypeOK
<1>8. ASSUME NEW t \in Txs, CommitBase(t) \/ RollbackBase(t) PROVE TypeOK' /\ CallInv'
  <2>1. call[t] \in Calls /\ call[t].kind # "none"
    BY <1>8 DEF CommitBase, RollbackBase, AtBase, TypeOK
  <2>2. PICK ok \in BOOLEAN : Back(t, ok)
    BY <1>8 DEF CommitBase, RollbackBase
  <2>3. PICK c \in Calls : Calling(t, c) /\ c.kind # "none" /\ c.back
    <3>1. /\ [call[t] EXCEPT !.back = TRUE, !.ok = ok].kind = call[t].kind
          /\ [call[t] EXCEPT !.back = TRUE, !.ok = ok].back
      BY <2>1 DEF Calls
    <3> QED
      BY <2>1, <2>2, <3>1, CallChanges DEF Back
  <2>4. db' \subseteq Books /\ reached' \subseteq Txs
    BY <1>8 DEF CommitBase, RollbackBase, Same, TypeOK
  <2>5. state' \in [Txs -> {"none", "open", "committed", "rolledback"}]
    <3>1. \/ state' = state
          \/ \E v \in {"committed", "rolledback"} : state' = [state EXCEPT ![t] = v]
          \/ state' = [state EXCEPT ![t] = state[t]]
      BY <1>8 DEF CommitBase, RollbackBase
    <3> QED
      BY <3>1 DEF TypeOK
  <2>6. UNCHANGED <<clients, base, pending, writes, onCommit, onRollback, ran, told>>
    BY <1>8 DEF CommitBase, RollbackBase, Same
  <2> QED
    BY <2>3, <2>4, <2>5, <2>6, CallingType, CallKept DEF TypeOK
<1>9. ASSUME NEW t \in Txs, Complete(t) PROVE TypeOK' /\ CallInv'
  <2>1. call[t].kind \in {"commit", "rollback"}
    BY <1>9 DEF Complete, TypeOK, Calls, CallInv
  <2>2. told' \in [Txs -> SUBSET {"commit", "rollback"}]
    BY <1>9, <2>1 DEF Complete, TypeOK
  <2>3. ~Idle.ok /\ ~Idle.back
    BY DEF Idle
  <2>4. /\ UNCHANGED <<db, clients, base, state, pending, writes, onCommit, onRollback, ran, reached>>
        /\ Calling(t, Idle)
    BY <1>9 DEF Complete, Same
  <2> QED
    BY <2>2, <2>3, <2>4, IdleType, CallingType, CallKept DEF TypeOK
<1>10. CASE UNCHANGED vars
  BY <1>10 DEF vars, TypeOK, CallInv
<1> QED
  BY <1>1, <1>2, <1>3, <1>4, <1>5, <1>6, <1>7, <1>8, <1>9, <1>10 DEF Next

(* The type invariant of EntTx: in particular the hooks of a call are      *)
(* hooks, whatever was added while it ran.                                 *)
THEOREM TypeCorrect == Spec => []TypeOK
<1>1. Spec => [](TypeOK /\ CallInv)
  BY InitTypeOK, NextTypeOK, PTL DEF Spec
<1> QED
  BY <1>1, PTL

-----------------------------------------------------------------------------
(* What a transaction says, and what it has done.  Neither OwnTold nor     *)
(* NothingEarly is inductive alone: they speak of what was saved through a *)
(* transaction, and it is the database transaction under it that is        *)
(* committed.  The parts below relate the two.                             *)

(* Who stands on whom: at most one level above a database transaction.     *)
BaseInv ==
  /\ \A c \in clients : c.tx # NoTx => base[c.tx] # NoTx
  /\ \A t \in Txs : base[t] # NoTx => base[base[t]] = base[t]
  /\ \A t \in Txs : base[t] # t => state[t] = "none"
  /\ \A t \in Txs : base[t] = NoTx => call[t] = Idle /\ told[t] = {}

(* What was saved through a transaction waits in the one under it, and in  *)
(* no other.                                                               *)
PendingInv ==
  /\ \A t \in Txs : writes[t] # {} => base[t] # NoTx
  /\ \A t \in Txs : base[t] # NoTx => writes[t] \subseteq pending[base[t]]
  /\ \A t \in Txs : \A book \in pending[t] : \E u \in Txs : book \in writes[u]
  /\ \A t, u \in Txs : t # u => pending[t] \cap pending[u] = {}

(* What waits is in the database all at once, when it is committed.        *)
CommittedInv ==
  /\ \A t \in Txs : pending[t] \cap db # {} => state[t] = "committed" /\ t \in reached
  /\ \A t \in Txs : state[t] = "committed" => pending[t] \subseteq db

(* What is or will be told of a transaction is how it ended.               *)
ToldInv ==
  \A t \in Txs : base[t] = t =>
    /\ call[t].ok /\ call[t].kind = "commit" => state[t] = "committed"
    /\ call[t].ok /\ call[t].kind = "rollback" => state[t] = "rolledback"
    /\ "commit" \in told[t] => state[t] = "committed"
    /\ "rollback" \in told[t] => state[t] = "rolledback"

IInv == TypeOK /\ CallInv /\ BaseInv /\ PendingInv /\ CommittedInv /\ ToldInv

LEMMA InitIInv == Init => IInv
<1> SUFFICES ASSUME Init PROVE IInv
  OBVIOUS
<1>1. BaseInv
  BY DEF Init, BaseInv, Client
<1>2. PendingInv /\ CommittedInv /\ ToldInv
  BY DEF Init, PendingInv, CommittedInv, ToldInv, Idle
<1> QED
  BY <1>1, <1>2, InitTypeOK DEF IInv

(* Steps that only concern calls and hooks leave the rest alone.           *)
LEMMA QuietInv ==
  ASSUME IInv, UNCHANGED <<db, clients, base, state, pending, writes, reached>>,
         NEW t \in Txs, base[t] # NoTx,
         \A u \in Txs : u # t => call'[u] = call[u] /\ told'[u] = told[u],
         base[t] = t => /\ call'[t].ok => call[t].ok /\ call'[t].kind = call[t].kind
                        /\ told'[t] = told[t] \/ (told'[t] = told[t] \cup {call[t].kind} /\ call[t].ok)
  PROVE  BaseInv' /\ PendingInv' /\ CommittedInv' /\ ToldInv'
<1>1. BaseInv'
  BY DEF IInv, BaseInv
<1>2. PendingInv' /\ CommittedInv'
  BY DEF IInv, PendingInv, CommittedInv
<1>3. ToldInv'
  BY DEF IInv, ToldInv
<1> QED
  BY <1>1, <1>2, <1>3

(* A new transaction has neither writes nor a history, whether it stands   *)
(* on itself or on another one (client.go:118-133).                        *)
LEMMA TxInv ==
  ASSUME IInv, NEW c \in clients, NEW t \in Txs, Tx(c, t)
  PROVE  BaseInv' /\ PendingInv' /\ CommittedInv' /\ ToldInv'
<1> USE DEF IInv
<1>1. /\ base[t] = NoTx /\ t # NoTx /\ state[t] = "none"
      /\ call[t] = Idle /\ told[t] = {} /\ writes[t] = {}
      /\ c.tx # NoTx => c.tx \in Txs
  BY NoTxAssumption DEF Tx, BaseInv, PendingInv, TypeOK
<1>2. PICK b \in Txs : /\ base' = [base EXCEPT ![t] = b]
                       /\ b # t => base[b] = b /\ state' = state
                       /\ b = t => state' = [state EXCEPT ![t] = "open"]
  <2>1. CASE c.tx = NoTx
    BY <1>1, <2>1 DEF Tx
  <2>2. CASE c.tx # NoTx
    <3>1. base[c.tx] \in Txs /\ base[base[c.tx]] = base[c.tx]
      BY <1>1, <2>2 DEF BaseInv, TypeOK
    <3>2. base[c.tx] # t
      BY <1>1, <3>1
    <3> QED
      BY <2>2, <3>1, <3>2 DEF Tx
  <2> QED
    BY <2>1, <2>2
<1>3. /\ base'[t] = b /\ \A u \in Txs : u # t => base'[u] = base[u] /\ state'[u] = state[u]
      /\ base'[b] = b /\ state'[t] \in {"none", "open"} /\ (b # t => state'[t] = "none")
  BY <1>1, <1>2 DEF TypeOK
<1>4. UNCHANGED <<db, pending, writes, call, reached, told>>
  BY DEF Tx
<1>5. \A d \in clients' : d.tx # NoTx => d.tx = t \/ d \in clients
  BY DEF Tx, Client
<1>6. BaseInv'
  <2>1. \A d \in clients' : d.tx # NoTx => base'[d.tx] # NoTx
    <3> SUFFICES ASSUME NEW d \in clients', d.tx # NoTx PROVE base'[d.tx] # NoTx
      OBVIOUS
    <3>1. CASE d.tx = t
      BY <1>3, <3>1, NoTxAssumption
    <3>2. CASE d.tx # t
      <4>1. d \in clients
        BY <1>5, <3>2
      <4>2. d.tx \in Txs /\ base[d.tx] # NoTx
        BY <4>1 DEF BaseInv, TypeOK
      <4> QED
        BY <1>3, <3>2, <4>2
    <3> QED
      BY <3>1, <3>2
  <2>2. \A u \in Txs : base'[u] # NoTx => base'[base'[u]] = base'[u]
    <3> TAKE u \in Txs
    <3>1. CASE u = t
      BY <1>3, <3>1
    <3>2. CASE u # t /\ base[u] # NoTx
      <4>1. base[u] \in Txs /\ base[base[u]] = base[u] /\ base[u] # t
        BY <1>1, <3>2 DEF BaseInv, TypeOK
      <4> QED
        BY <1>3, <3>2, <4>1
    <3> QED
      BY <1>3, <3>1, <3>2
  <2>3. \A u \in Txs : base'[u] # u => state'[u] = "none"
    BY <1>3 DEF BaseInv
  <2>4. \A u \in Txs : base'[u] = NoTx => call'[u] = Idle /\ told'[u] = {}
    BY <1>3, <1>4, NoTxAssumption DEF BaseInv
  <2> QED
    BY <2>1, <2>2, <2>3, <2>4 DEF BaseInv
<1>7. PendingInv'
  BY <1>1, <1>3, <1>4, NoTxAssumption DEF PendingInv
<1>8. CommittedInv'
  BY <1>1, <1>3, <1>4 DEF CommittedInv
<1>9. ToldInv'
  BY <1>1, <1>3, <1>4 DEF ToldInv, Idle
<1> QED
  BY <1>6, <1>7, <1>8, <1>9

(* A builder adds a new book to the database, or to the open transaction   *)
(* under its own, which it does not commit (tx.go:182-198).                *)
LEMMA SaveInv ==
  ASSUME IInv, NEW c \in clients, NEW book \in Books, Save(c, book)
  PROVE  BaseInv' /\ PendingInv' /\ CommittedInv' /\ ToldInv'
<1> USE DEF IInv
<1>1. /\ UNCHANGED <<clients, base, state, call, reached, told>>
      /\ book \notin db /\ \A u \in Txs : book \notin writes[u]
  <2>1. UNCHANGED <<clients, base, call, reached, told>> /\ book \notin Saved
    BY DEF Save
  <2>2. state' = state
    BY DEF Save, BuilderCommit
  <2>3. book \notin db /\ \A u \in Txs : book \notin writes[u]
    BY <2>1 DEF Saved
  <2> QED
    BY <2>1, <2>2, <2>3
<1>2. \A u \in Txs : book \notin pending[u]
  BY <1>1 DEF PendingInv
<1>3. BaseInv' /\ ToldInv'
  BY <1>1 DEF BaseInv, ToldInv
<1>4. CASE c.tx = NoTx
  <2>1. db' = db \cup {book} /\ UNCHANGED <<pending, writes>>
    BY <1>4 DEF Save
  <2> QED
    BY <1>1, <1>2, <1>3, <2>1 DEF PendingInv, CommittedInv
<1>5. CASE c.tx # NoTx
  <2> DEFINE b == base[c.tx]
  <2>1. c.tx \in Txs /\ b \in Txs /\ base[b] = b
    BY <1>5 DEF BaseInv, TypeOK
  <2>2. /\ state[b] = "open" /\ db' = db
        /\ pending' = [pending EXCEPT ![b] = pending[b] \cup {book}]
        /\ writes' = [writes EXCEPT ![c.tx] = writes[c.tx] \cup {book}]
    BY <1>5 DEF Save, BuilderCommit
  <2>3. /\ pending'[b] = pending[b] \cup {book}
        /\ \A u \in Txs : u # b => pending'[u] = pending[u]
        /\ writes'[c.tx] = writes[c.tx] \cup {book}
        /\ \A u \in Txs : u # c.tx => writes'[u] = writes[u]
    BY <2>1, <2>2 DEF TypeOK
  <2>4. PendingInv'
    <3>1. \A u \in Txs : writes'[u] # {} => base[u] # NoTx
      BY <2>1, <2>3, NoTxAssumption DEF PendingInv
    <3>2. \A u \in Txs : base[u] # NoTx => writes'[u] \subseteq pending'[base[u]]
      <4> TAKE u \in Txs
      <4>1. CASE u = c.tx
        BY <2>1, <2>3, <4>1, NoTxAssumption DEF PendingInv
      <4>2. CASE u # c.tx /\ base[u] # NoTx
        <5>1. base[u] \in Txs /\ writes[u] \subseteq pending[base[u]]
          BY <4>2 DEF PendingInv, TypeOK
        <5> QED
          BY <2>3, <4>2, <5>1
      <4> QED
        BY <4>1, <4>2
    <3>3. \A u \in Txs : \A x \in pending'[u] : \E w \in Txs : x \in writes'[w]
      <4> TAKE u \in Txs
      <4> TAKE x \in pending'[u]
      <4>1. CASE x = book
        BY <2>1, <2>3, <4>1
      <4>2. CASE x # book
        <5>1. x \in pending[u]
          BY <2>3, <4>2
        <5>2. PICK w \in Txs : x \in writes[w]
          BY <5>1 DEF PendingInv
        <5> QED
          BY <2>3, <5>2
      <4> QED
        BY <4>1, <4>2
    <3>4. \A u, w \in Txs : u # w => pending'[u] \cap pending'[w] = {}
      BY <1>2, <2>1, <2>3 DEF PendingInv
    <3> QED
      BY <1>1, <3>1, <3>2, <3>3, <3>4 DEF PendingInv
  <2>5. CommittedInv'
    <3>1. \A u \in Txs : pending'[u] \cap db = pending[u] \cap db
      BY <1>1, <2>3
    <3>2. \A u \in Txs : state[u] = "committed" => pending'[u] = pending[u]
      BY <2>2, <2>3
    <3> QED
      BY <1>1, <2>2, <3>1, <3>2 DEF CommittedInv
  <2> QED
    BY <1>3, <2>4, <2>5
<1> QED
  BY <1>4, <1>5

(* The database's own Commit and Rollback, or the nops of a nested one's.  *)
LEMMA EndInv ==
  ASSUME IInv, NEW t \in Txs, CommitBase(t) \/ RollbackBase(t)
  PROVE  BaseInv' /\ PendingInv' /\ CommittedInv' /\ ToldInv'
<1> USE DEF IInv
<1>1. UNCHANGED <<clients, base, pending, writes, told>>
  BY DEF CommitBase, RollbackBase, Same
<1>2. call[t] \in Calls /\ call[t].kind # "none" /\ ~call[t].back
  BY DEF CommitBase, RollbackBase, AtBase, TypeOK
<1>3. base[t] # NoTx
  BY <1>2 DEF BaseInv, Idle
<1>4. PICK ok \in BOOLEAN :
        /\ Back(t, ok)
        /\ base[t] # t => state' = state
        /\ base[t] = t /\ ok =>
             state[t] = "open" /\ state' = [state EXCEPT ![t] = IF call[t].kind = "commit" THEN "committed"
                                                               ELSE "rolledback"]
        /\ base[t] = t /\ ~ok => state' = [state EXCEPT ![t] = IF state[t] = "open" THEN "rolledback"
                                                              ELSE state[t]]
        /\ IF ok /\ base[t] = t /\ call[t].kind = "commit" THEN db' = db \cup pending[t] ELSE db' = db
        /\ reached' = IF call[t].kind = "commit" THEN reached \cup {t} ELSE reached
  <2>1. CASE CommitBase(t)
    <3>1. call[t].kind = "commit" /\ reached' = reached \cup {t}
      BY <2>1 DEF CommitBase, AtBase
    <3>2. CASE base[t] # t /\ Back(t, TRUE) /\ UNCHANGED <<db, state>>
      BY <3>1, <3>2
    <3>3. CASE /\ base[t] = t /\ state[t] = "open" /\ Back(t, TRUE)
               /\ state' = [state EXCEPT ![t] = "committed"] /\ db' = db \cup pending[t]
      BY <3>1, <3>3
    <3>4. CASE /\ base[t] = t /\ Back(t, FALSE) /\ db' = db
               /\ state' = [state EXCEPT ![t] = IF state[t] = "open" THEN "rolledback" ELSE state[t]]
      BY <3>1, <3>4
    <3> QED
      BY <2>1, <3>2, <3>3, <3>4 DEF CommitBase
  <2>2. CASE RollbackBase(t)
    <3>1. call[t].kind = "rollback" /\ UNCHANGED <<db, reached>>
      BY <2>2 DEF RollbackBase, AtBase
    <3>2. CASE base[t] # t
      BY <2>2, <3>1, <3>2 DEF RollbackBase
    <3>3. CASE base[t] = t
      <4>1. /\ state' = [state EXCEPT ![t] = IF state[t] = "open" THEN "rolledback" ELSE state[t]]
            /\ Back(t, state[t] = "open")
        BY <2>2, <3>3 DEF RollbackBase
      <4>2. CASE state[t] = "open"
        BY <3>1, <3>3, <4>1, <4>2
      <4>3. CASE state[t] # "open"
        BY <3>1, <3>3, <4>1, <4>3
      <4> QED
        BY <4>2, <4>3
    <3> QED
      BY <3>2, <3>3
  <2> QED
    BY <2>1, <2>2
<1>5. /\ call'[t].kind = call[t].kind /\ call'[t].ok = ok
      /\ \A u \in Txs : u # t => call'[u] = call[u] /\ state'[u] = state[u]
  <2>1. [call[t] EXCEPT !.back = TRUE, !.ok = ok] \in Calls
    BY <1>2, CallChanges
  <2>2. call'[t] = [call[t] EXCEPT !.back = TRUE, !.ok = ok] /\ \A u \in Txs : u # t => call'[u] = call[u]
    BY <1>4, <2>1, CallingType DEF Back
  <2>3. \A u \in Txs : u # t => state'[u] = state[u]
    BY <1>4 DEF TypeOK
  <2> QED
    BY <1>2, <2>2, <2>3 DEF Calls
<1>6. BaseInv'
  <2>1. \A u \in Txs : base[u] # u => state'[u] = state[u]
    BY <1>4, <1>5
  <2>2. \A u \in Txs : base[u] = NoTx => call'[u] = call[u]
    BY <1>3, <1>5
  <2> QED
    BY <1>1, <2>1, <2>2 DEF BaseInv
<1>7. PendingInv'
  BY <1>1 DEF PendingInv
<1>8. CommittedInv'
  <2>1. CASE ok /\ base[t] = t /\ call[t].kind = "commit"
    <3>1. db' = db \cup pending[t] /\ state'[t] = "committed" /\ t \in reached' /\ reached \subseteq reached'
      BY <1>4, <2>1 DEF TypeOK
    <3>2. \A u \in Txs : u # t => pending[u] \cap db' = pending[u] \cap db
      BY <3>1 DEF PendingInv
    <3> QED
      BY <1>1, <1>5, <3>1, <3>2 DEF CommittedInv
  <2>2. CASE ~(ok /\ base[t] = t /\ call[t].kind = "commit")
    <3>1. db' = db /\ reached \subseteq reached'
      BY <1>4, <2>2
    <3>2. \A u \in Txs : state'[u] = "committed" <=> state[u] = "committed"
      <4> TAKE u \in Txs
      <4>1. CASE u # t
        BY <1>5, <4>1
      <4>2. CASE u = t
        BY <1>4, <2>2, <4>2 DEF TypeOK
      <4> QED
        BY <4>1, <4>2
    <3> QED
      BY <1>1, <3>1, <3>2 DEF CommittedInv
  <2> QED
    BY <2>1, <2>2
<1>9. ToldInv'
  <2> SUFFICES ASSUME NEW u \in Txs, base[u] = u
               PROVE  /\ call'[u].ok /\ call'[u].kind = "commit" => state'[u] = "committed"
                      /\ call'[u].ok /\ call'[u].kind = "rollback" => state'[u] = "rolledback"
                      /\ "commit" \in told[u] => state'[u] = "committed"
                      /\ "rollback" \in told[u] => state'[u] = "rolledback"
    BY <1>1 DEF ToldInv
  <2>1. CASE u # t
    BY <1>5, <2>1 DEF ToldInv
  <2>2. CASE u = t
    <3>1. /\ "commit" \in told[t] => state[t] = "committed"
          /\ "rollback" \in told[t] => state[t] = "rolledback"
      BY <2>2 DEF ToldInv
    <3>2. CASE ok
      BY <1>4, <1>5, <2>2, <3>1, <3>2 DEF TypeOK
    <3>3. CASE ~ok
      BY <1>4, <1>5, <2>2, <3>1, <3>3 DEF TypeOK
    <3> QED
      BY <3>2, <3>3
  <2> QED
    BY <2>1, <2>2
<1> QED
  BY <1>6, <1>7, <1>8, <1>9

LEMMA NextIInv == IInv /\ [Next]_vars => IInv'
<1> SUFFICES ASSUME IInv, [Next]_vars PROVE IInv'
  OBVIOUS
<1>0. TypeOK' /\ CallInv' /\ TypeOK
  BY NextTypeOK DEF IInv
<1> SUFFICES BaseInv' /\ PendingInv' /\ CommittedInv' /\ ToldInv'
  BY <1>0 DEF IInv
<1>1. ASSUME NEW c \in clients, Debug(c) PROVE BaseInv' /\ PendingInv' /\ CommittedInv' /\ ToldInv'
  <2>1. \A d \in clients' : d \in clients \/ d.tx = c.tx
    BY <1>0, <1>1 DEF Debug, TypeOK
  <2>2. BaseInv'
    BY <1>1, <2>1 DEF Debug, IInv, BaseInv
  <2> QED
    BY <1>1, <2>2 DEF Debug, IInv, PendingInv, CommittedInv, ToldInv
<1>2. ASSUME NEW c \in clients, NEW t \in Txs, Tx(c, t)
      PROVE  BaseInv' /\ PendingInv' /\ CommittedInv' /\ ToldInv'
  BY <1>2, TxInv
<1>3. ASSUME NEW c \in clients, NEW book \in Books, Save(c, book)
      PROVE  BaseInv' /\ PendingInv' /\ CommittedInv' /\ ToldInv'
  BY <1>3, SaveInv
<1>4. ASSUME NEW t \in Txs, Cancel(t) PROVE BaseInv' /\ PendingInv' /\ CommittedInv' /\ ToldInv'
  <2>1. /\ base[t] = t /\ state[t] = "open" /\ state' = [state EXCEPT ![t] = "rolledback"]
        /\ UNCHANGED <<db, clients, base, pending, writes, call, reached, told>>
    BY <1>4 DEF Cancel
  <2>2. state'[t] = "rolledback" /\ \A u \in Txs : u # t => state'[u] = state[u]
    BY <1>0, <2>1 DEF TypeOK
  <2>3. BaseInv' /\ PendingInv'
    BY <2>1, <2>2 DEF IInv, BaseInv, PendingInv
  <2>4. CommittedInv'
    BY <2>1, <2>2 DEF IInv, CommittedInv
  <2>5. ToldInv'
    BY <2>1, <2>2 DEF IInv, ToldInv
  <2> QED
    BY <2>3, <2>4, <2>5
<1>5. ASSUME NEW t \in Txs, NEW h \in Hooks, OnCommit(t, h) \/ OnRollback(t, h)
      PROVE  BaseInv' /\ PendingInv' /\ CommittedInv' /\ ToldInv'
  BY <1>5, QuietInv DEF OnCommit, OnRollback
<1>6. ASSUME NEW t \in Txs, Commit(t) \/ Rollback(t)
      PROVE  BaseInv' /\ PendingInv' /\ CommittedInv' /\ ToldInv'
  <2>1. PICK c \in Calls : Calling(t, c) /\ ~c.ok
    <3>1. /\ [Idle EXCEPT !.kind = "commit", !.hooks = onCommit[t]] \in Calls
          /\ [Idle EXCEPT !.kind = "rollback", !.hooks = onRollback[t]] \in Calls
      BY <1>0 DEF TypeOK, Calls, Idle
    <3> QED
      BY <1>6, <3>1 DEF Commit, Rollback, Idle
  <2>2. call'[t] = c /\ \A u \in Txs : u # t => call'[u] = call[u]
    BY <1>0, <2>1, CallingType
  <2> QED
    BY <1>6, <2>1, <2>2, QuietInv DEF Commit, Rollback, Same
<1>7. ASSUME NEW t \in Txs, EnterHook(t)
      PROVE  BaseInv' /\ PendingInv' /\ CommittedInv' /\ ToldInv'
  <2>1. call[t] \in Calls /\ call[t].kind # "none" /\ base[t] # NoTx
    BY <1>0, <1>7 DEF EnterHook, TypeOK, IInv, BaseInv, Idle
  <2>2. PICK c \in Calls : Calling(t, c) /\ c.kind = call[t].kind /\ c.ok = call[t].ok
    <3>1. /\ [call[t] EXCEPT !.back = TRUE].kind = call[t].kind
          /\ [call[t] EXCEPT !.at = @ + 1].kind = call[t].kind
          /\ [call[t] EXCEPT !.back = TRUE].ok = call[t].ok
          /\ [call[t] EXCEPT !.at = @ + 1].ok = call[t].ok
      BY <2>1 DEF Calls
    <3> QED
      BY <1>7, <2>1, <3>1, CallChanges DEF EnterHook
  <2>3. call'[t] = c /\ \A u \in Txs : u # t => call'[u] = call[u]
    BY <1>0, <2>2, CallingType
  <2> QED
    BY <1>7, <2>1, <2>2, <2>3, QuietInv DEF EnterHook, Same
<1>8. ASSUME NEW t \in Txs, CommitBase(t) \/ RollbackBase(t)
      PROVE  BaseInv' /\ PendingInv' /\ CommittedInv' /\ ToldInv'
  BY <1>8, EndInv
<1>9. ASSUME NEW t \in Txs, Complete(t)
      PROVE  BaseInv' /\ PendingInv' /\ CommittedInv' /\ ToldInv'
  <2>1. base[t] # NoTx
    BY <1>9 DEF Complete, IInv, BaseInv, Idle
  <2>2. call'[t] = Idle /\ ~Idle.ok /\ \A u \in Txs : u # t => call'[u] = call[u]
    BY <1>0, <1>9, IdleType, CallingType DEF Complete, Idle
  <2>3. \E ok \in {call[t].ok, FALSE} :
          told' = [told EXCEPT ![t] = IF ok THEN told[t] \cup {call[t].kind} ELSE told[t]]
    BY <1>9 DEF Complete
  <2>4. /\ \A u \in Txs : u # t => told'[u] = told[u]
        /\ told'[t] = told[t] \/ (told'[t] = told[t] \cup {call[t].kind} /\ call[t].ok)
    BY <1>0, <2>3 DEF TypeOK
  <2> QED
    BY <1>9, <2>1, <2>2, <2>4, QuietInv DEF Complete, Same
<1>10. CASE UNCHANGED vars
  BY <1>10 DEF vars, IInv, BaseInv, PendingInv, CommittedInv, ToldInv
<1> QED
  BY <1>1, <1>2, <1>3, <1>4, <1>5, <1>6, <1>7, <1>8, <1>9, <1>10 DEF Next

(* The inductive invariant that the two theorems below rest on.            *)
THEOREM Inductive == Spec => []IInv
BY InitIInv, NextIInv, PTL DEF Spec

(* Whatever the number of transactions, however they are nested and        *)
(* whatever the hooks do: what a Commit or Rollback of a transaction with  *)
(* a database transaction of its own has reported is what has happened     *)
(* (tx.go:59-72, 115-128).                                                 *)
THEOREM AlwaysOwnTold == Spec => []OwnTold
<1>1. IInv => OwnTold
  <2> SUFFICES ASSUME IInv, NEW t \in Txs, base[t] = t PROVE Truthful(t)
    BY DEF OwnTold
  <2>1. writes[t] \subseteq pending[t]
    BY NoTxAssumption DEF IInv, PendingInv
  <2>2. "commit" \in told[t] => writes[t] \subseteq db
    BY <2>1 DEF IInv, ToldInv, CommittedInv
  <2>3. "rollback" \in told[t] => writes[t] \cap db = {}
    BY <2>1 DEF IInv, ToldInv, CommittedInv
  <2> QED
    BY <2>2, <2>3 DEF Truthful
<1> QED
  BY <1>1, Inductive, PTL

(* Nothing saved through a transaction, nested or not, is in the database  *)
(* before all commit hooks of the one under it have let a Commit through   *)
(* (tx.go:151-155, 182-198).                                               *)
THEOREM AlwaysNothingEarly == Spec => []NothingEarly
<1>1. IInv => NothingEarly
  <2> SUFFICES ASSUME IInv, NEW t \in Txs, writes[t] \cap db # {} PROVE base[t] \in reached
    BY DEF NothingEarly
  <2>1. base[t] \in Txs /\ writes[t] \subseteq pending[base[t]]
    BY DEF IInv, PendingInv, TypeOK
  <2> QED
    BY <2>1 DEF IInv, CommittedInv
<1> QED
  BY <1>1, Inductive, PTL

-----------------------------------------------------------------------------
(* The hooks of a Commit.  While hooks are added to onCommit, the copy a   *)
(* Commit works on stays the beginning of it; and what has been entered is *)
(* the beginning of the copy, up to where the call is.                     *)

Begins(s, u) == Len(s) <= Len(u) /\ \A i \in 1 .. Len(s) : s[i] = u[i]

HooksInv ==
  \A t \in Txs : call[t].kind = "commit" =>
    /\ Begins(call[t].hooks, onCommit[t])
    /\ call[t].at <= Len(call[t].hooks)
    /\ ~call[t].back => Len(ran[t]) = call[t].at /\ Begins(ran[t], call[t].hooks)
    /\ call[t].ok => ran[t] = call[t].hooks

LEMMA BeginsItself == ASSUME NEW S, NEW s \in Seq(S) PROVE Begins(s, s)
BY DEF Begins

LEMMA BeginsNothing == ASSUME NEW S, NEW u \in Seq(S) PROVE Begins(<<>>, u)
BY DEF Begins

LEMMA BeginsLonger ==
  ASSUME NEW S, NEW s \in Seq(S), NEW u \in Seq(S), NEW h \in S, Begins(s, u)
  PROVE  Begins(s, Append(u, h))
BY DEF Begins

LEMMA BeginsNext ==
  ASSUME NEW S, NEW s \in Seq(S), NEW u \in Seq(S), Begins(s, u), Len(s) < Len(u)
  PROVE  Begins(Append(s, u[Len(s) + 1]), u)
BY DEF Begins

LEMMA BeginsWhole ==
  ASSUME NEW S, NEW s \in Seq(S), NEW u \in Seq(S), Begins(s, u), Len(s) = Len(u)
  PROVE  s = u
BY SeqEqual DEF Begins

(* It is what the community modules call a prefix.                         *)
LEMMA BeginsIsPrefix ==
  ASSUME NEW S, NEW s \in Seq(S), NEW u \in Seq(S), Begins(s, u)
  PROVE  IsPrefix(s, u)
<1>1. /\ Len(s) \in Nat /\ Len(u) \in Nat /\ Len(s) <= Len(u)
      /\ \A i \in 1 .. Len(s) : s[i] \in S /\ u[i] \in S /\ s[i] = u[i]
  BY DEF Begins
<1>2. /\ SubSeq(s, 1, Len(s)) = [i \in 1 .. Len(s) |-> s[i]]
      /\ SubSeq(u, 1, Len(s)) = [i \in 1 .. Len(s) |-> u[i]]
  BY <1>1
<1>3. SubSeq(s, 1, Len(s)) = SubSeq(u, 1, Len(s))
  BY <1>1, <1>2
<1> QED
  BY <1>1, <1>3 DEF IsPrefix

LEMMA InitHooks == Init => HooksInv
BY DEF Init, HooksInv, Idle

(* A call that is none of a Commit, and one that has not changed.          *)
LEMMA HooksKept ==
  ASSUME HooksInv, NEW t \in Txs, call'[t].kind # "commit",
         \A u \in Txs : u # t => /\ call'[u] = call[u] /\ ran'[u] = ran[u]
                                 /\ onCommit'[u] = onCommit[u]
  PROVE  HooksInv'
BY DEF HooksInv

LEMMA NextHooks == TypeOK /\ CallInv /\ HooksInv /\ [Next]_vars => HooksInv'
<1> SUFFICES ASSUME TypeOK, CallInv, HooksInv, [Next]_vars PROVE HooksInv'
  OBVIOUS
<1>1. ASSUME UNCHANGED <<call, ran, onCommit>> PROVE HooksInv'
  BY <1>1 DEF HooksInv
<1>2. ASSUME NEW t \in Txs, NEW h \in Hooks, OnCommit(t, h) PROVE HooksInv'
  <2>1. /\ UNCHANGED <<call, ran>> /\ onCommit'[t] = Append(onCommit[t], h)
        /\ \A u \in Txs : u # t => onCommit'[u] = onCommit[u]
    BY <1>2 DEF OnCommit, TypeOK
  <2>2. call[t].hooks \in Seq(Hooks) /\ onCommit[t] \in Seq(Hooks)
    BY DEF TypeOK, Calls
  <2>3. Begins(call[t].hooks, onCommit[t]) => Begins(call[t].hooks, onCommit'[t])
    BY <2>1, <2>2, BeginsLonger
  <2> QED
    BY <2>1, <2>3 DEF HooksInv
<1>3. ASSUME NEW t \in Txs, Commit(t) PROVE HooksInv'
  <2> DEFINE c == [Idle EXCEPT !.kind = "commit", !.hooks = onCommit[t]]
  <2>1. c \in Calls /\ onCommit[t] \in Seq(Hooks)
    BY DEF TypeOK, Calls, Idle
  <2>2. c.hooks = onCommit[t] /\ c.at = 0 /\ ~c.back /\ ~c.ok
    BY DEF Idle
  <2> HIDE DEF c
  <2>3. /\ call'[t] = c /\ ran'[t] = <<>> /\ onCommit' = onCommit
        /\ \A u \in Txs : u # t => call'[u] = call[u] /\ ran'[u] = ran[u]
    <3>1. Calling(t, c) /\ ran' = [ran EXCEPT ![t] = <<>>] /\ onCommit' = onCommit
      BY <1>3 DEF Commit, Same, c
    <3> QED
      BY <2>1, <3>1, CallingType DEF TypeOK
  <2>4. Begins(c.hooks, onCommit[t]) /\ Begins(<<>>, c.hooks)
    BY <2>1, <2>2, BeginsItself, BeginsNothing
  <2>5. Len(<<>>) = 0 /\ 0 <= Len(onCommit[t])
    BY <2>1
  <2> QED
    BY <2>2, <2>3, <2>4, <2>5 DEF HooksInv
<1>4. ASSUME NEW t \in Txs, Rollback(t) PROVE HooksInv'
  <2> DEFINE c == [Idle EXCEPT !.kind = "rollback", !.hooks = onRollback[t]]
  <2>1. c \in Calls /\ c.kind # "commit"
    BY DEF TypeOK, Calls, Idle
  <2>2. Calling(t, c) /\ UNCHANGED <<ran, onCommit>>
    BY <1>4 DEF Rollback, Same
  <2> HIDE DEF c
  <2> QED
    BY <2>1, <2>2, CallingType, HooksKept
<1>5. ASSUME NEW t \in Txs, EnterHook(t) PROVE HooksInv'
  <2> DEFINE refused == [call[t] EXCEPT !.back = TRUE]
             entered == [call[t] EXCEPT !.at = call[t].at + 1]
  <2>1. /\ call[t] \in Calls /\ call[t].hooks \in Seq(Hooks) /\ call[t].at \in Nat
        /\ ran[t] \in Seq(Hooks) /\ ~call[t].back /\ ~call[t].ok
        /\ call[t].at < Len(call[t].hooks)
    BY <1>5 DEF EnterHook, Wrapped, TypeOK, Calls, CallInv
  <2>2. /\ refused \in Calls /\ refused.kind = call[t].kind /\ refused.hooks = call[t].hooks
        /\ refused.at = call[t].at /\ refused.back /\ ~refused.ok
        /\ entered \in Calls /\ entered.kind = call[t].kind /\ entered.hooks = call[t].hooks
        /\ entered.at = call[t].at + 1 /\ ~entered.back /\ ~entered.ok
    BY <2>1, CallChanges DEF Calls
  <2> HIDE DEF refused, entered
  <2>3. call'[t] \in {refused, entered} /\ \A u \in Txs : u # t => call'[u] = call[u]
    BY <1>5, <2>2, CallingType DEF EnterHook, refused, entered
  <2>4. /\ onCommit' = onCommit
        /\ ran' = [ran EXCEPT ![t] = IF call[t].kind = "commit"
                                     THEN Append(ran[t], call[t].hooks[call[t].at + 1]) ELSE ran[t]]
    BY <1>5 DEF EnterHook, Wrapped, Same
  <2>5. \A u \in Txs : u # t => ran'[u] = ran[u]
    BY <2>4 DEF TypeOK
  <2>6. CASE call[t].kind # "commit"
    BY <2>2, <2>3, <2>4, <2>5, <2>6, HooksKept
  <2>7. CASE call[t].kind = "commit"
    <3>1. /\ Begins(call[t].hooks, onCommit[t])
          /\ Len(ran[t]) = call[t].at /\ Begins(ran[t], call[t].hooks)
      BY <2>1, <2>7 DEF HooksInv
    <3>2. ran'[t] = Append(ran[t], call[t].hooks[Len(ran[t]) + 1])
      BY <2>4, <2>7, <3>1 DEF TypeOK
    <3>3. Begins(ran'[t], call[t].hooks)
      BY <2>1, <3>1, <3>2, BeginsNext
    <3>4. Len(ran'[t]) = call[t].at + 1
      BY <2>1, <3>1, <3>2
    <3>5. call[t].at <= Len(call[t].hooks) /\ call[t].at + 1 <= Len(call[t].hooks)
      BY <2>1
    <3> QED
      BY <2>2, <2>3, <2>4, <2>5, <3>1, <3>3, <3>4, <3>5 DEF HooksInv
  <2> QED
    BY <2>6, <2>7
<1>6. ASSUME NEW t \in Txs, CommitBase(t) PROVE HooksInv'
  <2>1. PICK ok \in BOOLEAN : Back(t, ok)
    BY <1>6 DEF CommitBase
  <2>2. /\ call[t] \in Calls /\ call[t].hooks \in Seq(Hooks) /\ ran[t] \in Seq(Hooks)
        /\ call[t].kind = "commit" /\ ~call[t].back /\ call[t].at = Len(call[t].hooks)
    BY <1>6 DEF CommitBase, AtBase, Wrapped, TypeOK, Calls
  <2> DEFINE c == [call[t] EXCEPT !.back = TRUE, !.ok = ok]
  <2>3. c \in Calls /\ c.hooks = call[t].hooks /\ c.at = call[t].at /\ c.back
    BY <2>2, CallChanges DEF Calls
  <2> HIDE DEF c
  <2>4. /\ call'[t] = c /\ UNCHANGED <<ran, onCommit>>
        /\ \A u \in Txs : u # t => call'[u] = call[u]
    BY <1>6, <2>1, <2>3, CallingType DEF CommitBase, Back, Same, c
  <2>5. /\ Begins(call[t].hooks, onCommit[t]) /\ call[t].at <= Len(call[t].hooks)
        /\ Len(ran[t]) = Len(call[t].hooks) /\ Begins(ran[t], call[t].hooks)
    BY <2>2 DEF HooksInv
  <2>6. ran[t] = call[t].hooks
    BY <2>2, <2>5, BeginsWhole
  <2> QED
    BY <2>3, <2>4, <2>5, <2>6 DEF HooksInv
<1>7. ASSUME NEW t \in Txs, RollbackBase(t) PROVE HooksInv'
  <2>1. PICK ok \in BOOLEAN : Back(t, ok)
    BY <1>7 DEF RollbackBase
  <2> DEFINE c == [call[t] EXCEPT !.back = TRUE, !.ok = ok]
  <2>2. c \in Calls /\ c.kind # "commit"
    <3>1. call[t] \in Calls /\ call[t].kind = "rollback"
      BY <1>7 DEF RollbackBase, AtBase, TypeOK
    <3>2. c \in Calls
      BY <3>1, CallChanges
    <3>3. c.kind = call[t].kind
      BY <3>1 DEF Calls
    <3> QED
      BY <3>1, <3>2, <3>3
  <2>3. Calling(t, c) /\ UNCHANGED <<ran, onCommit>>
    BY <1>7, <2>1 DEF RollbackBase, Back, Same
  <2> HIDE DEF c
  <2> QED
    BY <2>2, <2>3, CallingType, HooksKept
<1>8. ASSUME NEW t \in Txs, Complete(t) PROVE HooksInv'
  <2>1. Calling(t, Idle) /\ UNCHANGED <<ran, onCommit>> /\ Idle.kind # "commit"
    BY <1>8 DEF Complete, Same, Idle
  <2> QED
    BY <2>1, IdleType, CallingType, HooksKept
<1> QED
  BY <1>1, <1>2, <1>3, <1>4, <1>5, <1>6, <1>7, <1>8
     DEF Next, vars, Debug, Tx, Save, Cancel, OnRollback

(* A Commit that reached the database has entered every hook there was     *)
(* when it was called, in the order they were added, however many others   *)
(* are being added meanwhile (tx.go:60-72).                                *)
THEOREM AlwaysHooksFirst == Spec => []HooksFirst
<1>1. Spec => [](TypeOK /\ CallInv /\ HooksInv)
  BY InitTypeOK, NextTypeOK, InitHooks, NextHooks, PTL DEF Spec
<1>2. TypeOK /\ CallInv /\ HooksInv => HooksFirst
  <2> SUFFICES ASSUME TypeOK, HooksInv, NEW t \in Txs, call[t].kind = "commit", call[t].ok
               PROVE  ran[t] = call[t].hooks /\ IsPrefix(ran[t], onCommit[t])
    BY DEF HooksFirst
  <2>1. ran[t] = call[t].hooks /\ Begins(call[t].hooks, onCommit[t])
    BY DEF HooksInv
  <2>2. ran[t] \in Seq(Hooks) /\ onCommit[t] \in Seq(Hooks)
    BY DEF TypeOK
  <2> QED
    BY <2>1, <2>2, BeginsIsPrefix
<1> QED
  BY <1>1, <1>2, PTL
=============================================================================
