------------------------------ MODULE EntSlices ------------------------------
(***************************************************************************)
(* The slices in which the generated client keeps its hooks (client.go),   *)
(* its builders and queries what they got from it (book_query.go), a Chain *)
(* its hooks (hook/hook.go) and an App its entities (app.go).  Some share  *)
(* an array with another, most copy.  Interceptors are kept and handed on  *)
(* like hooks; predicates and orders of a query like each other.           *)
(*                                                                         *)
(* The host is one goroutine.  It passes a list of its own to the calls,   *)
(* and may go on changing that; but it does not overwrite the entities     *)
(* that it has handed to New, where an App would see it.                   *)
(***************************************************************************)
EXTENDS GoSlice, FiniteSets, SequencesExt

CONSTANTS Hooks, Client, Host, App, Builders, Chains, Queries,
          AllOps,       \* operations of a mutation
          MaxArrays     \* that are ever made

(* A hook is wrapped by hook.On or hook.Unless, or is hook.Reject(ops).    *)
ASSUME HooksAssumption ==
  Hooks \subseteq [name : STRING, how : {"On", "Unless", "Reject"}, ops : SUBSET AllOps]
(* Nothing holds its list in two of these roles.                           *)
ASSUME HoldersAssumption ==
  /\ Client # Host /\ Client # App /\ Host # App
  /\ {Client, Host, App} \cap (Builders \cup Chains \cup Queries) = {}
  /\ Builders \cap Chains = {} /\ Builders \cap Queries = {} /\ Chains \cap Queries = {}
ASSUME BoundsAssumption == MaxArrays \in Nat /\ MaxCap \in Nat /\ Empty \notin Hooks

VARIABLES heap,   \* the arrays
          slice,  \* the slice each holder has
          made    \* the holders there are

vars == <<heap, slice, made>>

Holders == {Client, Host, App} \cup Builders \cup Chains \cup Queries
ListOf(h) == Elements(heap, slice[h])

Init ==
  /\ heap = <<>>
  /\ slice = [h \in Holders |-> Nil]
  /\ made = {Client, Host}

Fits(n) == n <= MaxCap /\ Len(heap) < MaxArrays
Make(h) == h \notin made /\ made' = made \cup {h}
Share(h, s) == slice' = [slice EXCEPT ![h] = s] /\ UNCHANGED heap
Put(h, results) == \E r \in results : heap' = r.heap /\ slice' = [slice EXCEPT ![h] = r.slice]

(* append(nil, list...), which copies it.                                  *)
CopyOf(list) == AppendTo(heap, Nil, list)

AppendHosts(h) ==
  /\ h \in made /\ Fits(slice[h].len + slice[Host].len)
  /\ Put(h, AppendTo(heap, slice[h], ListOf(Host)))
  /\ UNCHANGED made

-----------------------------------------------------------------------------
(* The client and its builders.                                            *)

(* BookClient.Use and Intercept.                                           *)
ClientUse == AppendHosts(Client)

(* Create, Update, Delete and Query take the client's slice as it is.      *)
NewBuilder(b) == Make(b) /\ Share(b, slice[Client])

NewApp == Make(App) /\ Share(App, slice[Host])

NewQuery(q) == Make(q) /\ Share(q, Nil)

(* BookQuery.Where, Order, and BookMutation.Where.                         *)
Where(q) == AppendHosts(q)

(* A mutant of CloneQuery: the clone has the slice of the query.           *)
CloneQueryShallow(q, c) == q \in made /\ Make(c) /\ Share(c, slice[q])

CloneQuery(q, c) == q \in made /\ Fits(slice[q].len) /\ Make(c) /\ Put(c, CopyOf(ListOf(q)))

-----------------------------------------------------------------------------
(* Chains.                                                                 *)

NewChain(c) == Fits(slice[Host].len) /\ Make(c) /\ Put(c, CopyOf(ListOf(Host)))

(* A mutant of ChainAppend: append(c.hooks, hooks...).                     *)
ChainAppendInPlace(c, d, h) ==
  /\ c \in made /\ h \in made /\ Fits(slice[c].len + slice[h].len) /\ Make(d)
  /\ Put(d, AppendTo(heap, slice[c], ListOf(h)))

(* A mutant of ChainAppend: make gives the new slice its length already.   *)
ChainAppendZeroes(c, d, h) ==
  /\ c \in made /\ h \in made /\ Fits(slice[c].len + slice[h].len) /\ Make(d)
  /\ Put(d, AppendTo(heap, Nil, [i \in 1 .. slice[c].len + slice[h].len |-> Empty]
                                  \o ListOf(c) \o ListOf(h)))

(* Append, and Extend by another chain: into a new array that just fits.   *)
ChainAppend(c, d, h) ==
  /\ c \in made /\ h \in made /\ Fits(slice[c].len + slice[h].len) /\ Make(d)
  /\ LET list == ListOf(c) \o ListOf(h)
     IN  Put(d, {[heap |-> Append(heap, list), slice |-> [array |-> Len(heap) + 1, len |-> Len(list)]]})

-----------------------------------------------------------------------------
(* The host.                                                               *)

HostSets ==
  /\ \E i \in 1 .. slice[Host].len, hook \in Hooks :
       /\ slice[App].array # slice[Host].array \/ i > slice[App].len
       /\ heap' = Write(heap, slice[Host].array, i - 1, <<hook>>)
  /\ UNCHANGED <<slice, made>>

HostAppends ==
  /\ Fits(slice[Host].len + 1)
  /\ \E hook \in Hooks : Put(Host, AppendTo(heap, slice[Host], <<hook>>))
  /\ UNCHANGED made

Next ==
  \/ ClientUse \/ NewApp \/ HostSets \/ HostAppends
  \/ \E b \in Builders : NewBuilder(b)
  \/ \E q \in Queries : NewQuery(q) \/ Where(q) \/ \E c \in Queries : CloneQuery(q, c)
  \/ \E c \in Chains :
       NewChain(c) \/ \E d \in Chains, h \in {Host} \cup Chains : ChainAppend(c, d, h)

Spec == Init /\ [][Next]_vars

-----------------------------------------------------------------------------
(* What running the hooks around a mutation does: those that are entered,  *)
(* in order, and whether the statement is executed.                        *)

HasOp(op, ops) == op \in ops
Condition(hook, op) == IF hook.how = "Unless" THEN ~HasOp(op, hook.ops) ELSE HasOp(op, hook.ops)

(* If: the hook under its condition, the next mutator otherwise.           *)
Wrap(hook, next, op) ==
  IF ~Condition(hook, op) THEN next
  ELSE IF hook.how = "Reject" THEN [entered |-> <<>>, executed |-> FALSE]
  ELSE [next EXCEPT !.entered = <<hook.name>> \o @]

Statement == [entered |-> <<>>, executed |-> TRUE]

(* A mutant of Run: the hooks are wrapped from the first to the last.      *)
RunBackwards(list, op) ==
  LET wrapped[n \in 0 .. Len(list)] ==
        IF n = 0 THEN Statement ELSE Wrap(list[n], wrapped[n - 1], op)
  IN  wrapped[Len(list)]

(* withHooks and Chain.Hook wrap from the last to the first.               *)
Run(list, op) ==
  LET wrapped[n \in 0 .. Len(list)] ==
        IF n = 0 THEN Statement ELSE Wrap(list[Len(list) + 1 - n], wrapped[n - 1], op)
  IN  wrapped[Len(list)]

-----------------------------------------------------------------------------

TypeOK ==
  /\ heap \in Seq(UNION {[1 .. n -> Hooks \cup {Empty}] : n \in 0 .. MaxCap}) /\ Len(heap) <= MaxArrays
  /\ DOMAIN slice = Holders /\ \A h \in Holders : IsSlice(heap, slice[h])
  /\ made \subseteq Holders
  /\ \A h \in Holders : Range(ListOf(h)) \subseteq Hooks

(* Whatever shares an array, every holder has the list it was given: a     *)
(* chain always holds the same hooks in the same order (hook.go:165-166),  *)
(* a builder those its client had, a query what was added to it and not    *)
(* to its clone (book_query.go:241-242).                                   *)
Lists == INSTANCE EntLists WITH list <- [h \in Holders |-> ListOf(h)]
Implements == Lists!Spec

(* A builder or a chain runs its hooks from the first to the last up to    *)
(* one that rejects, and executes the statement if none does               *)
(* (client.go:210, hook.go:116-163, 176-184).                              *)
RunsAsListed ==
  \A h \in (Builders \cup Chains) \cap made, op \in AllOps :
    LET list == ListOf(h)
        applies(i) == (list[i].how = "Unless") # (op \in list[i].ops)
        reached == {i \in DOMAIN list : applies(i) /\ ~\E j \in 1 .. i : applies(j) /\ list[j].how = "Reject"}
        run == Run(list, op)
    IN  /\ run.executed <=> ~\E i \in DOMAIN list : applies(i) /\ list[i].how = "Reject"
        /\ Len(run.entered) = Cardinality(reached)
        /\ \A i, j \in reached : i < j => \E k, l \in DOMAIN run.entered :
             k < l /\ run.entered[k] = list[i].name /\ run.entered[l] = list[j].name
=============================================================================
