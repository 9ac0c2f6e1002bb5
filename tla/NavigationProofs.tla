--------------------------- MODULE NavigationProofs ---------------------------
(***************************************************************************)
(* Proofs about Navigation, for any schemas that Ent loads, any base paths *)
(* and any requests, of any length.                                        *)
(*                                                                         *)
(* What the operators on paths compute is proved by induction over the     *)
(* length of a text.  The claim is made of a set of numbers, the prefixes  *)
(* it holds of, and not of an operator, so that the provers can follow.    *)
(***************************************************************************)
EXTENDS Navigation, SequenceTheorems, FiniteSetTheorems, WellFoundedInduction, TLAPS

-----------------------------------------------------------------------------
(* From the schema to the App.                                             *)

(* What the generator accepts and Ent has loaded, New accepts, but for     *)
(* tables that clash or do not name a page: the two validations, one on    *)
(* the schema and one on the registry generated from it, fit together.     *)
LEMMA GeneratedIsValid ==
  ASSUME NEW g, LoadedByEnt(g), validateGraph(g),
         \A i \in DOMAIN g : /\ g[i].table \notin Dots /\ humanLabel(g[i].table) # <<>>
                             /\ \A j \in DOMAIN g : i # j => g[i].table # g[j].table
  PROVE  validateRegistry(AdminRegistry(g))
<1> DEFINE registered == AdminRegistry(g)
<1>1. DOMAIN registered = DOMAIN g
  BY DEF AdminRegistry
<1>2. ASSUME NEW i \in DOMAIN g
      PROVE  /\ registered[i].name = g[i].name /\ registered[i].reader
             /\ registered[i].label = humanLabel(g[i].label)
             /\ registered[i].plural = humanLabel(g[i].table)
             /\ registered[i].route = g[i].table
             /\ registered[i].id.name = g[i].id.name
             /\ registered[i].id.kind = fieldKind(g[i].id.type)
             /\ DOMAIN registered[i].fields = DOMAIN g[i].fields
             /\ \A f \in DOMAIN g[i].fields :
                  /\ registered[i].fields[f].name = g[i].fields[f].name
                  /\ registered[i].fields[f].kind = fieldKind(g[i].fields[f].type)
  BY DEF AdminRegistry
<1> HIDE DEF registered
<1>3. ASSUME NEW i \in DOMAIN g PROVE validEntity(registered[i])
  <2> DEFINE node == g[i]
             entity == registered[i]
  <2>1. /\ node.name # "" /\ node.id.name # "" /\ humanLabel(node.label) # <<>>
        /\ \A f, h \in DOMAIN node.fields : node.fields[f].name = node.fields[h].name => f = h
        /\ \A f \in DOMAIN node.fields : node.fields[f].name \notin {"", node.id.name}
    BY DEF LoadedByEnt
  <2>2. /\ validRoute(node.table) /\ fieldKind(node.id.type) # ""
        /\ \A f \in DOMAIN node.fields : fieldKind(node.fields[f].type) # ""
    BY DEF validateGraph, Range
  <2>3. entity.name # "" /\ entity.label # <<>> /\ entity.plural # <<>> /\ entity.reader
    <3>1. entity.reader
      BY <1>2, Zenon
    <3>2. entity.name # ""
      BY <1>2, <2>1
    <3>3. entity.label = humanLabel(node.label) /\ entity.plural = humanLabel(node.table)
      BY <1>2
    <3>4. humanLabel(node.label) # <<>> /\ humanLabel(node.table) # <<>>
      BY <2>1
    <3> QED
      BY <3>1, <3>2, <3>3, <3>4
  <2>4. validRoute(entity.route) /\ entity.route \notin Dots
    BY <1>2, <2>2
  <2>5. entity.id.name = node.id.name /\ entity.id.kind # "" /\ entity.id.name # ""
    BY <1>2, <2>1, <2>2
  <2>6. /\ DOMAIN entity.fields = DOMAIN node.fields
        /\ \A f \in DOMAIN node.fields : /\ entity.fields[f].name = node.fields[f].name
                                         /\ entity.fields[f].kind = fieldKind(node.fields[f].type)
    BY <1>2
  <2>7. \A f \in Range(entity.fields) : f.name \notin {"", entity.id.name} /\ f.kind # ""
    <3>1. \A f \in DOMAIN entity.fields :
            entity.fields[f].name \notin {"", entity.id.name} /\ entity.fields[f].kind # ""
      <4> TAKE f \in DOMAIN entity.fields
      <4>1. /\ f \in DOMAIN node.fields /\ entity.fields[f].name = node.fields[f].name
            /\ entity.fields[f].kind = fieldKind(node.fields[f].type)
        BY <2>6
      <4>2. node.fields[f].name # "" /\ node.fields[f].name # node.id.name
        BY <2>1, <4>1
      <4>3. fieldKind(node.fields[f].type) # ""
        BY <2>2, <4>1
      <4> QED
        BY <2>5, <4>1, <4>2, <4>3
    <3> QED
      BY <3>1 DEF Range
  <2>8. \A f, h \in DOMAIN entity.fields : entity.fields[f].name = entity.fields[h].name => f = h
    BY <2>1, <2>6
  <2> QED
    BY <2>3, <2>4, <2>5, <2>7, <2>8 DEF validEntity
<1>4. \A i, j \in DOMAIN registered : registered[i].route = registered[j].route => i = j
  <2>1. \A i \in DOMAIN g : registered[i].route = g[i].table
    BY <1>2
  <2> QED
    BY <1>1, <2>1
<1> QED
  BY <1>1, <1>3, <1>4 DEF validateRegistry, registered

(* What is generated is valid and comes from the schema.                   *)
GeneratedInv ==
  /\ graph \in Schemas
  /\ stage \in {"generated", "failed"} => validateGraph(graph) /\ registry = AdminRegistry(graph)
  /\ stage = "failed" => normalizeBasePath(raw) = <<>> \/ ~validateRegistry(registry)

LEMMA NextGenerated == GeneratedInv /\ [Next]_vars => GeneratedInv'
<1> SUFFICES ASSUME GeneratedInv, [Next]_vars PROVE GeneratedInv'
  OBVIOUS
<1>1. CASE Generate
  BY <1>1 DEF Generate, GeneratedInv
<1>2. CASE NewFails
  BY <1>2 DEF NewFails, GeneratedInv, app
<1>3. CASE New
  BY <1>3 DEF New, GeneratedInv
<1>4. ASSUME NEW p, Request(p) PROVE GeneratedInv'
  BY <1>4 DEF Request, GeneratedInv, app
<1>5. CASE HostWrites
  BY <1>5 DEF HostWrites, GeneratedInv, app
<1>6. CASE UNCHANGED vars
  BY <1>6 DEF vars, GeneratedInv, app
<1> QED
  BY <1>1, <1>2, <1>3, <1>4, <1>5, <1>6 DEF Next, Type, Follow

(* Of a registry generated from any schema New asks nothing that the       *)
(* generator has not seen to, but tables that name the pages               *)
(* (extension.go:49-96, app.go:317-351).                                   *)
THEOREM AlwaysGeneratedStarts == Spec => []GeneratedStarts
<1>1. Init => GeneratedInv
  BY DEF Init, GeneratedInv
<1>2. GeneratedInv => GeneratedStarts
  <2> SUFFICES ASSUME GeneratedInv, stage = "failed", normalizeBasePath(raw) # <<>>, ~Ambiguous
               PROVE  FALSE
    BY DEF GeneratedStarts
  <2>1. validateGraph(graph) /\ LoadedByEnt(graph) /\ ~validateRegistry(AdminRegistry(graph))
    BY SchemasAssumption DEF GeneratedInv
  <2> QED
    BY <2>1, GeneratedIsValid DEF Ambiguous
<1> QED
  BY <1>1, <1>2, NextGenerated, PTL DEF Spec

-----------------------------------------------------------------------------
(* Induction, by the least number that breaks a claim.                     *)

(* Every set of natural numbers has a least one.                           *)
LEMMA Least ==
  ASSUME NEW T, T \subseteq Nat, T # {}
  PROVE  \E n \in T : \A k \in T : n <= k
<1>1. PICK n \in T : \A k \in T : ~(<<k, n>> \in OpToRel(<, Nat))
  <2>1. IsWellFoundedOn(OpToRel(<, Nat), Nat)
    BY NatLessThanWellFounded
  <2> HIDE DEF OpToRel
  <2> QED
    BY <2>1, WFMin
<1>2. \A k \in T : ~(k < n)
  BY <1>1 DEF OpToRel
<1>3. \A k \in T : n <= k
  BY <1>2
<1> QED
  BY <1>3

LEMMA Induction ==
  ASSUME NEW P, 0 \in P, \A n \in Nat : n \in P => n + 1 \in P
  PROVE  Nat \subseteq P
<1> SUFFICES ASSUME Nat \ P # {} PROVE FALSE
  OBVIOUS
<1>1. PICK n \in Nat \ P : \A k \in Nat \ P : n <= k
  <2>1. Nat \ P \subseteq Nat
    OBVIOUS
  <2> QED
    BY <2>1, Least
<1>2. n # 0 /\ n - 1 \in Nat /\ n = (n - 1) + 1 /\ ~(n <= n - 1)
  OBVIOUS
<1>3. n - 1 \in P
  BY <1>1, <1>2
<1> QED
  BY <1>2, <1>3

LEMMA MinIs ==
  ASSUME NEW T, T \subseteq Nat, T # {}
  PROVE  Min(T) \in T /\ \A k \in T : Min(T) <= k
BY Least DEF Min

LEMMA MaxIs ==
  ASSUME NEW n \in Nat, NEW T, T \subseteq 1 .. n, T # {}
  PROVE  Max(T) \in T /\ \A k \in T : k <= Max(T)
<1> DEFINE D == {n - k : k \in T}
<1>1. D \subseteq Nat /\ D # {}
  <2>1. \A k \in T : n - k \in Nat
    OBVIOUS
  <2>2. PICK k \in T : TRUE
    OBVIOUS
  <2>3. n - k \in D
    BY <2>2
  <2> QED
    BY <2>1, <2>3
<1>2. PICK d \in D : \A k \in D : d <= k
  BY <1>1, Least
<1>3. PICK m \in T : d = n - m
  OBVIOUS
<1>4. ASSUME NEW k \in T PROVE m >= k
  <2>1. n - k \in D
    OBVIOUS
  <2>2. n - m <= n - k /\ m \in Nat /\ k \in Nat
    BY <1>2, <1>3, <2>1
  <2> QED
    BY <2>2
<1>5. \E x \in T : \A y \in T : x >= y
  BY <1>4
<1>6. Max(T) \in T /\ \A y \in T : Max(T) >= y
  BY <1>5 DEF Max
<1> QED
  BY <1>6

(* Two functions that are defined by the same recursion are the same.      *)
Alike(n, g, h) == g[0] = h[0] /\ \A i \in 1 .. n : g[i - 1] = h[i - 1] => g[i] = h[i]
Same(n, g, h) == \A i \in 0 .. n : g[i] = h[i]

LEMMA Agreement == ASSUME NEW n \in Nat, NEW g, NEW h, Alike(n, g, h) PROVE Same(n, g, h)
<1> USE DEF Alike, Same
<1> DEFINE P == {i \in Nat : i <= n => g[i] = h[i]}
<1>1. 0 \in P
  OBVIOUS
<1>2. ASSUME NEW i \in Nat, i \in P PROVE i + 1 \in P
  <2> SUFFICES ASSUME i + 1 <= n PROVE g[i + 1] = h[i + 1]
    OBVIOUS
  <2>1. i + 1 \in 1 .. n /\ (i + 1) - 1 = i /\ g[i] = h[i]
    BY <1>2
  <2> QED
    BY <2>1
<1> HIDE DEF P
<1>3. Nat \subseteq P
  BY <1>1, <1>2, Induction
<1> QED
  BY <1>3 DEF P

(* And there is one.                                                       *)
Steps(F, m, A) == F \in [A \X (1 .. m) -> A]
Recursive(g, A, a, m, F) ==
  g \in [0 .. m -> A] /\ g[0] = a /\ \A i \in 1 .. m : g[i] = F[<<g[i - 1], i>>]

LEMMA Recursion ==
  ASSUME NEW A, NEW a \in A, NEW m \in Nat, NEW F, Steps(F, m, A)
  PROVE  \E g : Recursive(g, A, a, m, F)
<1> USE DEF Steps, Recursive
<1> DEFINE Upto(n, g) == g[0] = a /\ \A i \in 1 .. n : g[i] = F[<<g[i - 1], i>>]
           P == {n \in Nat : n <= m => \E g \in [0 .. n -> A] : Upto(n, g)}
<1>1. 0 \in P
  <2> DEFINE g == [i \in 0 .. 0 |-> a]
  <2>1. g \in [0 .. 0 -> A] /\ Upto(0, g)
    OBVIOUS
  <2> QED
    BY <2>1
<1>2. ASSUME NEW n \in Nat, n \in P PROVE n + 1 \in P
  <2> SUFFICES ASSUME n + 1 <= m PROVE \E g \in [0 .. n + 1 -> A] : Upto(n + 1, g)
    OBVIOUS
  <2>1. PICK h \in [0 .. n -> A] : Upto(n, h)
    BY <1>2
  <2> DEFINE last == F[<<h[n], n + 1>>]
             g == [i \in 0 .. n + 1 |-> IF i = n + 1 THEN last ELSE h[i]]
  <2>2. last \in A
    BY <2>1
  <2> HIDE DEF last
  <2>3. g \in [0 .. n + 1 -> A] /\ g[0] = a
    BY <2>1, <2>2
  <2>4. ASSUME NEW i \in 1 .. n + 1 PROVE g[i] = F[<<g[i - 1], i>>]
    <3>1. CASE i = n + 1
      <4>1. g[i] = last /\ g[i - 1] = h[n]
        BY <3>1
      <4> QED
        BY <3>1, <4>1 DEF last
    <3>2. CASE i # n + 1
      <4>1. g[i] = h[i] /\ i \in 1 .. n /\ g[i - 1] = h[i - 1]
        BY <3>2
      <4> QED
        BY <2>1, <4>1
    <3> QED
      BY <3>1, <3>2
  <2> HIDE DEF g
  <2> QED
    BY <2>3, <2>4
<1> HIDE DEF P
<1>3. m \in P
  BY <1>1, <1>2, Induction
<1> QED
  BY <1>3 DEF P

-----------------------------------------------------------------------------
(* Texts.                                                                  *)

(* A token is a string; those that mean something are named once more,     *)
(* since the provers do not know that a literal is one.                    *)
Tokens == STRING \cup MustEscape \cup DOMAIN CharOf \cup {"x", "assets", "vsn.min.js", "."}
Text == Seq(Tokens)

LEMMA SlashType == "/" \in Tokens /\ Slash \in Text /\ Len(Slash) = 1 /\ Slash[1] = "/" /\ <<>> \in Text
<1>1. "/" \in Tokens
  BY DEF Tokens, MustEscape
<1> QED
  BY <1>1 DEF Slash, Text

LEMMA TextIs ==
  ASSUME NEW s \in Text
  PROVE  /\ Len(s) \in Nat /\ DOMAIN s = 1 .. Len(s) /\ s = <<>> <=> Len(s) = 0
         /\ \A i \in 1 .. Len(s) : s[i] \in Tokens
BY DEF Text

LEMMA ConcatIs ==
  ASSUME NEW s \in Text, NEW t \in Text
  PROVE  /\ s \o t \in Text /\ Len(s \o t) = Len(s) + Len(t)
         /\ \A i \in 1 .. Len(s) : (s \o t)[i] = s[i]
         /\ \A i \in 1 .. Len(t) : (s \o t)[Len(s) + i] = t[i]
<1>1. Len(s) \in Nat /\ Len(t) \in Nat
  BY TextIs
<1>2. /\ s \o t \in Text /\ Len(s \o t) = Len(s) + Len(t)
      /\ \A i \in 1 .. Len(s) + Len(t) : (s \o t)[i] = IF i <= Len(s) THEN s[i] ELSE t[i - Len(s)]
  BY ConcatProperties DEF Text
<1>3. \A i \in 1 .. Len(s) : (s \o t)[i] = s[i]
  BY <1>1, <1>2
<1>4. ASSUME NEW i \in 1 .. Len(t) PROVE (s \o t)[Len(s) + i] = t[i]
  <2>1. Len(s) + i \in 1 .. Len(s) + Len(t) /\ ~(Len(s) + i <= Len(s)) /\ (Len(s) + i) - Len(s) = i
    BY <1>1
  <2> QED
    BY <1>2, <2>1
<1> QED
  BY <1>2, <1>3, <1>4

LEMMA TextAssociative == \A s, t, u \in Text : s \o (t \o u) = (s \o t) \o u
<1> TAKE s, t, u \in Text
<1>1. s \in Seq(Tokens) /\ t \in Seq(Tokens) /\ u \in Seq(Tokens)
  BY DEF Text
<1> QED
  BY <1>1, ConcatAssociative

LEMMA PartIs ==
  ASSUME NEW s \in Text, NEW m \in Nat, NEW n \in Nat, 1 <= m, n <= Len(s), m <= n + 1
  PROVE  /\ SubSeq(s, m, n) \in Text /\ Len(SubSeq(s, m, n)) = n + 1 - m
         /\ \A i \in 1 .. n + 1 - m : SubSeq(s, m, n)[i] = s[m - 1 + i]
<1>1. Len(s) \in Nat /\ \A i \in m .. n : s[i] \in Tokens
  BY TextIs
<1>2. /\ SubSeq(s, m, n) \in Seq(Tokens)
      /\ Len(SubSeq(s, m, n)) = IF m <= n THEN n - m + 1 ELSE 0
      /\ \A i \in 1 .. n - m + 1 : SubSeq(s, m, n)[i] = s[m + i - 1]
  BY <1>1, SubSeqProperties
<1> QED
  BY <1>2 DEF Text

LEMMA SameText ==
  ASSUME NEW s \in Text, NEW t \in Text, Len(s) = Len(t), \A i \in 1 .. Len(s) : s[i] = t[i]
  PROVE  s = t
BY SeqEqual DEF Text

LEMMA PrefixIs ==
  ASSUME NEW s \in Text, NEW t \in Text
  PROVE  IsPrefix(s, t) <=> Len(s) <= Len(t) /\ \A i \in 1 .. Len(s) : s[i] = t[i]
<1>1. Len(s) \in Nat /\ Len(t) \in Nat
  BY TextIs
<1>2. ASSUME Len(s) <= Len(t)
      PROVE  SubSeq(s, 1, Len(s)) = SubSeq(t, 1, Len(s)) <=> \A i \in 1 .. Len(s) : s[i] = t[i]
  <2> DEFINE p == SubSeq(s, 1, Len(s))
             q == SubSeq(t, 1, Len(s))
  <2>1. p \in Text /\ Len(p) = Len(s) /\ \A i \in 1 .. Len(s) : p[i] = s[i]
    BY <1>1, PartIs
  <2>2. q \in Text /\ Len(q) = Len(s) /\ \A i \in 1 .. Len(s) : q[i] = t[i]
    BY <1>1, <1>2, PartIs
  <2> HIDE DEF p, q
  <2>3. p = q <=> \A i \in 1 .. Len(s) : s[i] = t[i]
    <3>1. ASSUME \A i \in 1 .. Len(s) : s[i] = t[i] PROVE p = q
      BY <2>1, <2>2, <3>1, SameText
    <3> QED
      BY <2>1, <2>2, <3>1
  <2> QED
    BY <2>3 DEF p, q
<1> QED
  BY <1>1, <1>2 DEF IsPrefix

(* Sequences grow at their end.                                            *)
LEMMA PrefixGrows ==
  ASSUME NEW S, NEW t \in Seq(S), NEW n \in Nat, n + 1 <= Len(t)
  PROVE  SubSeq(t, 1, n + 1) = Append(SubSeq(t, 1, n), t[n + 1]) /\ SubSeq(t, 1, n) \in Seq(S)
         /\ t[n + 1] \in S
<1>1. Len(t) \in Nat /\ \A i \in 1 .. Len(t) : t[i] \in S
  OBVIOUS
<1>2. /\ SubSeq(t, 1, n) \in Seq(S) /\ Len(SubSeq(t, 1, n)) = n
      /\ \A i \in 1 .. n : SubSeq(t, 1, n)[i] = t[i]
  BY <1>1, SubSeqProperties
<1>3. /\ SubSeq(t, 1, n + 1) \in Seq(S) /\ Len(SubSeq(t, 1, n + 1)) = n + 1
      /\ \A i \in 1 .. n + 1 : SubSeq(t, 1, n + 1)[i] = t[i]
  BY <1>1, SubSeqProperties
<1> DEFINE p == SubSeq(t, 1, n)
           q == SubSeq(t, 1, n + 1)
<1> HIDE DEF p, q
<1>4. /\ Append(p, t[n + 1]) \in Seq(S) /\ Len(Append(p, t[n + 1])) = n + 1
      /\ \A i \in 1 .. n + 1 : Append(p, t[n + 1])[i] = t[i]
  BY <1>1, <1>2, AppendProperties DEF p
<1>5. q = Append(p, t[n + 1])
  BY <1>3, <1>4, SeqEqual DEF q
<1>6. t[n + 1] \in S /\ p \in Seq(S)
  BY <1>1, <1>2 DEF p
<1> QED
  BY <1>5, <1>6 DEF p, q

LEMMA ConcatGrows ==
  ASSUME NEW S, NEW s \in Seq(S), NEW t \in Seq(S), NEW c \in S
  PROVE  s \o Append(t, c) = Append(s \o t, c)
<1>1. s \o t \in Seq(S) /\ <<c>> \in Seq(S)
  OBVIOUS
<1>2. Append(t, c) = t \o <<c>> /\ Append(s \o t, c) = (s \o t) \o <<c>>
  BY <1>1, AppendIsConcat
<1> QED
  BY <1>1, <1>2, ConcatAssociative

LEMMA TextGrows ==
  ASSUME NEW s \in Text, NEW t \in Text, NEW c \in Tokens
  PROVE  s \o Append(t, c) = Append(s \o t, c) /\ s \o t \in Text
<1>1. s \in Seq(Tokens) /\ t \in Seq(Tokens)
  BY DEF Text
<1>2. s \o Append(t, c) = Append(s \o t, c)
  BY <1>1, ConcatGrows
<1>3. s \o t \in Text
  BY <1>1, ConcatProperties DEF Text
<1> QED
  BY <1>2, <1>3

LEMMA WholePrefix ==
  ASSUME NEW S, NEW t \in Seq(S)
  PROVE  SubSeq(t, 1, 0) = <<>> /\ SubSeq(t, 1, Len(t)) = t /\ t \o <<>> = t /\ Len(t) \in Nat
BY SubSeqEmpty, SubSeqFull, ConcatEmptySeq

-----------------------------------------------------------------------------
(* Unescaping: what a path reads as.                                       *)

States == [ok : BOOLEAN, escape : BOOLEAN, text : Text]

LEMMA CharOfType == \A c \in DOMAIN CharOf : CharOf[c] \in Tokens
<1>1. DOMAIN CharOf = {"78", "2F", "25", "3F", "20"}
  BY DEF CharOf
<1>2. /\ CharOf["78"] = "x" /\ CharOf["2F"] = "/" /\ CharOf["25"] = "%"
      /\ CharOf["3F"] = "?" /\ CharOf["20"] = " "
  BY DEF CharOf
<1> QED
  BY <1>1, <1>2 DEF Tokens, MustEscape

LEMMA ReadTokenType ==
  ASSUME NEW so \in States, NEW c \in Tokens
  PROVE  ReadToken(so, c) \in States
<1>1. c \in DOMAIN CharOf => Append(so.text, CharOf[c]) \in Text
  BY CharOfType DEF States, Text
<1>2. Append(so.text, c) \in Text
  BY DEF States, Text
<1> HIDE DEF Text
<1> QED
  BY <1>1, <1>2 DEF ReadToken, States

LEMMA UnreadType == Unread \in States
BY DEF Unread, States, Text

Reads(r, s) == /\ r \in [0 .. Len(s) -> States] /\ r[0] = Unread
               /\ \A i \in 1 .. Len(s) : r[i] = ReadToken(r[i - 1], s[i])

LEMMA ReadsExist ==
  ASSUME NEW s \in Text
  PROVE  \E r : Reads(r, s) /\ ReadAll(s) = r[Len(s)]
<1> DEFINE n == Len(s)
           F == [x \in States \X (1 .. n) |-> ReadToken(x[1], s[x[2]])]
           recursive(r) == r = [i \in 0 .. n |-> IF i = 0 THEN Unread ELSE ReadToken(r[i - 1], s[i])]
<1>1. n \in Nat /\ \A i \in 1 .. n : s[i] \in Tokens
  BY DEF Text
<1>2. Steps(F, n, States)
  BY <1>1, ReadTokenType DEF Steps
<1>3. \A x \in States, i \in 1 .. n : F[<<x, i>>] = ReadToken(x, s[i])
  OBVIOUS
<1> HIDE DEF F, n
<1>4. PICK g \in [0 .. n -> States] : g[0] = Unread /\ \A i \in 1 .. n : g[i] = F[<<g[i - 1], i>>]
  <2>1. PICK g : Recursive(g, States, Unread, n, F)
    BY <1>1, <1>2, UnreadType, Recursion
  <2> QED
    BY <2>1 DEF Recursive
<1>5. \A i \in 1 .. n : g[i] = ReadToken(g[i - 1], s[i])
  <2> TAKE i \in 1 .. n
  <2>1. g[i - 1] \in States
    BY <1>1, <1>4
  <2> QED
    BY <1>3, <1>4, <2>1
<1>6. recursive(g)
  BY <1>1, <1>4, <1>5
<1> DEFINE r == CHOOSE r : recursive(r)
<1>7. recursive(r)
  BY <1>6
<1>8. ReadAll(s) = r[n]
  BY DEF ReadAll, n
<1> HIDE DEF r
<1>9. r[0] = Unread /\ \A i \in 1 .. n : r[i] = ReadToken(r[i - 1], s[i])
  BY <1>1, <1>7
<1>10. \A i \in 0 .. n : r[i] = g[i]
  <2>1. Alike(n, r, g)
    BY <1>4, <1>5, <1>9 DEF Alike
  <2>2. Same(n, r, g)
    BY <1>1, <2>1, Agreement
  <2> QED
    BY <2>2 DEF Same
<1>11. r \in [0 .. n -> States]
  BY <1>4, <1>7, <1>10
<1> QED
  BY <1>8, <1>9, <1>11 DEF Reads, n

LEMMA ReadNothing == ReadAll(<<>>) = Unread
<1>1. <<>> \in Text /\ Len(<<>>) = 0
  BY DEF Text
<1> QED
  BY <1>1, ReadsExist DEF Reads

LEMMA ReadAllType == ASSUME NEW s \in Text PROVE ReadAll(s) \in States
<1>1. Len(s) \in Nat
  BY DEF Text
<1> QED
  BY <1>1, ReadsExist DEF Reads

LEMMA ReadOneMore ==
  ASSUME NEW s \in Text, NEW c \in Tokens
  PROVE  ReadAll(Append(s, c)) = ReadToken(ReadAll(s), c)
<1> DEFINE t == Append(s, c)
           n == Len(s)
<1>1. t \in Text /\ n \in Nat /\ Len(t) = n + 1 /\ t[n + 1] = c /\ \A i \in 1 .. n : t[i] = s[i]
  BY AppendProperties DEF Text
<1> HIDE DEF t, n
<1>2. PICK g : Reads(g, s) /\ ReadAll(s) = g[n]
  BY ReadsExist DEF n
<1>3. PICK h : Reads(h, t) /\ ReadAll(t) = h[n + 1]
  BY <1>1, ReadsExist
<1>4. h[n + 1] = ReadToken(h[n], c)
  BY <1>1, <1>3 DEF Reads
<1>5. \A i \in 0 .. n : g[i] = h[i]
  <2>1. g[0] = h[0] /\ \A i \in 1 .. n : g[i] = ReadToken(g[i - 1], s[i]) /\ h[i] = ReadToken(h[i - 1], s[i])
    BY <1>1, <1>2, <1>3 DEF Reads, n
  <2>2. Alike(n, g, h)
    BY <1>1, <2>1 DEF Alike
  <2>3. Same(n, g, h)
    BY <1>1, <2>2, Agreement
  <2> QED
    BY <2>3 DEF Same
<1> QED
  BY <1>1, <1>2, <1>3, <1>4, <1>5 DEF t

(* Text without a percent sign reads as it is.                             *)

At(x) == [ok |-> TRUE, escape |-> FALSE, text |-> x]
Plain(t) == t \in Text /\ ~Mentions(t, {"%"})

LEMMA ReadPlainToken ==
  ASSUME NEW x, NEW c, c # "%" PROVE ReadToken(At(x), c) = At(Append(x, c))
BY DEF ReadToken, At

LEMMA ReadPlain ==
  ASSUME NEW s \in Text, NEW x \in Text, ReadAll(s) = At(x), NEW t, Plain(t)
  PROVE  ReadAll(s \o t) = At(x \o t)
<1>1. t \in Text /\ Len(t) \in Nat /\ \A i \in 1 .. Len(t) : t[i] # "%"
  BY DEF Plain, Mentions, Text
<1> DEFINE P == {n \in Nat : n <= Len(t) => ReadAll(s \o SubSeq(t, 1, n)) = At(x \o SubSeq(t, 1, n))}
<1>2. 0 \in P
  BY <1>1, WholePrefix DEF Text
<1>3. ASSUME NEW n \in Nat, n \in P PROVE n + 1 \in P
  <2> SUFFICES ASSUME n + 1 <= Len(t)
               PROVE  ReadAll(s \o SubSeq(t, 1, n + 1)) = At(x \o SubSeq(t, 1, n + 1))
    OBVIOUS
  <2> DEFINE p == SubSeq(t, 1, n)
             c == t[n + 1]
  <2>1. ReadAll(s \o p) = At(x \o p)
    BY <1>1, <1>3
  <2>2. SubSeq(t, 1, n + 1) = Append(p, c) /\ p \in Text /\ c \in Tokens /\ c # "%"
    BY <1>1, PrefixGrows DEF Text
  <2> HIDE DEF p, c
  <2>3. s \o Append(p, c) = Append(s \o p, c) /\ x \o Append(p, c) = Append(x \o p, c) /\ s \o p \in Text
    BY <2>2, TextGrows
  <2>4. ReadAll(Append(s \o p, c)) = ReadToken(At(x \o p), c)
    BY <2>1, <2>2, <2>3, ReadOneMore
  <2>5. ReadToken(At(x \o p), c) = At(Append(x \o p, c))
    BY <2>2, ReadPlainToken
  <2> HIDE DEF P
  <2> QED
    BY <2>2, <2>3, <2>4, <2>5
<1> HIDE DEF P
<1>4. Len(t) \in P
  BY <1>1, <1>2, <1>3, Induction
<1>5. SubSeq(t, 1, Len(t)) = t
  BY <1>1, WholePrefix DEF Text
<1>6. ReadAll(s \o SubSeq(t, 1, Len(t))) = At(x \o SubSeq(t, 1, Len(t)))
  BY <1>1, <1>4 DEF P
<1> QED
  BY <1>5, <1>6

LEMMA UnescapePlain ==
  ASSUME NEW t, Plain(t)
  PROVE  PathUnescape(t).ok /\ PathUnescape(t).text = t
<1>1. <<>> \in Text /\ ReadAll(<<>>) = At(<<>>) /\ <<>> \o t = t
  BY ReadNothing, ConcatEmptySeq DEF Unread, At, Text, Plain
<1>2. ReadAll(t) = At(t)
  BY <1>1, ReadPlain
<1>3. At(t).ok /\ ~At(t).escape /\ At(t).text = t
  BY DEF At
<1>4. PathUnescape(t).text = t
  BY <1>2, <1>3 DEF PathUnescape
<1>5. PathUnescape(t).ok
  BY <1>2, <1>3, Zenon DEF PathUnescape
<1> QED
  BY <1>4, <1>5

-----------------------------------------------------------------------------
(* What is escaped reads as what it was.                                   *)

EscapeToken(c) == IF c \in MustEscape THEN <<"%", Code(c)>> ELSE <<c>>

LEMMA CodeIs ==
  ASSUME NEW c \in MustEscape
  PROVE  Code(c) \in DOMAIN CharOf /\ CharOf[Code(c)] = c /\ Code(c) \in Tokens /\ Code(c) # "/"
<1>1. DOMAIN CharOf = {"78", "2F", "25", "3F", "20"}
  BY DEF CharOf
<1>2. /\ CharOf["78"] = "x" /\ CharOf["2F"] = "/" /\ CharOf["25"] = "%"
      /\ CharOf["3F"] = "?" /\ CharOf["20"] = " "
  BY DEF CharOf
<1>3. \E code \in DOMAIN CharOf : CharOf[code] = c
  BY <1>1, <1>2 DEF MustEscape
<1>4. Code(c) \in DOMAIN CharOf /\ CharOf[Code(c)] = c
  BY <1>3 DEF Code
<1> QED
  BY <1>1, <1>4 DEF Tokens

LEMMA EscapeTokenType ==
  ASSUME NEW c \in Tokens
  PROVE  /\ EscapeToken(c) \in Text /\ ~Mentions(EscapeToken(c), {"/"}) /\ Len(EscapeToken(c)) >= 1
<1>1. "%" \in Tokens
  BY DEF Tokens, MustEscape
<1>2. CASE c \in MustEscape
  <2>1. EscapeToken(c) = <<"%", Code(c)>> /\ Code(c) \in Tokens /\ Code(c) # "/"
    BY <1>2, CodeIs DEF EscapeToken
  <2> QED
    BY <1>1, <2>1 DEF Text, Mentions
<1>3. CASE c \notin MustEscape
  <2>1. EscapeToken(c) = <<c>> /\ c # "/"
    BY <1>3 DEF EscapeToken, MustEscape
  <2> QED
    BY <2>1 DEF Text, Mentions
<1> QED
  BY <1>2, <1>3

LEMMA ReadEscapedToken ==
  ASSUME NEW s \in Text, NEW x \in Text, ReadAll(s) = At(x), NEW c \in Tokens
  PROVE  ReadAll(s \o EscapeToken(c)) = At(Append(x, c))
<1>1. CASE c \in MustEscape
  <2> DEFINE code == Code(c)
  <2>1. code \in DOMAIN CharOf /\ CharOf[code] = c /\ code \in Tokens /\ "%" \in Tokens
    BY <1>1, CodeIs DEF Tokens, MustEscape
  <2>2. EscapeToken(c) = <<"%", code>>
    BY <1>1 DEF EscapeToken
  <2> HIDE DEF code
  <2>3. s \o <<"%", code>> = Append(Append(s, "%"), code) /\ Append(s, "%") \in Text
    BY <2>1 DEF Text
  <2>4. ReadAll(Append(s, "%")) = [At(x) EXCEPT !.escape = TRUE]
    <3>1. ReadAll(Append(s, "%")) = ReadToken(At(x), "%")
      BY <2>1, ReadOneMore
    <3>2. ReadToken(At(x), "%") = [At(x) EXCEPT !.escape = TRUE]
      BY DEF ReadToken, At
    <3> QED
      BY <3>1, <3>2
  <2>5. ReadAll(Append(Append(s, "%"), code)) = ReadToken([At(x) EXCEPT !.escape = TRUE], code)
    BY <2>1, <2>3, <2>4, ReadOneMore
  <2>6. ReadToken([At(x) EXCEPT !.escape = TRUE], code) = At(Append(x, c))
    BY <2>1 DEF ReadToken, At
  <2> QED
    BY <2>2, <2>3, <2>5, <2>6
<1>2. CASE c \notin MustEscape
  <2>1. EscapeToken(c) = <<c>> /\ c # "%"
    BY <1>2 DEF EscapeToken, MustEscape
  <2>2. s \o <<c>> = Append(s, c)
    BY AppendIsConcat DEF Text
  <2> QED
    BY <2>1, <2>2, ReadOneMore, ReadPlainToken
<1> QED
  BY <1>1, <1>2

Escapes(r, t) == /\ r \in [0 .. Len(t) -> Text] /\ r[0] = <<>>
                 /\ \A i \in 1 .. Len(t) : r[i] = r[i - 1] \o EscapeToken(t[i])

LEMMA EscapesExist ==
  ASSUME NEW t \in Text PROVE \E r : Escapes(r, t) /\ PathEscape(t) = r[Len(t)]
<1> DEFINE n == Len(t)
           parts == [i \in 1 .. n |-> EscapeToken(t[i])]
           F == [x \in Text \X (1 .. n) |-> x[1] \o EscapeToken(t[x[2]])]
           flattened(f) == f = [i \in 1 .. n |-> IF i = 1 THEN parts[i] ELSE f[i - 1] \o parts[i]]
<1>1. n \in Nat /\ DOMAIN t = 1 .. n /\ \A i \in 1 .. n : t[i] \in Tokens
  BY DEF Text
<1>2. \A i \in 1 .. n : EscapeToken(t[i]) \in Text
  BY <1>1, EscapeTokenType
<1>3. parts \in Seq(Text) /\ Len(parts) = n /\ \A i \in 1 .. n : parts[i] = EscapeToken(t[i])
  BY <1>1, <1>2
<1>4. PathEscape(t) = FlattenSeq(parts)
  BY <1>1 DEF PathEscape, EscapeToken
<1>5. Steps(F, n, Text)
  <2>1. \A x \in Text, i \in 1 .. n : x \o EscapeToken(t[i]) \in Text
    BY <1>2, ConcatProperties DEF Text
  <2> QED
    BY <2>1 DEF Steps
<1>6. \A x \in Text, i \in 1 .. n : F[<<x, i>>] = x \o EscapeToken(t[i])
  OBVIOUS
<1> HIDE DEF F, n, parts
<1>7. PICK r : Recursive(r, Text, <<>>, n, F)
  <2>1. <<>> \in Text
    BY DEF Text
  <2> QED
    BY <1>1, <1>5, <2>1, Recursion
<1>8. r \in [0 .. n -> Text] /\ r[0] = <<>> /\ \A i \in 1 .. n : r[i] = r[i - 1] \o EscapeToken(t[i])
  <2>1. r \in [0 .. n -> Text] /\ r[0] = <<>> /\ \A i \in 1 .. n : r[i] = F[<<r[i - 1], i>>]
    BY <1>7 DEF Recursive
  <2>2. \A i \in 1 .. n : r[i - 1] \in Text
    BY <1>1, <2>1
  <2> QED
    BY <1>6, <2>1, <2>2
<1>9. Escapes(r, t)
  BY <1>8 DEF Escapes, n
<1>10. CASE n = 0
  <2>1. FlattenSeq(parts) = parts /\ parts = <<>>
    BY <1>3, <1>10 DEF FlattenSeq
  <2> QED
    BY <1>4, <1>8, <1>9, <1>10, <2>1 DEF n
<1>11. CASE n # 0
  <2> DEFINE f == CHOOSE f : flattened(f)
             g == [i \in 1 .. n |-> r[i]]
  <2>1. flattened(g)
    <3>1. r[1] = parts[1]
      <4>1. 1 \in 1 .. n /\ 1 - 1 = 0
        BY <1>1, <1>11
      <4>2. r[1] = r[0] \o EscapeToken(t[1]) /\ EscapeToken(t[1]) \in Text
        BY <1>2, <1>8, <4>1
      <4>3. r[1] = EscapeToken(t[1])
        BY <1>8, <4>2, ConcatEmptySeq DEF Text
      <4> QED
        BY <1>3, <4>1, <4>3
    <3>2. ASSUME NEW i \in 1 .. n, i # 1 PROVE g[i] = g[i - 1] \o parts[i]
      <4>1. i - 1 \in 1 .. n /\ g[i] = r[i] /\ g[i - 1] = r[i - 1]
        BY <1>1, <3>2
      <4> QED
        BY <1>3, <1>8, <4>1
    <3>3. \A i \in 1 .. n : g[i] = IF i = 1 THEN parts[i] ELSE g[i - 1] \o parts[i]
      BY <1>1, <1>11, <3>1, <3>2
    <3> QED
      BY <3>3
  <2>2. flattened(f)
    BY <2>1
  <2>3. FlattenSeq(parts) = f[n]
    BY <1>3, <1>11 DEF FlattenSeq
  <2> HIDE DEF f
  <2>6. \A i \in 1 .. n : f[i] = IF i = 1 THEN parts[i] ELSE f[i - 1] \o parts[i]
    BY <2>2
  <2>7. \A i \in 1 .. n : r[i] = IF i = 1 THEN parts[i] ELSE r[i - 1] \o parts[i]
    <3>1. \A i \in 1 .. n : g[i] = IF i = 1 THEN parts[i] ELSE g[i - 1] \o parts[i]
      BY <2>1
    <3> TAKE i \in 1 .. n
    <3>2. g[i] = r[i] /\ i # 1 => i - 1 \in 1 .. n /\ g[i - 1] = r[i - 1]
      BY <1>1
    <3> QED
      BY <1>1, <3>1, <3>2
  <2> HIDE DEF flattened, g
  <2>4. Alike(n, [i \in 0 .. n |-> IF i = 0 THEN <<>> ELSE f[i]], r)
    <3> DEFINE h == [i \in 0 .. n |-> IF i = 0 THEN <<>> ELSE f[i]]
    <3>1. h[0] = r[0]
      BY <1>1, <1>8
    <3>2. ASSUME NEW i \in 1 .. n, h[i - 1] = r[i - 1] PROVE h[i] = r[i]
      <4>1. h[i] = f[i]
        BY <1>1
      <4>2. CASE i = 1
        BY <2>6, <2>7, <4>1, <4>2
      <4>3. CASE i # 1
        <5>1. i - 1 \in 0 .. n /\ i - 1 # 0
          BY <1>1, <4>3
        <5>2. h[i - 1] = f[i - 1]
          BY <5>1
        <5> QED
          BY <2>6, <2>7, <3>2, <4>1, <4>3, <5>2
      <4> QED
        BY <4>2, <4>3
    <3> HIDE DEF h
    <3> QED
      BY <3>1, <3>2 DEF Alike, h
  <2>5. f[n] = r[n]
    <3>1. Same(n, [i \in 0 .. n |-> IF i = 0 THEN <<>> ELSE f[i]], r)
      BY <1>1, <2>4, Agreement
    <3> QED
      BY <1>1, <1>11, <3>1 DEF Same
  <2> QED
    BY <1>4, <1>9, <2>3, <2>5 DEF n
<1> QED
  BY <1>10, <1>11

(* What is left when a link has been escaped and read again, and what else *)
(* is known of an escaped text.                                            *)
LEMMA EscapedText ==
  ASSUME NEW t \in Text
  PROVE  /\ PathEscape(t) \in Text /\ ~Mentions(PathEscape(t), {"/"})
         /\ t # <<>> => PathEscape(t) # <<>>
<1>1. PICK r : Escapes(r, t) /\ PathEscape(t) = r[Len(t)]
  BY EscapesExist
<1>2. Len(t) \in Nat /\ \A i \in 1 .. Len(t) : t[i] \in Tokens
  BY DEF Text
<1>3. r \in [0 .. Len(t) -> Text] /\ r[0] = <<>>
      /\ \A i \in 1 .. Len(t) : r[i] = r[i - 1] \o EscapeToken(t[i])
  BY <1>1 DEF Escapes
<1> DEFINE P == {n \in Nat : n <= Len(t) => ~Mentions(r[n], {"/"}) /\ Len(r[n]) >= n}
<1>4. 0 \in P
  BY <1>3 DEF Mentions
<1>5. ASSUME NEW n \in Nat, n \in P PROVE n + 1 \in P
  <2> SUFFICES ASSUME n + 1 <= Len(t)
               PROVE  ~Mentions(r[n + 1], {"/"}) /\ Len(r[n + 1]) >= n + 1
    OBVIOUS
  <2> DEFINE u == r[n]
             e == EscapeToken(t[n + 1])
  <2>1. u \in Text /\ ~Mentions(u, {"/"}) /\ Len(u) >= n
    BY <1>2, <1>3, <1>5
  <2>2. e \in Text /\ ~Mentions(e, {"/"}) /\ Len(e) >= 1
    BY <1>2, EscapeTokenType
  <2>3. r[n + 1] = u \o e
    BY <1>2, <1>3
  <2> HIDE DEF u, e
  <2>4. /\ u \o e \in Text /\ Len(u \o e) = Len(u) + Len(e) /\ Len(u) \in Nat /\ Len(e) \in Nat
        /\ \A i \in 1 .. Len(u) + Len(e) : (u \o e)[i] = IF i <= Len(u) THEN u[i] ELSE e[i - Len(u)]
    BY <2>1, <2>2, ConcatProperties DEF Text
  <2>5. ~Mentions(u \o e, {"/"})
    <3>1. DOMAIN u = 1 .. Len(u) /\ DOMAIN e = 1 .. Len(e) /\ DOMAIN (u \o e) = 1 .. Len(u) + Len(e)
      BY <2>1, <2>2, <2>4 DEF Text
    <3> QED
      BY <2>1, <2>2, <2>4, <3>1 DEF Mentions
  <2> QED
    BY <2>1, <2>2, <2>3, <2>4, <2>5
<1> HIDE DEF P
<1>6. Len(t) \in P
  BY <1>2, <1>4, <1>5, Induction
<1>7. ~Mentions(r[Len(t)], {"/"}) /\ Len(r[Len(t)]) >= Len(t)
  BY <1>2, <1>6 DEF P
<1>8. t # <<>> => Len(t) > 0
  BY DEF Text
<1> QED
  BY <1>1, <1>2, <1>3, <1>7, <1>8

LEMMA ReadEscaped ==
  ASSUME NEW s \in Text, NEW x \in Text, ReadAll(s) = At(x), NEW t \in Text
  PROVE  ReadAll(s \o PathEscape(t)) = At(x \o t)
<1>1. PICK r : Escapes(r, t) /\ PathEscape(t) = r[Len(t)]
  BY EscapesExist
<1>2. Len(t) \in Nat /\ \A i \in 1 .. Len(t) : t[i] \in Tokens
  BY DEF Text
<1>3. r \in [0 .. Len(t) -> Text] /\ r[0] = <<>>
      /\ \A i \in 1 .. Len(t) : r[i] = r[i - 1] \o EscapeToken(t[i])
  BY <1>1 DEF Escapes
<1> DEFINE P == {n \in Nat : n <= Len(t) => ReadAll(s \o r[n]) = At(x \o SubSeq(t, 1, n))}
<1>4. 0 \in P
  BY <1>3, WholePrefix DEF Text
<1>5. ASSUME NEW n \in Nat, n \in P PROVE n + 1 \in P
  <2> SUFFICES ASSUME n + 1 <= Len(t)
               PROVE  ReadAll(s \o r[n + 1]) = At(x \o SubSeq(t, 1, n + 1))
    OBVIOUS
  <2> DEFINE p == SubSeq(t, 1, n)
             c == t[n + 1]
             u == r[n]
  <2>1. ReadAll(s \o u) = At(x \o p) /\ u \in Text
    BY <1>2, <1>3, <1>5
  <2>2. SubSeq(t, 1, n + 1) = Append(p, c) /\ p \in Text /\ c \in Tokens
    BY PrefixGrows DEF Text
  <2>3. r[n + 1] = u \o EscapeToken(c)
    BY <1>2, <1>3
  <2> HIDE DEF p, c, u
  <2>4. x \o Append(p, c) = Append(x \o p, c) /\ s \o u \in Text /\ x \o p \in Text
    BY <2>1, <2>2, TextGrows
  <2>5. s \o (u \o EscapeToken(c)) = (s \o u) \o EscapeToken(c)
    <3> DEFINE e == EscapeToken(c)
    <3>1. e \in Text
      BY <2>2, EscapeTokenType
    <3> HIDE DEF e, P
    <3>2. u \in Text
      BY <2>1
    <3>3. s \o (u \o e) = (s \o u) \o e
      <4>1. s \in Text
        OBVIOUS
      <4>2. e \in Text
        BY <3>1
      <4>3. u \in Text
        BY <3>2
      <4> QED
        BY <4>1, <4>2, <4>3, TextAssociative
    <3> QED
      BY <3>3 DEF e
  <2>6. ReadAll((s \o u) \o EscapeToken(c)) = At(Append(x \o p, c))
    BY <2>1, <2>2, <2>4, ReadEscapedToken
  <2> QED
    BY <2>2, <2>3, <2>4, <2>5, <2>6
<1> HIDE DEF P
<1>6. Len(t) \in P
  BY <1>2, <1>4, <1>5, Induction
<1>7. ReadAll(s \o r[Len(t)]) = At(x \o SubSeq(t, 1, Len(t)))
  BY <1>2, <1>6 DEF P
<1>8. SubSeq(t, 1, Len(t)) = t
  BY WholePrefix DEF Text
<1> QED
  BY <1>1, <1>7, <1>8

-----------------------------------------------------------------------------
(* Base paths, and the paths below them.                                   *)

(* What New takes as the base of its paths: the root, or segments none of  *)
(* which is empty.                                                         *)
IsBase(b) ==
  \/ b = Slash
  \/ /\ b \in Text /\ Len(b) >= 1 /\ b[1] = "/" /\ b[Len(b)] # "/" /\ b # Slash
     /\ ~HasEmptySegment(b)

LEMMA NormalizedIsBase ==
  ASSUME NEW given \in Text, normalizeBasePath(given) # <<>>
  PROVE  IsBase(normalizeBasePath(given))
<1> DEFINE keep == {i \in DOMAIN given : given[i] # "/"}
           m == Max(keep)
           b == SubSeq(given, 1, m)
<1>1. CASE given \in {<<>>, Slash}
  BY <1>1 DEF normalizeBasePath, IsBase
<1>2. CASE given \notin {<<>>, Slash}
  <2>1. /\ given[1] = "/" /\ ~HasEmptySegment(given) /\ normalizeBasePath(given) = TrimRight(given)
    BY <1>2 DEF normalizeBasePath
  <2>2. keep # {} /\ TrimRight(given) = b
    BY <2>1 DEF TrimRight
  <2>3. Len(given) \in Nat /\ DOMAIN given = 1 .. Len(given)
    BY TextIs
  <2>4. m \in keep
    BY <2>2, <2>3, MaxIs
  <2>5. m \in 1 .. Len(given) /\ given[m] # "/"
    BY <2>3, <2>4
  <2> HIDE DEF m, keep
  <2>6. b \in Text /\ Len(b) = m /\ \A i \in 1 .. m : b[i] = given[i]
    BY <2>3, <2>5, PartIs
  <2> HIDE DEF b
  <2>7. ~HasEmptySegment(b)
    BY <2>1, <2>3, <2>5, <2>6 DEF HasEmptySegment
  <2>8. b[1] = "/" /\ b[Len(b)] # "/"
    BY <2>1, <2>5, <2>6
  <2>9. b # Slash
    BY <2>8, SlashType
  <2> QED
    BY <2>1, <2>2, <2>5, <2>6, <2>7, <2>8, <2>9 DEF IsBase
<1> QED
  BY <1>1, <1>2

(* Below a base that is not the root a path with an empty segment is no    *)
(* path of the App.                                                        *)
LEMMA EmptySegmentRefused ==
  ASSUME NEW b, IsBase(b), b # Slash, NEW p \in Text, HasEmptySegment(p)
  PROVE  relativePath(b, p) = <<>>
<1> DEFINE bs == b \o Slash
           r == SubSeq(p, Len(b) + 1, Len(p))
<1>1. /\ b \in Text /\ Len(b) >= 1 /\ b[1] = "/" /\ b[Len(b)] # "/" /\ ~HasEmptySegment(b)
      /\ Len(b) \in Nat /\ Len(p) \in Nat
  BY TextIs DEF IsBase
<1>2. PICK i \in 1 .. Len(p) - 1 : p[i] = "/" /\ p[i + 1] = "/"
  BY DEF HasEmptySegment
<1>3. /\ bs \in Text /\ Len(bs) = Len(b) + 1 /\ bs[Len(b) + 1] = "/"
      /\ \A k \in 1 .. Len(b) : bs[k] = b[k]
  <2>1. /\ bs \in Text /\ Len(bs) = Len(b) + Len(Slash)
        /\ \A k \in 1 .. Len(b) : bs[k] = b[k]
        /\ \A k \in 1 .. Len(Slash) : bs[Len(b) + k] = Slash[k]
    BY <1>1, SlashType, ConcatIs
  <2> HIDE DEF bs
  <2>2. 1 \in 1 .. Len(Slash)
    BY SlashType
  <2> QED
    BY <2>1, <2>2, SlashType
<1> HIDE DEF bs
<1>4. ASSUME \A k \in 1 .. Len(b) : p[k] = b[k], Len(p) >= Len(b) PROVE i >= Len(b) + 1
  <2>1. i # Len(b)
    BY <1>1, <1>2, <1>4
  <2>2. ~(i < Len(b))
    <3> SUFFICES ASSUME i < Len(b) PROVE FALSE
      OBVIOUS
    <3>1. i \in 1 .. Len(b) - 1 /\ b[i] = "/" /\ b[i + 1] = "/"
      BY <1>1, <1>2, <1>4
    <3> QED
      BY <1>1, <3>1 DEF HasEmptySegment
  <2> QED
    BY <1>1, <1>2, <2>1, <2>2
<1>5. p # b
  BY <1>1, <1>2, <1>4
<1>6. p # bs
  BY <1>1, <1>2, <1>3, <1>4
<1>7. ASSUME IsPrefix(bs, p) PROVE HasEmptySegment(r)
  <2>1. Len(b) + 1 <= Len(p) /\ \A k \in 1 .. Len(b) : p[k] = b[k]
    BY <1>1, <1>3, <1>7, PrefixIs
  <2>2. i >= Len(b) + 1
    BY <1>1, <1>4, <2>1
  <2>3. Len(r) = Len(p) - Len(b) /\ \A k \in 1 .. Len(p) - Len(b) : r[k] = p[Len(b) + k]
    BY <1>1, <2>1, PartIs
  <2> HIDE DEF r
  <2>4. /\ i - Len(b) \in 1 .. Len(r) - 1 /\ i - Len(b) \in 1 .. Len(p) - Len(b) /\ i - Len(b) + 1 \in 1 .. Len(p) - Len(b)
        /\ Len(b) + (i - Len(b)) = i /\ Len(b) + (i - Len(b) + 1) = i + 1
    BY <1>1, <1>2, <2>2, <2>3
  <2>5. r[i - Len(b)] = "/" /\ r[i - Len(b) + 1] = "/"
    BY <1>1, <1>2, <2>3, <2>4
  <2> QED
    BY <2>4, <2>5 DEF HasEmptySegment
<1> QED
  BY <1>5, <1>6, <1>7 DEF relativePath, bs

LEMMA NothingMatches ==
  ASSUME NEW b, NEW reg, NEW p, relativePath(b, p) = <<>>
  PROVE  match(b, reg, p) = NoMatch
<1>1. Trim(<<>>) = <<>>
  BY DEF Trim
<1>2. <<>> # Slash /\ <<>> # vsnAssetPath
  BY DEF Slash, vsnAssetPath
<1> QED
  BY <1>1, <1>2 DEF match

(* A path of the App, below its base.                                      *)
Join(b, s) == IF b = Slash THEN s ELSE b \o s

LEMMA SlashStarts == ASSUME NEW s \in Text, Len(s) >= 1, s[1] = "/" PROVE IsPrefix(Slash, s)
<1>1. Len(Slash) <= Len(s)
  BY SlashType
<1>2. ASSUME NEW i \in 1 .. Len(Slash) PROVE Slash[i] = s[i]
  <2>1. i = 1
    BY SlashType
  <2> QED
    BY <2>1, SlashType
<1> QED
  BY <1>1, <1>2, SlashType, PrefixIs

LEMMA HomeIsRelative == ASSUME NEW b, IsBase(b) PROVE relativePath(b, b) = Slash
<1>1. b \in Text /\ Len(b) >= 1 /\ b[1] = "/"
  BY SlashType DEF IsBase
<1>2. IsPrefix(Slash, b)
  BY <1>1, SlashStarts
<1> QED
  BY <1>2 DEF relativePath

LEMMA JoinedIsRelative ==
  ASSUME NEW b, IsBase(b), NEW s \in Text, Len(s) >= 1, s[1] = "/", s # Slash, ~HasEmptySegment(s)
  PROVE  Join(b, s) \in Text /\ relativePath(b, Join(b, s)) = s
<1>1. Len(s) \in Nat
  BY TextIs
<1>2. CASE b = Slash
  <2>1. IsPrefix(Slash, s)
    BY SlashStarts
  <2> QED
    BY <1>2, <2>1 DEF Join, relativePath
<1>3. CASE b # Slash
  <2> DEFINE p == b \o s
             bs == b \o Slash
  <2>1. b \in Text /\ Len(b) >= 1 /\ b[1] = "/" /\ Len(b) \in Nat
    BY <1>3, TextIs DEF IsBase
  <2>2. /\ p \in Text /\ Len(p) = Len(b) + Len(s)
        /\ \A i \in 1 .. Len(b) : p[i] = b[i]
        /\ \A i \in 1 .. Len(s) : p[Len(b) + i] = s[i]
    BY <2>1, ConcatIs
  <2>3. /\ bs \in Text /\ Len(bs) = Len(b) + 1 /\ \A i \in 1 .. Len(b) : bs[i] = b[i]
        /\ bs[Len(b) + 1] = "/"
    <3>1. /\ bs \in Text /\ Len(bs) = Len(b) + Len(Slash)
          /\ \A i \in 1 .. Len(b) : bs[i] = b[i]
          /\ \A i \in 1 .. Len(Slash) : bs[Len(b) + i] = Slash[i]
      BY <2>1, SlashType, ConcatIs
    <3> HIDE DEF bs
    <3>2. 1 \in 1 .. Len(Slash)
      BY SlashType
    <3> QED
      BY <3>1, <3>2, SlashType
  <2> HIDE DEF p, bs
  <2>4. IsPrefix(Slash, p)
    <3>1. 1 \in 1 .. Len(b) /\ Len(p) >= 1
      BY <1>1, <2>1, <2>2
    <3>2. p[1] = "/"
      BY <2>1, <2>2, <3>1
    <3> QED
      BY <2>2, <3>1, <3>2, SlashStarts
  <2>5. IsPrefix(bs, p)
    <3>1. 1 \in 1 .. Len(s) /\ p[Len(b) + 1] = s[1]
      BY <1>1, <2>2
    <3>2. \A i \in 1 .. Len(bs) : bs[i] = p[i]
      BY <2>1, <2>2, <2>3, <3>1
    <3>3. Len(bs) <= Len(p)
      BY <1>1, <2>1, <2>2, <2>3
    <3> QED
      BY <2>2, <2>3, <3>2, <3>3, PrefixIs
  <2>6. p # b
    BY <1>1, <2>1, <2>2
  <2>7. p # bs
    <3> SUFFICES ASSUME p = bs PROVE FALSE
      OBVIOUS
    <3>1. Len(s) = 1
      <4>1. Len(p) = Len(bs)
        OBVIOUS
      <4>2. Len(b) + Len(s) = Len(b) + 1
        BY <2>2, <2>3, <4>1
      <4>3. Len(b) \in Nat /\ Len(s) \in Nat
        BY <1>1, <2>1
      <4>4. \A x, y \in Nat : x + y = x + 1 => y = 1
        OBVIOUS
      <4> HIDE DEF p, bs
      <4> QED
        BY <4>2, <4>3, <4>4, Zenon
    <3>2. s = Slash
      <4>1. \A i \in 1 .. Len(s) : s[i] = Slash[i]
        BY <3>1, SlashType
      <4> QED
        BY <3>1, <4>1, SlashType, SameText
    <3> QED
      BY <3>2
  <2>8. SubSeq(p, Len(b) + 1, Len(p)) = s
    <3> DEFINE r == SubSeq(p, Len(b) + 1, Len(p))
    <3>1. Len(p) \in Nat /\ Len(b) + 1 <= Len(p) + 1 /\ Len(p) + 1 - (Len(b) + 1) = Len(s)
          /\ Len(b) + 1 - 1 = Len(b)
      BY <1>1, <2>1, <2>2
    <3>2. r \in Text /\ Len(r) = Len(s) /\ \A i \in 1 .. Len(s) : r[i] = p[Len(b) + i]
      BY <2>1, <2>2, <3>1, PartIs
    <3> HIDE DEF r
    <3>3. r = s
      BY <2>2, <3>2, SameText
    <3> QED
      BY <3>3 DEF r
  <2>9. relativePath(b, p) = s
    BY <1>3, <2>4, <2>5, <2>6, <2>7, <2>8 DEF relativePath, bs
  <2> QED
    BY <1>3, <2>2, <2>9 DEF Join, p
<1> QED
  BY <1>2, <1>3

LEMMA TrimIs ==
  ASSUME NEW s \in Text, NEW m \in 1 .. Len(s), NEW n \in 1 .. Len(s), s[m] # "/", s[n] # "/",
         \A i \in 1 .. Len(s) : i < m \/ n < i => s[i] = "/"
  PROVE  Trim(s) = SubSeq(s, m, n)
<1> DEFINE keep == {i \in DOMAIN s : s[i] # "/"}
<1>1. Len(s) \in Nat /\ DOMAIN s = 1 .. Len(s)
  BY TextIs
<1>2. m \in keep /\ n \in keep /\ keep \subseteq 1 .. Len(s) /\ \A i \in keep : m <= i /\ i <= n
  BY <1>1
<1>3. Trim(s) = SubSeq(s, Min(keep), Max(keep))
  BY <1>2 DEF Trim
<1> HIDE DEF keep
<1> DEFINE lo == Min(keep)
           hi == Max(keep)
<1>4. /\ Min(keep) \in keep /\ \A i \in keep : Min(keep) <= i
      /\ Max(keep) \in keep /\ \A i \in keep : i <= Max(keep)
  <2>1. keep \subseteq Nat /\ keep # {} /\ keep \subseteq 1 .. Len(s)
    BY <1>1, <1>2
  <2>2. Min(keep) \in keep /\ \A i \in keep : Min(keep) <= i
    BY <2>1, MinIs
  <2>3. Max(keep) \in keep /\ \A i \in keep : i <= Max(keep)
    BY <1>1, <2>1, MaxIs
  <2> QED
    BY <2>2, <2>3
<1>5. lo = m /\ hi = n
  <2>1. m <= lo /\ lo <= m /\ n <= hi /\ hi <= n
    BY <1>2, <1>4
  <2>2. lo \in 1 .. Len(s) /\ hi \in 1 .. Len(s)
    BY <1>2, <1>4
  <2> HIDE DEF lo, hi
  <2>3. lo \in Nat /\ hi \in Nat /\ m \in Nat /\ n \in Nat
    BY <1>1, <2>2
  <2> QED
    BY <2>1, <2>3
<1> QED
  BY <1>3, <1>5

(* Text that starts and ends with something else than a slash stays, and   *)
(* a slash before it goes.                                                 *)
Bare(t) == t \in Text /\ Len(t) >= 1 /\ t[1] # "/" /\ t[Len(t)] # "/"

LEMMA SlashBefore ==
  ASSUME NEW t \in Text
  PROVE  /\ Slash \o t \in Text /\ Len(Slash \o t) = Len(t) + 1 /\ (Slash \o t)[1] = "/"
         /\ \A i \in 1 .. Len(t) : (Slash \o t)[i + 1] = t[i]
<1> DEFINE p == Slash \o t
<1>1. /\ p \in Text /\ Len(p) = Len(Slash) + Len(t)
      /\ \A i \in 1 .. Len(Slash) : p[i] = Slash[i]
      /\ \A i \in 1 .. Len(t) : p[Len(Slash) + i] = t[i]
  BY SlashType, ConcatIs
<1>2. Len(t) \in Nat /\ 1 \in 1 .. Len(Slash)
  BY SlashType, TextIs
<1> HIDE DEF p
<1>3. \A i \in 1 .. Len(t) : p[i + 1] = t[i]
  BY <1>1, <1>2, SlashType
<1>4. Len(p) = Len(t) + 1 /\ p[1] = "/"
  BY <1>1, <1>2, SlashType
<1> QED
  BY <1>1, <1>3, <1>4 DEF p

LEMMA TrimBare ==
  ASSUME NEW t, Bare(t)
  PROVE  Trim(t) = t /\ Trim(Slash \o t) = t
<1>1. t \in Text /\ Len(t) \in Nat /\ Len(t) >= 1 /\ t[1] # "/" /\ t[Len(t)] # "/"
  BY TextIs DEF Bare
<1>2. Trim(t) = SubSeq(t, 1, Len(t))
  BY <1>1, TrimIs
<1>3. SubSeq(t, 1, Len(t)) = t
  BY <1>1, WholePrefix DEF Text
<1> DEFINE p == Slash \o t
<1>4. p \in Text /\ Len(p) = Len(t) + 1 /\ p[1] = "/" /\ \A i \in 1 .. Len(t) : p[i + 1] = t[i]
  BY <1>1, SlashBefore
<1> HIDE DEF p
<1>5. p[2] # "/" /\ p[Len(p)] # "/"
  <2>1. 1 \in 1 .. Len(t) /\ Len(t) \in 1 .. Len(t)
    BY <1>1
  <2>2. p[1 + 1] = t[1] /\ p[Len(t) + 1] = t[Len(t)]
    BY <1>4, <2>1
  <2> QED
    BY <1>1, <1>4, <2>2
<1>6. Trim(p) = SubSeq(p, 2, Len(p))
  <2>1. 2 \in 1 .. Len(p) /\ Len(p) \in 1 .. Len(p)
        /\ \A i \in 1 .. Len(p) : i < 2 \/ Len(p) < i => p[i] = "/"
    BY <1>1, <1>4
  <2> QED
    BY <1>4, <1>5, <2>1, TrimIs
<1>7. SubSeq(p, 2, Len(p)) = t
  <2> DEFINE r == SubSeq(p, 2, Len(p))
  <2>1. Len(p) \in Nat /\ 2 <= Len(p) + 1 /\ Len(p) + 1 - 2 = Len(t)
    BY <1>1, <1>4
  <2>2. r \in Text /\ Len(r) = Len(t) /\ \A i \in 1 .. Len(t) : r[i] = p[2 - 1 + i]
    BY <1>4, <2>1, PartIs
  <2> HIDE DEF r
  <2>3. \A i \in 1 .. Len(t) : r[i] = t[i]
    BY <1>1, <1>4, <2>2
  <2>4. r = t
    BY <1>1, <2>2, <2>3, SameText
  <2> QED
    BY <2>4 DEF r
<1> QED
  BY <1>2, <1>3, <1>6, <1>7 DEF p

LEMMA JoinIs ==
  ASSUME NEW b, IsBase(b), NEW t \in Text
  PROVE  Join(b, Slash \o t) = IF b = Slash THEN Slash \o t ELSE (b \o Slash) \o t
<1>1. CASE b = Slash
  BY <1>1 DEF Join
<1>2. CASE b # Slash
  <2>1. b \in Seq(Tokens) /\ Slash \in Seq(Tokens) /\ t \in Seq(Tokens)
    BY <1>2, SlashType DEF IsBase, Text
  <2>2. (b \o Slash) \o t = b \o (Slash \o t)
    BY <2>1, ConcatAssociative
  <2> QED
    BY <1>2, <2>2 DEF Join
<1> QED
  BY <1>1, <1>2

LEMMA BareNotEmpty == ASSUME NEW t, Bare(t) PROVE t # <<>>
BY TextIs DEF Bare

LEMMA PathForIs ==
  ASSUME NEW b, IsBase(b), NEW t, Bare(t)
  PROVE  pathFor(b, t) = Join(b, Slash \o t) /\ pathFor(b, Slash \o t) = Join(b, Slash \o t)
<1>1. Trim(t) = t /\ Trim(Slash \o t) = t /\ t # <<>> /\ t \in Text
  BY TrimBare, BareNotEmpty DEF Bare
<1>2. b # <<>>
  BY TextIs, SlashType DEF IsBase
<1> QED
  BY <1>1, <1>2, JoinIs DEF pathFor

LEMMA PathForHome == ASSUME NEW b, IsBase(b) PROVE pathFor(b, <<>>) = b
<1>1. Trim(<<>>) = <<>>
  BY DEF Trim
<1>2. b # <<>>
  BY TextIs, SlashType DEF IsBase
<1>3. Slash \o <<>> = Slash
  BY SlashType, ConcatEmptySeq DEF Text
<1> QED
  BY <1>1, <1>2, <1>3 DEF pathFor

(* Below the base a page is found under its own name.                      *)
Named(t) == Bare(t) /\ ~HasEmptySegment(t)

LEMMA NamedIsRelative ==
  ASSUME NEW b, IsBase(b), NEW t, Named(t)
  PROVE  /\ Join(b, Slash \o t) \in Text
         /\ relativePath(b, Join(b, Slash \o t)) = Slash \o t
         /\ Slash \o t # Slash
<1> DEFINE s == Slash \o t
<1>1. t \in Text /\ Len(t) \in Nat /\ Len(t) >= 1 /\ t[1] # "/" /\ ~HasEmptySegment(t)
  BY TextIs DEF Named, Bare
<1>2. s \in Text /\ Len(s) = Len(t) + 1 /\ s[1] = "/" /\ \A i \in 1 .. Len(t) : s[i + 1] = t[i]
  BY <1>1, SlashBefore
<1> HIDE DEF s
<1>3. s # Slash
  <2>1. Len(s) # Len(Slash)
    BY <1>1, <1>2, SlashType
  <2> QED
    BY <2>1
<1>4. ~HasEmptySegment(s)
  <2> SUFFICES ASSUME NEW i \in 1 .. Len(s) - 1, s[i] = "/", s[i + 1] = "/" PROVE FALSE
    BY DEF HasEmptySegment
  <2>1. i \in 1 .. Len(t) /\ t[i] = "/"
    BY <1>1, <1>2
  <2>2. i # 1
    BY <1>1, <2>1
  <2>3. i - 1 \in 1 .. Len(t) - 1 /\ i - 1 \in 1 .. Len(t) /\ (i - 1) + 1 = i
    BY <1>1, <2>1, <2>2
  <2>4. t[i - 1] = "/" /\ t[(i - 1) + 1] = "/"
    BY <1>2, <2>1, <2>3
  <2> QED
    BY <1>1, <2>3, <2>4 DEF HasEmptySegment
<1>5. Join(b, s) \in Text /\ relativePath(b, Join(b, s)) = s
  BY <1>1, <1>2, <1>3, <1>4, JoinedIsRelative
<1> QED
  BY <1>3, <1>5 DEF s

(* What a name without slashes is split into, and a name of two segments.  *)
Segment(t) == t \in Text /\ Len(t) >= 1 /\ ~Mentions(t, {"/"})

LEMMA SegmentIsNamed == ASSUME NEW t, Segment(t) PROVE Named(t)
<1>1. t \in Text /\ Len(t) \in Nat /\ Len(t) >= 1 /\ \A i \in 1 .. Len(t) : t[i] # "/"
  BY TextIs DEF Segment, Mentions
<1>2. 1 \in 1 .. Len(t) /\ Len(t) \in 1 .. Len(t)
  BY <1>1
<1>3. ~HasEmptySegment(t)
  BY <1>1 DEF HasEmptySegment
<1> QED
  BY <1>1, <1>2, <1>3 DEF Named, Bare

Pair(t, u) == t \o Slash \o u

LEMMA PairIs ==
  ASSUME NEW t, Segment(t), NEW u, Segment(u)
  PROVE  /\ Pair(t, u) \in Text /\ Len(Pair(t, u)) = Len(t) + Len(u) + 1
         /\ \A i \in 1 .. Len(t) : Pair(t, u)[i] = t[i]
         /\ Pair(t, u)[Len(t) + 1] = "/"
         /\ \A i \in 1 .. Len(u) : Pair(t, u)[Len(t) + 1 + i] = u[i]
<1> DEFINE h == t \o Slash
           p == h \o u
<1>1. t \in Text /\ u \in Text /\ Len(t) \in Nat /\ Len(u) \in Nat
  BY TextIs DEF Segment
<1>2. /\ h \in Text /\ Len(h) = Len(t) + 1 /\ h[Len(t) + 1] = "/" /\ \A i \in 1 .. Len(t) : h[i] = t[i]
  <2>1. /\ h \in Text /\ Len(h) = Len(t) + Len(Slash)
        /\ \A i \in 1 .. Len(t) : h[i] = t[i]
        /\ \A i \in 1 .. Len(Slash) : h[Len(t) + i] = Slash[i]
    BY <1>1, SlashType, ConcatIs
  <2> HIDE DEF h
  <2>2. 1 \in 1 .. Len(Slash)
    BY SlashType
  <2> QED
    BY <2>1, <2>2, SlashType
<1> HIDE DEF h
<1>3. /\ p \in Text /\ Len(p) = Len(h) + Len(u)
      /\ \A i \in 1 .. Len(h) : p[i] = h[i]
      /\ \A i \in 1 .. Len(u) : p[Len(h) + i] = u[i]
  BY <1>1, <1>2, ConcatIs
<1> HIDE DEF p
<1>4. /\ p \in Text /\ Len(p) = Len(t) + Len(u) + 1
      /\ \A i \in 1 .. Len(t) : p[i] = t[i]
      /\ p[Len(t) + 1] = "/"
  BY <1>1, <1>2, <1>3
<1>5. \A i \in 1 .. Len(u) : p[Len(t) + 1 + i] = u[i]
  BY <1>1, <1>2, <1>3
<1> QED
  BY <1>4, <1>5 DEF p, h, Pair

LEMMA PairIsNamed == ASSUME NEW t, Segment(t), NEW u, Segment(u) PROVE Named(Pair(t, u))
<1> DEFINE p == Pair(t, u)
<1>1. /\ Len(t) \in Nat /\ Len(t) >= 1 /\ \A i \in 1 .. Len(t) : t[i] # "/"
      /\ Len(u) \in Nat /\ Len(u) >= 1 /\ \A i \in 1 .. Len(u) : u[i] # "/"
  BY TextIs DEF Segment, Mentions
<1>2. /\ p \in Text /\ Len(p) = Len(t) + Len(u) + 1
      /\ \A i \in 1 .. Len(t) : p[i] = t[i]
      /\ \A i \in 1 .. Len(u) : p[Len(t) + 1 + i] = u[i]
  BY PairIs
<1> HIDE DEF p
<1>3. \A i \in 1 .. Len(p) : p[i] = "/" => i = Len(t) + 1
  <2> SUFFICES ASSUME NEW i \in 1 .. Len(p), i # Len(t) + 1 PROVE p[i] # "/"
    OBVIOUS
  <2>1. CASE i <= Len(t)
    BY <1>1, <1>2, <2>1
  <2>2. CASE ~(i <= Len(t))
    <3>1. i - (Len(t) + 1) \in 1 .. Len(u) /\ Len(t) + 1 + (i - (Len(t) + 1)) = i
      BY <1>1, <1>2, <2>2
    <3> QED
      BY <1>1, <1>2, <3>1
  <2> QED
    BY <2>1, <2>2
<1>4. ~HasEmptySegment(p)
  <2> SUFFICES ASSUME NEW i \in 1 .. Len(p) - 1, p[i] = "/", p[i + 1] = "/" PROVE FALSE
    BY DEF HasEmptySegment
  <2>1. i \in 1 .. Len(p) /\ i + 1 \in 1 .. Len(p)
    BY <1>1, <1>2
  <2>2. i = Len(t) + 1 /\ i + 1 = Len(t) + 1
    BY <1>3, <2>1
  <2> QED
    BY <1>1, <2>2
<1>5. Len(p) >= 1 /\ p[1] # "/" /\ p[Len(p)] # "/"
  <2>1. 1 \in 1 .. Len(p) /\ Len(p) \in 1 .. Len(p) /\ 1 # Len(t) + 1 /\ Len(p) # Len(t) + 1
    BY <1>1, <1>2
  <2> QED
    BY <1>3, <2>1
<1> QED
  BY <1>2, <1>4, <1>5 DEF Named, Bare, p

-----------------------------------------------------------------------------
(* What a browser sends for an href.                                       *)

LEMMA DotsAre == ASSUME NEW x \in Dots PROVE Len(x) >= 1
BY DEF Dots

LEMMA SlashAfter ==
  ASSUME NEW p \in Text
  PROVE  p \o Slash \in Text /\ Len(p \o Slash) >= 1 /\ (p \o Slash)[Len(p \o Slash)] = "/"
<1> DEFINE q == p \o Slash
<1>1. /\ q \in Text /\ Len(q) = Len(p) + Len(Slash)
      /\ \A i \in 1 .. Len(Slash) : q[Len(p) + i] = Slash[i]
  BY SlashType, ConcatIs
<1> HIDE DEF q
<1>2. Len(p) \in Nat /\ Len(Slash) = 1 /\ 1 \in 1 .. Len(Slash) /\ Slash[1] = "/"
  BY TextIs, SlashType
<1>3. Len(q) = Len(p) + 1 /\ q[Len(p) + 1] = "/"
  BY <1>1, <1>2
<1> QED
  BY <1>1, <1>2, <1>3 DEF q

LEMMA ResolvedType == ASSUME NEW h \in Text PROVE Resolved(h) \in Text
<1> DEFINE slashes == {1} \cup {i \in DOMAIN h : h[i] = "/"}
           last    == Max(slashes)
           before  == {1} \cup {i \in slashes : i < last}
           parent  == Max(before)
           name    == SubSeq(h, last + 1, Len(h))
<1>1. Len(h) \in Nat /\ DOMAIN h = 1 .. Len(h)
  BY TextIs
<1>2. CASE Len(h) = 0
  <2>1. slashes = {1}
    BY <1>1, <1>2
  <2>2. slashes \subseteq 1 .. 1 /\ slashes # {}
    BY <2>1
  <2> HIDE DEF slashes
  <2>3. last = 1
    BY <2>1, <2>2, MaxIs
  <2> HIDE DEF last
  <2>4. name \notin Dots
    <3>1. Len(name) = 0
      BY <1>2, <2>3
    <3> HIDE DEF name
    <3> QED
      BY <3>1, DotsAre
  <2> QED
    BY <2>4 DEF Resolved, last, slashes, Dots
<1>3. CASE Len(h) # 0
  <2>1. slashes \subseteq 1 .. Len(h) /\ slashes # {}
    BY <1>1, <1>3
  <2>2. before \subseteq 1 .. Len(h) /\ before # {}
    BY <1>1, <1>3, <2>1
  <2> HIDE DEF slashes, before
  <2>3. last \in 1 .. Len(h)
    BY <1>1, <2>1, MaxIs
  <2>4. parent \in 1 .. Len(h)
    BY <1>1, <2>2, MaxIs
  <2> HIDE DEF last, parent
  <2>5. SubSeq(h, 1, last) \in Text /\ SubSeq(h, 1, parent) \in Text
    BY <1>1, <2>3, <2>4, PartIs
  <2>6. Resolved(h) \in {SubSeq(h, 1, last), SubSeq(h, 1, parent), h}
    BY DEF Resolved, last, parent, before, slashes
  <2> QED
    BY <2>5, <2>6
<1> QED
  BY <1>2, <1>3

(* Nothing is resolved away when what follows the last slash is no dot     *)
(* segment.                                                                *)
LEMMA LastSegmentStays ==
  ASSUME NEW h \in Text, NEW last \in 1 .. Len(h), last = 1 \/ h[last] = "/",
         \A i \in last + 1 .. Len(h) : h[i] # "/",
         SubSeq(h, last + 1, Len(h)) \notin Dots
  PROVE  Resolved(h) = h
<1> DEFINE slashes == {1} \cup {i \in DOMAIN h : h[i] = "/"}
<1>1. Len(h) \in Nat /\ DOMAIN h = 1 .. Len(h)
  BY TextIs
<1>2. slashes \subseteq 1 .. Len(h) /\ last \in slashes /\ \A i \in slashes : i <= last
  BY <1>1
<1> HIDE DEF slashes
<1>3. Max(slashes) \in slashes /\ \A i \in slashes : i <= Max(slashes)
  BY <1>1, <1>2, MaxIs
<1>4. Max(slashes) \in 1 .. Len(h) /\ Max(slashes) <= last /\ last <= Max(slashes)
  BY <1>2, <1>3
<1>5. Max(slashes) = last
  BY <1>1, <1>4
<1>6. SubSeq(h, Max(slashes) + 1, Len(h)) \notin {<<".">>, <<".", ".">>}
  BY <1>5 DEF Dots
<1> QED
  BY <1>6 DEF Resolved, slashes

LEMMA EndStays ==
  ASSUME NEW p \in Text, Len(p) >= 1, p[Len(p)] = "/",
         NEW y \in Text, ~Mentions(y, {"/"}), y \notin Dots
  PROVE  Resolved(p \o y) = p \o y
<1> DEFINE h == p \o y
<1>1. Len(p) \in Nat /\ Len(y) \in Nat /\ \A i \in 1 .. Len(y) : y[i] # "/"
  BY TextIs DEF Mentions
<1>2. /\ h \in Text /\ Len(h) = Len(p) + Len(y)
      /\ \A i \in 1 .. Len(p) : h[i] = p[i]
      /\ \A i \in 1 .. Len(y) : h[Len(p) + i] = y[i]
  BY ConcatIs
<1> HIDE DEF h
<1>3. Len(p) \in 1 .. Len(h) /\ h[Len(p)] = "/"
  BY <1>1, <1>2
<1>4. ASSUME NEW i \in Len(p) + 1 .. Len(h) PROVE h[i] # "/"
  <2>1. i - Len(p) \in 1 .. Len(y) /\ Len(p) + (i - Len(p)) = i
    BY <1>1, <1>2
  <2> QED
    BY <1>1, <1>2, <2>1
<1>5. SubSeq(h, Len(p) + 1, Len(h)) = y
  <2> DEFINE z == SubSeq(h, Len(p) + 1, Len(h))
  <2>1. /\ z \in Text /\ Len(z) = Len(y)
        /\ \A i \in 1 .. Len(y) : z[i] = h[Len(p) + i]
    BY <1>1, <1>2, PartIs
  <2> HIDE DEF z
  <2>2. \A i \in 1 .. Len(z) : z[i] = y[i]
    BY <1>2, <2>1
  <2>3. z = y
    BY <2>1, <2>2, SameText
  <2> QED
    BY <2>3 DEF z
<1>6. Resolved(h) = h
  BY <1>2, <1>3, <1>4, <1>5, LastSegmentStays
<1> QED
  BY <1>6 DEF h

(* A path of the App that ends in such a segment.                          *)
LEMMA JoinStays ==
  ASSUME NEW b, IsBase(b), NEW d \in Text, d = <<>> \/ d[Len(d)] = "/",
         NEW y \in Text, ~Mentions(y, {"/"}), y \notin Dots
  PROVE  Resolved(Join(b, Slash \o (d \o y))) = Join(b, Slash \o (d \o y))
<1> DEFINE p == IF b = Slash THEN Slash ELSE b \o Slash
<1>1. p \in Text /\ Len(p) >= 1 /\ p[Len(p)] = "/"
  <2>1. CASE b = Slash
    <3>1. p = Slash /\ Slash[Len(Slash)] = "/"
      BY <2>1, SlashType
    <3> HIDE DEF p
    <3> QED
      BY <3>1, SlashType
  <2>2. CASE b # Slash
    <3>1. p = b \o Slash /\ b \in Text
      BY <2>2 DEF IsBase
    <3> HIDE DEF p
    <3> QED
      BY <3>1, SlashAfter
  <2> QED
    BY <2>1, <2>2
<1>2. Join(b, Slash \o (d \o y)) = p \o (d \o y)
  <2>1. d \o y \in Text
    BY ConcatIs
  <2> QED
    BY <2>1, JoinIs
<1> HIDE DEF p
<1>3. p \o (d \o y) = (p \o d) \o y
  BY <1>1, TextAssociative
<1>4. p \o d \in Text /\ Len(p \o d) >= 1 /\ (p \o d)[Len(p \o d)] = "/"
  <2>1. CASE d = <<>>
    BY <1>1, <2>1, ConcatEmptySeq DEF Text
  <2>2. CASE d # <<>>
    <3>1. /\ p \o d \in Text /\ Len(p \o d) = Len(p) + Len(d)
          /\ \A i \in 1 .. Len(d) : (p \o d)[Len(p) + i] = d[i]
      BY <1>1, ConcatIs
    <3>2. Len(p) \in Nat /\ Len(d) \in Nat /\ Len(d) \in 1 .. Len(d)
      BY <1>1, <2>2, TextIs
    <3> QED
      BY <1>1, <2>2, <3>1, <3>2
  <2> QED
    BY <2>1, <2>2
<1>5. Resolved((p \o d) \o y) = (p \o d) \o y
  <2> DEFINE q == p \o d
  <2>1. q \in Text /\ Len(q) >= 1 /\ q[Len(q)] = "/"
    BY <1>4
  <2> HIDE DEF q
  <2>2. Resolved(q \o y) = q \o y
    BY <2>1, EndStays
  <2> QED
    BY <2>2 DEF q
<1> QED
  BY <1>2, <1>3, <1>5

LEMMA SegmentStays ==
  ASSUME NEW b, IsBase(b), NEW y, Segment(y), y \notin Dots
  PROVE  Resolved(Join(b, Slash \o y)) = Join(b, Slash \o y)
<1>1. <<>> \in Text /\ y \in Text /\ <<>> \o y = y
  BY SlashType, ConcatEmptySeq DEF Segment, Text
<1> QED
  BY <1>1, JoinStays DEF Segment

(* New takes no base with a dot segment.                                   *)
LEMMA BaseStays ==
  ASSUME NEW given \in Text, normalizeBasePath(given) # <<>>
  PROVE  Resolved(normalizeBasePath(given)) = normalizeBasePath(given)
<1> DEFINE b == normalizeBasePath(given)
           rest == Tail(b)
           slashes == {1} \cup {i \in DOMAIN b : b[i] = "/"}
           last == Max(slashes)
           name == SubSeq(b, last + 1, Len(b))
<1>1. b \in Text /\ Len(b) >= 1 /\ b[1] = "/"
  BY NormalizedIsBase, SlashType DEF IsBase
<1>2. Len(b) \in Nat /\ DOMAIN b = 1 .. Len(b)
  BY <1>1, TextIs
<1>3. b # Slash => \A s \in Segments(rest) : s \notin Dots
  BY DEF normalizeBasePath
<1> HIDE DEF b
<1>4. slashes \subseteq 1 .. Len(b) /\ slashes # {}
  BY <1>1, <1>2
<1>5. last \in slashes /\ \A i \in slashes : i <= last
  BY <1>2, <1>4, MaxIs
<1>6. last \in 1 .. Len(b) /\ (last = 1 \/ b[last] = "/")
  BY <1>4, <1>5
<1>7. \A i \in last + 1 .. Len(b) : b[i] # "/"
  BY <1>2, <1>5, <1>6
<1> HIDE DEF last, slashes
<1>8. name \notin Dots
  <2>1. CASE b = Slash
    <3>1. Len(b) = 1 /\ last = 1
      BY <1>6, <2>1, SlashType
    <3>2. Len(name) = 0
      BY <3>1
    <3> HIDE DEF name
    <3> QED
      BY <3>2, DotsAre
  <2>2. CASE b # Slash
    <3> DEFINE ends == {i \in DOMAIN rest : rest[i] = "/"} \cup {0, Len(rest) + 1}
    <3>1. /\ rest \in Text /\ Len(rest) = Len(b) - 1 /\ DOMAIN rest = 1 .. Len(b) - 1
          /\ \A i \in 1 .. Len(b) - 1 : rest[i] = b[i + 1]
      BY <1>1, <1>2 DEF Text
    <3> HIDE DEF rest
    <3>2. last - 1 \in ends
      <4>1. CASE last = 1
        BY <4>1
      <4>2. CASE last # 1
        <5>1. last - 1 \in 1 .. Len(b) - 1 /\ (last - 1) + 1 = last
          BY <1>2, <1>6, <4>2
        <5>2. rest[last - 1] = "/"
          BY <1>6, <3>1, <4>2, <5>1
        <5> QED
          BY <3>1, <5>1, <5>2
      <4> QED
        BY <4>1, <4>2
    <3>3. Len(b) \in ends /\ last - 1 < Len(b)
      BY <1>2, <1>6, <3>1
    <3>4. ASSUME NEW k \in ends, last - 1 < k, k < Len(b) PROVE FALSE
      <4>1. k \in 1 .. Len(b) - 1 /\ rest[k] = "/"
        BY <1>2, <1>6, <3>1, <3>4
      <4>2. b[k + 1] = "/" /\ k + 1 \in last + 1 .. Len(b)
        BY <1>2, <1>6, <3>1, <3>4, <4>1
      <4> QED
        BY <1>7, <4>2
    <3>5. SubSeq(rest, (last - 1) + 1, Len(b) - 1) = name
      <4> DEFINE part == SubSeq(rest, (last - 1) + 1, Len(b) - 1)
      <4>1. /\ part \in Text /\ Len(part) = Len(b) - last
            /\ \A i \in 1 .. Len(b) - last : part[i] = b[last + i]
        <5>4. /\ rest \in Text /\ last \in Nat /\ Len(b) - 1 \in Nat /\ 1 <= last
              /\ Len(b) - 1 <= Len(rest) /\ last <= (Len(b) - 1) + 1 /\ ((Len(b) - 1) + 1) - last = Len(b) - last
          BY <1>2, <1>6, <3>1
        <5>1. /\ SubSeq(rest, last, Len(b) - 1) \in Text
              /\ Len(SubSeq(rest, last, Len(b) - 1)) = Len(b) - last
              /\ \A i \in 1 .. Len(b) - last : SubSeq(rest, last, Len(b) - 1)[i] = rest[last - 1 + i]
          <6> DEFINE seg == SubSeq(rest, last, Len(b) - 1)
          <6>1. /\ seg \in Text /\ Len(seg) = (Len(b) - 1) + 1 - last
                /\ \A i \in 1 .. (Len(b) - 1) + 1 - last : seg[i] = rest[last - 1 + i]
            BY <5>4, PartIs
          <6> HIDE DEF seg
          <6>2. seg \in Text /\ Len(seg) = Len(b) - last /\ \A i \in 1 .. Len(b) - last : seg[i] = rest[last - 1 + i]
            BY <5>4, <6>1
          <6> QED
            BY <6>2 DEF seg
        <5>2. \A i \in 1 .. Len(b) - last : rest[last - 1 + i] = b[last + i]
          BY <1>2, <1>6, <3>1
        <5>3. (last - 1) + 1 = last
          BY <1>2, <1>6
        <5> QED
          BY <5>1, <5>2, <5>3
      <4>2. /\ name \in Text /\ Len(name) = Len(b) - last
            /\ \A i \in 1 .. Len(b) - last : name[i] = b[last + i]
        <5>1. /\ last + 1 \in Nat /\ 1 <= last + 1 /\ last + 1 <= Len(b) + 1
              /\ (Len(b) + 1) - (last + 1) = Len(b) - last /\ (last + 1) - 1 = last
          BY <1>2, <1>6
        <5>2. /\ name \in Text /\ Len(name) = (Len(b) + 1) - (last + 1)
              /\ \A i \in 1 .. (Len(b) + 1) - (last + 1) : name[i] = b[(last + 1) - 1 + i]
          BY <1>1, <1>2, <5>1, PartIs
        <5> HIDE DEF name
        <5> QED
          BY <5>1, <5>2
      <4> HIDE DEF part, name
      <4>3. part = name
        BY <4>1, <4>2, SameText
      <4> QED
        BY <4>3 DEF part
    <3>6. <<last - 1, Len(b)>> \in {e \in ends \X ends : e[1] < e[2] /\ ~\E k \in ends : e[1] < k /\ k < e[2]}
      BY <3>2, <3>3, <3>4
    <3>7. name \in Segments(rest)
      BY <3>5, <3>6 DEF Segments
    <3> QED
      BY <1>3, <2>2, <3>7 DEF rest
  <2> QED
    BY <2>1, <2>2
<1>9. Resolved(b) = b
  BY <1>1, <1>6, <1>7, <1>8, LastSegmentStays
<1> QED
  BY <1>9 DEF b

-----------------------------------------------------------------------------
(* What a path matches.                                                    *)

(* A segment that reads as it is, and nothing but a segment.               *)
Readable(t) == Segment(t) /\ ~Mentions(t, {"%", "?"})

LEMMA ReadableIs ==
  ASSUME NEW t, Readable(t)
  PROVE  Plain(t) /\ Segment(t) /\ t # <<>> /\ decodeSegment(t) = t
<1>1. Segment(t) /\ t \in Text /\ t # <<>> /\ \A i \in DOMAIN t : t[i] \notin {"/", "%", "?"}
  BY TextIs DEF Readable, Segment, Mentions
<1>2. Plain(t) /\ ~Mentions(t, {"/", "?"})
  BY <1>1 DEF Plain, Mentions
<1>3. PathUnescape(t).ok /\ PathUnescape(t).text = t
  BY <1>2, UnescapePlain
<1> QED
  BY <1>1, <1>2, <1>3 DEF decodeSegment

(* Every entity has a route of its own.                                    *)
Routed(reg) ==
  /\ Len(reg) \in Nat /\ DOMAIN reg = 1 .. Len(reg)
  /\ \A i \in DOMAIN reg : Readable(reg[i].route)
  /\ \A i, j \in DOMAIN reg : reg[i].route = reg[j].route => i = j

LEMMA FindIs == ASSUME NEW reg, Routed(reg), NEW e \in DOMAIN reg PROVE Find(reg, reg[e].route) = e /\ e # 0
<1> DEFINE I == {i \in 1 .. Len(reg) : reg[i].route = reg[e].route}
<1>1. I = {e} /\ e \in Nat /\ e # 0
  BY DEF Routed
<1>2. Find(reg, reg[e].route) = IF I # {} THEN Min(I) ELSE 0
  BY DEF Find, SelectInSeq
<1> HIDE DEF I
<1>3. I \subseteq Nat /\ I # {}
  BY <1>1
<1>4. Min(I) \in I
  BY <1>3, MinIs
<1> QED
  BY <1>1, <1>2, <1>4

LEMMA HomeMatches == ASSUME NEW b, IsBase(b), NEW reg PROVE match(b, reg, b) = Index
BY HomeIsRelative DEF match

LEMMA AssetIs ==
  LET t == <<"assets", "/", "vsn.min.js">>
  IN  Named(t) /\ vsnAssetPath = Slash \o t /\ ~Mentions(t, {"%"})
<1> DEFINE t == <<"assets", "/", "vsn.min.js">>
<1>1. t \in Text /\ Len(t) = 3 /\ t[1] = "assets" /\ t[2] = "/" /\ t[3] = "vsn.min.js"
  BY DEF Text, Tokens, MustEscape
<1>2. vsnAssetPath \in Text /\ Len(vsnAssetPath) = 4
      /\ vsnAssetPath[1] = "/" /\ \A i \in 1 .. 3 : vsnAssetPath[i + 1] = t[i]
  BY DEF vsnAssetPath, Text, Tokens, MustEscape
<1> HIDE DEF t
<1>3. Named(t)
  BY <1>1 DEF Named, Bare, HasEmptySegment
<1>4. ~Mentions(t, {"%"})
  BY <1>1, TextIs DEF Mentions
<1> DEFINE s == Slash \o t
<1>5. s \in Text /\ Len(s) = Len(t) + 1 /\ s[1] = "/" /\ \A i \in 1 .. Len(t) : s[i + 1] = t[i]
  BY <1>1, SlashBefore
<1> HIDE DEF s
<1>6. \A i \in 1 .. Len(s) : s[i] = vsnAssetPath[i]
  <2> TAKE i \in 1 .. Len(s)
  <2>1. i = 1 \/ (i - 1 \in 1 .. 3 /\ (i - 1) + 1 = i)
    BY <1>1, <1>5
  <2>2. CASE i = 1
    BY <1>2, <1>5, <2>2
  <2>3. CASE i - 1 \in 1 .. 3 /\ (i - 1) + 1 = i
    <3>1. s[(i - 1) + 1] = t[i - 1] /\ vsnAssetPath[(i - 1) + 1] = t[i - 1]
      BY <1>1, <1>2, <1>5, <2>3
    <3> QED
      BY <2>3, <3>1
  <2> QED
    BY <2>1, <2>2, <2>3
<1>7. s = vsnAssetPath
  BY <1>1, <1>2, <1>5, <1>6, SameText
<1> QED
  BY <1>3, <1>4, <1>7 DEF s, t

LEMMA AssetStays ==
  ASSUME NEW b, IsBase(b)
  PROVE  Resolved(Join(b, vsnAssetPath)) = Join(b, vsnAssetPath)
<1> DEFINE d == <<"assets", "/">>
           y == <<"vsn.min.js">>
<1>1. d \in Text /\ d[Len(d)] = "/" /\ y \in Text
  BY DEF Text, Tokens, MustEscape
<1>2. ~Mentions(y, {"/"}) /\ y \notin Dots
  BY DEF Mentions, Dots
<1>3. Slash \o (d \o y) = vsnAssetPath
  <2> DEFINE t == <<"assets", "/", "vsn.min.js">>
  <2>1. Len(d) = 2 /\ d[1] = "assets" /\ d[2] = "/" /\ Len(y) = 1 /\ y[1] = "vsn.min.js"
    OBVIOUS
  <2>2. t \in Text /\ Len(t) = 3 /\ t[1] = "assets" /\ t[2] = "/" /\ t[3] = "vsn.min.js"
    BY DEF Text, Tokens, MustEscape
  <2>3. vsnAssetPath = Slash \o t
    BY AssetIs
  <2> HIDE DEF d, y, t
  <2>4. /\ d \o y \in Text /\ Len(d \o y) = 3
        /\ (d \o y)[1] = d[1] /\ (d \o y)[2] = d[2] /\ (d \o y)[3] = y[1]
    <3> DEFINE z == d \o y
    <3>1. /\ z \in Text /\ Len(z) = Len(d) + Len(y)
          /\ \A i \in 1 .. Len(d) : z[i] = d[i]
          /\ \A i \in 1 .. Len(y) : z[Len(d) + i] = y[i]
      BY <1>1, ConcatIs
    <3> HIDE DEF z
    <3>2. 1 \in 1 .. Len(d) /\ 2 \in 1 .. Len(d) /\ 1 \in 1 .. Len(y) /\ Len(d) + 1 = 3 /\ Len(d) + Len(y) = 3
      BY <2>1
    <3>3. z \in Text /\ Len(z) = 3 /\ z[1] = d[1] /\ z[2] = d[2] /\ z[3] = y[1]
      BY <3>1, <3>2
    <3> QED
      BY <3>3 DEF z
  <2>5. d \o y = t
    <3>1. \A i \in 1 .. 3 : i = 1 \/ i = 2 \/ i = 3
      OBVIOUS
    <3>2. \A i \in 1 .. 3 : (d \o y)[i] = t[i]
      BY <2>1, <2>2, <2>4, <3>1
    <3> QED
      BY <2>2, <2>4, <3>2, SameText
  <2> QED
    BY <2>3, <2>5
<1> HIDE DEF d, y
<1> QED
  BY <1>1, <1>2, <1>3, JoinStays

LEMMA AssetMatches ==
  ASSUME NEW b, IsBase(b), NEW reg
  PROVE  match(b, reg, Join(b, vsnAssetPath)) = Asset
<1>1. relativePath(b, Join(b, vsnAssetPath)) = vsnAssetPath /\ vsnAssetPath # Slash
  BY AssetIs, NamedIsRelative
<1> QED
  BY <1>1 DEF match

LEMMA ListMatches ==
  ASSUME NEW b, IsBase(b), NEW reg, Routed(reg), NEW e \in DOMAIN reg
  PROVE  match(b, reg, Join(b, Slash \o reg[e].route)) = ListOf(e)
<1> DEFINE t == reg[e].route
           p == Join(b, Slash \o t)
           slashes == {i \in DOMAIN t : t[i] = "/"}
<1>1. Readable(t) /\ Segment(t) /\ decodeSegment(t) = t /\ Find(reg, t) = e /\ e # 0
  BY FindIs, ReadableIs DEF Routed
<1> HIDE DEF t
<1>2. Named(t) /\ Bare(t) /\ ~HasEmptySegment(t) /\ t # <<>> /\ t \in Text
  BY <1>1, SegmentIsNamed, BareNotEmpty DEF Named, Bare
<1>3. relativePath(b, p) = Slash \o t /\ Slash \o t # Slash /\ Trim(Slash \o t) = t
  BY <1>2, NamedIsRelative, TrimBare
<1>4. slashes = {}
  BY <1>1 DEF Segment, Mentions
<1>5. Slash \o t # vsnAssetPath
  <2>1. Trim(vsnAssetPath) # t
    <3> DEFINE a == <<"assets", "/", "vsn.min.js">>
    <3>1. vsnAssetPath = Slash \o a /\ Bare(a)
      BY AssetIs DEF Named
    <3>2. Trim(vsnAssetPath) = a
      BY <3>1, TrimBare
    <3>3. 2 \in DOMAIN a /\ a[2] = "/"
      OBVIOUS
    <3> QED
      BY <1>1, <3>2, <3>3 DEF Segment, Mentions
  <2> QED
    BY <1>3, <2>1
<1>6. SubSeq(t, 1, Len(t) + 1 - 1) = t
  <2>1. Len(t) \in Nat /\ SubSeq(t, 1, Len(t)) = t
    BY <1>2, WholePrefix DEF Text
  <2>2. Len(t) + 1 - 1 = Len(t)
    BY <2>1
  <2> QED
    BY <2>1, <2>2
<1>7. Cardinality({}) = 0
  BY FS_EmptySet
<1> DEFINE cut == IF slashes = {} THEN Len(t) + 1 ELSE Min(slashes)
<1>8. cut = Len(t) + 1
  BY <1>4
<1>9. decodeSegment(SubSeq(t, 1, cut - 1)) = t /\ ~(Cardinality(slashes) > 1)
  <2>1. ~(Cardinality(slashes) > 1)
    BY <1>4, <1>7
  <2> HIDE DEF cut, slashes
  <2>2. SubSeq(t, 1, cut - 1) = t
    BY <1>6, <1>8
  <2> QED
    BY <1>1, <2>1, <2>2
<1>10. match(b, reg, p) = ListOf(e)
  <2> HIDE DEF p
  <2> QED
    BY <1>1, <1>2, <1>3, <1>4, <1>5, <1>9 DEF match
<1> QED
  BY <1>10 DEF p, t

(* Not the one record whose page is the script.                            *)
OwnPage(t, u) == t # <<"assets">> \/ u # <<"vsn.min.js">>

LEMMA DetailMatches ==
  ASSUME NEW b, IsBase(b), NEW reg, Routed(reg), NEW u, Readable(u), NEW e \in DOMAIN reg,
         OwnPage(reg[e].route, u)
  PROVE  match(b, reg, Join(b, Slash \o Pair(reg[e].route, u))) = Detail(e, u)
<1> DEFINE t == reg[e].route
           y == Pair(t, u)
<1>1. Readable(t) /\ Segment(t) /\ decodeSegment(t) = t /\ Find(reg, t) = e /\ e # 0
  BY FindIs, ReadableIs DEF Routed
<1>2. Segment(u) /\ decodeSegment(u) = u /\ u # <<>>
  BY ReadableIs
<1> HIDE DEF t
<1>3. Named(y) /\ Bare(y) /\ ~HasEmptySegment(y) /\ y # <<>> /\ y \in Text
  BY <1>1, <1>2, PairIsNamed, BareNotEmpty DEF Named, Bare
<1>4. /\ Len(y) = Len(t) + Len(u) + 1
      /\ \A i \in 1 .. Len(t) : y[i] = t[i]
      /\ y[Len(t) + 1] = "/"
      /\ \A i \in 1 .. Len(u) : y[Len(t) + 1 + i] = u[i]
  <2>1. Segment(t) /\ Segment(u)
    BY <1>1, <1>2
  <2> QED
    BY <2>1, PairIs
<1>5. /\ Len(t) \in Nat /\ Len(t) >= 1 /\ t \in Text /\ \A i \in 1 .. Len(t) : t[i] # "/"
      /\ Len(u) \in Nat /\ Len(u) >= 1 /\ u \in Text /\ \A i \in 1 .. Len(u) : u[i] # "/"
      /\ DOMAIN y = 1 .. Len(y)
  BY <1>1, <1>2, <1>3, TextIs DEF Segment, Mentions
<1> HIDE DEF y
<1> DEFINE p == Join(b, Slash \o y)
           slashes == {i \in DOMAIN y : y[i] = "/"}
           cut == IF slashes = {} THEN Len(y) + 1 ELSE Min(slashes)
<1>6. relativePath(b, p) = Slash \o y /\ Slash \o y # Slash /\ Trim(Slash \o y) = y
  BY <1>3, NamedIsRelative, TrimBare
<1>7. slashes = {Len(t) + 1}
  <2>1. Len(t) + 1 \in DOMAIN y
    BY <1>4, <1>5
  <2>2. ASSUME NEW i \in DOMAIN y, i # Len(t) + 1 PROVE y[i] # "/"
    <3>1. CASE i <= Len(t)
      BY <1>4, <1>5, <3>1
    <3>2. CASE ~(i <= Len(t))
      <4>1. i - (Len(t) + 1) \in 1 .. Len(u) /\ Len(t) + 1 + (i - (Len(t) + 1)) = i
        BY <1>4, <1>5, <2>2, <3>2
      <4> QED
        BY <1>4, <1>5, <4>1
    <3> QED
      BY <3>1, <3>2
  <2> QED
    BY <1>4, <2>1, <2>2
<1>8. cut = Len(t) + 1 /\ Cardinality(slashes) = 1
  <2>1. Len(t) + 1 \in Nat
    BY <1>5
  <2>2. Cardinality(slashes) = 1
    BY <1>7, FS_Singleton
  <2>3. slashes \subseteq Nat /\ slashes # {}
    BY <1>7, <2>1
  <2>4. Min(slashes) \in slashes
    BY <2>3, MinIs
  <2> QED
    BY <1>7, <2>2, <2>4
<1>9. SubSeq(y, 1, cut - 1) = t
  <2> DEFINE r == SubSeq(y, 1, Len(t))
  <2>1. r \in Text /\ Len(r) = Len(t) /\ \A i \in 1 .. Len(t) : r[i] = y[i]
    <3>1. Len(t) <= Len(y) /\ 1 <= Len(t) + 1 /\ Len(t) + 1 - 1 = Len(t) /\ \A i \in 1 .. Len(t) : 1 - 1 + i = i
      BY <1>4, <1>5
    <3> QED
      BY <1>3, <1>5, <3>1, PartIs
  <2>2. cut - 1 = Len(t)
    <3> HIDE DEF cut
    <3> QED
      BY <1>5, <1>8
  <2> HIDE DEF cut, r
  <2>3. r = t
    BY <1>4, <1>5, <2>1, SameText
  <2> QED
    BY <2>2, <2>3 DEF r
<1>10. SubSeq(y, cut + 1, Len(y)) = u
  <2> DEFINE r == SubSeq(y, Len(t) + 1 + 1, Len(y))
  <2>1. r \in Text /\ Len(r) = Len(u) /\ \A i \in 1 .. Len(u) : r[i] = y[Len(t) + 1 + i]
    <3>1. /\ 1 <= Len(t) + 1 + 1 /\ Len(t) + 1 + 1 <= Len(y) + 1 /\ Len(t) + 1 + 1 \in Nat /\ Len(y) \in Nat
          /\ Len(y) + 1 - (Len(t) + 1 + 1) = Len(u) /\ Len(t) + 1 + 1 - 1 = Len(t) + 1
      BY <1>4, <1>5
    <3> QED
      BY <1>3, <3>1, PartIs
  <2> HIDE DEF r
  <2>2. r = u
    BY <1>4, <1>5, <2>1, SameText
  <2> HIDE DEF cut
  <2>3. cut + 1 = Len(t) + 1 + 1
    BY <1>8
  <2> QED
    BY <2>2, <2>3 DEF r
<1>11. Slash \o y # vsnAssetPath
  <2> SUFFICES ASSUME Slash \o y = vsnAssetPath PROVE FALSE
    OBVIOUS
  <2> DEFINE a == <<"assets", "/", "vsn.min.js">>
  <2>1. y = a
    <3>1. vsnAssetPath = Slash \o a /\ Bare(a)
      BY AssetIs DEF Named
    <3> QED
      BY <1>6, <3>1, TrimBare
  <2>2. Len(t) + 1 \in DOMAIN a /\ a[Len(t) + 1] = "/" /\ Len(y) = 3
    BY <1>4, <1>5, <2>1
  <2>3. DOMAIN a = {1, 2, 3} /\ a[1] = "assets" /\ a[3] = "vsn.min.js"
    OBVIOUS
  <2> HIDE DEF a, cut, slashes, p
  <2>4. Len(t) = 1 /\ Len(u) = 1
    <3>1. Len(t) + 1 # 1 /\ Len(t) + 1 # 3
      BY <1>5, <2>2, <2>3
    <3>2. Len(t) + 1 = 2
      BY <2>2, <2>3, <3>1
    <3>3. Len(t) + Len(u) + 1 = 3
      BY <1>4, <2>2
    <3>4. \A i, j \in Nat : i + 1 = 2 /\ i + j + 1 = 3 => i = 1 /\ j = 1
      OBVIOUS
    <3>5. Len(t) \in Nat /\ Len(u) \in Nat
      BY <1>5
    <3> QED
      BY <3>2, <3>3, <3>4, <3>5, Zenon
  <2>5. 1 \in 1 .. Len(t) /\ 1 \in 1 .. Len(u) /\ Len(t) + 1 + 1 = 3
    BY <2>4
  <2>6. t[1] = "assets" /\ u[1] = "vsn.min.js"
    <3>1. y[1] = t[1] /\ y[Len(t) + 1 + 1] = u[1]
      BY <1>4, <2>5
    <3> QED
      BY <2>1, <2>3, <2>5, <3>1
  <2>7. t = <<"assets">>
    <3>1. <<"assets">> \in Text /\ Len(<<"assets">>) = 1 /\ <<"assets">>[1] = "assets"
      BY DEF Text, Tokens
    <3>2. \A i \in 1 .. Len(t) : t[i] = <<"assets">>[i]
      BY <2>4, <2>6, <3>1
    <3> QED
      BY <1>5, <2>4, <3>1, <3>2, SameText
  <2>8. u = <<"vsn.min.js">>
    <3>1. <<"vsn.min.js">> \in Text /\ Len(<<"vsn.min.js">>) = 1 /\ <<"vsn.min.js">>[1] = "vsn.min.js"
      BY DEF Text, Tokens
    <3>2. \A i \in 1 .. Len(u) : u[i] = <<"vsn.min.js">>[i]
      BY <2>4, <2>6, <3>1
    <3> QED
      BY <1>5, <2>4, <3>1, <3>2, SameText
  <2> QED
    BY <2>7, <2>8 DEF OwnPage, t
<1>12. ~(Cardinality(slashes) > 1) /\ slashes # {}
  BY <1>7, <1>8
<1>13. decodeSegment(SubSeq(y, 1, cut - 1)) = t /\ decodeSegment(SubSeq(y, cut + 1, Len(y))) = u
  <2> HIDE DEF cut
  <2> QED
    BY <1>1, <1>2, <1>9, <1>10
<1>14. match(b, reg, p) = Detail(e, u)
  <2> HIDE DEF p
  <2> QED
    BY <1>1, <1>2, <1>3, <1>6, <1>11, <1>12, <1>13 DEF match
<1> QED
  BY <1>14 DEF p, y, t

-----------------------------------------------------------------------------
(* The App that serves, and the text of its links.                         *)

LEMMA StringIsText == Seq(STRING) \subseteq Text
<1>1. STRING \subseteq Tokens
  BY DEF Tokens
<1> QED
  BY <1>1, SeqMonotonic DEF Text

LEMMA TrimType == ASSUME NEW s \in Text PROVE Trim(s) \in Text
<1> DEFINE keep == {i \in DOMAIN s : s[i] # "/"}
<1>1. CASE keep = {}
  BY <1>1, SlashType DEF Trim
<1>2. CASE keep # {}
  <2>1. Len(s) \in Nat /\ keep \subseteq 1 .. Len(s) /\ keep \subseteq Nat
    BY TextIs
  <2>2. Trim(s) = SubSeq(s, Min(keep), Max(keep))
    BY <1>2 DEF Trim
  <2> HIDE DEF keep
  <2>3. Min(keep) \in keep /\ \A i \in keep : Min(keep) <= i
    BY <1>2, <2>1, MinIs
  <2>4. Max(keep) \in keep /\ Min(keep) <= Max(keep)
    BY <1>2, <2>1, <2>3, MaxIs
  <2> DEFINE lo == Min(keep)
             hi == Max(keep)
  <2>5. lo \in 1 .. Len(s) /\ hi \in 1 .. Len(s) /\ lo <= hi
    BY <2>1, <2>3, <2>4
  <2> HIDE DEF lo, hi
  <2>6. lo \in Nat /\ hi \in Nat /\ 1 <= lo /\ hi <= Len(s) /\ lo <= hi + 1
    BY <2>1, <2>5
  <2>7. SubSeq(s, lo, hi) \in Text
    BY <2>6, PartIs
  <2> QED
    BY <2>2, <2>7 DEF lo, hi
<1> QED
  BY <1>1, <1>2

LEMMA PathForType == ASSUME NEW b, IsBase(b), NEW s \in Text PROVE pathFor(b, s) \in Text
<1>1. b \in Text /\ Trim(s) \in Text /\ Slash \in Text
  BY TrimType, SlashType DEF IsBase
<1>2. Slash \o Trim(s) \in Text /\ b \o Slash \in Text
  BY <1>1, ConcatIs
<1>3. (b \o Slash) \o Trim(s) \in Text
  BY <1>1, <1>2, ConcatIs
<1> QED
  BY <1>1, <1>2, <1>3 DEF pathFor

LEMMA RecordPathType ==
  ASSUME NEW b, IsBase(b), NEW t \in Text, NEW u \in Text
  PROVE  recordPath(b, t, u) \in Text
<1>1. PathEscape(u) \in Text /\ t \o Slash \in Text
  BY EscapedText, SlashType, ConcatIs
<1>2. (t \o Slash) \o PathEscape(u) \in Text
  BY <1>1, ConcatIs
<1> QED
  BY <1>2, PathForType DEF recordPath

(* A match names an entity of the registry, if it names one.               *)
Listing(reg) == Len(reg) \in Nat /\ DOMAIN reg = 1 .. Len(reg)

LEMMA FindType == ASSUME NEW reg, Listing(reg), NEW route PROVE Find(reg, route) \in {0} \cup DOMAIN reg
<1> DEFINE I == {i \in 1 .. Len(reg) : reg[i].route = route}
<1>1. Find(reg, route) = IF I # {} THEN Min(I) ELSE 0
  BY DEF Find, SelectInSeq
<1>2. I \subseteq Nat /\ I \subseteq DOMAIN reg
  BY DEF Listing
<1> HIDE DEF I
<1>3. I # {} => Min(I) \in I
  BY <1>2, MinIs
<1> QED
  BY <1>1, <1>2, <1>3

Naming(reg, m) ==
  \/ m.kind \in {"none", "index", "asset"}
  \/ m.entity \in DOMAIN reg /\ (m = ListOf(m.entity) \/ (m = Detail(m.entity, m.id) /\ m.kind = "detail"))

LEMMA MatchType == ASSUME NEW b, NEW reg, Listing(reg), NEW p PROVE Naming(reg, match(b, reg, p))
<1> DEFINE relative == relativePath(b, p)
           trimmed  == Trim(relative)
           slashes  == {i \in DOMAIN trimmed : trimmed[i] = "/"}
           cut      == IF slashes = {} THEN Len(trimmed) + 1 ELSE Min(slashes)
           entity   == Find(reg, decodeSegment(SubSeq(trimmed, 1, cut - 1)))
           id       == decodeSegment(SubSeq(trimmed, cut + 1, Len(trimmed)))
<1>1. entity \in {0} \cup DOMAIN reg
  BY FindType
<1>2. match(b, reg, p) \in {Index, Asset, NoMatch}
      \/ (entity # 0 /\ match(b, reg, p) \in {ListOf(entity), Detail(entity, id)})
  BY DEF match
<1> DEFINE m == match(b, reg, p)
<1> HIDE DEF entity, id, m
<1>3. CASE m \in {Index, Asset, NoMatch}
  <2>1. m.kind \in {"none", "index", "asset"}
    BY <1>3 DEF Index, Asset, NoMatch
  <2> QED
    BY <2>1 DEF Naming, m
<1>4. CASE entity # 0 /\ m = ListOf(entity)
  <2>1. m.entity = entity
    BY <1>4 DEF ListOf
  <2> QED
    BY <1>1, <1>4, <2>1 DEF Naming, m
<1>5. CASE entity # 0 /\ m = Detail(entity, id)
  <2>1. m.entity = entity /\ m.id = id /\ m.kind = "detail"
    BY <1>5 DEF Detail
  <2> QED
    BY <1>1, <1>5, <2>1 DEF Naming, m
<1> QED
  BY <1>2, <1>3, <1>4, <1>5 DEF m

(* The App that serves, and the page it shows.                             *)
ServingInv ==
  /\ graph \in Schemas /\ raw \in RawBases
  /\ stage \in {"generated", "serving"} => registry = AdminRegistry(graph)
  /\ stage # "serving" => base = <<>> /\ got = NoMatch /\ wanted = NoMatch /\ links = {}
  /\ stage = "serving" =>
       /\ base = normalizeBasePath(raw) /\ base # <<>> /\ validateRegistry(registry)
       /\ rows \in [DOMAIN registry -> SUBSET IdTexts]
       /\ path \in Text /\ got = match(base, registry, path)
       /\ \A l \in links : l.href \in Text

LEMMA RegistryType ==
  ASSUME NEW g \in Schemas
  PROVE  /\ Listing(AdminRegistry(g)) /\ DOMAIN AdminRegistry(g) = DOMAIN g
         /\ \A i \in DOMAIN g : AdminRegistry(g)[i].route = g[i].table /\ g[i].table \in Text
<1> DEFINE reg == AdminRegistry(g)
<1>1. g \in Seq(Range(g)) /\ \A i \in DOMAIN g : g[i].table \in Text
  BY TextAssumption, StringIsText
<1>2. Len(g) \in Nat /\ DOMAIN g = 1 .. Len(g)
  BY <1>1
<1>3. DOMAIN reg = DOMAIN g /\ \A i \in DOMAIN g : reg[i].route = g[i].table
  BY DEF AdminRegistry
<1>4. reg = [i \in 1 .. Len(g) |-> reg[i]]
  BY <1>2 DEF AdminRegistry
<1> HIDE DEF reg
<1>5. Len(reg) = Len(g)
  <2> DEFINE S == {reg[i] : i \in 1 .. Len(g)}
  <2>1. reg \in [1 .. Len(g) -> S]
    BY <1>4
  <2> HIDE DEF S
  <2>2. reg \in Seq(S)
    BY <1>2, <2>1
  <2>3. Len(reg) \in Nat /\ DOMAIN reg = 1 .. Len(reg)
    BY <2>2
  <2> QED
    BY <1>2, <1>3, <2>3
<1> QED
  BY <1>1, <1>2, <1>3, <1>5 DEF Listing, reg

LEMMA ServingType ==
  ASSUME ServingInv, stage = "serving"
  PROVE  /\ IsBase(base) /\ Listing(registry) /\ DOMAIN registry = DOMAIN graph
         /\ \A e \in DOMAIN registry : /\ registry[e].route = graph[e].table /\ registry[e].route \in Text
                                       /\ rows[e] \subseteq IdTexts
<1>1. raw \in Text
  BY TextAssumption, StringIsText DEF ServingInv
<1>2. IsBase(base)
  BY <1>1, NormalizedIsBase DEF ServingInv
<1>3. graph \in Schemas /\ registry = AdminRegistry(graph)
  BY DEF ServingInv
<1>4. \A e \in DOMAIN registry : rows[e] \subseteq IdTexts
  BY DEF ServingInv
<1> QED
  BY <1>2, <1>3, <1>4, RegistryType

(* The links of a page are text.                                           *)
LEMMA LinksType ==
  ASSUME ServingInv, stage = "serving", NEW m, Naming(registry, m), NEW l \in LinksOf(m)
  PROVE  l.href \in Text
<1>1. IsBase(base) /\ \A e \in DOMAIN registry : registry[e].route \in Text /\ rows[e] \subseteq IdTexts
  BY ServingType
<1>2. IdTexts \subseteq Text
  BY TextAssumption, StringIsText
<1>3. \A t \in Text : pathFor(base, t) \in Text
  BY <1>1, PathForType
<1>4. \A t, u \in Text : recordPath(base, t, u) \in Text
  BY <1>1, RecordPathType
<1>5. <<>> \in Text /\ vsnAssetPath \in Text
  <2>1. vsnAssetPath \in Text
    BY DEF vsnAssetPath, Text, Tokens, MustEscape
  <2> QED
    BY <2>1, SlashType
<1>6. CASE l \in {Link(Index, pathFor(base, <<>>)), Link(Asset, pathFor(base, vsnAssetPath))}
  BY <1>3, <1>5, <1>6 DEF Link
<1>7. CASE m.kind = "index" /\ l \in {Link(ListOf(e), entityPath(base, registry[e].route)) : e \in DOMAIN registry}
  BY <1>1, <1>3, <1>7 DEF Link, entityPath
<1>8. CASE /\ m.kind = "list"
           /\ l \in {Link(Detail(m.entity, id), recordPath(base, registry[m.entity].route, id)) : id \in rows[m.entity]}
  BY <1>1, <1>2, <1>4, <1>8 DEF Link, Naming
<1>9. CASE /\ m.kind = "detail" /\ m.id \in rows[m.entity]
           /\ l \in {Link(ListOf(m.entity), entityPath(base, registry[m.entity].route)),
                     Link(m, recordPath(base, registry[m.entity].route, m.id))}
  BY <1>1, <1>2, <1>3, <1>4, <1>9 DEF Link, Naming, entityPath
<1> QED
  BY <1>6, <1>7, <1>8, <1>9 DEF LinksOf

LEMMA RequestServes ==
  ASSUME ServingInv, NEW p \in Text, Request(p)
  PROVE  /\ ServingInv' /\ stage = "serving" /\ stage' = "serving" /\ app' = app
         /\ Naming(registry, got') /\ got' = match(base, registry, p) /\ links' = LinksOf(got')
<1>1. /\ stage = "serving" /\ stage' = "serving" /\ path' = p /\ rows' = rows
      /\ graph' = graph /\ raw' = raw /\ base' = base /\ registry' = registry
      /\ got' = match(base, registry, p) /\ links' = LinksOf(got')
  BY DEF Request, app
<1>2. Naming(registry, got')
  BY <1>1, ServingType, MatchType
<1>3. \A l \in LinksOf(got') : l.href \in Text
  BY <1>1, <1>2, LinksType
<1>4. ServingInv'
  BY <1>1, <1>3 DEF ServingInv
<1> QED
  BY <1>1, <1>2, <1>4 DEF app

LEMMA FollowedText ==
  ASSUME ServingInv, NEW l \in links
  PROVE  PathUnescape(Resolved(l.href)).text \in Text
<1>1. Resolved(l.href) \in Text
  BY ResolvedType DEF ServingInv
<1> QED
  BY <1>1, ReadAllType DEF PathUnescape, States

LEMMA TypedText == ASSUME NEW p \in TypedPaths PROVE p \in Text
BY TextAssumption, StringIsText

LEMMA NewServes ==
  ASSUME ServingInv, New
  PROVE  /\ ServingInv' /\ stage' = "serving" /\ IsBase(base') /\ path' = base'
         /\ got' = match(base', registry', base') /\ wanted' = NoMatch
         /\ links' = {Link(Index, base')}
<1>1. raw \in Text
  BY TextAssumption, StringIsText DEF ServingInv
<1>2. /\ base' = normalizeBasePath(raw) /\ base' # <<>> /\ stage = "generated" /\ stage' = "serving"
      /\ graph' = graph /\ raw' = raw /\ registry' = registry /\ validateRegistry(registry)
      /\ rows' \in [DOMAIN registry -> SUBSET IdTexts] /\ path' = base' /\ wanted' = NoMatch
      /\ got' = match(base', registry, path') /\ links' = {Link(Index, pathFor(base', <<>>))}
  BY DEF New
<1>3. IsBase(base') /\ base' \in Text
  <2>1. IsBase(base')
    BY <1>1, <1>2, NormalizedIsBase
  <2> QED
    BY <2>1, SlashType DEF IsBase
<1>4. pathFor(base', <<>>) = base'
  BY <1>3, PathForHome
<1>5. \A l \in links' : l.href \in Text
  BY <1>2, <1>3, <1>4 DEF Link
<1>6. ServingInv'
  BY <1>2, <1>3, <1>5 DEF ServingInv
<1> QED
  BY <1>2, <1>3, <1>4, <1>6

LEMMA HostWritesServes ==
  ASSUME ServingInv, HostWrites
  PROVE  ServingInv'
<1>1. /\ stage = "serving" /\ UNCHANGED <<stage, graph, raw, base, registry, path, wanted, got, links>>
      /\ rows' \in [DOMAIN registry -> SUBSET IdTexts]
  BY DEF HostWrites, ServingInv, app
<1> QED
  BY <1>1 DEF ServingInv

LEMMA NextServes == ServingInv /\ [Next]_vars => ServingInv'
<1> SUFFICES ASSUME ServingInv, [Next]_vars PROVE ServingInv'
  OBVIOUS
<1>1. CASE Generate
  BY <1>1 DEF Generate, NoVisit, ServingInv
<1>2. CASE NewFails
  BY <1>2 DEF NewFails, NoVisit, ServingInv, app
<1>3. CASE New
  BY <1>3, NewServes
<1>4. ASSUME NEW p \in TypedPaths, Type(p) PROVE ServingInv'
  BY <1>4, TypedText, RequestServes DEF Type
<1>5. ASSUME NEW l \in links, Follow(l) PROVE ServingInv'
  BY <1>5, FollowedText, RequestServes DEF Follow
<1>6. CASE HostWrites
  BY <1>6, HostWritesServes
<1>7. CASE UNCHANGED vars
  BY <1>7 DEF vars, app, ServingInv
<1> QED
  BY <1>1, <1>2, <1>3, <1>4, <1>5, <1>6, <1>7 DEF Next

LEMMA AlwaysServing == Spec => []ServingInv
<1>1. Init => ServingInv
  BY DEF Init, ServingInv
<1> QED
  BY <1>1, NextServes, PTL DEF Spec

(* Whatever is typed and whichever link is followed, below a base that is  *)
(* not the root a path with an empty segment is never served               *)
(* (app.go:245-264), however long it is and wherever the slashes are.      *)
THEOREM AlwaysAmbiguousBelowRoot == Spec => []AmbiguousBelowRoot
<1>1. ServingInv => AmbiguousBelowRoot
  <2> SUFFICES ASSUME ServingInv, base # Slash, HasEmptySegment(path), stage = "serving"
               PROVE  got = NoMatch
    BY DEF ServingInv, AmbiguousBelowRoot
  <2>1. IsBase(base) /\ path \in Text /\ got = match(base, registry, path)
    BY ServingType DEF ServingInv
  <2> QED
    BY <2>1, EmptySegmentRefused, NothingMatches
<1> QED
  BY <1>1, AlwaysServing, PTL

-----------------------------------------------------------------------------
(* Links lead home.                                                        *)

(* Where a path is linked as it is and not escaped, it reads as it is:     *)
(* the base and the tables have no percent sign, and an id is a segment    *)
(* that may be unescaped a second time and that no browser resolves away.  *)
(* Nor is a record's page the one of the script.                           *)
PlainBases == \A b \in RawBases : normalizeBasePath(b) # <<>> => ~Mentions(b, {"%"})
PlainTables == \A g \in Schemas : \A i \in DOMAIN g : ~Mentions(g[i].table, {"%"})
PlainIds == \A id \in IdTexts : id \notin {<<>>} \cup Dots /\ ~Mentions(id, {"/", "%", "?"})
NoRecordHidden == \A g \in Schemas : \A i \in DOMAIN g :
  \A id \in IdTexts : OwnPage(g[i].table, id)

LEMMA PlainSlash == Plain(Slash)
<1>1. DOMAIN Slash = 1 .. 1 /\ \A i \in 1 .. 1 : i = 1
  BY SlashType, TextIs
<1> QED
  BY <1>1, SlashType DEF Plain, Mentions

LEMMA NormalizedIsPlain ==
  ASSUME NEW b \in Text, normalizeBasePath(b) # <<>>, ~Mentions(b, {"%"})
  PROVE  Plain(normalizeBasePath(b))
<1> DEFINE keep == {i \in DOMAIN b : b[i] # "/"}
           m == Max(keep)
           t == SubSeq(b, 1, m)
<1>1. CASE b \in {<<>>, Slash}
  <2>1. normalizeBasePath(b) = Slash
    BY <1>1 DEF normalizeBasePath
  <2> QED
    BY <2>1, PlainSlash
<1>2. CASE b \notin {<<>>, Slash}
  <2>1. normalizeBasePath(b) = TrimRight(b) /\ keep # {} /\ TrimRight(b) = t
    BY <1>2 DEF normalizeBasePath, TrimRight
  <2>2. Len(b) \in Nat /\ DOMAIN b = 1 .. Len(b) /\ \A i \in 1 .. Len(b) : b[i] # "%"
    BY TextIs DEF Mentions
  <2>3. m \in keep
    BY <2>1, <2>2, MaxIs
  <2>4. m \in 1 .. Len(b)
    BY <2>2, <2>3
  <2> HIDE DEF m, keep
  <2>5. t \in Text /\ Len(t) = m /\ \A i \in 1 .. m : t[i] = b[i]
    BY <2>2, <2>4, PartIs
  <2> HIDE DEF t
  <2>6. DOMAIN t = 1 .. m
    BY <2>5, TextIs
  <2>7. ~Mentions(t, {"%"})
    BY <2>2, <2>4, <2>5, <2>6 DEF Mentions
  <2> QED
    BY <2>1, <2>5, <2>7 DEF Plain
<1> QED
  BY <1>1, <1>2

LEMMA PlainConcat == ASSUME NEW s, Plain(s), NEW t, Plain(t) PROVE Plain(s \o t)
<1> DEFINE p == s \o t
<1>1. /\ s \in Text /\ t \in Text /\ Len(s) \in Nat /\ Len(t) \in Nat
      /\ \A i \in 1 .. Len(s) : s[i] # "%"
      /\ \A i \in 1 .. Len(t) : t[i] # "%"
  BY TextIs DEF Plain, Mentions
<1>2. /\ p \in Text /\ Len(p) = Len(s) + Len(t)
      /\ \A i \in 1 .. Len(s) : p[i] = s[i]
      /\ \A i \in 1 .. Len(t) : p[Len(s) + i] = t[i]
  BY <1>1, ConcatIs
<1> HIDE DEF p
<1>3. ASSUME NEW i \in 1 .. Len(p) PROVE p[i] # "%"
  <2>1. CASE i <= Len(s)
    BY <1>1, <1>2, <2>1
  <2>2. CASE ~(i <= Len(s))
    <3>1. i - Len(s) \in 1 .. Len(t) /\ Len(s) + (i - Len(s)) = i
      BY <1>1, <1>2, <2>2
    <3> QED
      BY <1>1, <1>2, <3>1
  <2> QED
    BY <2>1, <2>2
<1>4. DOMAIN p = 1 .. Len(p)
  BY <1>2, TextIs
<1> QED
  BY <1>2, <1>3, <1>4 DEF Plain, Mentions, p

LEMMA ReadIs == ASSUME NEW s, NEW t, ReadAll(s) = At(t) PROVE PathUnescape(s).text = t
BY DEF PathUnescape, At

LEMMA PlainReads == ASSUME NEW s, Plain(s) PROVE ReadAll(s) = At(s)
<1>1. ReadAll(<<>>) = At(<<>>) /\ <<>> \in Text
  BY ReadNothing, SlashType DEF Unread, At
<1>2. ReadAll(<<>> \o s) = At(<<>> \o s)
  BY <1>1, ReadPlain DEF Plain
<1>3. <<>> \o s = s
  BY ConcatEmptySeq DEF Plain, Text
<1> QED
  BY <1>2, <1>3

(* Escaping makes no dot segment of what is none.                          *)
LEMMA DotsStay == ASSUME NEW t \in Text, PathEscape(t) \in Dots PROVE t \in Dots
<1>1. PathEscape(t) \in Text /\ ~Mentions(PathEscape(t), {"%"})
  <2>1. \A x \in Dots : ~Mentions(x, {"%"})
    BY DEF Dots, Mentions
  <2> QED
    BY <2>1, EscapedText
<1>2. ReadAll(PathEscape(t)) = At(PathEscape(t))
  BY <1>1, PlainReads DEF Plain
<1>3. <<>> \in Text /\ ReadAll(<<>>) = At(<<>>)
  BY ReadNothing, SlashType DEF Unread, At
<1>4. ReadAll(<<>> \o PathEscape(t)) = At(<<>> \o t)
  BY <1>3, ReadEscaped
<1>5. <<>> \o PathEscape(t) = PathEscape(t) /\ <<>> \o t = t
  BY <1>1, ConcatEmptySeq DEF Text
<1>6. At(PathEscape(t)).text = At(t).text
  BY <1>2, <1>4, <1>5
<1> QED
  BY <1>6 DEF At

(* Following a link reads its path.                                        *)
LEMMA JoinReads ==
  ASSUME NEW b, IsBase(b), Plain(b), NEW t, Plain(t)
  PROVE  PathUnescape(Join(b, Slash \o t)).text = Join(b, Slash \o t)
<1>1. Plain(Join(b, Slash \o t))
  BY PlainConcat, PlainSlash DEF Join
<1> QED
  BY <1>1, UnescapePlain

LEMMA RecordReads ==
  ASSUME NEW b, IsBase(b), Plain(b), NEW t, Segment(t), Plain(t), NEW u, Segment(u)
  PROVE  /\ PathUnescape(recordPath(b, t, u)).text = Join(b, Slash \o Pair(t, u))
         /\ u \notin Dots => Resolved(recordPath(b, t, u)) = recordPath(b, t, u)
<1> DEFINE v == PathEscape(u)
           start == (IF b = Slash THEN Slash ELSE b \o Slash) \o (t \o Slash)
<1>1. u \in Text /\ u # <<>> /\ Segment(v) /\ v \in Text
  <2>1. u \in Text /\ u # <<>>
    BY TextIs DEF Segment
  <2>2. v \in Text /\ ~Mentions(v, {"/"}) /\ v # <<>>
    BY <2>1, EscapedText
  <2>3. Len(v) >= 1
    BY <2>2, TextIs
  <2> QED
    BY <2>1, <2>2, <2>3 DEF Segment
<1>2. Plain(start) /\ start \in Text
  BY PlainConcat, PlainSlash DEF Plain
<1>3. \A x \in Text : Join(b, Slash \o Pair(t, x)) = start \o x
  <2> TAKE x \in Text
  <2> DEFINE h == IF b = Slash THEN Slash ELSE b \o Slash
             y == t \o Slash
  <2>1. h \in Text /\ y \in Text
    BY SlashType, ConcatIs DEF IsBase, Segment
  <2>2. y \o x \in Text
    BY <2>1, ConcatIs
  <2>3. Join(b, Slash \o (y \o x)) = h \o (y \o x)
    BY <2>2, JoinIs
  <2> HIDE DEF h, y
  <2>4. (h \o y) \o x = h \o (y \o x)
    BY <2>1, ConcatAssociative DEF Text
  <2> QED
    BY <2>3, <2>4 DEF h, y, Pair
<1> HIDE DEF v, start
<1>4. recordPath(b, t, u) = start \o v /\ recordPath(b, t, u) = Join(b, Slash \o Pair(t, v))
  <2>1. Bare(Pair(t, v))
    BY <1>1, PairIsNamed DEF Named
  <2>2. pathFor(b, Pair(t, v)) = Join(b, Slash \o Pair(t, v))
    BY <2>1, PathForIs
  <2> QED
    BY <1>1, <1>3, <2>2 DEF recordPath, Pair, v
<1>5. ReadAll(start \o v) = At(start \o u)
  BY <1>1, <1>2, PlainReads, ReadEscaped DEF v
<1>6. ASSUME u \notin Dots PROVE Resolved(recordPath(b, t, u)) = recordPath(b, t, u)
  <2>1. v \notin Dots
    BY <1>1, <1>6, DotsStay DEF v
  <2>2. (t \o Slash) \in Text /\ (t \o Slash)[Len(t \o Slash)] = "/"
    BY SlashAfter DEF Segment
  <2>3. Resolved(Join(b, Slash \o ((t \o Slash) \o v))) = Join(b, Slash \o ((t \o Slash) \o v))
    BY <1>1, <2>1, <2>2, JoinStays DEF Segment
  <2> QED
    BY <1>4, <2>3 DEF Pair
<1>7. PathUnescape(recordPath(b, t, u)).text = Join(b, Slash \o Pair(t, u))
  BY <1>1, <1>3, <1>4, <1>5, ReadIs
<1> QED
  BY <1>6, <1>7

LEMMA ServingPlainBase ==
  ASSUME PlainBases, ServingInv, stage = "serving"
  PROVE  IsBase(base) /\ Plain(base) /\ PathUnescape(base).text = base
<1>1. raw \in Text /\ raw \in RawBases /\ base = normalizeBasePath(raw) /\ base # <<>>
  BY TextAssumption, StringIsText DEF ServingInv
<1>2. Plain(base)
  BY <1>1, NormalizedIsPlain DEF PlainBases
<1> QED
  BY <1>2, ServingType, UnescapePlain

(* Where no base path is escaped, the App answers the path it is mounted   *)
(* at with its index (app.go:245-264, helpers.go:11-23).                   *)
THEOREM AlwaysHomeIsServed ==
  ASSUME PlainBases
  PROVE  Spec => []HomeIsServed
<1>1. ServingInv => HomeIsServed
  <2> SUFFICES ASSUME ServingInv, stage = "serving", path = PathUnescape(base).text
               PROVE  got = Index
    BY DEF HomeIsServed
  <2>1. got = match(base, registry, path)
    BY DEF ServingInv
  <2> QED
    BY <2>1, ServingPlainBase, HomeMatches
<1> QED
  BY <1>1, AlwaysServing, PTL

(* The links that the pages write survive being read twice.                *)
Unescaped == PlainBases /\ PlainTables /\ PlainIds /\ NoRecordHidden

LEMMA ServingRouted ==
  ASSUME Unescaped, ServingInv, stage = "serving"
  PROVE  Routed(registry) /\ \A e \in DOMAIN registry : registry[e].route \notin Dots
<1>1. /\ Listing(registry) /\ DOMAIN registry = DOMAIN graph /\ graph \in Schemas /\ validateRegistry(registry)
      /\ \A e \in DOMAIN registry : registry[e].route = graph[e].table /\ registry[e].route \in Text
  BY ServingType DEF ServingInv
<1>2. ASSUME NEW e \in DOMAIN registry PROVE Readable(registry[e].route)
  <2> DEFINE t == registry[e].route
  <2>1. validEntity(registry[e])
    BY <1>1 DEF validateRegistry
  <2>2. validRoute(t)
    BY <2>1 DEF validEntity
  <2>3. t # <<>> /\ ~Mentions(t, {"/", "?"}) /\ t \in Text
    BY <1>1, <2>2 DEF validRoute
  <2>4. ~Mentions(t, {"%"})
    BY <1>1 DEF Unescaped, PlainTables
  <2> HIDE DEF t
  <2>5. Len(t) >= 1
    BY <2>3, TextIs
  <2> QED
    BY <2>3, <2>4, <2>5 DEF Readable, Segment, Mentions, t
<1>3. \A i, j \in DOMAIN registry : registry[i].route = registry[j].route => i = j
  BY <1>1 DEF validateRegistry
<1>4. \A e \in DOMAIN registry : registry[e].route \notin Dots
  BY <1>1 DEF validateRegistry, validEntity
<1> QED
  BY <1>1, <1>2, <1>3, <1>4 DEF Routed, Listing

LEMMA IdReadable == ASSUME Unescaped, NEW id \in IdTexts PROVE Readable(id) /\ id \notin Dots
<1>1. id \in Text /\ id # <<>> /\ id \notin Dots /\ ~Mentions(id, {"/", "%", "?"})
  BY TextAssumption, StringIsText DEF Unescaped, PlainIds
<1>2. Len(id) >= 1
  BY <1>1, TextIs
<1> QED
  BY <1>1, <1>2 DEF Readable, Segment, Mentions

Leads(l) == match(base, registry, PathUnescape(Resolved(l.href)).text) = l.target

(* Every link of a page leads to what it names.                            *)
LEMMA LinksLead ==
  ASSUME Unescaped, ServingInv, stage = "serving", NEW m, Naming(registry, m), NEW l \in LinksOf(m)
  PROVE  Leads(l)
<1>1. IsBase(base) /\ Plain(base) /\ PathUnescape(base).text = base
  BY ServingPlainBase DEF Unescaped
<1>2. Routed(registry) /\ \A e \in DOMAIN registry : registry[e].route \notin Dots
  BY ServingRouted
<1>3. ASSUME NEW e \in DOMAIN registry
      PROVE  Readable(registry[e].route) /\ Segment(registry[e].route) /\ Plain(registry[e].route)
             /\ Bare(registry[e].route)
  BY <1>2, ReadableIs, SegmentIsNamed DEF Routed, Named
<1>4. Resolved(base) = base
  <2>1. raw \in Text /\ base = normalizeBasePath(raw) /\ base # <<>>
    BY TextAssumption, StringIsText DEF ServingInv
  <2> QED
    BY <2>1, BaseStays
<1>5. Leads(Link(Index, pathFor(base, <<>>)))
  <2>1. pathFor(base, <<>>) = base
    BY <1>1, PathForHome
  <2> QED
    BY <1>1, <1>4, <2>1, HomeMatches DEF Leads, Link
<1>6. Leads(Link(Asset, pathFor(base, vsnAssetPath)))
  <2> DEFINE a == <<"assets", "/", "vsn.min.js">>
  <2>1. Named(a) /\ Bare(a) /\ vsnAssetPath = Slash \o a /\ Plain(a)
    BY AssetIs DEF Named, Bare, Plain
  <2> HIDE DEF a
  <2>2. pathFor(base, vsnAssetPath) = Join(base, vsnAssetPath)
    BY <1>1, <2>1, PathForIs
  <2>3. PathUnescape(pathFor(base, vsnAssetPath)).text = Join(base, vsnAssetPath)
    BY <1>1, <2>1, <2>2, JoinReads
  <2>4. Resolved(pathFor(base, vsnAssetPath)) = pathFor(base, vsnAssetPath)
    BY <1>1, <2>2, AssetStays
  <2> QED
    BY <1>1, <2>3, <2>4, AssetMatches DEF Leads, Link
<1>7. ASSUME NEW e \in DOMAIN registry PROVE Leads(Link(ListOf(e), entityPath(base, registry[e].route)))
  <2> DEFINE t == registry[e].route
  <2>1. Bare(t) /\ Plain(t)
    BY <1>3
  <2>2. entityPath(base, t) = Join(base, Slash \o t)
    BY <1>1, <2>1, PathForIs DEF entityPath
  <2>3. PathUnescape(entityPath(base, t)).text = Join(base, Slash \o t)
    BY <1>1, <2>1, <2>2, JoinReads
  <2>4. match(base, registry, Join(base, Slash \o t)) = ListOf(e)
    BY <1>1, <1>2, ListMatches
  <2>5. Resolved(entityPath(base, t)) = entityPath(base, t)
    BY <1>1, <1>2, <1>3, <2>2, SegmentStays
  <2> QED
    BY <2>3, <2>4, <2>5 DEF Leads, Link
<1>8. ASSUME NEW e \in DOMAIN registry, NEW id \in rows[e]
      PROVE  Leads(Link(Detail(e, id), recordPath(base, registry[e].route, id)))
  <2> DEFINE t == registry[e].route
  <2>1. Segment(t) /\ Plain(t)
    BY <1>3
  <2>2. id \in IdTexts /\ t = graph[e].table /\ e \in DOMAIN graph /\ graph \in Schemas
    BY ServingType DEF ServingInv
  <2>3. Readable(id) /\ Segment(id) /\ id \notin Dots
    BY <2>2, IdReadable, ReadableIs
  <2>4. OwnPage(t, id)
    BY <2>2 DEF Unescaped, NoRecordHidden
  <2>5. /\ PathUnescape(recordPath(base, t, id)).text = Join(base, Slash \o Pair(t, id))
        /\ Resolved(recordPath(base, t, id)) = recordPath(base, t, id)
    BY <1>1, <2>1, <2>3, RecordReads
  <2>6. match(base, registry, Join(base, Slash \o Pair(t, id))) = Detail(e, id)
    <3>1. IsBase(base) /\ Routed(registry) /\ Readable(id) /\ OwnPage(registry[e].route, id)
      BY <1>1, <1>2, <2>3, <2>4
    <3> QED
      BY <3>1, DetailMatches
  <2> QED
    BY <2>5, <2>6 DEF Leads, Link
<1>9. CASE l \in {Link(Index, pathFor(base, <<>>)), Link(Asset, pathFor(base, vsnAssetPath))}
  BY <1>5, <1>6, <1>9
<1>10. CASE m.kind = "index" /\ l \in {Link(ListOf(e), entityPath(base, registry[e].route)) : e \in DOMAIN registry}
  BY <1>7, <1>10
<1>11. CASE /\ m.kind = "list"
            /\ l \in {Link(Detail(m.entity, id), recordPath(base, registry[m.entity].route, id)) : id \in rows[m.entity]}
  BY <1>8, <1>11 DEF Naming
<1>12. CASE /\ m.kind = "detail" /\ m.id \in rows[m.entity]
            /\ l \in {Link(ListOf(m.entity), entityPath(base, registry[m.entity].route)),
                      Link(m, recordPath(base, registry[m.entity].route, m.id))}
  <2>1. m.entity \in DOMAIN registry /\ m = Detail(m.entity, m.id)
    BY <1>12 DEF Naming, ListOf
  <2> QED
    BY <1>7, <1>8, <1>12, <2>1
<1> QED
  BY <1>9, <1>10, <1>11, <1>12 DEF LinksOf

(* The links of the page that is shown lead where they say, and so did the *)
(* one that was followed.                                                  *)
LinksInv ==
  /\ \A l \in links : Leads(l)
  /\ wanted # NoMatch => got = wanted

LEMMA NextLeads == ASSUME Unescaped PROVE ServingInv /\ LinksInv /\ [Next]_vars => LinksInv'
<1> SUFFICES ASSUME ServingInv, LinksInv, [Next]_vars PROVE LinksInv'
  OBVIOUS
<1>1. ASSUME NEW p \in Text, Request(p)
      PROVE  (\A l \in links : Leads(l))' /\ got' = match(base, registry, p)
  <2>1. /\ stage = "serving" /\ base' = base /\ registry' = registry
        /\ Naming(registry, got') /\ got' = match(base, registry, p) /\ links' = LinksOf(got')
    BY <1>1, RequestServes DEF app
  <2>2. \A l \in LinksOf(got') : Leads(l)
    BY <2>1, LinksLead
  <2> QED
    BY <2>1, <2>2 DEF Leads
<1>2. CASE Generate
  <2>1. links' = {} /\ wanted' = NoMatch
    BY <1>2 DEF Generate, NoVisit, ServingInv
  <2> QED
    BY <2>1 DEF LinksInv
<1>3. CASE NewFails
  <2>1. links' = {} /\ wanted' = NoMatch
    BY <1>3 DEF NewFails, NoVisit, ServingInv
  <2> QED
    BY <2>1 DEF LinksInv
<1>4. CASE New
  <2>1. /\ ServingInv' /\ stage' = "serving" /\ wanted' = NoMatch /\ links' = {Link(Index, base')}
    BY <1>4, NewServes
  <2>2. (IsBase(base) /\ PathUnescape(base).text = base /\ Resolved(base) = base)'
    <3>1. raw' \in Text /\ raw' \in RawBases /\ base' = normalizeBasePath(raw') /\ base' # <<>>
      BY <2>1, TextAssumption, StringIsText DEF ServingInv
    <3>2. Plain(base') /\ IsBase(base')
      BY <3>1, NormalizedIsPlain, NormalizedIsBase DEF Unescaped, PlainBases
    <3>3. Resolved(base') = base'
      BY <3>1, BaseStays
    <3> QED
      BY <3>2, <3>3, UnescapePlain
  <2>3. match(base', registry', base') = Index
    BY <2>2, HomeMatches
  <2>4. (\A l \in links : Leads(l))'
    <3>1. PathUnescape(Resolved(base')).text = base'
      BY <2>2
    <3>2. \A l \in links' : l.href = base' /\ l.target = Index
      BY <2>1 DEF Link
    <3>3. \A l \in links' : match(base', registry', PathUnescape(Resolved(l.href)).text) = l.target
      BY <2>3, <3>1, <3>2
    <3> QED
      BY <3>3 DEF Leads
  <2> QED
    BY <2>1, <2>4 DEF LinksInv
<1>5. ASSUME NEW p \in TypedPaths, Type(p) PROVE LinksInv'
  BY <1>1, <1>5, TypedText DEF Type, LinksInv
<1>6. ASSUME NEW l \in links, Follow(l) PROVE LinksInv'
  <2> DEFINE p == PathUnescape(Resolved(l.href)).text
  <2>1. p \in Text /\ Request(p) /\ wanted' = l.target /\ Leads(l)
    BY <1>6, FollowedText DEF Follow, LinksInv
  <2>2. (\A k \in links : Leads(k))' /\ got' = l.target
    BY <1>1, <2>1 DEF Leads
  <2> QED
    BY <2>1, <2>2 DEF LinksInv
<1>7. CASE HostWrites
  BY <1>7 DEF HostWrites, LinksInv, Leads, app
<1>8. CASE UNCHANGED vars
  BY <1>8 DEF vars, LinksInv, Leads, app
<1> QED
  BY <1>2, <1>3, <1>4, <1>5, <1>6, <1>7, <1>8 DEF Next

(* Whatever has been typed and followed before, a link leads to the page   *)
(* it names: the escaping of helpers.go:29-31, the decoding of net/http    *)
(* and the matching of app.go:207-272 undo one another.                    *)
THEOREM AlwaysLinksLeadHome ==
  ASSUME Unescaped
  PROVE  Spec => []LinksLeadHome
<1>1. Init => LinksInv
  BY DEF Init, LinksInv
<1>2. LinksInv => LinksLeadHome
  BY DEF LinksInv, LinksLeadHome
<1> QED
  BY <1>1, <1>2, NextLeads, AlwaysServing, PTL DEF Spec
=============================================================================
