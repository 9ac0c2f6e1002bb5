------------------------------- MODULE UrlPath -------------------------------
(***************************************************************************)
(* The two directions in which the handler deals with URLs: the links its  *)
(* pages contain (internal/ui/helpers.go) and the paths it accepts         *)
(* (app.go), with the part of net/url they use.                            *)
(*                                                                         *)
(* A path is a sequence of tokens.  A token is a word of plain characters  *)
(* ("books", "x"), one of the characters that mean something in a URL      *)
(* ("/", ".", "%", "?", " "), or two hexadecimal digits that name a        *)
(* character when "%" stands before them and are plain text otherwise:     *)
(* <<"%", "78">> is an escaped x, <<"78">> the text 78.                    *)
(***************************************************************************)
EXTENDS Integers, Sequences, FiniteSets, SequencesExt

Slash == <<"/">>
Dots == {<<".">>, <<".", ".">>}    \* the segments that mean a directory
CharOf == [code \in {"78", "2F", "25", "3F", "20"} |->
             CASE code = "78" -> "x" [] code = "2F" -> "/" [] code = "25" -> "%"
               [] code = "3F" -> "?" [] OTHER -> " "]
MustEscape == {"/", "%", "?", " "}
Code(c) == CHOOSE code \in DOMAIN CharOf : CharOf[code] = c

HasEmptySegment(s) == \E i \in 1 .. Len(s) - 1 : s[i] = "/" /\ s[i + 1] = "/"
Mentions(s, C) == \E i \in DOMAIN s : s[i] \in C
TrimRight(s) == LET keep == {i \in DOMAIN s : s[i] # "/"}
                IN  IF keep = {} THEN <<>> ELSE SubSeq(s, 1, Max(keep))
Trim(s) == LET keep == {i \in DOMAIN s : s[i] # "/"}
           IN  IF keep = {} THEN <<>> ELSE SubSeq(s, Min(keep), Max(keep))

(* strings.Split(s, "/"), as the set of its parts.                         *)
Segments(s) ==
  LET ends == {i \in DOMAIN s : s[i] = "/"} \cup {0, Len(s) + 1}
      next == {e \in ends \X ends : e[1] < e[2] /\ ~\E k \in ends : e[1] < k /\ k < e[2]}
  IN  {SubSeq(s, e[1] + 1, e[2] - 1) : e \in next}

(* url.PathEscape.                                                         *)
PathEscape(s) ==
  FlattenSeq([i \in DOMAIN s |-> IF s[i] \in MustEscape THEN <<"%", Code(s[i])>> ELSE <<s[i]>>])

(* url.PathUnescape, a token at a time: a "%" must be followed by two       *)
(* hexadecimal digits.                                                     *)
Unread == [ok |-> TRUE, escape |-> FALSE, text |-> <<>>]
ReadToken(so, c) ==
  IF ~so.ok THEN so
  ELSE IF so.escape THEN IF c \in DOMAIN CharOf
                         THEN [so EXCEPT !.text = Append(@, CharOf[c]), !.escape = FALSE]
                         ELSE [so EXCEPT !.ok = FALSE]
  ELSE IF c = "%" THEN [so EXCEPT !.escape = TRUE] ELSE [so EXCEPT !.text = Append(@, c)]

ReadAll(s) ==
  LET read[n \in 0 .. Len(s)] == IF n = 0 THEN Unread ELSE ReadToken(read[n - 1], s[n])
  IN  read[Len(s)]

PathUnescape(s) == [ok |-> ReadAll(s).ok /\ ~ReadAll(s).escape, text |-> ReadAll(s).text]

-----------------------------------------------------------------------------
(* app.go: what is accepted.  The empty sequence stands for "not ok": no   *)
(* result that is ok is empty.                                             *)

decodeSegment(s) ==
  LET decoded == PathUnescape(s)
  IN  IF decoded.ok /\ ~Mentions(decoded.text, {"/", "?"}) THEN decoded.text ELSE <<>>

normalizeBasePath(raw) ==
  LET normalized == TrimRight(raw)
      invalid == {<<>>} \cup Dots
  IN  IF raw \in {<<>>, Slash} THEN Slash
      ELSE IF raw[1] # "/" \/ Mentions(raw, {"?"}) \/ HasEmptySegment(raw) THEN <<>>
      ELSE IF \E s \in Segments(Tail(normalized)) : {s, decodeSegment(s)} \cap invalid # {} THEN <<>>
      ELSE normalized

(* A mutant of relativePath: empty segments are left to match.             *)
relativePathLoose(base, path) ==
  IF base = Slash THEN path
  ELSE IF path \in {base, base \o Slash} THEN Slash
  ELSE IF IsPrefix(base \o Slash, path) THEN SubSeq(path, Len(base) + 1, Len(path)) ELSE <<>>

(* A mutant of relativePath: the base path without a slash is forgotten.   *)
relativePathSlashOnly(base, path) ==
  IF base = Slash THEN path
  ELSE IF path = base \o Slash THEN Slash
  ELSE IF IsPrefix(base \o Slash, path) /\ ~HasEmptySegment(path)
       THEN SubSeq(path, Len(base) + 1, Len(path)) ELSE <<>>

relativePath(base, path) ==
  LET relative == SubSeq(path, Len(base) + 1, Len(path))
  IN  IF ~IsPrefix(Slash, path) THEN <<>>
      ELSE IF base = Slash THEN path
      ELSE IF path \in {base, base \o Slash} THEN Slash
      ELSE IF IsPrefix(base \o Slash, path) /\ ~HasEmptySegment(relative) THEN relative
      ELSE <<>>

(* An entity is named by its place in the registry, 0 for none.            *)
NoMatch == [kind |-> "none", entity |-> 0, id |-> <<>>]
Index == [kind |-> "index", entity |-> 0, id |-> <<>>]
Asset == [kind |-> "asset", entity |-> 0, id |-> <<>>]
ListOf(entity) == [kind |-> "list", entity |-> entity, id |-> <<>>]
Detail(entity, id) == [kind |-> "detail", entity |-> entity, id |-> id]

(* Registry.Find, the first entity that has the route.                     *)
Find(registry, route) == SelectInSeq(registry, LAMBDA entity : entity.route = route)

vsnAssetPath == <<"/", "assets", "/", "vsn.min.js">>

match(base, registry, path) ==
  LET relative == relativePath(base, path)
      trimmed  == Trim(relative)
      slashes  == {i \in DOMAIN trimmed : trimmed[i] = "/"}
      cut      == IF slashes = {} THEN Len(trimmed) + 1 ELSE Min(slashes)
      entity   == Find(registry, decodeSegment(SubSeq(trimmed, 1, cut - 1)))
      id       == decodeSegment(SubSeq(trimmed, cut + 1, Len(trimmed)))
  IN  IF relative = Slash THEN Index
      ELSE IF relative = vsnAssetPath THEN Asset
      ELSE IF \/ trimmed = <<>> \/ HasEmptySegment(trimmed) \/ Cardinality(slashes) > 1
              \/ entity = 0 THEN NoMatch
      ELSE IF slashes = {} THEN ListOf(entity)
      ELSE IF id = <<>> THEN NoMatch ELSE Detail(entity, id)

-----------------------------------------------------------------------------
(* internal/ui/helpers.go: what is linked to.                              *)

(* A mutant of pathFor: the root base path is joined like any other.       *)
pathForNoRootCase(base, suffix) ==
  IF Trim(suffix) = <<>> THEN base ELSE base \o Slash \o Trim(suffix)

pathFor(base, suffix) ==
  LET trimmed == Trim(suffix)
  IN  IF base \in {<<>>, Slash} THEN Slash \o trimmed
      ELSE IF trimmed = <<>> THEN base ELSE base \o Slash \o trimmed

entityPath(base, route) == pathFor(base, route)
recordPath(base, route, id) == pathFor(base, route \o Slash \o PathEscape(id))
=============================================================================
