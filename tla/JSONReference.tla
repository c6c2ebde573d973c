---------------------------- MODULE JSONReference ----------------------------
(* What the body scanner is measured against: JSON by its grammar, as trees  *)
(* over the bytes of a text.  Nothing here is taken from the scanner but the *)
(* alphabet and encoding/json's decoding of strings.                         *)
EXTENDS JSONScan, SequencesExt

NoNode == [type |-> "none", from |-> 0, to |-> 0, kids |-> <<>>]
Node(type, from, to, kids) == [type |-> type, from |-> from, to |-> to, kids |-> kids]
RangeOf(node) == <<node.from - 1, node.to>>

At(t, i) == IF i \in DOMAIN t THEN t[i] ELSE "end"
Slice(t, i, j) == SubSeq(t, i, IF j > Len(t) THEN Len(t) ELSE j)

\* The first byte at or after i that is not in the set.
Past(t, i, set) ==
    LET over[k \in i .. Len(t) + 1] == IF At(t, k) \in set THEN over[k + 1] ELSE k
    IN  IF i > Len(t) THEN i ELSE over[i]
Blank(t, i) == Past(t, i, Whitespace)

\* The quote that closes the string whose first character is at i, 0 if none does.
ClosingQuote(t, i) ==
    LET quote[k \in i .. Len(t) + UnicodeDigits + 2] ==
            CASE At(t, k) \in Control \cup {"end"} -> 0
              [] At(t, k) = "\"" -> k
              [] At(t, k) = "\\" /\ At(t, k + 1) \in DOMAIN Unescape -> quote[k + 2]
              [] At(t, k) = "\\" /\ At(t, k + 1) = "u" ->
                   IF \A d \in 1 .. UnicodeDigits : At(t, k + 1 + d) \in HexDigit
                   THEN quote[k + 2 + UnicodeDigits] ELSE 0
              [] At(t, k) = "\\" -> 0
              [] OTHER -> quote[k + 1]
    IN  quote[i]

Digits(w) == w # <<>> /\ \A i \in DOMAIN w : w[i] \in {"0", "1"}
IsNumber(w) ==
    \E p \in 0 .. 1, q, r \in 0 .. Len(w) :
        /\ p <= q /\ q <= r
        /\ SubSeq(w, 1, p) \in {<<>>, <<"-">>}
        /\ Digits(SubSeq(w, p + 1, q)) /\ (w[p + 1] = "0" => q = p + 1)
        /\ SubSeq(w, q + 1, r) = <<>> \/ (w[q + 1] = "." /\ Digits(SubSeq(w, q + 2, r)))
        /\ \/ r = Len(w)
           \/ /\ w[r + 1] = "e"
              /\ \E s \in {r + 1, r + 2} : /\ s = r + 2 => At(w, s) \in {"+", "-"}
                                           /\ Digits(SubSeq(w, s + 1, Len(w)))

Closing(open) == IF open = "{" THEN "}" ELSE "]"

RECURSIVE ValueAt(_, _), KidsFrom(_, _, _, _)

\* The value that starts at i.
ValueAt(t, i) ==
    LET words == {w \in {Words[c] : c \in DOMAIN Words} : Slice(t, i, i + Len(w) - 1) = w}
        number == Slice(t, i, Past(t, i, {"-", "+", ".", "e", "0", "1"}) - 1)
        inside == Blank(t, i + 1)
        ended(type, to, kids) == IF to = 0 THEN NoNode ELSE Node(type, i, to, kids)
        filled(kids) == ended(IF At(t, i) = "{" THEN "object" ELSE "array", kids.to, kids.seq)
    IN  CASE At(t, i) = "\"" -> ended("string", ClosingQuote(t, i + 1), <<>>)
          [] At(t, i) \in DOMAIN Words ->
               IF words = {} THEN NoNode
               ELSE Node(IF At(t, i) = "n" THEN "null" ELSE "bool", i,
                         i + Len(CHOOSE w \in words : TRUE) - 1, <<>>)
          [] At(t, i) \in {"-", "0", "1"} ->
               IF IsNumber(number) THEN Node("number", i, i + Len(number) - 1, <<>>) ELSE NoNode
          [] At(t, i) \in {"{", "["} ->
               filled(IF At(t, inside) = Closing(At(t, i)) THEN [to |-> inside, seq |-> <<>>]
                      ELSE KidsFrom(t, inside, At(t, i), <<>>))
          [] OTHER -> NoNode

\* The members or elements from i up to the closing bracket.
KidsFrom(t, i, open, seen) ==
    LET noKids == [to |-> 0, seq |-> <<>>]
        more(after, kids) == CASE At(t, after) = "," -> KidsFrom(t, Blank(t, after + 1), open, kids)
                               [] At(t, after) = Closing(open) -> [to |-> after, seq |-> kids]
                               [] OTHER -> noKids
        kid(key, value) ==
            IF value.type = "none" THEN noKids
            ELSE more(Blank(t, value.to + 1), Append(seen, [key |-> key, member |-> i, node |-> value]))
        member(quote) ==
            LET colon == Blank(t, quote + 1)
            IN  IF quote = 0 \/ At(t, colon) # ":" THEN noKids
                ELSE kid(Unmarshal(Slice(t, i, quote)), ValueAt(t, Blank(t, colon + 1)))
    IN  CASE open = "[" -> kid(<<ToString(Len(seen))>>, ValueAt(t, i))
          [] open = "{" /\ At(t, i) = "\"" -> member(ClosingQuote(t, i + 1))
          [] OTHER -> noKids

\* The tree of a text that is one object and nothing else.
Document(t) ==
    LET whole(root) == IF root.type = "object" /\ Blank(t, root.to + 1) > Len(t) THEN root ELSE NoNode
    IN  whole(ValueAt(t, Blank(t, 1)))

-----------------------------------------------------------------------------
(* The request rules and the retained fields.                               *)

KidsNamed(node, key) == SelectSeq(node.kids, LAMBDA k : k.key = key)
NodeText(t, node) == Slice(t, node.from, node.to)

\* Raw bytes of a string that are whole characters of UTF-8.
RECURSIVE WholeRunes(_)
WholeRunes(w) ==
    \/ w = <<>>
    \/ w # <<>> /\ w[1] \notin MultiByte /\ WholeRunes(Tail(w))
    \/ \E r \in MultiByteRune : /\ Len(r) <= Len(w) /\ SubSeq(w, 1, Len(r)) = r
                                /\ WholeRunes(SubSeq(w, Len(r) + 1, Len(w)))

ModelOK(t, root) ==
    LET models == KidsNamed(root, ModelKey)
        raw == NodeText(t, models[1].node)
    IN  /\ Len(models) = 1 /\ models[1].node.type = "string"
        /\ WholeRunes(raw)
        /\ Len(Unmarshal(raw)) \in 1 .. ModelMax

Matches(path, selector) ==
    /\ Len(path) = Len(selector)
    /\ \A i \in DOMAIN path : selector[i] \in {path[i], Wildcard}
Wanted(spec, path, type) ==
    \/ \E p \in spec.paths :
          \/ Matches(path, p)
          \/ type \in {"object", "array"} /\ Len(path) < Len(p) /\ Matches(path, SubSeq(p, 1, Len(path)))
    \/ spec.model /\ path = <<ModelKey>>

\* The nodes below one node with their paths, children before their parents.
RECURSIVE Below(_, _)
Below(node, path) ==
    FlattenSeq([i \in DOMAIN node.kids |->
        LET p == Append(path, node.kids[i].key)
        IN  Append(Below(node.kids[i].node, p), [path |-> p, kid |-> node.kids[i]])])

-----------------------------------------------------------------------------
(* Trees without positions, to compare what two texts mean.                 *)

RECURSIVE Meaning(_, _)
Meaning(t, node) ==
    [type |-> node.type,
     value |-> CASE node.type = "string" -> Unmarshal(NodeText(t, node))
                 [] node.type \in {"number", "bool", "null"} -> NodeText(t, node)
                 [] OTHER -> <<>>,
     kids |-> [i \in DOMAIN node.kids |->
                  [key |-> IF node.type = "object" THEN node.kids[i].key ELSE <<>>,
                   node |-> Meaning(t, node.kids[i].node)]]]
MeaningOf(t) == Meaning(t, Document(t))

\* The tree without the node at a position (the path of child numbers).
RECURSIVE Without(_, _)
Without(m, where) ==
    IF Len(where) = 1 THEN [m EXCEPT !.kids = RemoveAt(@, where[1])]
    ELSE [m EXCEPT !.kids[where[1]].node = Without(@, Tail(where))]

StringNode(value) == [type |-> "string", value |-> value, kids |-> <<>>]
ObjectNode(kids) == [type |-> "object", value |-> <<>>, kids |-> kids]
Kid(key, node) == [key |-> key, node |-> node]
=============================================================================
