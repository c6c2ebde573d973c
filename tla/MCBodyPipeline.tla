--------------------------- MODULE MCBodyPipeline ---------------------------
(* Small alphabets and bodies for BodyPipeline.                             *)
EXTENDS BodyPipeline

Q(w) == <<"\"">> \o w \o <<"\"">>
Mem(k, v) == Q(k) \o <<":">> \o v
Join(parts) == FlattenSeq([i \in DOMAIN parts |-> IF i = 1 THEN parts[i] ELSE <<",">> \o parts[i]])
Obj(members) == <<"{">> \o Join(members) \o <<"}">>
Arr(values) == <<"[">> \o Join(values) \o <<"]">>

MCSpecs ==
    [request  |-> [paths |-> DetectorPaths \cup UNION {RequestPaths[p] : p \in DOMAIN RequestPaths},
                   model |-> TRUE, markers |-> {Literal.marker}, keyRawLimit |-> 5],
     response |-> [paths |-> ResponsePaths, model |-> FALSE, markers |-> {}, keyRawLimit |-> 5]]
MCModelKey == <<"m">>
MCSessionKey == <<"j">>
MCHexDigit == {"0", "1", "A", "B", "C"}
MCCharOf == <<"0">> :> <<"t">> @@ <<"1">> :> <<"S">> @@ <<"C">> :> <<"X1", "X2">>
MCHigh == {<<"A">>}
MCLow == {<<"B">>}
MCRunes == {<<"X1", "X2">>}
MCClassifierModel == <<"k">>
MCChains == [normal |-> <<"subagent">>, classifier |-> <<"session", "classifier", "gpt">>]

Model == Mem(<<"m">>, Q(<<"o">>))
Disabled == Mem(<<"t">>, Obj(<<Mem(<<"y">>, Q(<<"D">>))>>))
System(text) == Mem(<<"s">>, Arr(<<Obj(<<Mem(<<"x">>, Q(text))>>)>>))
Security == <<"S", "M", ".">>
\* {"j":"v"} and {"a":[0]} inside a string; the first with an escaped quote.
Inner == <<"{", "\\", "\"", "j", "\\", "\"", ":", "\\", "\"", "v", "\\", "\"", "}">>
InnerOther == <<"{", "\\", "\"", "a", "\\", "\"", ":", "[", "0", "]", "}">>
User(inner) == Mem(<<"d">>, Obj(<<Mem(<<"i">>, Q(inner))>>))
Stops == Mem(<<"p">>, Arr(<<Q(<<"b">>), Q(<<"a", "b">>)>>))

\* Every order of the members of one document.
Orders(members) == {Obj([i \in DOMAIN members |-> members[f[i]]]) : f \in Permutations(DOMAIN members)}
\* One byte of the document changed, dropped or cut off after.
Slips(text, bytes) ==
    {[text EXCEPT ![i] = c] : i \in DOMAIN text, c \in bytes}
    \cup {RemoveAt(text, i) : i \in DOMAIN text}
    \cup {SubSeq(text, 1, i) : i \in 0 .. Len(text)}

Short == Obj(<<Model, System(Security)>>)
\* /system with several blocks: corrected before, repeated, misplaced.
Systems(texts) == Mem(<<"s">>, Arr([i \in DOMAIN texts |-> Obj(<<Mem(<<"x">>, Q(texts[i]))>>)]))
Corrected == <<"C", "\\", "n">> \o Security
Systemses ==
    {<<Security, <<"a">>>>, <<Security, Security>>, <<Security, <<"K">>>>, <<Corrected>>,
     <<Corrected, <<"K">>>>, <<<<"S", "M">>, Security>>, <<<<"S", "M">>, <<"K">>, Corrected>>,
     <<Security, <<"\\", "u", "A">>>>}
Punctuation == {"\"", "\\", "{", "}", "[", "]", ",", ":", " ", "NL", "0", "-", "e", "u", "X1", "A"}
Mixed == Obj(<<Model, Disabled, Mem(<<"n">>, Arr(<<<<"-", "1", ".", "0", "e", "1">>, Words.t>>))>>)
Escaped == Obj(<<Mem(<<"\\", "u", "0">>, Obj(<<Mem(<<"y">>, Q(<<"D">>))>>)),
                 Mem(<<"m">>, Q(<<"X1", "X2", "\\", "u", "A", "\\", "u", "B">>))>>)
Nested == Obj(<<Mem(<<"s">>, Arr(<<Obj(<<>>), Obj(<<Mem(<<"x">>, Q(<<"a">>)), Mem(<<"x">>, Q(<<>>))>>), <<"1">>>>)),
                Mem(<<"t", "t", "t", "t">>, Arr(<<>>)), Model>>)
MCClassifierTexts == Orders(<<Model, Disabled, System(Security)>>)
MCTexts == Slips(Mixed, Punctuation) \cup Slips(Escaped, {"\\", "X2", "B", "1"}) \cup {Nested}
           \cup Orders(<<Model, Disabled, System(Security), User(Inner)>>)
           \cup Orders(<<Model, System(Security), Stops>>)
           \cup {Obj(<<Model, System(Security), User(inner)>>) :
                    inner \in Slips(Inner, {"\\", "{", ",", " ", "1", "X1"}) \cup Slips(InnerOther, {"n", "j", "1", "]"})}
           \cup {Obj(<<Model, System(Security), Mem(<<"d">>, Obj(<<>>))>>)}
           \cup {Obj(<<Model, Systems(texts)>>) : texts \in Systemses}
           \cup Slips(Short, {"\\", "u", "1", "]", "NL"})
Symmetry == Permutations(AliasKeys)
MCLaterTexts == {Short}

Block(kind, members) == Obj(<<Mem(<<"y">>, Q(kind))>> \o members)
Says(text) == Block(<<"T">>, <<Mem(<<"x">>, Q(text))>>)
Thought == Block(<<"H">>, <<>>)
Answer(blocks, rest) == Obj(<<Mem(<<"y">>, Q(<<"G">>)), Mem(<<"c">>, Arr(blocks))>> \o rest)
MCResponseTexts ==
    {Answer(<<Thought, Says(<<"c", "a", "b">>)>>, <<>>),
     Answer(<<Says(<<"c">>), Thought, Says(<<"a", "a", "b", "c">>), Says(<<"b">>)>>, <<Mem(<<"r">>, Words.n)>>),
     Answer(<<Thought, Thought>>, <<>>),
     Answer(<<Says(<<"\\", "n", "b">>), Thought>>, <<Mem(<<"q">>, Words.n), Mem(<<"r">>, Q(<<"e">>))>>),
     Answer(<<Says(<<"c">>)>>, <<>>)}
=============================================================================
