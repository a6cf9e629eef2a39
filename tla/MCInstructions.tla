--------------------------- MODULE MCInstructions ---------------------------
(***************************************************************************)
(* Three tokens, one that never expires; their records in every order of   *)
(* the lines, from 0 and from 1, among other lines; an unsigned one, one   *)
(* with a part missing, one with a part twice, an empty one.               *)
(***************************************************************************)
EXTENDS Instructions, TLC

Short == <<"h", "i">>
Long == <<"h", "j", "k">>
Forever == <<"f">>

MCSigned ==
    Short :> [endpoint |-> "east", exp |-> 2] @@
    Long :> [endpoint |-> "west", exp |-> 3] @@
    Forever :> [endpoint |-> "south", exp |-> 0]

Line(k, v) == [key |-> k, chunk |-> v]
Lines(text, base) == {Line(IndexString(i - 1 + base), text[i]) : i \in DOMAIN text}

MCRecord ==
    SetToSeqs(Lines(Short, 0) \cup {Line(<<1>>, "z")})
    \cup SetToSeqs(Lines(Short, 1) \cup {Line(Malformed, "z")})
    \cup SetToSeqs(Lines(Long, 0)) \cup SetToSeqs(Lines(Long, 1))
    \cup {<<Line(<<0, 0>>, "f")>>, <<Line(<<0, 1>>, "f")>>,
          <<Line(<<0, 1>>, "x"), Line(<<0, 2>>, "y")>>,
          <<Line(<<0, 1>>, "h"), Line(<<0, 3>>, "i")>>,
          <<Line(<<0, 1>>, "z"), Line(<<0, 2>>, "i"), Line(<<0, 1>>, "h")>>, <<>>}
=============================================================================
