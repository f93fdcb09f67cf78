---------------------------- MODULE MCModelNames ----------------------------
(* ModelNames over a list that holds, in some order, up to MaxListed of:   *)
(* two manufacturers' models of one name, the same in another letter case, *)
(* one without a manufacturer that thinks at no level of choice,           *)
(* OpenRouter's own, one with a nested path,                               *)
(* one whose alias is empty, one that writes no text, and a Nitro variant  *)
(* that OpenRouter lists itself.                                           *)
EXTENDS ModelNames

MCSegment == {"x", "X", "v1", "v2", "openrouter", ""}
MCLower == [s \in MCSegment |-> IF s = "X" THEN "x" ELSE s]
MCEffort == {"low", "high"}

Thinks(p, n, levels) ==
  [id |-> [path |-> p, nitro |-> n], text |-> TRUE, thinks |-> TRUE, levels |-> levels]
Plain(p, text) ==
  [id |-> [path |-> p, nitro |-> 0], text |-> text, thinks |-> FALSE, levels |-> {}]

MCListed ==
  { Thinks(<<"v1", "x">>, 0, {"low"}), Thinks(<<"v2", "x">>, 0, {"high"}),
    Thinks(<<"v1", "X">>, 0, {"low", "high"}), Thinks(<<"v2", "x">>, 1, {"high"}),
    Thinks(<<"x">>, 0, {}), Plain(<<"openrouter", "x">>, TRUE),
    Plain(<<"v1", "v2", "x">>, TRUE), Plain(<<"v1", "">>, TRUE),
    Plain(<<"v2", "X">>, FALSE) }

MCAsked ==
  [path : {<<"x">>, <<"X">>, <<"openrouter", "x">>, <<"v2", "x">>}, nitro : 0..2]
=============================================================================
