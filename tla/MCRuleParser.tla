---------------------------- MODULE MCRuleParser ----------------------------
(* A configuration of one or two directives over a handful of argument    *)
(* strings: inputs with and without selectors, operators with '!', args   *)
(* and trailing blanks, known and unknown operators, and the modifiers of  *)
(* each kind, well formed or not.                                          *)
EXTENDS RuleParser

MCOperatorNames == {"rx"}
MCActionNames == {"block"}
MCBadScripts == {<<"bad">>}
MCMaxRules == 2

\* Inputs strings: one selector, two, only separators, only blanks.
Inputs == {<<"ARGS">>, <<" ", "ARGS", ",", "HDR">>, <<"|">>, <<" ">>}

\* Operator strings: plain, inverted with args and trailing blanks, no '@',
\* an operator the registry does not know.
Ops == {<<"@", "rx">>, <<"!", " ", "@", "rx", " ", " ", "foo", " ">>,
        <<"rx">>, <<"@", "eq">>}

\* Modifiers: ids, an id with a blank value, phases, chain, actions.
Mods == {<<"id", ":", "1">>, <<"id", ":", "2">>, <<"id", ":", " ">>,
         <<"phase", ":", "REQUEST">>, <<"phase", ":", "bogus">>,
         <<"chain">>, <<"!", "block">>, <<"block", ":", "x">>, <<"log">>}

MCRuleArgs ==
  {<<i, o>> \o ms : i \in Inputs, o \in Ops, ms \in SeqOf(Mods, 1)}
  \cup {<<>>, <<<<"ARGS">>>>}

\* Script uris: two scripts, one that fails to load, another scheme.
Uris == {<<"lua:", "a">>, <<"lua:", "b">>, <<"lua:", "bad">>,
         <<"perl:", "a">>}

MCRuleExtArgs == {<<u>> \o ms : u \in Uris, ms \in SeqOf(Mods, 2)}

==============================================================================
