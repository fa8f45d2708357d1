------------------------------ MODULE RuleParser ------------------------------
(***************************************************************************)
(* The Rule and RuleExt directive handlers of src/modules/rules.c and the  *)
(* registries they fill: the per-phase rule lists, the operator registry   *)
(* and the functions loaded into the process-wide Lua state.               *)
(*                                                                         *)
(* A directive argument is a sequence of symbols: a punctuation character  *)
(* the parser looks at (" ", "|", ",", "!", "@", ":") or a word, a run of  *)
(* name characters the parser only compares as a whole (strcasecmp,        *)
(* strncasecmp on "lua:").  Words are compared case-sensitively here.      *)
(***************************************************************************)
EXTENDS Integers, Sequences, SequencesExt, FiniteSets, TLC

CONSTANTS
  OperatorNames,  \* words the operator registry knows before any RuleExt
  ActionNames,    \* words the action registry knows
  BadScripts,     \* script paths ib_lua_load_func fails to load
  NoId,           \* ib_rule_id of a rule no id modifier named (NULL)
  MaxRules,       \* bound on the rules registered
  RuleArgs,       \* argument lists a Rule directive may carry
  RuleExtArgs     \* argument lists a RuleExt directive may carry

VARIABLES
  phaseRules,     \* the engine's rule list of each phase, in register order
  operators,      \* names in the operator registry
  scripts,        \* Lua globals: function name -> the script loaded under it
  status          \* what the last directive handler returned

vars == <<phaseRules, operators, scripts, status>>

\* rule_defs.h lines 44-53 (PHASE_INVALID only ends lists) and 63-66.
Phases == {"NONE", "REQUEST_HEADER", "REQUEST_BODY", "RESPONSE_HEADER",
           "RESPONSE_BODY", "POSTPROCESS"}
Flags == {"EXTERNAL", "CHAIN", "CHAINED_TO"}

-----------------------------------------------------------------------------
(* String handling of the parser.                                          *)

\* while (isspace(*s)) ++s
SkipSpace(s) ==
  LET i == SelectInSeq(s, LAMBDA c : c # " ")
  IN IF i = 0 THEN <<>> ELSE SubSeq(s, i, Len(s))

\* Lines 157-165: trailing ' ' are cut, never the first character.
TrimTrailing(s) ==
  LET j == SelectLastInSeq(s, LAMBDA c : c # " ")
  IN IF s = <<>> THEN s ELSE SubSeq(s, 1, IF j = 0 THEN 1 ELSE j)

\* strtok(copy, delims) repeated until NULL: the maximal non-empty runs
\* without a delimiter, in order.
RECURSIVE StrTok(_, _)
StrTok(s, delims) ==
  LET t == LET i == SelectInSeq(s, LAMBDA c : c \notin delims)
           IN IF i = 0 THEN <<>> ELSE SubSeq(s, i, Len(s))
      e == SelectInSeq(t, LAMBDA c : c \in delims)
  IN CASE t = <<>> -> <<>>
       [] e = 0    -> <<t>>
       [] OTHER    -> <<SubSeq(t, 1, e - 1)>>
                        \o StrTok(SubSeq(t, e + 1, Len(t)), delims)

\* parse_inputs (lines 210-247), up to ib_rule_add_input.
ParseInputs(str) ==
  LET t == SkipSpace(str)
  IN IF t = <<>> THEN [rc |-> "EINVAL", inputs |-> <<>>]
     ELSE [rc |-> "OK", inputs |-> StrTok(t, {"|", ","})]

\* Lines 114-127: the scan for a leading '!' and the '@'.  at is the index
\* of the '@', 0 if there is none, -1 on any other non-blank character.
RECURSIVE ScanOperator(_, _, _)
ScanOperator(s, i, bang) ==
  CASE i > Len(s)             -> [at |-> 0, invert |-> bang]
    [] ~bang /\ s[i] = "!"    -> ScanOperator(s, i + 1, TRUE)
    [] s[i] = "@"             -> [at |-> i, invert |-> bang]
    [] s[i] # " "             -> [at |-> -1, invert |-> bang]
    [] OTHER                  -> ScanOperator(s, i + 1, bang)

\* Mutant: the trailing blanks of the args are kept.
ParseOperatorNoTrim(str) ==
  LET sc   == ScanOperator(str, 1, FALSE)
      copy == SubSeq(str, sc.at + 1, Len(str))
      sp   == SelectInSeq(copy, LAMBDA c : c = " ")
  IN IF sc.at <= 0 \/ copy = <<>>
     THEN [rc |-> "EINVAL", invert |-> FALSE, op |-> <<>>, args |-> <<>>]
     ELSE [rc |-> "OK", invert |-> sc.invert,
           op |-> IF sp = 0 THEN copy ELSE SubSeq(copy, 1, sp - 1),
           args |-> IF sp = 0 THEN <<>> ELSE SkipSpace(SubSeq(copy, sp, Len(copy)))]

\* parse_operator (lines 97-194) up to ib_operator_inst_create: the name is
\* cut at the first ' ', the args are the rest without leading and
\* trailing spaces, <<>> standing for NULL.
ParseOperator(str) ==
  LET sc   == ScanOperator(str, 1, FALSE)
      copy == SubSeq(str, sc.at + 1, Len(str))
      sp   == SelectInSeq(copy, LAMBDA c : c = " ")
  IN IF sc.at <= 0 \/ copy = <<>>
     THEN [rc |-> "EINVAL", invert |-> FALSE, op |-> <<>>, args |-> <<>>]
     ELSE [rc |-> "OK", invert |-> sc.invert,
           op |-> IF sp = 0 THEN copy ELSE SubSeq(copy, 1, sp - 1),
           args |-> IF sp = 0 THEN <<>>
                    ELSE TrimTrailing(SkipSpace(SubSeq(copy, sp, Len(copy))))]

\* The phase tags of parse_modifier (lines 305-331).
PhaseTag ==
  (<<"REQUEST_HEADER">> :> "REQUEST_HEADER") @@ (<<"REQUEST">> :> "REQUEST_BODY")
  @@ (<<"RESPONSE_HEADER">> :> "RESPONSE_HEADER")
  @@ (<<"RESPONSE">> :> "RESPONSE_BODY") @@ (<<"POSTPROCESS">> :> "POSTPROCESS")
  @@ (<<"NONE">> :> "NONE")

-----------------------------------------------------------------------------
(* The rule under construction (ib_rule_create and its setters; engine    *)
(* code, from spec section 4.2) and the directive handlers.              *)

NewRule(flags) ==
  [id |-> NoId, phase |-> "NONE", flags |-> flags, inputs |-> <<>>,
   op |-> <<>>, args |-> <<>>, invert |-> FALSE, data |-> NoId,
   onTrue |-> <<>>, onFalse |-> <<>>]

Ok(r) == [rc |-> "OK", rule |-> r]
Fail(r) == [rc |-> "EINVAL", rule |-> r]

\* parse_modifier (lines 263-368) on rule r, whose phase field stands for
\* the caller's phase variable.  The value is split off at the first ':'
\* only when a character follows it; an action that ib_action_inst_create
\* does not know is "Unknown modifier".
ParseModifier(r, m) ==
  LET c     == SelectInSeq(m, LAMBDA x : x = ":")
      split == c > 0 /\ c < Len(m)
      name  == IF split THEN SubSeq(m, 1, c - 1) ELSE m
      value == IF split THEN SkipSpace(SubSeq(m, c + 1, Len(m))) ELSE <<>>
      neg   == name # <<>> /\ Head(name) = "!"
      act   == IF neg THEN Tail(name) ELSE name
      inst  == [name |-> act, param |-> value]
  IN CASE name = <<"id">> ->
            IF value = <<>> THEN Fail(r) ELSE Ok([r EXCEPT !.id = value])
       [] name = <<"phase">> ->
            IF value \in DOMAIN PhaseTag
            THEN Ok([r EXCEPT !.phase = PhaseTag[value]]) ELSE Fail(r)
       [] name = <<"chain">> -> Ok([r EXCEPT !.flags = @ \cup {"CHAIN"}])
       [] Len(act) = 1 /\ act[1] \in ActionNames ->
            IF neg THEN Ok([r EXCEPT !.onFalse = Append(@, inst)])
            ELSE Ok([r EXCEPT !.onTrue = Append(@, inst)])
       [] OTHER -> Fail(r)

\* The modifier loops of lines 549-560 and 699-709: stop at the first error.
RECURSIVE ParseModifiers(_, _)
ParseModifiers(r, ms) ==
  IF ms = <<>> THEN Ok(r)
  ELSE LET x == ParseModifier(r, Head(ms))
       IN IF x.rc # "OK" THEN x ELSE ParseModifiers(x.rule, Tail(ms))

\* rules_rule_params (lines 645-710) up to ib_rule_register: inputs, then
\* the operator, which ib_operator_inst_create must know, then modifiers.
RuleParams(args) ==
  LET in  == ParseInputs(args[1])
      op  == ParseOperator(args[2])
      r   == [NewRule({}) EXCEPT !.inputs = in.inputs, !.op = op.op,
                                 !.args = op.args, !.invert = op.invert]
  IN IF Len(args) < 2 \/ in.rc # "OK" \/ op.rc # "OK"
        \/ op.op \notin operators
     THEN Fail(NewRule({}))
     ELSE ParseModifiers(r, SubSeq(args, 3, Len(args)))

\* ib_lua_load_func (not in src/; spec section 4.5): a script that loads
\* is bound to the name; a NULL name is undefined behaviour: either.
LoadOutcomes(path, name) ==
  CASE path \in BadScripts -> {"EINVAL"}
    [] name = NoId        -> {"OK", "EINVAL"}
    [] OTHER              -> {"OK"}

\* Mutant: the operator's data is the rule itself, not its id (both are
\* void * to the compiler).
RuleExtParamsRuleAsData(args, load) ==
  LET file == args[1]
      m    == ParseModifiers(NewRule({"EXTERNAL"}), Tail(args))
      r    == [m.rule EXCEPT !.op = file, !.data = m.rule]
  IN CASE m.rc # "OK"                       -> m
       [] file = <<>> \/ Head(file) # "lua:" -> Fail(m.rule)
       [] load # "OK"                       -> Fail(m.rule)
       [] OTHER                             -> Ok(r)

\* rules_ruleext_params (lines 514-619) up to ib_rule_register: the rule is
\* external; after the modifiers a "lua:" script is loaded under the rule's
\* id, an operator named by the whole uri is registered (idempotently) and
\* instantiated with the id as its data.
RuleExtParams(args, load) ==
  LET file == args[1]
      m    == ParseModifiers(NewRule({"EXTERNAL"}), Tail(args))
      r    == [m.rule EXCEPT !.op = file, !.data = m.rule.id]
  IN CASE m.rc # "OK"                       -> m
       [] file = <<>> \/ Head(file) # "lua:" -> Fail(m.rule)
       [] load # "OK"                       -> Fail(m.rule)
       [] OTHER                             -> Ok(r)

\* ib_rule_register (engine code, spec section 4.4): append to the phase's list.
Register(r) == phaseRules' = [phaseRules EXCEPT ![r.phase] = Append(@, r)]

Rules == UNION {{<<p, i>> : i \in 1..Len(phaseRules[p])} : p \in Phases}
RuleAt(k) == phaseRules[k[1]][k[2]]

Init ==
  /\ phaseRules = [p \in Phases |-> <<>>]
  /\ operators = {<<w>> : w \in OperatorNames}
  /\ scripts = <<>>
  /\ status = "OK"

\* A Rule directive: rules_rule_params, registering the rule if it parsed.
Rule(args) ==
  LET res == RuleParams(args) IN
  /\ Cardinality(Rules) < MaxRules
  /\ status' = res.rc
  /\ IF res.rc = "OK" THEN Register(res.rule) ELSE UNCHANGED phaseRules
  /\ UNCHANGED <<operators, scripts>>

\* A RuleExt directive: rules_ruleext_params.  The script is bound under
\* the id as soon as ib_lua_load_func succeeds, before the operator and the
\* rule are registered.
RuleExt(args) ==
  LET m    == ParseModifiers(NewRule({"EXTERNAL"}), Tail(args))
      path == Tail(args[1])
  IN
  /\ Cardinality(Rules) < MaxRules
  /\ \E load \in LoadOutcomes(path, m.rule.id) :
       LET res == RuleExtParams(args, load) IN
       /\ status' = res.rc
       /\ scripts' = IF m.rc = "OK" /\ Head(args[1]) = "lua:" /\ load = "OK"
                     THEN (m.rule.id :> path) @@ scripts
                     ELSE scripts
       /\ IF res.rc = "OK"
          THEN /\ operators' = operators \cup {args[1]}
               /\ Register(res.rule)
          ELSE UNCHANGED <<operators, phaseRules>>

\* The directive map (lines 723-739): the configuration is a sequence of
\* Rule and RuleExt directives.
Next ==
  \/ \E a \in RuleArgs : Rule(a)
  \/ \E a \in RuleExtArgs : RuleExt(a)

Spec == Init /\ [][Next]_vars

-----------------------------------------------------------------------------
(* Properties.                                                             *)

\* The symbols the directives are written in, and the strings of them no
\* longer than the longest argument.
Symbol == UNION {UNION {ToSet(w) : w \in ToSet(x)} : x \in RuleArgs \cup RuleExtArgs}
MaxText == Max({Len(w) : w \in UNION {ToSet(x) : x \in RuleArgs \cup RuleExtArgs}})
Text(x) == \E n \in 0..MaxText : x \in [1..n -> Symbol]

TypeOK ==
  /\ DOMAIN phaseRules = Phases
  /\ \A k \in Rules :
       LET r == RuleAt(k) IN
       /\ r.phase = k[1]
       /\ r.flags \subseteq Flags
       /\ r.id = NoId \/ Text(r.id)
       /\ r.data = NoId \/ Text(r.data)
       /\ Text(r.op) /\ Text(r.args) /\ r.invert \in BOOLEAN
       /\ \A i \in DOMAIN r.inputs : Text(r.inputs[i])
       /\ \A a \in ToSet(r.onTrue) \cup ToSet(r.onFalse) :
            a.name \in {<<n>> : n \in ActionNames} /\ Text(a.param)
  /\ operators \subseteq {<<w>> : w \in OperatorNames} \cup
                         {x[1] : x \in RuleExtArgs}
  /\ \A n \in DOMAIN scripts : Text(scripts[n])
  /\ status \in {"OK", "EINVAL"}

\* The operator string of spec section 4.3: blanks with at most one '!'
\* before the first '@', a non-empty rest, the name up to the first space
\* and the tail after it with its blanks stripped, absent when empty.
OperatorSyntax(s) ==
  LET k    == SelectInSeq(s, LAMBDA c : c = "@")
      lead == SelectSeq(SubSeq(s, 1, k - 1), LAMBDA c : c # " ")
      rest == SubSeq(s, k + 1, Len(s))
      sp   == SelectInSeq(rest, LAMBDA c : c = " ")
      tail == IF sp = 0 THEN <<>> ELSE SubSeq(rest, sp + 1, Len(rest))
      body == {i \in 1..Len(tail) : tail[i] # " "}
  IN IF k = 0 \/ lead \notin {<<>>, <<"!">>} \/ rest = <<>>
     THEN [rc |-> "EINVAL", invert |-> FALSE, op |-> <<>>, args |-> <<>>]
     ELSE [rc |-> "OK", invert |-> lead = <<"!">>,
           op |-> IF sp = 0 THEN rest ELSE SubSeq(rest, 1, sp - 1),
           args |-> IF body = {} THEN <<>>
                    ELSE SubSeq(tail, Min(body), Max(body))]

\* Every registered rule is valid by spec sections 3 and 7.  A rule that
\* is not external has at least one input selector (section 4.3: "one or
\* more selectors"); parse_inputs only rejects a string that is empty after
\* leading blanks.  An external rule calls a Lua function of its own: the
\* function has a name (section 7: a missing id on an external rule is
\* invalid) and is bound to the script the rule was declared with
\* (scenario S6).  rules_ruleext_params loads the script under
\* ib_rule_id(rule) whether or not an id modifier was given, and the name
\* is a Lua global that a later RuleExt with the same id rebinds.
RegisteredRulesValid ==
  \A k \in Rules :
    LET r == RuleAt(k) IN
    IF "EXTERNAL" \in r.flags
    THEN r.data # NoId /\ scripts[r.data] = Tail(r.op)
    ELSE r.inputs # <<>>

=============================================================================
