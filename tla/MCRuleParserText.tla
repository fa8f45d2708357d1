-------------------------- MODULE MCRuleParserText --------------------------
(* The directive configurations of MCRuleParser, and beside them, from the *)
(* same initial state, every operator string of up to TextLen symbols over *)
(* a blank, '!', '@' and a word: text grows by one symbol per step while   *)
(* no directive has run, and directives run only while text is empty.     *)
EXTENDS MCRuleParser

CONSTANTS TextLen

VARIABLE text

TextInit == Init /\ text = <<>>

\* The next operator string: one more symbol.
TextStep ==
  /\ Init
  /\ Len(text) < TextLen
  /\ \E c \in {" ", "!", "@", "rx"} : text' = Append(text, c)
  /\ UNCHANGED vars

TextNext ==
  \/ TextStep
  \/ text = <<>> /\ Next /\ UNCHANGED text

TextSpec == TextInit /\ [][TextNext]_<<vars, text>>

\* parse_operator's character loop, strchr split and in-place trimming
\* (rules.c lines 114-164) accept exactly the operator strings of spec
\* section 4.3 and yield the same invert flag, name and args.
OperatorParseMatchesSyntax == ParseOperator(text) = OperatorSyntax(text)

==============================================================================
