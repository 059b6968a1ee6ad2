----------------------- MODULE MCExpressionEvaluator -----------------------
(* Every text of up to four tokens, and every formula of the grammar of up  *)
(* to three operators over small operands, bare or in parentheses.          *)
EXTENDS ExpressionEvaluator

MCVariables == {"x"}
MCReadings  == {-2, 0, 3}

Atoms == {<<Token("x")>>, <<Literal(2)>>}
ShortTexts == UNION {[1..n -> {Token(k) : k \in {"x", "+", "-", "^", "(", ")", "sqrt(", "abs("}}
                            \cup {Literal(2)}] : n \in 0..4}

InParentheses(S) == {<<Token("(")>> \o s \o <<Token(")")>> : s \in S}
Called(S)  == {<<Token(f)>> \o s \o <<Token(")")>> : f \in Calls, s \in S}
Joined(S, T) == {s \o <<Token(op)>> \o t : s \in S, op \in Operators, t \in T}

Simple   == Joined({<<Token("x")>>}, Atoms)
Operands == Atoms \cup Simple \cup InParentheses(Atoms \cup Simple) \cup Called(Atoms \cup Simple)

(* a power of a power, with another operator inside parentheses between     *)
Chained == Joined(Joined({<<Token("x")>>}, InParentheses(Simple) \cup Called(Simple)),
                  {<<Literal(2)>>})

MCFormulas == ShortTexts \cup Operands \cup Joined(Operands, Operands) \cup Chained
                \cup Called(Operands \cup Joined(Operands, Atoms))
============================================================================
