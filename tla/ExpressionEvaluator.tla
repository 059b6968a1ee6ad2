------------------------ MODULE ExpressionEvaluator ------------------------
(* The formula of a calculated value: pkg/config/formula_validation.go      *)
(* decides when the configuration is loaded whether it is one,              *)
(* pkg/modbus/expression_evaluator.go computes it at every poll from the    *)
(* values the cache holds, and strategy_calculated.go joins the two.        *)
(*                                                                          *)
(* A formula is a sequence of tokens, written with a space only where two   *)
(* words or numbers would otherwise run together; "sqrt(" and "abs(" are    *)
(* one token each, as the evaluator searches for that very text.  Numbers   *)
(* are integers: the quotient and the square root are rounded down, alike   *)
(* in the evaluator and in the reference grammar.                           *)
EXTENDS Integers, Sequences, SequencesExt, FiniteSetsExt

CONSTANTS
    Formulas,   \* the token sequences a configuration may hold
    Variables,  \* the register keys a formula may name
    Readings    \* the values a register may have

Operators == {"+", "-", "*", "/", "^"}
Calls     == {"sqrt(", "abs("}
Opening   == {"("} \cup Calls
Words     == Operators \cup Opening \cup {")", "num"}

(* kind "num" is a number of the formula, "dec" one printed with %f: it     *)
(* already has its decimal point; n is the value of either                  *)
Tokens == [kind : Words \cup {"dec", "malformed"} \cup Variables, n : Int]
Texts  == Seq(Tokens)

ASSUME FormulasAssumption ==
    /\ Variables \cap (Words \cup {"dec", "malformed"}) = {}
    /\ Formulas \subseteq Seq([kind : Words \cup Variables, n : Int])
    /\ Readings \subseteq Int

Token(kind)  == [kind |-> kind, n |-> 0]
Literal(n)   == [kind |-> "num", n |-> n]
Decimal(n)   == [kind |-> "dec", n |-> n]
IsNumber(t)  == t.kind \in {"num", "dec"}
Kinds(s)     == {s[i].kind : i \in DOMAIN s}
Part(s, a, b) == SubSeq(s, a, b)

(* how many of the parentheses opened in s[a..b] are not closed             *)
Depth(s, a, b) == Cardinality({i \in a..b : s[i].kind \in Opening})
                    - Cardinality({i \in a..b : s[i].kind = ")"})

VARIABLES formula, phase, values, answer

vars == <<formula, phase, values, answer>>

---------------------------------------------------------------------------
(* What both sides of the comparison take for granted: arithmetic.  Bound:  *)
(* a power with another exponent than 0, 1 or 2 is 0.                       *)
Fail == [ok |-> FALSE, n |-> 0]
Ok(n) == [ok |-> TRUE, n |-> n]

Power(a, b) == IF b = 0 THEN 1 ELSE IF b = 1 THEN a ELSE IF b = 2 THEN a * a ELSE 0
Quotient(a, b) == IF b > 0 THEN a \div b ELSE (-a) \div (-b)
Root(n)     == Max({k \in 0..n : k * k <= n})
Magnitude(n) == IF n < 0 THEN -n ELSE n

Apply(op, l, r) ==
    IF ~l.ok \/ ~r.ok \/ (op = "/" /\ r.n = 0) THEN Fail
    ELSE Ok(CASE op = "+" -> l.n + r.n
              [] op = "-" -> l.n - r.n
              [] op = "*" -> l.n * r.n
              [] op = "/" -> Quotient(l.n, r.n)
              [] op = "^" -> Power(l.n, r.n))

Call(f, arg) ==
    IF ~arg.ok \/ (f = "sqrt(" /\ arg.n < 0) THEN Fail
    ELSE Ok(IF f = "sqrt(" THEN Root(arg.n) ELSE Magnitude(arg.n))

---------------------------------------------------------------------------
(* ValidateFormula, and the variables it finds.                             *)
VariablesOf(s) == Kinds(s) \cap Variables

ValidateFormula(s) ==
    /\ s # <<>>
    /\ Depth(s, 1, Len(s)) = 0
    /\ \A i \in DOMAIN s : Depth(s, 1, i) >= 0
    /\ \A i \in 1..Len(s) - 1 :
          /\ ~(s[i].kind \in Variables /\ s[i + 1].kind = "(")
          /\ ~(s[i].kind \in Operators /\ s[i + 1].kind \in Operators)
    /\ VariablesOf(s) # {}

(* Evaluate writes each value into the text with %f: a negative one brings  *)
(* a minus sign of its own.                                                 *)
Written(n) == IF n < 0 THEN <<Token("-"), Decimal(-n)>> ELSE <<Decimal(n)>>

Substitute(s, vals) ==
    FlattenSeq([i \in DOMAIN s |->
        IF s[i].kind \in Variables THEN Written(vals[s[i].kind]) ELSE <<s[i]>>])

(* mutant: the first operator, not the last                                 *)
MutantFirstOperator(s, ops) ==
    LET found == {i \in DOMAIN s : s[i].kind \in ops /\ Depth(s, i + 1, Len(s)) = 0}
    IN  IF found = {} THEN 0 ELSE Min(found)

(* mutant: parentheses are not counted                                      *)
MutantDepth(s, ops) == Max({0} \cup {i \in DOMAIN s : s[i].kind \in ops})

(* findOperator: the last operator of ops outside parentheses, counting     *)
(* them from the right, or 0                                                *)
FindOperator(s, ops) ==
    Max({0} \cup {i \in DOMAIN s : s[i].kind \in ops /\ Depth(s, i + 1, Len(s)) = 0})

(* The call evaluateSqrt or evaluateAbs picks, f\(([^)]+)\): the leftmost   *)
(* one, and it ends at the first ")", whatever opens in between.            *)
FirstClose(s, i) == Min({Len(s) + 1} \cup {j \in i..Len(s) : s[j].kind = ")"})

Matches(s, f) == {i \in DOMAIN s : s[i].kind = f /\ FirstClose(s, i) \in i + 2 .. Len(s)}

(* Its value, printed with %f, takes its place in the text, and what stood  *)
(* beside the call now stands beside the digits.  Bound: the digits of a    *)
(* value of 1000 and more are counted as three.                             *)
Shifted(m, n) == m * (IF n < 10 THEN 10 ELSE IF n < 100 THEN 100 ELSE 1000) + n

InPlace(left, n, right) ==
    LET joined == left # <<>> /\ Last(left).kind = "num"
        broken == \/ left # <<>> /\ Last(left).kind = "dec"
                  \/ right # <<>> /\ Head(right).kind = "dec"
        number == IF joined THEN Shifted(Last(left).n, n) ELSE n
        rest   == IF right # <<>> /\ Head(right).kind = "num" THEN Tail(right) ELSE right
    IN  (IF joined THEN Front(left) ELSE left)
          \o <<IF broken THEN Token("malformed") ELSE Decimal(number)>> \o rest

Argument(s, f) == LET i == Min(Matches(s, f)) IN Part(s, i + 1, FirstClose(s, i) - 1)

Replace(s, f, n) ==
    LET i == Min(Matches(s, f))
    IN  InPlace(Part(s, 1, i - 1), n, Part(s, FirstClose(s, i) + 1, Len(s)))

(* evaluateSqrt and evaluateAbs, evaluating parts of the text with eval     *)
EvaluateCall(eval, s, f) ==
    IF Matches(s, f) = {} THEN Fail
    ELSE LET v == Call(f, eval[Argument(s, f)])
         IN  IF v.ok THEN eval[Replace(s, f, v.n)] ELSE Fail

Split(eval, s, i) == Apply(s[i].kind, eval[Part(s, 1, i - 1)], eval[Part(s, i + 1, Len(s))])

(* evaluateNumericExpression, in the order of its tests                     *)
EvaluateText(eval, s) ==
    IF "sqrt(" \in Kinds(s) THEN EvaluateCall(eval, s, "sqrt(")
    ELSE IF "abs(" \in Kinds(s) THEN EvaluateCall(eval, s, "abs(")
    ELSE IF s # <<>> /\ Head(s).kind = "(" /\ Last(s).kind = ")"
         THEN eval[Part(s, 2, Len(s) - 1)]
    ELSE IF FindOperator(s, {"+", "-"}) # 0 THEN Split(eval, s, FindOperator(s, {"+", "-"}))
    ELSE IF FindOperator(s, {"*", "/"}) # 0 THEN Split(eval, s, FindOperator(s, {"*", "/"}))
    ELSE IF FindOperator(s, {"^"}) # 0 THEN Split(eval, s, FindOperator(s, {"^"}))
    ELSE IF Len(s) = 1 /\ IsNumber(s[1]) THEN Ok(s[1].n) ELSE Fail

EvaluateNumericExpression[s \in Texts] == EvaluateText(EvaluateNumericExpression, s)

Evaluate(s, vals) == EvaluateNumericExpression[Substitute(s, vals)]

---------------------------------------------------------------------------
Init == /\ formula \in Formulas
        /\ phase = "loading"
        /\ values = [v \in Variables |-> 0]
        /\ answer = Fail

(* Device.Validate accepts the formula, or the bridge does not start        *)
Load == /\ phase = "loading"
        /\ phase' = IF ValidateFormula(formula) THEN "waiting" ELSE "refused"
        /\ UNCHANGED <<formula, values, answer>>

(* the registers are read and cached                                        *)
Read == /\ phase = "waiting"
        /\ values' \in [Variables -> Readings]
        /\ phase' = "cached"
        /\ UNCHANGED <<formula, answer>>

(* Execute of the calculated strategy                                       *)
Execute == /\ phase = "cached"
           /\ answer' = Evaluate(formula, values)
           /\ phase' = "answered"
           /\ UNCHANGED <<formula, values>>

Next == Load \/ Read \/ Execute

Spec == Init /\ [][Next]_vars

---------------------------------------------------------------------------
(* The reference: the usual grammar, parentheses matched, a variable one    *)
(* number whatever its sign, powers grouped to the right.  In a balanced    *)
(* text that is Enclosed the first token opens what the last one closes.    *)
Enclosed(s) == \A k \in 1..Len(s) - 1 : Depth(s, 1, k) > 0
Outside(s, ops) == {i \in DOMAIN s : s[i].kind \in ops /\ Depth(s, 1, i) = 0}

Parse(mean, s) ==
    LET inner == mean[Part(s, 2, Len(s) - 1)]
    IN  IF s = <<>> \/ Depth(s, 1, Len(s)) # 0 THEN Fail
        ELSE IF Outside(s, {"+", "-"}) # {} THEN Split(mean, s, Max(Outside(s, {"+", "-"})))
        ELSE IF Outside(s, {"*", "/"}) # {} THEN Split(mean, s, Max(Outside(s, {"*", "/"})))
        ELSE IF Outside(s, {"^"}) # {} THEN Split(mean, s, Min(Outside(s, {"^"})))
        ELSE IF Len(s) = 1 THEN IF IsNumber(s[1]) THEN Ok(s[1].n) ELSE Fail
        ELSE IF ~Enclosed(s) THEN Fail
        ELSE IF Head(s).kind = "(" THEN inner ELSE Call(Head(s).kind, inner)

Meaning[s \in Texts] == Parse(Meaning, s)

With(s, vals) ==
    [i \in DOMAIN s |-> IF s[i].kind \in Variables THEN Decimal(vals[s[i].kind]) ELSE s[i]]

MeaningOf(s, vals) == Meaning[With(s, vals)]

(* What the grammar and the evaluator read differently.                     *)
PowersChained == \E i, j \in DOMAIN formula :
                    /\ i < j /\ formula[i].kind = "^" /\ formula[j].kind = "^"
                    /\ Depth(formula, i, j) = 0
                    /\ \A k \in i..j :
                          \/ Depth(formula, i, k) > 0
                          \/ Depth(formula, i, k) = 0 /\ formula[k].kind \notin {"+", "-", "*", "/"}

OperatorMissing == \E i \in 1..Len(formula) - 1 :
                      /\ formula[i].kind \in Variables \cup {"num", ")"}
                      /\ formula[i + 1].kind \in Variables \cup {"num"} \cup Opening

NegativeReading == \E v \in VariablesOf(formula) : values[v] < 0

ParenthesesInCall == \E i, j \in DOMAIN formula :
                        /\ i < j
                        /\ formula[i].kind \in Calls /\ formula[j].kind \in Opening
                        /\ \A k \in i..j : Depth(formula, i, k) > 0
                        /\ ~(formula[i].kind = "abs(" /\ formula[j].kind = "sqrt(")

TwoPairs == \E i, j, k, l \in DOMAIN formula :
               /\ i < j /\ j < k /\ k < l
               /\ formula[i].kind = "(" /\ formula[j].kind = ")"
               /\ formula[k].kind = "(" /\ formula[l].kind = ")"

(* The number published for a formula the configuration was loaded with is  *)
(* the one the formula means: no mis-split, no wrong precedence, no         *)
(* leftover text.  The two exceptions: a chain of powers is grouped to the  *)
(* left, and where an operator is missing a number joins the digits of the  *)
(* call beside it ("2sqrt(x)"), or the sign of a negative value is taken    *)
(* for the operator ("2 x").                                                *)
AnswerIsRight ==
    phase = "answered" /\ answer.ok
      => answer = MeaningOf(formula, values) \/ PowersChained \/ OperatorMissing

(* A formula the configuration was loaded with and that has a value is      *)
(* answered, except in three cases, each of them a shape or a value that    *)
(* the documentation has examples of: a register that reads negative,       *)
(* parentheses inside a call, an expression that begins and ends with       *)
(* parentheses that are not each other's.  (A chain of powers, grouped      *)
(* otherwise, may also be a divisor that is zero on one side only.)         *)
FailsOnlyWhen ==
    phase = "answered" /\ ~answer.ok /\ MeaningOf(formula, values).ok
      => NegativeReading \/ ParenthesesInCall \/ TwoPairs \/ PowersChained
============================================================================
