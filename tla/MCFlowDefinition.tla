-------------------------- MODULE MCFlowDefinition --------------------------
(***************************************************************************)
(* Flow definitions over a small catalogue: base steps a, b and c, branch  *)
(* steps x and y, forms at a and b, two keys a page. One family varies the *)
(* transitions, one the fields of step b, and in the last field q of step  *)
(* b may look at a field p that is not always there. Some conditions mean  *)
(* one thing to the server and another to the form.                        *)
(***************************************************************************)
EXTENDS FlowAnswers

StepIds == {"a", "b", "c", "x", "y"}
Keys == {"p", "q"}
Values == {0, 1}

Compared(op, step, key, values) == [op |-> op, step |-> step, key |-> key, values |-> values]
Parsed(anyOf) == [parses |-> TRUE, anyOf |-> anyOf]
Unparsed == [parses |-> FALSE, anyOf |-> {}]
Twofold(op, step, key, values, client) ==
  [op |-> op, step |-> step, key |-> key, values |-> values, client |-> client]

Expr(op, step, key, values) ==
  Twofold(op, step, key, values, Parsed({{Compared(op, step, key, values)}}))
Always == Twofold("", NoStep, "p", {}, Unparsed)
Bad(step) == Twofold("bad", step, "p", {}, Unparsed)

\* p == 1 where p is sent as a text; p=='1' without spaces; p == '1' && q == '1',
\* to the server a comparison of p with the text 1' && q == '1.
OwnIs(key, value) == Compared("in", OwnPage, key, {value})
Numeral == Twofold("in", OwnPage, "p", {1}, Parsed({{Compared("in", OwnPage, "p", {})}}))
Unspaced == Twofold("bad", OwnPage, "p", {}, Parsed({{OwnIs("p", 1)}}))
Both == Twofold("in", OwnPage, "p", {}, Parsed({{OwnIs("p", 1), OwnIs("q", 1)}}))

Exprs ==
  {Always, Bad("a"), Bad(OwnPage), Expr("in", OwnPage, "p", {1}),
   Expr("in", "a", "p", {1}), Expr("not in", "a", "p", {0}), Numeral, Unspaced, Both}

Plain(key) ==
  [key |-> key, required |-> FALSE, required_when |-> Always, visible_when |-> Always, allowed |-> Values]
Fields == [key : {"q"}, required : BOOLEAN, required_when : Exprs, visible_when : Exprs, allowed : {{1}}]

Sometimes == [Plain("p") EXCEPT !.visible_when = Expr("in", "a", "p", {1})]

WithFields(b) ==
  [s \in StepIds |-> CASE s = "a" -> {Plain("p")} [] s = "b" -> b [] OTHER -> {}]

Transitions ==
  {t \in [from : {"a"}, when : {Expr("in", OwnPage, "p", {1}), Expr("not in", "b", "p", {0})},
          insert : {<<"x">>, <<"x", "y">>},
          before : {NoStep, "a", "c", "y"}, after : {NoStep, "b", "x"}] :
     t.before = NoStep \/ t.after \in {NoStep, "b"}}

Definition(fields, transitions) ==
  [steps |-> <<"a", "x", "b", "y", "c">>,
   type |-> [s \in StepIds |-> IF s \in {"a", "b"} THEN "form" ELSE "pin"],
   fields |-> fields, transitions |-> transitions]

Definitions ==
  {Definition(WithFields({Plain("p")}), ts) :
     ts \in {<<t>> : t \in Transitions} \cup {<<t, u>> : t \in Transitions, u \in Transitions}}
  \cup {Definition(WithFields({p, f}), <<>>) : p \in {Plain("p"), Sometimes}, f \in Fields}
=============================================================================
