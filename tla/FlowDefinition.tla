--------------------------- MODULE FlowDefinition ---------------------------
(***************************************************************************)
(* Package flowdef: a versioned flow definition and the pure logic over    *)
(* it. A definition lists its steps (branch-only ones included) and the    *)
(* transitions that splice steps into the order when a condition on the    *)
(* answers holds; a form step's fields are shown and required under        *)
(* conditions on their own page or on other steps' answers.                *)
(*                                                                         *)
(*   definition  [steps: Seq(StepId), type: [StepId -> type],              *)
(*                fields: [StepId -> SUBSET field], transitions: Seq(...)] *)
(*   field       [key, required, required_when, visible_when, allowed]     *)
(*   transition  [from, when, insert: Seq(StepId), before, after]          *)
(*   expression  [op, step, key, values, client]                           *)
(*                                                                         *)
(* Answers are all[step][key], Blank where nothing was answered (a missing *)
(* key or null; a text of only spaces, an answer to the form and none to   *)
(* the server, is left out). An expression is a text that two parsers read *)
(* with two notions of equality. As expr.go reads it, its op is "" for the *)
(* empty one, "in" for == and in, "not in" for !=, and "bad" for one Eval  *)
(* cannot parse; its step is OwnPage for a bare key, and its values are    *)
(* the answers looseEqual to a literal. As expr.js reads it, it is client: *)
(*                                                                         *)
(*   client      [parses, anyOf: SUBSET SUBSET comparison]                 *)
(*   comparison  [op, step, key, values]                                   *)
(*                                                                         *)
(* an || of && of comparisons, whose values are the answers === to a       *)
(* literal (expr.js can also compare two answers: left out). The rules and *)
(* option codes of a field are the set of values it allows.                *)
(***************************************************************************)
EXTENDS Naturals, Sequences, SequencesExt

CONSTANTS
  Blank,     \* no answer
  OwnPage,   \* the step of a bare key: the page being looked at
  NoStep     \* no step: an unset before or after

\* resolvePath: a bare key is looked up on the page, answers.<step>.<key> in all.
Left(expr, page, all) ==
  IF expr.step = OwnPage THEN page[expr.key] ELSE all[expr.step][expr.key]

\* FALSE for a bad expression, which the code reports as an error.
Eval(expr, page, all) ==
  \/ expr.op = ""
  \/ expr.op = "in" /\ Left(expr, page, all) \in expr.values
  \/ expr.op = "not in" /\ Left(expr, page, all) \notin expr.values

\* A bad visible_when fails open.
Visible(field, page, all) ==
  field.visible_when.op = "bad" \/ Eval(field.visible_when, page, all)

\* A bad required_when fails closed, and an empty one asks for nothing.
RequiredNow(field, page, all) ==
  \/ field.required
  \/ field.required_when.op # "" /\ Eval(field.required_when, page, all)

\* Mutant: an empty answer is not looked at.
ValidateField_SkipsEmpty(f, page, all) == page[f.key] # Blank => page[f.key] \in f.allowed

\* One field has what it needs: rules and option codes look at an answer only.
ValidateField(f, page, all) ==
  IF page[f.key] = Blank THEN ~RequiredNow(f, page, all) ELSE page[f.key] \in f.allowed

\* validateForm finds nothing to complain of on this page.
ValidateForm(d, step, page, all) ==
  \A f \in d.fields[step] : Visible(f, page, all) => ValidateField(f, page, all)

\* submitForm keeps the keys this version of the step has.
Kept(d, step, page) ==
  [key \in DOMAIN page |->
     IF \E f \in d.fields[step] : f.key = key THEN page[key] ELSE Blank]

\* Mutant: hidden fields are asked for.
Missing_HiddenToo(d, step, page, all) ==
  {f.key : f \in {g \in d.fields[step] : RequiredNow(g, page, all) /\ page[g.key] = Blank}}

\* The fields a collect_fields repair names, on the page as it was stored.
Missing(d, step, page, all) ==
  {f.key : f \in {g \in d.fields[step] :
      Visible(g, page, all) /\ RequiredNow(g, page, all) /\ page[g.key] = Blank}}

----------------------------------------------------------------------------
(* The order of the steps                                                  *)

\* The sequence without the elements of a set, as the loops of order.go leave
\* them out. A function rather than SelectSeq, which the prover cannot expand.
Without(seq, set) ==
  LET left[i \in 0..Len(seq)] ==
        IF i = 0 THEN <<>>
        ELSE IF seq[i] \in set THEN left[i - 1] ELSE Append(left[i - 1], seq[i])
  IN left[Len(seq)]

\* How much of the order comes before what is inserted: an anchor that is not
\* there, or none at all, puts it at the end.
Prefix(order, before, after) ==
  LET at == SelectInSeq(order, LAMBDA id : id = (IF before # NoStep THEN before ELSE after))
  IN IF at = 0 THEN Len(order) ELSE IF before # NoStep THEN at - 1 ELSE at

\* What is not in the order yet is put behind the first n of its steps.
InsertAfter(order, n, insert) ==
  SubSeq(order, 1, n) \o Without(insert, ToSet(order)) \o SubSeq(order, n + 1, Len(order))

\* Mutant: before means after.
SpliceIn_AfterAnchor(order, insert, before, after) ==
  InsertAfter(order, Prefix(order, NoStep, IF before # NoStep THEN before ELSE after), insert)

\* Steps that are already in the order stay where they are.
SpliceIn(order, insert, before, after) == InsertAfter(order, Prefix(order, before, after), insert)

Conditional(d) == UNION {ToSet(d.transitions[i].insert) : i \in DOMAIN d.transitions}

Base(d) == Without(d.steps, Conditional(d))

Taken(t, all) == Eval(t.when, all[t.from], all)

\* The default order, with the steps of every transition that is taken.
ResolveOrder(d, all) ==
  LET order[i \in 0..Len(d.transitions)] ==
        IF i = 0 THEN Base(d)
        ELSE LET t == d.transitions[i]
             IN IF Taken(t, all) THEN SpliceIn(order[i - 1], t.insert, t.before, t.after)
                ELSE order[i - 1]
  IN order[Len(d.transitions)]

----------------------------------------------------------------------------
(* The page as it is served and as the web form fills it in                *)

\* What is left of a condition the server has resolved.
Unconditional == [op |-> "", client |-> [parses |-> FALSE, anyOf |-> {}]]

CrossPage(expr) == expr.op # "" /\ expr.step # OwnPage

\* Mutant: conditions on other pages are sent to the client as they are.
ResolveField_SendsAll(f, step, all) ==
  [key |-> f.key, required |-> f.required,
   visible_when |-> f.visible_when, required_when |-> f.required_when]

\* Conditions on other pages are resolved; those on the page are sent along.
ResolveField(f, step, all) ==
  [key |-> f.key,
   required |-> f.required \/ (CrossPage(f.required_when) /\ RequiredNow(f, all[step], all)),
   visible_when |-> IF CrossPage(f.visible_when) THEN Unconditional ELSE f.visible_when,
   required_when |-> IF f.required \/ CrossPage(f.required_when) THEN Unconditional ELSE f.required_when]

\* resolveStepView: a field that another page's answers hide is not served.
Served(d, step, all) ==
  {f \in d.fields[step] : CrossPage(f.visible_when) => Visible(f, all[step], all)}

\* A dotted name is undefined to the client.
Holds(comparison, typed) ==
  LET left == IF comparison.step = OwnPage THEN typed[comparison.key] ELSE Blank
  IN IF comparison.op = "in" THEN left \in comparison.values ELSE left \notin comparison.values

\* evaluateExpr: an expression that is empty, or that it cannot parse, is what
\* the caller falls back to.
EvaluateExpr(expr, typed, fallback) ==
  IF expr.client.parses
    THEN \E clause \in expr.client.anyOf : \A comparison \in clause : Holds(comparison, typed)
    ELSE fallback

\* recomputeConditions, over everything typed so far: values of fields that are
\* hidden by now included.
ClientVisible(view, typed) == EvaluateExpr(view.visible_when, typed, TRUE)
ClientRequired(view, typed) == view.required \/ EvaluateExpr(view.required_when, typed, FALSE)

Shown(d, step, typed, all) ==
  {f \in Served(d, step, all) : ClientVisible(ResolveField(f, step, all), typed)}

\* The submit button's own check lets the page go.
ClientAccepts(d, step, typed, all) ==
  \A f \in Shown(d, step, typed, all) :
    ClientRequired(ResolveField(f, step, all), typed) => typed[f.key] # Blank

\* Only what is shown is sent.
Sent(d, step, typed, all) ==
  [key \in DOMAIN typed |->
     IF \E f \in Shown(d, step, typed, all) : f.key = key THEN typed[key] ELSE Blank]

----------------------------------------------------------------------------
(* What the order and the checks promise                                   *)

\* What the code takes for granted of a definition: steps are listed once, a
\* transition inserts steps of the catalogue, each once, and a page names its
\* own fields, and no other's, by their bare keys.
WellFormed(d) ==
  /\ d.steps \in Seq(DOMAIN d.fields \ {NoStep}) /\ IsInjective(d.steps)
  /\ d.transitions \in Seq(ToSet(d.transitions))
  /\ \A i \in DOMAIN d.transitions :
       /\ d.transitions[i].insert \in Seq(ToSet(d.steps))
       /\ IsInjective(d.transitions[i].insert)
  /\ \A step \in DOMAIN d.fields : \A f \in d.fields[step] :
       \A expr \in {f.visible_when, f.required_when} :
         /\ expr.step # step
         /\ expr.step = OwnPage => \E g \in d.fields[step] : g.key = expr.key
         /\ expr.op = "" => ~expr.client.parses

\* The two parsers make the same of an expression, and the two equalities
\* accept the same answers. No code checks it of a definition: `p == 1` has the
\* server accept the text 1 a select sends, and the form not; `p=='x'` is bad to
\* the server only; `p == 'x' && q == 'y'` is one comparison to it.
ReadAlike(expr) ==
  /\ expr.client.parses <=> expr.op \in {"in", "not in"}
  /\ expr.client.parses =>
       expr.client.anyOf = {{[op |-> expr.op, step |-> expr.step, key |-> expr.key, values |-> expr.values]}}

\* The conditions that the form evaluates for a field are read alike, and look
\* at fields that are always on the page: of a field that is hidden the form
\* reads the value it had, the server none. The seeded definitions are so.
SeenAlike(d, step, f) ==
  \A expr \in {f.visible_when, f.required_when} :
    \/ CrossPage(expr)
    \/ /\ ReadAlike(expr)
       /\ \A g \in d.fields[step] : expr.op # "" /\ expr.key = g.key => g.visible_when.op = ""

\* The server has nothing against field f that the user cannot see and change:
\* the field is shown, and a value was entered.
RefusalIsVisible(d, step, typed, all, f) ==
  LET page == Sent(d, step, typed, all)
  IN Visible(f, page, all) /\ ~ValidateField(f, page, all) =>
       f \in Shown(d, step, typed, all) /\ page[f.key] # Blank

(* A page that the form lets go is refused for something the user can see    *)
(* and change, and never for a field the form hides, or leaves blank as      *)
(* optional, as far as fields whose conditions both sides see alike are      *)
(* concerned, whatever the other fields are (resolve.go and form.js against  *)
(* validate.go).                                                             *)
RefusalsAreVisible(d, step, typed, all) ==
  ClientAccepts(d, step, typed, all) =>
    \A f \in d.fields[step] : SeenAlike(d, step, f) => RefusalIsVisible(d, step, typed, all, f)

TakenIn(d, all) == {i \in DOMAIN d.transitions : Taken(d.transitions[i], all)}
Inserted(d, i) == ToSet(d.transitions[i].insert)

\* The steps that transition i brings in: no transition taken before it has them.
New(d, all, i) == Inserted(d, i) \ UNION {Inserted(d, j) : j \in {k \in TakenIn(d, all) : k < i}}

\* Nothing but inserted steps between two places of an order.
OnlyInserted(d, order, m, n) == \A k \in m + 1..n - 1 : order[k] \in Conditional(d)

\* A step is on the side of the base step that its transition names, if it does.
InPlace(d, order, t, at) ==
  \A p \in DOMAIN order :
    order[p] \in ToSet(Base(d)) =>
      /\ order[p] = t.before => at < p /\ OnlyInserted(d, order, at, p)
      /\ order[p] = t.after /\ t.before = NoStep => p < at /\ OnlyInserted(d, order, p, at)

(* The order is the base steps as listed, with exactly the steps of the      *)
(* transitions taken, none twice; a step inserted next to a base step is on  *)
(* the side the transition says, with only inserted steps between them       *)
(* (order.go: "base order from Steps, with Transitions splicing in extra     *)
(* steps when their when expression holds").                                 *)
SoundOrder(d, all) ==
  LET order == ResolveOrder(d, all)
  IN /\ IsInjective(order)
     /\ ToSet(order) = ToSet(Base(d)) \cup UNION {Inserted(d, i) : i \in TakenIn(d, all)}
     /\ Without(order, Conditional(d)) = Base(d)
     /\ \A i \in TakenIn(d, all), at \in DOMAIN order :
          order[at] \in New(d, all, i) => InPlace(d, order, d.transitions[i], at)

=============================================================================
