------------------------ MODULE FlowDefinition_proofs ------------------------
(***************************************************************************)
(* For every definition that names its steps, pages and fields as the code *)
(* expects, and all answers: what validateForm accepts, computeRepairs     *)
(* does not send back; what a form lets go is refused for nothing the user *)
(* cannot see; and the order ResolveOrder returns is sound. From these     *)
(* facts about one page or one order follow the properties of FlowAnswers. *)
(***************************************************************************)
EXTENDS FlowAnswers, SequenceTheorems, WellFoundedInduction, TLAPS

----------------------------------------------------------------------------
(* The pages *)

\* A page stored under its step: every condition of the step's fields reads
\* the same before and after.
LEMMA ConditionsReadTheSame ==
  ASSUME NEW d, NEW step, NEW all, NEW page, NEW expr,
         step \in DOMAIN all,
         expr.step # step,
         expr.step = OwnPage =>
           expr.key \in DOMAIN page /\ \E g \in d.fields[step] : g.key = expr.key
  PROVE  Left(expr, Kept(d, step, page), [all EXCEPT ![step] = Kept(d, step, page)])
           = Left(expr, page, all)
<1>1. CASE expr.step = OwnPage
  <2>1. Kept(d, step, page)[expr.key] = page[expr.key]
    BY <1>1 DEF Kept
  <2> QED
    BY <1>1, <2>1 DEF Left
<1>2. CASE expr.step # OwnPage
  <2>1. [all EXCEPT ![step] = Kept(d, step, page)][expr.step] = all[expr.step]
    OBVIOUS
  <2> QED
    BY <1>2, <2>1 DEF Left
<1> QED
  BY <1>1, <1>2

\* A page that validateForm accepts misses nothing once it is stored
\* (submit_handlers.go's check against reconcile.go's repair).
THEOREM AcceptedPageMissesNothing ==
  ASSUME NEW d, NEW step, NEW all, NEW page,
         WellFormed(d), step \in DOMAIN d.fields, step \in DOMAIN all,
         \A f \in d.fields[step] : f.key \in DOMAIN page,
         ValidateForm(d, step, page, all)
  PROVE  Missing(d, step, Kept(d, step, page), [all EXCEPT ![step] = Kept(d, step, page)]) = {}
<1> DEFINE kept == Kept(d, step, page)
           after == [all EXCEPT ![step] = kept]
<1>1. SUFFICES ASSUME NEW f \in d.fields[step],
                      Visible(f, kept, after), RequiredNow(f, kept, after), kept[f.key] = Blank
               PROVE  FALSE
  BY DEF Missing
<1>2. /\ f.visible_when.step # step /\ f.required_when.step # step
      /\ f.visible_when.step = OwnPage => \E g \in d.fields[step] : g.key = f.visible_when.key
      /\ f.required_when.step = OwnPage => \E g \in d.fields[step] : g.key = f.required_when.key
  BY DEF WellFormed
<1>3. Left(f.visible_when, kept, after) = Left(f.visible_when, page, all)
  BY <1>2, ConditionsReadTheSame
<1>4. Left(f.required_when, kept, after) = Left(f.required_when, page, all)
  BY <1>2, ConditionsReadTheSame
<1>5. Visible(f, page, all)
  BY <1>1, <1>3 DEF Visible, Eval
<1>6. RequiredNow(f, page, all)
  BY <1>1, <1>4 DEF RequiredNow, Eval
<1>7. page[f.key] = Blank
  BY <1>1 DEF Kept
<1> QED
  BY <1>5, <1>6, <1>7 DEF ValidateForm, ValidateField

\* What SeenAlike says of one of the field's conditions that is not another
\* page's.
LEMMA OwnConditions ==
  ASSUME NEW d, NEW step, NEW f, NEW expr \in {f.visible_when, f.required_when},
         SeenAlike(d, step, f), ~CrossPage(expr)
  PROVE  /\ ReadAlike(expr)
         /\ expr.op # "" => \A g \in d.fields[step] : expr.key = g.key => g.visible_when.op = ""
BY DEF SeenAlike

\* And what WellFormed says of it.
LEMMA ConditionsAreWellFormed ==
  ASSUME NEW d, NEW step \in DOMAIN d.fields, NEW f \in d.fields[step],
         NEW expr \in {f.visible_when, f.required_when}, WellFormed(d)
  PROVE  /\ expr.step = OwnPage => \E g \in d.fields[step] : g.key = expr.key
         /\ expr.op = "" => ~expr.client.parses
<1>1. \A e \in {f.visible_when, f.required_when} :
        /\ e.step # step
        /\ e.step = OwnPage => \E g \in d.fields[step] : g.key = e.key
        /\ e.op = "" => ~e.client.parses
  BY Zenon DEF WellFormed
<1> QED BY <1>1

\* The field that a condition of the page names is always shown.
LEMMA NamedFieldIsShown ==
  ASSUME NEW d, NEW step \in DOMAIN d.fields, NEW all, NEW typed,
         NEW f \in d.fields[step], NEW expr \in {f.visible_when, f.required_when},
         WellFormed(d), SeenAlike(d, step, f),
         expr.step = OwnPage, expr.op # ""
  PROVE  \E g \in d.fields[step] : g.key = expr.key /\ g \in Shown(d, step, typed, all)
<1>1. PICK g \in d.fields[step] : g.key = expr.key
  BY ConditionsAreWellFormed
<1>2. g.visible_when.op = ""
  <2>1. ~CrossPage(expr)
    BY DEF CrossPage
  <2>2. expr.op # "" => \A h \in d.fields[step] : expr.key = h.key => h.visible_when.op = ""
    BY <2>1, OwnConditions, Zenon
  <2> QED BY <1>1, <2>2
<1>3. g \in Served(d, step, all)
  BY <1>2 DEF Served, CrossPage
<1>4. ClientVisible(ResolveField(g, step, all), typed)
  <2>1. ~g.visible_when.client.parses
    BY <1>2, ConditionsAreWellFormed
  <2> QED BY <1>2, <2>1 DEF ClientVisible, ResolveField, EvaluateExpr, CrossPage
<1> QED
  BY <1>1, <1>3, <1>4 DEF Shown

\* A comparison of a field that is shown comes out alike, for the form on what
\* is typed and for the server on what is sent, if both parsers read it alike.
LEMMA BothSidesAgree ==
  ASSUME NEW d, NEW step \in DOMAIN d.fields, NEW all, NEW typed, NEW expr,
         ReadAlike(expr), expr.step = OwnPage, expr.op \in {"in", "not in"},
         NEW g \in Shown(d, step, typed, all), g.key = expr.key, g.key \in DOMAIN typed,
         NEW fallback \in BOOLEAN
  PROVE  EvaluateExpr(expr, typed, fallback) <=> Eval(expr, Sent(d, step, typed, all), all)
<1>1. Left(expr, Sent(d, step, typed, all), all) = typed[expr.key]
  BY DEF Sent, Left
<1> DEFINE comparison == [op |-> expr.op, step |-> expr.step, key |-> expr.key, values |-> expr.values]
<1>2. EvaluateExpr(expr, typed, fallback) <=> Holds(comparison, typed)
  <2>1. expr.client.parses /\ expr.client.anyOf = {{comparison}}
    BY DEF ReadAlike
  <2> HIDE DEF comparison
  <2>2. EvaluateExpr(expr, typed, fallback)
          <=> \E clause \in {{comparison}} : \A c \in clause : Holds(c, typed)
    BY <2>1, Zenon DEF EvaluateExpr
  <2> QED BY <2>2, Zenon
<1>3. Holds(comparison, typed) <=>
        IF expr.op = "in" THEN typed[expr.key] \in expr.values ELSE typed[expr.key] \notin expr.values
  BY DEF Holds
<1> QED
  BY <1>1, <1>2, <1>3 DEF Eval

\* What the server finds visible on the page that was sent, the form showed.
LEMMA VisibleIsShown ==
  ASSUME NEW d, NEW step \in DOMAIN d.fields, NEW all, NEW typed,
         NEW f \in d.fields[step],
         WellFormed(d), SeenAlike(d, step, f),
         \A g \in d.fields[step] : g.key \in DOMAIN typed,
         Visible(f, Sent(d, step, typed, all), all)
  PROVE  f \in Shown(d, step, typed, all)
<1> DEFINE page == Sent(d, step, typed, all)
           view == ResolveField(f, step, all)
<1>1. CASE CrossPage(f.visible_when)
  <2>1. Left(f.visible_when, page, all) = Left(f.visible_when, all[step], all)
    BY <1>1 DEF CrossPage, Left
  <2>2. Visible(f, all[step], all)
    BY <2>1 DEF Visible, Eval
  <2>3. ~view.visible_when.client.parses
    BY <1>1 DEF ResolveField, Unconditional
  <2>4. ClientVisible(view, typed)
    BY <2>3 DEF ClientVisible, EvaluateExpr
  <2> QED
    BY <2>2, <2>4 DEF Shown, Served
<1>2. CASE ~CrossPage(f.visible_when)
  <2>1. view.visible_when = f.visible_when
    BY <1>2 DEF ResolveField
  <2>2. ReadAlike(f.visible_when)
    BY <1>2, OwnConditions
  <2>3. CASE f.visible_when.op \in {"in", "not in"}
    <3>1. f.visible_when.step = OwnPage
      BY <1>2, <2>3 DEF CrossPage
    <3>2. Eval(f.visible_when, page, all)
      BY <2>3 DEF Visible
    <3>3. EvaluateExpr(f.visible_when, typed, TRUE)
      <4>1. PICK g \in d.fields[step] : g.key = f.visible_when.key /\ g \in Shown(d, step, typed, all)
        <5>1. f.visible_when.op # ""
          BY <2>3
        <5> QED BY <3>1, <5>1, NamedFieldIsShown
      <4> QED BY <2>2, <2>3, <3>1, <3>2, <4>1, BothSidesAgree
    <3>4. ClientVisible(view, typed)
      BY <2>1, <3>3 DEF ClientVisible
    <3> QED
      BY <1>2, <3>4 DEF Shown, Served
  <2>4. CASE f.visible_when.op \notin {"in", "not in"}
    <3>1. ~f.visible_when.client.parses
      BY <2>2, <2>4 DEF ReadAlike
    <3>2. ClientVisible(view, typed)
      BY <2>1, <3>1 DEF ClientVisible, EvaluateExpr
    <3> QED
      BY <1>2, <3>2 DEF Shown, Served
  <2> QED
    BY <2>3, <2>4
<1> QED
  BY <1>1, <1>2

\* And what the server requires there, the form asked for.
LEMMA RequiredIsAsked ==
  ASSUME NEW d, NEW step \in DOMAIN d.fields, NEW all, NEW typed,
         NEW f \in d.fields[step],
         WellFormed(d), SeenAlike(d, step, f), f.required \in BOOLEAN,
         \A g \in d.fields[step] : g.key \in DOMAIN typed,
         RequiredNow(f, Sent(d, step, typed, all), all)
  PROVE  ClientRequired(ResolveField(f, step, all), typed)
<1> DEFINE page == Sent(d, step, typed, all)
           view == ResolveField(f, step, all)
<1>1. CASE f.required
  BY <1>1 DEF ClientRequired, ResolveField
<1>2. CASE ~f.required /\ CrossPage(f.required_when)
  <2>1. Left(f.required_when, page, all) = Left(f.required_when, all[step], all)
    BY <1>2 DEF CrossPage, Left
  <2>2. RequiredNow(f, all[step], all)
    BY <2>1 DEF RequiredNow, Eval
  <2> QED
    BY <1>2, <2>2 DEF ClientRequired, ResolveField
<1>3. CASE ~f.required /\ ~CrossPage(f.required_when)
  <2>1. view.required_when = f.required_when
    BY <1>3 DEF ResolveField
  <2>2. f.required_when.op \in {"in", "not in"} /\ Eval(f.required_when, page, all)
    BY <1>3 DEF RequiredNow, Eval
  <2>3. f.required_when.step = OwnPage
    BY <1>3, <2>2 DEF CrossPage
  <2>4. EvaluateExpr(f.required_when, typed, FALSE)
    <3>1. PICK g \in d.fields[step] : g.key = f.required_when.key /\ g \in Shown(d, step, typed, all)
      <4>1. f.required_when.op # ""
        BY <2>2
      <4> QED BY <2>3, <4>1, NamedFieldIsShown
    <3>2. ReadAlike(f.required_when)
      BY <1>3, OwnConditions
    <3> QED BY <2>2, <2>3, <3>1, <3>2, BothSidesAgree
  <2> QED
    BY <2>1, <2>4 DEF ClientRequired
<1> QED
  BY <1>1, <1>2, <1>3

\* What a form lets go is refused for nothing the user cannot see, whatever was
\* typed and answered before, in any definition, for every field of the page
\* whose conditions expr.js and expr.go read alike and look at fields that are
\* always there; the other fields may have any conditions (resolve.go and
\* form.js against validate.go).
THEOREM FormRefusalsAreVisible ==
  ASSUME NEW d, NEW step \in DOMAIN d.fields, NEW all, NEW typed,
         WellFormed(d),
         \A f \in d.fields[step] : f.key \in DOMAIN typed /\ f.required \in BOOLEAN
  PROVE  RefusalsAreVisible(d, step, typed, all)
<1> DEFINE page == Sent(d, step, typed, all)
<1>1. SUFFICES ASSUME ClientAccepts(d, step, typed, all),
                      NEW f \in d.fields[step], SeenAlike(d, step, f),
                      Visible(f, page, all), ~ValidateField(f, page, all)
               PROVE  f \in Shown(d, step, typed, all) /\ page[f.key] # Blank
  BY DEF RefusalsAreVisible, RefusalIsVisible
<1>2. f \in Shown(d, step, typed, all)
  BY <1>1, VisibleIsShown
<1>3. page[f.key] = typed[f.key]
  BY <1>2 DEF Sent
<1>4. page[f.key] = Blank => RequiredNow(f, page, all)
  BY <1>1 DEF ValidateField
<1>5. page[f.key] = Blank => typed[f.key] # Blank
  BY <1>1, <1>2, <1>4, RequiredIsAsked DEF ClientAccepts
<1> QED
  BY <1>2, <1>3, <1>5

----------------------------------------------------------------------------
(* Induction over natural numbers and sequences, and the loops of order.go.  *)
(* A set takes the place of the predicate: it can be instantiated.           *)

\* Every nonempty set of natural numbers has a least one.
LEMMA LeastNatural ==
  ASSUME NEW T, T \subseteq Nat, T # {}
  PROVE  \E x \in T : \A y \in T : x <= y
<1>1. PICK x \in T : \A y \in T : <<y, x>> \notin OpToRel(<, Nat)
  BY NatLessThanWellFounded, WFMin
<1>2. \A y \in T : ~(y < x)
  BY <1>1 DEF OpToRel
<1> QED
  BY <1>2

\* Induction, over a set that is given rather than a predicate.
LEMMA SetInduction ==
  ASSUME NEW T, 0 \in T, \A n \in Nat : n \in T => n + 1 \in T
  PROVE  Nat \subseteq T
<1>1. SUFFICES ASSUME Nat \ T # {} PROVE FALSE
  OBVIOUS
<1>2. PICK x \in Nat \ T : \A y \in Nat \ T : x <= y
  BY <1>1, LeastNatural
<1>3. x - 1 \in Nat /\ x - 1 \notin Nat \ T
  BY <1>2
<1> QED
  BY <1>2, <1>3

LEMMA SequenceInduction ==
  ASSUME NEW S, NEW T, <<>> \in T, \A s \in Seq(S), e \in S : s \in T => Append(s, e) \in T
  PROVE  Seq(S) \subseteq T
<1> DEFINE U == {n \in Nat : \A s \in Seq(S) : Len(s) = n => s \in T}
<1>1. 0 \in U
  <2>1. \A s \in Seq(S) : Len(s) = 0 => s = <<>>
    BY EmptySeq
  <2> QED
    BY <2>1
<1>2. ASSUME NEW n \in Nat, n \in U PROVE n + 1 \in U
  <2>1. SUFFICES ASSUME NEW s \in Seq(S), Len(s) = n + 1 PROVE s \in T
    OBVIOUS
  <2>2. s # <<>>
    BY <2>1
  <2>3. PICK t \in Seq(S), e \in S : s = Append(t, e)
    BY <2>2, SequenceEmptyOrAppend
  <2>4. Len(t) = n
    BY <2>1, <2>3
  <2> QED
    BY <1>2, <2>3, <2>4
<1>3. Nat \subseteq U
  <2> HIDE DEF U
  <2> QED BY <1>1, <1>2, SetInduction
<1>4. ASSUME NEW s \in Seq(S) PROVE s \in T
  <2>1. Len(s) \in U
    BY <1>3
  <2> QED BY <2>1
<1> QED
  BY <1>4

\* What a loop computes, from a first value, one step at a time: the runs of it.
Runs(X, N, first, step) ==
  {g \in [0..N -> X] : g[0] = first /\ \A i \in 1..N : g[i] = step[i][g[i - 1]]}

LEMMA LoopExists ==
  ASSUME NEW X, NEW N \in Nat, NEW first \in X, NEW step \in [1..N -> [X -> X]]
  PROVE  Runs(X, N, first, step) # {}
<1> DEFINE Loop(g, n) == g[0] = first /\ \A i \in 1..n : g[i] = step[i][g[i - 1]]
           T == {n \in Nat : n <= N => \E g \in [0..n -> X] : Loop(g, n)}
<1>1. 0 \in T
  <2>1. [i \in 0..0 |-> first] \in [0..0 -> X] /\ Loop([i \in 0..0 |-> first], 0)
    OBVIOUS
  <2> QED BY <2>1
<1>2. ASSUME NEW n \in Nat, n \in T PROVE n + 1 \in T
  <2>1. SUFFICES ASSUME n + 1 <= N PROVE \E g \in [0..n + 1 -> X] : Loop(g, n + 1)
    OBVIOUS
  <2>2. PICK g \in [0..n -> X] : Loop(g, n)
    BY <1>2, <2>1
  <2> DEFINE h == [i \in 0..n + 1 |-> IF i = n + 1 THEN step[n + 1][g[n]] ELSE g[i]]
  <2>3. step[n + 1][g[n]] \in X
    BY <2>1
  <2>4. h \in [0..n + 1 -> X]
    BY <2>3
  <2>5. h[0] = first
    BY <2>2
  <2>6. ASSUME NEW i \in 1..n PROVE h[i] = step[i][h[i - 1]]
    <3>1. h[i] = g[i] /\ h[i - 1] = g[i - 1]
      BY <2>6
    <3> QED BY <2>2, <3>1
  <2>7. h[n + 1] = step[n + 1][h[n]]
    OBVIOUS
  <2> HIDE DEF h
  <2>8. \A i \in 1..n + 1 : h[i] = step[i][h[i - 1]]
    <3> SUFFICES ASSUME NEW i \in 1..n + 1 PROVE h[i] = step[i][h[i - 1]]
      OBVIOUS
    <3>1. CASE i \in 1..n
      BY <2>6, <3>1
    <3>2. CASE i = n + 1
      BY <2>7, <3>2
    <3> QED BY <3>1, <3>2
  <2> QED
    BY <2>4, <2>5, <2>8
<1>3. Nat \subseteq T
  <2> HIDE DEF T
  <2> QED BY <1>1, <1>2, SetInduction
<1>4. N \in T
  BY <1>3
<1> QED
  BY <1>4 DEF Runs


\* And there is no other.
LEMMA LoopUnique ==
  ASSUME NEW N \in Nat, NEW g, NEW h,
         g[0] = h[0], \A i \in 1..N : g[i - 1] = h[i - 1] => g[i] = h[i]
  PROVE  \A i \in 0..N : g[i] = h[i]
<1> DEFINE T == {n \in Nat : n <= N => g[n] = h[n]}
<1>1. 0 \in T
  OBVIOUS
<1>2. ASSUME NEW n \in Nat, n \in T PROVE n + 1 \in T
  <2>1. SUFFICES ASSUME n + 1 <= N PROVE g[n + 1] = h[n + 1]
    OBVIOUS
  <2>2. n + 1 \in 1..N /\ (n + 1) - 1 = n
    BY <2>1
  <2>3. g[n] = h[n]
    BY <1>2, <2>1
  <2> QED BY <2>2, <2>3
<1>3. Nat \subseteq T
  <2> HIDE DEF T
  <2> QED BY <1>1, <1>2, SetInduction
<1> QED
  BY <1>3

\* The loop of Without, as the definition has it and as its steps.
LeavesOut(seq, set, g) ==
  g = [i \in 0..Len(seq) |->
         IF i = 0 THEN <<>> ELSE IF seq[i] \in set THEN g[i - 1] ELSE Append(g[i - 1], seq[i])]

Leaving(seq, set, g) ==
  /\ g[0] = <<>>
  /\ \A i \in 1..Len(seq) : g[i] = IF seq[i] \in set THEN g[i - 1] ELSE Append(g[i - 1], seq[i])

LEMMA LeavesOutSteps ==
  ASSUME NEW S, NEW seq \in Seq(S), NEW set, NEW g, LeavesOut(seq, set, g)
  PROVE  Leaving(seq, set, g)
<1>1. \A i \in 0..Len(seq) :
        g[i] = IF i = 0 THEN <<>> ELSE IF seq[i] \in set THEN g[i - 1] ELSE Append(g[i - 1], seq[i])
  BY Zenon DEF LeavesOut
<1>2. 0 \in 0..Len(seq) /\ \A i \in 1..Len(seq) : i \in 0..Len(seq) /\ i # 0
  OBVIOUS
<1> QED
  BY <1>1, <1>2, Zenon DEF Leaving

LEMMA WithoutIsALoop ==
  ASSUME NEW S, NEW seq \in Seq(S), NEW set
  PROVE  \E g : /\ Leaving(seq, set, g)
                /\ Without(seq, set) = g[Len(seq)]
                /\ \A i \in 0..Len(seq) : g[i] \in Seq(S)
<1> DEFINE step == [i \in 1..Len(seq) |-> [s \in Seq(S) |-> IF seq[i] \in set THEN s ELSE Append(s, seq[i])]]
<1>1. step \in [1..Len(seq) -> [Seq(S) -> Seq(S)]]
  OBVIOUS
<1>2. \A i \in 1..Len(seq), s \in Seq(S) : step[i][s] = IF seq[i] \in set THEN s ELSE Append(s, seq[i])
  OBVIOUS
<1> HIDE DEF step
<1>3. <<>> \in Seq(S) /\ Len(seq) \in Nat
  OBVIOUS
<1>4. PICK h \in [0..Len(seq) -> Seq(S)] : h[0] = <<>> /\ \A i \in 1..Len(seq) : h[i] = step[i][h[i - 1]]
  <2>1. Runs(Seq(S), Len(seq), <<>>, step) # {}
    BY <1>1, <1>3, LoopExists
  <2> QED BY <2>1 DEF Runs
<1>5. ASSUME NEW i \in 1..Len(seq)
      PROVE  h[i] = IF seq[i] \in set THEN h[i - 1] ELSE Append(h[i - 1], seq[i])
  <2>1. h[i - 1] \in Seq(S)
    OBVIOUS
  <2> QED BY <1>2, <1>4, <2>1
<1>6. LeavesOut(seq, set, h)
  <2>1. ASSUME NEW i \in 0..Len(seq)
        PROVE  h[i] = IF i = 0 THEN <<>> ELSE IF seq[i] \in set THEN h[i - 1] ELSE Append(h[i - 1], seq[i])
    <3>1. CASE i = 0
      BY <1>4, <3>1
    <3>2. CASE i # 0
      <4>1. i \in 1..Len(seq)
        BY <3>2
      <4> QED BY <1>5, <3>2, <4>1, Zenon
    <3> QED BY <3>1, <3>2
  <2>2. DOMAIN h = 0..Len(seq)
    OBVIOUS
  <2> QED BY <2>1, <2>2, Zenon DEF LeavesOut
<1> DEFINE g == CHOOSE g : LeavesOut(seq, set, g)
<1>7. LeavesOut(seq, set, g)
  BY <1>6, Zenon
<1>8. Without(seq, set) = g[Len(seq)]
  BY DEF Without, LeavesOut
<1> HIDE DEF g
<1>9. Leaving(seq, set, g) /\ Leaving(seq, set, h)
  BY <1>6, <1>7, LeavesOutSteps
<1>10. \A i \in 0..Len(seq) : g[i] = h[i]
  <2>1. Len(seq) \in Nat
    OBVIOUS
  <2>2. g[0] = h[0]
    BY <1>9 DEF Leaving
  <2>3. \A i \in 1..Len(seq) : g[i - 1] = h[i - 1] => g[i] = h[i]
    BY <1>9 DEF Leaving
  <2> QED BY <2>1, <2>2, <2>3, LoopUnique, ZenonT(60)
<1>11. \A i \in 0..Len(seq) : g[i] \in Seq(S)
  BY <1>10
<1> QED
  BY <1>8, <1>9, <1>11

LEMMA WithoutEmpty == ASSUME NEW set PROVE Without(<<>>, set) = <<>>
<1>1. <<>> \in Seq({}) /\ Len(<<>>) = 0
  OBVIOUS
<1>2. PICK g : Leaving(<<>>, set, g) /\ Without(<<>>, set) = g[Len(<<>>)]
  BY <1>1, WithoutIsALoop
<1> QED
  BY <1>1, <1>2 DEF Leaving

LEMMA WithoutAppend ==
  ASSUME NEW S, NEW seq \in Seq(S), NEW e \in S, NEW set
  PROVE  Without(Append(seq, e), set)
           = IF e \in set THEN Without(seq, set) ELSE Append(Without(seq, set), e)
<1>1. PICK longer \in Seq(S) :
        /\ longer = Append(seq, e) /\ Len(longer) = Len(seq) + 1 /\ longer[Len(seq) + 1] = e
        /\ \A i \in 1..Len(seq) : longer[i] = seq[i]
  <2> DEFINE t == Append(seq, e)
  <2>1. t \in Seq(S) /\ Len(t) = Len(seq) + 1 /\ t[Len(seq) + 1] = e
    OBVIOUS
  <2>2. \A i \in 1..Len(seq) : t[i] = seq[i]
    OBVIOUS
  <2> QED BY <2>1, <2>2, Zenon
<1>2. PICK g : Leaving(seq, set, g) /\ Without(seq, set) = g[Len(seq)]
  BY WithoutIsALoop
<1>3. PICK h : Leaving(longer, set, h) /\ Without(longer, set) = h[Len(longer)]
  BY WithoutIsALoop
<1>4. Len(seq) \in Nat /\ Len(seq) + 1 \in 1..Len(longer)
  BY <1>1
<1>5. \A i \in 1..Len(seq) : h[i] = IF seq[i] \in set THEN h[i - 1] ELSE Append(h[i - 1], seq[i])
  BY <1>1, <1>3 DEF Leaving
<1>6. \A i \in 0..Len(seq) : g[i] = h[i]
  <2>1. Len(seq) \in Nat
    OBVIOUS
  <2>2. g[0] = h[0]
    BY <1>2, <1>3 DEF Leaving
  <2>3. \A i \in 1..Len(seq) : g[i - 1] = h[i - 1] => g[i] = h[i]
    BY <1>2, <1>5 DEF Leaving
  <2> QED BY <2>1, <2>2, <2>3, LoopUnique, Zenon
<1>7. h[Len(seq) + 1] = IF e \in set THEN h[Len(seq)] ELSE Append(h[Len(seq)], e)
  BY <1>1, <1>3, <1>4 DEF Leaving
<1> QED
  BY <1>1, <1>2, <1>3, <1>4, <1>6, <1>7

----------------------------------------------------------------------------
(* What Without leaves *)

LEMMA AppendAdds ==
  ASSUME NEW S, NEW seq \in Seq(S), NEW e \in S
  PROVE  Append(seq, e) \in Seq(S) /\ ToSet(Append(seq, e)) = ToSet(seq) \cup {e}
<1>1. PICK t \in Seq(S) : t = Append(seq, e)
  BY AppendProperties
<1>2. /\ Len(seq) \in Nat /\ DOMAIN seq = 1..Len(seq) /\ DOMAIN t = 1..Len(seq) + 1
      /\ \A i \in 1..Len(seq) : t[i] = seq[i]
      /\ t[Len(seq) + 1] = e
  BY <1>1, AppendProperties, LenProperties
<1>3. ToSet(t) = ToSet(seq) \cup {e}
  BY <1>2 DEF ToSet
<1> QED
  BY <1>1, <1>3

\* What is left is a sequence of the elements that are not left out.
LEMMA WithoutKeeps ==
  ASSUME NEW S, NEW seq \in Seq(S), NEW set
  PROVE  Without(seq, set) \in Seq(S) /\ ToSet(Without(seq, set)) = ToSet(seq) \ set
<1> DEFINE T == {s \in Seq(S) : Without(s, set) \in Seq(S) /\ ToSet(Without(s, set)) = ToSet(s) \ set}
<1>1. <<>> \in T
  <2>1. ToSet(<<>>) = {} /\ <<>> \in Seq(S)
    BY EmptySeq DEF ToSet
  <2> QED BY <2>1, WithoutEmpty
<1>2. ASSUME NEW s \in Seq(S), NEW e \in S, s \in T PROVE Append(s, e) \in T
  <2>1. ToSet(Append(s, e)) = ToSet(s) \cup {e} /\ Append(s, e) \in Seq(S)
    BY AppendAdds
  <2> DEFINE u == Without(s, set)
  <2>2. u \in Seq(S) /\ ToSet(u) = ToSet(s) \ set
    BY <1>2
  <2>3. CASE e \in set
    BY <2>1, <2>2, <2>3, WithoutAppend
  <2>4. CASE e \notin set
    <3>1. Without(Append(s, e), set) = Append(u, e)
      BY <2>4, WithoutAppend
    <3> HIDE DEF u
    <3>2. Append(u, e) \in Seq(S) /\ ToSet(Append(u, e)) = ToSet(u) \cup {e}
      BY <2>2, AppendAdds
    <3> QED BY <2>1, <2>2, <2>4, <3>1, <3>2
  <2> QED BY <2>3, <2>4
<1>3. Seq(S) \subseteq T
  <2> HIDE DEF T
  <2> QED BY <1>1, <1>2, SequenceInduction
<1> QED
  BY <1>3

\* Each of them as often as before.
LEMMA WithoutIsInjective ==
  ASSUME NEW S, NEW seq \in Seq(S), NEW set, IsInjective(seq)
  PROVE  IsInjective(Without(seq, set))
<1> DEFINE T == {s \in Seq(S) : IsInjective(s) => IsInjective(Without(s, set))}
<1>1. <<>> \in T
  BY WithoutEmpty DEF IsInjective
<1>2. ASSUME NEW s \in Seq(S), NEW e \in S, s \in T PROVE Append(s, e) \in T
  <2>1. SUFFICES ASSUME IsInjective(Append(s, e)) PROVE IsInjective(Without(Append(s, e), set))
    OBVIOUS
  <2>2. IsInjective(s) /\ e \notin ToSet(s)
    BY <2>1, AppendProperties DEF IsInjective, ToSet
  <2>3. CASE e \in set
    BY <1>2, <2>2, <2>3, WithoutAppend
  <2>4. CASE e \notin set
    <3> DEFINE u == Without(s, set)
    <3>1. u \in Seq(S) /\ e \notin ToSet(u) /\ IsInjective(u)
      BY <1>2, <2>2, WithoutKeeps
    <3>2. Without(Append(s, e), set) = Append(u, e)
      BY <2>4, WithoutAppend
    <3> HIDE DEF u
    <3>3. IsInjective(Append(u, e))
      BY <3>1, AppendProperties DEF IsInjective, ToSet
    <3> QED BY <3>2, <3>3
  <2> QED BY <2>3, <2>4
<1>3. Seq(S) \subseteq T
  <2> HIDE DEF T
  <2> QED BY <1>1, <1>2, SequenceInduction
<1> QED
  BY <1>3

\* Nothing to leave out changes nothing.
LEMMA WithoutNothing ==
  ASSUME NEW S, NEW seq \in Seq(S), NEW set, ToSet(seq) \cap set = {}
  PROVE  Without(seq, set) = seq
<1> DEFINE T == {s \in Seq(S) : ToSet(s) \cap set = {} => Without(s, set) = s}
<1>1. <<>> \in T
  BY WithoutEmpty
<1>2. ASSUME NEW s \in Seq(S), NEW e \in S, s \in T PROVE Append(s, e) \in T
  <2>1. ToSet(Append(s, e)) = ToSet(s) \cup {e}
    BY AppendAdds
  <2> QED BY <1>2, <2>1, WithoutAppend
<1>3. Seq(S) \subseteq T
  <2> HIDE DEF T
  <2> QED BY <1>1, <1>2, SequenceInduction
<1> QED
  BY <1>3

\* And leaving out everything leaves nothing.
LEMMA WithoutAll ==
  ASSUME NEW S, NEW seq \in Seq(S), NEW set, ToSet(seq) \subseteq set
  PROVE  Without(seq, set) = <<>>
<1>1. Without(seq, set) \in Seq(S) /\ ToSet(Without(seq, set)) = {}
  BY WithoutKeeps
<1> QED
  BY <1>1, EmptySeq DEF ToSet

LEMMA WithoutConcat ==
  ASSUME NEW S, NEW left \in Seq(S), NEW right \in Seq(S), NEW set
  PROVE  Without(left \o right, set) = Without(left, set) \o Without(right, set)
<1> DEFINE T == {s \in Seq(S) : Without(left \o s, set) = Without(left, set) \o Without(s, set)}
<1>0. \A u, v \in Seq(S), e \in S : u \o Append(v, e) = Append(u \o v, e)
  <2> SUFFICES ASSUME NEW u \in Seq(S), NEW v \in Seq(S), NEW e \in S
               PROVE  u \o Append(v, e) = Append(u \o v, e)
    OBVIOUS
  <2>1. <<e>> \in Seq(S) /\ u \o v \in Seq(S)
    BY ConcatProperties
  <2>2. Append(v, e) = v \o <<e>> /\ Append(u \o v, e) = (u \o v) \o <<e>>
    BY <2>1, AppendIsConcat
  <2> QED BY <2>1, <2>2, ConcatAssociative
<1>1. <<>> \in T
  BY WithoutEmpty, WithoutKeeps, ConcatEmptySeq, EmptySeq
<1>2. ASSUME NEW s \in Seq(S), NEW e \in S, s \in T PROVE Append(s, e) \in T
  <2>1. left \o Append(s, e) = Append(left \o s, e)
    BY <1>0
  <2>2. Append(s, e) \in Seq(S) /\ left \o s \in Seq(S)
    BY AppendProperties, ConcatProperties
  <2>3. Without(left, set) \in Seq(S) /\ Without(s, set) \in Seq(S)
    BY WithoutKeeps
  <2>4. CASE e \in set
    <3>1. Without(Append(left \o s, e), set) = Without(left \o s, set)
      BY <2>2, <2>4, WithoutAppend
    <3>2. Without(Append(s, e), set) = Without(s, set)
      BY <2>4, WithoutAppend
    <3> QED BY <1>2, <2>1, <2>2, <3>1, <3>2
  <2>5. CASE e \notin set
    <3>1. Without(Append(left \o s, e), set) = Append(Without(left \o s, set), e)
      BY <2>2, <2>5, WithoutAppend
    <3>2. Without(Append(s, e), set) = Append(Without(s, set), e)
      BY <2>5, WithoutAppend
    <3>3. Without(left, set) \o Append(Without(s, set), e) = Append(Without(left, set) \o Without(s, set), e)
      BY <1>0, <2>3
    <3>4. Without(left \o s, set) = Without(left, set) \o Without(s, set)
      BY <1>2
    <3> QED BY <2>1, <2>2, <3>1, <3>2, <3>3, <3>4
  <2> QED BY <2>4, <2>5
<1>3. Seq(S) \subseteq T
  <2> HIDE DEF T
  <2> QED BY <1>1, <1>2, SequenceInduction
<1> QED
  BY <1>3

----------------------------------------------------------------------------
(* Where spliceIn puts what is new *)

\* The prefix is one of the order, and it ends at the anchor when there is one.
LEMMA PrefixEnds ==
  ASSUME NEW S, NEW order \in Seq(S), NEW before, NEW after, NoStep \notin S, IsInjective(order)
  PROVE  /\ Prefix(order, before, after) \in 0..Len(order)
         /\ \A p \in 1..Len(order) :
              /\ order[p] = before => Prefix(order, before, after) = p - 1
              /\ order[p] = after /\ before = NoStep => Prefix(order, before, after) = p
<1> DEFINE anchor == IF before # NoStep THEN before ELSE after
           I == {i \in 1..Len(order) : order[i] = anchor}
           at == IF I # {} THEN Min(I) ELSE 0
<1>1. Prefix(order, before, after)
        = IF at = 0 THEN Len(order) ELSE IF before # NoStep THEN at - 1 ELSE at
  BY DEF Prefix, SelectInSeq
<1>2. ASSUME I # {} PROVE at \in I
  <2>1. \E x \in I : \A y \in I : x <= y
    <3>1. I \subseteq Nat
      OBVIOUS
    <3> HIDE DEF I
    <3> QED BY <1>2, <3>1, LeastNatural
  <2>2. Min(I) \in I
    BY <2>1, Zenon DEF Min
  <2> QED BY <1>2, <2>2
<1>3. Len(order) \in Nat /\ \A p \in 1..Len(order) : order[p] \in S
  BY LenProperties
<1>4. at \in 0..Len(order)
  BY <1>2, <1>3
<1>5. \A p \in I : at = p
  <2> SUFFICES ASSUME NEW p \in I PROVE at = p
    OBVIOUS
  <2>1. at \in I
    BY <1>2
  <2>2. DOMAIN order = 1..Len(order)
    BY LenProperties
  <2> HIDE DEF at
  <2> QED BY <2>1, <2>2 DEF IsInjective
<1> HIDE DEF at
<1>6. Prefix(order, before, after) \in 0..Len(order)
  <2>1. Len(order) \in Nat
    BY <1>3
  <2>2. CASE at = 0
    BY <1>1, <2>1, <2>2
  <2>3. CASE at # 0 /\ before # NoStep
    BY <1>1, <1>4, <2>1, <2>3
  <2>4. CASE at # 0 /\ before = NoStep
    BY <1>1, <1>4, <2>1, <2>4
  <2> QED BY <2>2, <2>3, <2>4
<1>7. ASSUME NEW p \in 1..Len(order), order[p] = before PROVE Prefix(order, before, after) = p - 1
  <2>1. before # NoStep /\ p \in I
    BY <1>3, <1>7
  <2> QED BY <1>1, <1>5, <2>1
<1>8. ASSUME NEW p \in 1..Len(order), order[p] = after, before = NoStep
      PROVE  Prefix(order, before, after) = p
  <2>1. p \in I
    BY <1>8
  <2> QED BY <1>1, <1>5, <1>8, <2>1
<1> QED
  BY <1>6, <1>7, <1>8

\* Every place of the new order: the first n, the new ones, the rest.
Places(S, order, n, fresh, new) ==
  /\ new \in Seq(S) /\ fresh \in Seq(S)
  /\ Len(new) = Len(order) + Len(fresh)
  /\ \A p \in 1..n : new[p] = order[p]
  /\ \A k \in 1..Len(fresh) : new[n + k] = fresh[k]
  /\ \A p \in n + 1..Len(order) : new[p + Len(fresh)] = order[p]

LEMMA InsertAfterPlaces ==
  ASSUME NEW S, NEW order \in Seq(S), NEW insert \in Seq(S), NEW n \in 0..Len(order)
  PROVE  Places(S, order, n, Without(insert, ToSet(order)), InsertAfter(order, n, insert))
<1> DEFINE fresh == Without(insert, ToSet(order))
           new == InsertAfter(order, n, insert)
<1>1. fresh \in Seq(S)
  BY WithoutKeeps
<1> HIDE DEF fresh, new
<1>2. PICK head \in Seq(S) :
        head = SubSeq(order, 1, n) /\ Len(head) = n /\ \A p \in 1..n : head[p] = order[p]
  <2>1. \A i \in 1..n : order[i] \in S
    BY LenProperties
  <2>2. n \in Int /\ 1 \in Int
    BY LenProperties
  <2>3. /\ SubSeq(order, 1, n) \in Seq(S)
        /\ Len(SubSeq(order, 1, n)) = IF 1 <= n THEN n - 1 + 1 ELSE 0
        /\ \A i \in 1..n - 1 + 1 : SubSeq(order, 1, n)[i] = order[1 + i - 1]
    BY <2>1, <2>2, SubSeqProperties
  <2>4. Len(SubSeq(order, 1, n)) = n /\ \A p \in 1..n : SubSeq(order, 1, n)[p] = order[p]
    BY <2>2, <2>3
  <2> QED BY <2>3, <2>4
<1>3. PICK rest \in Seq(S) :
        /\ rest = SubSeq(order, n + 1, Len(order)) /\ Len(rest) = Len(order) - n
        /\ \A p \in 1..Len(order) - n : rest[p] = order[n + p]
  <2>0. Len(order) \in Nat /\ \A i \in 1..Len(order) : order[i] \in S
    BY LenProperties
  <2>1. n + 1 \in Int /\ Len(order) \in Int /\ \A i \in n + 1..Len(order) : order[i] \in S
    BY <2>0
  <2> DEFINE r == SubSeq(order, n + 1, Len(order))
  <2>2. /\ r \in Seq(S)
        /\ Len(r) = IF n + 1 <= Len(order) THEN Len(order) - (n + 1) + 1 ELSE 0
        /\ \A i \in 1..Len(order) - (n + 1) + 1 : r[i] = order[(n + 1) + i - 1]
    BY <2>1, SubSeqProperties
  <2> HIDE DEF r
  <2>3. Len(r) = Len(order) - n
    BY <2>0, <2>2
  <2>4. ASSUME NEW p \in 1..Len(order) - n PROVE r[p] = order[n + p]
    <3>1. p \in 1..Len(order) - (n + 1) + 1 /\ (n + 1) + p - 1 = n + p
      BY <2>0
    <3> QED BY <2>2, <3>1
  <2> QED BY <2>2, <2>3, <2>4 DEF r
<1>4. PICK front \in Seq(S) :
        /\ front = head \o fresh /\ Len(front) = n + Len(fresh)
        /\ \A i \in 1..n + Len(fresh) : front[i] = IF i <= n THEN head[i] ELSE fresh[i - n]
  <2> DEFINE f == head \o fresh
  <2>1. f \in Seq(S) /\ Len(f) = Len(head) + Len(fresh)
    BY <1>1, ConcatProperties
  <2>2. \A i \in 1..Len(head) + Len(fresh) : f[i] = IF i <= Len(head) THEN head[i] ELSE fresh[i - Len(head)]
    BY <1>1, ConcatProperties, Zenon
  <2> HIDE DEF f
  <2>3. Len(head) = n
    BY <1>2
  <2> QED BY <2>1, <2>2, <2>3 DEF f
<1>5. new = front \o rest
  BY <1>2, <1>3, <1>4 DEF InsertAfter, new, fresh
<1>6. /\ new \in Seq(S) /\ Len(new) = Len(front) + Len(rest)
      /\ \A i \in 1..Len(front) + Len(rest) :
           new[i] = IF i <= Len(front) THEN front[i] ELSE rest[i - Len(front)]
  BY <1>5, ConcatProperties
<1>7. /\ Len(order) \in Nat /\ Len(fresh) \in Nat /\ n \in Nat /\ n <= Len(order)
      /\ Len(front) = n + Len(fresh) /\ Len(rest) = Len(order) - n
  BY <1>1, <1>3, <1>4, LenProperties
<1>8. Len(new) = Len(order) + Len(fresh)
  BY <1>3, <1>4, <1>6, <1>7
<1>9. ASSUME NEW p \in 1..n PROVE new[p] = order[p]
  <2>1. p \in 1..Len(front) + Len(rest) /\ p <= Len(front) /\ p \in 1..n + Len(fresh) /\ p <= n
    BY <1>7
  <2> QED BY <1>2, <1>4, <1>6, <2>1
<1>10. ASSUME NEW k \in 1..Len(fresh) PROVE new[n + k] = fresh[k]
  <2>1. /\ n + k \in 1..Len(front) + Len(rest) /\ n + k <= Len(front)
        /\ n + k \in 1..n + Len(fresh) /\ ~(n + k <= n) /\ (n + k) - n = k
    BY <1>7
  <2> QED BY <1>4, <1>6, <2>1
<1>11. ASSUME NEW p \in n + 1..Len(order) PROVE new[p + Len(fresh)] = order[p]
  <2>1. /\ p + Len(fresh) \in 1..Len(front) + Len(rest) /\ ~(p + Len(fresh) <= Len(front))
        /\ (p + Len(fresh)) - Len(front) = p - n /\ p - n \in 1..Len(order) - n /\ n + (p - n) = p
    BY <1>7
  <2>2. new[p + Len(fresh)] = rest[p - n]
    BY <1>6, <2>1
  <2>3. rest[p - n] = order[n + (p - n)]
    BY <1>3, <2>1
  <2> QED BY <2>1, <2>2, <2>3
<1> QED
  BY <1>1, <1>6, <1>8, <1>9, <1>10, <1>11 DEF Places, new, fresh

\* What InsertAfter leaves of the other steps is what there was.
LEMMA InsertAfterKeeps ==
  ASSUME NEW S, NEW order \in Seq(S), NEW insert \in Seq(S), NEW n \in 0..Len(order),
         NEW set, ToSet(insert) \subseteq set
  PROVE  Without(InsertAfter(order, n, insert), set) = Without(order, set)
<1> DEFINE head == SubSeq(order, 1, n)
           fresh == Without(insert, ToSet(order))
           rest == SubSeq(order, n + 1, Len(order))
<1>1. Len(order) \in Nat /\ \A i \in 1..Len(order) : order[i] \in S
  BY LenProperties
<1>2. head \in Seq(S)
  BY <1>1, SubSeqProperties
<1>3. rest \in Seq(S)
  BY <1>1, SubSeqProperties
<1>4. fresh \in Seq(S) /\ ToSet(fresh) \subseteq set
  BY WithoutKeeps
<1>5. head \o rest = order
  <2>1. 1 \in 1..Len(order) + 1 /\ n \in 1 - 1..Len(order) /\ Len(order) \in n..Len(order)
    BY <1>1
  <2>2. SubSeq(order, 1, n) \o SubSeq(order, n + 1, Len(order)) = SubSeq(order, 1, Len(order))
    BY <2>1, ConcatAdjacentSubSeq
  <2> QED BY <2>2, SubSeqFull
<1> DEFINE front == head \o fresh
<1>6. InsertAfter(order, n, insert) = front \o rest
  BY DEF InsertAfter
<1> HIDE DEF head, fresh, rest
<1>7. Without(fresh, set) = <<>>
  BY <1>4, WithoutAll
<1>8. front \in Seq(S)
  BY <1>2, <1>4, ConcatProperties
<1>9. Without(front, set) = Without(head, set) \o Without(fresh, set)
  BY <1>2, <1>4, WithoutConcat, SMTT(60)
<1> HIDE DEF front
<1>10. Without(front \o rest, set) = Without(front, set) \o Without(rest, set)
  BY <1>3, <1>8, WithoutConcat
<1>11. Without(head, set) \in Seq(S)
  BY <1>2, WithoutKeeps
<1>12. Without(head, set) \o <<>> = Without(head, set)
  BY <1>11, ConcatEmptySeq
<1>13. Without(head \o rest, set) = Without(head, set) \o Without(rest, set)
  BY <1>2, <1>3, WithoutConcat
<1> QED
  BY <1>5, <1>6, <1>7, <1>9, <1>10, <1>12, <1>13

----------------------------------------------------------------------------
(* The order, transition by transition *)

\* What spliceIn makes of an order: the same steps and the inserted ones, none twice.
LEMMA InsertAfterIsWhole ==
  ASSUME NEW S, NEW order \in Seq(S), NEW insert \in Seq(S), NEW n \in 0..Len(order),
         IsInjective(order), IsInjective(insert),
         NEW new, new = InsertAfter(order, n, insert)
  PROVE  IsInjective(new) /\ ToSet(new) = ToSet(order) \cup ToSet(insert)
<1>1. PICK fresh \in Seq(S) :
        fresh = Without(insert, ToSet(order)) /\ IsInjective(fresh)
          /\ ToSet(fresh) = ToSet(insert) \ ToSet(order)
  BY WithoutKeeps, WithoutIsInjective
<1>2. /\ new \in Seq(S) /\ Len(new) = Len(order) + Len(fresh)
      /\ \A p \in 1..n : new[p] = order[p]
      /\ \A k \in 1..Len(fresh) : new[n + k] = fresh[k]
      /\ \A p \in n + 1..Len(order) : new[p + Len(fresh)] = order[p]
  <2>1. Places(S, order, n, fresh, new)
    BY <1>1, InsertAfterPlaces
  <2> QED BY <2>1 DEF Places
<1>3. /\ Len(order) \in Nat /\ Len(fresh) \in Nat /\ n \in Nat /\ n <= Len(order)
      /\ DOMAIN new = 1..Len(order) + Len(fresh)
      /\ DOMAIN order = 1..Len(order) /\ DOMAIN fresh = 1..Len(fresh)
  BY <1>1, <1>2, LenProperties
<1> DEFINE F == Len(fresh)
           At(q) == IF q <= n THEN q ELSE q - F
<1>4. ASSUME NEW q \in DOMAIN new
      PROVE  \/ q \in n + 1..n + F /\ q - n \in DOMAIN fresh /\ new[q] = fresh[q - n]
             \/ /\ q \in 1..n \/ q \in n + F + 1..Len(order) + F
                /\ At(q) \in DOMAIN order /\ new[q] = order[At(q)]
  <2>1. CASE q \in 1..n
    BY <1>2, <1>3, <2>1
  <2>2. CASE q \in n + 1..n + F
    <3>1. q - n \in 1..F /\ n + (q - n) = q
      BY <1>3, <2>2
    <3> QED BY <1>2, <1>3, <2>2, <3>1
  <2>3. CASE q \in n + F + 1..Len(order) + F
    <3>1. q - F \in n + 1..Len(order) /\ (q - F) + F = q /\ ~(q <= n) /\ q - F \in 1..Len(order)
      BY <1>3, <2>3
    <3>2. new[(q - F) + F] = order[q - F]
      BY <1>2, <3>1
    <3> QED BY <1>3, <2>3, <3>1, <3>2
  <2>4. q \in 1..Len(order) + F
    BY <1>3
  <2> QED BY <1>3, <2>1, <2>2, <2>3, <2>4
<1>5. ToSet(new) \subseteq ToSet(order) \cup ToSet(insert)
  <2> SUFFICES ASSUME NEW q \in DOMAIN new PROVE new[q] \in ToSet(order) \cup ToSet(fresh)
    BY <1>1 DEF ToSet
  <2> QED BY <1>4 DEF ToSet
<1>6. ToSet(order) \subseteq ToSet(new)
  <2> SUFFICES ASSUME NEW p \in DOMAIN order PROVE \E q \in DOMAIN new : new[q] = order[p]
    BY DEF ToSet
  <2>1. CASE p \in 1..n
    BY <1>2, <1>3, <2>1
  <2>2. CASE p \in n + 1..Len(order)
    <3>1. p + F \in DOMAIN new
      BY <1>3, <2>2
    <3> QED BY <1>2, <2>2, <3>1
  <2> QED BY <1>3, <2>1, <2>2
<1>7. ToSet(fresh) \subseteq ToSet(new)
  <2> SUFFICES ASSUME NEW k \in DOMAIN fresh PROVE \E q \in DOMAIN new : new[q] = fresh[k]
    BY DEF ToSet
  <2>1. n + k \in DOMAIN new
    BY <1>3
  <2> QED BY <1>2, <1>3, <2>1
<1>8. IsInjective(new)
  <2> SUFFICES ASSUME NEW q \in DOMAIN new, NEW r \in DOMAIN new, new[q] = new[r] PROVE q = r
    BY DEF IsInjective
  <2>1. \A k \in DOMAIN fresh, p \in DOMAIN order : fresh[k] # order[p]
    BY <1>1 DEF ToSet
  <2>2. CASE q \in n + 1..n + F /\ r \in n + 1..n + F
    <3>1. q - n \in DOMAIN fresh /\ r - n \in DOMAIN fresh /\ fresh[q - n] = fresh[r - n]
      <4>1. ~(q \in 1..n \/ q \in n + F + 1..Len(order) + F) /\ ~(r \in 1..n \/ r \in n + F + 1..Len(order) + F)
        BY <1>3, <2>2
      <4> QED BY <1>4, <4>1
    <3>2. q - n = r - n
      BY <1>1, <3>1 DEF IsInjective
    <3> QED BY <1>3, <2>2, <3>2
  <2>3. CASE ~(q \in n + 1..n + F) /\ ~(r \in n + 1..n + F)
    <3>1. /\ q \in 1..n \/ q \in n + F + 1..Len(order) + F
          /\ r \in 1..n \/ r \in n + F + 1..Len(order) + F
          /\ At(q) \in DOMAIN order /\ At(r) \in DOMAIN order /\ order[At(q)] = order[At(r)]
      BY <1>4, <2>3
    <3>2. At(q) = At(r)
      BY <3>1 DEF IsInjective
    <3> QED BY <1>3, <3>1, <3>2
  <2>4. CASE (q \in n + 1..n + F) # (r \in n + 1..n + F)
    BY <1>4, <2>1, <2>4
  <2> QED BY <2>2, <2>3, <2>4
<1> QED
  BY <1>1, <1>5, <1>6, <1>7, <1>8

\* The order after the first i transitions, as the loop of ResolveOrder has it.
OrderSoFar(d, all, i, order) ==
  LET taken == {j \in TakenIn(d, all) : j <= i}
  IN /\ order \in Seq(ToSet(d.steps)) /\ IsInjective(order)
     /\ ToSet(order) = ToSet(Base(d)) \cup UNION {Inserted(d, j) : j \in taken}
     /\ Without(order, Conditional(d)) = Base(d)
     /\ \A j \in taken, at \in DOMAIN order :
          order[at] \in New(d, all, j) => InPlace(d, order, d.transitions[j], at)

\* What WellFormed says of the steps and transitions.
LEMMA WellFormedParts ==
  ASSUME NEW d, WellFormed(d)
  PROVE  /\ d.steps \in Seq(ToSet(d.steps)) /\ IsInjective(d.steps) /\ NoStep \notin ToSet(d.steps)
         /\ Len(d.transitions) \in Nat /\ DOMAIN d.transitions = 1..Len(d.transitions)
         /\ \A i \in DOMAIN d.transitions :
              /\ d.transitions[i].insert \in Seq(ToSet(d.steps)) /\ IsInjective(d.transitions[i].insert)
              /\ Inserted(d, i) \subseteq Conditional(d)
<1>1. d.steps \in Seq(DOMAIN d.fields \ {NoStep}) /\ IsInjective(d.steps)
  BY DEF WellFormed
<1>2. NoStep \notin ToSet(d.steps)
  BY <1>1, LenProperties DEF ToSet
<1>3. d.steps \in Seq(ToSet(d.steps))
  <2>1. Range(d.steps) = ToSet(d.steps)
    BY DEF Range, ToSet
  <2> QED BY <1>1, <2>1, SeqOfRange
<1>4. Len(d.transitions) \in Nat /\ DOMAIN d.transitions = 1..Len(d.transitions)
  BY LenProperties DEF WellFormed
<1> QED
  BY <1>1, <1>2, <1>3, <1>4 DEF WellFormed, Inserted, Conditional

\* Before any transition, it is the default order.
LEMMA BaseIsSound ==
  ASSUME NEW d, WellFormed(d), NEW all
  PROVE  OrderSoFar(d, all, 0, Base(d))
<1> DEFINE S == ToSet(d.steps)
<1>1. d.steps \in Seq(S) /\ IsInjective(d.steps)
  BY WellFormedParts
<1>2. Base(d) \in Seq(S) /\ ToSet(Base(d)) \cap Conditional(d) = {} /\ IsInjective(Base(d))
  BY <1>1, WithoutKeeps, WithoutIsInjective DEF Base
<1>3. Without(Base(d), Conditional(d)) = Base(d)
  BY <1>2, WithoutNothing
<1>4. {j \in TakenIn(d, all) : j <= 0} = {}
  BY WellFormedParts DEF TakenIn
<1> QED
  BY <1>2, <1>3, <1>4 DEF OrderSoFar

\* A transition that is taken keeps the order sound.
LEMMA SpliceInIsSound ==
  ASSUME NEW d, WellFormed(d), NEW all, NEW i \in TakenIn(d, all), NEW order,
         OrderSoFar(d, all, i - 1, order)
  PROVE  LET t == d.transitions[i]
         IN  OrderSoFar(d, all, i, SpliceIn(order, t.insert, t.before, t.after))
<1> DEFINE S == ToSet(d.steps)
           C == Conditional(d)
           t == d.transitions[i]
           n == Prefix(order, t.before, t.after)
           new == InsertAfter(order, n, t.insert)
           fresh == Without(t.insert, ToSet(order))
           F == Len(fresh)
           Upto(m) == {j \in TakenIn(d, all) : j <= m}
<1>1. /\ i \in DOMAIN d.transitions /\ i \in 1..Len(d.transitions) /\ Len(d.transitions) \in Nat
      /\ t.insert \in Seq(S) /\ IsInjective(t.insert) /\ ToSet(t.insert) \subseteq C /\ NoStep \notin S
      /\ \A j \in TakenIn(d, all) : j \in Nat /\ Inserted(d, j) \subseteq C
  BY WellFormedParts DEF TakenIn, Inserted
<1>2. /\ order \in Seq(S) /\ IsInjective(order)
      /\ ToSet(order) = ToSet(Base(d)) \cup UNION {Inserted(d, j) : j \in Upto(i - 1)}
      /\ Without(order, C) = Base(d)
      /\ \A j \in Upto(i - 1), at \in DOMAIN order :
           order[at] \in New(d, all, j) => InPlace(d, order, d.transitions[j], at)
  BY DEF OrderSoFar
<1>3. /\ n \in 0..Len(order)
      /\ \A p \in 1..Len(order) :
           /\ order[p] = t.before => n = p - 1
           /\ order[p] = t.after /\ t.before = NoStep => n = p
  <2>1. n \in 0..Len(order)
    BY <1>1, <1>2, PrefixEnds
  <2>2. \A p \in 1..Len(order) :
           /\ order[p] = t.before => n = p - 1
           /\ order[p] = t.after /\ t.before = NoStep => n = p
    BY <1>1, <1>2, PrefixEnds
  <2> QED BY <2>1, <2>2
<1>4. SpliceIn(order, t.insert, t.before, t.after) = new
  BY DEF SpliceIn
<1> HIDE DEF n
<1>5. IsInjective(new) /\ ToSet(new) = ToSet(order) \cup ToSet(t.insert)
  BY <1>1, <1>2, <1>3, InsertAfterIsWhole
<1>6. Without(new, C) = Base(d)
  <2>1. Without(new, C) = Without(order, C)
    BY <1>1, <1>2, <1>3, InsertAfterKeeps
  <2> QED BY <1>2, <2>1
<1>7. Places(S, order, n, fresh, new)
  BY <1>1, <1>2, <1>3, InsertAfterPlaces
<1>8. ToSet(fresh) = ToSet(t.insert) \ ToSet(order)
  BY <1>1, WithoutKeeps
<1> HIDE DEF new, fresh
<1>9. Upto(i) = Upto(i - 1) \cup {i}
  BY <1>1
<1>10. ToSet(new) = ToSet(Base(d)) \cup UNION {Inserted(d, j) : j \in Upto(i)}
  BY <1>2, <1>5, <1>9 DEF Inserted
<1>11. /\ Len(order) \in Nat /\ F \in Nat /\ n \in Nat /\ n <= Len(order)
       /\ Len(new) = Len(order) + F
       /\ DOMAIN new = 1..Len(order) + F /\ DOMAIN order = 1..Len(order) /\ DOMAIN fresh = 1..F
  BY <1>2, <1>3, <1>7, LenProperties DEF Places
<1>12. /\ \A p \in 1..n : new[p] = order[p]
       /\ \A k \in 1..F : new[n + k] = fresh[k]
       /\ \A p \in n + 1..Len(order) : new[p + F] = order[p]
  BY <1>7 DEF Places
<1> DEFINE IsOld(q) == q \in 1..n \/ q \in n + F + 1..Len(order) + F
           IsNew(q) == q \in n + 1..n + F
           At(q) == IF q <= n THEN q ELSE q - F
<1>13. ASSUME NEW q \in DOMAIN new, IsOld(q) PROVE At(q) \in DOMAIN order /\ new[q] = order[At(q)]
  <2>1. CASE q \in 1..n
    BY <1>11, <1>12, <2>1
  <2>2. CASE q \in n + F + 1..Len(order) + F
    <3>1. q - F \in n + 1..Len(order) /\ (q - F) + F = q /\ ~(q <= n) /\ q - F \in 1..Len(order)
      BY <1>11, <2>2
    <3>2. new[(q - F) + F] = order[q - F]
      BY <1>12, <3>1
    <3> QED BY <1>11, <3>1, <3>2
  <2> QED BY <1>13, <2>1, <2>2
<1>14. ASSUME NEW q \in DOMAIN new, IsNew(q) PROVE new[q] \in ToSet(fresh)
  <2>1. q - n \in 1..F /\ n + (q - n) = q
    BY <1>11, <1>14
  <2>2. new[q] = fresh[q - n]
    BY <1>12, <2>1
  <2> QED BY <1>11, <2>1, <2>2 DEF ToSet
<1>15. \A q \in DOMAIN new : IsOld(q) \/ IsNew(q)
  BY <1>11
<1>16. \A q \in DOMAIN new : IsNew(q) <=> new[q] \notin ToSet(order)
  <2> SUFFICES ASSUME NEW q \in DOMAIN new PROVE IsNew(q) <=> new[q] \notin ToSet(order)
    OBVIOUS
  <2>1. CASE IsNew(q)
    BY <1>8, <1>14, <2>1
  <2>2. CASE ~IsNew(q)
    BY <1>13, <1>15, <2>2 DEF ToSet
  <2> QED BY <2>1, <2>2
<1>17. ToSet(Base(d)) \subseteq ToSet(order) /\ ToSet(Base(d)) \cap C = {}
  <2>1. d.steps \in Seq(S)
    BY WellFormedParts
  <2> QED BY <1>2, <2>1, WithoutKeeps DEF Base
<1>18. \A q \in DOMAIN new : IsNew(q) => new[q] \in C
  BY <1>1, <1>8, <1>14
<1> HIDE DEF IsNew, IsOld, At
<1>19. ASSUME NEW j \in Upto(i - 1), NEW at \in DOMAIN new, new[at] \in New(d, all, j)
       PROVE  InPlace(d, new, d.transitions[j], at)
  <2>1. new[at] \in ToSet(order)
    BY <1>2, <1>19 DEF New
  <2>2. IsOld(at) /\ At(at) \in DOMAIN order /\ new[at] = order[At(at)]
    BY <1>13, <1>15, <1>16, <2>1
  <2>3. InPlace(d, order, d.transitions[j], At(at))
    BY <1>2, <1>19, <2>2
  <2>4. SUFFICES ASSUME NEW p \in DOMAIN new, new[p] \in ToSet(Base(d))
                 PROVE  /\ new[p] = d.transitions[j].before => at < p /\ OnlyInserted(d, new, at, p)
                        /\ new[p] = d.transitions[j].after /\ d.transitions[j].before = NoStep =>
                             p < at /\ OnlyInserted(d, new, p, at)
    BY DEF InPlace
  <2>5. IsOld(p) /\ At(p) \in DOMAIN order /\ new[p] = order[At(p)]
    BY <1>13, <1>15, <1>16, <1>17, <2>4
  <2>6. ASSUME NEW l \in DOMAIN new, NEW r \in DOMAIN new, IsOld(l), IsOld(r), At(l) < At(r),
               OnlyInserted(d, order, At(l), At(r))
        PROVE  l < r /\ OnlyInserted(d, new, l, r)
    <3>1. l < r
      BY <1>11, <2>6 DEF IsOld, At
    <3>2. ASSUME NEW q \in l + 1..r - 1 PROVE new[q] \in C
      <4>1. q \in DOMAIN new
        BY <1>11
      <4>2. CASE IsNew(q)
        BY <1>18, <4>1, <4>2
      <4>3. CASE IsOld(q)
        <5>1. At(q) \in At(l) + 1..At(r) - 1
          BY <1>11, <2>6, <4>3 DEF IsOld, At
        <5> QED BY <1>13, <2>6, <4>1, <4>3, <5>1 DEF OnlyInserted
      <4> QED BY <1>15, <4>1, <4>2, <4>3
    <3> QED BY <3>1, <3>2 DEF OnlyInserted
  <2>7. ASSUME new[p] = d.transitions[j].before PROVE at < p /\ OnlyInserted(d, new, at, p)
    <3>1. At(at) < At(p) /\ OnlyInserted(d, order, At(at), At(p))
      BY <2>3, <2>4, <2>5, <2>7 DEF InPlace
    <3> QED BY <2>2, <2>5, <2>6, <3>1
  <2>8. ASSUME new[p] = d.transitions[j].after, d.transitions[j].before = NoStep
        PROVE  p < at /\ OnlyInserted(d, new, p, at)
    <3>1. At(p) < At(at) /\ OnlyInserted(d, order, At(p), At(at))
      BY <2>3, <2>4, <2>5, <2>8 DEF InPlace
    <3> QED BY <2>2, <2>5, <2>6, <3>1
  <2> QED BY <2>7, <2>8
<1>20. ASSUME NEW at \in DOMAIN new, new[at] \in New(d, all, i)
       PROVE  InPlace(d, new, t, at)
  <2>1. new[at] \notin ToSet(order)
    <3>1. Upto(i - 1) = {k \in TakenIn(d, all) : k < i}
      BY <1>1
    <3>2. new[at] \in C
      BY <1>1, <1>20 DEF New
    <3> QED BY <1>2, <1>17, <1>20, <3>1, <3>2 DEF New
  <2>2. at \in n + 1..n + F
    BY <1>16, <2>1 DEF IsNew
  <2>3. SUFFICES ASSUME NEW p \in DOMAIN new, new[p] \in ToSet(Base(d))
                 PROVE  /\ new[p] = t.before => at < p /\ OnlyInserted(d, new, at, p)
                        /\ new[p] = t.after /\ t.before = NoStep => p < at /\ OnlyInserted(d, new, p, at)
    BY DEF InPlace
  <2>4. IsOld(p) /\ At(p) \in DOMAIN order /\ new[p] = order[At(p)]
    BY <1>13, <1>15, <1>16, <1>17, <2>3
  <2>5. ASSUME NEW q \in n + 1..n + F PROVE new[q] \in C
    BY <1>11, <1>18 DEF IsNew
  <2>6. ASSUME new[p] = t.before PROVE at < p /\ OnlyInserted(d, new, at, p)
    <3>1. n = At(p) - 1
      BY <1>3, <1>11, <2>4, <2>6
    <3>2. p = n + F + 1
      BY <1>11, <2>4, <3>1 DEF At, IsOld
    <3>3. at < p /\ at + 1..p - 1 \subseteq n + 1..n + F
      BY <1>11, <2>2, <3>2
    <3> QED BY <2>5, <3>3 DEF OnlyInserted
  <2>7. ASSUME new[p] = t.after, t.before = NoStep PROVE p < at /\ OnlyInserted(d, new, p, at)
    <3>1. n = At(p)
      BY <1>3, <1>11, <2>4, <2>7
    <3>2. p = n
      BY <1>11, <2>4, <3>1 DEF At, IsOld
    <3>3. p < at /\ p + 1..at - 1 \subseteq n + 1..n + F
      BY <1>11, <2>2, <3>2
    <3> QED BY <2>5, <3>3 DEF OnlyInserted
  <2> QED BY <2>6, <2>7
<1>21. new \in Seq(S)
  BY <1>7 DEF Places
<1>22. \A j \in Upto(i), at \in DOMAIN new :
         new[at] \in New(d, all, j) => InPlace(d, new, d.transitions[j], at)
  BY <1>9, <1>19, <1>20
<1> QED
  BY <1>4, <1>5, <1>6, <1>10, <1>21, <1>22 DEF OrderSoFar

\* One transition of the loop of ResolveOrder.
Spliced(t, all, order) == IF Taken(t, all) THEN SpliceIn(order, t.insert, t.before, t.after) ELSE order

\* The loop, as the definition has it and as its steps.
Resolves(d, all, g) ==
  g = [i \in 0..Len(d.transitions) |->
         IF i = 0 THEN Base(d)
         ELSE LET t == d.transitions[i]
              IN IF Taken(t, all) THEN SpliceIn(g[i - 1], t.insert, t.before, t.after) ELSE g[i - 1]]

Resolving(d, all, g) ==
  g[0] = Base(d) /\ \A i \in 1..Len(d.transitions) : g[i] = Spliced(d.transitions[i], all, g[i - 1])

LEMMA ResolvesSteps ==
  ASSUME NEW d, WellFormed(d), NEW all, NEW g, Resolves(d, all, g)
  PROVE  Resolving(d, all, g)
<1>1. \A i \in 0..Len(d.transitions) :
        g[i] = IF i = 0 THEN Base(d)
               ELSE LET t == d.transitions[i]
                    IN IF Taken(t, all) THEN SpliceIn(g[i - 1], t.insert, t.before, t.after) ELSE g[i - 1]
  BY Zenon DEF Resolves
<1>2. 0 \in 0..Len(d.transitions) /\ \A i \in 1..Len(d.transitions) : i \in 0..Len(d.transitions) /\ i # 0
  BY WellFormedParts
<1> QED
  BY <1>1, <1>2, Zenon DEF Resolving, Spliced

LEMMA ResolveOrderIsALoop ==
  ASSUME NEW d, WellFormed(d), NEW all
  PROVE  \E g : Resolving(d, all, g) /\ ResolveOrder(d, all) = g[Len(d.transitions)]
<1> DEFINE N == Len(d.transitions)
           S == ToSet(d.steps)
           X == {s \in Seq(S) : IsInjective(s)}
           step == [i \in 1..N |-> [s \in X |-> Spliced(d.transitions[i], all, s)]]
<1>1. N \in Nat /\ Base(d) \in X
  BY WellFormedParts, BaseIsSound DEF OrderSoFar
<1>2. ASSUME NEW i \in 1..N, NEW s \in X PROVE Spliced(d.transitions[i], all, s) \in X
  <2> DEFINE t == d.transitions[i]
             n == Prefix(s, t.before, t.after)
  <2>1. t.insert \in Seq(S) /\ IsInjective(t.insert) /\ NoStep \notin S
    BY WellFormedParts
  <2>2. s \in Seq(S) /\ IsInjective(s)
    OBVIOUS
  <2>3. n \in 0..Len(s)
    BY <2>1, <2>2, PrefixEnds
  <2> HIDE DEF n
  <2>4. Places(S, s, n, Without(t.insert, ToSet(s)), InsertAfter(s, n, t.insert))
    BY <2>1, <2>2, <2>3, InsertAfterPlaces
  <2>5. IsInjective(InsertAfter(s, n, t.insert))
    BY <2>1, <2>2, <2>3, InsertAfterIsWhole
  <2>6. InsertAfter(s, n, t.insert) \in X
    BY <2>4, <2>5 DEF Places
  <2> QED BY <2>6 DEF Spliced, SpliceIn, n
<1>3. step \in [1..N -> [X -> X]]
  BY <1>2
<1>4. \A i \in 1..N, s \in X : step[i][s] = Spliced(d.transitions[i], all, s)
  OBVIOUS
<1> HIDE DEF step, X
<1>5. PICK h \in [0..N -> X] : h[0] = Base(d) /\ \A i \in 1..N : h[i] = step[i][h[i - 1]]
  <2>1. Runs(X, N, Base(d), step) # {}
    BY <1>1, <1>3, LoopExists
  <2> QED BY <2>1 DEF Runs
<1>6. ASSUME NEW i \in 1..N PROVE h[i] = Spliced(d.transitions[i], all, h[i - 1])
  <2>1. i - 1 \in 0..N
    BY <1>1
  <2>2. h[i - 1] \in X
    BY <2>1
  <2> QED BY <1>4, <1>5, <2>2
<1>7. Resolves(d, all, h)
  <2>1. ASSUME NEW i \in 0..N
        PROVE  h[i] = IF i = 0 THEN Base(d)
                      ELSE LET t == d.transitions[i]
                           IN IF Taken(t, all) THEN SpliceIn(h[i - 1], t.insert, t.before, t.after)
                              ELSE h[i - 1]
    <3>1. CASE i = 0
      BY <1>5, <3>1
    <3>2. CASE i # 0
      <4>1. i \in 1..N
        BY <1>1, <3>2
      <4> QED BY <1>6, <3>2, <4>1, Zenon DEF Spliced
    <3> QED BY <3>1, <3>2
  <2>2. h = [i \in 0..N |-> h[i]]
    BY Zenon
  <2> QED BY <2>1, <2>2, Zenon DEF Resolves
<1> DEFINE g == CHOOSE g : Resolves(d, all, g)
<1>8. Resolves(d, all, g)
  BY <1>7, Zenon
<1>9. ResolveOrder(d, all) = g[N]
  BY DEF ResolveOrder, Resolves
<1> HIDE DEF g
<1> QED
  BY <1>8, <1>9, ResolvesSteps

\* The order is sound after every transition.
LEMMA OrderStaysSound ==
  ASSUME NEW d, WellFormed(d), NEW all, NEW g, Resolving(d, all, g)
  PROVE  \A i \in 0..Len(d.transitions) : OrderSoFar(d, all, i, g[i])
<1> DEFINE N == Len(d.transitions)
           T == {i \in Nat : i <= N => OrderSoFar(d, all, i, g[i])}
<1>1. 0 \in T
  BY BaseIsSound DEF Resolving
<1>2. ASSUME NEW m \in Nat, m \in T PROVE m + 1 \in T
  <2> DEFINE i == m + 1
  <2>1. SUFFICES ASSUME i <= N PROVE OrderSoFar(d, all, i, g[i])
    OBVIOUS
  <2>2. i \in 1..N /\ i - 1 = m /\ i \in DOMAIN d.transitions
    BY <2>1, WellFormedParts
  <2>3. OrderSoFar(d, all, m, g[m])
    BY <1>2, <2>1
  <2>4. g[i] = Spliced(d.transitions[i], all, g[m])
    BY <2>2 DEF Resolving
  <2> HIDE DEF i
  <2>5. CASE Taken(d.transitions[i], all)
    <3>1. i \in TakenIn(d, all)
      BY <2>2, <2>5 DEF TakenIn
    <3>2. OrderSoFar(d, all, i - 1, g[m])
      BY <2>2, <2>3
    <3>3. g[i] = SpliceIn(g[m], d.transitions[i].insert, d.transitions[i].before, d.transitions[i].after)
      BY <2>4, <2>5 DEF Spliced
    <3> QED BY <3>1, <3>2, <3>3, SpliceInIsSound
  <2>6. CASE ~Taken(d.transitions[i], all)
    <3>1. g[i] = g[m]
      BY <2>4, <2>6 DEF Spliced
    <3>2. {j \in TakenIn(d, all) : j <= i} = {j \in TakenIn(d, all) : j <= m}
      <4>1. i \notin TakenIn(d, all)
        BY <2>6 DEF TakenIn
      <4>2. \A j \in TakenIn(d, all) : j \in Nat
        BY WellFormedParts DEF TakenIn
      <4> QED BY <2>2, <4>1, <4>2
    <3> QED BY <2>3, <3>1, <3>2 DEF OrderSoFar
  <2> QED BY <2>5, <2>6
<1>3. Nat \subseteq T
  <2> HIDE DEF T
  <2> QED BY <1>1, <1>2, SetInduction
<1>4. N \in Nat
  BY WellFormedParts
<1> QED
  BY <1>3, <1>4

\* Whatever the transitions of a definition and whatever was answered, the
\* order ResolveOrder returns is sound (order.go).
THEOREM ResolvedOrderIsSound ==
  ASSUME NEW d, WellFormed(d), NEW all
  PROVE  SoundOrder(d, all)
<1> DEFINE N == Len(d.transitions)
           order == ResolveOrder(d, all)
<1>1. N \in Nat /\ DOMAIN d.transitions = 1..N
  BY WellFormedParts
<1>2. OrderSoFar(d, all, N, order)
  <2>1. PICK g : Resolving(d, all, g) /\ order = g[N]
    BY ResolveOrderIsALoop
  <2>2. N \in 0..N
    BY <1>1
  <2> QED BY <2>1, <2>2, OrderStaysSound
<1> HIDE DEF order
<1>3. {j \in TakenIn(d, all) : j <= N} = TakenIn(d, all)
  BY <1>1 DEF TakenIn
<1>4. /\ IsInjective(order)
      /\ ToSet(order) = ToSet(Base(d)) \cup UNION {Inserted(d, j) : j \in TakenIn(d, all)}
      /\ Without(order, Conditional(d)) = Base(d)
      /\ \A j \in TakenIn(d, all), at \in DOMAIN order :
           order[at] \in New(d, all, j) => InPlace(d, order, d.transitions[j], at)
  BY <1>2, <1>3 DEF OrderSoFar
<1> QED
  BY <1>4 DEF SoundOrder, order

----------------------------------------------------------------------------
(* The pages and the order while the user fills them in *)

FormTypeOK ==
  /\ definition \in FlowDefinitions
  /\ filled \in [DOMAIN definition.fields -> FormPages]

LEMMA KeptIsAFormPage ==
  ASSUME NEW d, NEW s, NEW page \in FormPages
  PROVE  Kept(d, s, page) \in FormPages
BY DEF Kept, FormPages

LEMMA FormInitTypeOK == FormInit => FormTypeOK
BY DEF FormInit, FormTypeOK, FormPages, BlankPage

LEMMA FormStepTypeOK == FormTypeOK /\ [FormNext]_flowVars => FormTypeOK'
<1> SUFFICES ASSUME FormTypeOK, [FormNext]_flowVars PROVE FormTypeOK'
  OBVIOUS
<1>1. ASSUME NEW s \in DOMAIN definition.fields, NEW page \in FormPages, SubmitPage(s, page)
      PROVE  FormTypeOK'
  <2>1. Kept(definition, s, page) \in FormPages
    BY KeptIsAFormPage
  <2> QED BY <1>1, <2>1 DEF FormTypeOK, SubmitPage
<1>2. CASE UNCHANGED flowVars
  BY <1>2 DEF FormTypeOK, flowVars
<1> QED BY <1>1, <1>2 DEF FormNext

\* One definition at a time, with a page for each of its steps.
LEMMA FormTypeCorrect == FormSpec => []FormTypeOK
BY FormInitTypeOK, FormStepTypeOK, PTL DEF FormSpec

\* The order is sound after every page of every definition that is published
\* (order.go).
THEOREM OrderIsAlwaysSound == FormSpec => []OrderIsSound
<1>1. FormTypeOK => OrderIsSound
  BY DefinitionsAssumption, ResolvedOrderIsSound DEF FormTypeOK, OrderIsSound
<1> QED BY <1>1, FormTypeCorrect, PTL

\* However far the user has come, no form lets a page go that is refused for
\* something they cannot see, for every field whose conditions both evaluators
\* read alike (resolve.go, form.js and expr.js against validate.go and expr.go).
THEOREM FormsAreAlwaysUsable == FormSpec => []FormsAreUsable
<1>1. FormTypeOK => FormsAreUsable
  <2>1. SUFFICES ASSUME FormTypeOK,
                        NEW s \in DOMAIN definition.fields, NEW typed \in FormPages
                 PROVE  RefusalsAreVisible(definition, s, typed, filled)
    BY DEF FormsAreUsable
  <2>2. WellFormed(definition) /\ \A f \in definition.fields[s] : f.key \in FieldKeys /\ f.required \in BOOLEAN
    BY <2>1, DefinitionsAssumption DEF FormTypeOK
  <2>3. DOMAIN typed = FieldKeys
    BY DEF FormPages
  <2> QED BY <2>1, <2>2, <2>3, FormRefusalsAreVisible
<1> QED BY <1>1, FormTypeCorrect, PTL

\* Every page that changes what is kept misses nothing (submit_handlers.go
\* against reconcile.go).
THEOREM AcceptedAlwaysMissesNothing == FormSpec => AcceptedMissesNothing
<1>1. ASSUME FormTypeOK, [FormNext]_flowVars,
             NEW s \in DOMAIN filled, filled'[s] # filled[s]
      PROVE  Missing(definition, s, filled'[s], filled') = {}
  <2>1. PICK t \in DOMAIN definition.fields, page \in FormPages : SubmitPage(t, page)
    BY <1>1 DEF FormNext, flowVars
  <2>2. DOMAIN filled = DOMAIN definition.fields
    BY <1>1 DEF FormTypeOK
  <2>3. s = t /\ filled' = [filled EXCEPT ![s] = Kept(definition, s, page)]
    BY <1>1, <2>1 DEF SubmitPage
  <2>4. filled'[s] = Kept(definition, s, page)
    BY <2>3
  <2>5. WellFormed(definition) /\ \A f \in definition.fields[s] : f.key \in DOMAIN page
    BY <1>1, <2>2, DefinitionsAssumption DEF FormTypeOK, FormPages
  <2>6. ValidateForm(definition, s, page, filled)
    BY <2>1, <2>3 DEF SubmitPage
  <2> QED BY <2>2, <2>3, <2>4, <2>5, <2>6, AcceptedPageMissesNothing
<1>2. FormTypeOK /\ [FormNext]_flowVars =>
        [\A s \in DOMAIN filled :
           filled'[s] # filled[s] => Missing(definition, s, filled'[s], filled') = {}]_flowVars
  BY <1>1
<1> QED BY <1>2, FormTypeCorrect, PTL DEF FormSpec, AcceptedMissesNothing
=============================================================================
