----------------------------- MODULE FlowAnswers -----------------------------
(***************************************************************************)
(* A user who fills in the pages of one flow definition, in any order and  *)
(* as often as they like. submitForm is the only writer of the answers:    *)
(* the page it accepts replaces the one it kept before. What the order of  *)
(* the steps, the forms and the repairs promise is asked after every page. *)
(***************************************************************************)
EXTENDS FlowDefinition

CONSTANTS
  FlowDefinitions,  \* the definitions that may be published
  FieldKeys,        \* the keys of their fields
  FieldValues       \* what a field may be answered

VARIABLES
  definition,  \* the definition the session is on
  filled       \* the answers, page by page

flowVars == <<definition, filled>>

FormPages == [FieldKeys -> FieldValues \cup {Blank}]
BlankPage == [k \in FieldKeys |-> Blank]

ASSUME DefinitionsAssumption ==
  \A d \in FlowDefinitions :
    /\ WellFormed(d)
    /\ \A s \in DOMAIN d.fields : \A f \in d.fields[s] : f.key \in FieldKeys /\ f.required \in BOOLEAN

FormInit ==
  /\ definition \in FlowDefinitions
  /\ filled = [s \in DOMAIN definition.fields |-> BlankPage]

\* A form page that the server accepts.
SubmitPage(s, page) ==
  /\ definition.type[s] = "form"
  /\ ValidateForm(definition, s, page, filled)
  /\ filled' = [filled EXCEPT ![s] = Kept(definition, s, page)]
  /\ UNCHANGED definition

FormNext == \E s \in DOMAIN definition.fields, page \in FormPages : SubmitPage(s, page)

FormSpec == FormInit /\ [][FormNext]_flowVars

(* The order of the steps is sound whatever was answered (ResolveOrder).     *)
OrderIsSound == SoundOrder(definition, filled)

(* Whatever is typed into a form as it is rendered now, the server refuses   *)
(* nothing the user cannot see, for every field whose conditions expr.js and *)
(* expr.go read alike (resolve.go and form.js against validate.go).          *)
FormsAreUsable ==
  \A s \in DOMAIN definition.fields, typed \in FormPages :
    RefusalsAreVisible(definition, s, typed, filled)

(* A page that was just accepted misses nothing: what submitForm accepts     *)
(* with the answers as they were, computeRepairs does not send back with the *)
(* answers as they now are.                                                  *)
AcceptedMissesNothing ==
  [][\A s \in DOMAIN filled :
       filled'[s] # filled[s] => Missing(definition, s, filled'[s], filled') = {}]_flowVars
=============================================================================
