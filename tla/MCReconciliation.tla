-------------------------- MODULE MCReconciliation --------------------------
(***************************************************************************)
(* A cut of the seeded flows. Version 1 asks for a country, a tax number   *)
(* from residents of ID only, an id card and the terms. Version 2 also     *)
(* asks for a tax id with the country, and sends US persons through FATCA. *)
(***************************************************************************)
EXTENDS Reconciliation, TLC

CONSTANTS r1, r2

StepIds == {"contact_address", "employment_income", "fatca_form", "id_card", "tnc"}
FieldKeys == {"country", "tax_id", "npwp", "us_tin"}
FieldValues == {"US", "ID"}

Compared(c) == [op |-> "in", step |-> "contact_address", key |-> "country", values |-> {c}]
Always ==
  [op |-> "", step |-> NoStep, key |-> "country", values |-> {}, client |-> [parses |-> FALSE, anyOf |-> {}]]
CountryIs(c) ==
  [op |-> "in", step |-> "contact_address", key |-> "country", values |-> {c},
   client |-> [parses |-> TRUE, anyOf |-> {{Compared(c)}}]]
Required(key, allowed) ==
  [key |-> key, required |-> TRUE, required_when |-> Always, visible_when |-> Always, allowed |-> allowed]

Country == Required("country", {"US", "ID"})
TaxId == Required("tax_id", {"ID"})
Npwp == [Required("npwp", {"ID"}) EXCEPT
  !.required = FALSE, !.required_when = CountryIs("ID"), !.visible_when = CountryIs("ID")]
UsTin == Required("us_tin", {"US"})

Types ==
  [s \in StepIds |-> CASE s = "id_card" -> "camera" [] s = "tnc" -> "document" [] OTHER -> "form"]
FieldsOf(contact) ==
  [s \in StepIds |->
     CASE s = "contact_address"   -> contact
       [] s = "employment_income" -> {Npwp}
       [] s = "fatca_form"        -> {UsTin}
       [] OTHER                   -> {}]

V1 ==
  [steps |-> <<"contact_address", "employment_income", "id_card", "tnc">>,
   type |-> Types, fields |-> FieldsOf({Country}), transitions |-> <<>>]
V2 ==
  [steps |-> <<"contact_address", "employment_income", "fatca_form", "id_card", "tnc">>,
   type |-> Types, fields |-> FieldsOf({Country, TaxId}),
   transitions |-> <<[from |-> "contact_address", when |-> CountryIs("US"),
                      insert |-> <<"fatca_form">>, before |-> "id_card", after |-> NoStep]>>]

TwoVersions == <<V1, V2>>

\* For requests that overlap, what V2 changes: the two forms and the card.
ShortSteps == {"contact_address", "fatca_form", "id_card"}
ShortKeys == {"country", "tax_id", "us_tin"}
Short(v, order) ==
  [v EXCEPT !.steps = order,
            !.type = [s \in ShortSteps |-> @[s]], !.fields = [s \in ShortSteps |-> @[s]]]
ShortVersions ==
  <<Short(V1, <<"contact_address", "id_card">>), Short(V2, <<"contact_address", "fatca_form", "id_card">>)>>

Interchangeable == Permutations(Requests)

=============================================================================
