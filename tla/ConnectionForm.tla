--------------------------- MODULE ConnectionForm ---------------------------
(***************************************************************************)
(* Which fields of a connection go where: the form of the console           *)
(* (features/connections/connection-form.tsx), the schemas that check its   *)
(* payload (validation/connections.ts), the division into settings and      *)
(* secrets and the merge into the row (connections/service.ts,              *)
(* repository.ts), and what a tester is given of a row. Four tables that    *)
(* nothing but convention keeps in agreement.                              *)
(*                                                                         *)
(* A field is filled or blank; what is typed into it is ConnectionDialog's. *)
(***************************************************************************)
CONSTANT FormTypes   \* connection types the operator picks from

VARIABLES
  form,   \* the dialog: its type, mode, filled fields, and whether a test succeeded in it
  kept    \* the row: its type, the names in its settings and secrets, the flags that are set

formVars == <<form, kept>>

\* The attributes of each field. A checkbox is filled when it is checked.
FormFields == [
  digitalocean |-> [apiToken |-> {"required", "secret"}, writeApiToken |-> {"secret"}, apiUrl |-> {"default"}],
  proxmox |-> [apiUrl |-> {"required"}, tokenId |-> {"required"}, tokenSecret |-> {"required", "secret"},
               rejectUnauthorized |-> {"checkbox", "default"}, caCertPath |-> {}],
  postgres |-> [host |-> {"required"}, port |-> {"default"}, database |-> {"required"}, username |-> {"required"},
                password |-> {"required", "secret"}, sslMode |-> {"default", "select"}],
  redis |-> [host |-> {"required"}, port |-> {"default"}, password |-> {"secret"}, tls |-> {"checkbox"}, db |-> {"default"}],
  prometheus |-> [url |-> {"required"}, username |-> {}, password |-> {"secret"}],
  grafana |-> [url |-> {"required"}, apiToken |-> {"secret"}, organisationId |-> {}]]

ASSUME FormAssumption == FormTypes \subseteq DOMAIN FormFields

Marked(type, attribute) == {f \in DOMAIN FormFields[type] : attribute \in FormFields[type][f]}

InitialValues(type) == Marked(type, "default")

\* Seeded bug: a checkbox is sent only when it is checked.
PayloadOfFilled(type, filled) == filled

ToPayload(type, filled) == filled \union Marked(type, "checkbox")

----------------------------------------------------------------------------
\* The schemas. Those of creating and of testing are the same.

\* Seeded bug: an optional secret is required.
SchemaRequiredMore == [
  digitalocean |-> {"apiToken"}, proxmox |-> {"apiUrl", "tokenId", "tokenSecret"},
  postgres |-> {"host", "database", "username", "password"}, redis |-> {"host", "password"},
  prometheus |-> {"url"}, grafana |-> {"url"}]

SchemaRequired == [
  digitalocean |-> {"apiToken"}, proxmox |-> {"apiUrl", "tokenId", "tokenSecret"},
  postgres |-> {"host", "database", "username", "password"}, redis |-> {"host"},
  prometheus |-> {"url"}, grafana |-> {"url"}]

SchemaDefaults == [
  digitalocean |-> {"apiUrl"}, proxmox |-> {"rejectUnauthorized"}, postgres |-> {"port", "sslMode"},
  redis |-> {"port", "tls", "db"}, prometheus |-> {}, grafana |-> {}]

\* The rules about two fields are stripped from the union of the schemas (innerType).
CreateAccepts(type, sent) == SchemaRequired[type] \subseteq sent

ParsedCreate(type, sent) == sent \union SchemaDefaults[type]

----------------------------------------------------------------------------
\* split, the merge of an update, and buildProbeConfig.

ConfigurationNames == [
  digitalocean |-> {"apiUrl"}, proxmox |-> {"apiUrl", "tokenId", "rejectUnauthorized", "caCertPath"},
  postgres |-> {"host", "port", "database", "username", "sslMode", "readOnlyOverride"},
  redis |-> {"host", "port", "tls", "db"}, prometheus |-> {"url", "username"}, grafana |-> {"url", "organisationId"}]

SecretNames == [
  digitalocean |-> {"apiToken", "writeApiToken"}, proxmox |-> {"tokenSecret"}, postgres |-> {"password"},
  redis |-> {"password"}, prometheus |-> {"password"}, grafana |-> {"apiToken"}]

\* That there is a write token is itself a setting.
Split(type, body) ==
  [configuration |-> (body \intersect ConfigurationNames[type]) \union
                     (IF "writeApiToken" \in body THEN {"hasWriteToken"} ELSE {}),
   secrets |-> body \intersect SecretNames[type]]

\* Seeded bug: an update stores what was sent alone.
ReplacedParts(old, new) == new

MergedParts(old, new) == old \union new

\* What a tester is given an empty string for when the row lacks it.
ProbeNeeds == [
  digitalocean |-> {"apiToken"}, proxmox |-> {"apiUrl", "tokenId", "tokenSecret"},
  postgres |-> {"host", "database", "username", "password"}, redis |-> {"host"},
  prometheus |-> {"url"}, grafana |-> {"url"}]

----------------------------------------------------------------------------

NoForm == [mode |-> "none", type |-> "none", filled |-> {}, tested |-> FALSE]

NoneKept == [type |-> "none", configuration |-> {}, secrets |-> {}, checked |-> {}]

FormInit == form = NoForm /\ kept = NoneKept

\* Seeded bug: whatever the dialog holds is a field.
AllHeld(type, names) == names

\* Of the values the dialog holds, those the form has a field for.
OfTheForm(type, names) == names \intersect DOMAIN FormFields[type]

StartCreateOf(type) ==
  /\ form = NoForm /\ kept.type = "none"
  /\ form' = [mode |-> "create", type |-> type, filled |-> InitialValues(type), tested |-> FALSE]
  /\ UNCHANGED kept

\* Secrets never come back; a setting the row lacks shows the form's default.
StartEditOf ==
  /\ form = NoForm /\ kept.type # "none"
  /\ form' = [mode |-> "edit", type |-> kept.type, tested |-> FALSE,
              filled |-> LET shown == InitialValues(kept.type) \union kept.configuration
                             unset == (Marked(kept.type, "checkbox") \intersect kept.configuration) \ kept.checked
                         IN  OfTheForm(kept.type, shown \ unset)]
  /\ UNCHANGED kept

Fill(field) ==
  /\ form.mode # "none" /\ field \in DOMAIN FormFields[form.type] \ form.filled
  /\ form' = [form EXCEPT !.filled = @ \union {field}]
  /\ UNCHANGED kept

Blank(field) ==
  /\ form.mode # "none" /\ field \in form.filled \ Marked(form.type, "select")
  /\ form' = [form EXCEPT !.filled = @ \ {field}]
  /\ UNCHANGED kept

Sent == ToPayload(form.type, form.filled)

\* The tester succeeds; it is not reached with a payload the schema refuses.
TestForm ==
  /\ form.mode # "none" /\ CreateAccepts(form.type, Sent)
  /\ form' = [form EXCEPT !.tested = TRUE]
  /\ UNCHANGED kept

SaveNew ==
  /\ form.mode = "create" /\ form.tested
  /\ CreateAccepts(form.type, Sent)
  /\ LET parts == Split(form.type, ParsedCreate(form.type, Sent)) IN
       kept' = [type |-> form.type, configuration |-> parts.configuration, secrets |-> parts.secrets,
                checked |-> form.filled \intersect Marked(form.type, "checkbox")]
  /\ form' = NoForm

\* The schema of an update asks for no field, and nothing tests it again.
SaveEdited ==
  /\ form.mode = "edit" /\ form.tested
  /\ LET parts == Split(form.type, Sent) IN
       kept' = [kept EXCEPT !.configuration = MergedParts(@, parts.configuration), !.secrets = MergedParts(@, parts.secrets),
                            !.checked = (@ \ Sent) \union (form.filled \intersect Sent \intersect Marked(form.type, "checkbox"))]
  /\ form' = NoForm

CancelForm ==
  /\ form # NoForm
  /\ form' = NoForm
  /\ UNCHANGED kept

RemoveKept ==
  /\ form = NoForm /\ kept.type # "none"
  /\ kept' = NoneKept
  /\ UNCHANGED form

FormNext ==
  \/ \E type \in FormTypes : StartCreateOf(type)
  \/ StartEditOf \/ TestForm \/ SaveNew \/ SaveEdited \/ CancelForm \/ RemoveKept
  \/ \E field \in UNION {DOMAIN FormFields[type] : type \in FormTypes} : Fill(field) \/ Blank(field)

FormSpec == FormInit /\ [][FormNext]_formVars

FormTypeOK ==
  /\ form.mode \in {"none", "create", "edit"} /\ form.type \in FormTypes \union {"none"} /\ form.tested \in BOOLEAN
  /\ form.type # "none" => form.filled \subseteq DOMAIN FormFields[form.type]
  /\ kept.type \in FormTypes \union {"none"} /\ kept.checked \subseteq kept.configuration

----------------------------------------------------------------------------
\* The required marks of the form and the schemas (connection-form.tsx:36,
\* validation/connections.ts:60): a new connection whose marked fields are filled is not
\* refused for a field that is missing.
MarkedFieldsSuffice ==
  form.mode = "create" /\ Marked(form.type, "required") \subseteq form.filled =>
    CreateAccepts(form.type, Sent)

\* buildProbeConfig (connections/service.ts:212): whatever was edited, a row has all that
\* its tester needs, though edits are not tested in the shape they are saved in.
RowsCanBeProbed == kept.type # "none" => ProbeNeeds[kept.type] \subseteq kept.configuration \union kept.secrets

\* toPayload, split and the merge (connection-form.tsx:177): a save keeps every field
\* that is filled, each flag as it is shown, and the secrets away from the settings.
SavesKeepWhatIsShown ==
  [][kept' # kept /\ kept'.type # "none" =>
       /\ form.filled \subseteq kept'.configuration \union kept'.secrets
       /\ kept'.checked = form.filled \intersect Marked(form.type, "checkbox")
       /\ kept'.configuration \intersect Marked(form.type, "secret") = {}]_formVars

\* What the form promises: it asks for enough, and it loses nothing it shows.
FormPromise ==
  /\ []FormTypeOK
  /\ []MarkedFieldsSuffice
  /\ []RowsCanBeProbed
  /\ SavesKeepWhatIsShown
=============================================================================
