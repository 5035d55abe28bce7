---------------------------- MODULE SettingsPage ---------------------------
(***************************************************************************)
(* The console's settings: the page (settings/page.tsx), the table behind  *)
(* it (services/settings.ts) and the job that obeys two of them            *)
(* (db/retention.ts). Rows of the page are saved one by one, several at a   *)
(* time; another operator calls the API as well. A text is what a browser   *)
(* and the job make of it; a number that is stored and shown is its text    *)
(* again.                                                                  *)
(***************************************************************************)
EXTENDS Integers, FiniteSets

CONSTANTS
  Settings,      \* the settings there are, with the type each was seeded with
  Seeded,        \* setting -> the text of its first value
  Reads,         \* text -> the number it reads as, or NaN
  NaN,
  Fallbacks,     \* setting the retention job reads -> the days it takes instead
  SaveCalls,     \* the page's saves, several at a time
  OldestDay,     \* bound on the age of a row, in days
  MaxSettingWrites

\* What is seeded is a truth or a number, and what the job takes instead is at least a day.
SettingsAssumption ==
  /\ NaN \notin Int /\ Reads \in [DOMAIN Reads -> Int \union {NaN}]
  /\ DOMAIN Seeded = Settings
  /\ \A s \in Settings :
       /\ Seeded[s] \in DOMAIN Reads
       /\ Seeded[s] \in {"true", "false"} \/ (Seeded[s] # "" /\ Reads[Seeded[s]] # NaN)
  /\ DOMAIN Fallbacks \subseteq Settings
  /\ \A s \in DOMAIN Fallbacks : Fallbacks[s] \in Nat \ {0}
  /\ OldestDay \in Nat \ {0} /\ MaxSettingWrites \in Nat
  /\ "no text" \notin DOMAIN Reads /\ "nothing" \notin Settings
ASSUME SettingsAssumption

VARIABLES
  stored,        \* the table console_settings
  keptAges,      \* for each such setting, the ages of the rows the job prunes by it
  shown,         \* what the page shows: [data, at: how many writes it has seen]
  fetch,         \* the page's refetch: not there, asked, or what it has read
  drafts,        \* the texts typed; NoText for none
  saving,        \* the setting whose button spins
  saves,
  settingWrites  \* how many writes there were

settingVars == <<stored, keptAges, shown, fetch, drafts, saving, saves, settingWrites>>

LockedKeys == {"database.production_read_only", "deployments.require_production_approval"}

Numeric(text) == text # "" /\ Reads[text] # NaN
Truth == {"true", "false"}

\* A value of the table, by its type and its text.
StoredSetting ==
  {value \in [type : {"number", "text", "boolean"}, text : DOMAIN Reads] :
     /\ value.type = "number" => Numeric(value.text)
     /\ value.type = "boolean" => value.text \in Truth}

NoText == "no text"
NoKey == "nothing"

\* Of a save: wrote is the number of its write.
Save == [step : {"free", "sent", "wrote", "refetching", "replaced"}, key : Settings \union {NoKey},
         text : DOMAIN Reads \union {NoText}, wrote : 0..MaxSettingWrites]
NoSave == [step |-> "free", key |-> NoKey, text |-> NoText, wrote |-> 0]

SettingsTypeOK ==
  /\ stored \in [Settings -> StoredSetting] /\ keptAges \in [DOMAIN Fallbacks -> SUBSET (0..OldestDay)]
  /\ settingWrites \in 0..MaxSettingWrites
  /\ shown \in [data : [Settings -> StoredSetting], at : 0..settingWrites]
  /\ fetch \in [step : {"idle", "asked", "read"}, data : [Settings -> StoredSetting], at : 0..settingWrites]
  /\ drafts \in [Settings -> DOMAIN Reads \union {NoText}] /\ saving \in Settings \union {NoKey}
  /\ saves \in [SaveCalls -> Save]

SettingsInit ==
  /\ stored = [s \in Settings |-> [type |-> IF Seeded[s] \in Truth THEN "boolean" ELSE "number",
                                   text |-> Seeded[s]]]
  /\ keptAges = [s \in DOMAIN Fallbacks |-> 0..OldestDay]
  /\ shown = [data |-> stored, at |-> 0]
  /\ fetch = [step |-> "idle", data |-> stored, at |-> 0]
  /\ drafts = [s \in Settings |-> NoText] /\ saving = NoKey
  /\ saves = [c \in SaveCalls |-> NoSave]
  /\ settingWrites = 0

----------------------------------------------------------------------------
\* The page.

TypeDraft(s, text) ==
  /\ s \notin LockedKeys /\ drafts' = [drafts EXCEPT ![s] = text]
  /\ UNCHANGED <<stored, keptAges, shown, fetch, saving, saves, settingWrites>>

\* The button of a row is off while the row has nothing new, or is the one saved last.
MaySave(s) == s \notin LockedKeys /\ drafts[s] \notin {NoText, shown.data[s].text} /\ saving # s

SaveSetting(c, s) ==
  /\ MaySave(s) /\ saves[c] = NoSave
  /\ saves' = [saves EXCEPT ![c] = [step |-> "sent", key |-> s, text |-> drafts[s], wrote |-> 0]]
  /\ saving' = s
  /\ UNCHANGED <<stored, keptAges, shown, fetch, drafts, settingWrites>>

\* updateSetting: a guardrail is only ever set to true.
Refused(s, value) == s \in LockedKeys /\ value # [type |-> "boolean", text |-> "true"]

StoreSetting(s, value) ==
  /\ settingWrites < MaxSettingWrites /\ ~Refused(s, value)
  /\ stored' = [stored EXCEPT ![s] = value]
  /\ settingWrites' = settingWrites + 1

UpdateSetting(c) ==
  /\ saves[c].step = "sent"
  /\ StoreSetting(saves[c].key, [type |-> IF Numeric(saves[c].text) THEN "number" ELSE "text", text |-> saves[c].text])
  /\ saves' = [saves EXCEPT ![c].step = "wrote", ![c].wrote = settingWrites']
  /\ UNCHANGED <<keptAges, shown, fetch, drafts, saving>>

UpdatedElsewhere(s, value) ==
  /\ StoreSetting(s, value)
  /\ UNCHANGED <<keptAges, shown, fetch, drafts, saving, saves>>

\* Seeded bug: a fetch that is on its way will do.
JoinRefetch == fetch' = IF fetch.step = "idle" THEN [fetch EXCEPT !.step = "asked"] ELSE fetch

\* invalidateQueries drops a fetch that is on its way, and whoever waits for it goes on.
RefetchSettings == fetch' = [fetch EXCEPT !.step = "asked"]

\* The draft goes, and what has been typed since it was sent with it.
SaveAnswered(c) ==
  /\ saves[c].step = "wrote"
  /\ drafts' = [drafts EXCEPT ![saves[c].key] = NoText]
  /\ RefetchSettings
  /\ saves' = [d \in SaveCalls |->
                 IF d = c THEN [saves[c] EXCEPT !.step = "refetching"]
                 ELSE IF saves[d].step = "refetching" /\ fetch.step # "idle" THEN [saves[d] EXCEPT !.step = "replaced"]
                 ELSE saves[d]]
  /\ UNCHANGED <<stored, keptAges, shown, saving, settingWrites>>

\* The save fails before or after its write; the draft stays.
SaveFails(c) ==
  /\ saves[c].step \in {"sent", "wrote"}
  /\ saves' = [saves EXCEPT ![c] = NoSave] /\ saving' = NoKey
  /\ UNCHANGED <<stored, keptAges, shown, fetch, drafts, settingWrites>>

\* A refetch that fails counts as over, and leaves the page as it is; that is left out.
SaveDone(c) ==
  /\ saves[c].step = "replaced" \/ (saves[c].step = "refetching" /\ fetch.step = "idle")
  /\ saves' = [saves EXCEPT ![c] = NoSave] /\ saving' = NoKey
  /\ UNCHANGED <<stored, keptAges, shown, fetch, drafts, settingWrites>>

ListSettings ==
  /\ fetch.step = "asked" /\ fetch' = [step |-> "read", data |-> stored, at |-> settingWrites]
  /\ UNCHANGED <<stored, keptAges, shown, drafts, saving, saves, settingWrites>>

SettingsArrive ==
  /\ fetch.step = "read" /\ fetch' = [fetch EXCEPT !.step = "idle"]
  /\ shown' = [data |-> fetch.data, at |-> fetch.at]
  /\ UNCHANGED <<stored, keptAges, drafts, saving, saves, settingWrites>>

\* The window gets the focus.
FocusSettings ==
  /\ fetch.step = "idle" /\ RefetchSettings
  /\ UNCHANGED <<stored, keptAges, shown, drafts, saving, saves, settingWrites>>

----------------------------------------------------------------------------
\* runRetention. Number(value): a boolean is 0 or 1, and Reads says what a text is.

DaysOf(value) == IF value.type = "boolean" THEN (IF value.text = "true" THEN 1 ELSE 0) ELSE Reads[value.text]

\* Seeded bug: any number of days is taken.
DaysOfAnyNumber(s) == IF DaysOf(stored[s]) = NaN THEN Fallbacks[s] ELSE DaysOf(stored[s])

NumericSetting(s) ==
  IF DaysOf(stored[s]) = NaN \/ DaysOf(stored[s]) <= 0 THEN Fallbacks[s] ELSE DaysOf(stored[s])

RunRetention ==
  /\ keptAges' = [s \in DOMAIN Fallbacks |-> {age \in keptAges[s] : age <= NumericSetting(s)}]
  /\ keptAges' # keptAges
  /\ UNCHANGED <<stored, shown, fetch, drafts, saving, saves, settingWrites>>

SettingsNext ==
  \/ \E s \in Settings :
       \/ \E c \in SaveCalls : SaveSetting(c, s)
       \/ \E text \in DOMAIN Reads : TypeDraft(s, text)
       \/ \E value \in StoredSetting : UpdatedElsewhere(s, value)
  \/ \E c \in SaveCalls : UpdateSetting(c) \/ SaveAnswered(c) \/ SaveFails(c) \/ SaveDone(c)
  \/ ListSettings \/ SettingsArrive \/ FocusSettings \/ RunRetention

SettingsSpec == SettingsInit /\ [][SettingsNext]_settingVars

----------------------------------------------------------------------------
\* numericSetting (retention.ts:19): whatever has been saved, by the page or past it, the
\* job leaves the rows of the last day.
RetentionLeavesTheLastDay == \A s \in DOMAIN Fallbacks : 0..1 \subseteq keptAges[s]

\* save (settings/page.tsx:80): when a save is over the page shows its setting as that save
\* left it or later, or is about to, however other saves and refetches fell between.
SavedSettingsAreShown ==
  [][\A c \in SaveCalls :
       saves[c].step \in {"refetching", "replaced"} /\ saves'[c] = NoSave =>
         shown.at >= saves[c].wrote \/ fetch.step = "asked" \/ (fetch.step = "read" /\ fetch.at >= saves[c].wrote)]_settingVars

\* What the settings promise those who save them and the job that obeys them.
SettingsPromise ==
  /\ []SettingsTypeOK
  /\ []RetentionLeavesTheLastDay
  /\ SavedSettingsAreShown
=============================================================================
