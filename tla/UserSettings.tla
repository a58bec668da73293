---------------------------- MODULE UserSettings ----------------------------
(***************************************************************************)
(* The user settings plugin: groups of keys in an NVS partition, a         *)
(* namespace for each group.  A request to set writes key after key, each  *)
(* write durable by itself; one that fails aborts the device.  So does a   *)
(* request to get a group of which a key was never set, unless the key is  *)
(* a string.                                                               *)
(***************************************************************************)
EXTENDS Naturals, FiniteSets

CONSTANTS
    Groups, Keys,       \* the groups, and the keys each is configured with
    StringKeys,         \* those whose type is a string
    SettingValues, Unset

ASSUME SettingsAssumption ==
    /\ StringKeys \subseteq Keys
    /\ Unset \notin Groups \cup SettingValues

VARIABLES
    known,              \* groups whose namespace exists in the partition
    stored,             \* what the partition holds
    setting             \* the request to set that is handled

settingsVars == <<known, stored, setting>>

\* A request is for one group and names some of its keys, each with a value or,
\* where the type of the value is none the schema knows, with none.
Assignments == UNION {[keys -> SettingValues \cup {Unset}] : keys \in SUBSET Keys \ {{}}}

\* The keys that a request really sets.
Given(value) == {k \in DOMAIN value : value[k] # Unset}

SetRequests == [group : Groups, value : Assignments]

NotSetting == [group |-> Unset, value |-> Unset, todo |-> {}]

SettingsTypeOK ==
    /\ known \subseteq Groups
    /\ stored \in [Groups -> [Keys -> SettingValues \cup {Unset}]]
    /\ \A g \in Groups \ known : \A k \in Keys : stored[g][k] = Unset
    /\ setting # NotSetting =>
          /\ setting \in [group : known, value : Assignments, todo : SUBSET Keys]
          /\ setting.todo \subseteq DOMAIN setting.value

\* Opening for writing creates the namespace.
BeginSet(request) ==
    /\ known' = known \cup {request.group}
    /\ setting' = [group |-> request.group, value |-> request.value,
                   todo |-> DOMAIN request.value]
    /\ UNCHANGED stored

\* A value of an unknown type is passed over, and its key acknowledged.
SetKey(k) ==
    /\ k \in setting.todo
    /\ stored' = [stored EXCEPT ![setting.group][k] =
                      IF k \in Given(setting.value) THEN setting.value[k] ELSE @]
    /\ setting' = [setting EXCEPT !.todo = @ \ {k}]
    /\ UNCHANGED known

\* Mutant: the last key is not reached.
FinishSetEarly ==
    /\ setting # NotSetting /\ Cardinality(setting.todo) <= 1
    /\ setting' = NotSetting
    /\ UNCHANGED <<known, stored>>

FinishSet ==
    /\ setting # NotSetting /\ setting.todo = {}
    /\ setting' = NotSetting
    /\ UNCHANGED <<known, stored>>

\* The keys written before a reset, or before a write that fails, stay.
CutSet == setting' = NotSetting /\ UNCHANGED <<known, stored>>

Missing(g) == {k \in Keys \ StringKeys : stored[g][k] = Unset}

GetAnswers(g) == g \in known /\ Missing(g) = {} /\ UNCHANGED settingsVars

\* Opening for reading a namespace that does not exist fails.
GetRefused(g) == g \notin known /\ UNCHANGED settingsVars

GetAborts(g) == g \in known /\ Missing(g) # {} /\ CutSet

SettingsInit ==
    /\ known = {} /\ setting = NotSetting
    /\ stored = [g \in Groups |-> [k \in Keys |-> Unset]]
=============================================================================
