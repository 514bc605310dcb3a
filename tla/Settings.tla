------------------------------ MODULE Settings ------------------------------
(***************************************************************************)
(* Run-time settings: the YAML file, its copies in memory, the rows of      *)
(* system_settings and the configuration in effect.  Handlers save          *)
(* settings, replace the file or reload it, and give way at every await.    *)
(***************************************************************************)
EXTENDS Integers, FiniteSets

CONSTANTS
    HotKeys,            \* hot keys
    SettingValues,      \* their values, and those of the secret
    SettingHandlers,    \* handlers that run concurrently
    MaxSaves            \* bound on the operations

VARIABLES
    yamlFile,       \* config.yaml: hot values and the secret
    file_config,    \* state.file_config
    yaml_hot,       \* SettingsEngine.yaml_hot
    settings,       \* system_settings: value and source of each key
    effective,      \* the configuration in effect
    saver,          \* what each handler does
    saves,          \* number of operations begun
    uiSaved,        \* ghost: the value last saved for each key, or Unset
    secretSet,      \* ghost: the secret of the file at the start, or entered since
    disturbed       \* ghost: handlers overlapped or failed, or the file was edited by hand

settingsVars == <<yamlFile, file_config, yaml_hot, settings, effective, saver, saves, uiSaved, secretSet, disturbed>>

Unset == "unset"
Mask == "***"

ASSUME SettingsAssumption == MaxSaves \in Nat /\ Unset \notin SettingValues /\ Mask \notin SettingValues

Hot == [HotKeys -> SettingValues]
Config == [hot : Hot, secret : SettingValues]       \* a file whose secret is entered, not masked
Resting == [at |-> "rest"]

\* merge_effective: the YAML values, with the rows saved in the UI on top
Merge(hot, rows) == [k \in HotKeys |-> IF rows[k].source = "ui" THEN rows[k].value ELSE hot[k]]

\* SettingsEngine::init at the first start
SettingsInit ==
    \E v \in SettingValues :
        /\ yamlFile = [hot |-> [k \in HotKeys |-> v], secret |-> v]
        /\ file_config = yamlFile /\ yaml_hot = yamlFile.hot
        /\ settings = [k \in HotKeys |-> [value |-> v, source |-> "file"]]
        /\ effective = yamlFile.hot
        /\ saver = [h \in SettingHandlers |-> Resting]
        /\ saves = 0 /\ uiSaved = [k \in HotKeys |-> Unset] /\ secretSet = v /\ disturbed = FALSE

BeginSave(h) ==
    /\ saver[h] = Resting
    /\ saves < MaxSaves /\ saves' = saves + 1
    /\ disturbed' = (disturbed \/ \E g \in SettingHandlers : saver[g] # Resting)
Proceed(h, state) == saver' = [saver EXCEPT ![h] = state]

-----------------------------------------------------------------------------
\* PUT /api/settings: hot keys and values are checked before any is stored.
put_settings(h, updates) ==
    /\ BeginSave(h)
    /\ Proceed(h, [at |-> "rows", kind |-> "put", todo |-> DOMAIN updates, new |-> updates])
    /\ UNCHANGED <<yamlFile, file_config, yaml_hot, settings, effective, uiSaved, secretSet>>

\* A masked secret is the one that the copy in memory has.
restore_masked_fields(body) == IF body.secret = Mask THEN [body EXCEPT !.secret = file_config.secret] ELSE body

\* PUT /api/config: the file is replaced at once, the copies follow.
put_config(h, body) ==
    /\ BeginSave(h)
    /\ LET cfg == restore_masked_fields(body)
       IN /\ yamlFile' = cfg
          /\ Proceed(h, [at |-> "rows", kind |-> "file", todo |-> HotKeys, new |-> cfg])
    /\ secretSet' = IF body.secret = Mask THEN secretSet ELSE body.secret
    /\ UNCHANGED <<file_config, yaml_hot, settings, effective, uiSaved>>

\* POST /api/config/reload
reload_config(h) ==
    /\ BeginSave(h)
    /\ Proceed(h, [at |-> "rows", kind |-> "file", todo |-> HotKeys, new |-> yamlFile])
    /\ UNCHANGED <<yamlFile, file_config, yaml_hot, settings, effective, uiSaved, secretSet>>

\* SettingsEngine::put stores a row
PutRow(h, k) ==
    /\ saver[h].at = "rows" /\ saver[h].kind = "put" /\ k \in saver[h].todo
    /\ settings' = [settings EXCEPT ![k] = [value |-> saver[h].new[k], source |-> "ui"]]
    /\ uiSaved' = [uiSaved EXCEPT ![k] = saver[h].new[k]]
    /\ Proceed(h, [saver[h] EXCEPT !.todo = @ \ {k}])
    /\ UNCHANGED <<yamlFile, file_config, yaml_hot, effective, saves, secretSet, disturbed>>

\* UPDATE ... WHERE source = 'file'
FileRow(row, value) == IF row.source = "file" THEN [row EXCEPT !.value = value] ELSE row

\* on_file_reload stores a row
ReloadRow(h, k) ==
    /\ saver[h].at = "rows" /\ saver[h].kind = "file" /\ k \in saver[h].todo
    /\ settings' = [settings EXCEPT ![k] = FileRow(settings[k], saver[h].new.hot[k])]
    /\ Proceed(h, [saver[h] EXCEPT !.todo = @ \ {k}])
    /\ UNCHANGED <<yamlFile, file_config, yaml_hot, effective, saves, uiSaved, secretSet, disturbed>>

\* After the last row: the YAML values are taken as the base of the merge
\* (those of the file, if it was reloaded), and the rows are asked for.
TakeBase(h) ==
    /\ saver[h].at = "rows" /\ saver[h].todo = {}
    /\ yaml_hot' = IF saver[h].kind = "file" THEN saver[h].new.hot ELSE yaml_hot
    /\ Proceed(h, [at |-> "select", kind |-> saver[h].kind, new |-> saver[h].new, base |-> yaml_hot'])
    /\ UNCHANGED <<yamlFile, file_config, settings, effective, saves, uiSaved, secretSet, disturbed>>

SelectRows(h) ==
    /\ saver[h].at = "select"
    /\ Proceed(h, [at |-> "store", kind |-> saver[h].kind, new |-> saver[h].new, merged |-> Merge(saver[h].base, settings)])
    /\ UNCHANGED <<yamlFile, file_config, yaml_hot, settings, effective, saves, uiSaved, secretSet, disturbed>>

\* Bug: the configuration in effect waits for the next reload
StoreEffective_FileOnly(h) ==
    /\ saver[h].at = "store"
    /\ effective' = IF saver[h].kind = "file" THEN saver[h].merged ELSE effective
    /\ file_config' = IF saver[h].kind = "file" THEN saver[h].new ELSE file_config
    /\ Proceed(h, Resting)
    /\ UNCHANGED <<yamlFile, yaml_hot, settings, saves, uiSaved, secretSet, disturbed>>

StoreEffective(h) ==
    /\ saver[h].at = "store"
    /\ effective' = saver[h].merged
    /\ file_config' = IF saver[h].kind = "file" THEN saver[h].new ELSE file_config
    /\ Proceed(h, Resting)
    /\ UNCHANGED <<yamlFile, yaml_hot, settings, saves, uiSaved, secretSet, disturbed>>

\* A statement fails: the handler answers 500 and what it has done stays.
SaveFails(h) ==
    /\ saver[h] # Resting /\ saver[h].at # "store"
    /\ Proceed(h, Resting) /\ disturbed' = TRUE
    /\ UNCHANGED <<yamlFile, file_config, yaml_hot, settings, effective, saves, uiSaved, secretSet>>

\* Someone edits config.yaml.
EditYaml(cfg) ==
    /\ saves < MaxSaves /\ saves' = saves + 1
    /\ yamlFile' = cfg /\ secretSet' = cfg.secret
    /\ disturbed' = TRUE
    /\ UNCHANGED <<file_config, yaml_hot, settings, effective, saver, uiSaved>>

\* The process starts again: the file is read, rows that exist are left alone.
StartAgain ==
    /\ saves < MaxSaves /\ saves' = saves + 1
    /\ file_config' = yamlFile /\ yaml_hot' = yamlFile.hot
    /\ effective' = Merge(yamlFile.hot, settings)
    /\ saver' = [h \in SettingHandlers |-> Resting]
    /\ secretSet' = yamlFile.secret /\ disturbed' = FALSE
    /\ UNCHANGED <<yamlFile, settings, uiSaved>>

SettingsNext ==
    \/ \E h \in SettingHandlers :
        \/ \E ks \in SUBSET HotKeys \ {{}} : \E updates \in [ks -> SettingValues] : put_settings(h, updates)
        \/ \E hot \in Hot, secret \in SettingValues \cup {Mask} : put_config(h, [hot |-> hot, secret |-> secret])
        \/ reload_config(h)
        \/ \E k \in HotKeys : PutRow(h, k) \/ ReloadRow(h, k)
        \/ TakeBase(h) \/ SelectRows(h) \/ StoreEffective(h) \/ SaveFails(h)
    \/ \E hot \in Hot, secret \in SettingValues : EditYaml([hot |-> hot, secret |-> secret])
    \/ StartAgain

SettingsSpec == SettingsInit /\ [][SettingsNext]_settingsVars

-----------------------------------------------------------------------------
Updates == UNION {[ks -> SettingValues] : ks \in SUBSET HotKeys}

SaverStates ==
    {Resting}
    \cup [at : {"rows"}, kind : {"put"}, todo : SUBSET HotKeys, new : Updates]
    \cup [at : {"rows"}, kind : {"file"}, todo : SUBSET HotKeys, new : Config]
    \cup [at : {"select"}, kind : {"put"}, new : Updates, base : Hot]
    \cup [at : {"select"}, kind : {"file"}, new : Config, base : Hot]
    \cup [at : {"store"}, kind : {"put"}, new : Updates, merged : Hot]
    \cup [at : {"store"}, kind : {"file"}, new : Config, merged : Hot]

SettingsTypeOK ==
    /\ yamlFile \in Config /\ file_config \in Config /\ yaml_hot \in Hot /\ effective \in Hot
    /\ settings \in [HotKeys -> [value : SettingValues, source : {"file", "ui"}]]
    /\ DOMAIN saver = SettingHandlers /\ \A h \in SettingHandlers : saver[h] \in SaverStates
    /\ saves \in 0 .. MaxSaves /\ uiSaved \in [HotKeys -> SettingValues \cup {Unset}] /\ disturbed \in BOOLEAN

AllResting == \A h \in SettingHandlers : saver[h] = Resting

\* At rest the configuration in effect is the file's, with the values saved in
\* the UI on top: a restart would change nothing.  (Unless handlers
\* overlapped or failed, or the file was edited by hand, since the start.)
RestartChangesNothing ==
    AllResting /\ ~disturbed => effective = Merge(yamlFile.hot, settings) /\ file_config = yamlFile /\ yaml_hot = yamlFile.hot

\* Whatever is loaded from the file, and whatever handlers overlap, a value
\* that was saved in the UI stays what it was saved as.
UiValueKept == \A k \in HotKeys : uiSaved[k] # Unset => settings[k] = [value |-> uiSaved[k], source |-> "ui"]

\* An exported configuration may be sent back with its masks: the file keeps
\* the secret that was last entered, with the same exceptions.
SecretSurvivesMask == ~disturbed => yamlFile.secret = secretSet

\* What was saved stays in force: the file, the table and the copies in memory say the
\* same at rest, a reload keeps the values of the UI, and a mask never becomes a secret.
SettingsFollow ==
    /\ SettingsTypeOK /\ RestartChangesNothing /\ UiValueKept
    /\ SecretSurvivesMask

\* The file keeps the secret last entered even when handlers overlap or fail.
\* (Refuted: the mask is replaced by the copy in memory, which follows late.)
SecretNeverReverts == yamlFile.secret = secretSet
=============================================================================
