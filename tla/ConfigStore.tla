---------------------------- MODULE ConfigStore ----------------------------
(***************************************************************************)
(* config_store.cpp: the configuration in RAM, its copy in flash (NVS,     *)
(* through the Preferences library), and the fallback built into the       *)
(* firmware.  A save writes key by key and the key `saved` last; power can *)
(* fail between two keys, and a write can fail.                            *)
(***************************************************************************)
EXTENDS WebConfig

CONSTANT
  Fallback      \* localFallback(): the configuration of the build

ConfigStoreAssumption ==
  /\ WebConfigAssumption
  /\ Fallback \in Configs /\ Sanitize(Fallback) = Fallback

VARIABLES
  nvs, nvsSaved,       \* flash: the string keys (an absent key reads as Empty), `saved`
  currentConfig, hasSavedConfig, preferencesOpen,
  step,                \* of configStoreSave(): the next key, or 0 outside it
  ok, clean,           \* its local variables
  asked,               \* history: the members of the request that is being saved
  before,              \* history: what a restart would have loaded before the save
  wasSaved,            \* history: `saved` before the save
  failed,              \* history: a save has failed since the last load, save or reset
  kept                 \* history: the keys the last save could not remove

vars == <<nvs, nvsSaved, currentConfig, hasSavedConfig, preferencesOpen, step, ok, clean, asked,
          before, wasSaved, failed, kept>>

\* What configStoreBegin() makes of the flash.
RestartConfig == IF nvsSaved THEN Sanitize(nvs) ELSE Fallback

Saving == step # 0

\* The last key is `saved`.  The version, which is always the same and comes
\* first, is written with SaveBegin.
LastStep == Len(Fields) + 1

\* configStoreBegin(), the flash opened or not; it never waits for a save.
Boot(opened) ==
  /\ preferencesOpen' = opened
  /\ currentConfig' = IF opened THEN RestartConfig ELSE Fallback
  /\ hasSavedConfig' = (opened /\ nvsSaved)
  /\ step' = 0 /\ ok' = TRUE /\ clean' = Fallback /\ asked' = <<>>
  /\ before' = Fallback /\ wasSaved' = FALSE /\ failed' = FALSE /\ kept' = {}
  /\ UNCHANGED <<nvs, nvsSaved>>

Init ==
  /\ nvs = [k \in Keys |-> Empty] /\ nvsSaved = FALSE
  /\ preferencesOpen = TRUE
  /\ currentConfig = Fallback /\ hasSavedConfig = FALSE
  /\ step = 0 /\ ok = TRUE /\ clean = Fallback /\ asked = <<>>
  /\ before = Fallback /\ wasSaved = FALSE /\ failed = FALSE /\ kept = {}

-----------------------------------------------------------------------------
(* configStoreSave() and configStoreReset() *)

\* ensurePreferencesOpen(): opened before, or now; if that fails the call ends
\* and has changed nothing.
Opened == preferencesOpen' = TRUE

\* handleConfigSave() of web_server.cpp; a request that is refused (answer 400)
\* changes nothing.
SaveBegin(request, put) ==
  /\ ~Saving
  /\ ParseConfigSave(request, currentConfig).result = "Ok"
  /\ Opened
  /\ clean' = Sanitize(ParseConfigSave(request, currentConfig).config)
  /\ asked' = request.members
  /\ step' = 1 /\ ok' = put
  /\ before' = RestartConfig /\ wasSaved' = nvsSaved /\ kept' = {}
  /\ UNCHANGED <<nvs, nvsSaved, currentConfig, hasSavedConfig, failed>>

\* writeString() of one key: a value is put; the key of an empty one is removed,
\* and the result of preferences.remove() is not looked at.
\* Faulty variant: the result of the last write is the result.
WriteString_LastResult(k, put) ==
  /\ nvs' = IF put THEN [nvs EXCEPT ![k] = clean[k]] ELSE nvs
  /\ kept' = IF put THEN kept ELSE kept \cup {k}
  /\ ok' = (put \/ clean[k] = Empty)

WriteString(k, put) ==
  /\ nvs' = IF put THEN [nvs EXCEPT ![k] = clean[k]] ELSE nvs
  /\ kept' = IF put THEN kept ELSE kept \cup {k}
  /\ ok' = ((put \/ clean[k] = Empty) /\ ok)

\* The key written in step s: the strings in order, `saved` at the end.
\* Faulty variant: `saved` first.
KeyOf_SavedFirst(s) == s - 1
KeyOf(s) == IF s = LastStep THEN 0 ELSE s

SaveKey(put) ==
  /\ Saving /\ step <= LastStep
  /\ step' = step + 1
  /\ IF KeyOf(step) = 0
     THEN /\ nvsSaved' = (put \/ nvsSaved)
          /\ ok' = (put /\ ok)
          /\ UNCHANGED <<nvs, kept>>
     ELSE WriteString(KeyOf(step), put) /\ UNCHANGED nvsSaved
  /\ UNCHANGED <<currentConfig, hasSavedConfig, preferencesOpen, clean, asked, before, wasSaved, failed>>

SaveEnd ==
  /\ step > LastStep
  /\ currentConfig' = IF ok THEN clean ELSE currentConfig
  /\ hasSavedConfig' = (ok \/ hasSavedConfig)
  /\ failed' = ~ok
  /\ step' = 0 /\ asked' = <<>>
  /\ UNCHANGED <<nvs, nvsSaved, preferencesOpen, ok, clean, before, wasSaved, kept>>

\* configStoreReset(): clear() empties the flash or fails; the RAM is emptied
\* either way.
Reset(cleared) ==
  /\ ~Saving
  /\ Opened
  /\ nvs' = IF cleared THEN [k \in Keys |-> Empty] ELSE nvs
  /\ nvsSaved' = (~cleared /\ nvsSaved)
  /\ currentConfig' = [k \in Keys |-> Empty]
  /\ hasSavedConfig' = FALSE
  /\ failed' = FALSE
  /\ UNCHANGED <<step, ok, clean, asked, before, wasSaved, kept>>

Next ==
  \/ \E opened \in BOOLEAN : Boot(opened)
  \/ \E request \in Requests, put \in BOOLEAN : SaveBegin(request, put)
  \/ \E put \in BOOLEAN : SaveKey(put)
  \/ SaveEnd
  \/ \E cleared \in BOOLEAN : Reset(cleared)

Spec == Init /\ [][Next]_vars

-----------------------------------------------------------------------------
(* Properties. *)

\* Types; and a save writes only to a flash that is open.
TypeOK ==
  /\ {nvs, currentConfig, clean, before} \subseteq Configs
  /\ {nvsSaved, hasSavedConfig, preferencesOpen, ok, wasSaved, failed} \subseteq BOOLEAN
  /\ step \in 0 .. LastStep + 1
  /\ kept \subseteq Keys
  /\ Saving => preferencesOpen

\* A saved configuration in use is the one that a restart finds, as long as no
\* later save failed half way, and but for the keys that could not be removed:
\* those alone come back without a save having been reported as failed.
SavedIsWhatRestartLoads ==
  hasSavedConfig /\ ~Saving /\ ~failed =>
    /\ nvsSaved
    /\ \A k \in Keys : RestartConfig[k] # currentConfig[k] =>
         k \in kept /\ currentConfig[k] = Empty

\* Power failing in the first save, at whatever key, leaves the device with all
\* of the old configuration or all of the new one: it joins no network with
\* the name of one and the password of another.
FirstSaveIsAtomic ==
  Saving /\ ~wasSaved /\ ok /\ kept = {} => RestartConfig \in {before, clean}

\* What is being saved is what the request says, field by field, and the
\* configuration in use for the fields it does not name: no value gets into the
\* field of another name, whatever the values look like, and no part of a request
\* is saved without the rest.
RequestsMeanWhatTheySay ==
  Saving =>
    /\ \A k \in Keys :
         LET given == {m \in ToSet(asked) : m[1] = Fields[k]}
         IN  clean[k] = IF given = {} THEN currentConfig[k] ELSE (CHOOSE m \in given : TRUE)[2]
    /\ clean = Sanitize(clean)
=============================================================================
