------------------------------ MODULE Preferences ------------------------------
(***************************************************************************)
(* The machine-local preferences file (src/internal/config/preferences.go) *)
(* and those who change it: the daemon's requests (handlers_security.go),  *)
(* which share one mutex, and the commands `config favorites`, `defaults`, *)
(* `lang` and `dashboard` (src/cmd/kongtrol/cmd_config.go, preferences.go), *)
(* each in a process of its own, which load and save with nothing held in  *)
(* between.                                                                *)
(*                                                                         *)
(* Of a field only the editor that changed it last is kept.  Each editor   *)
(* makes one edit.                                                         *)
(***************************************************************************)
EXTENDS Naturals

CONSTANTS
    Requests,   \* PUT /preferences, all in the daemon's process
    Commands,   \* commands that edit the preferences
    Unset,      \* a field nobody has set
    Unlocked    \* preferencesMu is free

ASSUME EditorsAssumption ==
    /\ Requests \intersect Commands = {}
    /\ Unlocked \notin Requests

Editors == Requests \union Commands
Fields == {"language", "theme", "favorites", "dashboard"}

(* A request sets the language, the theme or both; a command one field.    *)
EditsOf(e) ==
    IF e \in Requests THEN {{"language"}, {"theme"}, {"language", "theme"}}
    ELSE {{"language"}, {"favorites"}, {"dashboard"}}

NoCopy == [f \in Fields |-> Unset]

VARIABLES
    prefs,      \* the file: who has changed each field last
    preferencesMu, \* the daemon's mutex
    editing,    \* where each editor is: idle, holding, loaded, done, refused
    copy,       \* what it has loaded
    overwritten \* pairs: a change of the first was undone by the second (history)

prefVars == <<prefs, preferencesMu, editing, copy, overwritten>>

InitPreferences ==
    /\ prefs = NoCopy
    /\ preferencesMu = Unlocked
    /\ editing = [e \in Editors |-> "idle"]
    /\ copy = [e \in Editors |-> NoCopy]
    /\ overwritten = {}

Moves(e, from, to) ==
    /\ editing[e] = from
    /\ editing' = [editing EXCEPT ![e] = to]

(* A bug: the request loads and saves as a command does.                   *)
EntersFreely(e) == UNCHANGED preferencesMu

(* UpdatePreferences holds the mutex from its load to its save.            *)
Enters(e) ==
    IF e \in Requests
    THEN preferencesMu = Unlocked /\ preferencesMu' = e
    ELSE UNCHANGED preferencesMu

Leaves(e) ==
    preferencesMu' = IF preferencesMu = e THEN Unlocked ELSE preferencesMu

LoadPreferences(e) ==
    /\ Moves(e, "idle", "loaded")
    /\ Enters(e)
    /\ copy' = [copy EXCEPT ![e] = prefs]
    /\ UNCHANGED <<prefs, overwritten>>

(* The edit is valid and the file replaced at once (WriteFileAtomic): the  *)
(* fields that have changed since the load go back to what they were.      *)
SavePreferences(e) ==
    /\ Moves(e, "loaded", "done")
    /\ \E edit \in EditsOf(e) :
         LET stale == {f \in Fields \ edit : copy[e][f] # prefs[f]}
         IN  /\ prefs' = [f \in Fields |-> IF f \in edit \union stale THEN e ELSE prefs[f]]
             /\ overwritten' = overwritten \union {<<prefs[f], e>> : f \in stale}
    /\ Leaves(e)
    /\ copy' = [copy EXCEPT ![e] = NoCopy]

(* The edit is refused, or the file cannot be written.                     *)
RefusePreferences(e) ==
    /\ Moves(e, "loaded", "refused")
    /\ Leaves(e)
    /\ copy' = [copy EXCEPT ![e] = NoCopy]
    /\ UNCHANGED <<prefs, overwritten>>

PreferencesStep(e) ==
    LoadPreferences(e) \/ SavePreferences(e) \/ RefusePreferences(e)

--------------------------------------------------------------------------------
(* The requests of the daemon never lose each other's edits: what a        *)
(* confirmed edit of theirs is lost to is a command, and what they lose    *)
(* is a command's (preferences.go:91-106).                                 *)
RequestsKeepEdits == overwritten \intersect (Requests \X Requests) = {}
================================================================================
