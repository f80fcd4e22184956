------------------------- MODULE CalibrationPresenter -------------------------
(***************************************************************************)
(* The calibration workspace of the analysis program:                      *)
(* src/esw_dfl/ui/calibration_presenter.py over the store of               *)
(* src/esw_dfl/sdr/calibration_store.py. All of it runs on one thread; the *)
(* files also change by the command line (calibration_cli.py), which may   *)
(* add a version or leave one nobody can read.                             *)
(***************************************************************************)
EXTENDS Integers, FiniteSets

CONSTANTS
  Keys,        \* profile_id and version
  Contents,    \* points of an imported file
  Signatures,  \* settings of the receiver
  Nothing,     \* no settings, no profile, no key
  Unreadable,  \* a file that is not a profile
  MaxChanges   \* bound: imports, by the window and from outside

VARIABLES
  files,     \* key -> [signature, points], Nothing or Unreadable
  settings,  \* _settings
  profiles,  \* keys of _profiles
  selected,  \* _selected_key
  chosen,    \* _active_key
  preview,   \* _preview_profile: [key, signature, points] or Nothing
  view,      \* _snapshot: what the window shows
  changes    \* count
workspaceVars == <<files, settings, profiles, selected, chosen, preview, view, changes>>

NoView ==
  [profiles |-> {}, selected |-> Nothing, active |-> Nothing, applies |-> FALSE,
   import |-> "none", file |-> Nothing, error |-> FALSE]

(* check_applicability, of a profile that was read                         *)
Applies(key, now) == key # Nothing /\ now # Nothing /\ files[key].signature = now

(* _rebuild(): a snapshot of everything, which keeps the preview shown.    *)
Rebuilt(known, key, active, now) ==
  [profiles |-> known, selected |-> (IF key \in known THEN key ELSE Nothing), active |-> active,
   applies |-> key \in known /\ Applies(key, now),
   import |-> view.import, file |-> view.file, error |-> FALSE]
WithError == [view EXCEPT !.error = TRUE]

WorkspaceInit ==
  /\ files = [k \in Keys |-> Nothing] /\ settings = Nothing /\ profiles = {}
  /\ selected = Nothing /\ chosen = Nothing /\ preview = Nothing /\ view = NoView /\ changes = 0

(* refresh(): one unreadable file and there is no list at all.             *)
Refreshed(disk) ==
  \/ /\ \E k \in Keys : disk[k] = Unreadable
     /\ profiles' = {} /\ view' = [NoView EXCEPT !.error = TRUE]
     /\ UNCHANGED chosen
  \/ /\ \A k \in Keys : disk[k] # Unreadable
     /\ \E known \in {{k \in Keys : disk[k] # Nothing}} :
          /\ profiles' = known
          /\ chosen' = IF chosen \in known THEN chosen ELSE Nothing
          /\ view' = [profiles |-> known, selected |-> selected',
                      active |-> IF chosen \in known THEN chosen ELSE Nothing,
                      applies |-> /\ selected' # Nothing /\ settings # Nothing
                                  /\ disk[selected'].signature = settings,
                      import |-> view.import, file |-> view.file, error |-> FALSE]

(* A selection that is gone moves to any profile: the code takes the first *)
(* of a set.                                                               *)
Reselected(disk, key) ==
  LET known == {k \in Keys : disk[k] # Nothing} IN
  IF (\E k \in Keys : disk[k] = Unreadable) \/ key \in known THEN selected' = key
  ELSE selected' \in (IF known = {} THEN {Nothing} ELSE known)

Refresh ==
  /\ Reselected(files, selected) /\ Refreshed(files)
  /\ UNCHANGED <<files, settings, preview, changes>>

SetSettings(s) ==
  /\ settings' = s
  /\ view' = Rebuilt(profiles, selected, chosen, s)
  /\ UNCHANGED <<files, profiles, selected, chosen, preview, changes>>

SelectProfile(k) ==
  /\ k \in profiles
  /\ selected' = k
  /\ view' = Rebuilt(profiles, k, chosen, settings)
  /\ UNCHANGED <<files, settings, profiles, chosen, preview, changes>>

SelectActive ==
  /\ IF selected \in profiles /\ Applies(selected, settings)
     THEN chosen' = selected /\ view' = Rebuilt(profiles, selected, selected, settings)
     ELSE chosen' = chosen /\ view' = WithError
  /\ UNCHANGED <<files, settings, profiles, selected, preview, changes>>

ClearActive ==
  /\ chosen' = Nothing
  /\ view' = Rebuilt(profiles, selected, Nothing, settings)
  /\ UNCHANGED <<files, settings, profiles, selected, preview, changes>>

(* preview_csv(): a file that is not valid takes the previous preview with *)
(* it. Without settings there is no signature to import under.             *)
PreviewValid(k, points) ==
  /\ settings # Nothing
  /\ preview' = [key |-> k, signature |-> settings, points |-> points]
  /\ view' = [view EXCEPT !.import = "valid", !.file = preview', !.error = FALSE]
  /\ UNCHANGED <<files, settings, profiles, selected, chosen, changes>>

PreviewInvalid ==
  /\ preview' = Nothing
  /\ view' = [view EXCEPT !.import = "invalid", !.file = Nothing, !.error = TRUE]
  /\ UNCHANGED <<files, settings, profiles, selected, chosen, changes>>

CanFinalize == preview # Nothing /\ view.import = "valid"

(* finalize_import(): the version must be new. (A profile carries the time *)
(* it was made, so one imported again is not the same.)                    *)
Finalize ==
  /\ changes < MaxChanges
  /\ IF CanFinalize /\ files[preview.key] = Nothing
     THEN /\ changes' = changes + 1
          /\ files' = [files EXCEPT ![preview.key] =
                        [signature |-> preview.signature, points |-> preview.points]]
          /\ Reselected(files', preview.key) /\ Refreshed(files')
          /\ preview' = Nothing
     ELSE view' = WithError /\ UNCHANGED <<files, profiles, selected, chosen, preview, changes>>
  /\ UNCHANGED settings

(* Another program: a version appears, or part of one does.                *)
Outside ==
  /\ changes < MaxChanges
  /\ changes' = changes + 1
  /\ \E k \in Keys, s \in Signatures, p \in Contents :
       /\ files[k] = Nothing
       /\ files' \in {[files EXCEPT ![k] = [signature |-> s, points |-> p]],
                      [files EXCEPT ![k] = Unreadable]}
  /\ UNCHANGED <<settings, profiles, selected, chosen, preview, view>>

WorkspaceNext ==
  \/ Refresh \/ SelectActive \/ ClearActive \/ PreviewInvalid \/ Finalize \/ Outside
  \/ \E s \in Signatures \cup {Nothing} : SetSettings(s)
  \/ \E k \in Keys : SelectProfile(k)
  \/ \E k \in Keys, p \in Contents : PreviewValid(k, p)

-----------------------------------------------------------------------------
(* What an import saves is what the window shows as valid, under the       *)
(* settings it was shown for: not a file that was previewed before another *)
(* one failed, nor one whose preview a failed refresh took away.           *)
SavedAsShown ==
  [][preview # Nothing /\ files' # files /\ preview' = Nothing =>
       /\ view.import = "valid" /\ view.file = preview
       /\ files'[preview.key] = [signature |-> preview.signature, points |-> preview.points]
       /\ \A k \in Keys \ {preview.key} : files'[k] = files[k]]_workspaceVars
=============================================================================
