----------------------------- MODULE Installed -----------------------------
(***************************************************************************)
(* The system that is installed: Target, Accounts and Settings together.   *)
(***************************************************************************)
EXTENDS Settings

vars == <<target, users, password, ops, keyboard, time>>

Init == TargetInit /\ AccountsInit /\ SettingsInit

\* Steps that only change what Target knows.
Pages ==
  \/ RunGparted \/ LeaveGrub \/ LeaveUsers \/ Back \/ Quit \/ InstallFails
  \/ \E dirs \in SUBSET Dir : Reinstall(dirs) \/ LeaveInstall(dirs)
  \/ \E sys \in Systems, dirs \in SUBSET Dir : Select(sys, dirs)

\* rootconf and usersconf.
Forms ==
  \/ \E n \in Name, sudo, ok, wrote \in BOOLEAN : AddUser(n, sudo, ok, wrote)
  \/ \E n \in Name, ok, wrote \in BOOLEAN : RemoveUser(n, ok, wrote)
  \/ \E t \in Text : TypePassword(t) \/ TypeVerify(t) \/ LeaveRoot(t)
  \/ DrawUsers

\* layout, formatdisk, timeconfig and configuration.
Choices ==
  \/ \E k \in Keyboard : SelectKeyboard(k)
  \/ \E k \in Custom : AddKeyboard(k)
  \/ LeaveLayout
  \/ \E r \in Root : LeaveDisk(r) /\ CopyKeymap
  \/ \E p \in Place : SelectPlace(p)
  \/ LeaveTime \/ EnterConfiguration \/ ConfigureX

Next ==
  \/ Pages /\ UNCHANGED <<users, password, ops, keyboard, time>>
  \/ Forms /\ UNCHANGED <<keyboard, time>>
  \/ Choices

Spec == Init /\ [][Next]_vars

-----------------------------------------------------------------------------
\* The types of the variables.
TypeOK == TargetTypeOK /\ AccountsTypeOK /\ SettingsTypeOK

\* select cannot be passed twice: packages, boot sector, accounts, password,
\* zone and X server are all of one root, whatever other roots were mounted
\* before it or after.
OneSystem ==
  \A s \in Site \ {home} :
    /\ has[s] = {} /\ s \notin booted
    /\ account[s] = {} /\ sudoers[s] = {} /\ secret[s] = ""
    /\ zone[s] = None /\ evdev[s] = None
=============================================================================
