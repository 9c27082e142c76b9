------------------------------ MODULE Selection ------------------------------
(***************************************************************************)
(* What is to be installed: the three modes of the select page             *)
(* (src/src/plugins/select-basic.c, select-intermediate.c,                 *)
(* select-expert.c) and run of select.c, which collects the packages that  *)
(* are flagged in the groups that are.  The flags live in the lists cats   *)
(* and all_packages: they are loaded once and outlive visits and modes.    *)
(* Loading, pacman and what follows the page are in Packages.              *)
(*                                                                         *)
(* Of the packages the code names, the tables below have one for each part *)
(* it plays; a name that is not in Package is looked for in vain.          *)
(***************************************************************************)
EXTENDS Integers

CONSTANTS
  Group,      \* groups in cats
  Package,    \* packages in all_packages, those for LANG among them
  GroupOf,    \* the group of each
  On0,        \* groups getcat flags
  Flag0,      \* packages group2pkgs flags
  Toggle,     \* check buttons of the intermediate mode
  MaxOps,     \* bound: clicks inside the page
  MaxVisits   \* bound: preruns of select

BasicDesktop == {"KDE", "GNOME", "XFCE", "LXDE"}
Desktop      == BasicDesktop \cup {"E17", "No X Server"}
Nothing      == "nothing"

ASSUME SelectionAssumption ==
  /\ GroupOf \in [Package -> Group]
  /\ On0 \subseteq Group
  /\ Flag0 \subseteq Package
  /\ Nothing \notin Group
  /\ MaxOps \in Nat /\ MaxVisits \in Nat \ {0}

VARIABLES
  on,         \* flagged groups (cats)
  flag,       \* flagged packages (all_packages)
  mode,       \* selected_mode
  widget,     \* the widgets of that mode: "none", "alive" or "destroyed"
  desk,       \* the active radio button
  toggles,    \* the active check buttons
  boxes,      \* expert: groups shown as checked
  current,    \* expert: the group of packages_current
  listed,     \* expert: packages shown
  ticks,      \* expert: those shown as checked
  sensitive,  \* expert: the list of packages takes clicks
  where,      \* "dialog", "page", "left" or "ended"
  targets,    \* the packages run has last collected
  fresh,      \* nothing has been changed since
  ops, visits \* counters for the bounds

flags   == <<on, flag>>
buttons == <<desk, toggles>>
view    == <<boxes, current, listed, ticks, sensitive>>
vars    == <<on, flag, mode, widget, desk, toggles, boxes, current, listed,
             ticks, sensitive, where, targets, fresh, ops, visits>>

In(groups) == {p \in Package : GroupOf[p] \in groups}

\* The packages of group g with one of these names: what selectfile finds.
Of(g, names) == In({g}) \cap names

Locale(names) == Of("locale-extra", names)

Init ==
  /\ on = On0 /\ flag = Flag0
  /\ mode = "basic" /\ widget = "none"
  /\ desk = "KDE" /\ toggles = {}
  /\ boxes = {} /\ current = Nothing /\ listed = {} /\ ticks = {}
  /\ sensitive = FALSE
  /\ where = "dialog"
  /\ targets = {} /\ fresh = FALSE
  /\ ops = 0 /\ visits = 1

-----------------------------------------------------------------------------
(* The dialog for the mode, at the end of prerun.                          *)

\* Translations that basic and intermediate mode start without.
StartWithout == Locale({"kde-l10n", "eric-i18n"})

Choose(m) ==
  /\ where = "dialog"
  /\ where' = "page"
  /\ mode' = m
  /\ widget' = "alive"
  /\ fresh' = FALSE
  /\ UNCHANGED <<on, targets, ops, visits>>

\* get_basic_mode_widget, run_basic_mode: the first button of a group is active.
BasicMode ==
  /\ Choose("basic")
  /\ desk' = "KDE"
  /\ flag' = flag \ StartWithout
  /\ UNCHANGED <<toggles, view>>

\* get_intermediate_mode_widget, run_intermediate_mode: buttons are set active
\* before their handler is connected.
IntermediateMode ==
  /\ Choose("intermediate")
  /\ desk' = "KDE"
  /\ toggles' = Toggle \cap {"XAPP", "CONS", "BUR", "NET", "DEV", "MUL"}
  /\ flag' = flag \ StartWithout
  /\ UNCHANGED view

\* The list of groups is not filled again.
ExpertModeSlip ==
  /\ Choose("expert")
  /\ listed' = {} /\ ticks' = {}
  /\ sensitive' = TRUE
  /\ UNCHANGED <<flag, buttons, boxes, current>>

\* get_expert_mode_widget, run_expert_mode: packages_current stays.
ExpertMode ==
  /\ Choose("expert")
  /\ boxes' = on
  /\ listed' = {} /\ ticks' = {}
  /\ sensitive' = TRUE
  /\ UNCHANGED <<flag, buttons, current>>

\* The dialog is closed (twice: the first time only ends gtk_dialog_run).
CloseDialog ==
  /\ where = "dialog"
  /\ where' = "page"
  /\ UNCHANGED <<flags, mode, widget, buttons, view, targets, fresh, ops, visits>>

-----------------------------------------------------------------------------
(* Clicks inside the page.                                                 *)

Click(m) ==
  /\ where = "page" /\ mode = m /\ widget = "alive"
  /\ ops < MaxOps
  /\ ops' = ops + 1
  /\ fresh' = FALSE
  /\ UNCHANGED <<mode, widget, where, targets, visits>>

Radio ==
  /\ \/ Click("basic") /\ desk' \in BasicDesktop
     \/ Click("intermediate") /\ desk' \in Desktop
  /\ UNCHANGED <<flags, toggles, view>>

\* What group_changed turns on or off: groups, and single packages.
GroupsOf(t) ==
  CASE t = "NET"    -> {"network"}
    [] t = "NETEX"  -> {"network-extra"}
    [] t = "MUL"    -> {"multimedia", "xmultimedia"}
    [] t = "MULEX"  -> {"multimedia-extra", "xmultimedia-extra"}
    [] t = "DEV"    -> {"devel"}
    [] t = "DEVEX"  -> {"devel-extra"}
    [] t = "CONS"   -> {"apps"}
    [] t = "CONSEX" -> {"apps-extra"}
    [] t = "XAPPEX" -> {"xapps-extra"}
    [] t = "GAME"   -> {"games-extra"}
    [] OTHER        -> {}

PackagesOf(t) ==
  CASE t = "DEV"    -> Locale({"php-docs"})
    [] t = "CONS"   -> Locale({"vim-spell", "aspell"})
    [] t = "CONSEX" -> Locale({"hunspell", "mbrola"})
    [] t = "XAPP"   -> (In({"xapps"}) \ {"libreoffice"})
                         \cup Locale({"firefox", "thunderbird"})
    [] t = "XAPPEX" -> Locale({"eric-i18n", "eric4-i18n"})
    [] t = "BUR"    -> Of("xapps", {"libreoffice"}) \cup Locale({"libreoffice-l10n"})
    [] OTHER        -> {}

\* A group that is not in the lists is taken as found.
GroupChangedSlip(t) ==
  /\ Click("intermediate")
  /\ IF t \in toggles
       THEN /\ toggles' = toggles \ {t}
            /\ on' = on \ GroupsOf(t)
            /\ flag' = flag \ PackagesOf(t)
       ELSE /\ toggles' = toggles \cup {t}
            /\ on' = on \cup GroupsOf(t)
            /\ flag' = flag \cup PackagesOf(t)
  /\ UNCHANGED <<desk, view>>

\* group_changed.  The button for xapps-extra says "APPEX", which it does not know.
GroupChanged(t) ==
  /\ Click("intermediate")
  /\ IF t \in toggles
       THEN /\ toggles' = toggles \ {t}
            /\ on' = on \ GroupsOf(t)
            /\ flag' = flag \ PackagesOf(t)
       ELSE /\ toggles' = toggles \cup {t}
            /\ on' = on \cup (GroupsOf(t) \cap Group)
            /\ flag' = flag \cup PackagesOf(t)
  /\ UNCHANGED <<desk, view>>

\* category_changed: the packages of g are shown.
Show(g) ==
  /\ current' = g
  /\ listed' = In({g})
  /\ ticks' = In({g}) \cap flag
  /\ sensitive' = (g \in boxes')

CategoryChanged(g) ==
  /\ Click("expert")
  /\ UNCHANGED boxes
  /\ Show(g)
  /\ UNCHANGED <<flags, buttons>>

\* fixed_toggled_cat; the click then also selects the row, if it was not.
ToggleGroup(g) ==
  /\ Click("expert")
  /\ boxes' = IF g \in boxes THEN boxes \ {g} ELSE boxes \cup {g}
  /\ on' = IF g \in boxes THEN on \ {g} ELSE on \cup {g}
  /\ Show(g)
  /\ UNCHANGED <<flag, buttons>>

\* fixed_toggled_pack.
TogglePackage(p) ==
  /\ Click("expert")
  /\ sensitive
  /\ p \in listed
  /\ IF p \in ticks THEN ticks' = ticks \ {p} /\ flag' = flag \ {p}
                    ELSE ticks' = ticks \cup {p} /\ flag' = flag \cup {p}
  /\ UNCHANGED <<on, buttons, boxes, current, listed, sensitive>>

\* selection_clicked, buttons Select all and Unselect all.
SelectionClicked(all) ==
  /\ Click("expert")
  /\ current # Nothing
  /\ listed' = In({current})
  /\ ticks' = IF all THEN listed' ELSE {}
  /\ flag' = IF all THEN flag \cup In({current}) ELSE flag \ In({current})
  /\ UNCHANGED <<on, buttons, boxes, current, sensitive>>

-----------------------------------------------------------------------------
(* Leaving the page: run.                                                  *)

\* Groups and packages that configure_desktop_basic turns on for a desktop.
BasicGroups(d) ==
  CASE d = "KDE"   -> {"kde", "kde-extra"}
    [] d = "GNOME" -> {"gnome-extra"}
    [] d = "XFCE"  -> {"xfce4", "xfce4-extra"}
    [] d = "LXDE"  -> {"lxde-desktop"}
    [] d \in {"E17", "No X Server"} -> {}

BasicPackages(d) ==
  CASE d = "KDE"   -> Locale({"kde-l10n"}) \cup Of("kde-extra", {"krita"})
    [] d = "GNOME" -> In({"gnome"}) \cup Of("gnome-extra", {"epiphany"})
                        \cup Of("xapps", {"gimp"})
    [] d = "XFCE"  -> Of("xfce4-extra", {"xfburn"}) \cup Of("xapps-extra", {"midori"})
                        \cup Of("xapps", {"gimp"}) \cup Of("gnome", {"gksu-frugalware"})
    [] d = "LXDE"  -> In({"lxde-desktop"}) \cup Of("xapps-extra", {"midori"})
                        \cup Of("xapps", {"gimp"}) \cup Of("gnome", {"gksu-frugalware"})
    [] d \in {"E17", "No X Server"} -> {}

\* What it turns off first; single packages of some groups come back on.
BasicOff   == {"lib", "devel", "kde", "xfce4"}
BasicClear == In({"xapps", "apps", "xlib", "gnome"}) \cup Of("network", {"samba"})
                \cup Locale({"firefox"})
BasicKeep  == Of("xapps", {"libreoffice"}) \cup Of("apps", {"sudo"})
                \cup Of("xapps-extra", {"frugalware-tweak"})

\* "kde" is not among the groups turned off.
ConfigureBasicSlip(d) ==
  /\ on' = (on \ (BasicOff \ {"kde"}))
             \cup (({"xapps-extra"} \cup BasicGroups(d)) \cap Group)
  /\ flag' = (flag \ BasicClear) \cup BasicKeep \cup BasicPackages(d)

ConfigureBasic(d) ==
  /\ on' = (on \ BasicOff) \cup (({"xapps-extra"} \cup BasicGroups(d)) \cap Group)
  /\ flag' = (flag \ BasicClear) \cup BasicKeep \cup BasicPackages(d)

\* The same in configure_desktop_intermediate.
MiddleGroups(d) ==
  CASE d = "KDE"   -> {"kde"}
    [] d = "GNOME" -> {"gnome"}
    [] d = "XFCE"  -> {"xfce4"}
    [] d = "LXDE"  -> {"lxde-desktop"}
    [] d = "E17"   -> {"e17-extra", "x11-extra"}
    [] d = "No X Server" -> {}

MiddlePackages(d) ==
  CASE d = "KDE"  -> Locale({"kde-l10n"})
    [] d = "LXDE" -> In({"lxde-desktop"})
    [] d = "E17"  -> In({"e17-extra"}) \cup Of("x11-extra", {"lxdm"})
    [] d \in {"GNOME", "XFCE", "No X Server"} -> {}

MiddleOff(d) == {"lib", "xlib", "kde", "gnome", "xfce4"}
                  \cup (IF d = "No X Server" THEN {"x11"} ELSE {})

ConfigureIntermediate(d) ==
  /\ on' = (on \ MiddleOff(d)) \cup (MiddleGroups(d) \cap Group)
  /\ flag' = flag \cup MiddlePackages(d)

Configure(d) ==
  \/ mode = "basic" /\ ConfigureBasic(d)
  \/ mode = "intermediate" /\ ConfigureIntermediate(d)
  \/ mode = "expert" /\ UNCHANGED flags

\* The desktops run may take for the active one: widgets that have been
\* destroyed read as any of them.
Active ==
  IF mode = "expert" \/ widget = "alive" THEN {desk}
  ELSE IF widget = "none" THEN {}
  ELSE IF mode = "basic" THEN BasicDesktop ELSE Desktop

Flagged(f, g) == {p \in f : GroupOf[p] \in g}

\* Packages are collected before the mode's configuration.
RunSlip ==
  /\ where = "page"
  /\ \E d \in Active : desk' = d /\ Configure(d)
  /\ targets' = Flagged(flag, on)
  /\ fresh' = TRUE
  /\ where' \in {"left", "page", "ended"}
  /\ UNCHANGED <<mode, widget, toggles, view, ops, visits>>

\* The packages fit; or they do not, and the user stays; or pacman fails.
Run ==
  /\ where = "page"
  /\ \E d \in Active : desk' = d /\ Configure(d)
  /\ targets' = Flagged(flag', on')
  /\ fresh' = TRUE
  /\ where' \in {"left", "page", "ended"}
  /\ UNCHANGED <<mode, widget, toggles, view, ops, visits>>

\* Widgets that are not there are asked which one is active.
Crash ==
  /\ where = "page"
  /\ mode # "expert" /\ widget # "alive"
  /\ where' = "ended"
  /\ UNCHANGED <<flags, mode, widget, buttons, view, targets, fresh, ops, visits>>

\* Back and Forward: prerun destroys the widgets, perhaps not for the first time.
ComeAgain ==
  /\ where = "page"
  /\ visits < MaxVisits
  /\ visits' = visits + 1
  /\ widget' = IF widget = "none" THEN "none" ELSE "destroyed"
  /\ where' \in IF widget = "destroyed" THEN {"dialog", "ended"} ELSE {"dialog"}
  /\ UNCHANGED <<flags, mode, buttons, view, targets, fresh, ops>>

Next ==
  \/ BasicMode \/ IntermediateMode \/ ExpertMode \/ CloseDialog
  \/ Radio
  \/ \E t \in Toggle : GroupChanged(t)
  \/ \E g \in Group : CategoryChanged(g) \/ ToggleGroup(g)
  \/ \E p \in Package : TogglePackage(p)
  \/ \E all \in BOOLEAN : SelectionClicked(all)
  \/ Run \/ Crash \/ ComeAgain

Spec == Init /\ [][Next]_vars

-----------------------------------------------------------------------------
\* The types of the variables: groups and packages are those of the lists.
TypeOK ==
  /\ on \subseteq Group /\ flag \subseteq Package
  /\ mode \in {"basic", "intermediate", "expert"}
  /\ widget \in {"none", "alive", "destroyed"}
  /\ desk \in Desktop /\ toggles \subseteq Toggle
  /\ boxes \subseteq Group /\ current \in Group \cup {Nothing}
  /\ listed \subseteq Package /\ ticks \subseteq Package
  /\ sensitive \in BOOLEAN
  /\ where \in {"dialog", "page", "left", "ended"}
  /\ targets \subseteq Package /\ fresh \in BOOLEAN
  /\ ops \in 0 .. MaxOps /\ visits \in 0 .. MaxVisits

\* The groups of the desktops that are installed by default.
DefaultGroup == [d \in {"KDE", "GNOME", "XFCE"} |->
  CASE d = "KDE" -> "kde" [] d = "GNOME" -> "gnome" [] d = "XFCE" -> "xfce4"]

\* In basic and intermediate mode, whatever was clicked, run or shown before in
\* any mode, no package of a default desktop other than the chosen one is
\* collected, but the one that XFCE and LXDE take from gnome in basic mode.
OtherDesktopsOut ==
  fresh /\ mode # "expert" =>
    \A d \in {"KDE", "GNOME", "XFCE"} \ {desk} :
      targets \cap In({DefaultGroup[d]}) \subseteq {"gksu-frugalware"}

\* Expert mode shows the truth, also about flags set by other modes and after a
\* run: boxes and ticks are the flags run collects by, and packages of one
\* group are shown, the group that Select all and Unselect all change.
ExpertShowsFlags ==
  mode = "expert" /\ widget = "alive" /\ where = "page" =>
    /\ boxes = on
    /\ ticks = listed \cap flag
    /\ listed \subseteq In({current})

\* A run that is only repeated (the packages did not fit on the disk) collects
\* the same packages.
SameAgain ==
  [][fresh /\ fresh' /\ mode' = mode /\ desk' = desk => targets' = targets]_vars
=============================================================================
