------------------------------ MODULE Settings ------------------------------
(***************************************************************************)
(* Keyboard and time zone: layout (src/src/plugins/layout.c), whose choice *)
(* reaches the target through a temporary file that formatdisk copies and  *)
(* through config, from which configuration (src/src/plugins/postconf.c)   *)
(* writes it for X; and timeconfig (src/src/plugins/timeconf.c).           *)
(*                                                                         *)
(* A keyboard is a row of the list: an X layout with a variant and the     *)
(* console map that goes with it.  The clock, the mouse and the display    *)
(* manager are left out.                                                   *)
(***************************************************************************)
EXTENDS Accounts

CONSTANTS
  Shipped, \* keyboards that are listed at first
  Custom,  \* those that may be added
  City     \* rows of the list of zones below a continent

Keyboard == Shipped \cup Custom
Place    == City \cup {"continent", None}

ASSUME SettingsAssumption ==
  /\ Shipped # {}
  /\ None \notin Keyboard \cup City \cup {"continent", "(null)"}
  /\ {"continent", "(null)"} \cap City = {}

VARIABLES
  boards,  \* layout: the rows
  board,   \*   and the one that is selected
  temp,    \* config: keymap, the temporary file, None when it is unlinked
  xconfig, \* config: xlayout and xvariant
  keymap,  \* /etc/sysconfig/keymap of each file system
  missed,  \* history: those it could not be copied to when it last was to be
  xlayout, \* configuration: what config had, if there is an X server
  evdev,   \* 10-evdev.conf of each file system
  place,   \* timeconfig: the row that is selected
  placed,  \*   the page can be left
  zone     \* ZONEFILE of each file system

keyboard == <<boards, board, temp, xconfig, keymap, missed, xlayout, evdev>>
time     == <<place, placed, zone>>

SettingsInit ==
  /\ boards = Shipped
  /\ board \in Shipped
  /\ temp = None /\ xconfig = None /\ xlayout = None
  /\ keymap = [s \in Site |-> None] /\ missed = {}
  /\ evdev = [s \in Site |-> None]
  /\ place = None /\ placed = FALSE
  /\ zone = [s \in Site |-> None]

-----------------------------------------------------------------------------
(* layout.                                                                 *)

\* A row is selected (GTK_SELECTION_BROWSE: always one).
SelectKeyboard(k) ==
  /\ at = "layout"
  /\ k \in boards
  /\ board' = k
  /\ UNCHANGED <<target, users, password, ops, boards, temp, xconfig, keymap, missed,
                 xlayout, evdev, time>>

\* Button Personalized keyboard, when a name was entered.
AddKeyboard(k) ==
  /\ Operate("layout")
  /\ boards' = boards \cup {k}
  /\ UNCHANGED <<target, users, password, board, temp, xconfig, keymap, missed, xlayout,
                 evdev, time>>

\* data_put keeps what is there.
LeaveLayoutSlip ==
  /\ Go("layout", "disk")
  /\ temp' = board
  /\ xconfig' = IF xconfig = None THEN board ELSE xconfig
  /\ UNCHANGED <<system, users, password, ops, boards, board, keymap, missed, xlayout, evdev,
                 time>>

\* Run of layout: the file, and config.
LeaveLayout ==
  /\ Go("layout", "disk")
  /\ temp' = board
  /\ xconfig' = board
  /\ UNCHANGED <<system, users, password, ops, boards, board, keymap, missed, xlayout, evdev,
                 time>>

\* Run of formatdisk, at its end: the file is copied to the root that is on top,
\* if it is there, and unlinked.  A copy that fails leaves the old file or spoils
\* it, and the result is not looked at.
CopyKeymap ==
  LET f == stack'[Len(stack')].fs
  IN /\ \/ temp = None /\ UNCHANGED <<keymap, missed>>
        \/ /\ temp # None
           /\ keymap' = [keymap EXCEPT ![f] = temp]
           /\ missed' = missed \ {f}
        \/ /\ temp # None
           /\ keymap' \in {keymap, [keymap EXCEPT ![f] = None]}
           /\ missed' = missed \cup {f}
     /\ temp' = None
     /\ UNCHANGED <<users, password, ops, boards, board, xconfig, xlayout, evdev, time>>

-----------------------------------------------------------------------------
(* timeconfig, configuration.                                              *)

\* Nothing selected leaves the page as it is.
SelectPlaceSlip(p) ==
  /\ Operate("time")
  /\ place' = p
  /\ placed' = IF p = None THEN placed ELSE p \in City
  /\ UNCHANGED <<target, users, password, keyboard, zone>>

\* selection_changed.
SelectPlace(p) ==
  /\ Operate("time")
  /\ place' = p
  /\ placed' = (p \in City)
  /\ UNCHANGED <<target, users, password, keyboard, zone>>

\* Run of timeconfig.  A continent would be an error; without a row the name is
\* made from null pointers.  symlink fails if there is one already.
LeaveTime ==
  /\ at = "time"
  /\ placed
  /\ IF place = "continent"
       THEN Quit /\ UNCHANGED zone
       ELSE /\ at' = "netconf"
            /\ UNCHANGED system
            /\ \/ zone' = zone
               \/ /\ zone[Here] = None
                  /\ zone' = [zone EXCEPT ![Here] = IF place = None THEN "(null)" ELSE place]
  /\ UNCHANGED <<users, password, ops, keyboard, place, placed>>

\* netconf is left: prerun of configuration.
EnterConfiguration ==
  /\ Go("netconf", "conf")
  /\ xlayout' = IF "xorg" \in has[Here] THEN xconfig ELSE xlayout
  /\ UNCHANGED <<system, users, password, ops, boards, board, temp, xconfig, keymap, missed,
                 evdev, time>>

\* Button Configure of the X server: x_config, which can be clicked once there
\* was one.  The file may not be made, if it has no directory.
ConfigureX ==
  /\ at = "conf"
  /\ xlayout # None
  /\ evdev' = [evdev EXCEPT ![Here] = xlayout]
  /\ UNCHANGED <<target, users, password, ops, boards, board, temp, xconfig, keymap,
                 missed, xlayout, time>>

-----------------------------------------------------------------------------
\* The types of the variables.
SettingsTypeOK ==
  /\ boards \subseteq Keyboard /\ board \in Keyboard
  /\ temp \in Keyboard \cup {None}
  /\ xconfig \in Keyboard \cup {None}
  /\ xlayout \in Keyboard \cup {None}
  /\ keymap \in [Site -> Keyboard \cup {None}]
  /\ evdev \in [Site -> Keyboard \cup {None}]
  /\ missed \subseteq Site
  /\ place \in Place /\ placed \in BOOLEAN
  /\ zone \in [Site -> City \cup {None, "(null)"}]

\* run of layout, formatdisk and configuration: X and the console of the target
\* have one keyboard, however often layout and formatdisk were left before, if
\* they have any; as long as one root was mounted, and the last copy to it made.
KeyboardsAgree ==
  at \in Later /\ Len(stack) <= 2 /\ Here \notin missed =>
    \/ evdev[Here] = None
    \/ keymap[Here] \in {None, evdev[Here]}

\* selection_changed, run of timeconfig: no zone is made from a row that is no
\* city, or from no row, whatever was selected and given up before.
ZoneIsCity == \A s \in Site : zone[s] \in City \cup {None}
=============================================================================
