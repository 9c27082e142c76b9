------------------------------ MODULE Packages ------------------------------
(***************************************************************************)
(* Where packages come from, which ones are wanted, and their installation:*)
(* the pages greet, configsource, select and install, which share pacman's *)
(* one global handle and the config list, with formatdisk between them.    *)
(* The pages can be gone through forwards and backwards; what the wizard   *)
(* does around this is in Wizard.  pacman-g2 is modelled from its use: one *)
(* handle, at most one transaction in it, a lock file in the target.       *)
(***************************************************************************)
EXTENDS Integers, Sequences

CONSTANTS
  Pkg,     \* packages, as numbers: a transaction lists them in this order
  Discs,   \* what the install discs hold, sets of packages
  Same     \* packages with the same version on disc and in the repository

\* Nothing is mounted at SOURCEDIR.
NoDisc == {}

ASSUME PackagesAssumption ==
  /\ Pkg \subseteq Nat
  /\ Discs \subseteq (SUBSET Pkg) \ {NoDisc}
  /\ Same \subseteq Pkg

VARIABLES
  at,        \* the page
  pc,        \* "idle", or where control is in the plugin of the page
  handle,    \* pacman is initialized
  trans,     \* it has a transaction, hence holds its own lock
  lock,      \* a lock file in the target: "none", "stale" when another pacman-g2
             \* has left it, "stuck" when it cannot be removed or made
  db,        \* what the loaded lists of packages are from, or "none"
  srcdev,    \* config: srcdev has been set
  answer,    \* what the user was last told to get: "net" or "disc"
  disc,      \* the disc mounted at SOURCEDIR
  packages,  \* config: packages, the nodes still reachable
  freed,     \* the node packages points to has been freed
  selected,  \* the packages last selected
  stray,     \* install was last entered with a freed list; history
  first,     \* install_pkgs_discs: first
  pkgs,      \* install_pkgs_discs: pkgs
  list,      \* the packages being installed
  targets,   \* those of them in the transaction
  refused,   \* those pacman would not add to it, which is only logged; history
  gaveUp,    \* the user had no more discs
  installed  \* packages installed on the target

session == <<handle, trans, lock>>
source  == <<db, srcdev, answer, disc>>
config  == <<packages, freed, selected, stray>>
trade   == <<targets, refused>>
work    == <<first, pkgs, list, trade, gaveUp, installed>>
vars    == <<at, pc, handle, trans, lock, db, srcdev, answer, disc, packages,
             freed, selected, stray, first, pkgs, list, targets, refused,
             gaveUp, installed>>

Page    == {"greet", "source", "disk", "select", "install", "grub"}
Control == {"idle", "question", "load", "disc", "ask", "volume", "open",
            "trans", "prepare", "commit", "corrupt", "hung", "ended"}

Lock    == {"none", "stale", "stuck"}

Idle(page) == at = page /\ pc = "idle"
GoTo(p, c) == at' = p /\ pc' = c
Stay(c)    == UNCHANGED at /\ pc' = c

Init ==
  /\ at = "greet" /\ pc = "idle"
  /\ handle = FALSE /\ trans = FALSE
  /\ lock \in Lock
  /\ db = "none" /\ srcdev = FALSE /\ answer = "net" /\ disc = NoDisc
  /\ packages = {} /\ freed = FALSE /\ selected = {} /\ stray = FALSE
  /\ first = FALSE /\ pkgs = {} /\ list = {} /\ gaveUp = FALSE
  /\ targets = {} /\ refused = {}
  /\ installed = {}

\* While the program waits for the user, pacman-g2 is run on the target from a
\* console, and killed, or the target's file system gets full or read-only.
LockAppears ==
  /\ pc \in {"idle", "ask", "corrupt"}
  /\ lock' \in IF trans THEN {"stuck"} ELSE {"stale", "stuck"}
  /\ UNCHANGED <<at, pc, handle, trans, source, config, work>>

-----------------------------------------------------------------------------
(* greet, configsource, formatdisk.                                        *)

\* run of greet: a handle that is there is released, another made and released.
LeaveGreet ==
  /\ Idle("greet")
  /\ GoTo("source", "question")
  /\ handle' = FALSE /\ trans' = FALSE
  /\ UNCHANGED <<lock, source, config, work>>

GreetFails ==
  /\ Idle("greet")
  /\ Stay("ended")
  /\ UNCHANGED <<session, source, config, work>>

\* prerun of configsource: "Do you want to search for a installation CD/DVD?"
\* Yes, and one is found: the page is skipped.
SearchFinds ==
  /\ pc = "question"
  /\ disc' \in Discs
  /\ srcdev' = TRUE
  /\ answer' = "disc"
  /\ GoTo("disk", "idle")
  /\ UNCHANGED <<session, db, config, work>>

\* No, or none is found: "Performing a network installation".
NoSearch ==
  /\ pc = "question"
  /\ answer' = "net"
  /\ Stay("idle")
  /\ UNCHANGED <<session, db, srcdev, disc, config, work>>

\* run of configsource, and of formatdisk, which unlinks a stale lock file; one
\* on a partition for /tmp it misses.
LeaveSource ==
  /\ Idle("source")
  /\ GoTo("disk", "idle")
  /\ UNCHANGED <<session, source, config, work>>

LeaveDisk ==
  /\ Idle("disk")
  /\ GoTo("select", "load")
  /\ lock' \in {lock, "none"}
  /\ UNCHANGED <<handle, trans, source, config, work>>

\* Back; configsource asks again.
Back ==
  /\ pc = "idle"
  /\ \/ at = "source" /\ GoTo("greet", "idle")
     \/ at = "disk" /\ GoTo("source", "question")
     \/ at = "select" /\ GoTo("disk", "idle")
     \/ at = "install" /\ GoTo("select", "load")
  /\ UNCHANGED <<session, source, config, work>>

-----------------------------------------------------------------------------
(* select.                                                                 *)

\* prerun of select, when the lists are there from an earlier visit.
AlreadyLoaded ==
  /\ pc = "load"
  /\ db # "none"
  /\ Stay("idle")
  /\ UNCHANGED <<session, source, config, work>>

\* The lists from a disc are given the name of the config entry.
LoadSlip ==
  /\ pc = "load"
  /\ db = "none"
  /\ ~handle
  /\ handle' = TRUE
  /\ db' = IF srcdev THEN "srcdev" ELSE "net"
  /\ Stay("idle")
  /\ UNCHANGED <<trans, lock, srcdev, answer, disc, config, work>>

\* prerun of select: the handle is made, and kept until packages are selected.
Load ==
  /\ pc = "load"
  /\ db = "none"
  /\ ~handle
  /\ handle' = TRUE
  /\ db' = IF srcdev THEN "disc" ELSE "net"
  /\ Stay("idle")
  /\ UNCHANGED <<trans, lock, srcdev, answer, disc, config, work>>

\* -1: the database could not be had.  1: a modal window stays, see Wizard.
LoadFails ==
  /\ pc = "load"
  /\ db = "none"
  /\ handle' \in {handle, TRUE}
  /\ pc' \in {"ended", "hung"}
  /\ UNCHANGED <<at, trans, lock, source, config, work>>

\* run of select: no handle or a lock, trans_init fails; or trans_prepare does,
\* and the transaction is released.  (When the packages do not fit on the disk,
\* run releases it too and returns 1: nothing changes.)
SelectFails ==
  /\ Idle("select")
  /\ Stay("ended")
  /\ UNCHANGED <<session, source, config, work>>

\* What prerun of install starts with, pks being config's list.
StartInstall(pks) ==
  /\ GoTo("install", IF srcdev THEN "disc" ELSE "open")
  /\ first' = TRUE
  /\ pkgs' = IF srcdev THEN pks ELSE {}
  /\ list' = IF srcdev THEN {} ELSE pks

\* The handle is kept for a later visit of the page.
SelectSlip ==
  /\ Idle("select")
  /\ handle /\ lock = "none"
  /\ \E pks \in SUBSET Pkg : /\ packages' = pks
                             /\ selected' = pks
                             /\ StartInstall(pks)
  /\ freed' = FALSE /\ stray' = FALSE
  /\ gaveUp' = FALSE /\ refused' = {}
  /\ UNCHANGED <<session, source, targets, installed>>

Select ==
  /\ Idle("select")
  /\ handle /\ lock = "none"
  /\ \E pks \in SUBSET Pkg : /\ packages' = pks
                             /\ selected' = pks
                             /\ StartInstall(pks)
  /\ freed' = FALSE /\ stray' = FALSE
  /\ handle' = FALSE
  /\ gaveUp' = FALSE /\ refused' = {}
  /\ UNCHANGED <<trans, lock, source, targets, installed>>

-----------------------------------------------------------------------------
(* install: prerun and install_pkgs_discs.                                 *)

LeaveInstall ==
  /\ Idle("install")
  /\ GoTo("grub", "idle")
  /\ UNCHANGED <<session, source, config, work>>

\* Back from grubconfig calls prerun of install again.  A freed list reads as
\* any list.
Reinstall ==
  /\ Idle("grub")
  /\ \E pks \in IF freed THEN SUBSET Pkg ELSE {packages} : StartInstall(pks)
  /\ stray' = freed
  /\ UNCHANGED <<session, source, packages, freed, selected, trade, gaveUp, installed>>

ReinstallCrashes ==
  /\ Idle("grub")
  /\ freed
  /\ Stay("ended")
  /\ UNCHANGED <<session, source, config, work>>

Done == Stay("idle") /\ list' = {} /\ pkgs' = {}

NoMorePackages ==
  /\ pc = "disc"
  /\ pkgs = {}
  /\ Done
  /\ UNCHANGED <<session, source, config, first, trade, gaveUp, installed>>

\* "for the first time the volume is already loaded"
FirstVolume ==
  /\ pc = "disc"
  /\ pkgs # {}
  /\ first
  /\ first' = FALSE
  /\ Stay("volume")
  /\ UNCHANGED <<session, source, config, pkgs, list, trade, gaveUp, installed>>

Eject ==
  /\ pc = "disc"
  /\ pkgs # {}
  /\ ~first
  /\ disc' = NoDisc
  /\ Stay("ask")
  /\ UNCHANGED <<session, db, srcdev, answer, config, work>>

\* The mount may fail.
NextVolume ==
  /\ pc = "ask"
  /\ disc' \in Discs \cup {NoDisc}
  /\ Stay("volume")
  /\ UNCHANGED <<session, db, srcdev, answer, config, work>>

NoMoreDiscs ==
  /\ pc = "ask"
  /\ Done
  /\ gaveUp' = TRUE
  /\ UNCHANGED <<session, source, config, first, trade, installed>>

\* The files looked for have the versions of the loaded lists in their names.
OnVolume == IF db = "disc" THEN disc ELSE disc \cap Same

Least(S) == CHOOSE x \in S : \A y \in S : x <= y

\* Packages are looked for and removed from the list before the loop goes on to
\* ask, so those that are on no disc are lost.
VolumeSlip ==
  /\ pc = "volume"
  /\ list' = pkgs \cap OnVolume
  /\ pkgs' = {}
  /\ Stay("open")
  /\ UNCHANGED <<session, source, config, first, trade, gaveUp, installed>>

\* config's list shares its nodes with pkgs and is not told when the node it
\* points to is freed.
Volume ==
  /\ pc = "volume"
  /\ list' = pkgs \cap OnVolume
  /\ pkgs' = pkgs \ OnVolume
  /\ packages' = packages \ OnVolume
  /\ freed' = (freed \/ (packages # {} /\ Least(packages) \in list'))
  /\ Stay("open")
  /\ UNCHANGED <<session, source, selected, stray, first, trade, gaveUp, installed>>

-----------------------------------------------------------------------------
(* install_pkgs.                                                           *)

\* install_pkgs returns 0: on to the next disc, if discs there are.
Returns0 == Stay(IF srcdev THEN "disc" ELSE "idle") /\ list' = {}

NothingToInstall ==
  /\ pc = "open"
  /\ list = {}
  /\ Returns0
  /\ UNCHANGED <<session, source, config, first, pkgs, trade, gaveUp, installed>>

Open ==
  /\ pc = "open"
  /\ list # {}
  /\ ~handle
  /\ handle' = TRUE
  /\ Stay("trans")
  /\ UNCHANGED <<trans, lock, source, config, work>>

\* Initialization fails, or parsing or "local" does and the handle is released.
OpenFails ==
  /\ pc = "open"
  /\ list # {}
  /\ Stay("ended")
  /\ UNCHANGED <<session, source, config, work>>

BeginTransaction ==
  /\ pc = "trans"
  /\ handle /\ ~trans /\ lock = "none"
  /\ trans' = TRUE
  /\ Stay("prepare")
  /\ UNCHANGED <<handle, lock, source, config, work>>

\* PM_ERR_HANDLE_LOCK: the lock file is removed, and goto retry, whether it is
\* gone or not: nothing ends the loop on one that cannot be removed or made.
RemoveLock ==
  /\ pc = "trans"
  /\ lock # "none"
  /\ lock' = IF lock = "stale" THEN "none" ELSE lock
  /\ UNCHANGED <<at, pc, handle, trans, source, config, work>>

\* trans_init, trans_prepare or trans_getinfo fails, or trans_commit does for
\* good or before the user says no; a commit may have installed a part.
TransactionFails ==
  /\ pc \in {"prepare", "commit", "corrupt"} \/ (pc = "trans" /\ lock = "none")
  /\ Stay("ended")
  /\ handle' = FALSE /\ trans' = FALSE /\ targets' = {}
  /\ installed' \in IF pc = "commit" THEN {installed \cup s : s \in SUBSET targets}
                                     ELSE {installed}
  /\ UNCHANGED <<lock, source, config, first, pkgs, list, refused, gaveUp>>

\* pacman_trans_addtarget may fail for any of the list: that is logged, and the
\* transaction goes on without it.  One of no packages fails in trans_getinfo.
Prepare ==
  /\ pc = "prepare"
  /\ targets' \in (SUBSET list) \ {{}}
  /\ refused' = (refused \cup list) \ targets'
  /\ Stay("commit")
  /\ UNCHANGED <<session, source, config, first, pkgs, list, gaveUp, installed>>

\* The user is not asked: the download is repeated.
CorruptedSlip ==
  /\ pc = "commit"
  /\ Stay("trans")
  /\ trans' = FALSE /\ targets' = {}
  /\ UNCHANGED <<handle, lock, source, config, first, pkgs, list, refused,
                 gaveUp, installed>>

\* PM_ERR_PKG_CORRUPTED: found before anything is installed; the user is asked.
Corrupted ==
  /\ pc = "commit"
  /\ Stay("corrupt")
  /\ UNCHANGED <<session, source, config, work>>

\* The transaction is not released before the retry.
DownloadAgainSlip ==
  /\ pc = "corrupt"
  /\ Stay("trans")
  /\ UNCHANGED <<session, source, config, work>>

DownloadAgain ==
  /\ pc = "corrupt"
  /\ Stay("trans")
  /\ trans' = FALSE /\ targets' = {}
  /\ UNCHANGED <<handle, lock, source, config, first, pkgs, list, refused,
                 gaveUp, installed>>

Commit ==
  /\ pc = "commit"
  /\ installed' = installed \cup targets
  /\ handle' = FALSE /\ trans' = FALSE /\ targets' = {}
  /\ Returns0
  /\ UNCHANGED <<lock, source, config, first, pkgs, refused, gaveUp>>

-----------------------------------------------------------------------------
\* Steps of the program, by itself.
Install ==
  \/ NoMorePackages \/ FirstVolume \/ Eject \/ Volume \/ NothingToInstall
  \/ Open \/ OpenFails \/ BeginTransaction \/ RemoveLock \/ TransactionFails
  \/ Prepare \/ Corrupted \/ Commit

Next ==
  \/ LockAppears
  \/ LeaveGreet \/ GreetFails \/ SearchFinds \/ NoSearch \/ LeaveSource
  \/ LeaveDisk \/ Back
  \/ AlreadyLoaded \/ Load \/ LoadFails \/ SelectFails \/ Select
  \/ LeaveInstall \/ Reinstall \/ ReinstallCrashes
  \/ NextVolume \/ NoMoreDiscs \/ DownloadAgain
  \/ Install

\* Only the program is fair: dialogs may stay unanswered.
Spec == Init /\ [][Next]_vars /\ WF_vars(Install)

-----------------------------------------------------------------------------
\* The types of the variables: only known packages are wanted, sought or installed.
TypeOK ==
  /\ at \in Page /\ pc \in Control
  /\ handle \in BOOLEAN /\ trans \in BOOLEAN /\ lock \in Lock
  /\ db \in {"none", "net", "disc"}
  /\ srcdev \in BOOLEAN
  /\ answer \in {"net", "disc"}
  /\ disc \in Discs \cup {NoDisc}
  /\ packages \subseteq Pkg /\ freed \in BOOLEAN
  /\ selected \subseteq Pkg /\ stray \in BOOLEAN
  /\ first \in BOOLEAN
  /\ pkgs \subseteq Pkg /\ list \subseteq Pkg
  /\ targets \subseteq Pkg /\ refused \subseteq Pkg
  /\ gaveUp \in BOOLEAN
  /\ installed \subseteq Pkg

\* No path through the retries and failures of install_pkgs leaves pacman with
\* a transaction, or starts one while there is one.
TransactionsNested ==
  /\ trans => handle
  /\ trans <=> pc \in {"prepare", "commit", "corrupt"}

\* pacman_initialize, which fails on an open handle, is only called without
\* one, by whatever path of Forward and Back select and install are reached.
InitializedOnce ==
  pc = "open" \/ (pc = "load" /\ db = "none") => ~handle

\* After install, whatever discs were swapped, downloads repeated and visits
\* made again over a list whose nodes are freed: all that was selected is
\* installed, unless the user said there were no more discs, but what pacman has
\* refused to add when it was tried last.  That loss the user is not told of.
InstalledAsSelected ==
  at \in {"install", "grub"} /\ pc = "idle" /\ ~gaveUp =>
    selected \ refused \subseteq installed

\* Where the order of Delivery is.
Phase == IF pc \in {"ended", "hung"} THEN "over"
         ELSE IF at \notin {"install", "grub"} THEN "choose"
         ELSE IF pc = "idle" THEN "rest" ELSE "work"

D == INSTANCE Delivery WITH Item <- Pkg, wanted <- selected, delivered <- installed,
                            denied <- refused, short <- gaveUp, blind <- stray,
                            phase <- Phase

\* The pages from select to grubconfig implement Delivery: whatever discs are
\* swapped, downloads repeated and transactions fail, nothing selected is lost
\* but what pacman itself refuses, unless the user is told, and nothing else is
\* installed, but from a list whose nodes install itself has freed.
ImplementsDelivery == D!Spec

\* install_pkgs works for ever without asking the user in one case only: on a
\* lock that cannot be removed or made it stays in its loop of retries.  No other
\* retry, and no loop over discs, is endless.
WorkReachesUser ==
  at = "install" /\ pc # "idle" ~>
    \/ pc \in {"idle", "ask", "corrupt", "ended"}
    \/ [](pc = "trans" /\ lock = "stuck")

\* "if previous loaded (previous button used) do nothing": when the lists are
\* there from an earlier visit, packages can be selected from them again.
SelectionResumes == Idle("select") => handle

\* "if you want a network installation, you should answer 'No'"
NetworkWhenNo == pc \in {"disc", "volume"} => answer = "disc"
=============================================================================
