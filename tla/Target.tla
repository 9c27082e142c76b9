------------------------------- MODULE Target -------------------------------
(***************************************************************************)
(* What the pages see at TARGETDIR: the root partitions that formatdisk    *)
(* mounts there, one over the other, and /dev, /proc and /sys that install *)
(* binds in the one on top, until fwife_exit unmounts them.  Each command  *)
(* may fail; the program looks at no result.                               *)
(*                                                                         *)
(* The pages between are passed by Forward and Back.  Two facts are taken  *)
(* from other modules: a root that is on top already is not mounted again  *)
(* (PartDisk), and packages can be selected once, since run of select      *)
(* releases pacman's handle and nothing makes another (Packages).  What     *)
(* formatting a root again unmounts and erases stays in PartDisk.          *)
(***************************************************************************)
EXTENDS Integers, Sequences, FiniteSets

CONSTANTS
  Root,      \* partitions that may be the root
  Live,      \* the directory TARGETDIR of the live system
  None,      \* nothing yet
  Systems,   \* what may be selected, as far as it matters here, see Part
  MaxVisits, \* bound: times formatdisk is left
  MaxEntries \* bound: times install is entered

Site == Root \cup {Live}
Part == {"base", "sudo", "xorg"}
Dir  == {"dev", "proc", "sys"}

ASSUME TargetAssumption ==
  /\ Live \notin Root
  /\ None \notin Site
  /\ Systems \subseteq SUBSET Part
  /\ MaxVisits \in Nat /\ MaxEntries \in Nat

VARIABLES
  at,      \* the page
  stack,   \* mounts at TARGETDIR, the directory itself first
  cwd,     \* the mount the working directory is in, 0 if it is elsewhere
  handle,  \* pacman's, for select
  has,     \* what is installed on each file system
  booted,  \* those a boot sector starts
  home,    \* history: where install has put the packages
  height,  \* history: the mount that was
  failed,  \* history: directories a mount was refused for
  busy,    \* history: those umount was refused for
  entered, \* history: times install was entered
  visits   \* counter for the bound

done   == <<has, booted, home, height>>
result == <<failed, busy>>
system == <<stack, cwd, handle, done, result, entered, visits>>
target == <<at, system>>

\* The pages that work in the installed system.
Later == {"grub", "root", "users", "time", "netconf", "conf"}
Over  == {"ended", "crashed"}
Page  == {"layout", "disk", "select", "install"} \cup Over \cup Later

Mount == [fs : Site, dev : Nat, proc : Nat, sys : Nat]

Fresh(f) == [fs |-> f, dev |-> 0, proc |-> 0, sys |-> 0]

Top == stack[Len(stack)]

\* The file system a chroot to TARGETDIR works on.
Here == Top.fs

Go(from, to) == at = from /\ at' = to

TargetInit ==
  /\ at = "layout"
  /\ stack = <<Fresh(Live)>>
  /\ cwd = 0
  /\ handle = "none"
  /\ has = [s \in Site |-> {}]
  /\ booted = {}
  /\ home = None /\ height = 0 /\ entered = 0
  /\ failed = {} /\ busy = {}
  /\ visits = 0

-----------------------------------------------------------------------------
\* Run of formatdisk with root r: mounted, unless it is on top or the mount
\* fails, and entered by chdir.  Then prerun of select makes pacman's handle.
LeaveDisk(r) ==
  /\ Go("disk", "select")
  /\ visits < MaxVisits
  /\ \/ stack' = stack
     \/ Here # r /\ stack' = Append(stack, Fresh(r))
  /\ cwd' = Len(stack')
  /\ handle' = IF handle = "none" THEN "made" ELSE handle
  /\ visits' = visits + 1
  /\ UNCHANGED <<done, result, entered>>

\* gparted was run: detect_parts goes to "/".
RunGparted ==
  /\ at = "disk"
  /\ cwd' = 0
  /\ UNCHANGED <<at, stack, handle, done, result, entered, visits>>

One(b) == IF b THEN 1 ELSE 0

\* A mount when the directories dirs were bound in it, which may have been before.
More(m, dirs) ==
  [fs   |-> m.fs,
   dev  |-> m.dev + One("dev" \in dirs),
   proc |-> m.proc + One("proc" \in dirs),
   sys  |-> m.sys + One("sys" \in dirs)]

\* mount -o bind, of dirs.
With(dirs) == [stack EXCEPT ![Len(stack)] = More(Top, dirs)]

\* The directory dev is made and /dev bound, each of which may fail.
Bind(dirs) ==
  /\ dirs \subseteq {"dev"}
  /\ failed' = failed \cup ({"dev"} \ dirs)
  /\ UNCHANGED busy

\* Run of select, and prerun of install, once the handle has been made.
Install(sys, dirs) ==
  /\ Go("select", "install")
  /\ Bind(dirs) /\ stack' = With(dirs)
  /\ has' = [has EXCEPT ![Here] = @ \cup sys]
  /\ home' = Here /\ height' = Len(stack)
  /\ entered' = entered + 1
  /\ UNCHANGED <<cwd, booted, visits>>

\* The handle is kept for a later visit.
SelectSlip(sys, dirs) ==
  /\ handle = "made"
  /\ Install(sys, dirs)
  /\ UNCHANGED handle

Select(sys, dirs) ==
  /\ handle = "made"
  /\ Install(sys, dirs)
  /\ handle' = "released"

\* Back from grubconfig: prerun of install, over the same list.
Reinstall(dirs) ==
  /\ Go("grub", "install")
  /\ entered < MaxEntries
  /\ Bind(dirs) /\ stack' = With(dirs)
  /\ entered' = entered + 1
  /\ UNCHANGED <<cwd, handle, done, visits>>

\* /proc is bound, and /sys taken for a part of it.
LeaveInstallSlip(dirs) ==
  /\ Go("install", "grub")
  /\ "base" \notin has[Here] => dirs = {}
  /\ dirs \subseteq {"proc"} /\ stack' = With(dirs)
  /\ failed' = failed \cup (IF "base" \in has[Here] THEN {"proc"} \ dirs ELSE {})
  /\ UNCHANGED <<cwd, handle, done, busy, entered, visits>>

\* Run of install: /proc and /sys, dirs those that could be bound.  Only the
\* directory dev is made, proc and sys are packaged.
LeaveInstall(dirs) ==
  /\ Go("install", "grub")
  /\ "base" \notin has[Here] => dirs = {}
  /\ dirs \subseteq {"proc", "sys"} /\ stack' = With(dirs)
  /\ failed' = failed \cup (IF "base" \in has[Here] THEN {"proc", "sys"} \ dirs ELSE {})
  /\ UNCHANGED <<cwd, handle, done, busy, entered, visits>>

\* Run of grubconfig, in a chroot: skipped, failed, or done.
LeaveGrub ==
  /\ Go("grub", "root")
  /\ \/ booted' = booted
     \/ "base" \in has[Here] /\ booted' = booted \cup {Here}
  /\ UNCHANGED <<stack, cwd, handle, has, home, height, result, entered, visits>>

LeaveUsers == Go("users", "time") /\ UNCHANGED system

\* Back, where prerun of the page before has nothing to do with the target.
Back ==
  /\ \/ Go("disk", "layout") \/ Go("select", "disk") \/ Go("install", "select")
     \/ Go("root", "grub") \/ Go("users", "root") \/ Go("time", "users")
     \/ Go("netconf", "time") \/ Go("conf", "netconf")
  /\ UNCHANGED system

-----------------------------------------------------------------------------
(* The end.                                                                *)

Less(n) == IF n > 0 THEN n - 1 ELSE 0

Unbound(m) == m.dev = 0 /\ m.proc = 0 /\ m.sys = 0

\* A mount after umount was called once for each directory in it, and refused
\* for dirs.
Rest(m, dirs) ==
  [fs   |-> m.fs,
   dev  |-> IF "dev" \in dirs THEN m.dev ELSE Less(m.dev),
   proc |-> IF "proc" \in dirs THEN m.proc ELSE Less(m.proc),
   sys  |-> IF "sys" \in dirs THEN m.sys ELSE Less(m.sys)]

\* The mounts stk, the one on top after that.
Emptied(stk, dirs) == [stk EXCEPT ![Len(stk)] = Rest(stk[Len(stk)], dirs)]

\* TARGETDIR is taken for a mount without asking.
UnmountedSlip(stk, dirs) ==
  {Emptied(stk, dirs)} \cup
  (IF cwd # Len(stk) /\ Unbound(Rest(stk[Len(stk)], dirs))
     THEN {SubSeq(stk, 1, Len(stk) - 1)} ELSE {})

\* umount of sys, proc and dev, once each, and of TARGETDIR.  It is busy as long as
\* something is bound in it or the working directory is there, and may be if
\* another partition is mounted below it or a program of the target still runs.
Unmounted(stk, dirs) ==
  {Emptied(stk, dirs)} \cup
  (IF Len(stk) > 1 /\ cwd # Len(stk) /\ Unbound(Rest(stk[Len(stk)], dirs))
     THEN {SubSeq(stk, 1, Len(stk) - 1)} ELSE {})

\* The program is ended without fwife_exit.
ExitSlip(stk) ==
  /\ at' = "ended"
  /\ stack' = stk
  /\ UNCHANGED <<cwd, handle, done, busy, visits>>

\* fwife_exit, when the mounts are stk.  A directory with nothing bound in it is
\* not counted as refused.
Exit(stk) ==
  /\ at' = "ended"
  /\ \E dirs \in SUBSET {d \in Dir : stk[Len(stk)][d] > 0} :
       /\ busy' = dirs
       /\ stack' \in Unmounted(stk, dirs)
  /\ UNCHANGED <<cwd, handle, done, visits>>

\* Cancel on any page, Close on the last; run of a page that fails, as that of
\* select without a handle.
Quit ==
  /\ at \notin Over
  /\ Exit(stack)
  /\ UNCHANGED <<failed, entered>>

\* Prerun of install has bound /dev, and fails, or reads a list that was freed
\* and crashes: see Packages.
InstallFails ==
  /\ \/ at = "select" /\ handle = "made"
     \/ at = "grub" /\ entered < MaxEntries
  /\ entered' = entered + 1
  /\ \E dirs \in SUBSET {"dev"} :
       /\ failed' = failed \cup ({"dev"} \ dirs)
       /\ \/ Exit(With(dirs))
          \/ /\ at = "grub"
             /\ at' = "crashed"
             /\ stack' = With(dirs)
             /\ UNCHANGED <<cwd, handle, done, busy, visits>>

-----------------------------------------------------------------------------
\* The types of the variables.
TargetTypeOK ==
  /\ at \in Page
  /\ stack \in Seq(Mount) /\ Len(stack) > 0
  /\ cwd \in Nat
  /\ handle \in {"none", "made", "released"}
  /\ has \in [Site -> SUBSET Part]
  /\ booted \subseteq Site
  /\ home \in Site \cup {None}
  /\ failed \subseteq Dir /\ busy \subseteq Dir
  /\ height \in Nat /\ entered \in Nat /\ visits \in Nat

\* run and prerun of install: by whatever way a page that works in a chroot is
\* reached, /dev is there, and /proc and /sys if the system has the directories,
\* in the root that is on top then; what is not there was refused when it was to
\* be mounted.
SystemInRoot ==
  at \in Later =>
    /\ "dev" \in failed \/ Top.dev > 0
    /\ "base" \in has[Here] => /\ ("proc" \in failed \/ Top.proc > 0)
                              /\ ("sys" \in failed \/ Top.sys > 0)

\* "unmout system directories" (fwife_exit): on whatever page the program is
\* ended, if install was entered once at most, and no root mounted over its,
\* nothing stays bound but what was in use.  A second entry binds what is never
\* unmounted.
NothingLeftBound ==
  [][at' = "ended" /\ entered' <= 1 /\ (height # 0 => height = Len(stack))
     => \A k \in 1 .. Len(stack') :
          /\ "dev" \in busy' \/ stack'[k].dev = 0
          /\ "proc" \in busy' \/ stack'[k].proc = 0
          /\ "sys" \in busy' \/ stack'[k].sys = 0]_target
=============================================================================
