-------------------------- MODULE InstalledProofs --------------------------
(***************************************************************************)
(* Proofs about Installed.  The invariant says of each page what has been  *)
(* done before it can be there: a page that works in the installed system  *)
(* has install's mount on top (Placed), which was bound at most once for   *)
(* each visit (Bound); before packages were selected nothing is on any root (Empty).  *)
(***************************************************************************)
EXTENDS Installed, SequenceTheorems, TLAPS

Inside == Later \cup {"install"}

\* Packages are selected once; the pages behind work where they were put.
Placed ==
  /\ handle # "released" => home = None /\ height = 0
  /\ handle = "released" => entered > 0
  /\ at \in Inside => /\ handle = "released"
                      /\ home = Here /\ height = Len(stack)
                      /\ ("dev" \in failed \/ Top.dev > 0)

\* Only the mount install was entered on has something bound; at most once if
\* install was entered once, and /proc and /sys only after its run.
Bound ==
  at \notin Over =>
    /\ height <= Len(stack)
    /\ \A k \in 1 .. Len(stack) :
         /\ k # height => Unbound(stack[k])
         /\ k = height /\ entered <= 1 =>
              /\ stack[k].dev <= 1
              /\ at \in Later => stack[k].proc <= 1 /\ stack[k].sys <= 1
              /\ at \notin Later => stack[k].proc = 0 /\ stack[k].sys = 0
    /\ handle # "released" => entered = 0

\* Before packages were selected, no page behind has been there.
Empty == handle # "released" => rows = {} /\ xlayout = None

\* What is listed is on the root the pages work on.
UsersInside ==
  /\ \A s \in Site : sudoers[s] \subseteq account[s] \cup kept
  /\ \A s \in Site : sudoers[s] \subseteq asked[s] \cup kept
  /\ at \in Inside =>
       /\ rows \subseteq account[Here]
       /\ \A n \in (rows \cap asked[Here]) \ unwritten :
            (\A m \in Name : <<n, m>> \notin EndsWith) => n \in sudoers[Here]

\* The temporary file has what config has; so has the root, when it is copied.
Keys ==
  at \notin Over =>
    /\ stack[1].fs = Live
    /\ Len(stack) = 1 => \A r \in Root : keymap[r] = None
    /\ temp # None => temp = xconfig
    /\ at \in Inside \cup {"select"} => temp = None
    /\ Len(stack) <= 2 /\ temp = None /\ Here \notin missed => keymap[Here] \in {None, xconfig}
    /\ at \in Inside => xlayout \in {None, xconfig} /\ evdev[Here] \in {None, xconfig}

\* The forms can be left when they are filled in.
Filled ==
  /\ verified => rootpass = rootverify
  /\ placed <=> place \in City

IInv == TypeOK /\ Placed /\ Bound /\ SystemInRoot /\ OneSystem /\ Empty
        /\ UsersInside /\ Keys /\ Filled /\ ZoneIsCity

USE DEF Over

-----------------------------------------------------------------------------
(* Mounts.                                                                 *)

\* What binding does to the mounts: it changes the counts of the one on top.
LEMMA Binding ==
  ASSUME stack \in Seq(Mount), Len(stack) > 0
  PROVE  /\ Top \in Mount
         /\ \A m \in Mount :
              LET s == [stack EXCEPT ![Len(stack)] = m]
              IN /\ s \in Seq(Mount) /\ Len(s) = Len(stack)
                 /\ s[Len(stack)] = m
                 /\ \A k \in 1 .. Len(stack) : k # Len(stack) => s[k] = stack[k]
<1>1. Len(stack) \in Nat /\ Len(stack) \in 1 .. Len(stack)
  BY LenProperties
<1>2. Top \in Mount
  BY <1>1, ElementOfSeq DEF Top
<1>3. ASSUME NEW m \in Mount
      PROVE  LET s == [stack EXCEPT ![Len(stack)] = m]
             IN /\ s \in Seq(Mount) /\ Len(s) = Len(stack)
                /\ s[Len(stack)] = m
                /\ \A k \in 1 .. Len(stack) : k # Len(stack) => s[k] = stack[k]
  <2>1. /\ [stack EXCEPT ![Len(stack)] = m] \in Seq(Mount)
        /\ Len([stack EXCEPT ![Len(stack)] = m]) = Len(stack)
    BY <1>1, ExceptSeq
  <2>2. DOMAIN stack = 1 .. Len(stack)
    BY LenProperties
  <2> QED
    BY <1>1, <2>1, <2>2
<1> QED
  BY <1>2, <1>3

\* The mounts with other counts are mounts.
LEMMA Counts ==
  ASSUME NEW m \in Mount
  PROVE  /\ m.fs \in Site /\ m.dev \in Nat /\ m.proc \in Nat /\ m.sys \in Nat
         /\ \A dirs : More(m, dirs) \in Mount /\ Rest(m, dirs) \in Mount
<1>1. \A b : One(b) \in Nat
  BY DEF One
<1>2. \A n \in Nat : Less(n) \in Nat
  BY DEF Less
<1>3. m.fs \in Site /\ m.dev \in Nat /\ m.proc \in Nat /\ m.sys \in Nat
  BY DEF Mount
<1>4. ASSUME NEW dirs PROVE More(m, dirs) \in Mount
  BY <1>1, <1>3 DEF More, Mount
<1>5. ASSUME NEW dirs PROVE Rest(m, dirs) \in Mount
  BY <1>2, <1>3 DEF Rest, Mount
<1> QED
  BY <1>3, <1>4, <1>5

\* The mounts fwife_exit may leave.
LEMMA Left ==
  ASSUME NEW stk, NEW dirs, NEW new \in Unmounted(stk, dirs)
  PROVE  \/ new = Emptied(stk, dirs)
         \/ Len(stk) > 1 /\ new = SubSeq(stk, 1, Len(stk) - 1)
  BY DEF Unmounted

\* They are a stack of mounts.
LEMMA Leaving ==
  ASSUME NEW stk \in Seq(Mount), Len(stk) > 0, NEW dirs, NEW new \in Unmounted(stk, dirs)
  PROVE  new \in Seq(Mount) /\ Len(new) > 0
<1>1. Len(stk) \in Nat /\ Len(stk) \in 1 .. Len(stk) /\ stk[Len(stk)] \in Mount
  BY LenProperties, ElementOfSeq
<1>2. Rest(stk[Len(stk)], dirs) \in Mount
  BY <1>1, Counts
<1>3. Emptied(stk, dirs) \in Seq(Mount) /\ Len(Emptied(stk, dirs)) = Len(stk)
  BY <1>1, <1>2, ExceptSeq DEF Emptied
<1>4. CASE new = Emptied(stk, dirs)
  BY <1>1, <1>3, <1>4
<1>5. CASE Len(stk) > 1 /\ new = SubSeq(stk, 1, Len(stk) - 1)
  <2>1. /\ SubSeq(stk, 1, Len(stk) - 1) \in Seq(Mount)
        /\ Len(SubSeq(stk, 1, Len(stk) - 1)) = Len(stk) - 1
    BY <1>1, <1>5
  <2> QED
    BY <1>1, <1>5, <2>1
<1> QED
  BY <1>4, <1>5, Left

\* What install's mounts do.
LEMMA Binds ==
  ASSUME stack \in Seq(Mount), Len(stack) > 0, NEW dirs
  PROVE  /\ With(dirs) \in Seq(Mount) /\ Len(With(dirs)) = Len(stack)
         /\ With(dirs)[Len(stack)] = More(Top, dirs)
         /\ \A k \in 1 .. Len(stack) : k # Len(stack) => With(dirs)[k] = stack[k]
<1>1. Top \in Mount
  BY Binding
<1>2. More(Top, dirs) \in Mount
  BY <1>1, Counts
<1> QED
  BY <1>2, Binding DEF With

-----------------------------------------------------------------------------
(* The ways the target can change.                                         *)

\* Another page, and nothing else.
Walk ==
  /\ UNCHANGED system
  /\ at \notin Over /\ at' \in Page \ Over
  /\ at' \in Inside \cup {"select"} => at \in Inside
  /\ at \in Later <=> at' \in Later

\* The program ends.
End ==
  /\ at \notin Over /\ at' \in Over
  /\ UNCHANGED <<handle, done, cwd, visits>>
  /\ entered' \in {entered, entered + 1}
  /\ failed' \subseteq Dir /\ busy' \subseteq Dir
  /\ stack' \in Seq(Mount) /\ Len(stack') > 0

Move ==
  \/ UNCHANGED target \/ Walk \/ RunGparted \/ LeaveGrub \/ End
  \/ \E dirs \in SUBSET Dir : Reinstall(dirs) \/ LeaveInstall(dirs)
  \/ \E sys \in Systems, dirs \in SUBSET Dir : Select(sys, dirs)
  \/ \E r \in Root : LeaveDisk(r) /\ CopyKeymap

LEMMA Moves ==
  ASSUME TypeOK, Next
  PROVE  Move
<1> USE DEF TypeOK
<1>1. stack \in Seq(Mount) /\ Len(stack) > 0 /\ failed \subseteq Dir /\ busy \subseteq Dir
  BY DEF TargetTypeOK
<1>2. ASSUME NEW stk \in Seq(Mount), Len(stk) > 0, Exit(stk)
      PROVE  /\ stack' \in Seq(Mount) /\ Len(stack') > 0 /\ busy' \subseteq Dir
             /\ at' = "ended" /\ UNCHANGED <<cwd, handle, done, visits>>
  <2>1. PICK dirs \in SUBSET {d \in Dir : stk[Len(stk)][d] > 0} :
          busy' = dirs /\ stack' \in Unmounted(stk, dirs)
    BY <1>2 DEF Exit
  <2>2. stack' \in Seq(Mount) /\ Len(stack') > 0
    BY <1>2, <2>1, Leaving
  <2> QED
    BY <1>2, <2>1, <2>2 DEF Exit
<1>3. \A dirs : With(dirs) \in Seq(Mount) /\ Len(With(dirs)) > 0
  BY <1>1, Binds
<1>5. Quit => End
  BY <1>1, <1>2 DEF Quit, End, done
<1>6. InstallFails => End
  <2>1. SUFFICES ASSUME InstallFails PROVE End
    OBVIOUS
  <2>2. PICK dirs \in SUBSET {"dev"} :
          /\ failed' = failed \cup ({"dev"} \ dirs)
          /\ \/ Exit(With(dirs))
             \/ /\ at = "grub"
                /\ at' = "crashed"
                /\ stack' = With(dirs)
                /\ UNCHANGED <<cwd, handle, done, busy, visits>>
    BY <2>1 DEF InstallFails
  <2>3. at \notin Over /\ entered' = entered + 1
    BY <2>1 DEF InstallFails
  <2>4. failed' \subseteq Dir
    BY <1>1, <2>2 DEF Dir
  <2> QED
    BY <1>1, <1>2, <1>3, <2>2, <2>3, <2>4 DEF End
<1>7. LeaveUsers \/ Back => Walk
  BY DEF LeaveUsers, Back, Go, Walk, Inside, Later, Page
<1>8. CASE Pages
  BY <1>5, <1>6, <1>7, <1>8 DEF Pages, Move
<1>9. CASE Forms
  <2>1. ASSUME NEW t \in Text, LeaveRoot(t) PROVE Walk
    BY <2>1 DEF LeaveRoot, Go, Walk, Inside, Later, Page, system
  <2>2. DrawUsers => End
    BY <1>1 DEF TargetTypeOK, DrawUsers, Go, End, Page, Later, system, done, result
  <2> QED
    BY <1>9, <2>1, <2>2 DEF Forms, AddUser, RemoveUser, TypePassword, TypeVerify, Move, target
<1>10. CASE Choices
  <2>1. LeaveLayout \/ EnterConfiguration => Walk
    BY DEF LeaveLayout, EnterConfiguration, Go, Walk, Inside, Later, Page
  <2>2. LeaveTime => Walk \/ End
    BY <1>5 DEF LeaveTime, Walk, Inside, Later, Page
  <2>3. (\E k \in Keyboard : SelectKeyboard(k)) \/ (\E k \in Custom : AddKeyboard(k))
        \/ (\E p \in Place : SelectPlace(p)) \/ ConfigureX
        => UNCHANGED target
    BY DEF SelectKeyboard, AddKeyboard, SelectPlace, ConfigureX
  <2> QED
    BY <1>10, <2>1, <2>2, <2>3 DEF Choices, Move
<1> QED
  BY <1>8, <1>9, <1>10 DEF Next

-----------------------------------------------------------------------------
(* Types.                                                                  *)

LEMMA TargetTypes ==
  ASSUME TypeOK, Next
  PROVE  TargetTypeOK'
<1> USE DEF TypeOK, TargetTypeOK
<1>1. stack \in Seq(Mount) /\ Len(stack) \in Nat /\ Len(stack) > 0 /\ Top \in Mount
  BY Binding, LenProperties
<1>2. Here \in Site
  BY <1>1, Counts DEF Here
<1>3. CASE UNCHANGED target
  BY <1>3 DEF target, system, done, result
<1>4. CASE Walk
  BY <1>4 DEF Walk, system, done, result
<1>5. CASE RunGparted
  BY <1>5 DEF RunGparted, done, result
<1>6. ASSUME NEW dirs \in SUBSET Dir, Reinstall(dirs) PROVE TargetTypeOK'
  BY <1>1, <1>6, Binds DEF Reinstall, Bind, Dir, Go, done, Page, Later
<1>7. ASSUME NEW dirs \in SUBSET Dir, LeaveInstall(dirs) PROVE TargetTypeOK'
  BY <1>1, <1>7, Binds DEF LeaveInstall, Dir, Go, done, Page, Later
<1>8. CASE LeaveGrub
  BY <1>1, <1>2, <1>8 DEF LeaveGrub, Go, done, result, Page, Later
<1>9. CASE End
  BY <1>9 DEF End, done, Page
<1>10. ASSUME NEW sys \in Systems, NEW dirs \in SUBSET Dir, Select(sys, dirs) PROVE TargetTypeOK'
  <2>1. sys \subseteq Part
    BY TargetAssumption
  <2>2. [has EXCEPT ![Here] = @ \cup sys] \in [Site -> SUBSET Part]
    BY <1>2, <2>1
  <2> QED
    BY <1>1, <1>2, <1>10, <2>2, Binds DEF Select, Install, Bind, Dir, Go, Page, Later
<1>11. ASSUME NEW r \in Root, LeaveDisk(r) PROVE TargetTypeOK'
  <2>1. Fresh(r) \in Mount
    BY DEF Fresh, Mount, Site
  <2>2. /\ Append(stack, Fresh(r)) \in Seq(Mount)
        /\ Len(Append(stack, Fresh(r))) = Len(stack) + 1
    BY <1>1, <2>1, AppendProperties
  <2>3. stack' \in Seq(Mount) /\ Len(stack') \in Nat /\ Len(stack') > 0
    BY <1>1, <1>11, <2>2 DEF LeaveDisk
  <2> QED
    BY <1>11, <2>3 DEF LeaveDisk, Go, done, result, Page
<1> QED
  BY <1>3, <1>4, <1>5, <1>6, <1>7, <1>8, <1>9, <1>10, <1>11, Moves DEF Move

LEMMA Same ==
  ASSUME TypeOK
  PROVE  /\ Here \in Site
         /\ Len(stack) \in Nat /\ Len(stack) > 0 /\ Len(stack) \in 1 .. Len(stack)
         /\ Top \in Mount /\ stack \in Seq(Mount)
  BY Binding, Counts, LenProperties DEF Here, TypeOK, TargetTypeOK

LEMMA AccountsTypes ==
  ASSUME TypeOK, Next
  PROVE  AccountsTypeOK'
<1> USE DEF TypeOK, AccountsTypeOK
<1>1. Here \in Site
  BY Same
<1>2. CASE UNCHANGED <<users, password, ops>>
  BY <1>2 DEF users, lines, password
<1>3. ASSUME NEW n \in Name, NEW sudo \in BOOLEAN, NEW ok \in BOOLEAN, NEW wrote \in BOOLEAN,
             AddUser(n, sudo, ok, wrote)
      PROVE  AccountsTypeOK'
  <2>1. account' \in [Site -> SUBSET Name]
    BY <1>1, <1>3 DEF AddUser, Added
  <2>2. sudoers' \in [Site -> SUBSET Name]
    BY <1>1, <1>3 DEF AddUser, Added
  <2>3. asked' \in [Site -> SUBSET Name]
    BY <1>1, <1>3 DEF AddUser, Added, Dropped
  <2>4. /\ rows' \subseteq Name /\ ops' \in Nat /\ unwritten' \subseteq Name
        /\ UNCHANGED <<password, kept, freed>>
    BY <1>3 DEF AddUser, Operate
  <2> QED
    BY <2>1, <2>2, <2>3, <2>4 DEF password
<1>4. ASSUME NEW n \in Name, NEW ok \in BOOLEAN, NEW wrote \in BOOLEAN,
             RemoveUser(n, ok, wrote)
      PROVE  AccountsTypeOK'
  <2>1. account' \in [Site -> SUBSET Name]
    BY <1>1, <1>4 DEF RemoveUser, Dropped
  <2>2. sudoers' \in [Site -> SUBSET Name]
    BY <1>1, <1>4 DEF RemoveUser, Dropped
  <2>3. rows' \subseteq Name /\ freed' \in BOOLEAN /\ ops' \in Nat /\ kept' \subseteq Name
        /\ UNCHANGED <<password, asked, unwritten>>
    BY <1>4 DEF RemoveUser, Operate
  <2> QED
    BY <2>1, <2>2, <2>3 DEF password
<1>5. ASSUME NEW t \in Text, TypePassword(t) \/ TypeVerify(t) PROVE AccountsTypeOK'
  <2>1. (t = rootverify) \in BOOLEAN /\ (t = rootpass) \in BOOLEAN
    OBVIOUS
  <2>2. verified' \in BOOLEAN
    BY ONLY <1>5, <2>1, Zenon DEF TypePassword, TypeVerify
  <2>3. ops' \in Nat /\ rootpass' \in Text /\ rootverify' \in Text
        /\ UNCHANGED <<users, secret>>
    BY <1>5 DEF TypePassword, TypeVerify, Operate
  <2> QED
    BY <2>2, <2>3 DEF users, lines
<1>6. ASSUME NEW t \in Text, LeaveRoot(t) PROVE AccountsTypeOK'
  <2>1. [secret EXCEPT ![Here] = t] \in [Site -> Text]
    BY <1>1
  <2>2. secret' \in [Site -> Text]
    BY <1>6, <2>1 DEF LeaveRoot
  <2> QED
    BY <1>6, <2>2 DEF LeaveRoot, users, lines
<1>7. CASE Choices
  <2>1. UNCHANGED <<users, password>> /\ (ops' = ops \/ ops' = ops + 1)
    BY <1>7 DEF Choices, SelectKeyboard, AddKeyboard, LeaveLayout, CopyKeymap, SelectPlace,
                LeaveTime, EnterConfiguration, ConfigureX, Operate
  <2> QED
    BY <2>1 DEF users, lines, password
<1> QED
  <2>1. CASE Pages /\ UNCHANGED <<users, password, ops, keyboard, time>>
    BY <1>2, <2>1
  <2>2. CASE Forms
    BY <1>2, <1>3, <1>4, <1>5, <1>6, <2>2 DEF Forms, DrawUsers
  <2> QED
    BY <1>7, <2>1, <2>2 DEF Next

LEMMA SettingsTypes ==
  ASSUME TypeOK, Next
  PROVE  SettingsTypeOK'
<1> USE DEF TypeOK, SettingsTypeOK
<1>1. Here \in Site
  BY Same
<1>2. CASE UNCHANGED <<keyboard, time>>
  BY <1>2 DEF keyboard, time
<1>3. ASSUME NEW k \in Keyboard, SelectKeyboard(k) PROVE SettingsTypeOK'
  BY <1>3 DEF SelectKeyboard, time
<1>4. ASSUME NEW k \in Custom, AddKeyboard(k) PROVE SettingsTypeOK'
  BY <1>4 DEF AddKeyboard, time, Keyboard
<1>5. CASE LeaveLayout
  BY <1>5 DEF LeaveLayout, time
<1>6. ASSUME NEW r \in Root, LeaveDisk(r) /\ CopyKeymap PROVE SettingsTypeOK'
  <2>1. TypeOK /\ Next
    BY <1>6 DEF Next, Choices
  <2>2. stack' \in Seq(Mount) /\ Len(stack') > 0
    BY <2>1, TargetTypes DEF TargetTypeOK
  <2>3. stack'[Len(stack')] \in Mount
    BY <2>2, LenProperties, ElementOfSeq
  <2>4. stack'[Len(stack')].fs \in Site
    BY <2>3, Counts
  <2>5. keymap' \in [Site -> Keyboard \cup {None}] /\ missed' \subseteq Site
    BY <1>6, <2>4 DEF CopyKeymap
  <2> QED
    BY <1>6, <2>5 DEF CopyKeymap, time
<1>7. ASSUME NEW q \in Place, SelectPlace(q) PROVE SettingsTypeOK'
  BY <1>7 DEF SelectPlace, keyboard
<1>8. CASE LeaveTime
  <2>1. zone' \in [Site -> City \cup {None, "(null)"}]
    BY <1>1, <1>8 DEF LeaveTime, Place
  <2> QED
    BY <1>8, <2>1 DEF LeaveTime, keyboard
<1>9. CASE EnterConfiguration
  BY <1>9 DEF EnterConfiguration, time
<1>10. CASE ConfigureX
  BY <1>1, <1>10 DEF ConfigureX, time
<1> QED
  BY <1>2, <1>3, <1>4, <1>5, <1>6, <1>7, <1>8, <1>9, <1>10 DEF Next, Choices

LEMMA TypesStep == ASSUME TypeOK, Next PROVE TypeOK'
  BY TargetTypes, AccountsTypes, SettingsTypes DEF TypeOK

LEMMA TypesInit == Init => TypeOK
<1> SUFFICES ASSUME Init PROVE TypeOK
  OBVIOUS
<1>1. TargetTypeOK
  <2>1. Fresh(Live) \in Mount
    BY DEF Fresh, Mount, Site
  <2>2. <<Fresh(Live)>> \in Seq(Mount) /\ Len(<<Fresh(Live)>>) = 1
    BY <2>1
  <2> QED
    BY <2>2 DEF Init, TargetInit, TargetTypeOK, Page
<1>2. AccountsTypeOK
  BY DEF Init, AccountsInit, AccountsTypeOK, Text
<1>3. SettingsTypeOK
  BY DEF Init, SettingsInit, SettingsTypeOK, Keyboard, Place
<1> QED
  BY <1>1, <1>2, <1>3 DEF TypeOK

LEMMA TypesStutter == ASSUME TypeOK, UNCHANGED vars PROVE TypeOK'
  BY DEF TypeOK, TargetTypeOK, AccountsTypeOK, SettingsTypeOK, vars, target, system, done,
         result, users, lines, password, keyboard, time

\* The types are those of the variables on every page.
THEOREM TypeCorrect == Spec => []TypeOK
<1>1. TypeOK /\ [Next]_vars => TypeOK'
  BY TypesStep, TypesStutter
<1> QED
  BY TypesInit, <1>1, PTL DEF Spec

-----------------------------------------------------------------------------
(* Where the system is, and what is bound in it.                           *)

\* Binding leaves the file system on top as it is.
LEMMA TopKept ==
  ASSUME TypeOK, NEW dirs
  PROVE  /\ With(dirs)[Len(With(dirs))] = More(Top, dirs)
         /\ With(dirs)[Len(With(dirs))].fs = Here
         /\ With(dirs)[Len(With(dirs))].dev >= Top.dev
         /\ "dev" \in dirs => With(dirs)[Len(With(dirs))].dev > 0
         /\ "proc" \in dirs => With(dirs)[Len(With(dirs))].proc > 0
         /\ "sys" \in dirs => With(dirs)[Len(With(dirs))].sys > 0
         /\ Top.dev \in Nat /\ Top.proc \in Nat /\ Top.sys \in Nat
<1>1. stack \in Seq(Mount) /\ Len(stack) > 0
  BY Same
<1>2. With(dirs)[Len(With(dirs))] = More(Top, dirs)
  BY <1>1, Binds
<1>3. Top.dev \in Nat /\ Top.proc \in Nat /\ Top.sys \in Nat
  BY Same, Counts
<1>4. /\ More(Top, dirs).fs = Here
      /\ More(Top, dirs).dev = Top.dev + One("dev" \in dirs)
      /\ More(Top, dirs).proc = Top.proc + One("proc" \in dirs)
      /\ More(Top, dirs).sys = Top.sys + One("sys" \in dirs)
  BY DEF More, Here
<1>5. /\ One("dev" \in dirs) \in Nat /\ ("dev" \in dirs => One("dev" \in dirs) = 1)
      /\ "proc" \in dirs => One("proc" \in dirs) = 1
      /\ "sys" \in dirs => One("sys" \in dirs) = 1
  BY DEF One
<1> QED
  BY <1>2, <1>3, <1>4, <1>5

LEMMA KeptByWith ==
  ASSUME TypeOK, NEW dirs, stack' = With(dirs)
  PROVE  /\ Here' = Here /\ Len(stack') = Len(stack) /\ stack'[1].fs = stack[1].fs
         /\ Top.dev > 0 => Top'.dev > 0
         /\ "dev" \in dirs => Top'.dev > 0
         /\ "proc" \in dirs => Top'.proc > 0
         /\ "sys" \in dirs => Top'.sys > 0
<1>1. Top' = With(dirs)[Len(With(dirs))] /\ Here' = Top'.fs
  BY DEF Top, Here
<1>2. Len(stack') = Len(stack) /\ Top' = More(Top, dirs)
  BY <1>1, Binds, Same
<1>3. Top.dev \in Nat /\ Top'.dev >= Top.dev /\ Top'.dev \in Nat
  BY <1>1, <1>2, Same, Counts, TopKept
<1>4. Top.dev > 0 => Top'.dev > 0
  BY <1>3
<1>5. stack'[1].fs = stack[1].fs
  <2>1. CASE Len(stack) = 1
    BY <1>1, <1>2, <2>1, TopKept DEF Top, Here
  <2>2. CASE Len(stack) # 1
    <3>1. 1 \in 1 .. Len(stack) /\ 1 # Len(stack)
      BY <2>2, Same
    <3> QED
      BY <3>1, Binds, Same
  <2> QED
    BY <2>1, <2>2
<1> QED
  BY <1>1, <1>2, <1>4, <1>5, TopKept

LEMMA PlacedStep ==
  ASSUME TypeOK, Placed, SystemInRoot, Next
  PROVE  Placed' /\ SystemInRoot'
<1> USE DEF Placed, SystemInRoot
<1>1. entered \in Nat /\ Len(stack) \in Nat /\ Here \in Site
  BY Same DEF TypeOK, TargetTypeOK
<1>2. CASE UNCHANGED target
  BY <1>2 DEF target, system, done, result, Top, Here
<1>3. CASE Walk
  BY <1>3 DEF Walk, system, done, result, Top, Here
<1>4. CASE RunGparted
  BY <1>4 DEF RunGparted, done, Inside, Later
<1>5. ASSUME NEW dirs \in SUBSET Dir, Reinstall(dirs) PROVE Placed' /\ SystemInRoot'
  <2>1. at = "grub" /\ at' = "install" /\ stack' = With(dirs) /\ dirs \subseteq {"dev"}
        /\ failed' = failed \cup ({"dev"} \ dirs) /\ entered' = entered + 1
        /\ UNCHANGED <<handle, home, height>>
    BY <1>5 DEF Reinstall, Bind, Go, done
  <2>2. /\ Here' = Here /\ Len(stack') = Len(stack)
        /\ Top.dev > 0 => Top'.dev > 0
        /\ "dev" \in dirs => Top'.dev > 0
        /\ "proc" \in dirs => Top'.proc > 0
        /\ "sys" \in dirs => Top'.sys > 0
    BY <2>1, KeptByWith
  <2>3. "dev" \in failed' \/ Top'.dev > 0
    BY <2>1, <2>2
  <2> QED
    BY <1>1, <2>1, <2>2, <2>3 DEF Inside, Later
<1>6. ASSUME NEW dirs \in SUBSET Dir, LeaveInstall(dirs) PROVE Placed' /\ SystemInRoot'
  <2>1. at = "install" /\ at' = "grub" /\ stack' = With(dirs)
        /\ UNCHANGED <<handle, has, home, height, entered>>
    BY <1>6 DEF LeaveInstall, Go, done
  <2>2. /\ Here' = Here /\ Len(stack') = Len(stack)
        /\ Top.dev > 0 => Top'.dev > 0
        /\ "dev" \in dirs => Top'.dev > 0
        /\ "proc" \in dirs => Top'.proc > 0
        /\ "sys" \in dirs => Top'.sys > 0
    BY <2>1, KeptByWith
  <2>3. "dev" \in failed' \/ Top'.dev > 0
    BY <1>6, <2>1, <2>2 DEF LeaveInstall, Inside
  <2>4. "base" \in has[Here] => {"proc", "sys"} \ dirs \subseteq failed'
    BY <1>6 DEF LeaveInstall
  <2>5. "base" \in has'[Here'] => /\ ("proc" \in failed' \/ Top'.proc > 0)
                                 /\ ("sys" \in failed' \/ Top'.sys > 0)
    BY <2>1, <2>2, <2>4
  <2> QED
    BY <1>1, <2>1, <2>2, <2>3, <2>5 DEF Inside, Later
<1>7. CASE LeaveGrub
  BY <1>7 DEF LeaveGrub, Go, result, Inside, Later, Top, Here
<1>8. CASE End
  BY <1>1, <1>8 DEF End, done, Inside, Later
<1>9. ASSUME NEW sys \in Systems, NEW dirs \in SUBSET Dir, Select(sys, dirs)
      PROVE  Placed' /\ SystemInRoot'
  <2>1. at' = "install" /\ stack' = With(dirs) /\ dirs \subseteq {"dev"}
        /\ failed' = failed \cup ({"dev"} \ dirs) /\ entered' = entered + 1
        /\ handle' = "released" /\ home' = Here /\ height' = Len(stack)
    BY <1>9 DEF Select, Install, Bind, Go
  <2>2. /\ Here' = Here /\ Len(stack') = Len(stack)
        /\ Top.dev > 0 => Top'.dev > 0
        /\ "dev" \in dirs => Top'.dev > 0
        /\ "proc" \in dirs => Top'.proc > 0
        /\ "sys" \in dirs => Top'.sys > 0
    BY <2>1, KeptByWith
  <2>3. "dev" \in failed' \/ Top'.dev > 0
    BY <2>1, <2>2
  <2> QED
    BY <1>1, <2>1, <2>2, <2>3 DEF Later
<1>10. ASSUME NEW r \in Root, LeaveDisk(r) PROVE Placed' /\ SystemInRoot'
  BY <1>10 DEF LeaveDisk, Go, done, Inside, Later
<1> QED
  BY <1>2, <1>3, <1>4, <1>5, <1>6, <1>7, <1>8, <1>9, <1>10, Moves DEF Move

\* The mounts after an action that leaves all but the top one.
LEMMA BoundStep ==
  ASSUME TypeOK, Placed, Bound, Next
  PROVE  Bound'
<1>1. /\ entered \in Nat /\ height \in Nat /\ Len(stack) \in Nat /\ Len(stack) > 0
      /\ \A k \in 1 .. Len(stack) :
           stack[k].dev \in Nat /\ stack[k].proc \in Nat /\ stack[k].sys \in Nat
  BY Same, ElementOfSeq, Counts DEF TypeOK, TargetTypeOK
<1>2. CASE UNCHANGED target
  BY <1>2 DEF target, system, done, Bound
<1>3. CASE Walk
  BY <1>3 DEF Walk, system, done, Bound
<1>4. CASE RunGparted
  BY <1>4 DEF RunGparted, done, Bound
<1>5. ASSUME NEW dirs \in SUBSET Dir, Reinstall(dirs) PROVE Bound'
  <2>1. at = "grub" /\ at' = "install" /\ handle' = handle /\ height' = height
        /\ stack' = With(dirs) /\ entered' = entered + 1
    BY <1>5 DEF Reinstall, Go, done
  <2>2. handle = "released" /\ height = Len(stack) /\ entered > 0
    BY <2>1 DEF Placed, Inside, Later
  <2>3. Len(stack') = Len(stack) /\ \A k \in 1 .. Len(stack) : k # height => stack'[k] = stack[k]
    BY <2>1, <2>2, Binds, Same
  <2>4. ~(entered' <= 1)
    BY <1>1, <2>1, <2>2
  <2> QED
    BY <1>1, <2>1, <2>2, <2>3, <2>4 DEF Bound
<1>6. ASSUME NEW dirs \in SUBSET Dir, LeaveInstall(dirs) PROVE Bound'
  <2>1. at = "install" /\ at' = "grub" /\ handle' = handle /\ height' = height
        /\ entered' = entered /\ stack' = With(dirs) /\ "dev" \notin dirs
    BY <1>6 DEF LeaveInstall, Go, done
  <2>2. handle = "released" /\ height = Len(stack)
    BY <2>1 DEF Placed, Inside
  <2>3. /\ Len(stack') = Len(stack) /\ stack'[Len(stack)] = More(stack[Len(stack)], dirs)
        /\ \A k \in 1 .. Len(stack) : k # height => stack'[k] = stack[k]
    BY <2>1, <2>2, Binds, Same DEF Top
  <2>4. at \notin Later /\ at' \in Later
    BY <2>1 DEF Later
  <2>5. /\ stack'[Len(stack)].dev = stack[Len(stack)].dev
        /\ stack'[Len(stack)].proc \in {stack[Len(stack)].proc, stack[Len(stack)].proc + 1}
        /\ stack'[Len(stack)].sys \in {stack[Len(stack)].sys, stack[Len(stack)].sys + 1}
    BY <1>1, <2>1, <2>3 DEF More, One
  <2>6. ASSUME entered' <= 1
        PROVE  /\ stack'[Len(stack)].dev <= 1 /\ stack'[Len(stack)].proc <= 1
               /\ stack'[Len(stack)].sys <= 1
    <3>1. /\ stack[Len(stack)].dev <= 1 /\ stack[Len(stack)].proc = 0
          /\ stack[Len(stack)].sys = 0
      BY <1>1, <2>1, <2>2, <2>4, <2>6 DEF Bound
    <3> QED
      BY <1>1, <2>5, <3>1
  <2> QED
    BY <1>1, <2>1, <2>2, <2>3, <2>4, <2>6 DEF Bound
<1>7. CASE LeaveGrub
  BY <1>7 DEF LeaveGrub, Go, Bound, Later
<1>8. CASE End
  BY <1>8 DEF End, Bound
<1>9. ASSUME NEW sys \in Systems, NEW dirs \in SUBSET Dir, Select(sys, dirs) PROVE Bound'
  <2>1. at = "select" /\ at' = "install" /\ handle = "made" /\ handle' = "released"
        /\ height' = Len(stack) /\ stack' = With(dirs) /\ entered' = entered + 1
        /\ dirs \subseteq {"dev"}
    BY <1>9 DEF Select, Install, Bind, Go
  <2>2. height = 0 /\ entered = 0
    BY <2>1 DEF Placed, Bound
  <2>3. \A k \in 1 .. Len(stack) : stack[k].dev = 0 /\ stack[k].proc = 0 /\ stack[k].sys = 0
    BY <1>1, <2>1, <2>2 DEF Bound, Unbound
  <2>4. /\ Len(stack') = Len(stack) /\ stack'[Len(stack)] = More(stack[Len(stack)], dirs)
        /\ \A k \in 1 .. Len(stack) : k # Len(stack) => stack'[k] = stack[k]
    BY <2>1, Binds, Same DEF Top
  <2>5. at' \notin Later /\ 0 + 1 <= 1
    BY <2>1 DEF Later
  <2>6. /\ stack'[Len(stack)].dev <= 1 /\ stack'[Len(stack)].proc = 0
        /\ stack'[Len(stack)].sys = 0
    <3>1. stack[Len(stack)].dev = 0 /\ stack[Len(stack)].proc = 0 /\ stack[Len(stack)].sys = 0
      BY <2>3, Same
    <3>2. "proc" \notin dirs /\ "sys" \notin dirs
      BY <2>1
    <3>3. One("dev" \in dirs) \in {0, 1} /\ One("proc" \in dirs) = 0 /\ One("sys" \in dirs) = 0
      BY <3>2 DEF One
    <3> QED
      BY <2>4, <3>1, <3>3 DEF More
  <2> QED
    BY <1>1, <2>1, <2>3, <2>4, <2>5, <2>6 DEF Bound, Unbound
<1>10. ASSUME NEW r \in Root, LeaveDisk(r) PROVE Bound'
  <2>1. at = "disk" /\ at' = "select" /\ height' = height /\ entered' = entered
        /\ (handle' # "released" => handle # "released")
    BY <1>10 DEF LeaveDisk, Go, done
  <2>2. at \notin Later /\ at' \notin Later
    BY <2>1 DEF Later
  <2>3. CASE stack' = stack
    BY <2>1, <2>2, <2>3 DEF Bound
  <2>4. CASE stack' # stack
    <3>1. /\ Len(stack') = Len(stack) + 1 /\ stack'[Len(stack) + 1] = Fresh(r)
          /\ \A k \in 1 .. Len(stack) : stack'[k] = stack[k]
      <4>1. Fresh(r) \in Mount
        BY DEF Fresh, Mount, Site
      <4> QED
        BY <1>10, <2>4, <4>1, Same, AppendProperties DEF LeaveDisk
    <3>2. Unbound(stack'[Len(stack) + 1]) /\ Len(stack) + 1 # height
      BY <1>1, <2>1, <3>1 DEF Unbound, Fresh, Bound
    <3>3. \A k \in 1 .. Len(stack') : k = Len(stack) + 1 \/ k \in 1 .. Len(stack)
      BY <1>1, <3>1
    <3> QED
      BY <1>1, <2>1, <2>2, <3>1, <3>2, <3>3 DEF Bound
  <2> QED
    BY <2>3, <2>4
<1> QED
  BY <1>2, <1>3, <1>4, <1>5, <1>6, <1>7, <1>8, <1>9, <1>10, Moves DEF Move

-----------------------------------------------------------------------------
(* Who and what is on the roots.                                           *)

\* has and booted change here, the rest in the lemma below.
LEMMA OneSystemTarget ==
  ASSUME TypeOK, Placed, OneSystem, Next
  PROVE  /\ \A s \in Site \ {home'} : has'[s] = {} /\ s \notin booted'
         /\ (home' = home \/ (handle = "made" /\ home = None))
<1>1. CASE \/ UNCHANGED target \/ Walk \/ RunGparted \/ End
           \/ \E dirs \in SUBSET Dir : Reinstall(dirs) \/ LeaveInstall(dirs)
           \/ \E r \in Root : LeaveDisk(r)
  <2>1. UNCHANGED done
    BY <1>1 DEF target, system, Walk, RunGparted, Reinstall, LeaveInstall, End, LeaveDisk
  <2> QED
    BY <2>1 DEF done, OneSystem
<1>2. CASE LeaveGrub
  BY <1>2 DEF LeaveGrub, Go, Placed, Inside, Later, OneSystem
<1>3. ASSUME NEW sys \in Systems, NEW dirs \in SUBSET Dir, Select(sys, dirs)
      PROVE  /\ \A s \in Site \ {home'} : has'[s] = {} /\ s \notin booted'
             /\ handle = "made" /\ home = None
  <2>1. home = None /\ handle = "made" /\ home' = Here /\ booted' = booted
        /\ has' = [has EXCEPT ![Here] = @ \cup sys]
    BY <1>3 DEF Select, Install, Placed
  <2>2. \A s \in Site : has[s] = {} /\ s \notin booted
    BY <2>1, TargetAssumption DEF OneSystem
  <2> QED
    BY <2>1, <2>2 DEF TypeOK, TargetTypeOK
<1> QED
  BY <1>1, <1>2, <1>3, Moves DEF Move

LEMMA OneSystemStep ==
  ASSUME TypeOK, Placed, OneSystem, Next
  PROVE  OneSystem'
<1> DEFINE None4(s) == account[s] = {} /\ sudoers[s] = {} /\ secret[s] = ""
                       /\ zone[s] = None /\ evdev[s] = None
<1> USE DEF TypeOK, AccountsTypeOK, SettingsTypeOK
<1>1. \A s \in Site \ {home'} : has'[s] = {} /\ s \notin booted'
  BY OneSystemTarget
<1>2. \A s \in Site \ {home'} : s # home => None4(s)
  BY DEF OneSystem
<1>3. \A s \in Site \ {home'} : None4(s)
  <2>1. home = None => \A s \in Site : s # home
    BY TargetAssumption
  <2> QED
    BY <1>2, <2>1, OneSystemTarget
<1>4. at \in Later => Here = home
  BY DEF Placed, Inside
<1>5. ASSUME at \in Later, UNCHANGED home
      PROVE  \A s \in Site \ {home'} : s # Here
  BY <1>4, <1>5
<1>6. CASE UNCHANGED <<account, sudoers, secret, zone, evdev>>
  BY <1>1, <1>3, <1>6 DEF OneSystem
<1>7. ASSUME NEW n \in Name, NEW sudo \in BOOLEAN, NEW ok \in BOOLEAN, NEW wrote \in BOOLEAN,
             AddUser(n, sudo, ok, wrote), UNCHANGED <<keyboard, time>>
      PROVE  OneSystem'
  <2>1. at \in Later /\ UNCHANGED <<home, secret, zone, evdev>>
    BY <1>7 DEF AddUser, Operate, Later, target, system, done, password, keyboard, time
  <2>2. \A s \in Site \ {home'} : account'[s] = account[s] /\ sudoers'[s] = sudoers[s]
    BY <1>5, <1>7, <2>1 DEF AddUser, Added
  <2> QED
    BY <1>1, <1>3, <2>1, <2>2 DEF OneSystem
<1>8. ASSUME NEW n \in Name, NEW ok \in BOOLEAN, NEW wrote \in BOOLEAN,
             RemoveUser(n, ok, wrote), UNCHANGED <<keyboard, time>>
      PROVE  OneSystem'
  <2>1. at \in Later /\ UNCHANGED <<home, secret, zone, evdev>>
    BY <1>8 DEF RemoveUser, Operate, Later, target, system, done, password, keyboard, time
  <2>2. \A s \in Site \ {home'} : account'[s] = account[s] /\ sudoers'[s] = sudoers[s]
    BY <1>5, <1>8, <2>1 DEF RemoveUser, Dropped
  <2> QED
    BY <1>1, <1>3, <2>1, <2>2 DEF OneSystem
<1>9. ASSUME NEW t \in Text, LeaveRoot(t), UNCHANGED <<keyboard, time>> PROVE OneSystem'
  <2>1. at \in Later /\ UNCHANGED <<home, account, sudoers, zone, evdev>>
    BY <1>9 DEF LeaveRoot, Go, Later, system, done, users, lines, keyboard, time
  <2>2. \A s \in Site \ {home'} : secret'[s] = secret[s]
    BY <1>5, <1>9, <2>1 DEF LeaveRoot
  <2> QED
    BY <1>1, <1>3, <2>1, <2>2 DEF OneSystem
<1>10. CASE LeaveTime
  <2>1. at \in Later /\ UNCHANGED <<home, account, sudoers, secret, evdev>>
    BY <1>10 DEF LeaveTime, Quit, Exit, Later, system, done, users, lines, password, keyboard
  <2>2. \A s \in Site \ {home'} : zone'[s] = zone[s]
    BY <1>5, <1>10, <2>1 DEF LeaveTime
  <2> QED
    BY <1>1, <1>3, <2>1, <2>2 DEF OneSystem
<1>11. CASE ConfigureX
  <2>1. at \in Later /\ UNCHANGED <<home, account, sudoers, secret, zone>>
    BY <1>11 DEF ConfigureX, Later, target, system, done, users, lines, password, time
  <2>2. \A s \in Site \ {home'} : evdev'[s] = evdev[s]
    BY <1>5, <1>11, <2>1 DEF ConfigureX
  <2> QED
    BY <1>1, <1>3, <2>1, <2>2 DEF OneSystem
<1>12. CASE Pages /\ UNCHANGED <<users, password, ops, keyboard, time>>
  BY <1>6, <1>12 DEF users, lines, password, keyboard, time
<1>13. CASE Forms /\ UNCHANGED <<keyboard, time>>
  <2>1. ASSUME NEW t \in Text, TypePassword(t) \/ TypeVerify(t) PROVE OneSystem'
    BY <1>6, <1>13, <2>1 DEF TypePassword, TypeVerify, users, lines, keyboard, time
  <2>2. CASE DrawUsers
    BY <1>6, <1>13, <2>2 DEF DrawUsers, users, lines, password, keyboard, time
  <2> QED
    BY <1>7, <1>8, <1>9, <1>13, <2>1, <2>2 DEF Forms
<1>14. CASE Choices
  <2>1. LeaveTime \/ ConfigureX \/ UNCHANGED <<account, sudoers, secret, zone, evdev>>
    BY <1>14 DEF Choices, SelectKeyboard, AddKeyboard, LeaveLayout, CopyKeymap, SelectPlace,
                 EnterConfiguration, users, lines, password, time, keyboard
  <2> QED
    BY <1>6, <1>10, <1>11, <2>1
<1> QED
  BY <1>12, <1>13, <1>14 DEF Next

\* pacman's handle stays released.
LEMMA Released ==
  ASSUME TypeOK, Next, handle = "released"
  PROVE  handle' = "released"
  BY Moves DEF Move, target, system, Walk, RunGparted, Reinstall, LeaveInstall, LeaveGrub,
               End, Select, Install, LeaveDisk

LEMMA EmptyStep ==
  ASSUME TypeOK, Placed, Empty, Next
  PROVE  Empty'
<1> SUFFICES ASSUME handle' # "released" PROVE rows' = {} /\ xlayout' = None
  BY DEF Empty
<1>1. handle # "released" /\ rows = {} /\ xlayout = None
  BY Released DEF Empty
<1>2. at \notin Later
  BY <1>1 DEF Placed, Inside
<1>3. at \notin {"users", "root", "netconf"}
  BY <1>2 DEF Later
<1>4. CASE Pages /\ UNCHANGED <<users, password, ops, keyboard, time>>
  BY <1>1, <1>4 DEF users, keyboard
<1>5. CASE Forms /\ UNCHANGED <<keyboard, time>>
  BY <1>1, <1>3, <1>5 DEF Forms, AddUser, RemoveUser, DrawUsers, TypePassword, TypeVerify,
                          LeaveRoot, Operate, Go, users, keyboard
<1>6. CASE Choices
  BY <1>1, <1>3, <1>6 DEF Choices, SelectKeyboard, AddKeyboard, LeaveLayout, CopyKeymap,
                          SelectPlace, LeaveTime, EnterConfiguration, Go, ConfigureX, users,
                          keyboard
<1> QED
  BY <1>4, <1>5, <1>6 DEF Next

\* Where the pages are inside, the root stays as it is.
LEMMA HereKept ==
  ASSUME TypeOK, Placed, Next, at' \in Inside
  PROVE  /\ Here' = Here /\ Len(stack') = Len(stack)
         /\ at \in Inside \/ (at = "select" /\ handle = "made")
<1>1. CASE UNCHANGED target \/ Walk \/ RunGparted \/ LeaveGrub
  BY <1>1 DEF target, system, Walk, RunGparted, LeaveGrub, Go, Top, Here, Inside, Later
<1>2. ASSUME NEW dirs \in SUBSET Dir, Reinstall(dirs) \/ LeaveInstall(dirs)
      PROVE  Here' = Here /\ Len(stack') = Len(stack) /\ at \in Inside
  <2>1. stack' = With(dirs) /\ at \in {"grub", "install"}
    BY <1>2 DEF Reinstall, LeaveInstall, Go
  <2> QED
    BY <2>1, TopKept, Binds, Same DEF Top, Here, Inside, Later
<1>4. CASE End \/ \E r \in Root : LeaveDisk(r)
  BY <1>4 DEF End, LeaveDisk, Go, Inside, Later
<1>5. ASSUME NEW sys \in Systems, NEW dirs \in SUBSET Dir, Select(sys, dirs)
      PROVE  Here' = Here /\ Len(stack') = Len(stack) /\ at = "select" /\ handle = "made"
  BY <1>5, TopKept, Binds, Same DEF Select, Install, Go, Top, Here
<1> QED
  BY <1>1, <1>2, <1>4, <1>5, Moves DEF Move

-----------------------------------------------------------------------------
(* The users.                                                              *)

LEMMA UsersAdd ==
  ASSUME TypeOK, Placed, UsersInside, Next,
         NEW n \in Name, NEW sudo \in BOOLEAN, NEW ok \in BOOLEAN, NEW wrote \in BOOLEAN,
         AddUser(n, sudo, ok, wrote)
  PROVE  UsersInside'
<1> USE DEF TypeOK, AccountsTypeOK
<1>1. Here \in Site /\ at = "users" /\ at \in Inside /\ Here' = Here /\ kept' = kept
  BY Same DEF AddUser, Operate, Inside, Later, target, system, Here, Top
<1>2. CASE ~ok
  <2>1. UNCHANGED <<account, sudoers, asked, unwritten, rows>>
    BY <1>2 DEF AddUser
  <2> QED
    BY <1>1, <2>1 DEF UsersInside
<1>3. CASE ok
  <2>1. /\ n \notin account[Here] /\ (n \in sudoers[Here] => n \in kept)
        /\ rows' = rows \cup {n}
    BY <1>1, <1>3 DEF AddUser, UsersInside
  <2>2. /\ \A s \in Site : s # Here => account'[s] = account[s] /\ sudoers'[s] = sudoers[s]
                                      /\ asked'[s] = asked[s]
        /\ account'[Here] = account[Here] \cup {n}
    BY <1>1, <1>3 DEF AddUser, Added, Dropped
  <2>3. \/ /\ sudoers'[Here] = sudoers[Here] \cup {n} /\ asked'[Here] = asked[Here] \cup {n}
           /\ unwritten' = unwritten \ {n}
        \/ /\ sudoers'[Here] = sudoers[Here] /\ asked'[Here] = asked[Here] \cup {n}
           /\ unwritten' = unwritten \cup {n}
        \/ /\ sudoers'[Here] = sudoers[Here] /\ asked'[Here] = asked[Here] \ {n}
           /\ unwritten' = unwritten \ {n}
    BY <1>1, <1>3 DEF AddUser, Added, Dropped
  <2>4. \A s \in Site : /\ sudoers'[s] \subseteq account'[s] \cup kept'
                       /\ sudoers'[s] \subseteq asked'[s] \cup kept'
    BY <1>1, <2>1, <2>2, <2>3 DEF UsersInside
  <2>5. rows' \subseteq account'[Here]
    BY <1>1, <2>1, <2>2 DEF UsersInside
  <2>6. \A m \in (rows' \cap asked'[Here]) \ unwritten' :
          (\A o \in Name : <<m, o>> \notin EndsWith) => m \in sudoers'[Here]
    BY <1>1, <2>1, <2>3 DEF UsersInside
  <2> QED
    BY <1>1, <2>4, <2>5, <2>6 DEF UsersInside
<1> QED
  BY <1>2, <1>3

LEMMA UsersRemove ==
  ASSUME TypeOK, Placed, OneSystem, UsersInside, Next,
         NEW n \in Name, NEW ok \in BOOLEAN, NEW wrote \in BOOLEAN, RemoveUser(n, ok, wrote)
  PROVE  UsersInside'
<1> USE DEF TypeOK, AccountsTypeOK
<1> DEFINE Gone == {n} \cup {m \in Name : <<m, n>> \in EndsWith}
<1>1. Here \in Site /\ at = "users" /\ at \in Inside /\ Here' = Here
  BY Same DEF RemoveUser, Operate, Inside, Later, target, system, Here, Top
<1>2. /\ rows' = rows \ {n} /\ UNCHANGED <<asked, unwritten>>
      /\ \A s \in Site : s # Here => account'[s] = account[s] /\ sudoers'[s] = sudoers[s]
      /\ account'[Here] \in {account[Here], account[Here] \ {n}}
      /\ \/ sudoers'[Here] = sudoers[Here] \ Gone /\ kept' = kept \ {n}
         \/ sudoers'[Here] = sudoers[Here] /\ kept' = kept \cup {n}
  BY <1>1 DEF RemoveUser, Dropped
<1>3. ASSUME NEW s \in Site
      PROVE  /\ sudoers'[s] \subseteq account'[s] \cup kept'
             /\ sudoers'[s] \subseteq asked'[s] \cup kept'
  <2>1. CASE s = Here
    BY <1>2, <2>1 DEF UsersInside
  <2>2. CASE s # Here
    <3>1. sudoers[s] = {}
      BY <1>1, <2>2 DEF Placed, OneSystem
    <3> QED
      BY <1>2, <2>2, <3>1
  <2> QED
    BY <2>1, <2>2
<1>4. rows' \subseteq account'[Here]
  BY <1>1, <1>2 DEF UsersInside
<1>5. ASSUME NEW m \in (rows' \cap asked'[Here]) \ unwritten',
             \A o \in Name : <<m, o>> \notin EndsWith
      PROVE  m \in sudoers'[Here]
  <2>1. m \in sudoers[Here]
    BY <1>1, <1>2, <1>5 DEF UsersInside
  <2>2. m \notin Gone
    BY <1>2, <1>5
  <2> QED
    BY <1>2, <2>1, <2>2
<1> QED
  BY <1>1, <1>3, <1>4, <1>5 DEF UsersInside

LEMMA UsersStep ==
  ASSUME TypeOK, Placed, OneSystem, Empty, UsersInside, Next
  PROVE  UsersInside'
<1>1. CASE UNCHANGED users
  <2>1. UNCHANGED <<account, sudoers, asked, unwritten, kept, rows>>
    BY <1>1 DEF users, lines
  <2>2. ASSUME at' \in Inside
        PROVE  Here' = Here /\ (at \in Inside \/ rows = {})
    BY <2>2, HereKept DEF Empty
  <2> QED
    BY <2>1, <2>2 DEF UsersInside
<1>2. CASE Forms
  <2>1. ASSUME NEW t \in Text, TypePassword(t) \/ TypeVerify(t) PROVE UsersInside'
    BY <1>1, <2>1 DEF TypePassword, TypeVerify
  <2>2. ASSUME NEW t \in Text, LeaveRoot(t) \/ DrawUsers PROVE UsersInside'
    BY <1>1, <2>2 DEF LeaveRoot, DrawUsers
  <2>3. CASE DrawUsers
    BY <1>1, <2>3 DEF DrawUsers
  <2> QED
    BY <1>2, <2>1, <2>2, <2>3, UsersAdd, UsersRemove DEF Forms
<1>3. CASE Choices
  BY <1>1, <1>3 DEF Choices, SelectKeyboard, AddKeyboard, LeaveLayout, CopyKeymap,
                    SelectPlace, LeaveTime, EnterConfiguration, ConfigureX
<1> QED
  BY <1>1, <1>2, <1>3 DEF Next

-----------------------------------------------------------------------------
(* Keyboards.                                                              *)

\* The root is not changed, and neither are the mounts below it.
RootKept ==
  /\ at \notin Over
  /\ Here' = Here /\ Len(stack') = Len(stack) /\ stack'[1].fs = stack[1].fs
  /\ at' \in Inside \cup {"select"} => at \in Inside \cup {"select"}
  /\ at' \in Inside => at \in Inside \/ (at = "select" /\ handle = "made")

LEMMA RootMoves ==
  ASSUME TypeOK, Placed, Next, at' \notin Over
  PROVE  RootKept \/ \E r \in Root : LeaveDisk(r) /\ CopyKeymap
<1> USE DEF RootKept
<1>1. CASE Walk
  BY <1>1 DEF Walk, system, Here, Top, Inside
<1>2. CASE UNCHANGED target \/ RunGparted \/ LeaveGrub
  BY <1>2 DEF target, system, RunGparted, LeaveGrub, Go, Top, Here, Inside, Later
<1>4. ASSUME NEW dirs \in SUBSET Dir, Reinstall(dirs) PROVE RootKept
  BY <1>4, KeptByWith DEF Reinstall, Go, Inside, Later
<1>5. ASSUME NEW dirs \in SUBSET Dir, LeaveInstall(dirs) PROVE RootKept
  BY <1>5, KeptByWith DEF LeaveInstall, Go, Inside, Later
<1>6. ASSUME NEW sys \in Systems, NEW dirs \in SUBSET Dir, Select(sys, dirs) PROVE RootKept
  BY <1>6, KeptByWith DEF Select, Install, Go, Inside, Later
<1>7. ~End
  BY DEF End
<1> HIDE DEF RootKept
<1> QED
  BY <1>1, <1>2, <1>4, <1>5, <1>6, <1>7, Moves DEF Move

\* Actions that choose no keyboard.
LEMMA KeysKept ==
  ASSUME TypeOK, Placed, OneSystem, Empty, Keys, RootKept,
         UNCHANGED <<temp, xconfig, keymap, missed, xlayout, evdev>>
  PROVE  Keys'
<1>1. /\ at \notin Over
      /\ Here' = Here /\ Len(stack') = Len(stack) /\ stack'[1].fs = stack[1].fs
      /\ at' \in Inside \cup {"select"} => at \in Inside \cup {"select"}
      /\ at' \in Inside => at \in Inside \/ (at = "select" /\ handle = "made")
  BY DEF RootKept
<1>2. at' \in Inside => xlayout \in {None, xconfig} /\ evdev[Here] \in {None, xconfig}
  <2>1. CASE at \in Inside
    BY <1>1, <2>1 DEF Keys
  <2>2. CASE at = "select" /\ handle = "made"
    <3>1. xlayout = None /\ home = None
      BY <2>2 DEF Empty, Placed
    <3>2. Here \in Site \ {home}
      BY <3>1, Same, TargetAssumption
    <3> QED
      BY <3>1, <3>2 DEF OneSystem
  <2> QED
    BY <1>1, <2>1, <2>2
<1> QED
  BY <1>1, <1>2 DEF Keys

LEMMA KeysChosen ==
  ASSUME TypeOK, Placed, Keys, RootKept, LeaveLayout \/ EnterConfiguration \/ ConfigureX
  PROVE  Keys'
<1> USE DEF TypeOK, SettingsTypeOK
<1>1. /\ at \notin Over
      /\ Here' = Here /\ Len(stack') = Len(stack) /\ stack'[1].fs = stack[1].fs
  BY DEF RootKept
<1>2. CASE LeaveLayout
  <2>1. at' = "disk" /\ temp' = board /\ xconfig' = board /\ keymap' = keymap
    BY <1>2 DEF LeaveLayout, Go
  <2>2. temp' # None /\ at' \notin Inside \cup {"select"}
    BY <2>1, SettingsAssumption DEF Inside, Later
  <2> QED
    BY <1>1, <2>1, <2>2 DEF Keys
<1>3. CASE EnterConfiguration
  <2>1. at \in Inside
    BY <1>3 DEF EnterConfiguration, Go, Inside, Later
  <2>2. UNCHANGED <<temp, xconfig, keymap, missed, evdev>> /\ xlayout' \in {xconfig, xlayout}
    BY <1>3 DEF EnterConfiguration
  <2> QED
    BY <1>1, <2>1, <2>2 DEF Keys
<1>4. CASE ConfigureX
  <2>1. at \in Inside /\ Here \in Site
    BY <1>4, Same DEF ConfigureX, Inside, Later
  <2>2. UNCHANGED <<temp, xconfig, keymap, missed, xlayout>> /\ evdev'[Here] = xlayout
    BY <1>4, <2>1 DEF ConfigureX
  <2> QED
    BY <1>1, <2>1, <2>2 DEF Keys
<1> QED
  BY <1>2, <1>3, <1>4

LEMMA KeysCopied ==
  ASSUME TypeOK, Keys, NEW r \in Root, LeaveDisk(r), CopyKeymap
  PROVE  Keys'
<1> USE DEF TypeOK, SettingsTypeOK
<1>1. at \notin Over /\ at' = "select" /\ at' \notin Inside
  BY DEF LeaveDisk, Go, Inside, Later
<1>2. temp' = None /\ UNCHANGED <<xconfig, xlayout, evdev>>
  BY DEF CopyKeymap
<1>3. \/ stack' = stack
      \/ /\ Len(stack') = Len(stack) + 1 /\ stack'[1] = stack[1]
         /\ stack'[Len(stack')].fs = r
  <2>1. Fresh(r) \in Mount
    BY DEF Fresh, Mount, Site
  <2> QED
    BY <2>1, Same, AppendProperties DEF LeaveDisk, Fresh
<1>4. stack'[Len(stack')].fs \in Site
  BY <1>3, Same DEF Site, Here, Top
<1>5. /\ temp = None => keymap' = keymap /\ missed' = missed
      /\ temp # None =>
           /\ \/ keymap'[stack'[Len(stack')].fs] = xconfig
              \/ stack'[Len(stack')].fs \in missed'
           /\ \A s \in Site : s # stack'[Len(stack')].fs => keymap'[s] = keymap[s]
  BY <1>1, <1>4 DEF CopyKeymap, Keys
<1>6. stack'[1].fs = Live
  BY <1>1, <1>3 DEF Keys
<1>7. ASSUME Len(stack') = 1 PROVE \A s \in Root : keymap'[s] = None
  <2>1. stack' = stack /\ stack'[Len(stack')].fs = Live
    BY <1>3, <1>6, <1>7, Same
  <2> QED
    BY <1>1, <1>5, <1>7, <2>1, TargetAssumption DEF Keys, Site
<1>8. ASSUME Len(stack') <= 2
      PROVE  \/ keymap'[stack'[Len(stack')].fs] \in {None, xconfig}
             \/ stack'[Len(stack')].fs \in missed'
  <2>1. CASE temp # None
    BY <1>5, <2>1
  <2>2. CASE temp = None /\ stack' = stack
    BY <1>1, <1>5, <1>8, <2>2 DEF Keys, Here, Top
  <2>3. CASE temp = None /\ stack' # stack
    <3>1. Len(stack') = Len(stack) + 1 /\ stack'[Len(stack')].fs = r
      BY <1>3, <2>3
    <3>2. Len(stack) = 1
      <4>1. PICK n \in Nat : n = Len(stack) /\ n > 0
        BY Same
      <4>2. n + 1 <= 2
        BY <1>8, <3>1, <4>1
      <4>3. n = 1
        BY <4>1, <4>2
      <4> QED
        BY <4>1, <4>3
    <3> QED
      BY <1>1, <1>5, <2>3, <3>1, <3>2 DEF Keys
  <2> QED
    BY <2>1, <2>2, <2>3
<1> QED
  BY <1>1, <1>2, <1>6, <1>7, <1>8 DEF Keys, Here, Top

LEMMA KeysStep ==
  ASSUME TypeOK, Placed, OneSystem, Empty, Keys, Next
  PROVE  Keys'
<1>1. CASE at' \in Over
  BY <1>1 DEF Keys
<1>2. CASE RootKept
  <2>1. CASE UNCHANGED <<temp, xconfig, keymap, missed, xlayout, evdev>>
    BY <1>2, <2>1, KeysKept
  <2>2. CASE UNCHANGED keyboard
    BY <2>1, <2>2 DEF keyboard
  <2>3. CASE Choices
    <3>1. ASSUME NEW k \in Keyboard, SelectKeyboard(k) \/ (k \in Custom /\ AddKeyboard(k))
          PROVE  Keys'
      BY <2>1, <3>1 DEF SelectKeyboard, AddKeyboard
    <3>2. ASSUME NEW q \in Place, SelectPlace(q) PROVE Keys'
      BY <2>2, <3>2 DEF SelectPlace
    <3>3. CASE LeaveTime
      BY <2>2, <3>3 DEF LeaveTime
    <3>4. CASE LeaveLayout \/ EnterConfiguration \/ ConfigureX
      BY <1>2, <3>4, KeysChosen
    <3> QED
      BY <2>3, <3>1, <3>2, <3>3, <3>4, KeysCopied DEF Choices, Keyboard
  <2> QED
    BY <2>2, <2>3 DEF Next
<1>3. ASSUME NEW r \in Root, LeaveDisk(r), CopyKeymap PROVE Keys'
  BY <1>3, KeysCopied
<1> QED
  BY <1>1, <1>2, <1>3, RootMoves

-----------------------------------------------------------------------------
(* Forms.                                                                  *)

LEMMA FilledStep ==
  ASSUME TypeOK, Filled, ZoneIsCity, Next
  PROVE  Filled' /\ ZoneIsCity'
<1> USE DEF Filled, ZoneIsCity
<1>1. Here \in Site
  BY Same
<1>2. CASE UNCHANGED <<rootpass, rootverify, verified, place, placed, zone>>
  BY <1>2
<1>3. ASSUME NEW t \in Text, TypePassword(t), UNCHANGED time PROVE Filled' /\ ZoneIsCity'
  <2>1. rootpass' = t /\ rootverify' = rootverify /\ (verified' => t = rootverify)
    BY <1>3, Zenon DEF TypePassword
  <2> QED
    BY <1>3, <2>1 DEF time
<1>4. ASSUME NEW t \in Text, TypeVerify(t), UNCHANGED time PROVE Filled' /\ ZoneIsCity'
  <2>1. rootverify' = t /\ rootpass' = rootpass /\ (verified' => t = rootpass)
    BY <1>4, Zenon DEF TypeVerify
  <2> QED
    BY <1>4, <2>1 DEF time
<1>5. ASSUME NEW q \in Place, SelectPlace(q) PROVE Filled' /\ ZoneIsCity'
  <2>1. place' = q /\ (placed' <=> q \in City) /\ zone' = zone /\ UNCHANGED password
    BY <1>5, Zenon DEF SelectPlace
  <2> QED
    BY <2>1 DEF password
<1>6. CASE LeaveTime
  <2>1. place \in City /\ UNCHANGED <<place, placed, password>>
    BY <1>6 DEF LeaveTime
  <2>2. \A s \in Site : zone'[s] \in {zone[s], place}
    <3>1. place # None
      BY <2>1, SettingsAssumption
    <3> QED
      BY <1>1, <1>6, <3>1 DEF LeaveTime, TypeOK, SettingsTypeOK
  <2> QED
    BY <2>1, <2>2 DEF password
<1>7. ASSUME NEW t \in Text, LeaveRoot(t), UNCHANGED time PROVE Filled' /\ ZoneIsCity'
  BY <1>2, <1>7 DEF LeaveRoot, time
<1>8. CASE UNCHANGED password /\ UNCHANGED time
  BY <1>2, <1>8 DEF password, time
<1>9. CASE Forms /\ UNCHANGED <<keyboard, time>>
  BY <1>3, <1>4, <1>7, <1>8, <1>9 DEF Forms, AddUser, RemoveUser, DrawUsers
<1>10. CASE Choices
  BY <1>5, <1>6, <1>8, <1>10 DEF Choices, SelectKeyboard, AddKeyboard, LeaveLayout,
                                 CopyKeymap, EnterConfiguration, ConfigureX
<1> QED
  BY <1>8, <1>9, <1>10 DEF Next

-----------------------------------------------------------------------------
(* The theorems.                                                           *)

LEMMA InvInit == Init => IInv
<1> SUFFICES ASSUME Init PROVE IInv
  OBVIOUS
<1>0. 0 <= 1 /\ \A k \in 1 .. 1 : k # 0 /\ k = 1
  OBVIOUS
<1> USE DEF Init, TargetInit, AccountsInit, SettingsInit
<1>1. Len(stack) = 1 /\ stack[1] = Fresh(Live)
  OBVIOUS
<1>2. at \notin Inside /\ at \notin Later
  BY DEF Inside, Later
<1>3. Placed /\ SystemInRoot /\ OneSystem /\ Empty
  BY <1>2 DEF Placed, SystemInRoot, OneSystem, Empty
<1>4. Bound
  <2>1. \A k \in 1 .. Len(stack) : k # 0 /\ Unbound(stack[k])
    <3>1. Unbound(stack[1])
      BY <1>1 DEF Unbound, Fresh
    <3> QED
      BY <1>0, <1>1, <3>1
  <2>2. height = 0 /\ entered = 0
    OBVIOUS
  <2>3. height <= Len(stack)
    BY <1>0, <1>1, <2>2
  <2> QED
    BY <2>1, <2>2, <2>3 DEF Bound
<1>5. UsersInside
  BY <1>2 DEF UsersInside
<1>6. Keys
  <2>1. Here = Live /\ Here \in Site
    BY <1>1 DEF Here, Top, Fresh, Site
  <2> QED
    BY <1>1, <1>2, <2>1 DEF Keys, Fresh, Site
<1>7. Filled /\ ZoneIsCity
  BY SettingsAssumption DEF Filled, ZoneIsCity
<1> QED
  BY TypesInit, <1>3, <1>4, <1>5, <1>6, <1>7 DEF IInv

LEMMA InvStep == IInv /\ [Next]_vars => IInv'
<1> SUFFICES ASSUME IInv, [Next]_vars PROVE IInv'
  OBVIOUS
<1>1. CASE Next
  BY <1>1, TypesStep, PlacedStep, BoundStep, OneSystemStep, EmptyStep, UsersStep, KeysStep,
     FilledStep DEF IInv
<1>2. CASE UNCHANGED vars
  <2>1. TypeOK'
    BY <1>2, TypesStutter DEF IInv
  <2>2. Placed' /\ Bound' /\ SystemInRoot'
    BY <1>2 DEF IInv, vars, target, system, done, result, Placed, Bound, SystemInRoot, Top, Here
  <2>3. OneSystem' /\ Empty' /\ UsersInside'
    BY <1>2 DEF IInv, vars, target, system, done, users, lines, password, keyboard, time, OneSystem,
                Empty, UsersInside, Top, Here
  <2>4. Keys' /\ Filled' /\ ZoneIsCity'
    BY <1>2 DEF IInv, vars, target, system, users, password, keyboard, time, Keys, Filled,
                ZoneIsCity, Top, Here
  <2> QED
    BY <2>1, <2>2, <2>3, <2>4 DEF IInv
<1> QED
  BY <1>1, <1>2

LEMMA Invariant == Spec => []IInv
  BY InvInit, InvStep, PTL DEF Spec

\* Whatever number of roots, entries of install and accounts: the pages that
\* work in a chroot have what they need mounted in the root on top, but what was
\* refused.
THEOREM SystemMounted == Spec => []SystemInRoot
<1>1. IInv => SystemInRoot
  BY DEF IInv
<1> QED
  BY <1>1, Invariant, PTL

\* Whatever is installed and configured is on the root of the packages.
THEOREM OneRoot == Spec => []OneSystem
<1>1. IInv => OneSystem
  BY DEF IInv
<1> QED
  BY <1>1, Invariant, PTL

\* The list, the accounts and the privileges agree, for every set of names and
\* whichever of them end with others, but for lines of sudoers that could not be
\* written or deleted.
THEOREM UsersListed == Spec => []UsersAsListed
<1>1. IInv => UsersAsListed
  BY DEF IInv, UsersInside, UsersAsListed, Inside
<1> QED
  BY <1>1, Invariant, PTL

\* X and the console have one keyboard, for every list of keyboards, if one root
\* was mounted and the file was copied.
THEOREM OneKeyboard == Spec => []KeyboardsAgree
<1>1. IInv => KeyboardsAgree
  <2> SUFFICES ASSUME IInv, at \in Later, Len(stack) <= 2, Here \notin missed
               PROVE  evdev[Here] = None \/ keymap[Here] \in {None, evdev[Here]}
    BY DEF KeyboardsAgree
  <2>1. at \notin Over /\ at \in Inside
    BY DEF Later, Inside
  <2> QED
    BY <2>1 DEF IInv, Keys
<1> QED
  BY <1>1, Invariant, PTL

\* No zone is made from a row that is no city.
THEOREM ZonesAreCities == Spec => []ZoneIsCity
<1>1. IInv => ZoneIsCity
  BY DEF IInv
<1> QED
  BY <1>1, Invariant, PTL

\* Nothing is bound there any more, unless umount was refused for the directory.
Freed(m, dirs) ==
  /\ "dev" \in dirs \/ m.dev = 0
  /\ "proc" \in dirs \/ m.proc = 0
  /\ "sys" \in dirs \/ m.sys = 0

\* What fwife_exit leaves, if each directory was bound once at most.
LEMMA Unbinding ==
  ASSUME NEW stk \in Seq(Mount), Len(stk) > 0,
         \A k \in 1 .. Len(stk) : k # Len(stk) => Unbound(stk[k]),
         stk[Len(stk)].dev <= 1, stk[Len(stk)].proc <= 1, stk[Len(stk)].sys <= 1,
         NEW dirs, NEW left \in Unmounted(stk, dirs)
  PROVE  \A k \in 1 .. Len(left) : Freed(left[k], dirs)
<1>1. Len(stk) \in Nat /\ Len(stk) \in 1 .. Len(stk) /\ stk[Len(stk)] \in Mount
  BY LenProperties, ElementOfSeq
<1>2. Rest(stk[Len(stk)], dirs) \in Mount /\ Freed(Rest(stk[Len(stk)], dirs), dirs)
  <2>1. \A n \in Nat : n <= 1 => Less(n) = 0
    BY DEF Less
  <2>2. /\ stk[Len(stk)].dev \in Nat /\ stk[Len(stk)].proc \in Nat
        /\ stk[Len(stk)].sys \in Nat
    BY <1>1, Counts
  <2>3. /\ Less(stk[Len(stk)].dev) = 0 /\ Less(stk[Len(stk)].proc) = 0
        /\ Less(stk[Len(stk)].sys) = 0
    BY <2>1, <2>2
  <2>4. Rest(stk[Len(stk)], dirs) \in Mount
    BY <1>1, Counts
  <2> QED
    BY <2>3, <2>4 DEF Freed, Rest
<1>3. \A m : Unbound(m) => Freed(m, dirs)
  BY DEF Unbound, Freed
<1>4. CASE left = Emptied(stk, dirs)
  <2>1. DOMAIN stk = 1 .. Len(stk)
    BY LenProperties
  <2>2. /\ Len(left) = Len(stk) /\ left[Len(stk)] = Rest(stk[Len(stk)], dirs)
        /\ \A k \in 1 .. Len(stk) : k # Len(stk) => left[k] = stk[k]
    BY <1>1, <1>2, <1>4, <2>1, ExceptSeq DEF Emptied
  <2> QED
    BY <1>2, <1>3, <2>2
<1>5. CASE Len(stk) > 1 /\ left = SubSeq(stk, 1, Len(stk) - 1)
  <2>1. /\ Len(left) = Len(stk) - 1
        /\ \A k \in 1 .. Len(stk) - 1 : left[k] = stk[k]
    BY <1>1, <1>5
  <2>2. \A k \in 1 .. Len(stk) - 1 : k \in 1 .. Len(stk) /\ k # Len(stk)
    BY <1>1
  <2> QED
    BY <1>3, <2>1, <2>2
<1> QED
  BY <1>4, <1>5, Left

\* What ends the program.
LEMMA Ends ==
  ASSUME TypeOK, Next, at' = "ended", target' # target
  PROVE  Quit \/ InstallFails
<1>1. CASE Pages
  BY <1>1 DEF Pages, RunGparted, Reinstall, LeaveInstall, LeaveGrub, LeaveUsers, Back, Select,
              Install, Go, target, system, done, result
<1>2. CASE Forms
  BY <1>2 DEF Forms, AddUser, RemoveUser, DrawUsers, TypePassword, TypeVerify, LeaveRoot, Go
<1>3. CASE Choices
  BY <1>3 DEF Choices, SelectKeyboard, AddKeyboard, LeaveLayout, LeaveDisk, SelectPlace,
              LeaveTime, EnterConfiguration, ConfigureX, Go
<1> QED
  BY <1>1, <1>2, <1>3 DEF Next

\* What Exit does to mounts that are bound once at most.
LEMMA Exits ==
  ASSUME NEW stk \in Seq(Mount), Len(stk) > 0,
         \A k \in 1 .. Len(stk) : k # Len(stk) => Unbound(stk[k]),
         stk[Len(stk)].dev <= 1, stk[Len(stk)].proc <= 1, stk[Len(stk)].sys <= 1,
         Exit(stk)
  PROVE  \A k \in 1 .. Len(stack') : Freed(stack'[k], busy')
<1>1. PICK dirs \in SUBSET {d \in Dir : stk[Len(stk)][d] > 0} :
        busy' = dirs /\ stack' \in Unmounted(stk, dirs)
  BY DEF Exit
<1> QED
  BY <1>1, Unbinding

\* The mounts as install would bind /dev on them, or as they are.
LEMMA EndUnbound ==
  ASSUME IInv, Next, at' = "ended", target' # target, entered' <= 1,
         height # 0 => height = Len(stack)
  PROVE  \A k \in 1 .. Len(stack') : Freed(stack'[k], busy')
<1>1. /\ stack \in Seq(Mount) /\ Len(stack) \in Nat /\ Len(stack) > 0
      /\ Len(stack) \in 1 .. Len(stack) /\ Top \in Mount
      /\ entered \in Nat /\ height \in Nat
  BY Same DEF IInv, TypeOK, TargetTypeOK
<1>2. CASE Quit
  <2>1. at \notin Over /\ entered <= 1 /\ Exit(stack)
    BY <1>2 DEF Quit
  <2>2. \A k \in 1 .. Len(stack) : k # height => Unbound(stack[k])
    BY <2>1 DEF IInv, Bound
  <2>3. \A k \in 1 .. Len(stack) : k # Len(stack) => k # height
    <3>1. \A k \in 1 .. Len(stack) : k # 0
      BY <1>1
    <3> QED
      BY <3>1
  <2>4. stack[Len(stack)].dev <= 1 /\ stack[Len(stack)].proc <= 1 /\ stack[Len(stack)].sys <= 1
    <3>1. 0 <= 1
      OBVIOUS
    <3>2. CASE height = Len(stack)
      BY <1>1, <2>1, <3>1, <3>2 DEF IInv, Bound
    <3>3. CASE height # Len(stack)
      BY <1>1, <2>2, <3>1, <3>3 DEF Unbound
    <3> QED
      BY <3>2, <3>3
  <2> QED
    BY <1>1, <2>1, <2>2, <2>3, <2>4, Exits
<1>3. CASE InstallFails
  <2>1. entered' = entered + 1
    BY <1>3 DEF InstallFails
  <2>2. entered = 0
    BY <1>1, <2>1
  <2>3. at # "grub"
    BY <1>1, <2>2 DEF IInv, Placed, Inside, Later
  <2>4. at = "select" /\ handle = "made"
    BY <1>3, <2>3 DEF InstallFails
  <2>5. PICK dirs \in SUBSET {"dev"} : Exit(With(dirs))
    BY <1>3, <2>3 DEF InstallFails
  <2>6. \A k \in 1 .. Len(stack) : Unbound(stack[k])
    <3>1. height = 0 /\ \A k \in 1 .. Len(stack) : k # 0
      BY <1>1, <2>4 DEF IInv, Placed
    <3> QED
      BY <2>4, <3>1 DEF IInv, Bound
  <2>7. /\ With(dirs) \in Seq(Mount) /\ Len(With(dirs)) = Len(stack)
        /\ With(dirs)[Len(stack)] = More(Top, dirs)
        /\ \A k \in 1 .. Len(stack) : k # Len(stack) => Unbound(With(dirs)[k])
    BY <1>1, <2>6, Binds
  <2>8. /\ With(dirs)[Len(With(dirs))].dev <= 1 /\ With(dirs)[Len(With(dirs))].proc <= 1
        /\ With(dirs)[Len(With(dirs))].sys <= 1
    <3>1. Top.dev = 0 /\ Top.proc = 0 /\ Top.sys = 0
      BY <1>1, <2>6 DEF Top, Unbound
    <3>2. \A b : One(b) \in {0, 1}
      BY DEF One
    <3>3. /\ More(Top, dirs).dev = One("dev" \in dirs)
          /\ More(Top, dirs).proc = One("proc" \in dirs)
          /\ More(Top, dirs).sys = One("sys" \in dirs)
      BY <3>1, <3>2 DEF More
    <3> QED
      BY <2>7, <3>2, <3>3
  <2> QED
    BY <1>1, <2>5, <2>7, <2>8, Exits
<1> QED
  BY <1>2, <1>3, Ends DEF IInv

\* fwife_exit leaves nothing bound but what was in use, however deep the roots are
\* stacked below the one that was installed on.
THEOREM NothingBound == Spec => NothingLeftBound
<1>1. IInv /\ [Next]_vars
      => [at' = "ended" /\ entered' <= 1 /\ (height # 0 => height = Len(stack))
          => \A k \in 1 .. Len(stack') :
               /\ "dev" \in busy' \/ stack'[k].dev = 0
               /\ "proc" \in busy' \/ stack'[k].proc = 0
               /\ "sys" \in busy' \/ stack'[k].sys = 0]_target
  BY EndUnbound DEF vars, Freed
<1> QED
  BY <1>1, Invariant, PTL DEF Spec, NothingLeftBound

\* Root's password is set to what both entries hold, or to what the shell makes of
\* a text with marks.
THEOREM PasswordsTyped == Spec => PasswordTypedTwice
<1>1. ASSUME IInv, Next, NEW s \in Site, secret'[s] # secret[s]
      PROVE  rootpass = rootverify /\ (rootpass \in Marked \/ secret'[s] = rootpass)
  <2>1. UNCHANGED secret \/ \E t \in Text : LeaveRoot(t)
    BY <1>1 DEF Next, Forms, AddUser, RemoveUser, DrawUsers, TypePassword, TypeVerify, Choices,
                SelectKeyboard, AddKeyboard, LeaveLayout, CopyKeymap, SelectPlace, LeaveTime,
                EnterConfiguration, ConfigureX, password
  <2>2. ASSUME NEW t \in Text, LeaveRoot(t)
        PROVE  rootpass = rootverify /\ (rootpass \in Marked \/ secret'[s] = rootpass)
    <3>1. Here \in Site /\ secret \in [Site -> Text] /\ rootpass = rootverify
      BY <1>1, <2>2, Same DEF IInv, Filled, LeaveRoot, TypeOK, AccountsTypeOK
    <3> QED
      BY <1>1, <2>2, <3>1 DEF LeaveRoot
  <2> QED
    BY <1>1, <2>1, <2>2
<1>2. IInv /\ [Next]_vars
      => [\A s \in Site : secret'[s] # secret[s] =>
            /\ rootpass = rootverify
            /\ rootpass \in Marked \/ secret'[s] = rootpass]_secret
  BY <1>1 DEF vars, password
<1> QED
  BY <1>2, Invariant, PTL DEF Spec, PasswordTypedTwice
=============================================================================
