------------------------------ MODULE PartDisk ------------------------------
(***************************************************************************)
(* The formatdisk page (src/src/plugins/partdisk.c): the user gives mount  *)
(* points to partitions, formats them, runs gparted; leaving the page      *)
(* mounts them under TARGETDIR, writes fstab and copies the files made by  *)
(* earlier pages to the new root.  The page can be left and come back to.  *)
(***************************************************************************)
EXTENDS Integers, Sequences, FiniteSets

CONSTANTS
  Part,      \* partitions
  Device,    \* devices, in the order libparted enumerates them
  PartsOn,   \* the partitions of each device, in listed order
  Dir,       \* mount points the user may type, "/" and "" excepted
  Length,    \* strlen of each of them
  Above,     \* <<d, e>> when directory d is an ancestor of e, both in Dir
  Prefix,    \* <<p, q>> when the name of p is a prefix of the name of q
  Type0,     \* what the disks may hold when the page is first shown
  NoMount,   \* a mount field that is NULL
  None,      \* no root partition has been selected
  Lost,      \* the selected one is in none of the lists any more
  MaxOps,    \* bound: user operations on the page
  MaxRuns    \* bound: times the page is left

Temp   == {"lang.sh", "keymap"}  \* written by asklang and layout under /tmp
Text   == Dir \cup {""}
Mount  == Text \cup {NoMount, "/", "swap"}
Type   == {"linux-swap", "other"}
Placed == Dir \cup {"/"}
First  == Device[1]

PartDiskAssumption ==
  /\ Len(Device) > 0
  /\ Device \in Seq({Device[i] : i \in 1 .. Len(Device)})
  /\ PartsOn \in [{Device[i] : i \in 1 .. Len(Device)} -> Seq(Part)]
  /\ Length \in [Dir -> Nat]
  /\ Above \subseteq Dir \X Dir
  /\ Prefix \subseteq Part \X Part
  /\ Type0 \subseteq [Part -> Type]
  /\ {"/", "swap", ""} \cap Dir = {}
  /\ NoMount \notin Text \cup {"/", "swap"}
  /\ None \notin Part \cup {Lost}
  /\ Lost \notin Part
  /\ MaxOps \in Nat /\ MaxRuns \in Nat

\* A directory has a longer name than those above it.
LengthAssumption ==
  /\ \A d \in Dir : Length[d] > 1
  /\ \A q \in Above : Length[q[1]] < Length[q[2]]

\* libparted lists every partition once, under one device.
ListedAssumption ==
  \A p \in Part :
    \E i \in 1 .. Len(Device) : \E m \in 1 .. Len(PartsOn[Device[i]]) :
      \A j \in 1 .. Len(Device) : \A n \in 1 .. Len(PartsOn[Device[j]]) :
        PartsOn[Device[j]][n] = p <=> j = i /\ n = m

ASSUME PartDiskAssumptions == PartDiskAssumption /\ LengthAssumption /\ ListedAssumption

VARIABLES
  mount,              \* info->mount of each partition
  type,               \* info->type of each partition
  rootpart_selected,  \* the pointer, as the partition it points to
  shown,              \* the device whose partitions are listed
  complete,           \* the page can be left
  fstab,              \* what the run just made wrote, line by line, see Line
  mounted,            \* mounts under TARGETDIR, oldest first
  temps,              \* the temporary files that still exist
  files,              \* the files copied to each partition
  missed,             \* the files whose last copy failed, which nobody is told
  where,              \* "here", "left" or "ended"
  ops, runs           \* counters for the bounds

choices == <<mount, type, rootpart_selected, shown, complete>>
disk    == <<mounted, files>>
copying == <<temps, missed>>
vars    == <<mount, type, rootpart_selected, shown, complete, fstab, mounted,
             temps, files, missed, where, ops, runs>>

\* A line of fstab; done: the mount that went with it was made, or was there.
Line == [part : Part, mount : Mount, done : BOOLEAN]

Listed(d) == {PartsOn[d][i] : i \in 1 .. Len(PartsOn[d])}

Init ==
  /\ mount = [p \in Part |-> NoMount]
  /\ type \in Type0
  /\ rootpart_selected = None
  /\ shown = First
  /\ complete = FALSE
  /\ fstab = << >>
  /\ mounted = << >>
  /\ temps = Temp
  /\ files = [p \in Part |-> {}]
  /\ missed = {}
  /\ where = "here"
  /\ ops = 0 /\ runs = 0

-----------------------------------------------------------------------------
(* Mounts.  umount_if_needed never unmounts: it searches for TARGETDIR//d, *)
(* which is no line of /proc/mounts, and passes umount2 a device.          *)

\* TARGETDIR/ and TARGETDIR// are one directory.
At(m) == IF m = "" THEN "/" ELSE m

IsAbove(d, e) == (d = "/" /\ e \in Dir) \/ <<d, e>> \in Above

Covers(d, e) == d = e \/ IsAbove(d, e)

Hidden(ms, i) == \E j \in i+1 .. Len(ms) : Covers(ms[j].dir, ms[i].dir)

\* p is what is seen at directory d.
Visible(ms, p, d) ==
  \E i \in 1 .. Len(ms) : ms[i] = [part |-> p, dir |-> d] /\ ~Hidden(ms, i)

\* A partition that is mounted already is not mounted again.
WithMountSlip(ms, p, d) ==
  IF \E i \in 1 .. Len(ms) : ms[i].part = p
    THEN ms ELSE Append(ms, [part |-> p, dir |-> d])

\* mount(8) refuses what is already on top at that place.
WithMount(ms, p, d) ==
  IF Visible(ms, p, d) THEN ms ELSE Append(ms, [part |-> p, dir |-> d])

Mounts(p) == {i \in 1 .. Len(mounted) : mounted[i].part = p}

\* The mounts that findmount takes for mounts of p: it compares prefixes.
Found(p) == {i \in 1 .. Len(mounted) :
               mounted[i].part = p \/ <<p, mounted[i].part>> \in Prefix}

\* Nothing is mounted over, above or below mount i.
Free(i) == \A j \in i+1 .. Len(mounted) :
             /\ ~Covers(mounted[j].dir, mounted[i].dir)
             /\ ~Covers(mounted[i].dir, mounted[j].dir)

Without(i) == SubSeq(mounted, 1, i-1) \o SubSeq(mounted, i+1, Len(mounted))

\* mkfss first unmounts the directory of the first mount found, whatever
\* partition is on top there; the call may also fail (the directory is busy).
Unmounts(p) ==
  {mounted} \cup
  {Without(i) : i \in {k \in 1 .. Len(mounted) :
     /\ Free(k)
     /\ \E f \in Found(p) : /\ \A g \in Found(p) : f <= g
                            /\ mounted[k].dir = mounted[f].dir}}

-----------------------------------------------------------------------------
(* The buttons of the page, each with one of the listed partitions.        *)

Operate == where = "here" /\ ops < MaxOps /\ ops' = ops + 1

\* Button Set mountpoint: set_mountpoint.  An empty entry is an entry.
SetMountpoint(p) ==
  /\ Operate
  /\ mount[p] # "/"
  /\ \E t \in Text : mount' = [mount EXCEPT ![p] = t]
  /\ UNCHANGED <<type, rootpart_selected, shown, complete, fstab, disk, copying,
                 where, runs>>

\* What requestformat does when it is not cancelled: nothing ("Do not
\* format"), or mkfss, which fails on a partition that is still mounted.
Requested(p) ==
  \/ UNCHANGED <<type, disk>>
  \/ /\ mounted' \in Unmounts(p)
     /\ \/ UNCHANGED <<type, files>>
        \/ /\ \A i \in 1 .. Len(mounted') : mounted'[i].part # p
           /\ type' = [type EXCEPT ![p] = "other"]
           /\ files' = [files EXCEPT ![p] = {}]

Format(p) ==
  /\ Operate
  /\ Requested(p)
  /\ UNCHANGED <<mount, rootpart_selected, shown, complete, fstab, copying,
                 where, runs>>

\* The mount point of the old root stays.
SetRootSlip(p) ==
  /\ Operate
  /\ Requested(p)
  /\ mount' = [mount EXCEPT ![p] = "/"]
  /\ rootpart_selected' = p
  /\ complete' = TRUE
  /\ UNCHANGED <<shown, fstab, copying, where, runs>>

\* Button Set root partition: set_root_part.
SetRoot(p) ==
  /\ Operate
  /\ Requested(p)
  /\ mount' = [q \in Part |-> CASE q = p -> "/"
                                [] q # p /\ q = rootpart_selected -> NoMount
                                [] OTHER -> mount[q]]
  /\ rootpart_selected' = p
  /\ complete' = TRUE
  /\ UNCHANGED <<shown, fstab, copying, where, runs>>

\* The type is the name mkfss is given, as in requestformat.
SetSwapSlip(p) ==
  /\ Operate
  /\ mount[p] # "/"
  /\ mounted' \in Unmounts(p)
  /\ mount' = [mount EXCEPT ![p] = "swap"]
  /\ type' = [type EXCEPT ![p] = "swap"]
  /\ UNCHANGED <<rootpart_selected, shown, complete, fstab, files, copying,
                 where, runs>>

\* Button Set swap: set_swap_part, swapformat.  mkfss returns 0 for a swap
\* partition even when mkswap has refused to overwrite a mounted one.
SetSwap(p) ==
  /\ Operate
  /\ mount[p] # "/"
  /\ mounted' \in Unmounts(p)
  /\ mount' = [mount EXCEPT ![p] = "swap"]
  /\ type' = [type EXCEPT ![p] = "linux-swap"]
  /\ files' = IF \E i \in 1 .. Len(mounted') : mounted'[i].part = p
                THEN files ELSE [files EXCEPT ![p] = {}]
  /\ UNCHANGED <<rootpart_selected, shown, complete, fstab, copying, where, runs>>

\* The combo box of devices: change_part_list.
ChangeDevice ==
  /\ where = "here"
  /\ \E i \in 1 .. Len(Device) : shown' = Device[i]
  /\ UNCHANGED <<mount, type, rootpart_selected, complete, fstab, disk, copying,
                 where, ops, runs>>

\* The pointer to the root partition after detect_parts: only the list of the
\* first device is freed, the others are leaked.  Freed memory may be taken by
\* the description of any partition of the new lists.
Repointed == CASE rootpart_selected = None -> {None}
               [] rootpart_selected \in Listed(First) -> Part \cup {Lost}
               [] rootpart_selected \notin Listed(First) \cup {None} -> {Lost}

\* gparted may change what is not mounted.
Repartitioned ==
  \E changed \in SUBSET {p \in Part : Mounts(p) = {}} :
    /\ files' = [p \in Part |-> IF p \in changed THEN {} ELSE files[p]]
    /\ \E t \in [changed -> Type] :
         type' = [p \in Part |-> IF p \in changed THEN t[p] ELSE type[p]]

\* The page can still be left.
RunGpartedSlip ==
  /\ Operate
  /\ Repartitioned
  /\ mount' = [p \in Part |-> NoMount]
  /\ shown' = First
  /\ rootpart_selected' \in Repointed
  /\ UNCHANGED <<complete, fstab, mounted, copying, where, runs>>

\* run_gparted, then detect_parts: every partition is described afresh.
RunGparted ==
  /\ Operate
  /\ Repartitioned
  /\ mount' = [p \in Part |-> NoMount]
  /\ shown' = First
  /\ rootpart_selected' \in Repointed
  /\ complete' = FALSE
  /\ UNCHANGED <<fstab, mounted, copying, where, runs>>

-----------------------------------------------------------------------------
(* Leaving the page: run.                                                  *)

MountLength(m) == CASE m = "" -> 0 [] m = "/" -> 1 [] m = "swap" -> 4
                    [] m \in Dir -> Length[m]

\* Longer mount points first.
NotAfterSlip(a, b) ==
  mount[a] = NoMount \/ mount[b] = NoMount
    \/ MountLength(mount[a]) >= MountLength(mount[b])

\* compare_mount_points(a, b) <= 0.
NotAfter(a, b) ==
  mount[a] = NoMount \/ mount[b] = NoMount
    \/ MountLength(mount[a]) <= MountLength(mount[b])

\* g_list_sort_merge, of a pair of lists: ties to the first one.
Merged[lists \in Seq(Part) \X Seq(Part)] ==
  LET s == lists[1]
      t == lists[2]
  IN IF s = << >> THEN t
     ELSE IF t = << >> THEN s
     ELSE IF NotAfter(s[1], t[1]) THEN <<s[1]>> \o Merged[<<Tail(s), t>>]
     ELSE <<t[1]>> \o Merged[<<s, Tail(t)>>]

\* g_list_sort: merge sort, the first part is n div 2 long.
Sorted[s \in Seq(Part)] ==
  IF Len(s) < 2 THEN s
  ELSE LET half == Len(s) \div 2
       IN Merged[<<Sorted[SubSeq(s, 1, half)], Sorted[SubSeq(s, half + 1, Len(s))]>>]

\* All partitions, device after device.
AllPartitions ==
  LET joined[n \in 0 .. Len(Device)] ==
        IF n = 0 THEN << >> ELSE joined[n-1] \o PartsOn[Device[n]]
  IN joined[Len(Device)]

GlobalList == Sorted[AllPartitions]

\* Those of list with a mount field, in the order mountdev is called for them.
Plan(list) ==
  LET chosen[n \in 0 .. Len(list)] ==
        IF n = 0 THEN << >>
        ELSE IF mount[list[n]] = NoMount THEN chosen[n-1]
        ELSE Append(chosen[n-1], list[n])
  IN chosen[Len(list)]

IsSwap(p) == mount[p] = "swap" \/ type[p] = "linux-swap"

\* What mountdev leaves mounted when called for the partitions of plan, when
\* the mounts of those in bad fail.
MountedBy(plan, bad) ==
  LET after[n \in 0 .. Len(plan)] ==
        IF n = 0 THEN mounted
        ELSE IF IsSwap(plan[n]) \/ plan[n] \in bad THEN after[n-1]
        ELSE WithMount(after[n-1], plan[n], At(mount[plan[n]]))
  IN after[Len(plan)]

\* What copyfile is called for.  A temporary file that is gone cannot be
\* opened, and what is on the target stays.
Copied == temps \cup {"fstab"}

\* The copies in good are made, to the partition that ms show at TARGETDIR, if
\* any.  Of the others the target is opened, which empties the file that was
\* there, and cannot be written (spoilt), or it cannot be opened.
CopiedTo(ms, good, spoilt) ==
  /\ files' = [p \in Part |-> IF Visible(ms, p, "/")
                                THEN (files[p] \ spoilt) \cup good ELSE files[p]]
  /\ missed' = (missed \cup Copied) \ good

\* Files are copied before the mounts are made.
LeaveSlip(plan, bad) ==
  /\ mounted' = MountedBy(plan, bad)
  /\ fstab' = [i \in 1 .. Len(plan) |->
                 [part |-> plan[i], mount |-> mount[plan[i]],
                  done  |-> plan[i] \notin bad]]
  /\ \E good \in SUBSET Copied : \E spoilt \in SUBSET (Copied \ good) :
       CopiedTo(mounted, good, spoilt)

\* The mounts, the lines of fstab, and the files copied to the partition that
\* is then seen at TARGETDIR, if any: mounts and copies may fail unnoticed.
Leave(plan, bad) ==
  /\ mounted' = MountedBy(plan, bad)
  /\ fstab' = [i \in 1 .. Len(plan) |->
                 [part |-> plan[i],
                  mount |-> IF IsSwap(plan[i]) THEN "swap" ELSE mount[plan[i]],
                  done  |-> plan[i] \notin bad]]
  /\ \E good \in SUBSET Copied : \E spoilt \in SUBSET (Copied \ good) :
       CopiedTo(mounted', good, spoilt)

\* Copied, then unlinked, whether the copy could be made or not.
Run ==
  /\ where = "here"
  /\ complete
  /\ runs < MaxRuns
  /\ LET plan == Plan(GlobalList) IN
       \E bad \in SUBSET {p \in Part : mount[p] # NoMount /\ ~IsSwap(p)} :
         Leave(plan, bad)
  /\ temps' = {}
  /\ where' = "left"
  /\ runs' = runs + 1
  /\ UNCHANGED <<choices, ops>>

\* The temporary fstab cannot be opened: run returns -1.
RunFails ==
  /\ where = "here"
  /\ complete
  /\ where' = "ended"
  /\ UNCHANGED <<choices, fstab, disk, copying, ops, runs>>

\* Back, perhaps as far as the layout page, which writes its file again.
ComeBack ==
  /\ where = "left"
  /\ where' = "here"
  /\ temps' \in {temps, temps \cup {"keymap"}}
  /\ fstab' = << >>
  /\ UNCHANGED <<choices, disk, missed, ops, runs>>

Next ==
  \/ \E p \in Listed(shown) : SetMountpoint(p) \/ Format(p) \/ SetRoot(p) \/ SetSwap(p)
  \/ ChangeDevice \/ RunGparted \/ Run \/ RunFails \/ ComeBack

Spec == Init /\ [][Next]_vars

-----------------------------------------------------------------------------
\* The types of the variables: mounts and lines of fstab are of known partitions.
TypeOK ==
  /\ mount \in [Part -> Mount]
  /\ type \in [Part -> Type]
  /\ rootpart_selected \in Part \cup {None, Lost}
  /\ shown \in {Device[i] : i \in 1 .. Len(Device)}
  /\ complete \in BOOLEAN
  /\ fstab \in Seq(Line)
  /\ mounted \in Seq([part : Part, dir : Placed])
  /\ temps \subseteq Temp /\ missed \subseteq Temp \cup {"fstab"}
  /\ files \in [Part -> SUBSET (Temp \cup {"fstab"})]
  /\ where \in {"here", "left", "ended"}
  /\ ops \in 0 .. MaxOps /\ runs \in 0 .. MaxRuns

\* Two partitions never both have the mount point "/", across devices, swap
\* and mount point changes, and a pointer left dangling by gparted: the one
\* that has it is the one rootpart_selected points to.
OneRoot == \A p \in Part : mount[p] = "/" => rootpart_selected = p

\* set_page_completed and set_page_incompleted are called in the right places:
\* the page can be left exactly when some partition is to be the root.
CompleteIffRoot == complete <=> \E p \in Part : mount[p] = "/"

RootToLeaf(s) == \A i, j \in 1 .. Len(s) :
                   i < j => ~IsAbove(mount[s[j]], mount[s[i]])

\* The sort puts a directory before those below it when no mount field is NULL.
SortedWhenAllMounted ==
  (\A p \in Part : mount[p] # NoMount) => RootToLeaf(GlobalList)

Sortedness == \A i, j \in 1 .. Len(fstab) :
                i < j => /\ fstab[i].mount # "swap" /\ fstab[j].mount # "swap" =>
                              At(fstab[i].mount) # At(fstab[j].mount)
                         /\ ~IsAbove(At(fstab[j].mount), At(fstab[i].mount))

\* However often the page is left again with other choices, old mounts never
\* hide new ones: if every mount was made and fstab lists distinct places from
\* the root down, what is seen at each place is the partition fstab has there.
MountedAsListed ==
  /\ where = "left"
  /\ Sortedness
  /\ \A i \in 1 .. Len(fstab) : fstab[i].done
  => \A i \in 1 .. Len(fstab) :
       fstab[i].mount # "swap" =>
         Visible(mounted, fstab[i].part, At(fstab[i].mount))

\* fstab reaches the root partition, also when another one is selected on a
\* later visit, if that partition is no swap and could be mounted, no other one
\* has been given the empty mount point, and the copy itself did not fail:
\* neither an old root nor the live system gets it instead.
FstabOnRoot ==
  /\ where = "left"
  /\ "fstab" \notin missed
  /\ \A p \in Part : mount[p] # ""
  => \A i \in 1 .. Len(fstab) :
       fstab[i].mount = "/" /\ fstab[i].done =>
         "fstab" \in files[rootpart_selected]

\* "Copy files into new locations" (run, before lang.sh and keymap are copied):
\* when the root partition was mounted, it has all the files but those whose
\* copy failed.
FilesDelivered ==
  /\ where = "left"
  /\ \A p \in Part : mount[p] # ""
  => \A i \in 1 .. Len(fstab) :
       fstab[i].mount = "/" /\ fstab[i].done =>
         Temp \ missed \subseteq files[fstab[i].part]
=============================================================================
