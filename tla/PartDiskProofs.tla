--------------------------- MODULE PartDiskProofs ---------------------------
(***************************************************************************)
(* The formatdisk page, for any disks and any number of visits.  The root  *)
(* partition is a matter of the user's choices alone.  What a run leaves   *)
(* behind follows from the order it mounts in: the merge sort keeps every  *)
(* partition, once, and sorts when its comparison is an order; the last    *)
(* mount at a place is the one seen there.                                 *)
(***************************************************************************)
EXTENDS PartDisk, Recursion, TLAPS

\* The types of the user's choices.
ChoiceTypeOK ==
  /\ mount \in [Part -> Mount]
  /\ rootpart_selected \in Part \cup {None, Lost}
  /\ shown \in {Device[i] : i \in 1 .. Len(Device)}
  /\ complete \in BOOLEAN

\* The choices, which no step on the disks changes.
Inv == ChoiceTypeOK /\ OneRoot /\ CompleteIffRoot

\* None of the ways to have no root is a mount point "/".
LEMMA NoMountIsNotRoot == NoMount # "/" /\ "swap" # "/" /\ \A t \in Text : t # "/"
  BY PartDiskAssumptions DEF PartDiskAssumption, Text

\* What is listed is a partition.
LEMMA ListedIsPart ==
  ASSUME ChoiceTypeOK, NEW p \in Listed(shown)
  PROVE  p \in Part
<1>1. PICK i \in 1 .. Len(Device) : shown = Device[i]
  BY DEF ChoiceTypeOK
<1>2. PartsOn[shown] \in Seq(Part)
  BY <1>1, PartDiskAssumptions DEF PartDiskAssumption
<1>3. PICK k \in 1 .. Len(PartsOn[shown]) : p = PartsOn[shown][k]
  BY DEF Listed
<1>4. QED
  BY <1>2, <1>3

\* There is a first device.
LEMMA FirstIsDevice == First \in {Device[i] : i \in 1 .. Len(Device)}
<1>1. Len(Device) > 0 /\ Device \in Seq({Device[i] : i \in 1 .. Len(Device)})
  BY PartDiskAssumptions DEF PartDiskAssumption
<1>2. 1 \in 1 .. Len(Device)
  BY <1>1
<1>3. QED
  BY <1>2 DEF First

\* The invariant holds at the start.
LEMMA InitHasInv == Init => Inv
  BY FirstIsDevice, NoMountIsNotRoot
  DEF Init, Inv, ChoiceTypeOK, OneRoot, CompleteIffRoot, Mount

\* A mount point that is not "/" given to a partition that is not the root.
LEMMA OtherMountKeeps ==
  ASSUME Inv, NEW p \in Part, NEW m \in Mount \ {"/"}, mount[p] # "/",
         mount' = [mount EXCEPT ![p] = m],
         UNCHANGED <<rootpart_selected, shown, complete>>
  PROVE  Inv'
<1>1. ChoiceTypeOK'
  BY DEF Inv, ChoiceTypeOK
<1>2. \A q \in Part : mount'[q] = "/" <=> mount[q] = "/"
  BY DEF Inv, ChoiceTypeOK
<1>3. QED
  BY <1>1, <1>2 DEF Inv, OneRoot, CompleteIffRoot

\* A mount point the user types is never "/" and never replaces it.
LEMMA SetMountpointKeeps ==
  ASSUME Inv, NEW p \in Part, SetMountpoint(p)
  PROVE  Inv'
<1>1. PICK t \in Text : mount' = [mount EXCEPT ![p] = t]
  BY DEF SetMountpoint
<1>2. t \in Mount \ {"/"}
  BY NoMountIsNotRoot DEF Mount
<1>3. QED
  BY <1>1, <1>2, OtherMountKeeps DEF SetMountpoint

\* Nor does a swap replace it.
LEMMA SetSwapKeeps ==
  ASSUME Inv, NEW p \in Part, SetSwap(p)
  PROVE  Inv'
<1>1. "swap" \in Mount \ {"/"}
  BY NoMountIsNotRoot DEF Mount
<1>2. QED
  BY <1>1, OtherMountKeeps DEF SetSwap

\* The old root loses its mount point, whichever partition the pointer is to.
LEMMA SetRootKeeps ==
  ASSUME Inv, NEW p \in Part, SetRoot(p)
  PROVE  Inv'
<1>1. /\ rootpart_selected' = p /\ complete' = TRUE /\ shown' = shown
      /\ mount' = [q \in Part |-> CASE q = p -> "/"
                                   [] q # p /\ q = rootpart_selected -> NoMount
                                   [] OTHER -> mount[q]]
  BY DEF SetRoot
<1>2. mount'[p] = "/"
  BY <1>1
<1>3. ASSUME NEW q \in Part, q # p
      PROVE  mount'[q] \in Mount /\ mount'[q] # "/"
  <2>1. CASE q = rootpart_selected
    BY <1>1, <1>3, <2>1, NoMountIsNotRoot DEF Mount
  <2>2. CASE q # rootpart_selected
    BY <1>1, <1>3, <2>2 DEF Inv, ChoiceTypeOK, OneRoot
  <2>3. QED
    BY <2>1, <2>2
<1>4. mount' \in [Part -> Mount]
  BY <1>1, <1>2, <1>3 DEF Mount
<1>5. QED
  BY <1>1, <1>2, <1>3, <1>4 DEF Inv, ChoiceTypeOK, OneRoot, CompleteIffRoot

\* No partition is the root, whatever the pointer has become.
LEMMA RunGpartedKeeps ==
  ASSUME Inv, RunGparted
  PROVE  Inv'
<1>1. rootpart_selected' \in Part \cup {None, Lost}
  BY DEF RunGparted, Repointed, Inv, ChoiceTypeOK
<1>2. mount' = [p \in Part |-> NoMount] /\ complete' = FALSE /\ shown' = First
  BY DEF RunGparted
<1>3. ChoiceTypeOK'
  BY <1>1, <1>2, FirstIsDevice DEF ChoiceTypeOK, Mount
<1>4. QED
  BY <1>2, <1>3, NoMountIsNotRoot DEF Inv, OneRoot, CompleteIffRoot

\* Steps that leave the choices alone, or only show another device.
LEMMA OtherKeeps ==
  ASSUME Inv, UNCHANGED <<mount, rootpart_selected, complete>>,
         shown' \in {Device[i] : i \in 1 .. Len(Device)} \/ shown' = shown
  PROVE  Inv'
  BY DEF Inv, ChoiceTypeOK, OneRoot, CompleteIffRoot

\* The invariant is inductive.
LEMMA NextKeepsInv == Inv /\ [Next]_vars => Inv'
<1> SUFFICES ASSUME Inv, [Next]_vars PROVE Inv'
  OBVIOUS
<1>1. ASSUME NEW p \in Listed(shown),
             SetMountpoint(p) \/ Format(p) \/ SetRoot(p) \/ SetSwap(p)
      PROVE  Inv'
  <2>1. p \in Part
    BY <1>1, ListedIsPart DEF Inv
  <2>2. CASE SetMountpoint(p)
    BY <2>1, <2>2, SetMountpointKeeps
  <2>3. CASE Format(p)
    BY <2>3, OtherKeeps DEF Format
  <2>4. CASE SetRoot(p)
    BY <2>1, <2>4, SetRootKeeps
  <2>5. CASE SetSwap(p)
    BY <2>1, <2>5, SetSwapKeeps
  <2>6. QED
    BY <1>1, <2>2, <2>3, <2>4, <2>5
<1>2. CASE ChangeDevice
  BY <1>2, OtherKeeps DEF ChangeDevice
<1>3. CASE RunGparted
  BY <1>3, RunGpartedKeeps
<1>4. CASE Run
  BY <1>4, OtherKeeps DEF Run, choices
<1>5. CASE RunFails
  BY <1>5, OtherKeeps DEF RunFails, choices
<1>6. CASE ComeBack
  BY <1>6, OtherKeeps DEF ComeBack, choices
<1>7. CASE UNCHANGED vars
  BY <1>7, OtherKeeps DEF vars
<1>8. QED
  BY <1>1, <1>2, <1>3, <1>4, <1>5, <1>6, <1>7 DEF Next

-----------------------------------------------------------------------------
(* The merge sort.                                                         *)

\* What Merged is called with.
Lists == Seq(Part) \X Seq(Part)

\* What Merged says of two lists, when it calls m.
MergeStep(m, lists) ==
  LET s == lists[1]
      t == lists[2]
  IN IF s = << >> THEN t
     ELSE IF t = << >> THEN s
     ELSE IF NotAfter(s[1], t[1]) THEN <<s[1]>> \o m[<<Tail(s), t>>]
     ELSE <<t[1]>> \o m[<<s, Tail(t)>>]

\* Tail, of a list of partitions.
LEMMA TailIsShorter ==
  ASSUME NEW s \in Seq(Part), s # << >>
  PROVE  Tail(s) \in Seq(Part) /\ Len(Tail(s)) = Len(s) - 1 /\ s[1] \in Part
  OBVIOUS

\* The number of elements still to merge.
Remaining(lists) == Len(lists[1]) + Len(lists[2])

\* It is a number.
LEMMA RemainingIs ==
  ASSUME NEW s \in Seq(Part), NEW t \in Seq(Part)
  PROVE  /\ <<s, t>> \in Lists
         /\ Remaining(<<s, t>>) = Len(s) + Len(t)
         /\ Remaining(<<s, t>>) \in Nat
<1>1. Remaining(<<s, t>>) = Len(s) + Len(t)
  BY DEF Remaining
<1>2. Len(s) + Len(t) \in Nat
  OBVIOUS
<1>3. <<s, t>> \in Lists
  BY DEF Lists
<1>4. QED
  BY <1>1, <1>2, <1>3

\* Every argument of Merged is a pair of lists.
LEMMA ListsArePairs ==
  ASSUME NEW lists \in Lists
  PROVE  \E s, t \in Seq(Part) : lists = <<s, t>>
  BY DEF Lists

\* One list gets shorter with each step of the merge.
LEMMA RemainingFalls ==
  ASSUME NEW s \in Seq(Part), NEW t \in Seq(Part)
  PROVE  /\ s # << >> => /\ <<Tail(s), t>> \in Lists
                         /\ Remaining(<<Tail(s), t>>) < Remaining(<<s, t>>)
         /\ t # << >> => /\ <<s, Tail(t)>> \in Lists
                         /\ Remaining(<<s, Tail(t)>>) < Remaining(<<s, t>>)
<1>1. ASSUME s # << >>
      PROVE  /\ <<Tail(s), t>> \in Lists
             /\ Remaining(<<Tail(s), t>>) < Remaining(<<s, t>>)
  <2>1. Tail(s) \in Seq(Part) /\ Len(Tail(s)) = Len(s) - 1
    BY <1>1, TailIsShorter
  <2>2. /\ <<Tail(s), t>> \in Lists
        /\ Remaining(<<Tail(s), t>>) = Len(Tail(s)) + Len(t)
        /\ Remaining(<<s, t>>) = Len(s) + Len(t)
    BY <2>1, RemainingIs
  <2>3. QED
    BY <2>1, <2>2
<1>2. ASSUME t # << >>
      PROVE  /\ <<s, Tail(t)>> \in Lists
             /\ Remaining(<<s, Tail(t)>>) < Remaining(<<s, t>>)
  <2>1. Tail(t) \in Seq(Part) /\ Len(Tail(t)) = Len(t) - 1
    BY <1>2, TailIsShorter
  <2>2. /\ <<s, Tail(t)>> \in Lists
        /\ Remaining(<<s, Tail(t)>>) = Len(s) + Len(Tail(t))
        /\ Remaining(<<s, t>>) = Len(s) + Len(t)
    BY <2>1, RemainingIs
  <2>3. QED
    BY <2>1, <2>2
<1>3. QED
  BY <1>1, <1>2

\* The calls of Merged have smaller arguments, and its results are lists.
LEMMA MergeIsRecursive ==
  ASSUME NEW w, w = [lists \in Lists |-> Remaining(lists)],
         NEW rule, rule = [m \in [Lists -> Seq(Part)] |-> [lists \in Lists |-> MergeStep(m, lists)]]
  PROVE  Recursive(Lists, Seq(Part), w, rule)
<1>1. w \in [Lists -> Nat]
  BY ListsArePairs, RemainingIs
<1>2. ASSUME NEW m \in [Lists -> Seq(Part)], NEW lists \in Lists
      PROVE  MergeStep(m, lists) \in Seq(Part)
  <2>1. PICK s \in Seq(Part), t \in Seq(Part) : lists = <<s, t>>
    BY DEF Lists
  <2>2. ASSUME s # << >>
        PROVE  m[<<Tail(s), t>>] \in Seq(Part) /\ s[1] \in Part
    BY <2>2, TailIsShorter DEF Lists
  <2>3. ASSUME t # << >>
        PROVE  m[<<s, Tail(t)>>] \in Seq(Part) /\ t[1] \in Part
    BY <2>3, TailIsShorter DEF Lists
  <2>4. QED
    BY <2>1, <2>2, <2>3 DEF MergeStep
<1>3. rule \in [[Lists -> Seq(Part)] -> [Lists -> Seq(Part)]]
  BY <1>2
<1>4. ASSUME NEW g \in [Lists -> Seq(Part)], NEW h \in [Lists -> Seq(Part)], NEW lists \in Lists,
             \A e \in Lists : w[e] < w[lists] => g[e] = h[e]
      PROVE  rule[g][lists] = rule[h][lists]
  <2>1. PICK s \in Seq(Part), t \in Seq(Part) : lists = <<s, t>>
    BY DEF Lists
  <2>2. ASSUME s # << >>
        PROVE  g[<<Tail(s), t>>] = h[<<Tail(s), t>>]
    <3>1. <<Tail(s), t>> \in Lists /\ w[<<Tail(s), t>>] < w[<<s, t>>]
      BY <2>1, <2>2, RemainingFalls
    <3>2. QED
      BY <1>4, <2>1, <3>1
  <2>3. ASSUME t # << >>
        PROVE  g[<<s, Tail(t)>>] = h[<<s, Tail(t)>>]
    <3>1. <<s, Tail(t)>> \in Lists /\ w[<<s, Tail(t)>>] < w[<<s, t>>]
      BY <2>1, <2>3, RemainingFalls
    <3>2. QED
      BY <1>4, <2>1, <3>1
  <2>4. MergeStep(g, lists) = MergeStep(h, lists)
    BY <2>1, <2>2, <2>3 DEF MergeStep
  <2>5. QED
    BY <2>4
<1>5. QED
  BY <1>1, <1>3, <1>4 DEF Recursive

\* So Merged is the function its definition says.
LEMMA MergedIs == Merged = [lists \in Lists |-> MergeStep(Merged, lists)]
<1> DEFINE w == [lists \in Lists |-> Remaining(lists)]
           rule == [m \in [Lists -> Seq(Part)] |-> [lists \in Lists |-> MergeStep(m, lists)]]
<1>1. Recursive(Lists, Seq(Part), w, rule)
  BY MergeIsRecursive
<1>2. Seq(Part) # {}
  <2>1. << >> \in Seq(Part)
    OBVIOUS
  <2>2. QED
    BY <2>1
<1>3. PICK m \in [Lists -> Seq(Part)] : m = rule[m]
  <2> HIDE DEF w, rule
  <2>1. HasSolution(Lists, Seq(Part), rule)
    BY <1>1, <1>2, RecursionDefines
  <2>2. QED
    BY <2>1 DEF HasSolution
<1>4. m = [lists \in Lists |-> MergeStep(m, lists)]
  BY <1>3
<1>5. QED
  BY <1>4 DEF Merged, MergeStep, Lists

-----------------------------------------------------------------------------
(* Lists of partitions: their elements, and the order they are in.         *)

\* The elements of a list.
Members(s) == {s[i] : i \in 1 .. Len(s)}

\* They are partitions.
LEMMA MembersArePart ==
  ASSUME NEW s \in Seq(Part)
  PROVE  Members(s) \subseteq Part
  BY DEF Members

\* Every earlier element of s is related to every later one.
Pairwise(s, R) == \A i, j \in 1 .. Len(s) : i < j => <<s[i], s[j]>> \in R

\* An element put before a list.
LEMMA Prepended ==
  ASSUME NEW x \in Part, NEW s \in Seq(Part), NEW u, u = <<x>> \o s
  PROVE  /\ u \in Seq(Part)
         /\ Len(u) = Len(s) + 1
         /\ u[1] = x
         /\ \A i \in 1 .. Len(s) : u[i + 1] = s[i]
         /\ \A i \in 2 .. Len(u) : u[i] = s[i - 1]
  OBVIOUS

\* The elements of the longer list.
LEMMA MembersPrepended ==
  ASSUME NEW x \in Part, NEW s \in Seq(Part), NEW u, u = <<x>> \o s
  PROVE  Members(u) = {x} \cup Members(s)
<1>1. ASSUME NEW q \in Members(u)
      PROVE  q = x \/ q \in Members(s)
  <2>1. PICK i \in 1 .. Len(u) : q = u[i]
    BY DEF Members
  <2>2. CASE i = 1
    BY <2>1, <2>2, Prepended
  <2>3. CASE i # 1
    <3>1. i \in 2 .. Len(u) /\ i - 1 \in 1 .. Len(s)
      BY <2>1, <2>3, Prepended
    <3>2. q = s[i - 1]
      BY <2>1, <3>1, Prepended
    <3>3. QED
      BY <3>1, <3>2 DEF Members
  <2>4. QED
    BY <2>2, <2>3
<1>2. x \in Members(u)
  <2>1. 1 \in 1 .. Len(u) /\ u[1] = x
    BY Prepended
  <2>2. QED
    BY <2>1 DEF Members
<1>3. ASSUME NEW q \in Members(s)
      PROVE  q \in Members(u)
  <2>1. PICK i \in 1 .. Len(s) : q = s[i]
    BY DEF Members
  <2>2. i + 1 \in 1 .. Len(u) /\ u[i + 1] = q
    BY <2>1, Prepended
  <2>3. QED
    BY <2>2 DEF Members
<1>4. QED
  BY <1>1, <1>2, <1>3

\* Its order: the new element is related to all others.
LEMMA PairwisePrepended ==
  ASSUME NEW x \in Part, NEW s \in Seq(Part), NEW u, u = <<x>> \o s, NEW R
  PROVE  Pairwise(u, R) <=> Pairwise(s, R) /\ \A q \in Members(s) : <<x, q>> \in R
<1>1. ASSUME Pairwise(u, R)
      PROVE  Pairwise(s, R) /\ \A q \in Members(s) : <<x, q>> \in R
  <2>1. ASSUME NEW i \in 1 .. Len(s), NEW j \in 1 .. Len(s), i < j
        PROVE  <<s[i], s[j]>> \in R
    <3>1. /\ i + 1 \in 1 .. Len(u) /\ j + 1 \in 1 .. Len(u) /\ i + 1 < j + 1
          /\ u[i + 1] = s[i] /\ u[j + 1] = s[j]
      BY <2>1, Prepended
    <3>2. QED
      BY <1>1, <3>1 DEF Pairwise
  <2>2. ASSUME NEW q \in Members(s)
        PROVE  <<x, q>> \in R
    <3>1. PICK j \in 1 .. Len(s) : q = s[j]
      BY DEF Members
    <3>2. /\ 1 \in 1 .. Len(u) /\ j + 1 \in 1 .. Len(u) /\ 1 < j + 1
          /\ u[1] = x /\ u[j + 1] = q
      BY <3>1, Prepended
    <3>3. QED
      BY <1>1, <3>2 DEF Pairwise
  <2>3. QED
    BY <2>1, <2>2 DEF Pairwise
<1>2. ASSUME Pairwise(s, R), \A q \in Members(s) : <<x, q>> \in R,
             NEW i \in 1 .. Len(u), NEW j \in 1 .. Len(u), i < j
      PROVE  <<u[i], u[j]>> \in R
  <2>1. j \in 2 .. Len(u) /\ j - 1 \in 1 .. Len(s) /\ u[j] = s[j - 1]
    BY <1>2, Prepended
  <2>2. CASE i = 1
    <3>1. u[i] = x /\ u[j] \in Members(s)
      BY <2>1, <2>2, Prepended DEF Members
    <3>2. QED
      BY <1>2, <3>1
  <2>3. CASE i # 1
    <3>1. i \in 2 .. Len(u) /\ i - 1 \in 1 .. Len(s) /\ u[i] = s[i - 1] /\ i - 1 < j - 1
      BY <1>2, <2>3, Prepended
    <3>2. QED
      BY <1>2, <2>1, <3>1 DEF Pairwise
  <2>4. QED
    BY <2>2, <2>3
<1>3. QED
  BY <1>1, <1>2 DEF Pairwise

\* An element put after a list.
LEMMA MembersAppended ==
  ASSUME NEW s \in Seq(Part), NEW x \in Part
  PROVE  Members(Append(s, x)) = Members(s) \cup {x}
<1>1. Len(Append(s, x)) = Len(s) + 1 /\ Append(s, x)[Len(s) + 1] = x
  OBVIOUS
<1>2. \A i \in 1 .. Len(s) : Append(s, x)[i] = s[i]
  OBVIOUS
<1>3. Len(s) \in Nat /\ 1 .. Len(s) + 1 = (1 .. Len(s)) \cup {Len(s) + 1}
  OBVIOUS
<1>4. QED
  BY <1>1, <1>2, <1>3 DEF Members

\* All others are related to it.
LEMMA PairwiseAppended ==
  ASSUME NEW s \in Seq(Part), NEW x \in Part, NEW R,
         Pairwise(s, R), \A q \in Members(s) : <<q, x>> \in R
  PROVE  Pairwise(Append(s, x), R)
<1> DEFINE u == Append(s, x)
<1>1. Len(s) \in Nat /\ Len(u) = Len(s) + 1 /\ u[Len(s) + 1] = x
  OBVIOUS
<1>2. \A i \in 1 .. Len(s) : u[i] = s[i]
  OBVIOUS
<1> HIDE DEF u
<1>3. ASSUME NEW i \in 1 .. Len(u), NEW j \in 1 .. Len(u), i < j
      PROVE  <<u[i], u[j]>> \in R
  <2>1. i \in 1 .. Len(s)
    BY <1>1, <1>3
  <2>2. CASE j = Len(s) + 1
    BY <1>1, <1>2, <2>1, <2>2 DEF Members
  <2>3. CASE j # Len(s) + 1
    <3>1. j \in 1 .. Len(s)
      BY <1>1, <2>3
    <3>2. QED
      BY <1>2, <1>3, <2>1, <3>1 DEF Pairwise
  <2>4. QED
    BY <2>2, <2>3
<1>4. Pairwise(u, R)
  BY <1>3 DEF Pairwise
<1>5. QED
  BY <1>4 DEF u

\* One list after another.
LEMMA Joined ==
  ASSUME NEW s \in Seq(Part), NEW t \in Seq(Part), NEW u, u = s \o t
  PROVE  /\ u \in Seq(Part) /\ Len(u) = Len(s) + Len(t)
         /\ \A i \in 1 .. Len(s) : u[i] = s[i]
         /\ \A i \in Len(s) + 1 .. Len(u) : u[i] = t[i - Len(s)]
         /\ \A i \in 1 .. Len(t) : u[i + Len(s)] = t[i]
  OBVIOUS

\* The elements of two lists one after the other.
LEMMA MembersJoined ==
  ASSUME NEW s \in Seq(Part), NEW t \in Seq(Part)
  PROVE  Members(s \o t) = Members(s) \cup Members(t)
<1> DEFINE u == s \o t
<1>1. /\ Len(u) = Len(s) + Len(t) /\ Len(s) \in Nat /\ Len(t) \in Nat
      /\ \A i \in 1 .. Len(s) : u[i] = s[i]
      /\ \A i \in Len(s) + 1 .. Len(u) : u[i] = t[i - Len(s)]
      /\ \A i \in 1 .. Len(t) : u[i + Len(s)] = t[i]
  BY Joined
<1> HIDE DEF u
<1>2. ASSUME NEW i \in 1 .. Len(u)
      PROVE  u[i] \in Members(s) \cup Members(t)
  <2>1. CASE i <= Len(s)
    BY <1>1, <2>1 DEF Members
  <2>2. CASE i > Len(s)
    <3>1. i - Len(s) \in 1 .. Len(t) /\ u[i] = t[i - Len(s)]
      BY <1>1, <2>2
    <3>2. QED
      BY <3>1 DEF Members
  <2>3. QED
    BY <1>1, <2>1, <2>2
<1>3. ASSUME NEW i \in 1 .. Len(s)
      PROVE  s[i] \in Members(u)
  <2>1. i \in 1 .. Len(u)
    BY <1>1
  <2>2. QED
    BY <1>1, <2>1 DEF Members
<1>4. ASSUME NEW i \in 1 .. Len(t)
      PROVE  t[i] \in Members(u)
  <2>1. i + Len(s) \in 1 .. Len(u)
    BY <1>1
  <2>2. QED
    BY <1>1, <2>1 DEF Members
<1>5. Members(u) = Members(s) \cup Members(t)
  BY <1>2, <1>3, <1>4 DEF Members
<1>6. QED
  BY <1>5 DEF u

\* Two lists in order, with every element of one before every one of the other.
LEMMA PairwiseJoined ==
  ASSUME NEW s \in Seq(Part), NEW t \in Seq(Part), NEW R, Pairwise(s, R), Pairwise(t, R),
         \A p \in Members(s), q \in Members(t) : <<p, q>> \in R
  PROVE  Pairwise(s \o t, R)
<1> DEFINE u == s \o t
<1>1. /\ Len(u) = Len(s) + Len(t) /\ Len(s) \in Nat /\ Len(t) \in Nat
      /\ \A i \in 1 .. Len(s) : u[i] = s[i]
      /\ \A i \in Len(s) + 1 .. Len(u) : u[i] = t[i - Len(s)]
  BY Joined
<1> HIDE DEF u
<1>2. ASSUME NEW i \in 1 .. Len(u), NEW j \in 1 .. Len(u), i < j
      PROVE  <<u[i], u[j]>> \in R
  <2>1. CASE j <= Len(s)
    <3>1. i \in 1 .. Len(s) /\ j \in 1 .. Len(s)
      BY <1>1, <1>2, <2>1
    <3>2. QED
      BY <1>1, <1>2, <3>1 DEF Pairwise
  <2>2. CASE i <= Len(s) /\ j > Len(s)
    <3>1. /\ i \in 1 .. Len(s) /\ u[i] = s[i]
          /\ j - Len(s) \in 1 .. Len(t) /\ u[j] = t[j - Len(s)]
      BY <1>1, <2>2
    <3>2. u[i] \in Members(s) /\ u[j] \in Members(t)
      BY <3>1 DEF Members
    <3>3. QED
      BY <3>2
  <2>3. CASE i > Len(s)
    <3>1. /\ i - Len(s) \in 1 .. Len(t) /\ j - Len(s) \in 1 .. Len(t)
          /\ i - Len(s) < j - Len(s)
      BY <1>1, <1>2, <2>3
    <3>2. u[i] = t[i - Len(s)] /\ u[j] = t[j - Len(s)]
      BY <1>1, <1>2, <2>3
    <3>3. QED
      BY <3>1, <3>2 DEF Pairwise
  <2>4. QED
    BY <1>1, <2>1, <2>2, <2>3
<1>3. QED
  BY <1>2 DEF Pairwise, u

\* A list is its first element and the rest.
LEMMA HeadAndTail ==
  ASSUME NEW s \in Seq(Part), s # << >>
  PROVE  s = <<s[1]>> \o Tail(s)
  OBVIOUS

\* One step of the merge.
LEMMA MergedStep ==
  ASSUME NEW s \in Seq(Part), NEW t \in Seq(Part)
  PROVE  Merged[<<s, t>>] = IF s = << >> THEN t
                            ELSE IF t = << >> THEN s
                            ELSE IF NotAfter(s[1], t[1]) THEN <<s[1]>> \o Merged[<<Tail(s), t>>]
                            ELSE <<t[1]>> \o Merged[<<s, Tail(t)>>]
<1>1. <<s, t>> \in Lists
  BY RemainingIs
<1>2. Merged[<<s, t>>] = MergeStep(Merged, <<s, t>>)
  BY <1>1, MergedIs
<1>3. QED
  BY <1>2 DEF MergeStep

\* Induction on the elements still to merge.
LEMMA MergeInduction ==
  ASSUME NEW T,
         \A s, t \in Seq(Part) :
           /\ s # << >> => <<Tail(s), t>> \in T
           /\ t # << >> => <<s, Tail(t)>> \in T
           => <<s, t>> \in T
  PROVE  \A s, t \in Seq(Part) : <<s, t>> \in T
<1> DEFINE w == [lists \in Lists |-> Remaining(lists)]
<1>1. w \in [Lists -> Nat]
  BY ListsArePairs, RemainingIs
<1>2. ASSUME NEW d \in Lists, \A e \in Lists : w[e] < w[d] => e \in T
      PROVE  d \in T
  <2>1. PICK s \in Seq(Part), t \in Seq(Part) : d = <<s, t>>
    BY ListsArePairs
  <2>2. s # << >> => <<Tail(s), t>> \in T
    BY <1>2, <2>1, RemainingFalls
  <2>3. t # << >> => <<s, Tail(t)>> \in T
    BY <1>2, <2>1, RemainingFalls
  <2>4. QED
    BY <2>1, <2>2, <2>3
<1> HIDE DEF w
<1>3. \A d \in Lists : d \in T
  BY <1>1, <1>2, MeasureInduction
<1>4. QED
  BY <1>3, RemainingIs

\* The merge of two lists has the elements of both.
LEMMA MergedMembers ==
  \A s, t \in Seq(Part) : /\ Merged[<<s, t>>] \in Seq(Part)
                          /\ Members(Merged[<<s, t>>]) = Members(s) \cup Members(t)
<1> DEFINE OK(s, t) == /\ Merged[<<s, t>>] \in Seq(Part)
                       /\ Members(Merged[<<s, t>>]) = Members(s) \cup Members(t)
           T == {lists \in Lists : OK(lists[1], lists[2])}
<1>1. ASSUME NEW s \in Seq(Part), NEW t \in Seq(Part),
             s # << >> => <<Tail(s), t>> \in T,
             t # << >> => <<s, Tail(t)>> \in T
      PROVE  OK(s, t)
  <2>1. CASE s = << >>
    <3>1. Merged[<<s, t>>] = t
      BY <2>1, MergedStep
    <3>2. Members(s) = {}
      BY <2>1 DEF Members
    <3>3. QED
      BY <3>1, <3>2
  <2>2. CASE s # << >> /\ t = << >>
    <3>1. Merged[<<s, t>>] = s
      BY <2>2, MergedStep
    <3>2. Members(t) = {}
      BY <2>2 DEF Members
    <3>3. QED
      BY <3>1, <3>2
  <2>3. CASE s # << >> /\ t # << >> /\ NotAfter(s[1], t[1])
    <3> DEFINE m == Merged[<<Tail(s), t>>]
    <3>1. Merged[<<s, t>>] = <<s[1]>> \o m
      BY <2>3, MergedStep
    <3>2. s[1] \in Part /\ Tail(s) \in Seq(Part) /\ s = <<s[1]>> \o Tail(s)
      BY <2>3, TailIsShorter, HeadAndTail
    <3>3. m \in Seq(Part) /\ Members(m) = Members(Tail(s)) \cup Members(t)
      BY <1>1, <2>3
    <3> HIDE DEF m
    <3>4. Members(s) = {s[1]} \cup Members(Tail(s))
      BY <3>2, MembersPrepended
    <3>5. s[1] \in Part /\ m \in Seq(Part)
      BY <3>2, <3>3
    <3>6. Merged[<<s, t>>] \in Seq(Part)
      BY <3>1, <3>5, Prepended
    <3>7. Members(Merged[<<s, t>>]) = {s[1]} \cup Members(m)
      BY <3>1, <3>5, MembersPrepended
    <3>8. QED
      BY <3>3, <3>4, <3>6, <3>7
  <2>4. CASE s # << >> /\ t # << >> /\ ~NotAfter(s[1], t[1])
    <3> DEFINE m == Merged[<<s, Tail(t)>>]
    <3>1. Merged[<<s, t>>] = <<t[1]>> \o m
      BY <2>4, MergedStep
    <3>2. t[1] \in Part /\ Tail(t) \in Seq(Part) /\ t = <<t[1]>> \o Tail(t)
      BY <2>4, TailIsShorter, HeadAndTail
    <3>3. m \in Seq(Part) /\ Members(m) = Members(s) \cup Members(Tail(t))
      BY <1>1, <2>4
    <3> HIDE DEF m
    <3>4. Members(t) = {t[1]} \cup Members(Tail(t))
      BY <3>2, MembersPrepended
    <3>5. t[1] \in Part /\ m \in Seq(Part)
      BY <3>2, <3>3
    <3>6. Merged[<<s, t>>] \in Seq(Part)
      BY <3>1, <3>5, Prepended
    <3>7. Members(Merged[<<s, t>>]) = {t[1]} \cup Members(m)
      BY <3>1, <3>5, MembersPrepended
    <3>8. QED
      BY <3>3, <3>4, <3>6, <3>7
  <2>5. QED
    BY <2>1, <2>2, <2>3, <2>4
<1> HIDE DEF OK
<1>2. \A s, t \in Seq(Part) : <<s, t>> \in T <=> OK(s, t)
  BY RemainingIs
<1> HIDE DEF T
<1>3. \A s, t \in Seq(Part) : <<s, t>> \in T
  BY <1>1, <1>2, MergeInduction
<1>4. QED
  BY <1>2, <1>3 DEF OK

\* The relation R agrees with the comparison: it holds between what is not
\* after, and is transitive.
Agrees(R) ==
  /\ \A a, b \in Part : IF NotAfter(a, b) THEN <<a, b>> \in R ELSE <<b, a>> \in R
  /\ \A a, b, c \in Part : <<a, b>> \in R /\ <<b, c>> \in R => <<a, c>> \in R

\* The merge of two sorted lists is sorted.
LEMMA MergedInOrder ==
  ASSUME NEW R, Agrees(R)
  PROVE  \A s, t \in Seq(Part) :
           Pairwise(s, R) /\ Pairwise(t, R) => Pairwise(Merged[<<s, t>>], R)
<1> DEFINE OK(s, t) == Pairwise(s, R) /\ Pairwise(t, R) => Pairwise(Merged[<<s, t>>], R)
           T == {lists \in Lists : OK(lists[1], lists[2])}
<1>1. ASSUME NEW s \in Seq(Part), NEW t \in Seq(Part),
             s # << >> => <<Tail(s), t>> \in T,
             t # << >> => <<s, Tail(t)>> \in T
      PROVE  OK(s, t)
  <2> SUFFICES ASSUME Pairwise(s, R), Pairwise(t, R) PROVE Pairwise(Merged[<<s, t>>], R)
    OBVIOUS
  <2>1. CASE s = << >> \/ t = << >>
    BY <2>1, MergedStep
  <2>2. CASE s # << >> /\ t # << >>
    <3>1. /\ s[1] \in Part /\ Tail(s) \in Seq(Part) /\ s = <<s[1]>> \o Tail(s)
          /\ t[1] \in Part /\ Tail(t) \in Seq(Part) /\ t = <<t[1]>> \o Tail(t)
      BY <2>2, TailIsShorter, HeadAndTail
    <3>2. /\ Pairwise(Tail(s), R) /\ \A q \in Members(Tail(s)) : <<s[1], q>> \in R
          /\ Pairwise(Tail(t), R) /\ \A q \in Members(Tail(t)) : <<t[1], q>> \in R
      BY <3>1, PairwisePrepended
    <3>3. /\ Members(s) = {s[1]} \cup Members(Tail(s)) /\ Members(s) \subseteq Part
          /\ Members(t) = {t[1]} \cup Members(Tail(t)) /\ Members(t) \subseteq Part
      BY <3>1, MembersPrepended, MembersArePart
    <3>4. CASE NotAfter(s[1], t[1])
      <4> DEFINE m == Merged[<<Tail(s), t>>]
      <4>1. Merged[<<s, t>>] = <<s[1]>> \o m
        BY <2>2, <3>4, MergedStep
      <4>2. m \in Seq(Part) /\ Members(m) = Members(Tail(s)) \cup Members(t)
        BY <3>1, MergedMembers
      <4>3. Pairwise(m, R)
        BY <1>1, <2>2, <3>2
      <4> HIDE DEF m
      <4>4. <<s[1], t[1]>> \in R
        BY <3>1, <3>4 DEF Agrees
      <4>5. ASSUME NEW q \in Members(m) PROVE <<s[1], q>> \in R
        BY <3>1, <3>2, <3>3, <4>2, <4>4 DEF Agrees
      <4>6. QED
        BY <3>1, <4>1, <4>2, <4>3, <4>5, PairwisePrepended
    <3>5. CASE ~NotAfter(s[1], t[1])
      <4> DEFINE m == Merged[<<s, Tail(t)>>]
      <4>1. Merged[<<s, t>>] = <<t[1]>> \o m
        BY <2>2, <3>5, MergedStep
      <4>2. m \in Seq(Part) /\ Members(m) = Members(s) \cup Members(Tail(t))
        BY <3>1, MergedMembers
      <4>3. Pairwise(m, R)
        BY <1>1, <2>2, <3>2
      <4> HIDE DEF m
      <4>4. <<t[1], s[1]>> \in R
        BY <3>1, <3>5 DEF Agrees
      <4>5. ASSUME NEW q \in Members(m) PROVE <<t[1], q>> \in R
        BY <3>1, <3>2, <3>3, <4>2, <4>4 DEF Agrees
      <4>6. QED
        BY <3>1, <4>1, <4>2, <4>3, <4>5, PairwisePrepended
    <3>6. QED
      BY <3>4, <3>5
  <2>3. QED
    BY <2>1, <2>2
<1> HIDE DEF OK
<1>2. \A s, t \in Seq(Part) : <<s, t>> \in T <=> OK(s, t)
  BY RemainingIs
<1> HIDE DEF T
<1>3. \A s, t \in Seq(Part) : <<s, t>> \in T
  BY <1>1, <1>2, MergeInduction
<1>4. QED
  BY <1>2, <1>3 DEF OK

\* The two parts of a list.
LEMMA Parts ==
  ASSUME NEW s \in Seq(Part), Len(s) >= 2, NEW half, half = Len(s) \div 2
  PROVE  /\ half \in 1 .. Len(s) - 1
         /\ SubSeq(s, 1, half) \in Seq(Part) /\ Len(SubSeq(s, 1, half)) = half
         /\ \A i \in 1 .. half : SubSeq(s, 1, half)[i] = s[i]
         /\ SubSeq(s, half + 1, Len(s)) \in Seq(Part)
         /\ Len(SubSeq(s, half + 1, Len(s))) = Len(s) - half
         /\ \A i \in 1 .. Len(s) - half : SubSeq(s, half + 1, Len(s))[i] = s[half + i]
<1>1. half \in 1 .. Len(s) - 1
  OBVIOUS
<1>2. /\ SubSeq(s, 1, half) \in Seq(Part) /\ Len(SubSeq(s, 1, half)) = half
      /\ \A i \in 1 .. half : SubSeq(s, 1, half)[i] = s[i]
  BY <1>1
<1>3. /\ SubSeq(s, half + 1, Len(s)) \in Seq(Part)
      /\ Len(SubSeq(s, half + 1, Len(s))) = Len(s) - half
  BY <1>1
<1>4. \A i \in 1 .. Len(s) - half : SubSeq(s, half + 1, Len(s))[i] = s[half + i]
  BY <1>1
<1>5. QED
  BY <1>1, <1>2, <1>3, <1>4

\* Together they have all elements.
LEMMA PartsMembers ==
  ASSUME NEW s \in Seq(Part), Len(s) >= 2, NEW half, half = Len(s) \div 2
  PROVE  Members(s) = Members(SubSeq(s, 1, half)) \cup Members(SubSeq(s, half + 1, Len(s)))
<1> DEFINE a == SubSeq(s, 1, half)
           b == SubSeq(s, half + 1, Len(s))
<1>1. /\ half \in 1 .. Len(s) - 1 /\ Len(s) \in Nat
      /\ Len(a) = half /\ \A i \in 1 .. half : a[i] = s[i]
      /\ Len(b) = Len(s) - half /\ \A i \in 1 .. Len(s) - half : b[i] = s[half + i]
  <2>1. half \in 1 .. Len(s) - 1 /\ Len(s) \in Nat
    OBVIOUS
  <2>2. Len(a) = half /\ \A i \in 1 .. half : a[i] = s[i]
    BY Parts
  <2>3. Len(b) = Len(s) - half
    BY Parts
  <2>4. \A i \in 1 .. Len(s) - half : b[i] = s[half + i]
    BY Parts
  <2>5. QED
    BY <2>1, <2>2, <2>3, <2>4
<1> HIDE DEF a, b
<1>2. ASSUME NEW i \in 1 .. Len(s)
      PROVE  s[i] \in Members(a) \cup Members(b)
  <2>1. CASE i <= half
    BY <1>1, <2>1 DEF Members
  <2>2. CASE i > half
    <3>1. i - half \in 1 .. Len(b) /\ b[i - half] = s[i]
      BY <1>1, <2>2
    <3>2. QED
      BY <3>1 DEF Members
  <2>3. QED
    BY <1>1, <2>1, <2>2
<1>3. ASSUME NEW i \in 1 .. Len(a)
      PROVE  a[i] \in Members(s)
  BY <1>1 DEF Members
<1>4. ASSUME NEW i \in 1 .. Len(b)
      PROVE  b[i] \in Members(s)
  <2>1. half + i \in 1 .. Len(s) /\ b[i] = s[half + i]
    BY <1>1
  <2>2. QED
    BY <2>1 DEF Members
<1>5. Members(s) = Members(a) \cup Members(b)
  BY <1>2, <1>3, <1>4 DEF Members
<1>6. QED
  BY <1>5 DEF a, b

\* A part of a list in order is in order.
LEMMA PartsPairwise ==
  ASSUME NEW s \in Seq(Part), Len(s) >= 2, NEW half, half = Len(s) \div 2, NEW R, Pairwise(s, R)
  PROVE  /\ Pairwise(SubSeq(s, 1, half), R)
         /\ Pairwise(SubSeq(s, half + 1, Len(s)), R)
         /\ \A p \in Members(SubSeq(s, 1, half)), q \in Members(SubSeq(s, half + 1, Len(s))) :
              <<p, q>> \in R
<1> DEFINE a == SubSeq(s, 1, half)
           b == SubSeq(s, half + 1, Len(s))
<1>1. half \in 1 .. Len(s) - 1 /\ Len(s) \in Nat
  OBVIOUS
<1>2. Len(a) = half /\ \A i \in 1 .. half : a[i] = s[i]
  BY Parts
<1>3. Len(b) = Len(s) - half /\ \A i \in 1 .. Len(s) - half : b[i] = s[half + i]
  <2>1. Len(b) = Len(s) - half
    BY Parts
  <2>2. \A i \in 1 .. Len(s) - half : b[i] = s[half + i]
    BY Parts
  <2>3. QED
    BY <2>1, <2>2
<1> HIDE DEF a, b
<1>4. ASSUME NEW i \in 1 .. half, NEW j \in 1 .. half, i < j
      PROVE  <<a[i], a[j]>> \in R
  <2>1. i \in 1 .. Len(s) /\ j \in 1 .. Len(s)
    BY <1>1
  <2>2. QED
    BY <1>2, <1>4, <2>1 DEF Pairwise
<1>5. ASSUME NEW i \in 1 .. Len(b), NEW j \in 1 .. Len(b), i < j
      PROVE  <<b[i], b[j]>> \in R
  <2>1. half + i \in 1 .. Len(s) /\ half + j \in 1 .. Len(s) /\ half + i < half + j
    BY <1>1, <1>3, <1>5
  <2>2. QED
    BY <1>3, <2>1 DEF Pairwise
<1>6. ASSUME NEW i \in 1 .. half, NEW j \in 1 .. Len(b)
      PROVE  <<a[i], b[j]>> \in R
  <2>1. i \in 1 .. Len(s) /\ half + j \in 1 .. Len(s) /\ i < half + j
    BY <1>1, <1>3
  <2>2. QED
    BY <1>2, <1>3, <2>1 DEF Pairwise
<1>7. Pairwise(a, R) /\ Pairwise(b, R)
  BY <1>2, <1>4, <1>5 DEF Pairwise
<1>8. \A p \in Members(a), q \in Members(b) : <<p, q>> \in R
  BY <1>2, <1>6 DEF Members
<1>9. QED
  BY <1>7, <1>8 DEF a, b

\* What Sorted says of a list, when it calls f.
SortStep(f, s) ==
  IF Len(s) < 2 THEN s
  ELSE LET half == Len(s) \div 2
       IN Merged[<<f[SubSeq(s, 1, half)], f[SubSeq(s, half + 1, Len(s))]>>]

\* The calls of Sorted have shorter arguments, and its results are lists.
LEMMA SortIsRecursive ==
  ASSUME NEW w, w = [s \in Seq(Part) |-> Len(s)],
         NEW rule, rule = [f \in [Seq(Part) -> Seq(Part)] |-> [s \in Seq(Part) |-> SortStep(f, s)]]
  PROVE  Recursive(Seq(Part), Seq(Part), w, rule)
<1>1. w \in [Seq(Part) -> Nat]
  OBVIOUS
<1>2. ASSUME NEW f \in [Seq(Part) -> Seq(Part)], NEW s \in Seq(Part)
      PROVE  SortStep(f, s) \in Seq(Part)
  <2>1. CASE Len(s) < 2
    BY <2>1 DEF SortStep
  <2>2. CASE ~(Len(s) < 2)
    <3> DEFINE half == Len(s) \div 2
               a == f[SubSeq(s, 1, half)]
               b == f[SubSeq(s, half + 1, Len(s))]
    <3>1. Len(s) >= 2
      BY <2>2
    <3>2. a \in Seq(Part) /\ b \in Seq(Part)
      BY <3>1, Parts
    <3>3. SortStep(f, s) = Merged[<<a, b>>]
      BY <2>2 DEF SortStep
    <3> HIDE DEF a, b
    <3>4. QED
      BY <3>2, <3>3, MergedMembers
  <2>3. QED
    BY <2>1, <2>2
<1>3. rule \in [[Seq(Part) -> Seq(Part)] -> [Seq(Part) -> Seq(Part)]]
  BY <1>2
<1>4. ASSUME NEW g \in [Seq(Part) -> Seq(Part)], NEW h \in [Seq(Part) -> Seq(Part)],
             NEW s \in Seq(Part), \A e \in Seq(Part) : w[e] < w[s] => g[e] = h[e]
      PROVE  rule[g][s] = rule[h][s]
  <2>1. CASE Len(s) < 2
    BY <2>1 DEF SortStep
  <2>2. CASE ~(Len(s) < 2)
    <3> DEFINE half == Len(s) \div 2
               a == SubSeq(s, 1, half)
               b == SubSeq(s, half + 1, Len(s))
    <3>1. Len(s) >= 2
      BY <2>2
    <3>2. /\ a \in Seq(Part) /\ Len(a) = half /\ b \in Seq(Part) /\ Len(b) = Len(s) - half
          /\ half \in 1 .. Len(s) - 1
      BY <3>1, Parts
    <3>3. g[a] = h[a] /\ g[b] = h[b]
      <4> HIDE DEF a, b, half
      <4>1. Len(s) \in Nat
        OBVIOUS
      <4>2. w[a] = Len(a) /\ w[b] = Len(b) /\ w[s] = Len(s)
        BY <3>2
      <4>3. w[a] < w[s] /\ w[b] < w[s]
        BY <3>2, <4>1, <4>2
      <4>4. QED
        BY <1>4, <3>2, <4>3
    <3>4. SortStep(g, s) = SortStep(h, s)
      BY <3>3 DEF SortStep
    <3>5. QED
      BY <3>4
  <2>3. QED
    BY <2>1, <2>2
<1>5. QED
  BY <1>1, <1>3, <1>4 DEF Recursive

\* So Sorted is the function its definition says.
LEMMA SortedIs == Sorted = [s \in Seq(Part) |-> SortStep(Sorted, s)]
<1> DEFINE w == [s \in Seq(Part) |-> Len(s)]
           rule == [f \in [Seq(Part) -> Seq(Part)] |-> [s \in Seq(Part) |-> SortStep(f, s)]]
<1>1. Recursive(Seq(Part), Seq(Part), w, rule)
  BY SortIsRecursive
<1>2. Seq(Part) # {}
  <2>1. << >> \in Seq(Part)
    OBVIOUS
  <2>2. QED
    BY <2>1
<1>3. PICK f \in [Seq(Part) -> Seq(Part)] : f = rule[f]
  <2> HIDE DEF w, rule
  <2>1. HasSolution(Seq(Part), Seq(Part), rule)
    BY <1>1, <1>2, RecursionDefines
  <2>2. QED
    BY <2>1 DEF HasSolution
<1>4. f = [s \in Seq(Part) |-> SortStep(f, s)]
  BY <1>3
<1>5. QED
  BY <1>4 DEF Sorted, SortStep

\* Sorting keeps the elements, and sorts when the comparison is an order.
LEMMA SortedInOrder ==
  ASSUME NEW R
  PROVE  \A s \in Seq(Part) : /\ Sorted[s] \in Seq(Part)
                              /\ Members(Sorted[s]) = Members(s)
                              /\ Agrees(R) => Pairwise(Sorted[s], R)
<1> DEFINE w == [s \in Seq(Part) |-> Len(s)]
           OK(s) == /\ Sorted[s] \in Seq(Part)
                    /\ Members(Sorted[s]) = Members(s)
                    /\ Agrees(R) => Pairwise(Sorted[s], R)
           T == {s \in Seq(Part) : OK(s)}
<1>1. w \in [Seq(Part) -> Nat]
  OBVIOUS
<1>2. ASSUME NEW s \in Seq(Part), \A e \in Seq(Part) : w[e] < w[s] => e \in T
      PROVE  OK(s)
  <2>1. CASE Len(s) < 2
    <3>1. Sorted[s] = s
      BY <2>1, SortedIs DEF SortStep
    <3>2. Pairwise(s, R)
      BY <2>1 DEF Pairwise
    <3>3. QED
      BY <3>1, <3>2
  <2>2. CASE ~(Len(s) < 2)
    <3> DEFINE half == Len(s) \div 2
               a == SubSeq(s, 1, half)
               b == SubSeq(s, half + 1, Len(s))
    <3>1. Len(s) >= 2
      BY <2>2
    <3>2. /\ a \in Seq(Part) /\ Len(a) = half /\ b \in Seq(Part) /\ Len(b) = Len(s) - half
          /\ half \in 1 .. Len(s) - 1
      BY <3>1, Parts
    <3>3. Members(s) = Members(a) \cup Members(b)
      BY <3>1, PartsMembers
    <3>4. Sorted[s] = Merged[<<Sorted[a], Sorted[b]>>]
      BY <2>2, SortedIs DEF SortStep
    <3>5. OK(a) /\ OK(b)
      <4> HIDE DEF a, b, half, OK
      <4>1. Len(s) \in Nat
        OBVIOUS
      <4>2. w[a] = Len(a) /\ w[b] = Len(b) /\ w[s] = Len(s)
        BY <3>2
      <4>3. w[a] < w[s] /\ w[b] < w[s]
        BY <3>2, <4>1, <4>2
      <4>4. QED
        BY <1>2, <3>2, <4>3
    <3> HIDE DEF a, b, half
    <3>6. /\ Sorted[s] \in Seq(Part)
          /\ Members(Sorted[s]) = Members(Sorted[a]) \cup Members(Sorted[b])
      BY <3>4, <3>5, MergedMembers
    <3>7. Agrees(R) => Pairwise(Sorted[s], R)
      BY <3>4, <3>5, MergedInOrder
    <3>8. QED
      BY <3>3, <3>5, <3>6, <3>7
  <2>3. QED
    BY <2>1, <2>2
<1> HIDE DEF OK, w
<1>3. \A s \in Seq(Part) : s \in T <=> OK(s)
  OBVIOUS
<1> HIDE DEF T
<1>4. \A s \in Seq(Part) : (\A e \in Seq(Part) : w[e] < w[s] => e \in T) => s \in T
  BY <1>2, <1>3
<1>5. \A s \in Seq(Part) : s \in T
  <2> DEFINE D == Seq(Part)
  <2>1. w \in [D -> Nat]
    BY <1>1
  <2>2. \A s \in D : (\A e \in D : w[e] < w[s] => e \in T) => s \in T
    BY <1>4
  <2> HIDE DEF D
  <2>3. \A s \in D : s \in T
    BY <2>1, <2>2, MeasureInduction, Zenon
  <2>4. QED
    BY <2>3 DEF D
<1>6. QED
  BY <1>3, <1>5 DEF OK

\* Two partitions that are not the same.
Differ == {pq \in Part \X Part : pq[1] # pq[2]}

\* No partition is in s twice.
Distinct(s) == Pairwise(s, Differ)

\* The merge of two lists without a common element has none twice.
LEMMA MergedDistinct ==
  \A s, t \in Seq(Part) :
    Distinct(s) /\ Distinct(t) /\ Members(s) \cap Members(t) = {} => Distinct(Merged[<<s, t>>])
<1> DEFINE OK(s, t) == Distinct(s) /\ Distinct(t) /\ Members(s) \cap Members(t) = {}
                         => Distinct(Merged[<<s, t>>])
           T == {lists \in Lists : OK(lists[1], lists[2])}
<1>1. ASSUME NEW s \in Seq(Part), NEW t \in Seq(Part),
             s # << >> => <<Tail(s), t>> \in T,
             t # << >> => <<s, Tail(t)>> \in T
      PROVE  OK(s, t)
  <2> SUFFICES ASSUME Distinct(s), Distinct(t), Members(s) \cap Members(t) = {}
               PROVE  Distinct(Merged[<<s, t>>])
    OBVIOUS
  <2>1. CASE s = << >> \/ t = << >>
    BY <2>1, MergedStep
  <2>2. CASE s # << >> /\ t # << >>
    <3>1. /\ s[1] \in Part /\ Tail(s) \in Seq(Part) /\ s = <<s[1]>> \o Tail(s)
          /\ t[1] \in Part /\ Tail(t) \in Seq(Part) /\ t = <<t[1]>> \o Tail(t)
      BY <2>2, TailIsShorter, HeadAndTail
    <3>2. /\ Distinct(Tail(s)) /\ \A q \in Members(Tail(s)) : s[1] # q
          /\ Distinct(Tail(t)) /\ \A q \in Members(Tail(t)) : t[1] # q
      <4>1. /\ Pairwise(Tail(s), Differ) /\ \A q \in Members(Tail(s)) : <<s[1], q>> \in Differ
            /\ Pairwise(Tail(t), Differ) /\ \A q \in Members(Tail(t)) : <<t[1], q>> \in Differ
        BY <3>1, PairwisePrepended DEF Distinct
      <4>2. QED
        BY <4>1 DEF Distinct, Differ
    <3>3. /\ Members(s) = {s[1]} \cup Members(Tail(s)) /\ Members(s) \subseteq Part
          /\ Members(t) = {t[1]} \cup Members(Tail(t)) /\ Members(t) \subseteq Part
      BY <3>1, MembersPrepended, MembersArePart
    <3>4. CASE NotAfter(s[1], t[1])
      <4> DEFINE m == Merged[<<Tail(s), t>>]
      <4>1. Merged[<<s, t>>] = <<s[1]>> \o m
        BY <2>2, <3>4, MergedStep
      <4>2. m \in Seq(Part) /\ Members(m) = Members(Tail(s)) \cup Members(t)
        BY <3>1, MergedMembers
      <4>3. Distinct(m)
        BY <1>1, <2>2, <3>2, <3>3
      <4> HIDE DEF m
      <4>4. ASSUME NEW q \in Members(m) PROVE <<s[1], q>> \in Differ
        BY <3>1, <3>2, <3>3, <4>2 DEF Differ
      <4>5. QED
        BY <3>1, <4>1, <4>2, <4>3, <4>4, PairwisePrepended DEF Distinct
    <3>5. CASE ~NotAfter(s[1], t[1])
      <4> DEFINE m == Merged[<<s, Tail(t)>>]
      <4>1. Merged[<<s, t>>] = <<t[1]>> \o m
        BY <2>2, <3>5, MergedStep
      <4>2. m \in Seq(Part) /\ Members(m) = Members(s) \cup Members(Tail(t))
        BY <3>1, MergedMembers
      <4>3. Distinct(m)
        BY <1>1, <2>2, <3>2, <3>3
      <4> HIDE DEF m
      <4>4. ASSUME NEW q \in Members(m) PROVE <<t[1], q>> \in Differ
        BY <3>1, <3>2, <3>3, <4>2 DEF Differ
      <4>5. QED
        BY <3>1, <4>1, <4>2, <4>3, <4>4, PairwisePrepended DEF Distinct
    <3>6. QED
      BY <3>4, <3>5
  <2>3. QED
    BY <2>1, <2>2
<1> HIDE DEF OK
<1>2. \A s, t \in Seq(Part) : <<s, t>> \in T <=> OK(s, t)
  BY RemainingIs
<1> HIDE DEF T
<1>3. \A s, t \in Seq(Part) : <<s, t>> \in T
  BY <1>1, <1>2, MergeInduction
<1>4. QED
  BY <1>2, <1>3 DEF OK

\* Sorting puts no partition in a list twice, even when the comparison is no order.
LEMMA SortedDistinct ==
  \A s \in Seq(Part) : Distinct(s) => Distinct(Sorted[s])
<1> DEFINE D == Seq(Part)
           w == [s \in D |-> Len(s)]
           OK(s) == Distinct(s) => Distinct(Sorted[s])
           T == {s \in D : OK(s)}
<1>1. w \in [D -> Nat]
  OBVIOUS
<1>2. ASSUME NEW s \in Seq(Part), \A e \in Seq(Part) : w[e] < w[s] => e \in T
      PROVE  OK(s)
  <2>1. CASE Len(s) < 2
    <3>1. Sorted[s] = s
      BY <2>1, SortedIs DEF SortStep
    <3>2. QED
      BY <3>1
  <2>2. CASE ~(Len(s) < 2)
    <3> DEFINE half == Len(s) \div 2
               a == SubSeq(s, 1, half)
               b == SubSeq(s, half + 1, Len(s))
    <3> SUFFICES ASSUME Distinct(s) PROVE Distinct(Sorted[s])
      OBVIOUS
    <3>1. Len(s) >= 2
      BY <2>2
    <3>2. /\ a \in Seq(Part) /\ Len(a) = half /\ b \in Seq(Part) /\ Len(b) = Len(s) - half
          /\ half \in 1 .. Len(s) - 1
      BY <3>1, Parts
    <3>3. /\ Distinct(a) /\ Distinct(b)
          /\ \A p \in Members(a), q \in Members(b) : <<p, q>> \in Differ
      BY <3>1, PartsPairwise DEF Distinct
    <3>4. Sorted[s] = Merged[<<Sorted[a], Sorted[b]>>]
      BY <2>2, SortedIs DEF SortStep
    <3>5. OK(a) /\ OK(b)
      <4> HIDE DEF a, b, half, OK
      <4>1. Len(s) \in Nat
        OBVIOUS
      <4>2. w[a] = Len(a) /\ w[b] = Len(b) /\ w[s] = Len(s)
        BY <3>2
      <4>3. w[a] < w[s] /\ w[b] < w[s]
        BY <3>2, <4>1, <4>2
      <4>4. QED
        BY <1>2, <3>2, <4>3
    <3> HIDE DEF a, b, half
    <3>6. /\ Sorted[a] \in Seq(Part) /\ Members(Sorted[a]) = Members(a)
          /\ Sorted[b] \in Seq(Part) /\ Members(Sorted[b]) = Members(b)
      BY <3>2, SortedInOrder
    <3>7. Members(a) \cap Members(b) = {}
      BY <3>3 DEF Differ
    <3>8. QED
      BY <3>3, <3>4, <3>5, <3>6, <3>7, MergedDistinct
  <2>3. QED
    BY <2>1, <2>2
<1> HIDE DEF OK, w
<1>3. \A s \in D : s \in T <=> OK(s)
  OBVIOUS
<1> HIDE DEF T
<1>4. \A s \in D : (\A e \in D : w[e] < w[s] => e \in T) => s \in T
  BY <1>2, <1>3
<1> HIDE DEF D
<1>5. \A s \in D : s \in T
  BY <1>1, <1>4, MeasureInduction, Zenon
<1>6. QED
  BY <1>3, <1>5 DEF D, OK

-----------------------------------------------------------------------------
(* The list of all partitions and the plan of a run.                      *)

\* The devices and what is on them.
LEMMA DevicesAreListed ==
  /\ Len(Device) \in Nat
  /\ \A n \in 1 .. Len(Device) : PartsOn[Device[n]] \in Seq(Part)
<1>1. /\ Device \in Seq({Device[i] : i \in 1 .. Len(Device)})
      /\ PartsOn \in [{Device[i] : i \in 1 .. Len(Device)} -> Seq(Part)]
  BY PartDiskAssumptions DEF PartDiskAssumption
<1>2. Len(Device) \in Nat
  BY <1>1
<1>3. QED
  BY <1>1, <1>2

\* What has been joined after n devices.
LEMMA JoinedIs ==
  \E joined \in [0 .. Len(Device) -> Seq(Part)] :
    /\ AllPartitions = joined[Len(Device)]
    /\ joined = [n \in 0 .. Len(Device) |->
                   IF n = 0 THEN << >> ELSE joined[n-1] \o PartsOn[Device[n]]]
<1> DEFINE N == Len(Device)
           X == Seq(Part)
           next == [x \in X |-> [n \in 1 .. N |-> x \o PartsOn[Device[n]]]]
           joined[n \in 0 .. N] == IF n = 0 THEN << >> ELSE joined[n-1] \o PartsOn[Device[n]]
<1>1. N \in Nat /\ \A n \in 1 .. N : PartsOn[Device[n]] \in X
  BY DevicesAreListed
<1>2. << >> \in X
  OBVIOUS
<1>3. next \in [X -> [1 .. N -> X]]
  BY <1>1
<1>4. PICK g : g \in Loop(N, X, << >>, next)
  <2> HIDE DEF N, X, next
  <2>1. QED
    BY <1>1, <1>2, <1>3, LoopDefines
<1>5. g = [n \in 0 .. N |-> IF n = 0 THEN << >> ELSE g[n-1] \o PartsOn[Device[n]]]
  <2>1. ASSUME NEW n \in 0 .. N
        PROVE  g[n] = IF n = 0 THEN << >> ELSE g[n-1] \o PartsOn[Device[n]]
    <3>1. CASE n = 0
      BY <1>4, <3>1 DEF Loop
    <3>2. CASE n # 0
      <4>1. n - 1 \in 0 .. N /\ n \in 1 .. N
        BY <1>1, <3>2
      <4>2. g[n-1] \in X /\ g[n] = next[g[n-1]][n]
        BY <1>4, <4>1 DEF Loop
      <4>3. next[g[n-1]][n] = g[n-1] \o PartsOn[Device[n]]
        BY <4>1, <4>2
      <4>4. QED
        BY <3>2, <4>2, <4>3
    <3>3. QED
      BY <3>1, <3>2
  <2>2. g \in [0 .. N -> X]
    BY <1>4 DEF Loop
  <2> HIDE DEF N, X, next
  <2>3. QED
    BY <2>1, <2>2
<1>6. joined = [n \in 0 .. N |-> IF n = 0 THEN << >> ELSE joined[n-1] \o PartsOn[Device[n]]]
  BY <1>5
<1>7. AllPartitions = joined[N]
  BY DEF AllPartitions
<1>8. joined \in [0 .. N -> X]
  <2> HIDE DEF joined, X, N
  <2> DEFINE T == {n \in 0 .. N : joined[n] \in X}
  <2>1. 0 \in T
    BY <1>1, <1>2, <1>6
  <2>2. ASSUME NEW n \in 1 .. N, n - 1 \in T
        PROVE  n \in T
    <3>1. n \in 0 .. N /\ n # 0 /\ joined[n-1] \in X /\ PartsOn[Device[n]] \in X
      BY <1>1, <2>2
    <3>2. joined[n] = joined[n-1] \o PartsOn[Device[n]]
      BY <1>6, <3>1
    <3>3. joined[n] \in X
      BY <3>1, <3>2 DEF X
    <3>4. QED
      BY <3>1, <3>3
  <2> HIDE DEF T
  <2>3. \A n \in 0 .. N : n \in T
    BY <1>1, <2>1, <2>2, LoopInduction
  <2>4. QED
    BY <1>6, <2>3 DEF T
<1>9. QED
  BY <1>6, <1>7, <1>8

\* What has been joined after the last device is a list of partitions.
LEMMA AllPartitionsAreListed == AllPartitions \in Seq(Part)
<1>1. Len(Device) \in 0 .. Len(Device)
  BY DevicesAreListed
<1>2. QED
  BY <1>1, JoinedIs

\* Every partition is listed once, on one device.
LEMMA ListedOnce ==
  /\ \A p \in Part : \E i \in 1 .. Len(Device) : p \in Members(PartsOn[Device[i]])
  /\ \A i, j \in 1 .. Len(Device) :
       i # j => Members(PartsOn[Device[i]]) \cap Members(PartsOn[Device[j]]) = {}
  /\ \A i \in 1 .. Len(Device) : Distinct(PartsOn[Device[i]])
<1> DEFINE On(i) == PartsOn[Device[i]]
<1>1. \A i \in 1 .. Len(Device) : On(i) \in Seq(Part)
  BY DevicesAreListed
<1>2. \A p \in Part :
        \E i \in 1 .. Len(Device) : \E m \in 1 .. Len(On(i)) :
          \A j \in 1 .. Len(Device) : \A n \in 1 .. Len(On(j)) :
            On(j)[n] = p <=> j = i /\ n = m
  BY PartDiskAssumptions DEF ListedAssumption
<1> HIDE DEF On
<1>3. ASSUME NEW p \in Part
      PROVE  \E i \in 1 .. Len(Device) : p \in Members(On(i))
  <2>1. PICK i \in 1 .. Len(Device), m \in Nat :
          m \in 1 .. Len(On(i)) /\ On(i)[m] = p
    BY <1>1, <1>2
  <2>2. QED
    BY <2>1 DEF Members
<1>4. ASSUME NEW i \in 1 .. Len(Device), NEW j \in 1 .. Len(Device),
             NEW m \in 1 .. Len(On(i)), NEW n \in 1 .. Len(On(j)), On(i)[m] = On(j)[n]
      PROVE  i = j /\ m = n
  <2>1. On(i)[m] \in Part
    BY <1>1
  <2>2. QED
    BY <1>2, <1>4, <2>1
<1>5. ASSUME NEW i \in 1 .. Len(Device), NEW j \in 1 .. Len(Device), i # j
      PROVE  Members(On(i)) \cap Members(On(j)) = {}
  BY <1>4, <1>5 DEF Members
<1>6. ASSUME NEW i \in 1 .. Len(Device)
      PROVE  Distinct(On(i))
  <2>1. \A m, n \in 1 .. Len(On(i)) : m < n => On(i)[m] # On(i)[n]
    BY <1>4
  <2>2. \A m \in 1 .. Len(On(i)) : On(i)[m] \in Part
    BY <1>1
  <2>3. QED
    BY <2>1, <2>2 DEF Distinct, Pairwise, Differ
<1>7. QED
  BY <1>3, <1>5, <1>6 DEF On

\* The lists of all devices together have every partition, once.
LEMMA AllPartitionsOnce ==
  Members(AllPartitions) = Part /\ Distinct(AllPartitions)
<1> DEFINE N == Len(Device)
           On(i) == PartsOn[Device[i]]
<1>1. PICK joined \in [0 .. N -> Seq(Part)] :
        /\ AllPartitions = joined[N]
        /\ joined = [n \in 0 .. N |-> IF n = 0 THEN << >> ELSE joined[n-1] \o On(n)]
  BY JoinedIs
<1>2. N \in Nat /\ \A n \in 1 .. N : On(n) \in Seq(Part)
  BY DevicesAreListed
<1>3. /\ \A p \in Part : \E i \in 1 .. N : p \in Members(On(i))
      /\ \A i, j \in 1 .. N : i # j => Members(On(i)) \cap Members(On(j)) = {}
      /\ \A i \in 1 .. N : Distinct(On(i))
  BY ListedOnce
<1> DEFINE OK(n) == /\ Distinct(joined[n])
                    /\ \A p \in Part : p \in Members(joined[n])
                                         <=> \E i \in 1 .. n : p \in Members(On(i))
           T == {n \in 0 .. N : OK(n)}
<1> HIDE DEF N, On
<1>4. 0 \in T
  <2>1. joined[0] = << >>
    BY <1>1, <1>2
  <2>2. Members(joined[0]) = {} /\ Distinct(joined[0])
    BY <2>1 DEF Members, Distinct, Pairwise
  <2>3. QED
    BY <1>2, <2>2
<1>5. ASSUME NEW n \in 1 .. N, n - 1 \in T
      PROVE  n \in T
  <2>1. n \in 0 .. N /\ n - 1 \in 0 .. N /\ n # 0 /\ n - 1 \in Nat
    BY <1>2
  <2>2. joined[n-1] \in Seq(Part) /\ On(n) \in Seq(Part) /\ joined[n] = joined[n-1] \o On(n)
    BY <1>1, <1>2, <2>1
  <2>3. OK(n - 1)
    BY <1>5
  <2>4. Members(joined[n]) = Members(joined[n-1]) \cup Members(On(n))
    BY <2>2, MembersJoined
  <2>5. \A i \in 1 .. n - 1 : i \in 1 .. N /\ i # n
    BY <1>2, <2>1
  <2>6. ASSUME NEW p \in Members(joined[n-1]), NEW q \in Members(On(n))
        PROVE  <<p, q>> \in Differ
    <3>1. p \in Part /\ q \in Part
      BY <2>2, MembersArePart
    <3>2. PICK i \in 1 .. n - 1 : p \in Members(On(i))
      BY <2>3, <3>1
    <3>3. p # q
      BY <1>3, <2>5, <3>2
    <3>4. QED
      BY <3>1, <3>3 DEF Differ
  <2>7. Distinct(joined[n])
    BY <1>3, <2>2, <2>3, <2>6, PairwiseJoined DEF Distinct
  <2>8. \A p \in Part : p \in Members(joined[n]) <=> \E i \in 1 .. n : p \in Members(On(i))
    <3>1. \A i : i \in 1 .. n <=> i \in 1 .. n - 1 \/ i = n
      BY <2>1
    <3> HIDE DEF OK
    <3>2. \A p \in Part : p \in Members(joined[n-1])
                            <=> \E i \in 1 .. n - 1 : p \in Members(On(i))
      BY <2>3 DEF OK
    <3>3. QED
      BY <2>4, <3>1, <3>2, Zenon
  <2>9. QED
    BY <2>1, <2>7, <2>8
<1> HIDE DEF T
<1>6. \A n \in 0 .. N : n \in T
  BY <1>2, <1>4, <1>5, LoopInduction
<1>7. N \in 0 .. N
  BY <1>2
<1>8. OK(N) /\ joined[N] \in Seq(Part)
  BY <1>1, <1>6, <1>7 DEF T
<1>9. Members(joined[N]) = Part
  BY <1>3, <1>8, MembersArePart
<1>10. QED
  BY <1>1, <1>8, <1>9

\* Sorted, they are a list still.
LEMMA GlobalListIsList == GlobalList \in Seq(Part)
  BY AllPartitionsAreListed, SortedInOrder DEF GlobalList

\* What has been chosen after n partitions.
LEMMA PlanIs ==
  ASSUME NEW list \in Seq(Part)
  PROVE  \E chosen \in [0 .. Len(list) -> Seq(Part)] :
           /\ Plan(list) = chosen[Len(list)]
           /\ chosen[0] = << >>
           /\ \A n \in 1 .. Len(list) :
                chosen[n] = IF mount[list[n]] = NoMount THEN chosen[n-1]
                            ELSE Append(chosen[n-1], list[n])
<1> DEFINE N == Len(list)
           X == Seq(Part)
           round(x, n) == IF mount[list[n]] = NoMount THEN x ELSE Append(x, list[n])
           next == [x \in X |-> [n \in 1 .. N |-> round(x, n)]]
           chosen[n \in 0 .. N] == IF n = 0 THEN << >>
                                   ELSE IF mount[list[n]] = NoMount THEN chosen[n-1]
                                   ELSE Append(chosen[n-1], list[n])
<1>1. N \in Nat /\ \A n \in 1 .. N : list[n] \in Part
  OBVIOUS
<1>2. << >> \in X
  OBVIOUS
<1>3. \A x \in X, n \in 1 .. N : round(x, n) \in X
  BY <1>1
<1>4. PICK g : g \in Loop(N, X, << >>, next)
  <2>1. next \in [X -> [1 .. N -> X]]
    BY <1>3
  <2> HIDE DEF N, X, next
  <2>2. QED
    BY <1>1, <1>2, <2>1, LoopDefines
<1>5. g = [n \in 0 .. N |-> IF n = 0 THEN << >> ELSE round(g[n-1], n)]
  <2>1. g \in [0 .. N -> X] /\ g[0] = << >> /\ \A n \in 1 .. N : g[n] = next[g[n-1]][n]
    BY <1>4 DEF Loop
  <2>2. ASSUME NEW n \in 0 .. N, n # 0
        PROVE  g[n] = round(g[n-1], n)
    <3>1. n \in 1 .. N /\ n - 1 \in 0 .. N
      BY <1>1, <2>2
    <3>2. g[n-1] \in X
      BY <2>1, <3>1
    <3> HIDE DEF round
    <3>3. next[g[n-1]][n] = round(g[n-1], n)
      BY <3>1, <3>2
    <3>4. QED
      BY <2>1, <3>1, <3>3
  <2> HIDE DEF N, X, next, round
  <2>3. QED
    BY <2>1, <2>2
<1>6. chosen = [n \in 0 .. N |-> IF n = 0 THEN << >> ELSE round(chosen[n-1], n)]
  BY <1>5
<1>7. Plan(list) = chosen[N]
  BY DEF Plan
<1> HIDE DEF chosen
<1>8. chosen[0] = << >> /\ \A n \in 1 .. N : chosen[n] = round(chosen[n-1], n)
  <2> HIDE DEF round
  <2>1. QED
    BY <1>1, <1>6
<1>9. chosen \in [0 .. N -> X]
  <2> DEFINE T == {n \in 0 .. N : chosen[n] \in X}
  <2> HIDE DEF X, N, round
  <2>1. 0 \in T
    BY <1>1, <1>2, <1>8
  <2>2. ASSUME NEW n \in 1 .. N, n - 1 \in T
        PROVE  n \in T
    <3>1. n \in 0 .. N /\ chosen[n-1] \in X
      BY <1>1, <2>2
    <3>2. chosen[n] \in X
      BY <1>3, <1>8, <3>1
    <3>3. QED
      BY <3>1, <3>2
  <2> HIDE DEF T
  <2>3. \A n \in 0 .. N : n \in T
    BY <1>1, <2>1, <2>2, LoopInduction
  <2>4. QED
    BY <1>6, <2>3 DEF T
<1>10. QED
  BY <1>7, <1>8, <1>9

\* The plan has the partitions of the list with a mount field.
LEMMA PlanMembers ==
  ASSUME NEW list \in Seq(Part)
  PROVE  /\ Plan(list) \in Seq(Part)
         /\ Members(Plan(list)) = {p \in Members(list) : mount[p] # NoMount}
<1>1. PICK chosen \in [0 .. Len(list) -> Seq(Part)] :
           /\ Plan(list) = chosen[Len(list)]
           /\ chosen[0] = << >>
           /\ \A n \in 1 .. Len(list) :
                chosen[n] = IF mount[list[n]] = NoMount THEN chosen[n-1]
                            ELSE Append(chosen[n-1], list[n])
  BY PlanIs
<1>2. Len(list) \in Nat
  OBVIOUS
<1> DEFINE Upto(n) == {list[i] : i \in {k \in 1 .. n : mount[list[k]] # NoMount}}
           T == {n \in 0 .. Len(list) : Members(chosen[n]) = Upto(n)}
<1>3. 0 \in T
  BY <1>1, <1>2 DEF Members
<1>4. ASSUME NEW n \in 1 .. Len(list), n - 1 \in T
      PROVE  n \in T
  <2>1. n \in 0 .. Len(list) /\ n - 1 \in 0 .. Len(list) /\ list[n] \in Part
    OBVIOUS
  <2>2. chosen[n-1] \in Seq(Part) /\ Members(chosen[n-1]) = Upto(n - 1)
    BY <1>1, <1>4, <2>1
  <2>3. Upto(n) = IF mount[list[n]] = NoMount THEN Upto(n - 1) ELSE Upto(n - 1) \cup {list[n]}
    <3>1. 1 .. n = (1 .. n - 1) \cup {n}
      BY <2>1
    <3>2. QED
      BY <3>1
  <2> HIDE DEF Upto
  <2>4. Members(Append(chosen[n-1], list[n])) = Members(chosen[n-1]) \cup {list[n]}
    BY <2>1, <2>2, MembersAppended
  <2>5. Members(chosen[n]) = Upto(n)
    BY <1>1, <2>2, <2>3, <2>4
  <2>6. QED
    BY <2>1, <2>5
<1> HIDE DEF T
<1>5. \A n \in 0 .. Len(list) : n \in T
  BY <1>2, <1>3, <1>4, LoopInduction
<1>6. Len(list) \in 0 .. Len(list)
  BY <1>2
<1>7. Members(Plan(list)) = Upto(Len(list))
  BY <1>1, <1>5, <1>6 DEF T
<1>8. Upto(Len(list)) = {p \in Members(list) : mount[p] # NoMount}
  BY DEF Members
<1>9. QED
  BY <1>1, <1>6, <1>7, <1>8

\* The order of the list is the order of the plan.
LEMMA PlanInOrder ==
  ASSUME NEW list \in Seq(Part), NEW R, Pairwise(list, R)
  PROVE  Pairwise(Plan(list), R)
<1>1. PICK chosen \in [0 .. Len(list) -> Seq(Part)] :
           /\ Plan(list) = chosen[Len(list)]
           /\ chosen[0] = << >>
           /\ \A n \in 1 .. Len(list) :
                chosen[n] = IF mount[list[n]] = NoMount THEN chosen[n-1]
                            ELSE Append(chosen[n-1], list[n])
  BY PlanIs
<1>2. Len(list) \in Nat
  OBVIOUS
<1> DEFINE OK(n) == /\ Pairwise(chosen[n], R)
                    /\ \A p \in Members(chosen[n]) : \E i \in 1 .. n : p = list[i]
           T == {n \in 0 .. Len(list) : OK(n)}
<1>3. 0 \in T
  <2>1. Members(chosen[0]) = {} /\ Pairwise(chosen[0], R)
    BY <1>1 DEF Members, Pairwise
  <2>2. QED
    BY <1>2, <2>1
<1>4. ASSUME NEW n \in 1 .. Len(list), n - 1 \in T
      PROVE  n \in T
  <2>1. n \in 0 .. Len(list) /\ n - 1 \in 0 .. Len(list) /\ list[n] \in Part
    OBVIOUS
  <2>2. chosen[n-1] \in Seq(Part) /\ OK(n-1)
    BY <1>1, <1>4, <2>1
  <2>3. ASSUME NEW p \in Members(chosen[n-1])
        PROVE  <<p, list[n]>> \in R /\ \E i \in 1 .. n : p = list[i]
    <3>1. PICK i \in 1 .. n - 1 : p = list[i]
      BY <2>2
    <3>2. i \in 1 .. Len(list) /\ i < n /\ i \in 1 .. n
      BY <2>1, <3>1
    <3>3. QED
      BY <3>1, <3>2 DEF Pairwise
  <2>4. /\ Members(Append(chosen[n-1], list[n])) = Members(chosen[n-1]) \cup {list[n]}
        /\ Pairwise(Append(chosen[n-1], list[n]), R)
    BY <2>1, <2>2, <2>3, MembersAppended, PairwiseAppended
  <2>5. CASE mount[list[n]] = NoMount
    <3>1. chosen[n] = chosen[n-1]
      BY <1>1, <2>5
    <3>2. QED
      BY <2>1, <2>2, <2>3, <3>1
  <2>6. CASE mount[list[n]] # NoMount
    <3>1. chosen[n] = Append(chosen[n-1], list[n])
      BY <1>1, <2>6
    <3>2. n \in 1 .. n
      BY <2>1
    <3>3. OK(n)
      BY <2>3, <2>4, <3>1, <3>2
    <3>4. QED
      BY <2>1, <3>3
  <2>7. QED
    BY <2>5, <2>6
<1> HIDE DEF T
<1>5. \A n \in 0 .. Len(list) : n \in T
  BY <1>2, <1>3, <1>4, LoopInduction
<1>6. Len(list) \in 0 .. Len(list)
  BY <1>2
<1>7. QED
  BY <1>1, <1>5, <1>6 DEF T

\* The comparison is an order when no mount field is NULL.
ShorterOrEqual == {pq \in Part \X Part : MountLength(mount[pq[1]]) <= MountLength(mount[pq[2]])}

\* The lengths the comparison compares.
LEMMA LengthsAreNumbers ==
  ASSUME NEW m \in Mount \ {NoMount}
  PROVE  MountLength(m) \in Nat
<1>1. Length \in [Dir -> Nat] /\ {"/", "swap", ""} \cap Dir = {}
  BY PartDiskAssumptions DEF PartDiskAssumption
<1>2. m \in Dir \/ m = "" \/ m = "/" \/ m = "swap"
  BY DEF Mount, Text
<1>3. CASE m \in Dir
  <2>1. m # "" /\ m # "/" /\ m # "swap" /\ Length[m] \in Nat
    BY <1>1, <1>3
  <2>2. MountLength(m) = Length[m]
    BY <1>3, <2>1 DEF MountLength
  <2>3. QED
    BY <2>1, <2>2
<1>4. CASE m \in {"", "/", "swap"}
  BY <1>1, <1>4 DEF MountLength
<1>5. QED
  BY <1>2, <1>3, <1>4

\* Then any two partitions are in order, and the order is transitive.
LEMMA OrderWhenAllMounted ==
  ASSUME mount \in [Part -> Mount], \A p \in Part : mount[p] # NoMount
  PROVE  Agrees(ShorterOrEqual)
<1> DEFINE L(p) == MountLength(mount[p])
<1>1. \A p \in Part : L(p) \in Nat
  BY LengthsAreNumbers
<1>2. \A p, q \in Part : NotAfter(p, q) <=> L(p) <= L(q)
  BY DEF NotAfter
<1>3. \A p, q \in Part : <<p, q>> \in ShorterOrEqual <=> L(p) <= L(q)
  BY DEF ShorterOrEqual
<1> HIDE DEF L
<1>4. \A p, q \in Part : IF NotAfter(p, q) THEN <<p, q>> \in ShorterOrEqual
                                           ELSE <<q, p>> \in ShorterOrEqual
  <2>1. ASSUME NEW p \in Part, NEW q \in Part
        PROVE  L(p) <= L(q) \/ L(q) <= L(p)
    BY <1>1
  <2>2. QED
    BY <1>2, <1>3, <2>1
<1>5. \A p, q, r \in Part : <<p, q>> \in ShorterOrEqual /\ <<q, r>> \in ShorterOrEqual
                              => <<p, r>> \in ShorterOrEqual
  BY <1>1, <1>3
<1>6. QED
  BY <1>4, <1>5 DEF Agrees

\* A directory has a shorter name than those below it.
LEMMA AboveIsShorter ==
  ASSUME NEW d \in Mount \ {NoMount}, NEW e \in Mount \ {NoMount}, IsAbove(d, e)
  PROVE  MountLength(d) < MountLength(e)
<1>1. /\ Length \in [Dir -> Nat] /\ {"/", "swap", ""} \cap Dir = {} /\ Above \subseteq Dir \X Dir
      /\ \A c \in Dir : Length[c] > 1
      /\ \A q \in Above : Length[q[1]] < Length[q[2]]
  BY PartDiskAssumptions DEF PartDiskAssumption, LengthAssumption
<1>2. ASSUME NEW c \in Dir
      PROVE  MountLength(c) = Length[c]
  BY <1>1 DEF MountLength
<1>3. CASE d = "/" /\ e \in Dir
  <2>1. MountLength("/") = 1
    BY <1>1 DEF MountLength
  <2>2. MountLength(e) = Length[e] /\ Length[e] > 1
    BY <1>1, <1>2, <1>3
  <2>3. QED
    BY <1>3, <2>1, <2>2
<1>4. CASE <<d, e>> \in Above
  <2>1. d \in Dir /\ e \in Dir /\ Length[d] < Length[e]
    BY <1>1, <1>4
  <2>2. QED
    BY <1>2, <2>1
<1>5. QED
  BY <1>3, <1>4 DEF IsAbove

\* Shorter names first is the root before what is below it.
LEMMA SortsWhenAllMounted ==
  ASSUME mount \in [Part -> Mount]
  PROVE  SortedWhenAllMounted
<1> SUFFICES ASSUME \A p \in Part : mount[p] # NoMount,
                    NEW i \in 1 .. Len(GlobalList), NEW j \in 1 .. Len(GlobalList), i < j
             PROVE  ~IsAbove(mount[GlobalList[j]], mount[GlobalList[i]])
  BY DEF SortedWhenAllMounted, RootToLeaf
<1> DEFINE p == GlobalList[i]
           q == GlobalList[j]
<1>1. p \in Part /\ q \in Part
  BY GlobalListIsList
<1>2. Pairwise(GlobalList, ShorterOrEqual)
  BY OrderWhenAllMounted, AllPartitionsAreListed, SortedInOrder DEF GlobalList
<1>3. <<p, q>> \in ShorterOrEqual
  BY <1>2 DEF Pairwise
<1> HIDE DEF p, q
<1>4. MountLength(mount[p]) <= MountLength(mount[q])
  BY <1>1, <1>3 DEF ShorterOrEqual
<1>5. mount[p] \in Mount \ {NoMount} /\ mount[q] \in Mount \ {NoMount}
  BY <1>1
<1>6. MountLength(mount[p]) \in Nat /\ MountLength(mount[q]) \in Nat
  BY <1>5, LengthsAreNumbers
<1>7. ~IsAbove(mount[q], mount[p])
  BY <1>4, <1>5, <1>6, AboveIsShorter
<1>8. QED
  BY <1>7 DEF p, q

-----------------------------------------------------------------------------
(* The mounts.                                                             *)

\* A mount under TARGETDIR.
Mounting == [part : Part, dir : Placed]

\* A mount on top is seen, and hides only what it covers.
LEMMA VisibleAppended ==
  ASSUME NEW ms \in Seq(Mounting), NEW p \in Part, NEW d \in Placed, NEW ns,
         ns = Append(ms, [part |-> p, dir |-> d])
  PROVE  /\ Visible(ns, p, d)
         /\ \A q \in Part, e \in Placed : Visible(ms, q, e) /\ ~Covers(d, e) => Visible(ns, q, e)
<1>1. /\ Len(ms) \in Nat /\ Len(ns) = Len(ms) + 1
      /\ ns[Len(ms) + 1] = [part |-> p, dir |-> d]
  OBVIOUS
<1>2. \A i \in 1 .. Len(ms) : ns[i] = ms[i]
  OBVIOUS
<1>3. Visible(ns, p, d)
  <2>1. ~Hidden(ns, Len(ms) + 1)
    BY <1>1 DEF Hidden
  <2>2. Len(ms) + 1 \in 1 .. Len(ns)
    BY <1>1
  <2>3. QED
    BY <1>1, <2>1, <2>2 DEF Visible
<1>4. ASSUME NEW q \in Part, NEW e \in Placed, Visible(ms, q, e), ~Covers(d, e)
      PROVE  Visible(ns, q, e)
  <2>1. PICK i \in 1 .. Len(ms) : ms[i] = [part |-> q, dir |-> e] /\ ~Hidden(ms, i)
    BY <1>4 DEF Visible
  <2>2. i \in 1 .. Len(ns) /\ ns[i] = [part |-> q, dir |-> e] /\ ns[i].dir = e
    BY <1>1, <1>2, <2>1
  <2>3. ASSUME NEW j \in i + 1 .. Len(ns)
        PROVE  ~Covers(ns[j].dir, e)
    <3>1. CASE j = Len(ms) + 1
      BY <1>1, <1>4, <3>1
    <3>2. CASE j # Len(ms) + 1
      <4>1. j \in i + 1 .. Len(ms) /\ j \in 1 .. Len(ms)
        BY <1>1, <3>2
      <4>2. ~Covers(ms[j].dir, ms[i].dir) /\ ms[i].dir = e /\ ns[j] = ms[j]
        BY <1>2, <2>1, <4>1 DEF Hidden
      <4>3. QED
        BY <4>2
    <3>3. QED
      BY <3>1, <3>2
  <2>4. ~Hidden(ns, i)
    BY <2>2, <2>3 DEF Hidden
  <2>5. QED
    BY <2>2, <2>4 DEF Visible
<1>5. QED
  BY <1>3, <1>4

\* A mount makes its place seen, and hides only what its place covers.
LEMMA WithMountIs ==
  ASSUME NEW ms \in Seq(Mounting), NEW p \in Part, NEW d \in Placed
  PROVE  /\ WithMount(ms, p, d) \in Seq(Mounting)
         /\ Visible(WithMount(ms, p, d), p, d)
         /\ \A q \in Part, e \in Placed :
              Visible(ms, q, e) /\ ((q = p /\ e = d) \/ ~Covers(d, e))
                => Visible(WithMount(ms, p, d), q, e)
<1>1. CASE Visible(ms, p, d)
  <2>1. WithMount(ms, p, d) = ms
    BY <1>1 DEF WithMount
  <2>2. QED
    BY <1>1, <2>1
<1>2. CASE ~Visible(ms, p, d)
  <2>1. WithMount(ms, p, d) = Append(ms, [part |-> p, dir |-> d])
    BY <1>2 DEF WithMount
  <2>2. [part |-> p, dir |-> d] \in Mounting
    BY DEF Mounting
  <2>3. Append(ms, [part |-> p, dir |-> d]) \in Seq(Mounting)
    BY <2>2
  <2>4. QED
    BY <1>2, <2>1, <2>3, VisibleAppended
<1>3. QED
  BY <1>1, <1>2

\* The place of a partition that is mounted.
LEMMA PlaceIsPlaced ==
  ASSUME mount \in [Part -> Mount], NEW p \in Part, mount[p] # NoMount, ~IsSwap(p)
  PROVE  At(mount[p]) \in Placed
  BY DEF IsSwap, At, Mount, Text, Placed

\* What is mounted after n partitions of the plan.
LEMMA MountedByIs ==
  ASSUME mount \in [Part -> Mount], mounted \in Seq(Mounting), NEW bad,
         NEW plan \in Seq(Part), \A n \in 1 .. Len(plan) : mount[plan[n]] # NoMount
  PROVE  \E after \in [0 .. Len(plan) -> Seq(Mounting)] :
           /\ MountedBy(plan, bad) = after[Len(plan)]
           /\ \A n \in 1 .. Len(plan) :
                after[n] = IF IsSwap(plan[n]) \/ plan[n] \in bad THEN after[n-1]
                           ELSE WithMount(after[n-1], plan[n], At(mount[plan[n]]))
<1> DEFINE N == Len(plan)
           X == Seq(Mounting)
           round(x, n) == IF IsSwap(plan[n]) \/ plan[n] \in bad THEN x
                          ELSE WithMount(x, plan[n], At(mount[plan[n]]))
           next == [x \in X |-> [n \in 1 .. N |-> round(x, n)]]
           after[n \in 0 .. N] == IF n = 0 THEN mounted
                                  ELSE IF IsSwap(plan[n]) \/ plan[n] \in bad THEN after[n-1]
                                  ELSE WithMount(after[n-1], plan[n], At(mount[plan[n]]))
<1>1. N \in Nat /\ \A n \in 1 .. N : plan[n] \in Part
  OBVIOUS
<1>2. mounted \in X
  OBVIOUS
<1>3. \A x \in X, n \in 1 .. N : round(x, n) \in X
  BY <1>1, PlaceIsPlaced, WithMountIs
<1>4. PICK g : g \in Loop(N, X, mounted, next)
  <2>1. next \in [X -> [1 .. N -> X]]
    BY <1>3
  <2> HIDE DEF N, X, next
  <2>2. QED
    BY <1>1, <1>2, <2>1, LoopDefines
<1>5. g = [n \in 0 .. N |-> IF n = 0 THEN mounted ELSE round(g[n-1], n)]
  <2>1. g \in [0 .. N -> X] /\ g[0] = mounted /\ \A n \in 1 .. N : g[n] = next[g[n-1]][n]
    BY <1>4 DEF Loop
  <2>2. ASSUME NEW n \in 0 .. N, n # 0
        PROVE  g[n] = round(g[n-1], n)
    <3>1. n \in 1 .. N /\ n - 1 \in 0 .. N
      BY <1>1, <2>2
    <3>2. g[n-1] \in X
      BY <2>1, <3>1
    <3> HIDE DEF round
    <3>3. next[g[n-1]][n] = round(g[n-1], n)
      BY <3>1, <3>2
    <3>4. QED
      BY <2>1, <3>1, <3>3
  <2> HIDE DEF N, X, next, round
  <2>3. QED
    BY <2>1, <2>2
<1>6. after = [n \in 0 .. N |-> IF n = 0 THEN mounted ELSE round(after[n-1], n)]
  BY <1>5
<1>7. MountedBy(plan, bad) = after[N]
  BY DEF MountedBy
<1> HIDE DEF after
<1>8. after[0] = mounted /\ \A n \in 1 .. N : after[n] = round(after[n-1], n)
  <2> HIDE DEF N, round
  <2>1. 0 \in 0 .. N /\ \A n \in 1 .. N : n \in 0 .. N /\ n # 0
    BY <1>1
  <2>2. QED
    BY <1>6, <2>1
<1>9. after \in [0 .. N -> X]
  <2> DEFINE T == {n \in 0 .. N : after[n] \in X}
  <2> HIDE DEF X, N, round
  <2>1. 0 \in T
    BY <1>1, <1>2, <1>8
  <2>2. ASSUME NEW n \in 1 .. N, n - 1 \in T
        PROVE  n \in T
    <3>1. n \in 0 .. N /\ after[n-1] \in X
      BY <1>1, <2>2
    <3>2. after[n] \in X
      BY <1>3, <1>8, <3>1
    <3>3. QED
      BY <3>1, <3>2
  <2> HIDE DEF T
  <2>3. \A n \in 0 .. N : n \in T
    BY <1>1, <2>1, <2>2, LoopInduction
  <2>4. QED
    BY <1>6, <2>3 DEF T
<1>10. QED
  BY <1>7, <1>8, <1>9

\* The partitions of the plan that are mounted, and where.
Made(plan, bad) == {n \in 1 .. Len(plan) : ~IsSwap(plan[n]) /\ plan[n] \notin bad}

\* A partition that was mounted is seen at the end, when no later one of the
\* plan goes to a place that covers its own.
LEMMA MountedStays ==
  ASSUME mount \in [Part -> Mount], mounted \in Seq(Mounting), NEW bad,
         NEW plan \in Seq(Part), \A n \in 1 .. Len(plan) : mount[plan[n]] # NoMount,
         NEW k \in Made(plan, bad),
         \A j \in Made(plan, bad) :
           j > k => \/ plan[j] = plan[k]
                    \/ ~Covers(At(mount[plan[j]]), At(mount[plan[k]]))
  PROVE  Visible(MountedBy(plan, bad), plan[k], At(mount[plan[k]]))
<1>1. PICK after \in [0 .. Len(plan) -> Seq(Mounting)] :
           /\ MountedBy(plan, bad) = after[Len(plan)]
           /\ \A n \in 1 .. Len(plan) :
                after[n] = IF IsSwap(plan[n]) \/ plan[n] \in bad THEN after[n-1]
                           ELSE WithMount(after[n-1], plan[n], At(mount[plan[n]]))
  BY MountedByIs
<1> DEFINE p == plan[k]
           d == At(mount[plan[k]])
           T == {n \in 0 .. Len(plan) : n >= k => Visible(after[n], p, d)}
<1>2. Len(plan) \in Nat /\ k \in 1 .. Len(plan) /\ p \in Part
  BY DEF Made
<1>3. \A n \in Made(plan, bad) : At(mount[plan[n]]) \in Placed
  BY PlaceIsPlaced DEF Made
<1>4. 0 \in T
  BY <1>2
<1>5. ASSUME NEW n \in 1 .. Len(plan), n - 1 \in T
      PROVE  n \in T
  <2>1. n \in 0 .. Len(plan) /\ n - 1 \in 0 .. Len(plan) /\ plan[n] \in Part
    BY <1>2
  <2>2. after[n-1] \in Seq(Mounting)
    BY <1>1, <2>1
  <2>3. CASE n < k
    BY <1>2, <2>1, <2>3
  <2>4. CASE n = k
    <3>1. after[n] = WithMount(after[n-1], p, d)
      BY <1>1, <2>4 DEF Made
    <3> HIDE DEF p, d
    <3>2. d \in Placed
      BY <1>3 DEF d
    <3>3. Visible(after[n], p, d)
      BY <1>2, <2>2, <3>1, <3>2, WithMountIs
    <3>4. QED
      BY <2>1, <3>3
  <2>5. CASE n > k
    <3>1. Visible(after[n-1], p, d)
      BY <1>2, <1>5, <2>1, <2>5
    <3>2. CASE n \in Made(plan, bad)
      <4> DEFINE q == plan[n]
                 e == At(mount[plan[n]])
      <4>1. after[n] = WithMount(after[n-1], q, e)
        BY <1>1, <3>2 DEF Made
      <4>2. (p = q /\ d = e) \/ ~Covers(e, d)
        BY <2>5, <3>2
      <4>3. d \in Placed /\ e \in Placed /\ q \in Part
        BY <1>3, <2>1, <3>2
      <4> HIDE DEF p, d, q, e
      <4>4. Visible(after[n], p, d)
        BY <1>2, <2>2, <3>1, <4>1, <4>2, <4>3, WithMountIs
      <4>5. QED
        BY <2>1, <4>4
    <3>3. CASE n \notin Made(plan, bad)
      <4>1. after[n] = after[n-1]
        BY <1>1, <3>3 DEF Made
      <4>2. QED
        BY <2>1, <3>1, <4>1
    <3>4. QED
      BY <3>2, <3>3
  <2>6. QED
    BY <1>2, <2>1, <2>3, <2>4, <2>5
<1> HIDE DEF T
<1>6. \A n \in 0 .. Len(plan) : n \in T
  BY <1>2, <1>4, <1>5, LoopInduction
<1>7. Len(plan) \in 0 .. Len(plan) /\ Len(plan) >= k
  BY <1>2
<1>8. QED
  BY <1>1, <1>6, <1>7 DEF T

\* The plan of a run.
LEMMA PlanOfRun ==
  LET plan == Plan(GlobalList)
  IN /\ plan \in Seq(Part)
     /\ \A n \in 1 .. Len(plan) : plan[n] \in Part /\ mount[plan[n]] # NoMount
<1> DEFINE plan == Plan(GlobalList)
<1>1. plan \in Seq(Part) /\ Members(plan) = {p \in Members(GlobalList) : mount[p] # NoMount}
  BY GlobalListIsList, PlanMembers
<1> HIDE DEF plan
<1>2. \A n \in 1 .. Len(plan) : plan[n] \in Part /\ mount[plan[n]] # NoMount
  BY <1>1 DEF Members
<1>3. QED
  BY <1>1, <1>2 DEF plan

-----------------------------------------------------------------------------
(* What a run leaves behind.                                               *)

\* What a run mounts is known partitions at places, whatever fails.
LEMMA RunKeepsMounted ==
  ASSUME TypeOK, NEW bad, NEW plan \in Seq(Part),
         \A n \in 1 .. Len(plan) : mount[plan[n]] # NoMount
  PROVE  MountedBy(plan, bad) \in Seq(Mounting)
<1>1. mount \in [Part -> Mount] /\ mounted \in Seq(Mounting)
  BY DEF TypeOK, Mounting
<1>2. PICK after \in [0 .. Len(plan) -> Seq(Mounting)] : MountedBy(plan, bad) = after[Len(plan)]
  BY <1>1, MountedByIs
<1>3. Len(plan) \in 0 .. Len(plan)
  OBVIOUS
<1>4. QED
  BY <1>2, <1>3

\* Leaving the page with every mount made shows each partition where fstab has
\* it, if fstab lists distinct places from the root down.
LEMMA LeaveMountsAsListed ==
  ASSUME TypeOK, NEW bad, NEW plan \in Seq(Part),
         \A n \in 1 .. Len(plan) : mount[plan[n]] # NoMount,
         Leave(plan, bad)
  PROVE  MountedAsListed'
<1>1. mount \in [Part -> Mount] /\ mounted \in Seq(Mounting)
  BY DEF TypeOK, Mounting
<1> DEFINE line(n) == [part |-> plan[n],
                       mount |-> IF IsSwap(plan[n]) THEN "swap" ELSE mount[plan[n]],
                       done |-> plan[n] \notin bad]
<1>2. /\ mounted' = MountedBy(plan, bad)
      /\ fstab' = [n \in 1 .. Len(plan) |-> line(n)]
  BY DEF Leave
<1>3. Len(plan) \in Nat /\ Len(fstab') = Len(plan)
  BY <1>2
<1>4. \A n \in 1 .. Len(plan) :
        /\ fstab'[n].part = plan[n]
        /\ fstab'[n].mount = IF IsSwap(plan[n]) THEN "swap" ELSE mount[plan[n]]
        /\ fstab'[n].done <=> plan[n] \notin bad
  BY <1>2
<1> HIDE DEF line
<1> SUFFICES ASSUME Sortedness', \A n \in 1 .. Len(fstab') : fstab'[n].done,
                    NEW k \in 1 .. Len(fstab'), fstab'[k].mount # "swap"
             PROVE  Visible(mounted', fstab'[k].part, At(fstab'[k].mount))
  BY DEF MountedAsListed
<1>5. \A n \in 1 .. Len(plan) : n \in Made(plan, bad) <=> fstab'[n].mount # "swap"
  BY <1>3, <1>4 DEF Made, IsSwap
<1>6. k \in Made(plan, bad) /\ fstab'[k].part = plan[k] /\ fstab'[k].mount = mount[plan[k]]
  BY <1>3, <1>4, <1>5
<1>7. ASSUME NEW j \in Made(plan, bad), j > k
      PROVE  ~Covers(At(mount[plan[j]]), At(mount[plan[k]]))
  <2>1. j \in 1 .. Len(plan) /\ fstab'[j].mount # "swap" /\ fstab'[j].mount = mount[plan[j]]
    BY <1>3, <1>4, <1>5 DEF Made
  <2>2. /\ At(fstab'[k].mount) # At(fstab'[j].mount)
        /\ ~IsAbove(At(fstab'[j].mount), At(fstab'[k].mount))
    BY <1>3, <1>7, <2>1 DEF Sortedness
  <2>3. QED
    BY <1>6, <2>1, <2>2 DEF Covers
<1>8. Visible(MountedBy(plan, bad), plan[k], At(mount[plan[k]]))
  BY <1>1, <1>6, <1>7, MountedStays
<1>9. QED
  BY <1>2, <1>6, <1>8

\* The root partition, if it was mounted, is seen at TARGETDIR when files are
\* copied, and gets those that can be: only an empty mount point could cover it.
LEMMA LeaveCopiesToRoot ==
  ASSUME TypeOK, OneRoot, NEW bad, NEW plan \in Seq(Part),
         \A n \in 1 .. Len(plan) : mount[plan[n]] # NoMount,
         Leave(plan, bad)
  PROVE  (\A p \in Part : mount[p] # "") =>
           \A k \in 1 .. Len(fstab') :
             fstab'[k].mount = "/" /\ fstab'[k].done =>
               /\ fstab'[k].part = rootpart_selected
               /\ Copied \ missed' \subseteq files'[rootpart_selected]
<1>0. \A n \in 1 .. Len(plan) : plan[n] \in Part
  OBVIOUS
<1>1. mount \in [Part -> Mount] /\ mounted \in Seq(Mounting)
  BY DEF TypeOK, Mounting
<1> DEFINE line(n) == [part |-> plan[n],
                       mount |-> IF IsSwap(plan[n]) THEN "swap" ELSE mount[plan[n]],
                       done |-> plan[n] \notin bad]
<1>2. /\ mounted' = MountedBy(plan, bad)
      /\ fstab' = [n \in 1 .. Len(plan) |-> line(n)]
      /\ \E good \in SUBSET Copied : \E spoilt \in SUBSET (Copied \ good) :
           CopiedTo(mounted', good, spoilt)
  BY DEF Leave
<1>3. Len(plan) \in Nat /\ Len(fstab') = Len(plan)
  BY <1>2
<1>4. \A n \in 1 .. Len(plan) :
        /\ fstab'[n].part = plan[n]
        /\ fstab'[n].mount = IF IsSwap(plan[n]) THEN "swap" ELSE mount[plan[n]]
        /\ fstab'[n].done <=> plan[n] \notin bad
  BY <1>2
<1> HIDE DEF line
<1> SUFFICES ASSUME \A p \in Part : mount[p] # "",
                    NEW k \in 1 .. Len(fstab'), fstab'[k].mount = "/", fstab'[k].done
             PROVE  /\ fstab'[k].part = rootpart_selected
                    /\ Copied \ missed' \subseteq files'[rootpart_selected]
  OBVIOUS
<1>5. k \in 1 .. Len(plan) /\ plan[k] \in Part /\ plan[k] \notin bad
  <2>1. k \in 1 .. Len(plan)
    BY <1>3
  <2>2. plan[k] \notin bad
    BY <1>4, <2>1, Zenon
  <2>3. QED
    BY <1>0, <2>1, <2>2, Zenon
<1>6. ~IsSwap(plan[k]) /\ mount[plan[k]] = "/"
  BY <1>3, <1>4
<1>7. k \in Made(plan, bad) /\ At(mount[plan[k]]) = "/" /\ plan[k] = rootpart_selected
  BY <1>5, <1>6 DEF Made, At, OneRoot
<1>8. ASSUME NEW j \in Made(plan, bad), plan[j] # plan[k]
      PROVE  ~Covers(At(mount[plan[j]]), At(mount[plan[k]]))
  <2>1. plan[j] \in Part
    <3>1. j \in 1 .. Len(plan)
      BY DEF Made
    <3>2. QED
      BY <1>0, <3>1, Zenon
  <2>2. mount[plan[j]] # "/" /\ mount[plan[j]] # ""
    BY <1>7, <1>8, <2>1 DEF OneRoot
  <2>3. At(mount[plan[j]]) # "/"
    BY <2>2 DEF At
  <2>4. "/" \notin Dir /\ Above \subseteq Dir \X Dir
    BY PartDiskAssumptions DEF PartDiskAssumption
  <2>5. \A d : ~IsAbove(d, "/")
    BY <2>4 DEF IsAbove
  <2>6. QED
    BY <1>7, <2>3, <2>5 DEF Covers
<1>9. Visible(mounted', plan[k], "/")
  BY <1>1, <1>2, <1>7, <1>8, MountedStays
<1>10. Copied \ missed' \subseteq files'[plan[k]]
  <2>1. PICK good \in SUBSET Copied : \E spoilt \in SUBSET (Copied \ good) :
               CopiedTo(mounted', good, spoilt)
    BY <1>2
  <2>2. good \subseteq files'[plan[k]] /\ missed' = (missed \cup Copied) \ good
    BY <1>5, <1>9, <2>1 DEF CopiedTo
  <2>3. QED
    BY <2>2
<1>11. fstab'[k].part = plan[k]
  BY <1>4, <1>5
<1>12. QED
  BY <1>7, <1>10, <1>11

\* So fstab reaches it, and the files of the earlier pages that still exist,
\* unless their copies fail.
LEMMA LeavePutsFstabOnRoot ==
  ASSUME TypeOK, OneRoot, NEW bad, NEW plan \in Seq(Part),
         \A n \in 1 .. Len(plan) : mount[plan[n]] # NoMount,
         Leave(plan, bad), UNCHANGED <<mount, rootpart_selected>>
  PROVE  FstabOnRoot' /\ (temps = Temp => FilesDelivered')
<1>1. ASSUME \A p \in Part : mount[p] # ""
      PROVE  \A k \in 1 .. Len(fstab') :
               fstab'[k].mount = "/" /\ fstab'[k].done =>
                 /\ fstab'[k].part = rootpart_selected
                 /\ Copied \ missed' \subseteq files'[rootpart_selected]
  BY <1>1, LeaveCopiesToRoot
<1>2. FstabOnRoot'
  BY <1>1 DEF FstabOnRoot, Copied
<1>3. ASSUME temps = Temp
      PROVE  FilesDelivered'
  BY <1>1, <1>3 DEF FilesDelivered, Copied
<1>4. QED
  BY <1>2, <1>3

-----------------------------------------------------------------------------
(* The types of what the page does to the disks.                           *)

\* The second half of TypeOK.
DiskTypeOK ==
  /\ type \in [Part -> Type]
  /\ fstab \in Seq(Line)
  /\ mounted \in Seq(Mounting)
  /\ temps \subseteq Temp /\ missed \subseteq Temp \cup {"fstab"}
  /\ files \in [Part -> SUBSET (Temp \cup {"fstab"})]
  /\ where \in {"here", "left", "ended"}
  /\ ops \in 0 .. MaxOps /\ runs \in 0 .. MaxRuns

\* The two halves.
LEMMA TypesAreBoth == TypeOK <=> ChoiceTypeOK /\ DiskTypeOK
  BY DEF TypeOK, ChoiceTypeOK, DiskTypeOK, Mounting

\* The disks when the page is first shown.
LEMMA InitHasDiskTypes == Init => DiskTypeOK
<1> SUFFICES ASSUME Init PROVE DiskTypeOK
  OBVIOUS
<1>1. Type0 \subseteq [Part -> Type] /\ MaxOps \in Nat /\ MaxRuns \in Nat
  BY PartDiskAssumptions DEF PartDiskAssumption
<1>2. type \in [Part -> Type] /\ ops \in 0 .. MaxOps /\ runs \in 0 .. MaxRuns
  BY <1>1 DEF Init
<1>3. fstab \in Seq(Line) /\ mounted \in Seq(Mounting)
  BY DEF Init
<1>4. /\ temps \subseteq Temp /\ missed = {} /\ where = "here"
      /\ files \in [Part -> SUBSET (Temp \cup {"fstab"})]
  BY DEF Init
<1>5. QED
  BY <1>2, <1>3, <1>4 DEF DiskTypeOK

\* What is left of the mounts when some are unmounted.
LEMMA UnmountsAreMounts ==
  ASSUME mounted \in Seq(Mounting), NEW p, NEW ms \in Unmounts(p)
  PROVE  ms \in Seq(Mounting)
<1>1. ASSUME NEW i \in 1 .. Len(mounted)
      PROVE  Without(i) \in Seq(Mounting)
  <2>1. SubSeq(mounted, 1, i-1) \in Seq(Mounting)
    OBVIOUS
  <2>2. SubSeq(mounted, i+1, Len(mounted)) \in Seq(Mounting)
    OBVIOUS
  <2>3. QED
    BY <2>1, <2>2 DEF Without
<1>2. ms = mounted \/ \E i \in 1 .. Len(mounted) : ms = Without(i)
  BY DEF Unmounts
<1>3. QED
  BY <1>1, <1>2

\* An operation of the page keeps its counter.
LEMMA OperateCounts ==
  ASSUME DiskTypeOK, Operate
  PROVE  ops' \in 0 .. MaxOps
<1>1. MaxOps \in Nat
  BY PartDiskAssumptions DEF PartDiskAssumption
<1>2. ops \in 0 .. MaxOps /\ ops < MaxOps /\ ops' = ops + 1
  BY DEF DiskTypeOK, Operate
<1>3. QED
  BY <1>1, <1>2

\* Formatting, or not.
LEMMA RequestedKeepsTypes ==
  ASSUME DiskTypeOK, NEW p \in Part, Requested(p)
  PROVE  /\ type' \in [Part -> Type]
         /\ mounted' \in Seq(Mounting)
         /\ files' \in [Part -> SUBSET (Temp \cup {"fstab"})]
<1>1. CASE UNCHANGED <<type, disk>>
  BY <1>1 DEF DiskTypeOK, disk
<1>2. CASE /\ mounted' \in Unmounts(p)
           /\ \/ UNCHANGED <<type, files>>
              \/ /\ type' = [type EXCEPT ![p] = "other"]
                 /\ files' = [files EXCEPT ![p] = {}]
  <2>1. mounted' \in Seq(Mounting)
    BY <1>2, UnmountsAreMounts DEF DiskTypeOK
  <2>2. type' \in [Part -> Type]
    BY <1>2 DEF DiskTypeOK, Type
  <2>3. files' \in [Part -> SUBSET (Temp \cup {"fstab"})]
    BY <1>2 DEF DiskTypeOK
  <2>4. QED
    BY <2>1, <2>2, <2>3
<1>3. QED
  BY <1>1, <1>2 DEF Requested

\* A mount point is a choice; the disks stay.
LEMMA SetMountpointKeepsTypes ==
  ASSUME DiskTypeOK, NEW p \in Part, SetMountpoint(p)
  PROVE  DiskTypeOK'
<1>1. ops' \in 0 .. MaxOps
  BY OperateCounts DEF SetMountpoint
<1>2. QED
  BY <1>1 DEF SetMountpoint, DiskTypeOK, disk, copying

\* A partition is formatted, or not.
LEMMA FormatKeepsTypes ==
  ASSUME DiskTypeOK, NEW p \in Part, Format(p)
  PROVE  DiskTypeOK'
<1>1. ops' \in 0 .. MaxOps /\ UNCHANGED <<fstab, copying, where, runs>> /\ Requested(p)
  BY OperateCounts DEF Format
<1>2. QED
  BY <1>1, RequestedKeepsTypes DEF DiskTypeOK, copying

\* The root is formatted, or not.
LEMMA SetRootKeepsTypes ==
  ASSUME DiskTypeOK, NEW p \in Part, SetRoot(p)
  PROVE  DiskTypeOK'
<1>1. ops' \in 0 .. MaxOps /\ UNCHANGED <<fstab, copying, where, runs>> /\ Requested(p)
  BY OperateCounts DEF SetRoot
<1>2. QED
  BY <1>1, RequestedKeepsTypes DEF DiskTypeOK, copying

\* Swap: the partition is made one, whether mkswap has worked or not.
LEMMA SetSwapKeepsTypes ==
  ASSUME DiskTypeOK, NEW p \in Part, SetSwap(p)
  PROVE  DiskTypeOK'
<1>1. ops' \in 0 .. MaxOps /\ UNCHANGED <<fstab, copying, where, runs>>
  BY OperateCounts DEF SetSwap
<1>2. mounted' \in Seq(Mounting)
  BY UnmountsAreMounts DEF SetSwap, DiskTypeOK
<1>3. type' \in [Part -> Type]
  BY DEF SetSwap, DiskTypeOK, Type
<1>4. files' \in [Part -> SUBSET (Temp \cup {"fstab"})]
  BY DEF SetSwap, DiskTypeOK
<1>5. QED
  BY <1>1, <1>2, <1>3, <1>4 DEF DiskTypeOK, copying

\* gparted leaves partitions without files, of some type.
LEMMA RunGpartedKeepsTypes ==
  ASSUME DiskTypeOK, RunGparted
  PROVE  DiskTypeOK'
<1>1. ops' \in 0 .. MaxOps /\ UNCHANGED <<fstab, mounted, copying, where, runs>>
  BY OperateCounts DEF RunGparted
<1>2. PICK changed \in SUBSET {p \in Part : Mounts(p) = {}} :
        /\ files' = [p \in Part |-> IF p \in changed THEN {} ELSE files[p]]
        /\ \E t \in [changed -> Type] :
             type' = [p \in Part |-> IF p \in changed THEN t[p] ELSE type[p]]
  BY DEF RunGparted, Repartitioned
<1>3. type' \in [Part -> Type] /\ files' \in [Part -> SUBSET (Temp \cup {"fstab"})]
  BY <1>2 DEF DiskTypeOK
<1>4. QED
  BY <1>1, <1>3 DEF DiskTypeOK, copying

\* Leaving the page: the mounts, the lines of fstab and the copies.
LEMMA RunKeepsTypes ==
  ASSUME TypeOK, Run
  PROVE  DiskTypeOK'
<1> DEFINE plan == Plan(GlobalList)
<1>1. PICK bad : Leave(plan, bad)
  BY DEF Run
<1>2. plan \in Seq(Part) /\ \A n \in 1 .. Len(plan) : plan[n] \in Part /\ mount[plan[n]] # NoMount
  BY PlanOfRun
<1>3. DiskTypeOK /\ mount \in [Part -> Mount]
  BY DEF TypeOK, DiskTypeOK, Mounting
<1> HIDE DEF plan
<1>4. mounted' \in Seq(Mounting)
  <2>1. mounted' = MountedBy(plan, bad)
    BY <1>1 DEF Leave
  <2>2. QED
    BY <1>2, <2>1, RunKeepsMounted
<1>5. fstab' \in Seq(Line)
  <2> DEFINE line(n) == [part |-> plan[n],
                         mount |-> IF IsSwap(plan[n]) THEN "swap" ELSE mount[plan[n]],
                         done |-> plan[n] \notin bad]
  <2>1. fstab' = [n \in 1 .. Len(plan) |-> line(n)]
    BY <1>1 DEF Leave
  <2>2. \A n \in 1 .. Len(plan) : line(n) \in Line
    BY <1>2, <1>3 DEF Line, Mount
  <2>3. Len(plan) \in Nat
    BY <1>2
  <2> HIDE DEF line
  <2>4. QED
    BY <2>1, <2>2, <2>3
<1>6. files' \in [Part -> SUBSET (Temp \cup {"fstab"})] /\ missed' \subseteq Temp \cup {"fstab"}
  <2>1. PICK good \in SUBSET Copied : \E spoilt \in SUBSET (Copied \ good) :
               CopiedTo(mounted', good, spoilt)
    BY <1>1 DEF Leave
  <2>2. PICK spoilt : CopiedTo(mounted', good, spoilt)
    BY <2>1
  <2>3. /\ Copied \subseteq Temp \cup {"fstab"} /\ missed \subseteq Temp \cup {"fstab"}
        /\ files \in [Part -> SUBSET (Temp \cup {"fstab"})]
    BY <1>3 DEF DiskTypeOK, Copied
  <2>4. QED
    BY <2>1, <2>2, <2>3 DEF CopiedTo
<1>7. type' \in [Part -> Type] /\ ops' \in 0 .. MaxOps
  BY <1>3 DEF Run, choices, DiskTypeOK
<1>8. temps' \subseteq Temp /\ where' \in {"here", "left", "ended"}
  BY DEF Run
<1>9. runs' \in 0 .. MaxRuns
  <2>1. MaxRuns \in Nat
    BY PartDiskAssumptions DEF PartDiskAssumption
  <2>2. runs \in 0 .. MaxRuns /\ runs < MaxRuns /\ runs' = runs + 1
    BY <1>3 DEF DiskTypeOK, Run
  <2>3. QED
    BY <2>1, <2>2
<1>10. QED
  BY <1>4, <1>5, <1>6, <1>7, <1>8, <1>9 DEF DiskTypeOK

\* The other steps leave the disks alone.
LEMMA OtherKeepsTypes ==
  ASSUME DiskTypeOK, UNCHANGED <<type, mounted, files, missed, ops, runs>>,
         fstab' = fstab \/ fstab' = << >>, temps' \subseteq Temp,
         where' \in {"here", "left", "ended"}
  PROVE  DiskTypeOK'
<1>1. fstab' \in Seq(Line)
  <2>1. fstab \in Seq(Line) /\ << >> \in Seq(Line)
    BY DEF DiskTypeOK
  <2>2. QED
    BY <2>1
<1>2. QED
  BY <1>1 DEF DiskTypeOK

\* Every step keeps the types.
LEMMA NextKeepsTypes ==
  ASSUME TypeOK, [Next]_vars
  PROVE  DiskTypeOK'
<1>1. ChoiceTypeOK /\ DiskTypeOK
  BY TypesAreBoth
<1>2. temps \subseteq Temp /\ where \in {"here", "left", "ended"}
  BY <1>1 DEF DiskTypeOK
<1>3. ASSUME NEW p \in Listed(shown),
             SetMountpoint(p) \/ Format(p) \/ SetRoot(p) \/ SetSwap(p)
      PROVE  DiskTypeOK'
  <2>1. p \in Part
    BY <1>1, ListedIsPart
  <2>2. QED
    BY <1>1, <1>3, <2>1, SetMountpointKeepsTypes, FormatKeepsTypes, SetRootKeepsTypes,
       SetSwapKeepsTypes
<1>4. CASE ChangeDevice
  BY <1>1, <1>2, <1>4, OtherKeepsTypes DEF ChangeDevice, disk, copying
<1>5. CASE RunGparted
  BY <1>1, <1>5, RunGpartedKeepsTypes
<1>6. CASE Run
  BY <1>6, RunKeepsTypes
<1>7. CASE RunFails
  BY <1>1, <1>2, <1>7, OtherKeepsTypes DEF RunFails, choices, disk, copying
<1>8. CASE ComeBack
  <2>1. temps' \subseteq Temp
    BY <1>2, <1>8 DEF ComeBack, Temp
  <2>2. QED
    BY <1>1, <1>8, <2>1, OtherKeepsTypes DEF ComeBack, choices, disk
<1>9. CASE UNCHANGED vars
  BY <1>1, <1>2, <1>9, OtherKeepsTypes DEF vars
<1>10. QED
  BY <1>3, <1>4, <1>5, <1>6, <1>7, <1>8, <1>9 DEF Next

-----------------------------------------------------------------------------
(* The invariant of the page.                                              *)

\* The invariants of the page together; with TypeOK they are inductive.
IInv == TypeOK /\ OneRoot /\ CompleteIffRoot /\ MountedAsListed /\ FstabOnRoot

\* Nothing has been left behind at the start.
LEMMA InitHasIInv == Init => IInv
<1> SUFFICES ASSUME Init PROVE IInv
  OBVIOUS
<1>1. Inv /\ TypeOK
  BY InitHasInv, InitHasDiskTypes, TypesAreBoth DEF Inv
<1>2. where # "left"
  BY DEF Init
<1>3. QED
  BY <1>1, <1>2 DEF Inv, IInv, MountedAsListed, FstabOnRoot

\* A run makes both promises about what it leaves.
LEMMA RunKeepsResult ==
  ASSUME IInv, Run
  PROVE  MountedAsListed' /\ FstabOnRoot' /\ (temps = Temp => FilesDelivered')
<1> DEFINE plan == Plan(GlobalList)
<1>1. PICK bad : Leave(plan, bad)
  BY DEF Run
<1>2. plan \in Seq(Part) /\ \A n \in 1 .. Len(plan) : mount[plan[n]] # NoMount
  BY PlanOfRun
<1> HIDE DEF plan
<1>3. TypeOK /\ OneRoot /\ UNCHANGED <<mount, rootpart_selected>>
  BY DEF IInv, Run, choices
<1>4. QED
  BY <1>1, <1>2, <1>3, LeaveMountsAsListed, LeavePutsFstabOnRoot

\* The invariant is inductive: only a run makes where "left".
LEMMA NextKeepsIInv == IInv /\ [Next]_vars => IInv'
<1> SUFFICES ASSUME IInv, [Next]_vars PROVE IInv'
  OBVIOUS
<1>1. Inv'
  BY NextKeepsInv, TypesAreBoth DEF IInv, Inv
<1>2. TypeOK'
  <2>1. DiskTypeOK'
    BY NextKeepsTypes DEF IInv
  <2>2. QED
    BY <1>1, <2>1 DEF Inv, TypeOK, ChoiceTypeOK, DiskTypeOK, Mounting
<1>3. MountedAsListed' /\ FstabOnRoot'
  <2>1. CASE Run
    BY <2>1, RunKeepsResult
  <2>2. CASE UNCHANGED vars
    <3>1. /\ fstab' = fstab /\ mounted' = mounted /\ where' = where /\ mount' = mount
          /\ files' = files /\ missed' = missed /\ rootpart_selected' = rootpart_selected
      BY <2>2 DEF vars
    <3>2. Sortedness' <=> Sortedness
      BY <3>1 DEF Sortedness
    <3>3. ASSUME NEW i
          PROVE  Visible(mounted, fstab[i].part, At(fstab[i].mount))'
                   <=> Visible(mounted, fstab[i].part, At(fstab[i].mount))
      BY <3>1 DEF Visible, Hidden
    <3>4. MountedAsListed'
      BY <3>1, <3>2, <3>3 DEF IInv, MountedAsListed
    <3>5. FstabOnRoot'
      BY <3>1 DEF IInv, FstabOnRoot
    <3>6. QED
      BY <3>4, <3>5
  <2>3. CASE where' # "left"
    BY <2>3 DEF MountedAsListed, FstabOnRoot
  <2>4. Run \/ UNCHANGED vars \/ where' # "left"
    BY DEF Next, SetMountpoint, Format, SetRoot, SetSwap, Operate, ChangeDevice, RunGparted,
           RunFails, ComeBack
  <2>5. QED
    BY <2>1, <2>2, <2>3, <2>4
<1>4. QED
  BY <1>1, <1>2, <1>3 DEF Inv, IInv

-----------------------------------------------------------------------------
(* The theorems.                                                           *)

\* The types and what a run leaves behind are invariants together: the page
\* comes back to whatever it has mounted, formatted and copied before.
THEOREM Invariance == Spec => []IInv
<1>1. QED
  BY InitHasIInv, NextKeepsIInv, PTL DEF Spec

\* Mounts and lines of fstab are of known partitions at places, and the
\* pointer to the root is to a partition, to nothing, or known to be lost.
THEOREM TypeCorrect == Spec => []TypeOK
<1>1. IInv => TypeOK
  BY DEF IInv
<1>2. QED
  BY <1>1, Invariance, PTL

\* For any disks and any sequence of operations, at most one partition is to
\* be the root, and it is the one rootpart_selected points to.
THEOREM RootIsUnique == Spec => []OneRoot
<1>1. IInv => OneRoot
  BY DEF IInv
<1>2. QED
  BY <1>1, Invariance, PTL

\* The page can be left exactly when a root partition is set, also after gparted
\* has reset the mount points and left rootpart_selected dangling.
THEOREM PageCompleteIffRoot == Spec => []CompleteIffRoot
<1>1. IInv => CompleteIffRoot
  BY DEF IInv
<1>2. QED
  BY <1>1, Invariance, PTL

\* For any number of partitions and any directories, the merge sort of run puts
\* a directory before those below it when no mount field is NULL.
THEOREM SortsRootToLeaf == Spec => []SortedWhenAllMounted
<1>1. TypeOK => SortedWhenAllMounted
  BY SortsWhenAllMounted DEF TypeOK
<1>2. QED
  BY <1>1, TypeCorrect, PTL

\* Whatever earlier visits have left mounted, when the page is left with all
\* mounts made and fstab from the root down, each place shows what fstab says.
THEOREM MountsAsListed == Spec => []MountedAsListed
<1>1. IInv => MountedAsListed
  BY DEF IInv
<1>2. QED
  BY <1>1, Invariance, PTL

\* fstab is copied to the root partition, also when the root is another one
\* than on the visit before: only a copy or a mount of its own that fails keeps
\* it from there.
THEOREM FstabReachesRoot == Spec => []FstabOnRoot
<1>1. IInv => FstabOnRoot
  BY DEF IInv
<1>2. QED
  BY <1>1, Invariance, PTL

\* The mount points a run writes are those the user has chosen: each partition
\* with a mount field has one line of fstab, and no other has a line, although
\* the comparison of the sort is no order when some mount fields are NULL.
FstabAsChosen ==
  where = "left" =>
    /\ \A p \in Part : mount[p] # NoMount <=> \E i \in 1 .. Len(fstab) : fstab[i].part = p
    /\ \A i, j \in 1 .. Len(fstab) : fstab[i].part = fstab[j].part => i = j

\* The partitions of a run's plan.
LEMMA PlanIsChosen ==
  LET plan == Plan(GlobalList)
  IN Members(plan) = {p \in Part : mount[p] # NoMount} /\ Distinct(plan)
<1>1. Members(GlobalList) = Part /\ Distinct(GlobalList)
  BY AllPartitionsAreListed, AllPartitionsOnce, SortedInOrder, SortedDistinct DEF GlobalList
<1>2. QED
  BY <1>1, GlobalListIsList, PlanMembers, PlanInOrder DEF Distinct

\* A run writes them.
LEMMA RunWritesChosen ==
  ASSUME TypeOK, Run
  PROVE  FstabAsChosen'
<1> DEFINE plan == Plan(GlobalList)
<1>1. PICK bad : Leave(plan, bad)
  BY DEF Run
<1>2. plan \in Seq(Part) /\ Members(plan) = {p \in Part : mount[p] # NoMount} /\ Distinct(plan)
  BY PlanOfRun, PlanIsChosen
<1> HIDE DEF plan
<1>3. Len(plan) \in Nat /\ \A n \in 1 .. Len(plan) : plan[n] \in Part
  BY <1>2
<1>4. Len(fstab') = Len(plan) /\ \A n \in 1 .. Len(plan) : fstab'[n].part = plan[n]
  <2> DEFINE line(n) == [part |-> plan[n],
                         mount |-> IF IsSwap(plan[n]) THEN "swap" ELSE mount[plan[n]],
                         done |-> plan[n] \notin bad]
  <2>1. fstab' = [n \in 1 .. Len(plan) |-> line(n)]
    BY <1>1 DEF Leave
  <2>2. QED
    BY <1>3, <2>1
<1>5. mount' = mount
  BY DEF Run, choices
<1>6. ASSUME NEW p \in Part
      PROVE  mount'[p] # NoMount <=> \E i \in 1 .. Len(fstab') : fstab'[i].part = p
  <2>1. mount[p] # NoMount <=> \E i \in 1 .. Len(plan) : plan[i] = p
    BY <1>2 DEF Members
  <2>2. QED
    BY <1>4, <1>5, <2>1
<1>7. ASSUME NEW i \in 1 .. Len(fstab'), NEW j \in 1 .. Len(fstab'), fstab'[i].part = fstab'[j].part
      PROVE  i = j
  <2>1. \A m, n \in 1 .. Len(plan) : m < n => plan[m] # plan[n]
    BY <1>2 DEF Distinct, Pairwise, Differ
  <2>2. i \in 1 .. Len(plan) /\ j \in 1 .. Len(plan) /\ plan[i] = plan[j]
    BY <1>4, <1>7
  <2>3. ~(i < j) /\ ~(j < i)
    BY <2>1, <2>2
  <2>4. QED
    BY <1>3, <2>2, <2>3
<1>8. QED
  BY <1>6, <1>7 DEF FstabAsChosen

\* No partition is lost or doubled on its way from the page to fstab, by
\* joining the lists of the devices, by sorting or by choosing.
THEOREM FstabIsComplete == Spec => []FstabAsChosen
<1>1. Init => FstabAsChosen
  BY DEF Init, FstabAsChosen
<1>2. ASSUME TypeOK, FstabAsChosen, [Next]_vars
      PROVE  FstabAsChosen'
  <2>1. CASE Run
    BY <1>2, <2>1, RunWritesChosen
  <2>2. CASE UNCHANGED vars
    BY <1>2, <2>2 DEF vars, FstabAsChosen
  <2>3. CASE where' # "left"
    BY <2>3 DEF FstabAsChosen
  <2>4. QED
    BY <1>2, <2>1, <2>2, <2>3
    DEF Next, SetMountpoint, Format, SetRoot, SetSwap, Operate, ChangeDevice, RunGparted,
        RunFails, ComeBack
<1>3. QED
  BY <1>1, <1>2, TypeCorrect, PTL DEF Spec

\* The files made by the earlier pages exist until the page is left.
FirstRunDelivers ==
  /\ runs = 0 => temps = Temp /\ where # "left"
  /\ runs = 1 => FilesDelivered

\* It needs a second visit, or a copy that fails, to lose lang.sh and keymap: the
\* first time the page is left, a root partition that was mounted has all the
\* files that could be copied.
THEOREM FirstRootIsComplete == Spec => [](runs < 2 => FilesDelivered)
<1>1. Init => FirstRunDelivers
  BY DEF Init, FirstRunDelivers
<1>2. ASSUME IInv, FirstRunDelivers, [Next]_vars
      PROVE  FirstRunDelivers'
  <2>1. runs \in Nat
    <3>1. runs \in 0 .. MaxRuns
      BY <1>2 DEF IInv, TypeOK
    <3>2. QED
      BY <3>1
  <2>2. CASE Run
    <3>1. runs' = runs + 1
      BY <2>2 DEF Run
    <3>2. temps = Temp => FilesDelivered'
      BY <1>2, <2>2, RunKeepsResult
    <3>3. QED
      BY <1>2, <2>1, <3>1, <3>2 DEF FirstRunDelivers
  <2>3. CASE UNCHANGED vars
    BY <1>2, <2>3 DEF vars, FirstRunDelivers, FilesDelivered
  <2>4. CASE where # "left" /\ where' # "left" /\ runs' = runs /\ temps' = temps
    BY <1>2, <2>4 DEF FirstRunDelivers, FilesDelivered
  <2>5. CASE ComeBack
    <3>1. runs # 0 /\ runs' = runs /\ where' # "left"
      BY <1>2, <2>5 DEF ComeBack, FirstRunDelivers
    <3>2. QED
      BY <3>1 DEF FirstRunDelivers, FilesDelivered
  <2>6. QED
    BY <1>2, <2>2, <2>3, <2>4, <2>5
    DEF Next, SetMountpoint, Format, SetRoot, SetSwap, Operate, ChangeDevice, RunGparted,
        RunFails, copying
<1>3. IInv /\ FirstRunDelivers => (runs < 2 => FilesDelivered)
  <2>1. SUFFICES ASSUME IInv, FirstRunDelivers, runs < 2
                 PROVE  FilesDelivered
    OBVIOUS
  <2>2. runs = 0 \/ runs = 1
    <3>1. runs \in 0 .. MaxRuns
      BY <2>1 DEF IInv, TypeOK
    <3>2. QED
      BY <2>1, <3>1
  <2>3. QED
    BY <2>1, <2>2 DEF FirstRunDelivers, FilesDelivered
<1>4. QED
  BY <1>1, <1>2, <1>3, Invariance, PTL DEF Spec
=============================================================================
