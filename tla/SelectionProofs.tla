--------------------------- MODULE SelectionProofs ---------------------------
(***************************************************************************)
(* Proofs about Selection, for any groups, packages and number of clicks.  *)
(***************************************************************************)
EXTENDS Selection, TLAPS

\* The widgets of the old mode are gone while the dialog is there.
DialogAlone == where = "dialog" => widget # "alive"

\* What the last run has configured is still so: to configure again for the
\* same desktop would change nothing, and targets are the flagged packages.
Settled ==
  fresh =>
    /\ targets = Flagged(flag, on)
    /\ mode = "basic" =>
         /\ on = (on \ BasicOff) \cup (({"xapps-extra"} \cup BasicGroups(desk)) \cap Group)
         /\ flag = (flag \ BasicClear) \cup BasicKeep \cup BasicPackages(desk)
    /\ mode = "intermediate" =>
         /\ on = (on \ MiddleOff(desk)) \cup (MiddleGroups(desk) \cap Group)
         /\ flag = flag \cup MiddlePackages(desk)

IInv == TypeOK /\ DialogAlone /\ Settled /\ OtherDesktopsOut /\ ExpertShowsFlags

\* What selectallfiles finds is in the lists.
LEMMA InSubset == \A g : In(g) \subseteq Package
BY DEF In

\* The tables name packages that are there.
LEMMA BasicSubset ==
  \A d \in Desktop : BasicKeep \cup BasicPackages(d) \subseteq Package
BY DEF Desktop, BasicDesktop, BasicKeep, BasicPackages, In, Of, Locale

\* What the intermediate mode turns on is in the lists.
LEMMA MiddleSubset == \A d \in Desktop : MiddlePackages(d) \subseteq Package
BY DEF Desktop, BasicDesktop, MiddlePackages, In, Of, Locale

\* What a check button turns on is in the lists.
LEMMA ToggleSubset == \A t : PackagesOf(t) \subseteq Package
BY DEF PackagesOf, In, Of, Locale

\* The active button is one of the desktops.
LEMMA ActiveDesktop == TypeOK => Active \subseteq Desktop
BY DEF TypeOK, Active, Desktop, BasicDesktop

\* The invariant holds at the start.
LEMMA InitInv == Init => IInv
<1> SUFFICES ASSUME Init PROVE IInv
  OBVIOUS
<1>1. ops \in 0 .. MaxOps /\ visits \in 0 .. MaxVisits
  BY SelectionAssumption DEF Init
<1>2. TypeOK
  BY <1>1, SelectionAssumption DEF Init, TypeOK, Desktop, BasicDesktop
<1> QED BY <1>2 DEF Init, IInv, DialogAlone, Settled, OtherDesktopsOut, ExpertShowsFlags

-----------------------------------------------------------------------------
(* Types.                                                                  *)

\* A configuration flags known groups and packages only.
LEMMA ConfigureTypes ==
  ASSUME on \subseteq Group, flag \subseteq Package, NEW d \in Desktop, Configure(d)
  PROVE  on' \subseteq Group /\ flag' \subseteq Package
<1>1. CASE ConfigureBasic(d)
  BY <1>1, BasicSubset DEF ConfigureBasic
<1>2. CASE ConfigureIntermediate(d)
  BY <1>2, MiddleSubset DEF ConfigureIntermediate
<1>3. CASE UNCHANGED flags
  BY <1>3 DEF flags
<1> QED BY <1>1, <1>2, <1>3 DEF Configure

\* What every click leaves, and counts.
LEMMA ClickTypes ==
  ASSUME TypeOK, NEW m, Click(m)
  PROVE  /\ mode' = mode /\ widget' = widget /\ where' = where
         /\ targets' = targets /\ fresh' = FALSE
         /\ ops' \in 0 .. MaxOps /\ visits' \in 0 .. MaxVisits
<1>1. ops \in Nat /\ MaxOps \in Nat /\ ops < MaxOps /\ ops' = ops + 1
  BY SelectionAssumption DEF TypeOK, Click
<1>2. ops' \in 0 .. MaxOps
  BY <1>1
<1> QED BY <1>2 DEF TypeOK, Click

\* The same of what a change of category shows.
LEMMA ShowTypes ==
  ASSUME NEW g \in Group, Show(g)
  PROVE  /\ current' \in Group \cup {Nothing}
         /\ listed' \subseteq Package /\ ticks' \subseteq Package
         /\ sensitive' \in BOOLEAN
<1>1. listed' = In({g}) /\ ticks' = In({g}) \cap flag /\ current' = g
  BY DEF Show
<1>2. sensitive' \in BOOLEAN
  BY DEF Show
<1>3. In({g}) \subseteq Package
  BY InSubset
<1> QED BY <1>1, <1>2, <1>3

\* Every action keeps the types.
LEMMA TypesKept == ASSUME TypeOK, [Next]_vars PROVE TypeOK'
<1> USE SelectionAssumption DEF TypeOK
<1>1. CASE BasicMode
  BY <1>1 DEF BasicMode, Choose, view, Desktop, BasicDesktop
<1>2. CASE IntermediateMode
  BY <1>2 DEF IntermediateMode, Choose, view, Desktop, BasicDesktop
<1>3. CASE ExpertMode
  BY <1>3 DEF ExpertMode, Choose, buttons
<1>4. CASE CloseDialog
  BY <1>4 DEF CloseDialog, flags, buttons, view
<1>5. CASE Radio
  BY <1>5, ClickTypes DEF Radio, flags, view, Desktop
<1>6. ASSUME NEW t \in Toggle, GroupChanged(t) PROVE TypeOK'
  <2>1. on' \subseteq Group /\ flag' \subseteq Package /\ toggles' \subseteq Toggle
    BY <1>6, ToggleSubset DEF GroupChanged
  <2> QED BY <1>6, <2>1, ClickTypes DEF GroupChanged, view
<1>7. ASSUME NEW g \in Group, CategoryChanged(g) PROVE TypeOK'
  BY <1>7, ShowTypes, ClickTypes DEF CategoryChanged, flags, buttons
<1>8. ASSUME NEW g \in Group, ToggleGroup(g) PROVE TypeOK'
  <2>1. on' \subseteq Group /\ boxes' \subseteq Group
    BY <1>8 DEF ToggleGroup
  <2> QED BY <1>8, <2>1, ShowTypes, ClickTypes DEF ToggleGroup, buttons
<1>9. ASSUME NEW p \in Package, TogglePackage(p) PROVE TypeOK'
  <2>1. ticks' \subseteq Package /\ flag' \subseteq Package
    BY <1>9 DEF TogglePackage
  <2> QED BY <1>9, <2>1, ClickTypes DEF TogglePackage, buttons
<1>10. ASSUME NEW all \in BOOLEAN, SelectionClicked(all) PROVE TypeOK'
  <2> DEFINE these == In({current})
  <2>1. these \subseteq Package
    BY InSubset
  <2>2. /\ listed' = these
        /\ ticks' = IF all THEN these ELSE {}
        /\ flag' = IF all THEN flag \cup these ELSE flag \ these
        /\ UNCHANGED <<on, desk, toggles, boxes, current, sensitive>>
    BY <1>10, Zenon DEF SelectionClicked, buttons
  <2> HIDE DEF these
  <2>3. listed' \subseteq Package /\ ticks' \subseteq Package /\ flag' \subseteq Package
    BY <2>1, <2>2
  <2>4. Click("expert")
    BY <1>10 DEF SelectionClicked
  <2>5. /\ mode' = mode /\ widget' = widget /\ where' = where
        /\ targets' = targets /\ fresh' = FALSE
        /\ ops' \in 0 .. MaxOps /\ visits' \in 0 .. MaxVisits
    BY <2>4, ClickTypes
  <2> QED BY <2>2, <2>3, <2>5
<1>11. CASE Run
  <2>1. PICK d \in Active : desk' = d /\ Configure(d)
    BY <1>11 DEF Run
  <2>2. on' \subseteq Group /\ flag' \subseteq Package
    BY <2>1, ActiveDesktop, ConfigureTypes
  <2>3. desk' \in Desktop
    BY <2>1, ActiveDesktop
  <2>4. targets' \subseteq Package
    BY <1>11, <2>2 DEF Run, Flagged
  <2> QED BY <1>11, <2>2, <2>3, <2>4 DEF Run, view
<1>12. CASE Crash
  BY <1>12 DEF Crash, flags, buttons, view
<1>13. CASE ComeAgain
  BY <1>13 DEF ComeAgain, flags, buttons, view
<1>14. CASE UNCHANGED vars
  BY <1>14 DEF vars
<1> QED BY <1>1, <1>2, <1>3, <1>4, <1>5, <1>6, <1>7, <1>8, <1>9, <1>10,
           <1>11, <1>12, <1>13, <1>14 DEF Next

-----------------------------------------------------------------------------
(* A click or the choice of a mode, or else flags and targets stay or run   *)
(* sets them.                                                               *)

\* Every action either makes the last run stale, or is a run, or leaves alone what
\* it configured.
LEMMA Kinds ==
  ASSUME TypeOK, [Next]_vars
  PROVE  \/ fresh' = FALSE
         \/ UNCHANGED <<on, flag, mode, desk, targets, fresh>>
         \/ Run
<1> USE DEF Click, Choose
<1>1. CASE BasicMode \/ IntermediateMode \/ ExpertMode
  BY <1>1 DEF BasicMode, IntermediateMode, ExpertMode
<1>2. CASE CloseDialog \/ Crash \/ ComeAgain
  BY <1>2 DEF CloseDialog, Crash, ComeAgain, flags, buttons
<1>3. CASE Radio
  BY <1>3 DEF Radio
<1>4. CASE \E t \in Toggle : GroupChanged(t)
  BY <1>4 DEF GroupChanged
<1>5. CASE \E g \in Group : CategoryChanged(g) \/ ToggleGroup(g)
  BY <1>5 DEF CategoryChanged, ToggleGroup
<1>6. CASE \E p \in Package : TogglePackage(p)
  BY <1>6 DEF TogglePackage
<1>7. CASE \E all \in BOOLEAN : SelectionClicked(all)
  BY <1>7 DEF SelectionClicked
<1>8. CASE UNCHANGED vars
  BY <1>8 DEF vars
<1> QED BY <1>1, <1>2, <1>3, <1>4, <1>5, <1>6, <1>7, <1>8 DEF Next

\* After a run everything is settled.
LEMMA RunSettles == ASSUME TypeOK, Run PROVE Settled'
<1>1. PICK d \in Active : desk' = d /\ Configure(d)
  BY DEF Run
<1>2. mode' = mode /\ targets' = Flagged(flag', on')
  BY DEF Run
<1>3. CASE mode = "basic"
  <2>1. ConfigureBasic(d)
    BY <1>1, <1>3 DEF Configure
  <2> QED BY <1>1, <1>2, <1>3, <2>1 DEF Settled, ConfigureBasic
<1>4. CASE mode = "intermediate"
  <2>1. ConfigureIntermediate(d)
    BY <1>1, <1>4 DEF Configure
  <2> QED BY <1>1, <1>2, <1>4, <2>1 DEF Settled, ConfigureIntermediate
<1>5. CASE mode = "expert"
  BY <1>2, <1>5 DEF Settled
<1> QED BY <1>3, <1>4, <1>5 DEF TypeOK

\* What a run has settled stays settled until something is changed.
LEMMA SettledKept == ASSUME TypeOK, Settled, [Next]_vars PROVE Settled'
<1>1. CASE fresh' = FALSE
  BY <1>1 DEF Settled
<1>2. CASE UNCHANGED <<on, flag, mode, desk, targets, fresh>>
  BY <1>2 DEF Settled
<1>3. CASE Run
  BY <1>3, RunSettles
<1> QED BY <1>1, <1>2, <1>3, Kinds

\* What is settled has no package of another default desktop.
LEMMA SettledIsOneDesktop == TypeOK /\ Settled => OtherDesktopsOut
<1> SUFFICES ASSUME TypeOK, Settled, fresh, mode # "expert",
                    NEW d \in {"KDE", "GNOME", "XFCE"} \ {desk},
                    NEW p \in targets \cap In({DefaultGroup[d]})
             PROVE  p = "gksu-frugalware"
  BY DEF OtherDesktopsOut
<1>0. desk \in {"KDE", "GNOME", "XFCE", "LXDE", "E17", "No X Server"}
  BY DEF TypeOK, Desktop, BasicDesktop
<1>1. p \in flag /\ GroupOf[p] \in on /\ GroupOf[p] = DefaultGroup[d] /\ p \in Package
  BY DEF Settled, Flagged, In
<1>2. CASE mode = "basic" /\ d \in {"KDE", "XFCE"}
  <2>1. GroupOf[p] \in BasicOff
    BY <1>1, <1>2 DEF BasicOff, DefaultGroup
  <2>2. GroupOf[p] \in {"xapps-extra"} \cup BasicGroups(desk)
    BY <1>1, <1>2, <2>1 DEF Settled
  <2> QED BY <1>0, <1>1, <1>2, <2>2 DEF BasicGroups, DefaultGroup
<1>3. CASE mode = "basic" /\ d = "GNOME"
  <2>1. p \in BasicClear /\ GroupOf[p] = "gnome"
    BY <1>1, <1>3 DEF BasicClear, DefaultGroup, In
  <2>2. p \in BasicKeep \cup BasicPackages(desk)
    BY <1>1, <1>3, <2>1 DEF Settled
  <2>3. desk \in {"KDE", "XFCE", "LXDE", "E17", "No X Server"}
    BY <1>0, <1>3
  <2> QED BY <1>1, <1>3, <2>1, <2>2, <2>3
          DEF BasicKeep, BasicPackages, In, Of, Locale
<1>4. CASE mode = "intermediate"
  <2>1. GroupOf[p] \in MiddleOff(desk)
    BY <1>1, <1>4 DEF MiddleOff, DefaultGroup
  <2>2. GroupOf[p] \in MiddleGroups(desk)
    BY <1>1, <1>4, <2>1 DEF Settled
  <2> QED BY <1>0, <1>1, <1>4, <2>2 DEF MiddleGroups, DefaultGroup
<1> QED BY <1>2, <1>3, <1>4 DEF TypeOK
-----------------------------------------------------------------------------
(* The dialog, and the view of expert mode.                                *)

\* While the dialog asks, no widget of a mode is alive.
LEMMA DialogKept == ASSUME TypeOK, DialogAlone, [Next]_vars PROVE DialogAlone'
<1> USE DEF DialogAlone, Click, Choose
<1>1. CASE BasicMode \/ IntermediateMode \/ ExpertMode
  BY <1>1 DEF BasicMode, IntermediateMode, ExpertMode
<1>2. CASE CloseDialog \/ Run \/ Crash \/ ComeAgain
  BY <1>2 DEF CloseDialog, Run, Crash, ComeAgain
<1>3. CASE Radio
  BY <1>3 DEF Radio
<1>4. CASE \E t \in Toggle : GroupChanged(t)
  BY <1>4 DEF GroupChanged
<1>5. CASE \E g \in Group : CategoryChanged(g) \/ ToggleGroup(g)
  BY <1>5 DEF CategoryChanged, ToggleGroup
<1>6. CASE \E p \in Package : TogglePackage(p)
  BY <1>6 DEF TogglePackage
<1>7. CASE \E all \in BOOLEAN : SelectionClicked(all)
  BY <1>7 DEF SelectionClicked
<1>8. CASE UNCHANGED vars
  BY <1>8 DEF vars
<1> QED BY <1>1, <1>2, <1>3, <1>4, <1>5, <1>6, <1>7, <1>8 DEF Next

\* Every action keeps what expert mode shows in step with the flags.
LEMMA ViewKept ==
  ASSUME TypeOK, DialogAlone, ExpertShowsFlags, [Next]_vars
  PROVE  ExpertShowsFlags'
<1> USE DEF ExpertShowsFlags
<1>1. CASE BasicMode \/ IntermediateMode
  BY <1>1 DEF BasicMode, IntermediateMode, Choose
<1>2. CASE ExpertMode
  BY <1>2 DEF ExpertMode, Choose
<1>3. CASE CloseDialog \/ Crash \/ ComeAgain
  BY <1>3 DEF CloseDialog, Crash, ComeAgain, DialogAlone
<1>4. CASE Radio \/ \E t \in Toggle : GroupChanged(t)
  BY <1>4 DEF Radio, GroupChanged, Click
<1>5. ASSUME NEW g \in Group, CategoryChanged(g) PROVE ExpertShowsFlags'
  BY <1>5 DEF CategoryChanged, Click, Show, flags
<1>6. ASSUME NEW g \in Group, ToggleGroup(g) PROVE ExpertShowsFlags'
  BY <1>6 DEF ToggleGroup, Click, Show
<1>7. ASSUME NEW p \in Package, TogglePackage(p) PROVE ExpertShowsFlags'
  BY <1>7 DEF TogglePackage, Click
<1>8. ASSUME NEW all \in BOOLEAN, SelectionClicked(all) PROVE ExpertShowsFlags'
  BY <1>8, Zenon DEF SelectionClicked, Click
<1>9. CASE Run
  <2>1. mode = "expert" => UNCHANGED flags
    BY <1>9 DEF Run, Configure
  <2> QED BY <1>9, <2>1 DEF Run, view, flags
<1>10. CASE UNCHANGED vars
  BY <1>10 DEF vars
<1> QED BY <1>1, <1>2, <1>3, <1>4, <1>5, <1>6, <1>7, <1>8, <1>9, <1>10 DEF Next

-----------------------------------------------------------------------------
\* The invariant is inductive.
LEMMA InvKept == IInv /\ [Next]_vars => IInv'
<1> SUFFICES ASSUME IInv, [Next]_vars PROVE IInv'
  OBVIOUS
<1>1. TypeOK' /\ DialogAlone' /\ ExpertShowsFlags'
  BY TypesKept, DialogKept, ViewKept DEF IInv
<1>2. Settled'
  BY SettledKept DEF IInv
<1>3. TypeOK' /\ Settled' => OtherDesktopsOut'
  BY SettledIsOneDesktop, PTL
<1> QED BY <1>1, <1>2, <1>3 DEF IInv

\* The inductive invariant: types, the dialog, what runs have settled.
THEOREM Invariance == Spec => []IInv
BY InitInv, InvKept, PTL DEF Spec

\* The flags, the view and the targets keep their types.
THEOREM TypeCorrect == Spec => []TypeOK
<1>1. IInv => TypeOK
  BY DEF IInv
<1> QED BY <1>1, Invariance, PTL

\* No default desktop but the chosen one is collected in basic and intermediate
\* mode, for any groups and packages and any sequence of modes and clicks.
THEOREM OneDesktop == Spec => []OtherDesktopsOut
<1>1. IInv => OtherDesktopsOut
  BY DEF IInv
<1> QED BY <1>1, Invariance, PTL

\* Expert mode shows the flags run collects by.
THEOREM ExpertIsTrue == Spec => []ExpertShowsFlags
<1>1. IInv => ExpertShowsFlags
  BY DEF IInv
<1> QED BY <1>1, Invariance, PTL

\* A repeated run collects the same packages.
THEOREM RunIsRepeatable == Spec => SameAgain
<1>1. IInv /\ IInv' /\ [Next]_vars =>
        [fresh /\ fresh' /\ mode' = mode /\ desk' = desk => targets' = targets]_vars
  <2> SUFFICES ASSUME IInv, IInv', [Next]_vars, fresh, fresh', mode' = mode, desk' = desk
               PROVE  targets' = targets
    OBVIOUS
  <2>1. CASE UNCHANGED <<on, flag, mode, desk, targets, fresh>>
    BY <2>1
  <2>2. CASE Run
    <3>1. PICK d \in Active : desk' = d /\ Configure(d)
      BY <2>2 DEF Run
    <3>2. on' = on /\ flag' = flag
      BY <3>1 DEF IInv, Settled, Configure, ConfigureBasic, ConfigureIntermediate, flags
    <3>3. targets = Flagged(flag, on) /\ targets' = Flagged(flag', on')
      BY <2>2 DEF IInv, Settled, Run
    <3> QED BY <3>2, <3>3
  <2> QED BY <2>1, <2>2, Kinds DEF IInv
<1> QED BY <1>1, Invariance, PTL DEF Spec, SameAgain
=============================================================================
