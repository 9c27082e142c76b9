--------------------------- MODULE PackagesProofs ---------------------------
(***************************************************************************)
(* For any packages and any discs: pacman's handle and transaction are     *)
(* used as pacman requires, what was selected is installed but for what    *)
(* pacman refuses, and the pages implement Delivery.                       *)
(***************************************************************************)
EXTENDS Packages, TLAPS

InTransaction == {"trans", "prepare", "commit", "corrupt"}
Installing    == {"disc", "ask", "volume", "open"} \cup InTransaction

\* Where control can be on each page; install is reached from loaded lists.
Places ==
  /\ pc \in Installing => at = "install"
  /\ pc = "load" => at = "select"
  /\ pc = "question" => at = "source"
  /\ at \in {"install", "grub"} => db # "none"

\* When there is a handle: in a transaction of install, and from the loading of
\* the lists to the selection.
HandlePlaces ==
  /\ pc \in InTransaction => handle
  /\ at \in {"install", "grub"} /\ handle => pc \in InTransaction \cup {"ended"}
  /\ db = "none" /\ handle => pc \in {"ended", "hung"}

\* What is selected is installed, about to be, still looked for, or refused.
NothingLost ==
  /\ at \in {"install", "grub"} /\ pc # "ended" /\ ~gaveUp =>
       selected \subseteq installed \cup list \cup pkgs \cup refused
  /\ pc \notin {"open", "ended"} \cup InTransaction => list = {}
  /\ pc \in {"idle", "load", "question"} => pkgs = {}
  /\ ~srcdev => pkgs = {}

\* A transaction has the packages of the list but those that were refused.
TargetsOfList ==
  /\ targets \subseteq list
  /\ pc \in {"commit", "corrupt"} => list \subseteq targets \cup refused
  /\ pc \notin {"commit", "corrupt"} => targets = {}

Inv == TypeOK /\ TransactionsNested /\ Places /\ HandlePlaces /\ NothingLost /\ TargetsOfList

\* Only what is selected is worked on, as long as no freed list has been read.
OnlyWanted ==
  /\ packages \subseteq selected
  /\ stray => freed
  /\ ~stray => list \cup pkgs \subseteq selected

\* The invariant holds at the start.
LEMMA InitHasInv == Init => Inv
  BY DEF Init, Inv, TypeOK, TransactionsNested, Places, HandlePlaces,
         NothingLost, TargetsOfList, Page, Control, Lock, Installing, InTransaction, NoDisc

\* The pages before select: no list is being worked on.
LEMMA FirstPagesKeep ==
  ASSUME Inv,
         LockAppears \/ LeaveGreet \/ GreetFails \/ SearchFinds \/ NoSearch
           \/ LeaveSource \/ LeaveDisk \/ Back
  PROVE  Inv'
<1> USE DEF Inv, TypeOK, TransactionsNested, Places, HandlePlaces, NothingLost,
            TargetsOfList, Page, Control, Lock, Installing, InTransaction,
            Idle, GoTo, Stay, session, source, config, work, trade
<1>1. CASE LockAppears
  BY <1>1 DEF LockAppears
<1>2. CASE LeaveGreet
  <2>1. TypeOK'
    BY <1>2 DEF LeaveGreet
  <2>2. TransactionsNested' /\ Places' /\ HandlePlaces'
    BY <1>2 DEF LeaveGreet
  <2>3. NothingLost' /\ TargetsOfList'
    BY <1>2 DEF LeaveGreet
  <2>4. QED
    BY <2>1, <2>2, <2>3
<1>3. CASE GreetFails
  BY <1>3 DEF GreetFails
<1>4. CASE SearchFinds
  BY <1>4 DEF SearchFinds
<1>5. CASE NoSearch
  BY <1>5 DEF NoSearch
<1>6. CASE LeaveSource
  BY <1>6 DEF LeaveSource
<1>7. CASE LeaveDisk
  <2>1. TypeOK'
    BY <1>7 DEF LeaveDisk
  <2>2. TransactionsNested' /\ Places'
    BY <1>7 DEF LeaveDisk
  <2>3. HandlePlaces' /\ NothingLost' /\ TargetsOfList'
    BY <1>7 DEF LeaveDisk
  <2>4. QED
    BY <2>1, <2>2, <2>3
<1>8. CASE Back
  BY <1>8 DEF Back
<1>9. QED
  BY <1>1, <1>2, <1>3, <1>4, <1>5, <1>6, <1>7, <1>8

\* An installation that starts with all that is selected and not installed.
LEMMA StartKeeps ==
  ASSUME Inv, NEW pks \in SUBSET Pkg, StartInstall(pks),
         db # "none", pc = "idle", handle' = FALSE, trans' = trans, lock' = lock,
         UNCHANGED <<source, targets, installed>>, refused' \in SUBSET Pkg,
         packages' \in SUBSET Pkg, freed' \in BOOLEAN, selected' \in SUBSET Pkg,
         stray' \in BOOLEAN, gaveUp' \in BOOLEAN,
         ~gaveUp' => selected' \subseteq installed \cup pks \cup refused'
  PROVE  Inv'
<1> USE DEF Page, Control, Installing, InTransaction, GoTo, source
<1>1. TypeOK'
  BY DEF Inv, TypeOK, StartInstall
<1>2. TransactionsNested' /\ Places' /\ HandlePlaces'
  BY DEF Inv, TransactionsNested, Places, HandlePlaces, StartInstall
<1>3. list' \cup pkgs' = pks
  BY DEF StartInstall
<1>4. NothingLost'
  BY <1>3 DEF Inv, TypeOK, NothingLost, StartInstall
<1>5. TargetsOfList'
  BY DEF Inv, TargetsOfList, StartInstall
<1>6. QED
  BY <1>1, <1>2, <1>4, <1>5 DEF Inv

\* The select page keeps the invariant, whether the lists are there or loaded.
LEMMA SelectPageKeeps ==
  ASSUME Inv, AlreadyLoaded \/ Load \/ LoadFails \/ SelectFails \/ Select
  PROVE  Inv'
<1> USE DEF Idle, GoTo, Stay, session, source, config, work, trade
<1>1. CASE AlreadyLoaded
  BY <1>1 DEF AlreadyLoaded, Inv, TypeOK, TransactionsNested, Places,
              HandlePlaces, NothingLost, TargetsOfList, Page, Control, Installing, InTransaction
<1>2. CASE Load
  BY <1>2 DEF Load, Inv, TypeOK, TransactionsNested, Places,
              HandlePlaces, NothingLost, TargetsOfList, Page, Control, Installing, InTransaction
<1>3. CASE LoadFails
  <2>1. TypeOK'
    BY <1>3 DEF LoadFails, Inv, TypeOK, Control
  <2>2. TransactionsNested' /\ Places'
    BY <1>3 DEF LoadFails, Inv, TypeOK, TransactionsNested, Places, Installing, InTransaction
  <2>3. HandlePlaces' /\ NothingLost' /\ TargetsOfList'
    BY <1>3 DEF LoadFails, Inv, TypeOK, Places, HandlePlaces, NothingLost, TargetsOfList,
                InTransaction
  <2>4. QED
    BY <2>1, <2>2, <2>3 DEF Inv
<1>4. CASE SelectFails
  BY <1>4 DEF SelectFails, Inv, TypeOK, TransactionsNested, Places,
              HandlePlaces, NothingLost, TargetsOfList, Page, Control, Installing, InTransaction
<1>5. CASE Select
  <2>1. PICK pks \in SUBSET Pkg :
          packages' = pks /\ selected' = pks /\ StartInstall(pks)
    BY <1>5 DEF Select
  <2>2. db # "none"
    BY <1>5 DEF Select, Inv, HandlePlaces
  <2>3. QED
    BY <1>5, <2>1, <2>2, StartKeeps DEF Select
<1>6. QED
  BY <1>1, <1>2, <1>3, <1>4, <1>5

\* So does install entered again over a list whose nodes may be freed.
LEMMA ReinstallKeeps ==
  ASSUME Inv, Reinstall
  PROVE  Inv'
<1> USE DEF Idle, session, source, config, work, trade
<1>1. PICK pks \in SUBSET Pkg : StartInstall(pks)
  BY DEF Reinstall, Inv, TypeOK
<1>2. ~gaveUp => selected \subseteq installed \cup refused
  BY DEF Reinstall, Inv, NothingLost, InTransaction
<1>3. db # "none" /\ handle = FALSE
  BY DEF Reinstall, Inv, TypeOK, Places, HandlePlaces, InTransaction
<1>4. QED
  BY <1>1, <1>2, <1>3, StartKeeps DEF Reinstall, Inv, TypeOK

\* The loop over discs.
LEMMA DiscsKeep ==
  ASSUME Inv,
         LeaveInstall \/ ReinstallCrashes \/ NoMorePackages \/ FirstVolume
           \/ Eject \/ NextVolume \/ NoMoreDiscs \/ Volume
  PROVE  Inv'
<1> USE DEF Inv, TypeOK, TransactionsNested, Places, HandlePlaces, NothingLost,
            TargetsOfList, Page, Control, Lock, Installing, InTransaction, NoDisc, Done,
            Idle, GoTo, Stay, session, source, config, work, trade
<1>1. CASE LeaveInstall
  BY <1>1 DEF LeaveInstall
<1>2. CASE ReinstallCrashes
  BY <1>2 DEF ReinstallCrashes
<1>3. CASE NoMorePackages
  BY <1>3 DEF NoMorePackages
<1>4. CASE FirstVolume
  BY <1>4 DEF FirstVolume
<1>5. CASE Eject
  BY <1>5 DEF Eject
<1>6. CASE NextVolume
  BY <1>6 DEF NextVolume
<1>7. CASE NoMoreDiscs
  BY <1>7 DEF NoMoreDiscs
<1>8. CASE Volume
  <2>1. list' \cup pkgs' = pkgs
    BY <1>8 DEF Volume
  <2>2. freed' \in BOOLEAN /\ packages' \subseteq Pkg
    BY <1>8 DEF Volume
  <2>3. QED
    BY <1>8, <2>1, <2>2 DEF Volume
<1>9. QED
  BY <1>1, <1>2, <1>3, <1>4, <1>5, <1>6, <1>7, <1>8

\* install_pkgs.
LEMMA TransactionKeeps ==
  ASSUME Inv,
         NothingToInstall \/ Open \/ OpenFails \/ BeginTransaction \/ RemoveLock
           \/ TransactionFails \/ Prepare \/ Corrupted \/ DownloadAgain \/ Commit
  PROVE  Inv'
<1> USE DEF Inv, TypeOK, TransactionsNested, Places, HandlePlaces, NothingLost,
            TargetsOfList, Page, Control, Lock, Installing, InTransaction, Returns0,
            Idle, GoTo, Stay, session, source, config, work, trade
<1>1. CASE NothingToInstall
  BY <1>1 DEF NothingToInstall
<1>2. CASE Open
  BY <1>2 DEF Open
<1>3. CASE OpenFails
  BY <1>3 DEF OpenFails
<1>4. CASE BeginTransaction
  BY <1>4 DEF BeginTransaction
<1>5. CASE RemoveLock
  BY <1>5 DEF RemoveLock
<1>6. CASE TransactionFails
  <2>1. installed' \subseteq Pkg
    BY <1>6 DEF TransactionFails
  <2>2. QED
    BY <1>6, <2>1 DEF TransactionFails
<1>7. CASE Prepare
  <2>1. /\ targets' \subseteq list /\ list \subseteq targets' \cup refused'
        /\ refused \subseteq list \cup refused'
    BY <1>7 DEF Prepare
  <2>2. TypeOK'
    BY <1>7, <2>1 DEF Prepare
  <2>3. TransactionsNested' /\ Places' /\ HandlePlaces'
    BY <1>7 DEF Prepare
  <2>4. NothingLost' /\ TargetsOfList'
    BY <1>7, <2>1 DEF Prepare
  <2>5. QED
    BY <2>2, <2>3, <2>4
<1>8. CASE Corrupted
  BY <1>8 DEF Corrupted
<1>9. CASE DownloadAgain
  <2>1. TypeOK'
    BY <1>9 DEF DownloadAgain
  <2>2. TransactionsNested' /\ Places' /\ HandlePlaces'
    BY <1>9 DEF DownloadAgain
  <2>3. NothingLost' /\ TargetsOfList'
    BY <1>9 DEF DownloadAgain
  <2>4. QED
    BY <2>1, <2>2, <2>3
<1>10. CASE Commit
  <2>1. TypeOK'
    BY <1>10 DEF Commit
  <2>2. TransactionsNested' /\ Places' /\ HandlePlaces'
    BY <1>10 DEF Commit
  <2>3. NothingLost' /\ TargetsOfList'
    BY <1>10 DEF Commit
  <2>4. QED
    BY <2>1, <2>2, <2>3
<1>11. QED
  BY <1>1, <1>2, <1>3, <1>4, <1>5, <1>6, <1>7, <1>8, <1>9, <1>10

\* Steps that take no package to a list.
LEMMA WantedStay ==
  ASSUME OnlyWanted, UNCHANGED <<selected, stray>>, packages' \subseteq packages,
         freed => freed', list' \cup pkgs' \subseteq list \cup pkgs
  PROVE  OnlyWanted'
  BY DEF OnlyWanted

\* Volume sorts what it finds out of one list into another, and install begins
\* with config's list, which is what was selected unless it was freed.
LEMMA WantedKept ==
  ASSUME Inv, OnlyWanted, Next
  PROVE  OnlyWanted'
<1> USE DEF config, work, trade
<1>1. CASE Volume
  <2>1. /\ UNCHANGED <<selected, stray>> /\ packages' \subseteq packages
        /\ freed => freed'
    BY <1>1 DEF Volume, Inv, TypeOK
  <2>2. list' \cup pkgs' \subseteq list \cup pkgs
    BY <1>1 DEF Volume
  <2>3. QED
    BY <2>1, <2>2, WantedStay
<1>2. CASE Select
  BY <1>2 DEF Select, StartInstall, OnlyWanted
<1>3. CASE Reinstall
  <2>1. PICK pks \in IF freed THEN SUBSET Pkg ELSE {packages} : StartInstall(pks)
    BY <1>3 DEF Reinstall
  <2>2. stray' = freed /\ UNCHANGED <<packages, freed, selected>>
    BY <1>3 DEF Reinstall
  <2>3. list' \cup pkgs' = pks
    BY <2>1 DEF StartInstall
  <2>4. freed \in BOOLEAN /\ packages \subseteq selected
    BY DEF Inv, TypeOK, OnlyWanted
  <2>5. ~freed => pks = packages
    BY <2>1
  <2>6. QED
    BY <2>2, <2>3, <2>4, <2>5 DEF OnlyWanted
<1>4. CASE NoMorePackages \/ NoMoreDiscs
  BY <1>4, WantedStay DEF NoMorePackages, NoMoreDiscs, Done
<1>5. CASE NothingToInstall \/ Commit
  BY <1>5, WantedStay DEF NothingToInstall, Commit, Returns0
<1>6. CASE UNCHANGED <<packages, freed, selected, stray, pkgs, list>>
  BY <1>6, WantedStay
<1>7. QED
  BY <1>1, <1>2, <1>3, <1>4, <1>5, <1>6
  DEF Next, Install, LockAppears, LeaveGreet, GreetFails, SearchFinds, NoSearch, LeaveSource,
      LeaveDisk, Back, AlreadyLoaded, Load, LoadFails, SelectFails, LeaveInstall,
      ReinstallCrashes, FirstVolume, Eject, Open, OpenFails, BeginTransaction, RemoveLock,
      TransactionFails, Prepare, Corrupted, NextVolume, DownloadAgain

\* The invariant is inductive.
LEMMA NextKeepsInv == Inv /\ [Next]_vars => Inv'
<1> SUFFICES ASSUME Inv, [Next]_vars PROVE Inv'
  OBVIOUS
<1>1. CASE UNCHANGED vars
  BY <1>1 DEF vars, Inv, TypeOK, TransactionsNested, Places, HandlePlaces,
              NothingLost, TargetsOfList
<1>2. CASE Next
  BY <1>2, FirstPagesKeep, SelectPageKeeps, ReinstallKeeps, DiscsKeep,
     TransactionKeeps DEF Next, Install
<1>3. QED
  BY <1>1, <1>2

\* Both parts of the invariant together.
IInv == Inv /\ OnlyWanted

\* Nothing is wanted at the start.
LEMMA InitHasIInv == Init => IInv
  BY InitHasInv DEF IInv, OnlyWanted, Init

\* So are both parts.
LEMMA NextKeepsIInv == IInv /\ [Next]_vars => IInv'
<1> SUFFICES ASSUME IInv, [Next]_vars PROVE IInv'
  OBVIOUS
<1>1. Inv'
  BY NextKeepsInv DEF IInv
<1>2. OnlyWanted'
  <2>1. CASE Next
    BY <2>1, WantedKept DEF IInv
  <2>2. CASE UNCHANGED vars
    BY <2>2 DEF vars, IInv, OnlyWanted
  <2>3. QED
    BY <2>1, <2>2
<1>3. QED
  BY <1>1, <1>2 DEF IInv

-----------------------------------------------------------------------------
\* The strengthening that makes the theorems below inductive.
THEOREM Invariance == Spec => []IInv
<1>1. QED
  BY InitHasIInv, NextKeepsIInv, PTL DEF Spec

\* Every variable keeps its type, for any packages and discs.
THEOREM TypeCorrect == Spec => []TypeOK
<1>1. IInv => TypeOK
  BY DEF IInv, Inv
<1>2. QED
  BY <1>1, Invariance, PTL

\* No failure or retry of install_pkgs leaves a transaction behind.
THEOREM TransactionsAreNested == Spec => []TransactionsNested
<1>1. IInv => TransactionsNested
  BY DEF IInv, Inv
<1>2. QED
  BY <1>1, Invariance, PTL

\* pacman_initialize is only called when there is no handle.
THEOREM InitializedWhenClosed == Spec => []InitializedOnce
<1>1. IInv => InitializedOnce
  BY DEF IInv, Inv, Places, HandlePlaces, InitializedOnce, Installing, InTransaction
<1>2. QED
  BY <1>1, Invariance, PTL

\* For any packages spread over any discs: unless the user gives up, all that
\* was selected is installed when install is left, but for what pacman refused
\* to add, whatever was swapped, downloaded again, or read from a freed list.
THEOREM SelectedIsInstalled == Spec => []InstalledAsSelected
<1>1. IInv => InstalledAsSelected
  BY DEF IInv, Inv, NothingLost, InstalledAsSelected, InTransaction
<1>2. QED
  BY <1>1, Invariance, PTL

-----------------------------------------------------------------------------
(* Delivery.                                                               *)

\* What Delivery sees of the pages does not change.
Unseen == UNCHANGED <<selected, installed, refused, gaveUp, stray>>

\* The pages before install, and its Back and Forward.
LEMMA PagesDeliver ==
  ASSUME IInv,
         LockAppears \/ LeaveGreet \/ GreetFails \/ SearchFinds \/ NoSearch
           \/ LeaveSource \/ LeaveDisk \/ Back \/ AlreadyLoaded \/ Load \/ LoadFails
           \/ SelectFails \/ LeaveInstall \/ ReinstallCrashes
  PROVE  [D!Next]_(D!delivery)
<1>1. Unseen
  BY DEF Unseen, config, work, trade, LockAppears, LeaveGreet, GreetFails, SearchFinds, NoSearch,
         LeaveSource, LeaveDisk, Back, AlreadyLoaded, Load, LoadFails, SelectFails,
         LeaveInstall, ReinstallCrashes
<1>2. \/ Phase' = Phase
      \/ Phase # "over" /\ Phase' = "over"
      \/ Phase = "rest" /\ Phase' = "choose"
  BY DEF IInv, Inv, Places, Installing, InTransaction, Phase, Idle, GoTo, Stay,
         LockAppears, LeaveGreet, GreetFails, SearchFinds, NoSearch,
         LeaveSource, LeaveDisk, Back, AlreadyLoaded, Load, LoadFails, SelectFails,
         LeaveInstall, ReinstallCrashes
<1>3. CASE Phase' = Phase
  BY <1>1, <1>3 DEF Unseen, D!delivery
<1>4. CASE Phase # "over" /\ Phase' = "over"
  BY <1>1, <1>4 DEF Unseen, D!Next, D!Abort
<1>5. CASE Phase = "rest" /\ Phase' = "choose"
  BY <1>1, <1>5 DEF Unseen, D!Next, D!Reconsider
<1>6. QED
  BY <1>2, <1>3, <1>4, <1>5

\* Selecting packages is an order.
LEMMA SelectOrders ==
  ASSUME IInv, Select
  PROVE  D!Order
<1>1. Phase = "choose" /\ Phase' = "work"
  BY DEF Select, StartInstall, Idle, GoTo, Phase
<1>2. /\ selected' \in SUBSET Pkg /\ gaveUp' = FALSE /\ stray' = FALSE
      /\ refused' = {} /\ installed' = installed
  BY DEF Select
<1>3. QED
  BY <1>1, <1>2 DEF D!Order

\* Entering install again works on the same order, or on a list that was freed.
LEMMA ReinstallsAgain ==
  ASSUME IInv, Reinstall
  PROVE  D!Again
<1>1. Phase = "rest" /\ Phase' = "work"
  BY DEF Reinstall, StartInstall, Idle, GoTo, Phase
<1>2. stray' \in {stray, TRUE} /\ UNCHANGED <<selected, installed, refused, gaveUp>>
  BY DEF Reinstall, trade, IInv, Inv, TypeOK, OnlyWanted
<1>3. QED
  BY <1>1, <1>2 DEF D!Again

\* Packages are added to the transaction, or refused.
LEMMA PrepareAsks ==
  ASSUME IInv, Prepare
  PROVE  D!Ask
<1>1. Phase = "work" /\ Phase' = Phase
  BY DEF IInv, Inv, Places, Installing, InTransaction, Phase, Prepare, Stay
<1>2. UNCHANGED <<selected, installed, gaveUp, stray>>
  BY DEF Prepare, config
<1>3. list \in SUBSET IF stray THEN Pkg ELSE selected
  BY DEF IInv, Inv, TypeOK, OnlyWanted
<1>4. list \ targets' \in SUBSET list /\ refused' = (refused \ list) \cup (list \ targets')
  BY DEF Prepare
<1>5. QED
  BY <1>1, <1>2, <1>3, <1>4 DEF D!Ask

\* The installation, up to its end.
LEMMA InstallDelivers ==
  ASSUME IInv, IInv', Install \/ NextVolume \/ DownloadAgain, ~Prepare
  PROVE  [D!Next]_(D!delivery)
<1>1. UNCHANGED <<selected, refused, stray, gaveUp>>
  BY DEF Install, config, work, trade, NoMorePackages, FirstVolume, Eject, Volume, NothingToInstall,
         Open, OpenFails, BeginTransaction, RemoveLock, TransactionFails, Prepare, Corrupted,
         Commit, NextVolume, DownloadAgain
<1>2. Phase = "work" /\ at = "install" /\ at' = "install"
  BY DEF IInv, Inv, Places, Installing, InTransaction, Phase, Stay, Returns0, Done,
         Install, NoMorePackages, FirstVolume, Eject, Volume, NothingToInstall,
         Open, OpenFails, BeginTransaction, RemoveLock, TransactionFails, Prepare, Corrupted,
         Commit, NextVolume, DownloadAgain
<1>3. Phase' \in {"work", "rest", "over"}
  BY <1>2 DEF Phase
<1>4. Phase' = "rest" /\ ~gaveUp => selected \ refused \subseteq installed'
  <2>1. Phase' = "rest" => pc' = "idle"
    BY <1>2 DEF Phase
  <2>2. QED
    BY <1>1, <1>2, <2>1 DEF IInv, Inv, NothingLost, InTransaction
<1>5. \E items \in SUBSET list : installed' = installed \cup items
  <2>1. CASE installed' = installed
    <3>1. {} \in SUBSET list /\ installed' = installed \cup {}
      BY <2>1
    <3>2. QED
      BY <3>1
  <2>2. CASE TransactionFails
    <3>1. CASE pc = "commit"
      <4>1. PICK s \in SUBSET targets : installed' = installed \cup s
        BY <2>2, <3>1 DEF TransactionFails
      <4>2. targets \subseteq list
        BY DEF IInv, Inv, TargetsOfList
      <4>3. QED
        BY <4>1, <4>2
    <3>2. CASE pc # "commit"
      BY <2>1, <2>2, <3>2 DEF TransactionFails
    <3>3. QED
      BY <3>1, <3>2
  <2>3. CASE Commit
    <3>1. targets \in SUBSET list /\ installed' = installed \cup targets
      BY <2>3 DEF Commit, IInv, Inv, TargetsOfList
    <3>2. QED
      BY <3>1
  <2>4. QED
    BY <2>1, <2>2, <2>3
    DEF Install, work, trade, NoMorePackages, FirstVolume, Eject, Volume, NothingToInstall,
        Open, OpenFails, BeginTransaction, RemoveLock, Corrupted,
        NextVolume, DownloadAgain
<1>6. list \subseteq IF stray THEN Pkg ELSE selected
  BY DEF IInv, Inv, TypeOK, OnlyWanted
<1>7. D!Deliver
  BY <1>1, <1>2, <1>3, <1>4, <1>5, <1>6 DEF D!Deliver
<1>8. QED
  BY <1>7 DEF D!Next

\* The user has no more discs.
LEMMA NoMoreDiscsGivesUp ==
  ASSUME IInv, NoMoreDiscs
  PROVE  D!GiveUp
<1>1. Phase = "work" /\ Phase' = "rest"
  BY DEF NoMoreDiscs, Done, Stay, Phase, IInv, Inv, Places, Installing
<1>2. gaveUp' = TRUE /\ UNCHANGED <<selected, installed, refused, stray>>
  BY DEF NoMoreDiscs, config, trade
<1>3. QED
  BY <1>1, <1>2 DEF D!GiveUp

\* Every step of the pages is a step of Delivery or leaves it unchanged.
THEOREM Implementation == Spec => ImplementsDelivery
<1>1. Init => D!Init
  BY DEF Init, D!Init, Phase
<1>2. IInv /\ IInv' /\ [Next]_vars => [D!Next]_(D!delivery)
  <2> SUFFICES ASSUME IInv, IInv', [Next]_vars PROVE [D!Next]_(D!delivery)
    OBVIOUS
  <2>1. CASE Select
    BY <2>1, SelectOrders DEF D!Next
  <2>2. CASE Reinstall
    BY <2>2, ReinstallsAgain DEF D!Next
  <2>3. CASE NoMoreDiscs
    BY <2>3, NoMoreDiscsGivesUp DEF D!Next
  <2>4. CASE Prepare
    BY <2>4, PrepareAsks DEF D!Next
  <2>5. CASE UNCHANGED vars
    BY <2>5 DEF vars, D!delivery, Phase
  <2>6. QED
    BY <2>1, <2>2, <2>3, <2>4, <2>5, PagesDeliver, InstallDelivers DEF Next
<1>3. QED
  BY <1>1, <1>2, Invariance, PTL DEF Spec, ImplementsDelivery, D!Spec
=============================================================================
