# fwife, specified

fwife is Frugalware's graphical installer: a GTK assistant whose pages are
plugins.  This directory specifies its engine and the pages whose state decides
what ends up on the disk: TLA+ modules translated from `src/src`, TLC
configurations for small instances, and proofs that TLAPS checks.

    tlc -config Wizard_core.cfg MCWizard      # module and cfg of each run: PROJECT.json
    tlapm WizardProofs.tla

`PROJECT.json` has the machine-readable part: runs, the lines each definition
models, a fault for every property (the operators named `...Slip`, none of which
is part of a specification), hazards, findings and theorems.

## 1. The system

### Components

| component | state | operations | correct when |
|---|---|---|---|
| engine, `fwife.c` | `plugin_list`, `plugin_active`, the assistant's page and the completion of each page, the global `config` list | `plugin_next`, `plugin_previous`, `skip_to_next_plugin`, `set_page_[in]completed`, `cancel`, `close`, `fwife_exit` | page and plugin stay together, every page is run before the later ones use its result, a click never interrupts another, nothing is called in an unloaded plugin, the user is never left without a button |
| asklang, layout | `LANG`, the list of keyboards, the files `lang.sh` and `keymap` under `/tmp` | choose, add a keyboard, write | the files reach the target; console and X have the keyboard that was chosen |
| greet | pacman's handle, a local database | run: initialize, register, release | the handle is left as it was found |
| configsource, -discs, -network | list of mirrors and its file, `srcdev`, what is mounted at `SOURCEDIR`, `netprofile`, the running connection, alarm and jump buffer of `is_connected` | ask, search a disc, mount it; `run_net_config`; try, toggle, add, remove and write mirrors | `config` says what the user answered last; the profile saved is the one netconf applies; no mirror is lost, used ones come first; an attempt to connect ends, and only its own answer counts |
| formatdisk, `partdisk.c` | device and partition lists with mount points, `rootpart_selected`, what is mounted under `TARGETDIR`, `fstab`, `swap` | mount point, format, root, swap, gparted; run | one root; the page complete exactly then; mounts, `fstab` and copied files agree with the choice, as far as mounts and copies succeed |
| select and its three modes | `cats`, `all_packages` and their flags, `selected_mode`, `mode_widget`, static widgets of each mode | prerun (load), dialog for the mode, every button, configure, run (resolve, check size) | what is collected is what is shown and fits the desktop chosen |
| install | `config`'s `packages`, pacman's handle and transaction, the disc | prerun: `install_pkgs`, `install_pkgs_discs` | everything selected is installed, or the user was told |
| grubconfig, rootconf, usersconf, timeconfig, configuration | files of the target, the list of users, entries and rows that outlive a visit | forms, commands run in a chroot | all work in the one root that packages were installed on, with `/dev`, `/proc` and `/sys`; files hold what was entered |
| netconf | `fwnet` profile, `interfaceslist`, the rows, `lastprofile` | prerun, configure, remove, dsl, run | what is written is what was shown; a profile is used while it is allocated |
| dialogs, utilities | none | `fwife-message.c`, `util.c` | |
| pacman-g2, libfwnetconfig, GTK, parted, mount | external | | used by their rules |

### Interactions

- The engine calls `load_gui_plugin`, `prerun` and `run` of a plugin on clicks; a
  plugin calls back `set_page_completed`, `skip_to_next_plugin`, or pumps the
  event loop (`install`), which lets clicks in while a handler is in progress.
- Pages talk to each other through `config` (`LANG`, `srcdev`, `packages`,
  `netprofile`, ...), whose entries are never removed when a user goes back.
- `greet`, `select` and `install` share pacman's one global handle.
- formatdisk mounts the target that every later page writes to; `install` and the
  exit mount and unmount `/dev`, `/proc`, `/sys` in it.
- `configsource-discs` mounts the disc that `select` and `install` read.

### What is hard

There are no threads.  The hazards come from *sequences*: Back and Forward over
pages whose static state outlives a visit; handlers inside handlers; retries
(`goto retry`, discs swapped, downloads repeated, connections tried again); steps
that fail between two others, often with nobody looking at their result (`mount`,
`umount`, `copyfile`, `makepath`, `g_remove`, most commands in a chroot); memory freed by whoever
comes first.  A test would have to click through an installation to reach any of them.  `PROJECT.json` lists
each at its line.  Only the file of mirrors of the live system outlives the
program; `Mirrors` has the restart that reads it.

## 2. Modules

| module | models | actions |
|---|---|---|
| `Tour` | abstract: what the engine promises | pass, step back, complete, abort |
| `Delivery` | abstract: what the installer promises of packages | order, ask, deliver, give up, again, reconsider, abort |
| `Wizard` | `fwife.c` | one for each click; one for each way a `run` or a `prerun` in progress can return, skip or fail |
| `PartDisk` | `partdisk.c` | one for each button of the page, gparted's return, run and its failure, coming back |
| `Packages` | `greet.c`, `configsource-discs.c`, `select.c`, `install.c` around pacman's handle | one for each page left, disc searched, step of a transaction and way it fails |
| `Selection` | `select-*.c` and run of `select.c` | one for each button and list of the three modes, the dialog, run, coming back |
| `Network` | `configsource-network.c`, `netconf.c` | one for each dialog and way out of it, each button, run, Back |
| `Connect` | `is_connected` of `configsource-network.c` | one for each step of an attempt, the kernel's answer, the alarm |
| `Mirrors` | `configsource.c`, with `Connect` | disc or network, each step of the loop over mirrors, each button, run, Back, restart |
| `Target` | what is mounted at `TARGETDIR`: run of formatdisk, prerun and run of `install.c`, `grubconf.c`, `fwife_exit` | one for each page left or entered, gparted, the end |
| `Accounts` | `rootconf.c`, `usersconf.c` | one for each entry and button, run |
| `Settings` | `layout.c`, `timeconf.c`, `postconf.c`, copy of the keymap in `partdisk.c` | one for each list and button, run, prerun |
| `Installed` | `Target`, `Accounts` and `Settings` together | theirs |
| `MC...` | instances | |
| `Recursion` | nothing of the code: induction and recursion over data, for the proofs | |
| `...Proofs` | theorems | |

**Wizard.**  `stack` holds the handlers in progress, as frames `[at, plugin]`:
`plugin_next` waiting in `run`, in `prerun`, in a prerun that pumps the event loop
(`working`), or suspended because that prerun called `skip_to_next_plugin`
(`skipped`).  A plugin is only what it can do to the engine: its type, its initial
completion, the values `run` and `prerun` can return, whether its prerun skips,
works or leaves a modal window.  `page` is GTK's current page and changes by GTK's
own handler first and by `gtk_assistant_set_current_page` after; `active` is
`plugin_active`.  `ran` and `after` are history variables for the refinement.
`Wizard` implements `Tour` with `at <- active`, `passed <- ran`, `later <- after`.

**PartDisk.**  `mount` and `type` are the fields of the partitions;
`rootpart_selected` is the pointer, which after gparted may point into a list that
was freed and built again (`Repointed`: it may meet any partition or none).
`mounted` is the kernel's table of mounts in order, with hiding; `Unmounts` models
`umount_if_needed` with its comparison by prefix (`sda1` meets `sda10`).  `Sorted`
is GLib's merge sort with the page's comparison, in which a missing mount point
equals everything; `AllPartitions` joins the lists of the devices, and `Plan` is the list
`mountdev` is called for.  `fstab` and `files` are what run writes.  `Leave` is the whole
of run: sort, mount each partition (any of which may fail), write `fstab`, copy it
and the files of the earlier pages, and unlink the sources.  A copy may fail, before or after the
target's file was opened for writing, and the source is unlinked all the same; `missed` is
history, the files whose last copy failed.

**Packages.**  `at` and `pc` say where control is; `handle`, `trans`, `lock` are
pacman; `db`, `srcdev`, `answer`, `disc` where packages come from; `lock` is a
file of another pacman: "stale", or "stuck" when it cannot be removed, or pacman's own
cannot be made (a root that is full or read-only).  `packages` and
`freed` are `config`'s pointer to a list whose nodes `install` takes out and frees;
`first`, `pkgs`, `list` the locals of `install_pkgs_discs`.  `targets` are
those of the list that pacman took into the transaction; the others are only logged.  `refused`
is history, the packages it would not take when last asked, and `stray` too: a list
was read after it was freed.  `Packages` implements `Delivery` with `wanted <- selected`, `delivered <-
installed`, `denied <- refused`, `short <- gaveUp`, `blind <- stray` and `phase <- Phase`.  The engine is present as Forward and
Back between the pages: which of them are possible is what `Wizard` allows.

**Selection.**  `on` and `flag` are the flags of groups and packages, which outlive
visits and modes.  `widget` is "none", "alive" or "destroyed", since `mode_widget`
and each mode's static widgets stay behind when the dialog is closed; asking a
destroyed radio button which desktop is active may give any answer or crash.
`boxes`, `listed`, `ticks`, `sensitive` are the copies of the flags that expert mode
shows.  Each table of groups and packages is taken from the code, with one
package for each part a name plays.

**Network.**  One profile for each page, with `live` telling whether it is still
allocated; `netprofile` is `config`'s pointer, and `saved` history: what it had in it when it was saved.
What runs on the live system is not known to the program, nor claimed by the model: `lastprofile` is
what netconfig has noted, perhaps long ago (any of `Found` at first, and `netconfig start` may fail);
a lease of dhcpcd may be of any interface, in any order (`UseDhcp(i)`).  `shown` is the column of the page,
kept in the widget while `newprofile` comes and goes with the visits.

**Connect, Mirrors.**  `pc` is where `is_connected` is; the alarm may ring between
any two of its steps, also before `setjmp`, when the buffer is empty or of a call
that has returned.  After the handler has jumped out, `SIGALRM` is `blocked` for
the rest of the process.  `at` is where the page is; `rows` and `loaded` outlive a
visit, `file` a start of the program.  `Mirrors` extends `Connect` and runs one attempt for each mirror.

**Target, Accounts, Settings, Installed.**  `stack` is what is mounted at
`TARGETDIR`, each mount with the number of times `/dev`, `/proc` and `/sys` are
bound in it; a page in a chroot sees the one on top (`Here`).  `home`, `height` and
`entered` are history.  Every bind mount may fail (or the `makepath` before it), and every `umount` of the
exit may be refused; `failed` and `busy` are history, the directories that this happened to.
`Accounts` keeps accounts and sudoers per file system, and
the list of users and the two password entries of the pages; `asked` is who was to
have root privileges when last added.  The line of `/etc/sudoers` is appended by a shell and deleted by `sed`,
each of which may fail after `useradd` or `userdel` succeeded; `unwritten` and `kept` are history, the names
whose line could not be written or deleted.  The root password stands between single quotes in a
command of a shell: of the texts in `Marked` (those with a quote) the shell may make
any text, and only the others are set as typed (`LeaveRoot(t)`).  `Settings` has both routes of a keyboard: `temp`
(the file that `CopyKeymap` moves, or loses when the copy fails, see `missed`) and `xconfig`.  `LeaveDisk` and `CopyKeymap` are two
parts of one step, the run of formatdisk.  `Target` takes two facts from other modules:
a root that is on top is not mounted again (`PartDisk`), and `select` releases pacman's
handle for good (`Packages`).  The page "crashed" is a program that ended without `fwife_exit`.

`Selection`, `Packages` and `Network` each start where the engine enters the page; they
share no state but the result of select, the set `selected`, which `Packages` takes
as any set of packages and `Selection` determines.

## 3. What TLC checks

| run | instance | distinct states | bounds |
|---|---|---|---|
| `wizard` | ten plugins of the thirteen, with the real types, results, skips | 655 759 | none |
| `partdisk` | two disks, `sda1`, `sda10`, `sdb1`; `/`, `/usr`, `/usr/local`, swap, the empty text | 4 462 760 | 3 operations, 3 runs |
| `packages` | three packages on two discs, two of them newer in the repository; a lock that is stale, stuck or not there | 139 091 | none |
| `selection` | eleven packages in nine groups, four check buttons | 1 845 559 | 3 clicks, 3 visits |
| `network` | two interfaces; no profile noted before, one of one interface, or one of both | 3 206 521 | 3 buttons, 4 visits |
| `mirrors` | two shipped mirrors, one preferred; two of the user's, one without a directory | 485 748 | 3 rows |
| `installed` | two roots; with packages or without; users `ann` and `joann`; a password that the shell leaves alone and one that it does not; a shipped keyboard and one's own | 2 607 183, up to the names of the roots | 2 runs of formatdisk, 2 entries of install, 3 operations on forms, 5 of them together |

*Why these bounds.*  `wizard` leaves out layouts that repeat one (`grubconfig`,
`usersconf` and `configuration` return what others of the list return); it covers a
skip, a work page, a page that is only complete after a choice and the last page.
Two partitions on a disk, one named by a prefix of the other, are needed for the
prefix comparison, a second disk for the list of another device; three
operations give root, a directory and one below it or swap, in any order and between any
runs, and three runs are a root, another one, and the first again.  What a fourth operation adds to the
lists is covered by the proofs, which bound nothing.  In `packages` two discs and a package
with another version in the repository are what makes a disc useful, useless and used
twice.  Three visits of select meet every ordered pair of modes and a third after
them.  Four entries of the network pages are source, netconf, back, netconf.  In
`mirrors` the attempts of `run_net_config` come before those of the loop and may already have blocked
the signal; a third row is a mirror of the user's, which a restart reads back.  In
`installed` two roots can be mounted over each other, two entries of install bind twice,
`joann` ends with `ann` (what `sed` removes), and three operations are add, remove, add, or two entries and a third.
All at once would be too many states, with every command failing or not: `Budget` bounds visits, entries
and operations together, which leaves one visit and entry with three operations, and two of either or of both with what
remains of the five.  The roots are interchangeable (`Symmetry`): the model only compares them.
A
longer history repeats these; where that is not obvious it is proved (below).

*The properties.*

- `wizard`: `PageFollowsActive`; `NoReentrantClick`; `NoReturnIntoUnloaded`;
  `RanInOrder` (each page's last run was after that of all before it);
  `StuckOnlyBehindModal`; and `ImplementsTour`, the refinement.
- `partdisk`: `OneRoot`, `CompleteIffRoot`; `SortedWhenAllMounted` (the comparison
  does sort when nothing is NULL); `MountedAsListed` (over three runs, old mounts
  never hide new ones); `FstabOnRoot` (the root that is there gets `fstab`, unless that copy failed).
- `packages`: `TransactionsNested`, `InitializedOnce` (pacman used by its rules);
  `ImplementsDelivery`, the refinement (work comes to rest only when everything selected is
  installed, but for what pacman refused to take into a transaction, or the user has said that
  there are no more discs; nothing else is installed, except from a list that was freed);
  `WorkReachesUser` (no retry goes on for ever but the one on a lock that cannot be removed or made).
- `selection`: `OtherDesktopsOut`, `ExpertShowsFlags`, `SameAgain`.
- `network`: `WrittenAsShown`, `OwnProfile`, `AppliedAsSaved` (run appends to the saved
  profile in place; it is applied as it was saved, over all visits).
- `mirrors`: `NoLateAlarm` (no attempt leaves an alarm that would jump into a call that
  has returned); `GoodIfAnswered` (a row is good for its own answer only); `ShippedStay`,
  `UsedFirst` (what is written, over visits and starts); `TestingEnds`.
- `installed`: `SystemInRoot`, `NothingLeftBound` (what is bound, whatever way pages are
  passed and the program ends); `OneSystem` (everything installed is on one root);
  `UsersAsListed`, `PasswordTypedTwice`, `KeyboardsAgree`, `ZoneIsCity`.  The exceptions name what has failed:
  directories whose mount or umount was refused, lines of sudoers that could not be written or deleted, a keymap
  that was not copied.  `NothingLeftBound` is about one entry of install and no root mounted over its: a
  second entry binds what is never unmounted.  `KeyboardsAgree` is about one
  root: with a root, another and the first again, X gets the last choice and the console of the first root the
  first one.  `UsersAsListed` excepts a name that ends with another one, whose line in
  sudoers goes with the other's.  `PasswordTypedTwice` says of any text when it is set, and of one the shell leaves
  alone that it is the one set.

*Deadlock* is not checked: each model may really stop, since the user can leave the
pages it is about, cancel, or meet an error that ends the program.
`StuckOnlyBehindModal` says instead, for the engine, that the user always has a
button, with the one exception the code has.

*Fairness.*  `Mirrors` assumes that the program goes on with its loop
(`WF_vars(Loop)`, one thread) and that the kernel answers a connect, if only that
nobody answers: TCP gives up at last.  The alarm has no fairness; `TestingEnds` does not need it,
which is as well since it rings once at most (below).  `Packages` assumes `WF_vars(Install)`, where `Install` are the
steps of `install_pkgs` and `install_pkgs_discs`.  They are ordinary calls in one thread that
return; the answers of the user (`ask`, `corrupt`) are not among them.  A foreign lock in
the target appears, or its file system gets full or read-only, only while no handler is in progress or
a dialog is waited for (`LockAppears`); a pacman-g2 that is run on the target just while
install is in its loop is left out.  A lock that is stale is removed once; a stuck one keeps install in
`goto retry` for ever, which `WorkReachesUser` names as the only endless loop.  It would fail if the file removed were
not the one pacman looks at.

### Where the code does not do what it says

Five runs expect a violation; each property quotes the repository.

| run | the code says | and does |
|---|---|---|
| `files_delivered` | "Copy files into new locations", `partdisk.c:1122` | the sources are unlinked: a root chosen on a second visit gets no `lang.sh` and `keymap` |
| `selection_resumes` | "if previous loaded (previous button used) do nothing", `select.c:298` | run has released pacman; coming back can only fail |
| `network_when_no` | "if you want a network installation, you should answer 'No'", `configsource-discs.c:163` | `srcdev` of an earlier Yes stays, and discs are used |
| `timeout_once` | "Used to timeout a connect", `configsource-network.c:55` | the handler jumps out with `SIGALRM` blocked and `setjmp` does not save the mask: after the first timeout, attempts wait for the kernel |
| `profile_twice` | "save network profile for later usage in netconf", `configsource-network.c:894` | netconf frees it and offers it again |

Other behaviours the models show, on which no run insists:

- an empty mount point is a mount point, though the dialog says "leave it empty if
  you want to cancel" (`partdisk.c:745`), and partitions without one compare equal to all, so
  that the order of mounts is not always right (`partdisk.c:1054`);
- no result of `mount`, `umount`, `makepath` or `copyfile` is looked at: later pages can be reached
  without `/dev`, `/proc` or `/sys`, the exit can leave them bound, and `fstab`, `lang.sh` and `keymap` are
  unlinked when their copy failed;
- the page says "Packages installation completed" (`install.c:442`) also when pacman has refused a package
  (`install.c:313`): that is only logged, and the rest is installed;
- a lock file that cannot be removed keeps install busy for ever, without a button;
- a user whose line could not be appended to sudoers is listed as if it had been, and one whose line `sed` could not delete
  has root privileges when added again without;
- a root password with a single quote is not the one that is set, or none is;
- the profile that is offered as the connection in use is inferred from files (`configsource-network.c:775-829`), and
  may be an old one;
- basic mode keeps flags that other modes and desktops have turned on;
- a network configuration begun again and cancelled is shown and not written; after
  giving up a second attempt `config` keeps the profile of the first;
- `srcdev` outlives the answer, so mirrors are not written after a disc was found once;
  six characters are cut off every address before it is tried, so a mirror with
  `http://` is always shown as bad; a mirror without a directory, which can be added and
  written, ends the program at its next start (`strchr` returns NULL);
- a second entry of install binds `/dev`, `/proc` and `/sys` again, and the exit unmounts each
  once; `TARGETDIR` itself stays busy, since formatdisk has made it the working
  directory, unless the program is ended on formatdisk after gparted;
- clearing both entries of rootconf keeps the password that was set; the first zone stays,
  since `symlink` does not replace it; removing `ann` takes `joann`'s line out of sudoers;
- removing the first row of usersconf frees the picture of all rows.

## 4. What is proved

Each proof module has an inductive invariant, the lemma that every action keeps it
(a lemma for each action that can disturb it), and the theorems that follow.

- **WizardProofs**: `IInv` strengthens the safety properties by `TopInv` (what
  the frame on top may be: its plugin is `active` unless it is a suspended skip; the
  page of a working prerun is incomplete, so it has no buttons) and `NestInv` (below the top there are only
  suspended skips, each followed by the run of the same plugin or the
  prerun of the next).  Without these a click could arrive during a working prerun,
  and an exit could happen below a skip that still returns.
  Proved: `TypeCorrect`, `PageIsActive`, `NoReentrance`, `CleanExit`, `RunsInOrder`,
  **`Implementation`** (`Wizard` implements `Tour`, step by step) and `NeverStuck`, which rests on
  `Worked`: the page of a plugin that works in its prerun is complete, or that prerun is still to
  come to its end.
- **PartDiskProofs**: `IInv` has the types, `OneRoot` and `CompleteIffRoot`, which are inductive
  together (gparted's dangling pointer is harmless only because completion and mount points
  are reset with it), and what a run leaves, `MountedAsListed` and `FstabOnRoot`.
  The rest is about the lists that run works on.  `MergeInduction` and `MeasureInduction` carry
  any pairwise relation the comparison agrees with through the merge sort (`SortedInOrder`), which
  gives `SortsRootToLeaf`; that it loses and doubles nothing (`SortedDistinct`) holds even where the
  comparison is no order, and with `ListedOnce` and `PlanInOrder` gives `FstabIsComplete`: a partition has
  one line of `fstab` if it has a mount field, and none otherwise.  `MountedStays` says when a mount made in a loop of
  mounts is still seen at its end, whatever was mounted before the loop; `MountsAsListed`
  and `FstabReachesRoot` follow, the latter unless that very copy failed.  `FirstRootIsComplete`: what the run
  `files_delivered` loses is not lost on the first visit, but by a copy that fails.
- **PackagesProofs**: `IInv` adds `Places` (which control points each page has),
  `HandlePlaces` (where pacman is initialized), `NothingLost` (what was selected is
  installed, refused, or still in a list, in spite of the freed nodes), `TargetsOfList` and `OnlyWanted`
  (unless a list was read after it was freed, what is in a list, a transaction or the
  installed system was selected, now or before).  From it **`Implementation`**: each step of the pages
  is a step of `Delivery` or leaves it as it is.  `SelectedIsInstalled` says that a package can be lost in
  two ways only (`InstalledAsSelected`): pacman refuses it, or the user has no more discs.
- **SelectionProofs**: `IInv` adds `DialogAlone` and `Settled`: after a run, configuring
  for the same desktop changes nothing.  From it `OneDesktop`,
  `ExpertIsTrue` and `RunIsRepeatable`, for any lists of groups and packages.
- **NetworkProofs**: `Inv` adds `Listed` (an interface is in the list at most once and as
  its row shows it), `Copied` (so is what is written), `Started`, and `AsSaved` (a saved
  profile has not changed while it can be applied), without which `AppliedAsSaved` would not be inductive.  Nothing is proved of what runs on the live system.
- **MirrorsProofs**: `IInv` joins `Attempted` and `Listed`.  `Attempted` has the types of
  `Connect`, `NoLateAlarm`, and `Own`: where an attempt is answered, and that it returns 1 only then.
  `Progress`, in `Listed`, says for each place of the page what the rows are: the first of the
  file's mirrors while they are tried (`Shown`), the whole distribution on the page, and in
  run what was taken from them (`Taken`).  `ShippedStay` needs all of it, since the file is read
  after it was written.  `Ordered` adds that the new list begins with the used ones taken so far, and goes on with the others.
  Proved: `Types`, `AlarmOff`, `MirrorsStay`, `GoodIsAnswered`, `WrittenUsedFirst`, and `TimesOutAtFirst`: before
  the first timeout the alarm does end every connect, so the signal mask is all there is to `timeout_once`.
- **InstalledProofs**: `IInv` is a conjunction of ten parts.  `Placed` says where control and handle
  can be together (the handle is released once for all, so whoever goes back to `select` or
  before it never comes to a later page again); `Bound` counts what is bound in each mount;
  `Empty` says what a root without packages cannot have; `UsersInside` ties the list
  to `home`; `Keys` and `Filled` tie keymap, temporary file and config, and entries and
  completion.  From it `TypeCorrect`, `SystemMounted`, `OneRoot`, `UsersListed`,
  `OneKeyboard`, `ZonesAreCities`, `NothingBound`, `PasswordsTyped`, for any roots, names, keyboards
  and any number of visits, with every mount, umount, copy and command failing or not: the exceptions are those of
  the properties, and each names what has failed.

*Induction over data.*  The library states induction with an operator as a parameter, which the
provers cannot instantiate.  `Recursion` states it with sets of numbers instead (`Induction`,
`MeasureInduction`), from the least element of such a set (`WFMin` and `NatLessThanWellFounded` of the library),
and recursion with a *rule*: a function that gives a value from the argument and the
approximation so far.  `RecursionDefines` says that a recursive function with a measure exists and satisfies
its equation; `LoopDefines` and `LoopInduction` are the case of a loop over `0 .. n`.  A
recursive function is then reasoned about through its equation, as `SortedIs`, `PlanIs`, `JoinedIs` and `MountedByIs` do.

*Assumptions.*  The constants' types, and of `Wizard`: the first page is INTRO, the last
and no other CONFIRM; the PROGRESS pages are those of the plugins that work in
their prerun, and are never marked or skipped; a plugin that is skipped, and the prerun it is skipped to,
do not fail.  `MCWizard` takes its tables from the plugins, so TLC evaluates these
assumptions on the code's values.  `PartDisk` assumes that a directory above
another has a shorter name, and that every partition is listed once, under one device; `Mirrors`, that the user's addresses may lack a directory and
at least one mirror is shipped; `Network`, that `Found` are sequences of interfaces with their types; `Accounts`,
that no name ends with itself and that `Marked` are passwords; `Settings`, that a keyboard is listed.

*Only model-checked*: `WorkReachesUser` and `TestingEnds`, which are liveness under fairness and out of
the prover's reach, and the five findings.  Every other property of a run is a theorem.

## 5. What is not modelled

- software raids and the question whether swaps are used (`partdisk.c`): they add
  devices to the list and lines to `fstab`, and change no rule of the page;
- access points, countries of mirrors, texts, pictures, translations, logs;
- loading and sorting plugins, the language dialog, help;
- the language list of asklang, grub's menu, the map and the clock of timeconfig, the mouse and the
  display manager of configuration: forms that write one file no later page reads;
- what formatting a root again, on a later visit, erases: `PartDisk` has it, `Target` not;
- sizes: whether packages fit is a free choice in `Selection`.

## 6. Plan

Done, in order: `Wizard` with `Tour` (everything else happens inside it), `PartDisk`
(what can destroy or miss a disk), `Packages` (what is installed), `Selection`,
`Network`, and a proof module for each; then `Connect` with `Mirrors`, and `Target`, `Accounts` and `Settings`, composed in
`Installed`, with their proofs; then `Recursion` and the lists of `PartDisk`, and `Delivery` with its
refinement by `Packages`.

What would come next: software raids, and access points.
