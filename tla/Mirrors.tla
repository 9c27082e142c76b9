------------------------------ MODULE Mirrors ------------------------------
(***************************************************************************)
(* The mirrors of a network installation (src/src/plugins/configsource.c): *)
(* read from pacman's file once, each tried with an attempt of Connect,    *)
(* shown in rows that the user toggles, adds and removes, and written back *)
(* used ones first.  The file is the live system's: it is there when fwife *)
(* is started again, and the page then reads what it wrote.                *)
(*                                                                         *)
(* The countries of the file are left out: a mirror is shipped, or it is   *)
(* "CUSTOM".  What the dialogs of run_net_config do is in Network; here    *)
(* they are the attempts to connect that they make.                        *)
(***************************************************************************)
EXTENDS Connect, Integers, Sequences, FiniteSets

CONSTANTS
  Shipped,   \* addresses in the file of the distribution
  Custom,    \* addresses a user may add
  Bare,      \* those of them with no '/' behind the host
  Preferred, \* those of the language: "ftp://ftp5."
  MaxRows    \* bound: rows of the page

ASSUME MirrorsAssumption ==
  /\ IsFiniteSet(Shipped) /\ Shipped # {}
  /\ MaxRows \in Nat
  /\ Bare \subseteq Custom

Server == Shipped \cup Custom
Origin == {"country", "CUSTOM"}
Mirror == [name : Server, from : Origin]
Row    == [name : Server, from : Origin, use : BOOLEAN, status : {"", "good", "bad"}]

VARIABLES
  file,        \* /etc/pacman-g2/repos
  loaded,      \* it has been read: mirrorlist is not NULL
  rows,        \* the store of viewserver
  i,           \* prerun: the mirror that is tried; run: the row
  newlist,     \* run: newloaded
  srcdev,      \* config: srcdev is set
  at           \* where the page is

page == <<loaded, rows, i, newlist, srcdev>>
vars == <<pc, alarm, jump, blocked, answered, result, file, loaded, rows, i, newlist, srcdev, at>>

Move(from, to) == at = from /\ at' = to

Init ==
  /\ ConnectInit
  /\ loaded = FALSE /\ rows = <<>> /\ i = 1 /\ newlist = <<>>
  /\ srcdev = FALSE
  /\ at = "pages"
  /\ file \in [1 .. Cardinality(Shipped) -> [name : Shipped, from : {"country"}]]
  /\ \A s \in Shipped : \E k \in DOMAIN file : file[k].name = s
  /\ \A j, k \in DOMAIN file : file[j].name = file[k].name => j = k

-----------------------------------------------------------------------------
(* prerun.  mirrorlist is the file, until its loop is over.                *)

\* An install disc is found: the page is skipped, and its run returns at once.
FindDisc ==
  /\ at = "pages"
  /\ srcdev' = TRUE
  /\ UNCHANGED <<connect, file, loaded, rows, i, newlist, at>>

\* Network installation: run_net_config tries to connect before it asks anything.
EnterSource ==
  /\ Move("pages", "net")
  /\ Call
  /\ UNCHANGED <<file, page>>

\* And after "netconfig start", and when it is repeated.
TryNetwork ==
  /\ at = "net"
  /\ Call
  /\ UNCHANGED <<file, page, at>>

\* It is left.  The mirrors are read, unless an earlier visit has.
LeaveNetwork ==
  /\ pc = "idle"
  /\ Move("net", IF loaded THEN "page" ELSE "row")
  /\ loaded' = (loaded \/ file # <<>>)
  /\ UNCHANGED <<connect, file, rows, i, newlist, srcdev>>

Blank(m) == [name |-> m.name, from |-> m.from, use |-> m.name \in Preferred, status |-> ""]

\* A row is appended, and its host tried.
TryMirror ==
  /\ i \in DOMAIN file
  /\ file[i].name \notin Bare
  /\ Move("row", "asked")
  /\ rows' = Append(rows, Blank(file[i]))
  /\ Call
  /\ UNCHANGED <<file, loaded, i, newlist, srcdev>>

\* Its address has no '/', and strchr returns NULL: the program ends.
NoDirectory ==
  /\ i \in DOMAIN file
  /\ file[i].name \in Bare
  /\ Move("row", "ended")
  /\ UNCHANGED <<connect, file, page>>

\* "< 0": a timeout is not told from a connection.
ShowRowSlip ==
  /\ pc = "idle"
  /\ Move("asked", "row")
  /\ rows' = [rows EXCEPT ![Len(rows)].status = IF result < 0 THEN "bad" ELSE "good"]
  /\ i' = i + 1
  /\ UNCHANGED <<connect, file, loaded, newlist, srcdev>>

\* A host that does not answer is taken out again, and tried once more.
ShowRowAgain ==
  /\ pc = "idle"
  /\ Move("asked", "row")
  /\ IF result = -1
       THEN rows' = SubSeq(rows, 1, Len(rows) - 1) /\ i' = i
       ELSE /\ rows' = [rows EXCEPT ![Len(rows)].status = IF result = 0 THEN "bad" ELSE "good"]
            /\ i' = i + 1
  /\ UNCHANGED <<connect, file, loaded, newlist, srcdev>>

\* is_connected has returned: the row is filled in.
ShowRow ==
  /\ pc = "idle"
  /\ Move("asked", "row")
  /\ rows' = [rows EXCEPT ![Len(rows)].status = IF result < 1 THEN "bad" ELSE "good"]
  /\ i' = i + 1
  /\ UNCHANGED <<connect, file, loaded, newlist, srcdev>>

ShowPage ==
  /\ i \notin DOMAIN file
  /\ Move("row", "page")
  /\ i' = 1
  /\ UNCHANGED <<connect, file, loaded, rows, newlist, srcdev>>

\* The alarm has jumped nowhere.
Crash ==
  /\ pc = "crashed"
  /\ at # "ended" /\ at' = "ended"
  /\ UNCHANGED <<connect, file, page>>

-----------------------------------------------------------------------------
(* The page.                                                               *)

\* fixed_toggled.
Toggle(r) ==
  /\ at = "page"
  /\ r \in DOMAIN rows
  /\ rows' = [rows EXCEPT ![r].use = ~@]
  /\ UNCHANGED <<connect, file, loaded, i, newlist, srcdev, at>>

\* add_mirror, with an entry that is not empty.
AddMirror(c) ==
  /\ at = "page"
  /\ Len(rows) < MaxRows
  /\ rows' = Append(rows, [name |-> c, from |-> "CUSTOM", use |-> TRUE, status |-> ""])
  /\ UNCHANGED <<connect, file, loaded, i, newlist, srcdev, at>>

Without(s, r) == SubSeq(s, 1, r - 1) \o SubSeq(s, r + 1, Len(s))

\* Any row can be removed.
RemoveMirrorSlip(r) ==
  /\ at = "page"
  /\ r \in DOMAIN rows
  /\ rows' = Without(rows, r)
  /\ UNCHANGED <<connect, file, loaded, i, newlist, srcdev, at>>

\* remove_mirror.
RemoveMirror(r) ==
  /\ at = "page"
  /\ r \in DOMAIN rows
  /\ rows[r].from = "CUSTOM"
  /\ rows' = Without(rows, r)
  /\ UNCHANGED <<connect, file, loaded, i, newlist, srcdev, at>>

\* Back.
Back ==
  /\ Move("page", "pages")
  /\ UNCHANGED <<connect, file, page>>

-----------------------------------------------------------------------------
(* run.                                                                    *)

\* With a disc found on any earlier visit, or no rows, nothing is written.
LeaveUnwritten ==
  /\ srcdev \/ rows = <<>>
  /\ Move("page", "pages")
  /\ UNCHANGED <<connect, file, page>>

Leave ==
  /\ ~srcdev /\ rows # <<>>
  /\ Move("page", "run")
  /\ UNCHANGED <<connect, file, page>>

\* Prepended name first, as the appended ones are.
EntrySlip(row) == [name |-> row.from, from |-> row.name]

Entry(row) == [name |-> row.name, from |-> row.from]

\* The loop over the rows: both kinds are appended.
TakeRowSlip ==
  /\ at = "run"
  /\ i \in DOMAIN rows
  /\ newlist' = Append(newlist, Entry(rows[i]))
  /\ i' = i + 1
  /\ UNCHANGED <<connect, file, loaded, rows, srcdev, at>>

\* The loop over the rows: used ones are prepended.
TakeRow ==
  /\ at = "run"
  /\ i \in DOMAIN rows
  /\ newlist' = IF rows[i].use THEN <<Entry(rows[i])>> \o newlist
                                ELSE Append(newlist, Entry(rows[i]))
  /\ i' = i + 1
  /\ UNCHANGED <<connect, file, loaded, rows, srcdev, at>>

\* updateconfig.
WriteFile ==
  /\ i \notin DOMAIN rows
  /\ Move("run", "pages")
  /\ file' = newlist
  /\ newlist' = <<>> /\ i' = 1
  /\ UNCHANGED <<connect, loaded, rows, srcdev>>

-----------------------------------------------------------------------------
\* The installer is started again on the same live system.
Restart ==
  /\ at \in {"pages", "page", "ended"}
  /\ pc' = "idle" /\ alarm' = "off" /\ jump' = FALSE /\ blocked' = FALSE
  /\ answered' = FALSE /\ result' = -1
  /\ loaded' = FALSE /\ rows' = <<>> /\ i' = 1 /\ newlist' = <<>>
  /\ srcdev' = FALSE
  /\ at' = "pages"
  /\ UNCHANGED file

\* is_connected, while it is called.
Attempt  == Proceed /\ UNCHANGED <<file, page, at>>
External == Surround /\ UNCHANGED <<file, page, at>>

Loop == TryMirror \/ NoDirectory \/ ShowRow \/ ShowPage \/ Crash \/ Attempt

User ==
  \/ FindDisc \/ EnterSource \/ TryNetwork \/ LeaveNetwork
  \/ \E r \in DOMAIN rows : Toggle(r) \/ RemoveMirror(r)
  \/ \E c \in Custom : AddMirror(c)
  \/ Back \/ LeaveUnwritten \/ Leave \/ TakeRow \/ WriteFile \/ Restart

Next == Loop \/ External \/ User

\* The program goes on with its loop, and the kernel answers a connect, if
\* only that nobody answers.
Spec == /\ Init /\ [][Next]_vars
        /\ WF_vars(Loop)
        /\ WF_vars(ConnectReturns /\ UNCHANGED <<file, page, at>>)

-----------------------------------------------------------------------------
\* The types of the variables.
PageTypeOK ==
  /\ file \in Seq(Mirror) /\ newlist \in Seq(Mirror)
  /\ rows \in Seq(Row)
  /\ i \in Nat \ {0}
  /\ srcdev \in BOOLEAN /\ loaded \in BOOLEAN
  /\ at \in {"pages", "net", "row", "asked", "page", "run", "ended"}

TypeOK == ConnectTypeOK /\ PageTypeOK

Is(m, s)      == m.name = s /\ m.from = "country"
Has(list, s)  == \E k \in DOMAIN list : Is(list[k], s)
Once(list, s) == \A j, k \in DOMAIN list : Is(list[j], s) /\ Is(list[k], s) => j = k

\* The mirrors of the distribution are in a list exactly once.
Whole(list) == \A s \in Shipped : Has(list, s) /\ Once(list, s)

\* Over any visits, additions, removals and starts of the installer, the mirrors
\* of the distribution stay: each is in the file once, and on the page once.
ShippedStay == Whole(file) /\ (at = "page" => Whole(rows))

\* What is written are the rows, in the order pacman is to try them: first the
\* used ones, then the others, none lost and none twice.
UsedFirst ==
  [][file' # file =>
       /\ Len(file') = Len(rows)
       /\ \E used \in 0 .. Len(rows) :
            /\ {file'[k] : k \in 1 .. used}
                 = {Entry(rows[r]) : r \in {r \in DOMAIN rows : rows[r].use}}
            /\ {file'[k] : k \in used + 1 .. Len(rows)}
                 = {Entry(rows[r]) : r \in {r \in DOMAIN rows : ~rows[r].use}}]_vars

\* A mirror is shown as good only for the answer of its own host: not when its
\* attempt was ended by the alarm, and not for an answer to an earlier one.
GoodIfAnswered ==
  [][at = "asked" /\ rows' # rows => (rows'[Len(rows)].status = "good" <=> answered)]_vars

\* Once the loop over the mirrors has begun it comes to an end, with each of
\* them slow, silent or unknown: the page is shown, or the program ends.
TestingEnds == at = "row" ~> at \in {"page", "ended"}
=============================================================================
