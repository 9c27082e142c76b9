------------------------------ MODULE Accounts ------------------------------
(***************************************************************************)
(* The accounts of the target: rootconf (src/src/plugins/rootconf.c) and   *)
(* usersconf (src/src/plugins/usersconf.c).  Both run commands in a chroot *)
(* that may fail, and usersconf changes /etc/sudoers by commands of its    *)
(* own, whose results are not looked at; it keeps a list, which outlives   *)
(* its visits.                                                             *)
(*                                                                         *)
(* Passwords, full names, shells and homes of users are left out.          *)
(***************************************************************************)
EXTENDS Target

CONSTANTS
  Name,     \* of users
  EndsWith, \* <<n, m>> when n ends with m and is another name
  Password, \* what may be typed, "" excepted
  Marked,   \* those with a mark that means something to the shell
  MaxOps    \* bound: operations on all the forms

ASSUME AccountsAssumption ==
  /\ EndsWith \subseteq Name \X Name
  /\ \A n \in Name : <<n, n>> \notin EndsWith
  /\ "" \notin Password
  /\ Marked \subseteq Password
  /\ MaxOps \in Nat

Text == Password \cup {""}

VARIABLES
  account,    \* the users each file system has
  sudoers,    \* those its /etc/sudoers gives root privileges
  asked,      \* history: those they were asked for when the user was added
  unwritten,  \* history: those whose line could not be written to sudoers then
  kept,       \* history: those whose line could not be deleted when removed
  rows,       \* the users that are listed
  freed,      \* the picture of their rows was freed
  rootpass,   \* the entries of rootconf
  rootverify,
  verified,   \* rootconf can be left
  secret,     \* root's password on each file system
  ops         \* counter for the bound, of all forms

lines    == <<account, sudoers, asked, unwritten, kept>>
users    == <<lines, rows, freed>>
password == <<rootpass, rootverify, verified, secret>>

AccountsInit ==
  /\ account = [s \in Site |-> {}]
  /\ sudoers = [s \in Site |-> {}]
  /\ asked = [s \in Site |-> {}]
  /\ unwritten = {} /\ kept = {}
  /\ rows = {} /\ freed = FALSE
  /\ rootpass = "" /\ rootverify = ""
  /\ verified = TRUE
  /\ secret = [s \in Site |-> ""]
  /\ ops = 0

Operate(page) == at = page /\ ops < MaxOps /\ ops' = ops + 1

-----------------------------------------------------------------------------
(* usersconf.                                                              *)

\* The sets of each file system with n added to that of the target, or taken away.
Added(f, n)    == [f EXCEPT ![Here] = @ \cup {n}]
Dropped(f, ns) == [f EXCEPT ![Here] = @ \ ns]

\* The line for sudo is written before it is seen whether useradd failed.
AddUserSlip(n, sudo, ok, wrote) ==
  /\ Operate("users")
  /\ sudo => "sudo" \in has[Here]
  /\ ok => "base" \in has[Here] /\ n \notin account[Here]
  /\ sudoers' = IF sudo /\ wrote THEN Added(sudoers, n) ELSE sudoers
  /\ IF ok
       THEN /\ account' = Added(account, n)
            /\ asked' = IF sudo THEN Added(asked, n) ELSE Dropped(asked, {n})
            /\ unwritten' = IF sudo /\ ~wrote THEN unwritten \cup {n} ELSE unwritten \ {n}
            /\ rows' = rows \cup {n}
       ELSE UNCHANGED <<account, asked, unwritten, rows>>
  /\ UNCHANGED <<kept, freed, target, password>>

\* Button Add a new user: add_user; ok tells whether useradd returned 0, wrote
\* whether the line could be appended to /etc/sudoers.  The check button of sudo
\* can be clicked if there is such a file.
AddUser(n, sudo, ok, wrote) ==
  /\ Operate("users")
  /\ sudo => "sudo" \in has[Here]
  /\ ok => "base" \in has[Here] /\ n \notin account[Here]
  /\ sudoers' = IF ok /\ sudo /\ wrote THEN Added(sudoers, n) ELSE sudoers
  /\ IF ok
       THEN /\ account' = Added(account, n)
            /\ asked' = IF sudo THEN Added(asked, n) ELSE Dropped(asked, {n})
            /\ unwritten' = IF sudo /\ ~wrote THEN unwritten \cup {n} ELSE unwritten \ {n}
            /\ rows' = rows \cup {n}
       ELSE UNCHANGED <<account, asked, unwritten, rows>>
  /\ UNCHANGED <<kept, freed, target, password>>

\* Button Remove a user: remove_user.  sed, if it can write the file, deletes the
\* lines that contain the name followed by " ALL=(ALL) ALL"; ok tells whether
\* userdel returned 0; the row goes whatever has failed.
RemoveUser(n, ok, wrote) ==
  /\ Operate("users")
  /\ n \in rows
  /\ sudoers' = IF wrote THEN Dropped(sudoers, {n} \cup {m \in Name : <<m, n>> \in EndsWith})
                         ELSE sudoers
  /\ kept' = IF wrote THEN kept \ {n} ELSE kept \cup {n}
  /\ account' = IF ok THEN Dropped(account, {n}) ELSE account
  /\ rows' = rows \ {n}
  /\ freed' = TRUE
  /\ UNCHANGED <<asked, unwritten, target, password>>

\* add_user gives back a reference to the picture that it never had: with the
\* first row removed the last one is gone.  A row is drawn with it: the program
\* may crash.
DrawUsers ==
  /\ Go("users", "crashed")
  /\ freed /\ rows # {}
  /\ UNCHANGED <<system, users, password, ops>>

-----------------------------------------------------------------------------
(* rootconf.                                                               *)

\* The entries are only compared when the second one changes.
TypePasswordSlip(t) ==
  /\ Operate("root")
  /\ rootpass' = t
  /\ UNCHANGED <<rootverify, verified, secret, target, users>>

\* One of the entries changes: verify_password.
TypePassword(t) ==
  /\ Operate("root")
  /\ rootpass' = t
  /\ verified' = (t = rootverify)
  /\ UNCHANGED <<rootverify, secret, target, users>>

TypeVerify(t) ==
  /\ Operate("root")
  /\ rootverify' = t
  /\ verified' = (t = rootpass)
  /\ UNCHANGED <<rootpass, secret, target, users>>

\* Run of rootconf: chpasswd, which may fail.  The text stands between quotes in a
\* command: what the shell makes of one with marks of its own is not said here, it
\* may be any.  Without a password the user is asked whether to go on, and nothing
\* is done: one set before stays.
LeaveRoot(t) ==
  /\ Go("root", "users")
  /\ verified
  /\ rootpass \notin Marked => t = rootpass
  /\ \/ secret' = secret
     \/ /\ rootpass # "" /\ "base" \in has[Here]
        /\ secret' = [secret EXCEPT ![Here] = t]
  /\ UNCHANGED <<system, users, rootpass, rootverify, verified, ops>>

-----------------------------------------------------------------------------
\* The types of the variables.
AccountsTypeOK ==
  /\ account \in [Site -> SUBSET Name]
  /\ sudoers \in [Site -> SUBSET Name]
  /\ asked \in [Site -> SUBSET Name]
  /\ unwritten \subseteq Name /\ kept \subseteq Name
  /\ rows \subseteq Name /\ freed \in BOOLEAN
  /\ rootpass \in Text /\ rootverify \in Text
  /\ verified \in BOOLEAN
  /\ secret \in [Site -> Text]
  /\ ops \in Nat

\* add_user and remove_user, each command of which may fail, over several visits:
\* who is listed has an account on the root that is there; who has root
\* privileges was to have them when last added, also a name removed and given
\* again, unless its line could not be deleted; and who is listed keeps those that
\* were asked for, unless the line could not be written or the name ends with
\* another one.
UsersAsListed ==
  /\ \A s \in Site : sudoers[s] \cap account[s] \subseteq asked[s] \cup kept
  /\ at \in Later =>
       /\ rows \subseteq account[Here]
       /\ \A n \in (rows \cap asked[Here]) \ unwritten :
            (\A m \in Name : <<n, m>> \notin EndsWith) => n \in sudoers[Here]

\* verify_password, run: root's password is only ever set when both entries hold
\* one text, in whichever order and on whichever visit they were changed, and to
\* that text unless it has a mark that means something to the shell.
PasswordTypedTwice ==
  [][\A s \in Site : secret'[s] # secret[s] =>
       /\ rootpass = rootverify
       /\ rootpass \in Marked \/ secret'[s] = rootpass]_secret
=============================================================================
