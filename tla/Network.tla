------------------------------ MODULE Network ------------------------------
(***************************************************************************)
(* The two networks of the installation: the one of the live system, which *)
(* a network installation downloads by                                     *)
(* (src/src/plugins/configsource-network.c), and the one of the installed  *)
(* system (src/src/plugins/netconf.c).  The first page saves its profile   *)
(* as "netprofile" in config; the second offers to apply it.  Profiles are *)
(* allocated and freed by hand, and netconf keeps the interfaces that were *)
(* configured, and what it shows of them, from visit to visit.             *)
(*                                                                         *)
(* Access points, keys, addresses and host names are left out: what is     *)
(* known of an interface is its type.  What is running on the live system  *)
(* is only inferred by the code, from files that may be stale: the profile *)
(* netconfig has noted, and what dhcpcd has left of any interface.         *)
(***************************************************************************)
EXTENDS Integers, Sequences

CONSTANTS
  Iface,     \* fwnet_iflist
  Found,     \* the interfaces a profile noted before may have; none: no profile
  MaxOps,    \* bound: buttons of netconf
  MaxVisits  \* bound: preruns of either page

Type     == {"dhcp", "static"}
Config   == [name : Iface, type : Type]

ASSUME NetworkAssumption ==
  /\ Found \subseteq Seq(Config)
  /\ MaxOps \in Nat /\ MaxVisits \in Nat

NoConfig == [name |-> "none", type |-> "none"]
NoDsl    == "no dsl"
Profile  == [ifs : Seq(Config), dsl : Iface \cup {NoDsl}, live : BOOLEAN]
NULL     == [ifs |-> <<>>, dsl |-> NoDsl, live |-> FALSE]

VARIABLES
  lastprofile,     \* the interfaces of the profile netconfig noted last
  netprofile,      \* config: "netprofile"
  saved,           \* that profile as it was saved; history
  parsed,          \* run_net_config: newprofile is not NULL
  newinterface,    \* and its interface
  interfaceslist,  \* netconf: the interfaces configured
  shown,           \* netconf: COLUMN_NET_TYPE
  newprofile,      \* netconf: "NULL", "own" or "freed"
  dsl,             \* its adsl_interface
  written,         \* the configuration of the target
  how,             \* how netconf was left last
  at,              \* where the user is
  ops, visits      \* counters for the bounds

data == <<netprofile, saved>>
page == <<interfaceslist, shown, newprofile, dsl>>
disk == <<written, how>>
vars == <<lastprofile, netprofile, saved, parsed, newinterface, interfaceslist, shown,
          newprofile, dsl, written, how, at, ops, visits>>

Init ==
  /\ lastprofile \in Found
  /\ netprofile = NULL /\ saved = NULL /\ parsed = TRUE /\ newinterface = NoConfig
  /\ interfaceslist = <<>> /\ shown = [i \in Iface |-> ""]
  /\ newprofile = "NULL" /\ dsl = NoDsl
  /\ written = NULL /\ how = "not"
  /\ at = "pages"
  /\ ops = 0 /\ visits = 0

Visit == visits < MaxVisits /\ visits' = visits + 1

-----------------------------------------------------------------------------
(* run_net_config: one pass of the loop starts at "source".                *)

\* Installation from discs is refused; the user may have been here before.
EnterSource ==
  /\ at = "pages"
  /\ Visit
  /\ at' = "source"
  /\ parsed' = TRUE
  /\ UNCHANGED <<lastprofile, data, newinterface, page, disk, ops>>

\* data_put, and the loop is left.
Save(ifs, d) ==
  /\ netprofile' = [ifs |-> ifs, dsl |-> d, live |-> TRUE]
  /\ saved' = netprofile'
  /\ at' = "pages"

\* The test connection answers, and "A netconfig profile has been found": Yes,
\* and it can be parsed.
UseLastProfile ==
  /\ at = "source" /\ parsed
  /\ lastprofile # <<>>
  /\ Save(lastprofile, NoDsl)
  /\ UNCHANGED <<lastprofile, parsed, newinterface, page, disk, ops, visits>>

\* It cannot: newprofile has been freed and is NULL now.
ParseFails ==
  /\ at = "source" /\ parsed
  /\ lastprofile # <<>>
  /\ parsed' = FALSE
  /\ UNCHANGED <<lastprofile, data, newinterface, page, disk, at, ops, visits>>

\* The interface is saved before its name and options are filled in.
UseDhcpSlip(i) ==
  /\ at = "source"
  /\ IF parsed THEN Save(<<newinterface>>, NoDsl) ELSE at' = "ended" /\ UNCHANGED data
  /\ UNCHANGED <<lastprofile, parsed, newinterface, page, disk, ops, visits>>

\* Any interfaces may have a file in dhcpcd's directory, old or new ones; each
\* is asked about, in the order of readdir, up to the first Yes: it is i's.
UseDhcp(i) ==
  /\ at = "source"
  /\ IF parsed THEN Save(<<[name |-> i, type |-> "dhcp"]>>, NoDsl)
               ELSE at' = "ended" /\ UNCHANGED data
  /\ UNCHANGED <<lastprofile, parsed, newinterface, page, disk, ops, visits>>

\* No profile and no file is found: the connection is used as it is.
UseAnyway ==
  /\ at = "source"
  /\ lastprofile = <<>>
  /\ at' = "pages"
  /\ UNCHANGED <<lastprofile, data, parsed, newinterface, page, disk, ops, visits>>

\* There is no connection, or all of them are refused.
AskInterface ==
  /\ at = "source"
  /\ at' = "interface"
  /\ UNCHANGED <<lastprofile, data, parsed, newinterface, page, disk, ops, visits>>

\* select_interface is cancelled: the loop is left without a profile.
CancelInterface ==
  /\ at = "interface"
  /\ at' = "pages"
  /\ UNCHANGED <<lastprofile, data, parsed, newinterface, page, disk, ops, visits>>

\* OK with no row selected: the name is copied from NULL.
NoInterface ==
  /\ at = "interface"
  /\ at' = "ended"
  /\ UNCHANGED <<lastprofile, data, parsed, newinterface, page, disk, ops, visits>>

\* ask_nettype is cancelled: once more.
CancelType ==
  /\ at = "interface"
  /\ at' = "source"
  /\ parsed' = TRUE
  /\ UNCHANGED <<lastprofile, data, newinterface, page, disk, ops, visits>>

\* netconfig stop; post_net_config: the profile is written and started.  Either
\* may fail: nobody looks, and netconfig keeps its note of an earlier one.
StartConnection(c) ==
  /\ at = "interface"
  /\ newinterface' = c
  /\ IF parsed
       THEN at' = "started" /\ lastprofile' \in {lastprofile, <<c>>}
       ELSE at' = "ended" /\ UNCHANGED lastprofile
  /\ UNCHANGED <<data, parsed, page, disk, ops, visits>>

\* It connects, or is to be applied anyway.  Static ones may have a DSL.
Accept ==
  /\ at = "started"
  /\ \E d \in IF newinterface.type = "static" THEN {NoDsl, newinterface.name} ELSE {NoDsl} :
       Save(<<newinterface>>, d)
  /\ UNCHANGED <<lastprofile, parsed, newinterface, page, disk, ops, visits>>

\* It does not, and is not to be applied: profile and interface are freed.
Reject ==
  /\ at = "started"
  /\ at' = "source"
  /\ UNCHANGED <<lastprofile, data, parsed, newinterface, page, disk, ops, visits>>

-----------------------------------------------------------------------------
(* netconf.                                                                *)

\* interfaceslist is written with the profile p.
Write(p) ==
  written' = [ifs |-> p.ifs \o interfaceslist, dsl |-> p.dsl, live |-> TRUE]

\* prerun, from either side: the configuration is not to be applied.
Reconfigure ==
  /\ at \in {"pages", "later"}
  /\ Visit
  /\ newprofile' = "own" /\ dsl' = NoDsl
  /\ at' = IF newprofile = "freed" THEN "ended" ELSE "netconf"
  /\ UNCHANGED <<lastprofile, data, parsed, newinterface, interfaceslist, shown, disk, ops>>

\* The profile is kept for the next visit, with all that was appended to it.
ApplySlip ==
  /\ at \in {"pages", "later"}
  /\ netprofile.live
  /\ Visit
  /\ \/ Write(netprofile) /\ how' = "applied"
     \/ UNCHANGED written /\ how' = "not"
  /\ netprofile' = [netprofile EXCEPT !.ifs = @ \o interfaceslist]
  /\ newprofile' = "NULL" /\ dsl' = NoDsl
  /\ at' = "later"
  /\ UNCHANGED <<lastprofile, saved, parsed, newinterface, interfaceslist, shown, ops>>

\* prerun skips the page: run appends to the saved profile, writes it, if it can
\* fork and change root, and frees it.
Apply ==
  /\ at \in {"pages", "later"}
  /\ netprofile.live
  /\ Visit
  /\ \/ Write(netprofile) /\ how' = "applied"
     \/ UNCHANGED written /\ how' = "not"
  /\ netprofile' = [netprofile EXCEPT !.ifs = @ \o interfaceslist, !.live = FALSE]
  /\ newprofile' = "NULL" /\ dsl' = NoDsl
  /\ at' = "later"
  /\ UNCHANGED <<lastprofile, saved, parsed, newinterface, interfaceslist, shown, ops>>

\* The same with the profile freed before: the memory reads as it was, or as
\* another profile's, and is freed once more; or the program ends.
ApplyFreed ==
  /\ at \in {"pages", "later"}
  /\ netprofile # NULL /\ ~netprofile.live
  /\ Visit
  /\ Write(netprofile) \/ Write(NULL)
  /\ newprofile' = "NULL" /\ dsl' = NoDsl
  /\ how' = "freed" /\ at' \in {"later", "ended"}
  /\ UNCHANGED <<lastprofile, data, parsed, newinterface, interfaceslist, shown, ops>>

Button ==
  /\ at = "netconf"
  /\ ops < MaxOps
  /\ ops' = ops + 1
  /\ UNCHANGED <<lastprofile, data, parsed, newinterface, newprofile, disk, at, visits>>

Delete(s, k) == SubSeq(s, 1, k - 1) \o SubSeq(s, k + 1, Len(s))

\* interfaceslist without the configuration of i: there is one at most.
Without(i) ==
  LET Of == {k \in DOMAIN interfaceslist : interfaceslist[k].name = i} IN
  IF Of = {} THEN interfaceslist
  ELSE Delete(interfaceslist, CHOOSE k \in Of : \A j \in Of : k <= j)

\* Configured again, an interface is appended beside its old configuration.
ConfigureSlip(c) ==
  /\ Button
  /\ interfaceslist' = Append(interfaceslist, c)
  /\ shown' = [shown EXCEPT ![c.name] = c.type]
  /\ UNCHANGED dsl

\* add_interface.  A static one is shown as such even when its dialog is cancelled.
Configure(c) ==
  /\ Button
  /\ interfaceslist' = Append(Without(c.name), c)
  /\ shown' = [shown EXCEPT ![c.name] = c.type]
  /\ UNCHANGED dsl

\* It is to be configured again, but the question for its type is cancelled.
ConfigureCancelled(i) ==
  /\ Button
  /\ interfaceslist' = Without(i)
  /\ UNCHANGED <<shown, dsl>>

\* del_interface.
Remove(i) ==
  /\ Button
  /\ interfaceslist' = Without(i)
  /\ shown' = [shown EXCEPT ![i] = ""]
  /\ UNCHANGED dsl

\* dsl_config: the passwords match, at last.
Dsl(i) ==
  /\ Button
  /\ dsl' = i
  /\ UNCHANGED <<interfaceslist, shown>>

\* newprofile keeps its pointer.
LeaveSlip ==
  /\ at = "netconf"
  /\ Write([ifs |-> <<>>, dsl |-> dsl, live |-> TRUE])
  /\ newprofile' = "freed" /\ dsl' = NoDsl
  /\ how' = "configured" /\ at' = "later"
  /\ UNCHANGED <<lastprofile, data, parsed, newinterface, interfaceslist, shown, ops, visits>>

\* run.
Leave ==
  /\ at = "netconf"
  /\ Write([ifs |-> <<>>, dsl |-> dsl, live |-> TRUE])
  /\ newprofile' = "NULL" /\ dsl' = NoDsl
  /\ how' = "configured" /\ at' = "later"
  /\ UNCHANGED <<lastprofile, data, parsed, newinterface, interfaceslist, shown, ops, visits>>

\* run, when fork, chroot or the write fails: nothing is written to the target.
LeaveUnwritten ==
  /\ at = "netconf"
  /\ newprofile' = "NULL" /\ dsl' = NoDsl
  /\ how' = "not" /\ at' = "later"
  /\ UNCHANGED <<lastprofile, data, parsed, newinterface, interfaceslist, shown, written,
                 ops, visits>>

\* plugin_previous: the profile is kept.  (From later pages it enters prerun.)
Back ==
  /\ at = "netconf"
  /\ at' = "pages"
  /\ UNCHANGED <<lastprofile, data, parsed, newinterface, page, disk, ops, visits>>

Next ==
  \/ EnterSource \/ UseLastProfile \/ ParseFails \/ UseAnyway
  \/ AskInterface \/ CancelInterface \/ NoInterface \/ CancelType
  \/ \E c \in Config : StartConnection(c) \/ Configure(c)
  \/ Accept \/ Reject
  \/ Reconfigure \/ Apply \/ ApplyFreed
  \/ \E i \in Iface : UseDhcp(i) \/ ConfigureCancelled(i) \/ Remove(i) \/ Dsl(i)
  \/ Leave \/ LeaveUnwritten \/ Back

Spec == Init /\ [][Next]_vars

-----------------------------------------------------------------------------
\* The types of the variables: a profile, saved or written, lists known interfaces.
TypeOK ==
  /\ lastprofile \in Seq(Config)
  /\ netprofile \in Profile /\ saved \in Profile
  /\ parsed \in BOOLEAN /\ newinterface \in Config \cup {NoConfig}
  /\ interfaceslist \in Seq(Config)
  /\ shown \in [Iface -> Type \cup {""}]
  /\ newprofile \in {"NULL", "own", "freed"} /\ dsl \in Iface \cup {NoDsl}
  /\ written \in Profile
  /\ how \in {"not", "configured", "applied", "freed"}
  /\ at \in {"pages", "source", "interface", "started", "netconf", "later", "ended"}
  /\ ops \in 0 .. MaxOps /\ visits \in 0 .. MaxVisits

Once(ifs) == \A j, k \in DOMAIN ifs : ifs[j].name = ifs[k].name => j = k

\* What the page writes is what it shows, over all visits: an interface is
\* written once, and with the type in its row.  (The converse does not hold: a
\* configuration that was begun again and cancelled is shown and not written.)
WrittenAsShown ==
  how = "configured" /\ at = "later" =>
    /\ Once(written.ifs)
    /\ \A k \in DOMAIN written.ifs : shown[written.ifs[k].name] = written.ifs[k].type

\* The buttons of netconf and run fill in a profile of their own, never one
\* that is freed, and never NULL: wherever the page is entered from, after any
\* number of runs, and whether or not a saved profile was applied before.
OwnProfile ==
  /\ newprofile # "freed"
  /\ at = "netconf" => newprofile = "own"
  /\ dsl # NoDsl => newprofile = "own"

\* What netconf applies is the profile as run_net_config saved it, followed by the
\* interfaces configured on the page, once.  run appends to the saved profile in
\* place: were it applied again, earlier visits would come with it.
AppliedAsSaved ==
  how = "applied" /\ at = "later" =>
    /\ written.ifs = saved.ifs \o interfaceslist
    /\ written.dsl = saved.dsl

\* "save network profile for later usage in netconf" (run_net_config): netconf
\* uses a profile that is there.
ProfileThere == how # "freed"
=============================================================================
