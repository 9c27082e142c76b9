--------------------------- MODULE NetworkProofs ---------------------------
(***************************************************************************)
(* What Network's run shows for two interfaces, for any interfaces.        *)
(***************************************************************************)
EXTENDS Network, TLAPS, SequenceTheorems

-----------------------------------------------------------------------------
(* Lists of interfaces.                                                    *)

\* A deleted link closes the gap: what follows it moves up by one.
LEMMA Deletion ==
  ASSUME NEW s \in Seq(Config), NEW k \in DOMAIN s
  PROVE  /\ Delete(s, k) \in Seq(Config)
         /\ Len(Delete(s, k)) = Len(s) - 1
         /\ \A j \in DOMAIN Delete(s, k) :
              Delete(s, k)[j] = IF j < k THEN s[j] ELSE s[j + 1]
<1> DEFINE a == SubSeq(s, 1, k - 1)
           b == SubSeq(s, k + 1, Len(s))
<1>1. /\ k \in 1 .. Len(s) /\ Len(s) \in Nat
  BY LenProperties
<1>2. /\ a \in Seq(Config) /\ Len(a) = k - 1
      /\ \A j \in 1 .. k - 1 : a[j] = s[j]
  BY <1>1, SMT
<1>3. /\ b \in Seq(Config) /\ Len(b) = Len(s) - k
      /\ \A j \in 1 .. Len(s) - k : b[j] = s[k + j]
  BY <1>1, SMT
<1>4. Delete(s, k) = a \o b
  BY DEF Delete
<1> HIDE DEF a, b
<1>5. /\ a \o b \in Seq(Config) /\ Len(a \o b) = Len(s) - 1
      /\ \A j \in 1 .. Len(s) - 1 :
           (a \o b)[j] = IF j < k THEN s[j] ELSE s[j + 1]
  BY <1>1, <1>2, <1>3, SMT
<1>6. DOMAIN (a \o b) = 1 .. Len(s) - 1
  BY <1>5, LenProperties
<1> QED
  BY <1>4, <1>5, <1>6

\* A list with one configuration for each interface keeps that, and loses the one
\* for i.
LEMMA WithoutKeeps ==
  ASSUME interfaceslist \in Seq(Config), Once(interfaceslist), NEW i
  PROVE  /\ Without(i) \in Seq(Config)
         /\ Once(Without(i))
         /\ \A j \in DOMAIN Without(i) :
              /\ Without(i)[j].name # i
              /\ \E k \in DOMAIN interfaceslist : Without(i)[j] = interfaceslist[k]
<1> DEFINE Of == {k \in DOMAIN interfaceslist : interfaceslist[k].name = i}
           c  == CHOOSE k \in Of : \A j \in Of : k <= j
<1>1. CASE Of = {}
  <2>1. Without(i) = interfaceslist
    BY <1>1 DEF Without
  <2> QED
    BY <1>1, <2>1
<1>2. CASE Of # {}
  <2>1. PICK k \in Of : TRUE
    BY <1>2
  <2>2. Of = {k}
    BY <2>1 DEF Once
  <2>3. DOMAIN interfaceslist = 1 .. Len(interfaceslist) /\ Len(interfaceslist) \in Nat
    BY LenProperties
  <2>4. k \in Nat /\ k <= k
    BY <2>1, <2>3, SMT
  <2>5. c = k
    <3> HIDE DEF Of
    <3> QED
      BY <2>2, <2>4
  <2>6. Without(i) = Delete(interfaceslist, k)
    BY <1>2, <2>5 DEF Without
  <2>7. k \in DOMAIN interfaceslist /\ interfaceslist[k].name = i
    BY <2>1
  <2> DEFINE w == Delete(interfaceslist, k)
             n == Len(interfaceslist)
  <2>8. /\ w \in Seq(Config) /\ Len(w) = n - 1
        /\ \A j \in DOMAIN w :
             w[j] = IF j < k THEN interfaceslist[j] ELSE interfaceslist[j + 1]
    BY <2>7, Deletion
  <2>9. DOMAIN w = 1 .. n - 1
    BY <2>8, LenProperties
  <2>10. \A j \in DOMAIN w :
           LET m == IF j < k THEN j ELSE j + 1
           IN  m \in DOMAIN interfaceslist /\ m # k /\ w[j] = interfaceslist[m]
    <3> HIDE DEF w
    <3> QED
      BY <2>3, <2>7, <2>8, <2>9, SMT
  <2>11. \A j \in DOMAIN w : w[j].name # i
    BY <2>7, <2>10 DEF Once
  <2>12. Once(w)
    <3> SUFFICES ASSUME NEW j \in DOMAIN w, NEW l \in DOMAIN w, w[j].name = w[l].name
                 PROVE  j = l
      BY DEF Once
    <3> DEFINE mj == IF j < k THEN j ELSE j + 1
               ml == IF l < k THEN l ELSE l + 1
    <3>1. mj = ml
      BY <2>10 DEF Once
    <3>2. j \in Nat /\ l \in Nat
      BY <2>9, <2>3
    <3> HIDE DEF w
    <3> QED
      BY <3>1, <3>2, <2>4, SMT
  <2> QED
    BY <2>6, <2>8, <2>10, <2>11, <2>12
<1> QED
  BY <1>1, <1>2

-----------------------------------------------------------------------------
(* The inductive invariant: the list of interfaces matches the rows, its   *)
(* copy on the target is only as old as the last run, and the profile in   *)
(* config is as it was saved until it is freed.                            *)

Listed ==
  /\ Once(interfaceslist)
  /\ \A k \in DOMAIN interfaceslist :
       shown[interfaceslist[k].name] = interfaceslist[k].type

Copied == how = "configured" /\ at = "later" => written.ifs = interfaceslist

AsSaved == netprofile.live => netprofile.ifs = saved.ifs /\ netprofile.dsl = saved.dsl

Started == at = "started" => newinterface \in Config

Inv == /\ TypeOK /\ Listed /\ Copied /\ OwnProfile
       /\ AsSaved /\ AppliedAsSaved /\ Started

\* A profile starts with no interfaces.
LEMMA EmptyList == <<>> \in Seq(Config) /\ DOMAIN <<>> = {}
<1>1. <<>> \in Seq(Config) /\ Len(<<>>) = 0
  BY SMT
<1>2. DOMAIN <<>> = 1 .. 0
  BY <1>1, LenProperties
<1> QED
  BY <1>1, <1>2, SMT

\* NULL stands for a profile that is not there, and has the fields of one.
LEMMA NullProfile == NULL \in Profile
BY EmptyList DEF NULL, Profile

\* Before either page is shown the invariant holds.
LEMMA Initially == Init => Inv
<1> SUFFICES ASSUME Init PROVE Inv
  OBVIOUS
<1>1. ops \in 0 .. MaxOps /\ visits \in 0 .. MaxVisits
  <2>1. ops = 0 /\ visits = 0
    BY DEF Init
  <2> QED
    BY <2>1, NetworkAssumption, SMT DEF NetworkAssumption
<1>2. shown \in [Iface -> Type \cup {""}]
  BY DEF Init
<1>3. TypeOK
  <2>1. lastprofile \in Seq(Config)
    BY NetworkAssumption DEF NetworkAssumption, Init
  <2> QED
    BY <1>1, <1>2, <2>1, EmptyList, NullProfile DEF TypeOK, Init
<1>4. Listed
  <2>1. interfaceslist = <<>>
    BY DEF Init
  <2> QED
    BY <2>1, EmptyList DEF Listed, Once
<1> QED
  BY <1>3, <1>4 DEF Init, Inv, Copied, OwnProfile, AsSaved, AppliedAsSaved, Started

\* What makes a profile.
LEMMA MakeProfile ==
  ASSUME NEW q \in Seq(Config), NEW d \in Iface \cup {NoDsl}, NEW b \in BOOLEAN
  PROVE  [ifs |-> q, dsl |-> d, live |-> b] \in Profile
BY DEF Profile

\* What a profile is made of.
LEMMA ProfileFields ==
  ASSUME NEW p \in Profile
  PROVE  p.ifs \in Seq(Config) /\ p.dsl \in Iface \cup {NoDsl}
BY DEF Profile

\* Writing p gives a profile: that of the list alone, if p has no interfaces.
LEMMA WriteTypes ==
  ASSUME NEW p \in Profile, interfaceslist \in Seq(Config)
  PROVE  /\ p.ifs \o interfaceslist \in Seq(Config)
         /\ Write(p) => written' \in Profile
         /\ Write(p) => written'.ifs = p.ifs \o interfaceslist /\ written'.dsl = p.dsl
         /\ Write(p) /\ p.ifs = <<>> => written'.ifs = interfaceslist
<1> DEFINE q == p.ifs \o interfaceslist
<1>1. q \in Seq(Config)
  BY ProfileFields, SMT
<1>2. p.ifs = <<>> => q = interfaceslist
  BY ConcatEmptySeq
<1>3. Write(p) => written' = [ifs |-> q, dsl |-> p.dsl, live |-> TRUE]
  BY DEF Write
<1> HIDE DEF q
<1>4. Write(p) => written' \in Profile
  <2>1. TRUE \in BOOLEAN
    OBVIOUS
  <2> QED
    BY <1>1, <1>3, <2>1, ProfileFields, MakeProfile
<1>5. Write(p) => written'.ifs = q /\ written'.dsl = p.dsl
  BY <1>3
<1>6. q \in Seq(Config) /\ (Write(p) /\ p.ifs = <<>> => written'.ifs = interfaceslist)
  BY <1>1, <1>2, <1>5
<1> QED
  BY <1>4, <1>5, <1>6 DEF q

\* The counter of visits keeps to its bound.
LEMMA VisitTypes ==
  ASSUME TypeOK, Visit PROVE visits' \in 0 .. MaxVisits
<1>1. visits \in 0 .. MaxVisits
  BY DEF TypeOK
<1> QED
  BY <1>1, NetworkAssumption, SMT DEF Visit

\* run_net_config leaves the page alone.
LEMMA Source ==
  ASSUME Inv,
         \/ UseLastProfile \/ ParseFails \/ UseAnyway
         \/ \E i \in Iface : UseDhcp(i)
         \/ AskInterface \/ CancelInterface \/ NoInterface \/ CancelType
         \/ Accept \/ Reject \/ Back
  PROVE  Inv'
<1> USE DEF Inv, data, page, disk
<1>1. /\ UNCHANGED <<lastprofile, newinterface, interfaceslist, shown,
                     newprofile, dsl, written, how, ops, visits>>
      /\ at' \in {"pages", "source", "interface", "ended"}
      /\ parsed' \in BOOLEAN
  BY DEF UseLastProfile, ParseFails, UseDhcp, UseAnyway, AskInterface,
         CancelInterface, NoInterface, CancelType, Accept, Reject, Back, Save, TypeOK
<1> DEFINE Kept == netprofile' \in Profile /\ saved' \in Profile /\ AsSaved'
<1>2. \A ifs \in Seq(Config), d \in Iface \cup {NoDsl} : Save(ifs, d) => Kept
  BY SMT DEF Save, Profile, AsSaved
<1>3. NoDsl \in Iface \cup {NoDsl}
  OBVIOUS
<1>4. \A c \in Config : <<c>> \in Seq(Config)
  BY SMT
<1>5. Kept
  <2>1. CASE UseLastProfile
    <3>1. lastprofile \in Seq(Config) /\ Save(lastprofile, NoDsl)
      BY <2>1 DEF UseLastProfile, TypeOK
    <3> HIDE DEF Kept
    <3> QED
      BY <3>1, <1>2, <1>3
  <2>2. ASSUME NEW i \in Iface, UseDhcp(i)
        PROVE  Kept
    <3> DEFINE c == [name |-> i, type |-> "dhcp"]
    <3>1. c \in Config
      BY DEF Config, Type
    <3>2. Save(<<c>>, NoDsl) \/ UNCHANGED data
      BY <2>2 DEF UseDhcp
    <3>3. CASE Save(<<c>>, NoDsl)
      <4> HIDE DEF Kept, c
      <4> QED
        BY <3>1, <3>3, <1>2, <1>3, <1>4
    <3>4. CASE UNCHANGED data
      BY <3>4 DEF TypeOK, AsSaved
    <3> QED
      BY <3>2, <3>3, <3>4
  <2>3. CASE Accept
    <3>1. newinterface \in Config /\ newinterface.name \in Iface
      BY <2>3 DEF Accept, Started, Config
    <3>2. \E d \in Iface \cup {NoDsl} : Save(<<newinterface>>, d)
      BY <2>3, <3>1 DEF Accept
    <3> HIDE DEF Kept
    <3> QED
      BY <3>1, <3>2, <1>2, <1>4
  <2>4. CASE UNCHANGED data
    BY <2>4 DEF TypeOK, AsSaved
  <2> QED
    BY <2>1, <2>2, <2>3, <2>4 DEF ParseFails, UseAnyway, AskInterface,
       CancelInterface, NoInterface, CancelType, Reject, Back
<1>6. TypeOK'
  BY <1>1, <1>5 DEF TypeOK
<1> QED
  BY <1>1, <1>5, <1>6 DEF Listed, Copied, OwnProfile, AppliedAsSaved, Started

\* Starting a connection keeps the invariant.
LEMMA Starting ==
  ASSUME Inv, NEW c \in Config, StartConnection(c) PROVE Inv'
<1> USE DEF Inv, StartConnection, data, page, disk
<1>1. lastprofile' \in Seq(Config)
  <2>1. <<c>> \in Seq(Config)
    BY SMT
  <2> QED
    BY <2>1 DEF TypeOK
<1>2. TypeOK'
  BY <1>1 DEF TypeOK
<1> QED
  BY <1>2 DEF Listed, Copied, OwnProfile, AsSaved, AppliedAsSaved, Started

\* So does entering either page, by way of a profile that is freed too.
LEMMA Entering ==
  ASSUME Inv, EnterSource \/ Reconfigure \/ Apply \/ ApplyFreed PROVE Inv'
<1> USE DEF Inv, data, page, disk
<1>1. visits' \in 0 .. MaxVisits
  BY VisitTypes DEF EnterSource, Reconfigure, Apply, ApplyFreed
<1>2. NULL \in Profile
  BY NullProfile
<1>3. CASE EnterSource
  <2>1. TypeOK'
    BY <1>1, <1>3 DEF EnterSource, TypeOK
  <2> QED
    BY <2>1, <1>3 DEF EnterSource, Listed, Copied, OwnProfile, AsSaved, AppliedAsSaved, Started
<1>4. CASE Reconfigure
  <2>1. TypeOK'
    BY <1>1, <1>4 DEF Reconfigure, TypeOK
  <2> QED
    BY <2>1, <1>4 DEF Reconfigure, Listed, Copied, OwnProfile, AsSaved, AppliedAsSaved, Started
<1>5. CASE Apply
  <2>1. /\ written' \in Profile
        /\ how' = "applied" => /\ written'.ifs = netprofile.ifs \o interfaceslist
                               /\ written'.dsl = netprofile.dsl
    <3>1. CASE Write(netprofile)
      BY <3>1, WriteTypes DEF TypeOK
    <3>2. CASE UNCHANGED written /\ how' = "not"
      BY <3>2 DEF TypeOK
    <3> QED
      BY <1>5, <3>1, <3>2 DEF Apply
  <2>2. netprofile' \in Profile /\ netprofile'.live = FALSE
    <3> DEFINE q == netprofile.ifs \o interfaceslist
    <3>1. netprofile \in Profile /\ q \in Seq(Config)
      BY WriteTypes DEF TypeOK
    <3>2. netprofile' = [netprofile EXCEPT !.ifs = q, !.live = FALSE]
      BY <1>5 DEF Apply
    <3> HIDE DEF q
    <3>3. netprofile' = [ifs |-> q, dsl |-> netprofile.dsl, live |-> FALSE]
      BY <3>1, <3>2 DEF Profile
    <3>4. FALSE \in BOOLEAN
      OBVIOUS
    <3> QED
      BY <3>1, <3>3, <3>4, ProfileFields, MakeProfile
  <2>3. /\ UNCHANGED <<lastprofile, saved, parsed, newinterface, interfaceslist, shown, ops>>
        /\ how' \in {"applied", "not"} /\ at' = "later"
        /\ newprofile' = "NULL" /\ dsl' = NoDsl
    BY <1>5 DEF Apply
  <2>4. TypeOK'
    BY <1>1, <2>1, <2>2, <2>3 DEF TypeOK
  <2>5. AppliedAsSaved'
    BY <1>5, <2>1, <2>3 DEF Apply, AsSaved, AppliedAsSaved
  <2> QED
    BY <2>2, <2>3, <2>4, <2>5 DEF Listed, Copied, OwnProfile, AsSaved, Started
<1>6. CASE ApplyFreed
  <2>1. written' \in Profile
    BY <1>2, <1>6, WriteTypes DEF ApplyFreed, TypeOK
  <2>2. TypeOK'
    BY <1>1, <1>6, <2>1 DEF ApplyFreed, TypeOK
  <2> QED
    BY <2>2, <1>6 DEF ApplyFreed, Listed, Copied, OwnProfile, AsSaved, AppliedAsSaved, Started
<1> QED
  BY <1>3, <1>4, <1>5, <1>6

\* The counter of buttons keeps to its bound.
LEMMA ButtonTypes ==
  ASSUME TypeOK, Button PROVE ops' \in 0 .. MaxOps
<1>1. ops \in 0 .. MaxOps
  BY DEF TypeOK
<1> QED
  BY <1>1, NetworkAssumption, SMT DEF Button

\* An interface that is not in the list can be appended to it.
LEMMA Appended ==
  ASSUME NEW s \in Seq(Config), Once(s), NEW c \in Config,
         \A j \in DOMAIN s : s[j].name # c.name
  PROVE  /\ Append(s, c) \in Seq(Config) /\ Once(Append(s, c))
         /\ \A j \in DOMAIN Append(s, c) :
              Append(s, c)[j] = c \/ (j \in DOMAIN s /\ Append(s, c)[j] = s[j])
<1> DEFINE t == Append(s, c)
<1>1. Len(s) \in Nat /\ DOMAIN s = 1 .. Len(s)
  BY LenProperties
<1>2. t \in Seq(Config) /\ DOMAIN t = 1 .. Len(s) + 1
      /\ t[Len(s) + 1] = c /\ \A j \in 1 .. Len(s) : t[j] = s[j]
  BY AppendProperties, LenProperties
<1> HIDE DEF t
<1>3. \A j \in DOMAIN t : (j = Len(s) + 1 /\ t[j] = c) \/ (j \in DOMAIN s /\ t[j] = s[j])
  BY <1>1, <1>2, SMT
<1>4. Once(t)
  BY <1>1, <1>3 DEF Once
<1> QED
  BY <1>2, <1>3, <1>4 DEF t

\* The buttons of netconf keep list and rows together.
LEMMA Buttons ==
  ASSUME Inv,
         \/ \E c \in Config : Configure(c)
         \/ \E i \in Iface : ConfigureCancelled(i) \/ Remove(i) \/ Dsl(i)
  PROVE  Inv'
<1> USE DEF Inv, data, page, disk
<1>1. /\ at = "netconf" /\ at' = at
      /\ UNCHANGED <<lastprofile, netprofile, saved, parsed, newinterface,
                     newprofile, written, how, visits>>
      /\ ops' \in 0 .. MaxOps
  BY ButtonTypes DEF Button, Configure, ConfigureCancelled, Remove, Dsl
<1>2. Copied' /\ AsSaved' /\ AppliedAsSaved' /\ Started'
  BY <1>1 DEF Copied, AsSaved, AppliedAsSaved, Started
<1>3. interfaceslist \in Seq(Config) /\ Once(interfaceslist)
      /\ shown \in [Iface -> Type \cup {""}]
  BY DEF TypeOK, Listed
<1> DEFINE Good(k) == interfaceslist[k].name \in Iface
                     /\ shown[interfaceslist[k].name] = interfaceslist[k].type
<1>3a. \A k \in DOMAIN interfaceslist : Good(k)
  <2> SUFFICES ASSUME NEW k \in DOMAIN interfaceslist PROVE Good(k)
    OBVIOUS
  <2>1. interfaceslist[k] \in Config
    BY <1>3, LenProperties, ElementOfSeq
  <2> QED
    BY <2>1 DEF Config, Listed
<1>4. dsl' \in Iface \cup {NoDsl} /\ OwnProfile'
  BY <1>1 DEF Configure, ConfigureCancelled, Remove, Dsl, OwnProfile, TypeOK
<1> DEFINE Kept == /\ interfaceslist' \in Seq(Config)
                   /\ shown' \in [Iface -> Type \cup {""}]
                   /\ Listed'
<1>5. Kept
  <2>1. ASSUME NEW c \in Config, Configure(c)
        PROVE  Kept
    <3> DEFINE w == Without(c.name)
    <3>1. c.name \in Iface /\ c.type \in Type
      BY DEF Config
    <3>2. /\ w \in Seq(Config) /\ Once(w)
          /\ \A j \in DOMAIN w : /\ w[j].name # c.name
                                 /\ \E k \in DOMAIN interfaceslist : w[j] = interfaceslist[k]
      BY <1>3, WithoutKeeps
    <3>3. /\ interfaceslist' = Append(w, c)
          /\ shown' = [shown EXCEPT ![c.name] = c.type]
      BY <2>1 DEF Configure
    <3>4. shown' \in [Iface -> Type \cup {""}]
      BY <1>3, <3>1, <3>3
    <3> HIDE DEF w
    <3>5. /\ Append(w, c) \in Seq(Config) /\ Once(Append(w, c))
          /\ \A j \in DOMAIN Append(w, c) :
               Append(w, c)[j] = c \/ (j \in DOMAIN w /\ Append(w, c)[j] = w[j])
      BY <3>2, Appended
    <3>6. \A j \in DOMAIN w : w[j].name \in Iface /\ shown[w[j].name] = w[j].type
      BY <3>2, <1>3a
    <3>7. shown'[c.name] = c.type
          /\ \A i \in Iface : i # c.name => shown'[i] = shown[i]
      BY <1>3, <3>1, <3>3
    <3>8. \A j \in DOMAIN w : shown'[w[j].name] = w[j].type
      BY <3>2, <3>6, <3>7
    <3> QED
      BY <3>3, <3>4, <3>5, <3>7, <3>8 DEF Listed
  <2>2. ASSUME NEW i \in Iface, ConfigureCancelled(i) \/ Remove(i)
        PROVE  Kept
    <3>1. /\ Without(i) \in Seq(Config) /\ Once(Without(i))
          /\ \A j \in DOMAIN Without(i) :
               /\ Without(i)[j].name # i
               /\ \E k \in DOMAIN interfaceslist : Without(i)[j] = interfaceslist[k]
      BY <1>3, WithoutKeeps
    <3>2. /\ interfaceslist' = Without(i)
          /\ shown' = shown \/ shown' = [shown EXCEPT ![i] = ""]
      BY <2>2 DEF ConfigureCancelled, Remove
    <3>3. shown' \in [Iface -> Type \cup {""}]
          /\ \A n \in Iface : n # i => shown'[n] = shown[n]
      BY <1>3, <3>2
    <3>4. \A k \in DOMAIN interfaceslist :
            /\ interfaceslist[k].name \in Iface
            /\ shown[interfaceslist[k].name] = interfaceslist[k].type
      BY <1>3a
    <3>5. \A j \in DOMAIN Without(i) : shown'[Without(i)[j].name] = Without(i)[j].type
      BY <3>1, <3>3, <3>4
    <3> QED
      BY <3>1, <3>2, <3>3, <3>5 DEF Listed
  <2>3. ASSUME NEW i \in Iface, Dsl(i)
        PROVE  Kept
    BY <1>3, <2>3 DEF Dsl, Listed
  <2> QED
    BY <2>1, <2>2, <2>3, <1>1
<1>6. TypeOK'
  BY <1>1, <1>4, <1>5 DEF TypeOK
<1> QED
  BY <1>2, <1>4, <1>5, <1>6

\* Leaving netconf copies the list, or writes nothing.
LEMMA Leaving ==
  ASSUME Inv, Leave \/ LeaveUnwritten PROVE Inv'
<1> USE DEF Inv, data, page, disk
<1>1. CASE Leave
  <2> DEFINE p == [ifs |-> <<>>, dsl |-> dsl, live |-> TRUE]
  <2>1. dsl \in Iface \cup {NoDsl} /\ TRUE \in BOOLEAN
    BY DEF TypeOK
  <2>2. p \in Profile /\ p.ifs = <<>> /\ Write(p)
    BY <1>1, <2>1, EmptyList, MakeProfile DEF Leave
  <2> HIDE DEF p
  <2>3. written' \in Profile /\ written'.ifs = interfaceslist
    BY <2>2, WriteTypes DEF TypeOK
  <2>4. TypeOK'
    BY <1>1, <2>3 DEF Leave, TypeOK
  <2> QED
    BY <1>1, <2>3, <2>4 DEF Leave, Listed, Copied, OwnProfile, AsSaved, AppliedAsSaved, Started
<1>2. CASE LeaveUnwritten
  <2>1. TypeOK'
    BY <1>2 DEF LeaveUnwritten, TypeOK
  <2> QED
    BY <1>2, <2>1 DEF LeaveUnwritten, Listed, Copied, OwnProfile, AsSaved, AppliedAsSaved, Started
<1> QED
  BY <1>1, <1>2

\* The invariant is inductive.
LEMMA Step == Inv /\ [Next]_vars => Inv'
<1> SUFFICES ASSUME Inv, [Next]_vars PROVE Inv'
  OBVIOUS
<1>1. CASE Next
  BY <1>1, Source, Starting, Entering, Buttons, Leaving DEF Next
<1>2. CASE UNCHANGED vars
  <2>1. UNCHANGED <<lastprofile, netprofile, saved, parsed, newinterface,
                    interfaceslist, shown, newprofile, dsl, written, how, at, ops, visits>>
    BY <1>2 DEF vars
  <2>2. TypeOK'
    BY <2>1 DEF Inv, TypeOK
  <2>3. Listed'
    BY <2>1 DEF Inv, Listed, Once
  <2> QED
    BY <2>1, <2>2, <2>3 DEF Inv, Copied, OwnProfile, AsSaved, AppliedAsSaved, Started
<1> QED
  BY <1>1, <1>2

\* The invariant holds in every behaviour.
THEOREM Invariance == Spec => []Inv
BY Initially, Step, PTL DEF Spec

-----------------------------------------------------------------------------
\* Neither page brings a variable outside its type.
THEOREM TypeCorrect == Spec => []TypeOK
<1>1. Inv => TypeOK
  BY DEF Inv
<1> QED
  BY <1>1, Invariance, PTL

\* What netconf writes is what it shows, for any interfaces and any number of
\* visits.
THEOREM WhatIsShownIsWritten == Spec => []WrittenAsShown
<1>1. Inv => WrittenAsShown
  BY DEF Inv, Listed, Copied, WrittenAsShown
<1> QED
  BY <1>1, Invariance, PTL

\* The page never works on a profile that is freed, or on none.
THEOREM ProfileIsOwn == Spec => []OwnProfile
<1>1. Inv => OwnProfile
  BY DEF Inv
<1> QED
  BY <1>1, Invariance, PTL

\* Applying is writing what was saved, with the interfaces of the page once: for
\* any profile that is found, any interfaces and any number of visits.
THEOREM AppliedIsSaved == Spec => []AppliedAsSaved
<1>1. Inv => AppliedAsSaved
  BY DEF Inv
<1> QED
  BY <1>1, Invariance, PTL
=============================================================================
