--------------------------- MODULE MirrorsProofs ---------------------------
(***************************************************************************)
(* What Mirrors' run shows for four addresses, for any addresses, any      *)
(* number of rows and any number of starts.                                *)
(***************************************************************************)
EXTENDS Mirrors, TLAPS, SequenceTheorems, FiniteSetTheorems

-----------------------------------------------------------------------------
(* Lists of mirrors.                                                       *)

\* What is appended is the list's, and nothing else is.
LEMMA Appended ==
  ASSUME NEW S, NEW list \in Seq(S), NEW e \in S, NEW s
  PROVE  /\ Append(list, e) \in Seq(S)
         /\ Has(Append(list, e), s) <=> Has(list, s) \/ Is(e, s)
         /\ Once(list, s) /\ ~(Has(list, s) /\ Is(e, s)) => Once(Append(list, e), s)
<1> DEFINE new == Append(list, e)
           n   == Len(list)
<1>1. /\ new \in Seq(S) /\ n \in Nat /\ DOMAIN list = 1 .. n
      /\ DOMAIN new = 1 .. n + 1
      /\ new[n + 1] = e
      /\ \A k \in 1 .. n : new[k] = list[k]
  BY LenProperties, SMT
<1> HIDE DEF new, n
<1>2. Has(new, s) <=> Has(list, s) \/ Is(e, s)
  BY <1>1, SMT DEF Has
<1>3. ASSUME Once(list, s), ~(Has(list, s) /\ Is(e, s))
      PROVE  Once(new, s)
  BY <1>1, <1>3, SMT DEF Has, Once
<1> QED
  BY <1>1, <1>2, <1>3 DEF new

\* The same for what is prepended.
LEMMA Prepended ==
  ASSUME NEW S, NEW list \in Seq(S), NEW e \in S, NEW s
  PROVE  /\ <<e>> \o list \in Seq(S)
         /\ Has(<<e>> \o list, s) <=> Has(list, s) \/ Is(e, s)
         /\ Once(list, s) /\ ~(Has(list, s) /\ Is(e, s)) => Once(<<e>> \o list, s)
<1> DEFINE new == <<e>> \o list
           n   == Len(list)
<1>1. /\ new \in Seq(S) /\ n \in Nat /\ DOMAIN list = 1 .. n
      /\ DOMAIN new = 1 .. n + 1
      /\ new[1] = e
      /\ \A k \in 1 .. n : new[k + 1] = list[k]
  BY LenProperties, SMT
<1>2. \A k \in 1 .. n + 1 : k # 1 => k - 1 \in 1 .. n /\ new[k] = list[k - 1]
  BY <1>1, SMT
<1> HIDE DEF new, n
<1>5. \A k \in 1 .. n : k + 1 \in 1 .. n + 1
  BY <1>1, SMT
<1>6. 1 \in 1 .. n + 1
  BY <1>1, SMT
<1>3. Has(new, s) <=> Has(list, s) \/ Is(e, s)
  <2>1. ASSUME Has(new, s) PROVE Has(list, s) \/ Is(e, s)
    BY <1>1, <1>2, <2>1, Zenon DEF Has
  <2>2. ASSUME Has(list, s) PROVE Has(new, s)
    BY <1>1, <1>5, <2>2, Zenon DEF Has
  <2>3. ASSUME Is(e, s) PROVE Has(new, s)
    BY <1>1, <1>6, <2>3, Zenon DEF Has
  <2> QED
    BY <2>1, <2>2, <2>3
<1>4. ASSUME Once(list, s), ~(Has(list, s) /\ Is(e, s))
      PROVE  Once(new, s)
  <2>1. SUFFICES ASSUME NEW j \in 1 .. n + 1, NEW k \in 1 .. n + 1, Is(new[j], s), Is(new[k], s)
                 PROVE  j = k
    BY <1>1 DEF Once
  <2>2. CASE j = 1
    BY <1>1, <1>2, <1>4, <2>1, <2>2, Zenon DEF Has
  <2>3. CASE k = 1
    BY <1>1, <1>2, <1>4, <2>1, <2>3, Zenon DEF Has
  <2>4. CASE j # 1 /\ k # 1
    <3>1. j - 1 = k - 1
      BY <1>1, <1>2, <1>4, <2>1, <2>4, Zenon DEF Once
    <3> QED
      BY <1>1, <2>1, <3>1, SMT
  <2> QED
    BY <2>2, <2>3, <2>4
<1> QED
  BY <1>1, <1>3, <1>4 DEF new

\* What is deleted is not the list's any more, and everything else is.
LEMMA Deleted ==
  ASSUME NEW S, NEW list \in Seq(S), NEW r \in DOMAIN list, NEW s, ~Is(list[r], s)
  PROVE  /\ Without(list, r) \in Seq(S)
         /\ Has(list, s) => Has(Without(list, r), s)
         /\ Once(list, s) => Once(Without(list, r), s)
<1> DEFINE a   == SubSeq(list, 1, r - 1)
           b   == SubSeq(list, r + 1, Len(list))
           new == Without(list, r)
           n   == Len(list)
<1>1. /\ n \in Nat /\ DOMAIN list = 1 .. n /\ r \in 1 .. n
  BY LenProperties
<1>2. /\ a \in Seq(S) /\ Len(a) = r - 1
      /\ \A j \in 1 .. r - 1 : a[j] = list[j]
  BY <1>1, SMT
<1>3. /\ b \in Seq(S) /\ Len(b) = n - r
      /\ \A j \in 1 .. n - r : b[j] = list[r + j]
  BY <1>1, SMT
<1>4. new = a \o b
  BY DEF Without
<1> HIDE DEF a, b, new, n
<1>5. /\ new \in Seq(S) /\ DOMAIN new = 1 .. n - 1
      /\ \A j \in 1 .. n - 1 : new[j] = IF j < r THEN list[j] ELSE list[j + 1]
  <2> SUFFICES /\ a \o b \in Seq(S) /\ Len(a \o b) = n - 1
               /\ \A j \in 1 .. n - 1 : (a \o b)[j] = IF j < r THEN list[j] ELSE list[j + 1]
    BY <1>4, LenProperties
  <2>1. n \in Nat /\ r \in 1 .. n
    BY <1>1
  <2>2. /\ a \o b \in Seq(S) /\ Len(a \o b) = Len(a) + Len(b)
        /\ \A j \in 1 .. Len(a) + Len(b) :
             (a \o b)[j] = IF j <= Len(a) THEN a[j] ELSE b[j - Len(a)]
    BY <1>2, <1>3, ConcatProperties
  <2>3. ASSUME NEW j \in 1 .. n - 1
        PROVE  (a \o b)[j] = IF j < r THEN list[j] ELSE list[j + 1]
    <3>1. j \in 1 .. Len(a) + Len(b)
      BY <1>2, <1>3, <2>1, SMT
    <3>2. CASE j < r
      BY <1>2, <2>1, <2>2, <3>1, <3>2, SMT
    <3>3. CASE ~(j < r)
      <4>1. j - Len(a) \in 1 .. n - r /\ r + (j - Len(a)) = j + 1 /\ ~(j <= Len(a))
        BY <1>2, <2>1, <3>3, SMT
      <4> QED
        BY <1>3, <2>2, <3>1, <3>3, <4>1
    <3> QED
      BY <3>2, <3>3
  <2>4. Len(a) + Len(b) = n - 1
    BY <1>2, <1>3, <2>1, SMT
  <2> QED
    BY <2>2, <2>3, <2>4
<1>6. ASSUME Has(list, s)
      PROVE  Has(new, s)
  <2>1. PICK k \in 1 .. n : Is(list[k], s)
    BY <1>1, <1>6 DEF Has
  <2>2. k # r
    BY <2>1
  <2>3. CASE k < r
    BY <1>1, <1>5, <2>1, <2>3, SMT DEF Has
  <2>4. CASE k > r
    <3>1. k - 1 \in 1 .. n - 1 /\ new[k - 1] = list[k]
      BY <1>1, <1>5, <2>1, <2>4, SMT
    <3> QED
      BY <1>5, <2>1, <3>1 DEF Has
  <2> QED
    BY <1>1, <2>2, <2>3, <2>4, SMT
<1>7. ASSUME Once(list, s)
      PROVE  Once(new, s)
  <2>1. SUFFICES ASSUME NEW j \in 1 .. n - 1, NEW k \in 1 .. n - 1, Is(new[j], s), Is(new[k], s)
                 PROVE  j = k
    BY <1>5 DEF Once
  <2> DEFINE mj == IF j < r THEN j ELSE j + 1
             mk == IF k < r THEN k ELSE k + 1
  <2>2. mj \in 1 .. n /\ mk \in 1 .. n /\ new[j] = list[mj] /\ new[k] = list[mk]
    BY <1>1, <1>5, <2>1, SMT
  <2>3. mj = mk
    BY <1>1, <1>7, <2>1, <2>2 DEF Once
  <2> QED
    BY <1>1, <2>1, <2>3, SMT
<1> QED
  BY <1>5, <1>6, <1>7 DEF new

\* Lists with the same names from the same places hold the same mirrors.
LEMMA Alike ==
  ASSUME NEW list, NEW other, DOMAIN list = DOMAIN other,
         \A k \in DOMAIN list : list[k].name = other[k].name /\ list[k].from = other[k].from
  PROVE  Whole(list) <=> Whole(other)
<1>1. \A s : \A k \in DOMAIN list : Is(list[k], s) <=> Is(other[k], s)
  BY DEF Is
<1> QED
  BY <1>1 DEF Whole, Has, Once

-----------------------------------------------------------------------------
(* The inductive invariant: is_connected's answer is about its own attempt,*)
(* the rows are as far as the loop is, and so is the list that is written. *)

Own ==
  /\ pc = "answered" => answered = TRUE
  /\ pc \in {"called", "alarmed", "connecting", "refused", "timedout", "crashed"}
       => answered = FALSE
  /\ pc = "idle" => (answered = TRUE <=> result = 1)

SameMirror(m, n) == m.name = n.name /\ m.from = n.from

\* The rows are the first of the file's mirrors.
Shown ==
  /\ Len(rows) <= Len(file)
  /\ \A k \in DOMAIN rows : SameMirror(rows[k], file[k])

\* The first rows have been taken.
Taken ==
  \A s \in Shipped :
    /\ Once(newlist, s)
    /\ Has(newlist, s) <=> \E r \in 1 .. i - 1 : Is(rows[r], s)

Progress ==
  /\ Whole(file)
  /\ at \in {"pages", "net"} => i = 1 /\ IF loaded THEN Whole(rows) ELSE rows = <<>>
  /\ at \in {"row", "asked", "page", "run"} => loaded = TRUE
  /\ at = "row" => Shown /\ Len(rows) = i - 1
  /\ at = "asked" => Shown /\ Len(rows) = i
  /\ at = "page" => i = 1 /\ Whole(rows)
  /\ at = "run" => Whole(rows) /\ i - 1 <= Len(rows) /\ Taken
  /\ at \notin {"run", "ended"} => newlist = <<>>

Attempted == ConnectTypeOK /\ NoLateAlarm /\ Own
Listed    == PageTypeOK /\ Progress
IInv      == Attempted /\ Listed

\* Every step of is_connected, of the kernel and of the alarm keeps its part.
LEMMA AttemptedStep ==
  ASSUME Attempted, Call \/ Proceed \/ Surround \/ UNCHANGED connect
  PROVE  Attempted'
<1> USE DEF Attempted, ConnectTypeOK, NoLateAlarm, Own
<1>1. CASE Call
  BY <1>1 DEF Call, Go
<1>2. CASE NoAddress
  BY <1>2 DEF NoAddress, Return, Go
<1>3. CASE SetAlarm
  BY <1>3 DEF SetAlarm, Go
<1>4. CASE SetJump
  BY <1>4 DEF SetJump, Go
<1>5. CASE Answered
  BY <1>5 DEF Answered, Return, Go
<1>6. CASE Refused
  BY <1>6 DEF Refused, Return, Go
<1>7. CASE TimedOut
  BY <1>7 DEF TimedOut, Return, Go
<1>8. CASE ConnectReturns
  BY <1>8 DEF ConnectReturns, Go
<1>9. CASE Ring
  BY <1>9 DEF Ring
<1>10. CASE RingUnheard
  BY <1>10 DEF RingUnheard
<1>11. CASE UNCHANGED connect
  BY <1>11 DEF connect
<1> QED
  BY <1>1, <1>2, <1>3, <1>4, <1>5, <1>6, <1>7, <1>8, <1>9, <1>10, <1>11 DEF Proceed, Surround

-----------------------------------------------------------------------------
(* The page: its list at each step.                                        *)

\* A list whose mirrors are those of the whole file is whole.
LEMMA AllShown ==
  ASSUME Listed, Shown, Len(rows) = Len(file)
  PROVE  Whole(rows)
<1>1. DOMAIN rows = DOMAIN file
  BY LenProperties DEF Listed, PageTypeOK
<1> QED
  BY <1>1, Alike DEF Shown, SameMirror, Listed, Progress

\* There is always something to read.
LEMMA FileNotEmpty ==
  ASSUME Listed
  PROVE  file # <<>>
<1>1. PICK s \in Shipped : Has(file, s)
  BY MirrorsAssumption DEF Listed, Progress, Whole
<1>2. DOMAIN file # {}
  BY <1>1 DEF Has
<1> QED
  BY <1>2, LenProperties, SMT DEF Listed, PageTypeOK

\* A list with nothing in it.
LEMMA NothingTaken == \A s : Once(<<>>, s) /\ ~Has(<<>>, s)
BY SMT DEF Once, Has

\* prerun.
LEMMA EnterStep ==
  ASSUME Listed, FindDisc \/ EnterSource \/ TryNetwork
  PROVE  Listed'
<1>1. CASE FindDisc
  BY <1>1 DEF Listed, PageTypeOK, Progress, FindDisc
<1>2. CASE EnterSource
  BY <1>2 DEF Listed, PageTypeOK, Progress, EnterSource, Move, page
<1>3. CASE TryNetwork
  BY <1>3 DEF Listed, PageTypeOK, Progress, TryNetwork, page
<1> QED
  BY <1>1, <1>2, <1>3

LEMMA LeaveNetworkStep ==
  ASSUME Listed, LeaveNetwork
  PROVE  Listed'
<1>1. loaded' = TRUE /\ UNCHANGED <<file, rows, i, newlist, srcdev>> /\ at = "net"
  BY FileNotEmpty DEF LeaveNetwork, Move, Listed, PageTypeOK
<1>2. i = 1 /\ IF loaded THEN Whole(rows) ELSE rows = <<>>
  BY <1>1 DEF Listed, Progress
<1>3. CASE loaded
  <2>1. at' = "page" /\ Whole(rows)
    BY <1>2, <1>3 DEF LeaveNetwork, Move
  <2> QED
    BY <1>1, <1>2, <2>1 DEF Listed, PageTypeOK, Progress
<1>4. CASE ~loaded
  <2>1. at' = "row" /\ rows = <<>>
    BY <1>2, <1>4 DEF LeaveNetwork, Move
  <2>2. Len(rows) = 0 /\ DOMAIN rows = {} /\ Len(file) \in Nat
    BY <2>1, LenProperties, SMT DEF Listed, PageTypeOK
  <2>3. Shown /\ Len(rows) = i - 1
    BY <1>2, <2>2, SMT DEF Shown
  <2> QED
    BY <1>1, <2>1, <2>3 DEF Listed, PageTypeOK, Progress, Shown
<1> QED
  BY <1>3, <1>4

LEMMA TryMirrorStep ==
  ASSUME Listed, TryMirror
  PROVE  Listed'
<1> DEFINE row == Blank(file[i])
<1>1. /\ at = "row" /\ at' = "asked"
      /\ UNCHANGED <<file, loaded, i, newlist, srcdev>>
      /\ rows' = Append(rows, row)
      /\ i \in DOMAIN file
  BY DEF TryMirror, Move
<1>2. row \in Row /\ SameMirror(row, file[i])
  <2>1. file[i] \in Mirror
    BY <1>1, LenProperties, SMT DEF Listed, PageTypeOK
  <2> DEFINE used == file[i].name \in Preferred
  <2>2. row = [name |-> file[i].name, from |-> file[i].from, use |-> used, status |-> ""]
    BY DEF Blank
  <2>3. used \in BOOLEAN
    OBVIOUS
  <2> HIDE DEF used, row
  <2> QED
    BY <2>1, <2>2, <2>3 DEF Mirror, Row, SameMirror
<1>3. Shown /\ Len(rows) = i - 1
  BY <1>1 DEF Listed, Progress
<1>4. /\ i \in 1 .. Len(file) /\ Len(rows) \in Nat
      /\ DOMAIN rows = 1 .. Len(rows)
      /\ rows \in Seq(Row)
  BY <1>1, LenProperties DEF Listed, PageTypeOK
<1> HIDE DEF row
<1>5. /\ rows' \in Seq(Row) /\ Len(rows') = i
      /\ DOMAIN rows' = 1 .. Len(rows')
      /\ rows'[i] = row
      /\ \A k \in 1 .. i - 1 : rows'[k] = rows[k]
  BY <1>1, <1>2, <1>3, <1>4, SMT
<1>6. \A k \in DOMAIN rows' : k = i \/ k \in DOMAIN rows
  BY <1>3, <1>4, <1>5, SMT
<1>7. Shown'
  <2>1. Len(rows') <= Len(file')
    BY <1>1, <1>4, <1>5, SMT
  <2>2. \A k \in DOMAIN rows' : SameMirror(rows'[k], file'[k])
    BY <1>1, <1>2, <1>3, <1>4, <1>5, <1>6 DEF Shown, SameMirror
  <2> QED
    BY <2>1, <2>2 DEF Shown
<1> QED
  BY <1>1, <1>5, <1>7 DEF Listed, PageTypeOK, Progress

LEMMA ShowRowStep ==
  ASSUME Listed, ShowRow
  PROVE  Listed'
<1> DEFINE status == IF result < 1 THEN "bad" ELSE "good"
           n == Len(rows)
<1>1. /\ at = "asked" /\ at' = "row"
      /\ UNCHANGED <<file, loaded, newlist, srcdev>>
      /\ rows' = [rows EXCEPT ![n].status = status]
      /\ i' = i + 1
  BY DEF ShowRow, Move
<1>2. status \in {"", "good", "bad"}
  OBVIOUS
<1>3. Shown /\ n = i
  BY <1>1 DEF Listed, Progress
<1>4. rows \in Seq(Row) /\ n \in Nat /\ i \in Nat \ {0} /\ DOMAIN rows = 1 .. n
  BY LenProperties DEF Listed, PageTypeOK
<1> HIDE DEF status
<1>5. n \in DOMAIN rows /\ rows[n] \in Row
  BY <1>3, <1>4, SMT
<1>6. /\ [rows[n] EXCEPT !.status = status] \in Row
      /\ SameMirror([rows[n] EXCEPT !.status = status], rows[n])
  BY <1>2, <1>5 DEF Row, SameMirror
<1>7. /\ rows' \in Seq(Row) /\ Len(rows') = n /\ DOMAIN rows' = DOMAIN rows
      /\ \A k \in DOMAIN rows : SameMirror(rows'[k], rows[k])
  <2>1. rows' = [rows EXCEPT ![n] = [rows[n] EXCEPT !.status = status]]
    BY <1>1
  <2>2. /\ rows' \in Seq(Row) /\ Len(rows') = n /\ DOMAIN rows' = DOMAIN rows
        /\ \A k \in DOMAIN rows :
             rows'[k] = IF k = n THEN [rows[n] EXCEPT !.status = status] ELSE rows[k]
    BY <1>4, <1>5, <1>6, <2>1, ExceptSeq, LenProperties
  <2> QED
    BY <1>6, <2>2 DEF SameMirror
<1>8. Shown'
  BY <1>1, <1>3, <1>7 DEF Shown, SameMirror
<1>9. i' \in Nat \ {0} /\ Len(rows') = i' - 1
  BY <1>1, <1>3, <1>4, <1>7, SMT
<1> QED
  BY <1>1, <1>7, <1>8, <1>9 DEF Listed, PageTypeOK, Progress

LEMMA EndLoopStep ==
  ASSUME Listed, NoDirectory \/ ShowPage \/ Crash
  PROVE  Listed'
<1>1. CASE NoDirectory
  BY <1>1 DEF Listed, PageTypeOK, Progress, NoDirectory, Move, page
<1>2. CASE Crash
  BY <1>2 DEF Listed, PageTypeOK, Progress, Crash, page
<1>3. CASE ShowPage
  <2>1. /\ at = "row" /\ at' = "page" /\ i' = 1 /\ i \notin DOMAIN file
        /\ UNCHANGED <<file, loaded, rows, newlist, srcdev>>
    BY <1>3 DEF ShowPage, Move
  <2>2. Shown /\ Len(rows) = i - 1
    BY <2>1 DEF Listed, Progress
  <2>3. /\ Len(file) \in Nat /\ Len(rows) \in Nat /\ DOMAIN file = 1 .. Len(file)
        /\ i \in Nat \ {0}
    BY LenProperties DEF Listed, PageTypeOK
  <2>4. Len(rows) = Len(file)
    BY <2>1, <2>2, <2>3, SMT DEF Shown
  <2>5. Whole(rows)
    BY <2>2, <2>4, AllShown
  <2> QED
    BY <2>1, <2>5 DEF Listed, PageTypeOK, Progress
<1> QED
  BY <1>1, <1>2, <1>3

-----------------------------------------------------------------------------
(* The user at the page.                                                   *)

LEMMA ToggleStep ==
  ASSUME Listed, NEW r \in DOMAIN rows, Toggle(r)
  PROVE  Listed'
<1> DEFINE row == [rows[r] EXCEPT !.use = ~@]
<1>1. /\ at = "page" /\ at' = "page" /\ UNCHANGED <<file, loaded, i, newlist, srcdev>>
      /\ rows' = [rows EXCEPT ![r] = row]
  BY DEF Toggle
<1>2. rows \in Seq(Row) /\ r \in 1 .. Len(rows) /\ rows[r] \in Row
  BY LenProperties, SMT DEF Listed, PageTypeOK
<1>3. row \in Row /\ SameMirror(row, rows[r])
  BY <1>2 DEF Row, SameMirror
<1> HIDE DEF row
<1>4. /\ rows' \in Seq(Row) /\ DOMAIN rows' = DOMAIN rows
      /\ \A k \in DOMAIN rows : rows'[k] = IF k = r THEN row ELSE rows[k]
  BY <1>1, <1>2, <1>3, ExceptSeq, LenProperties
<1>5. \A k \in DOMAIN rows' : rows'[k].name = rows[k].name /\ rows'[k].from = rows[k].from
  BY <1>3, <1>4 DEF SameMirror
<1>6. Whole(rows)'
  <2>1. Whole(rows) /\ \A list : Whole(list) = Whole(list)'
    BY <1>1 DEF Listed, Progress, Whole, Has, Once, Is
  <2> QED
    BY <1>4, <1>5, <2>1, Alike
<1> QED
  BY <1>1, <1>4, <1>6 DEF Listed, PageTypeOK, Progress

LEMMA AddMirrorStep ==
  ASSUME Listed, NEW c \in Custom, AddMirror(c)
  PROVE  Listed'
<1> DEFINE row == [name |-> c, from |-> "CUSTOM", use |-> TRUE, status |-> ""]
<1>1. /\ at = "page" /\ at' = "page" /\ UNCHANGED <<file, loaded, i, newlist, srcdev>>
      /\ rows' = Append(rows, row)
  BY DEF AddMirror
<1>2. row \in Row /\ \A s : ~Is(row, s)
  BY DEF Row, Server, Origin, Is
<1>3. rows \in Seq(Row) /\ Whole(rows)
  BY <1>1 DEF Listed, PageTypeOK, Progress
<1> HIDE DEF row
<1>4. rows' \in Seq(Row)
  BY <1>1, <1>2, <1>3, SMT
<1>5. Whole(rows)'
  BY <1>1, <1>2, <1>3, Appended DEF Whole
<1> QED
  BY <1>1, <1>4, <1>5 DEF Listed, PageTypeOK, Progress

LEMMA RemoveMirrorStep ==
  ASSUME Listed, NEW r \in DOMAIN rows, RemoveMirror(r)
  PROVE  Listed'
<1>1. /\ at = "page" /\ at' = "page" /\ UNCHANGED <<file, loaded, i, newlist, srcdev>>
      /\ rows' = Without(rows, r)
      /\ rows[r].from = "CUSTOM"
  BY DEF RemoveMirror
<1>2. rows \in Seq(Row) /\ Whole(rows)
  BY <1>1 DEF Listed, PageTypeOK, Progress
<1>3. \A s : ~Is(rows[r], s)
  BY <1>1 DEF Is
<1>4. \A s \in Shipped : /\ rows' \in Seq(Row)
                        /\ Has(rows', s) /\ Once(rows', s)
  BY <1>1, <1>2, <1>3, Deleted DEF Whole
<1>5. rows' \in Seq(Row) /\ Whole(rows)'
  BY <1>4, MirrorsAssumption DEF Whole
<1> QED
  BY <1>1, <1>5 DEF Listed, PageTypeOK, Progress

LEMMA LeaveStep ==
  ASSUME Listed, Back \/ LeaveUnwritten \/ Leave
  PROVE  Listed'
<1>1. CASE Back \/ LeaveUnwritten
  BY <1>1 DEF Listed, PageTypeOK, Progress, Back, LeaveUnwritten, Move, page
<1>2. CASE Leave
  <2>1. /\ at = "page" /\ at' = "run"
        /\ UNCHANGED <<file, loaded, rows, i, newlist, srcdev>>
    BY <1>2 DEF Leave, Move, page
  <2>2. i = 1 /\ Whole(rows) /\ newlist = <<>> /\ Len(rows) \in Nat
    BY <2>1, LenProperties DEF Listed, PageTypeOK, Progress
  <2>3. 1 .. i - 1 = {} /\ i - 1 <= Len(rows)
    BY <2>2, SMT
  <2>4. Taken
    BY <2>2, <2>3, NothingTaken DEF Taken
  <2> QED
    BY <2>1, <2>2, <2>3, <2>4 DEF Listed, PageTypeOK, Progress, Taken
<1> QED
  BY <1>1, <1>2

\* A mirror is in a whole list once: what is taken next was not taken before.
LEMMA NotTwice ==
  ASSUME Listed, at = "run", i \in DOMAIN rows, NEW s \in Shipped, Is(rows[i], s)
  PROVE  ~Has(newlist, s)
<1>1. SUFFICES ASSUME Has(newlist, s) PROVE FALSE
  OBVIOUS
<1>2. PICK r \in 1 .. i - 1 : Is(rows[r], s)
  BY <1>1 DEF Listed, Progress, Taken
<1>3. r \in DOMAIN rows /\ r # i
  BY <1>2, LenProperties, SMT DEF Listed, PageTypeOK
<1>4. Once(rows, s)
  BY DEF Listed, Progress, Whole
<1> QED
  BY <1>2, <1>3, <1>4 DEF Once

LEMMA TakeRowStep ==
  ASSUME Listed, TakeRow
  PROVE  Listed'
<1> DEFINE e == Entry(rows[i])
<1>1. /\ at = "run" /\ at' = "run" /\ UNCHANGED <<file, loaded, rows, srcdev>>
      /\ i \in DOMAIN rows
      /\ newlist' = <<e>> \o newlist \/ newlist' = Append(newlist, e)
      /\ i' = i + 1
  BY DEF TakeRow
<1>2. /\ rows \in Seq(Row) /\ newlist \in Seq(Mirror) /\ i \in Nat \ {0}
      /\ i \in 1 .. Len(rows) /\ Len(rows) \in Nat
      /\ rows[i] \in Row
  BY <1>1, LenProperties, SMT DEF Listed, PageTypeOK
<1>3. e \in Mirror /\ \A s : Is(e, s) <=> Is(rows[i], s)
  BY <1>2 DEF Row, Mirror, Entry, Is
<1> HIDE DEF e
<1>4. newlist' \in Seq(Mirror)
  <2>1. <<e>> \in Seq(Mirror)
    BY <1>3, SMT
  <2>2. <<e>> \o newlist \in Seq(Mirror)
    BY <1>2, <2>1, ConcatProperties
  <2>3. Append(newlist, e) \in Seq(Mirror)
    BY <1>2, <1>3, AppendProperties
  <2> QED
    BY <1>1, <2>2, <2>3
<1>5. /\ i' \in Nat \ {0} /\ i' - 1 <= Len(rows)
      /\ \A r : r \in 1 .. i' - 1 <=> r \in 1 .. i - 1 \/ r = i
  BY <1>1, <1>2, SMT
<1>6. ASSUME NEW s \in Shipped
      PROVE  /\ Once(newlist', s)
             /\ Has(newlist', s) <=> \E r \in 1 .. i' - 1 : Is(rows[r], s)
  <2>1. /\ Once(newlist, s)
        /\ Has(newlist, s) <=> \E r \in 1 .. i - 1 : Is(rows[r], s)
    BY <1>1 DEF Listed, Progress, Taken
  <2>2. ~(Has(newlist, s) /\ Is(e, s))
    BY <1>1, <1>3, NotTwice
  <2>3. Once(newlist', s) /\ (Has(newlist', s) <=> Has(newlist, s) \/ Is(e, s))
    <3>1. CASE newlist' = <<e>> \o newlist
      BY <1>2, <1>3, <2>1, <2>2, <3>1, Prepended
    <3>2. CASE newlist' = Append(newlist, e)
      BY <1>2, <1>3, <2>1, <2>2, <3>2, Appended
    <3> QED
      BY <1>1, <3>1, <3>2
  <2> QED
    BY <1>3, <1>5, <2>1, <2>3
<1>7. Taken'
  BY <1>1, <1>6 DEF Taken
<1> QED
  BY <1>1, <1>4, <1>5, <1>7 DEF Listed, PageTypeOK, Progress

LEMMA WriteFileStep ==
  ASSUME Listed, WriteFile
  PROVE  Listed'
<1>1. /\ at = "run" /\ at' = "pages" /\ i' = 1 /\ newlist' = <<>>
      /\ file' = newlist /\ UNCHANGED <<loaded, rows, srcdev>>
      /\ i \notin DOMAIN rows
  BY DEF WriteFile, Move
<1>2. /\ Len(rows) \in Nat /\ DOMAIN rows = 1 .. Len(rows) /\ i \in Nat \ {0}
      /\ i - 1 <= Len(rows)
  BY <1>1, LenProperties DEF Listed, PageTypeOK, Progress
<1>3. 1 .. i - 1 = DOMAIN rows
  BY <1>1, <1>2, SMT
<1>4. Whole(rows) /\ Taken
  BY <1>1 DEF Listed, Progress
<1>5. Whole(newlist)
  BY <1>3, <1>4 DEF Whole, Taken, Has
<1> QED
  BY <1>1, <1>4, <1>5 DEF Listed, PageTypeOK, Progress

LEMMA RestartStep ==
  ASSUME Restart, IInv
  PROVE  IInv'
<1>1. Attempted'
  <2>1. /\ pc' = "idle" /\ alarm' = "off" /\ jump' = FALSE /\ blocked' = FALSE
        /\ answered' = FALSE /\ result' = -1
    BY DEF Restart
  <2>2. -1 # 1
    BY SMT
  <2> QED
    BY <2>1, <2>2 DEF Attempted, ConnectTypeOK, NoLateAlarm, Own
<1>2. Listed'
  <2>1. /\ loaded' = FALSE /\ rows' = <<>> /\ i' = 1 /\ newlist' = <<>>
        /\ srcdev' = FALSE /\ at' = "pages" /\ file' = file
    BY DEF Restart
  <2>2. <<>> \in Seq(Mirror) /\ <<>> \in Seq(Row) /\ 1 \in Nat \ {0}
    BY SMT
  <2>3. PageTypeOK'
    BY <2>1, <2>2 DEF IInv, Listed, PageTypeOK
  <2>4. Progress'
    BY <2>1 DEF IInv, Listed, Progress
  <2> QED
    BY <2>3, <2>4 DEF Listed
<1> QED
  BY <1>1, <1>2 DEF IInv

LEMMA InitInv == Init => IInv
<1> SUFFICES ASSUME Init PROVE IInv
  OBVIOUS
<1>1. Attempted
  <2>1. -1 # 1
    BY SMT
  <2> QED
    BY <2>1 DEF Init, ConnectInit, Attempted, ConnectTypeOK, NoLateAlarm, Own
<1>2. Cardinality(Shipped) \in Nat
  BY MirrorsAssumption, FS_CardinalityType
<1>3. file \in Seq(Mirror) /\ DOMAIN file = 1 .. Cardinality(Shipped)
  <2>1. [name : Shipped, from : {"country"}] \subseteq Mirror
    BY DEF Mirror, Server, Origin
  <2> QED
    BY <1>2, <2>1, SMT DEF Init
<1>4. Whole(file)
  <2>1. \A k \in DOMAIN file : file[k].from = "country"
    BY <1>3 DEF Init
  <2> QED
    BY <2>1 DEF Init, Whole, Has, Once, Is
<1>5. Listed
  <2>1. <<>> \in Seq(Mirror) /\ <<>> \in Seq(Row) /\ 1 \in Nat \ {0}
    BY SMT
  <2>2. PageTypeOK
    BY <1>3, <2>1 DEF Init, PageTypeOK
  <2>3. Progress
    BY <1>4 DEF Init, Progress
  <2> QED
    BY <2>2, <2>3 DEF Listed
<1> QED
  BY <1>1, <1>5 DEF IInv

LEMMA StepInv == IInv /\ [Next]_vars => IInv'
<1> SUFFICES ASSUME IInv, [Next]_vars PROVE IInv'
  OBVIOUS
<1> USE DEF IInv
<1>1. CASE UNCHANGED vars
  BY <1>1 DEF vars, Attempted, ConnectTypeOK, NoLateAlarm, Own, Listed, PageTypeOK, Progress,
              Shown, Taken
<1>2. CASE Attempt \/ External
  <2>1. Attempted'
    BY <1>2, AttemptedStep DEF Attempt, External
  <2>2. UNCHANGED <<file, page, at>>
    BY <1>2 DEF Attempt, External
  <2> QED
    BY <2>1, <2>2 DEF page, Listed, PageTypeOK, Progress, Shown, Taken
<1>3. CASE Loop /\ ~Attempt
  <2>1. Attempted'
    BY <1>3, AttemptedStep DEF Loop, TryMirror, NoDirectory, ShowRow, ShowPage, Crash
  <2> QED
    BY <1>3, <2>1, TryMirrorStep, ShowRowStep, EndLoopStep DEF Loop
<1>4. CASE FindDisc \/ EnterSource \/ TryNetwork \/ LeaveNetwork
  <2>1. Attempted'
    BY <1>4, AttemptedStep DEF FindDisc, EnterSource, TryNetwork, LeaveNetwork
  <2> QED
    BY <1>4, <2>1, EnterStep, LeaveNetworkStep
<1>5. ASSUME NEW r \in DOMAIN rows, Toggle(r) \/ RemoveMirror(r)
      PROVE  IInv'
  <2>1. Attempted'
    BY <1>5, AttemptedStep DEF Toggle, RemoveMirror
  <2> QED
    BY <1>5, <2>1, ToggleStep, RemoveMirrorStep
<1>6. ASSUME NEW c \in Custom, AddMirror(c)
      PROVE  IInv'
  <2>1. Attempted'
    BY <1>6, AttemptedStep DEF AddMirror
  <2> QED
    BY <1>6, <2>1, AddMirrorStep
<1>7. CASE Back \/ LeaveUnwritten \/ Leave \/ TakeRow \/ WriteFile
  <2>1. Attempted'
    BY <1>7, AttemptedStep DEF Back, LeaveUnwritten, Leave, TakeRow, WriteFile
  <2> QED
    BY <1>7, <2>1, LeaveStep, TakeRowStep, WriteFileStep
<1>8. CASE Restart
  BY <1>8, RestartStep
<1> QED
  BY <1>1, <1>2, <1>3, <1>4, <1>5, <1>6, <1>7, <1>8 DEF Next, User, Loop

-----------------------------------------------------------------------------
(* The order of the list.                                                  *)

\* The first entries of newlist, up to used, are the used ones of the rows before
\* i, and the others are the rest.
Parted(used) ==
  /\ \A k \in 1 .. used :
       \E r \in 1 .. i - 1 : rows[r].use = TRUE /\ newlist[k] = Entry(rows[r])
  /\ \A k \in used + 1 .. i - 1 :
       \E r \in 1 .. i - 1 : rows[r].use = FALSE /\ newlist[k] = Entry(rows[r])
  /\ \A r \in 1 .. i - 1 :
       /\ rows[r].use = TRUE => \E k \in 1 .. used : newlist[k] = Entry(rows[r])
       /\ rows[r].use = FALSE => \E k \in used + 1 .. i - 1 : newlist[k] = Entry(rows[r])

Ordered ==
  at = "run" => Len(newlist) = i - 1 /\ \E used \in 0 .. i - 1 : Parted(used)

\* A used row comes before all that were taken.
LEMMA TakeUsed ==
  ASSUME Listed, Ordered, TakeRow, rows[i].use = TRUE
  PROVE  Ordered'
<1> DEFINE e == Entry(rows[i])
<1>1. /\ at = "run" /\ UNCHANGED rows
      /\ newlist' = <<e>> \o newlist
      /\ i' = i + 1
      /\ i \in Nat \ {0}
      /\ newlist \in Seq(Mirror) /\ rows \in Seq(Row) /\ i \in DOMAIN rows
  BY DEF TakeRow, Listed, PageTypeOK
<1>2. e \in Mirror
  <2>1. rows[i] \in Row
    BY <1>1, LenProperties, SMT
  <2> QED
    BY <2>1 DEF Row, Mirror, Entry
<1>3. Len(newlist) = i - 1
  BY <1>1 DEF Ordered
<1>4. PICK used \in 0 .. i - 1 : Parted(used)
  BY <1>1 DEF Ordered
<1> HIDE DEF e
<1>5. /\ Len(newlist') = i
      /\ newlist'[1] = e
      /\ \A k \in 1 .. i - 1 : newlist'[k + 1] = newlist[k]
  BY <1>1, <1>2, <1>3, SMT
<1>6. used + 1 \in 0 .. i' - 1 /\ Len(newlist') = i' - 1
  BY <1>1, <1>4, <1>5, SMT
<1>7. \A k \in 1 .. used + 1 : k # 1 => k - 1 \in 1 .. used /\ newlist'[k] = newlist[k - 1]
  BY <1>1, <1>4, <1>5, SMT
<1>8. \A k \in (used + 1) + 1 .. i' - 1 :
        k - 1 \in used + 1 .. i - 1 /\ newlist'[k] = newlist[k - 1]
  BY <1>1, <1>4, <1>5, SMT
<1>9. /\ i \in 1 .. i' - 1 /\ 1 \in 1 .. used + 1
      /\ \A r \in 1 .. i' - 1 : r # i => r \in 1 .. i - 1
      /\ \A r \in 1 .. i - 1 : r \in 1 .. i' - 1
      /\ \A k \in 1 .. used : k + 1 \in 1 .. used + 1 /\ newlist'[k + 1] = newlist[k]
      /\ \A k \in used + 1 .. i - 1 :
           k + 1 \in (used + 1) + 1 .. i' - 1 /\ newlist'[k + 1] = newlist[k]
  BY <1>1, <1>4, <1>5, SMT
<1>10. \A k \in 1 .. used + 1 :
         \E r \in 1 .. i' - 1 : rows[r].use = TRUE /\ newlist'[k] = Entry(rows[r])
  <2> SUFFICES ASSUME NEW k \in 1 .. used + 1
               PROVE  \E r \in 1 .. i' - 1 : rows[r].use = TRUE /\ newlist'[k] = Entry(rows[r])
    OBVIOUS
  <2>1. CASE k = 1
    BY <1>5, <1>9, <2>1 DEF e
  <2>2. CASE k # 1
    <3>1. PICK r \in 1 .. i - 1 : rows[r].use = TRUE /\ newlist[k - 1] = Entry(rows[r])
      BY <1>4, <1>7, <2>2 DEF Parted
    <3> QED
      BY <1>7, <1>9, <2>2, <3>1
  <2> QED
    BY <2>1, <2>2
<1>11. \A k \in (used + 1) + 1 .. i' - 1 :
         \E r \in 1 .. i' - 1 : rows[r].use = FALSE /\ newlist'[k] = Entry(rows[r])
  <2> SUFFICES ASSUME NEW k \in (used + 1) + 1 .. i' - 1
               PROVE  \E r \in 1 .. i' - 1 : rows[r].use = FALSE /\ newlist'[k] = Entry(rows[r])
    OBVIOUS
  <2>1. PICK r \in 1 .. i - 1 : rows[r].use = FALSE /\ newlist[k - 1] = Entry(rows[r])
    BY <1>4, <1>8 DEF Parted
  <2> QED
    BY <1>8, <1>9, <2>1
<1>12. \A r \in 1 .. i' - 1 :
         rows[r].use = TRUE => \E k \in 1 .. used + 1 : newlist'[k] = Entry(rows[r])
  <2> SUFFICES ASSUME NEW r \in 1 .. i' - 1, rows[r].use = TRUE
               PROVE  \E k \in 1 .. used + 1 : newlist'[k] = Entry(rows[r])
    OBVIOUS
  <2>1. CASE r = i
    BY <1>5, <1>9, <2>1 DEF e
  <2>2. CASE r # i
    <3>1. PICK k \in 1 .. used : newlist[k] = Entry(rows[r])
      BY <1>4, <1>9, <2>2 DEF Parted
    <3> QED
      BY <1>9, <3>1
  <2> QED
    BY <2>1, <2>2
<1>13. \A r \in 1 .. i' - 1 : rows[r].use = FALSE =>
         \E k \in (used + 1) + 1 .. i' - 1 : newlist'[k] = Entry(rows[r])
  <2> SUFFICES ASSUME NEW r \in 1 .. i' - 1, rows[r].use = FALSE
               PROVE  \E k \in (used + 1) + 1 .. i' - 1 : newlist'[k] = Entry(rows[r])
    OBVIOUS
  <2>1. r # i
    OBVIOUS
  <2>2. PICK k \in used + 1 .. i - 1 : newlist[k] = Entry(rows[r])
    BY <1>4, <1>9, <2>1 DEF Parted
  <2> QED
    BY <1>9, <2>2
<1>14. Parted(used + 1)'
  <2>1. rows' = rows
    BY <1>1
  <2> QED
    BY <2>1, <1>10, <1>11, <1>12, <1>13 DEF Parted
<1> QED
  BY <1>6, <1>14 DEF Ordered

\* One that is not used comes behind them.
LEMMA TakeUnused ==
  ASSUME Listed, Ordered, TakeRow, rows[i].use = FALSE
  PROVE  Ordered'
<1> DEFINE e == Entry(rows[i])
<1>1. /\ at = "run" /\ UNCHANGED rows
      /\ newlist' = Append(newlist, e)
      /\ i' = i + 1
      /\ i \in Nat \ {0}
      /\ newlist \in Seq(Mirror) /\ rows \in Seq(Row) /\ i \in DOMAIN rows
  BY DEF TakeRow, Listed, PageTypeOK
<1>2. e \in Mirror
  <2>1. rows[i] \in Row
    BY <1>1, LenProperties, SMT
  <2> QED
    BY <2>1 DEF Row, Mirror, Entry
<1>3. Len(newlist) = i - 1
  BY <1>1 DEF Ordered
<1>4. PICK used \in 0 .. i - 1 : Parted(used)
  BY <1>1 DEF Ordered
<1> HIDE DEF e
<1>5. /\ Len(newlist') = i
      /\ newlist'[i] = e
      /\ \A k \in 1 .. i - 1 : newlist'[k] = newlist[k]
  BY <1>1, <1>2, <1>3, SMT
<1>6. used \in 0 .. i' - 1 /\ Len(newlist') = i' - 1
  BY <1>1, <1>4, <1>5, SMT
<1>7. /\ i \in 1 .. i' - 1 /\ i \in used + 1 .. i' - 1
      /\ \A r \in 1 .. i' - 1 : r # i => r \in 1 .. i - 1
      /\ \A r \in 1 .. i - 1 : r \in 1 .. i' - 1
      /\ \A k \in 1 .. used : newlist'[k] = newlist[k]
      /\ \A k \in used + 1 .. i' - 1 :
           k # i => k \in used + 1 .. i - 1 /\ newlist'[k] = newlist[k]
      /\ \A k \in used + 1 .. i - 1 : k \in used + 1 .. i' - 1 /\ newlist'[k] = newlist[k]
  BY <1>1, <1>4, <1>5, SMT
<1>8. \A k \in 1 .. used :
        \E r \in 1 .. i' - 1 : rows[r].use = TRUE /\ newlist'[k] = Entry(rows[r])
  <2> SUFFICES ASSUME NEW k \in 1 .. used
               PROVE  \E r \in 1 .. i' - 1 : rows[r].use = TRUE /\ newlist'[k] = Entry(rows[r])
    OBVIOUS
  <2>1. PICK r \in 1 .. i - 1 : rows[r].use = TRUE /\ newlist[k] = Entry(rows[r])
    BY <1>4 DEF Parted
  <2> QED
    BY <1>7, <2>1
<1>9. \A k \in used + 1 .. i' - 1 :
        \E r \in 1 .. i' - 1 : rows[r].use = FALSE /\ newlist'[k] = Entry(rows[r])
  <2> SUFFICES ASSUME NEW k \in used + 1 .. i' - 1
               PROVE  \E r \in 1 .. i' - 1 : rows[r].use = FALSE /\ newlist'[k] = Entry(rows[r])
    OBVIOUS
  <2>1. CASE k = i
    BY <1>5, <1>7, <2>1 DEF e
  <2>2. CASE k # i
    <3>1. PICK r \in 1 .. i - 1 : rows[r].use = FALSE /\ newlist[k] = Entry(rows[r])
      BY <1>4, <1>7, <2>2 DEF Parted
    <3> QED
      BY <1>7, <2>2, <3>1
  <2> QED
    BY <2>1, <2>2
<1>10. \A r \in 1 .. i' - 1 :
         rows[r].use = FALSE => \E k \in used + 1 .. i' - 1 : newlist'[k] = Entry(rows[r])
  <2> SUFFICES ASSUME NEW r \in 1 .. i' - 1, rows[r].use = FALSE
               PROVE  \E k \in used + 1 .. i' - 1 : newlist'[k] = Entry(rows[r])
    OBVIOUS
  <2>1. CASE r = i
    BY <1>5, <1>7, <2>1 DEF e
  <2>2. CASE r # i
    <3>1. PICK k \in used + 1 .. i - 1 : newlist[k] = Entry(rows[r])
      BY <1>4, <1>7, <2>2 DEF Parted
    <3> QED
      BY <1>7, <3>1
  <2> QED
    BY <2>1, <2>2
<1>11. \A r \in 1 .. i' - 1 :
         rows[r].use = TRUE => \E k \in 1 .. used : newlist'[k] = Entry(rows[r])
  <2> SUFFICES ASSUME NEW r \in 1 .. i' - 1, rows[r].use = TRUE
               PROVE  \E k \in 1 .. used : newlist'[k] = Entry(rows[r])
    OBVIOUS
  <2>1. r # i
    OBVIOUS
  <2>2. PICK k \in 1 .. used : newlist[k] = Entry(rows[r])
    BY <1>4, <1>7, <2>1 DEF Parted
  <2> QED
    BY <1>7, <2>2
<1>12. Parted(used)'
  <2>1. rows' = rows
    BY <1>1
  <2> QED
    BY <2>1, <1>8, <1>9, <1>10, <1>11 DEF Parted
<1> QED
  BY <1>6, <1>12 DEF Ordered

\* Before the first row is taken there is nothing to order.
LEMMA OrderedAtFirst ==
  ASSUME Listed, Leave
  PROVE  Ordered'
<1>1. i' = 1 /\ newlist' = <<>>
  BY DEF Leave, Move, page, Listed, Progress
<1>2. /\ Len(newlist') = i' - 1 /\ 0 \in 0 .. i' - 1
      /\ 1 .. 0 = {} /\ 1 .. i' - 1 = {} /\ 0 + 1 .. i' - 1 = {}
  BY <1>1, SMT
<1>3. Parted(0)'
  BY <1>2 DEF Parted
<1> QED
  BY <1>2, <1>3 DEF Ordered

\* The list stays in order, as long as the rows are what they were.
LEMMA OrderedStep ==
  ASSUME IInv, Ordered, [Next]_vars
  PROVE  Ordered'
<1>1. CASE at' # "run"
  BY <1>1 DEF Ordered
<1>2. CASE at' = "run" /\ UNCHANGED <<rows, i, newlist, at>>
  BY <1>2 DEF Ordered, Parted
<1>3. CASE Leave
  BY <1>3, OrderedAtFirst DEF IInv
<1>4. CASE TakeRow
  <2>1. rows[i].use \in BOOLEAN
    <3>1. rows[i] \in Row
      BY <1>4, LenProperties, SMT DEF TakeRow, IInv, Listed, PageTypeOK
    <3> QED
      BY <3>1 DEF Row
  <2> QED
    BY <1>4, <2>1, TakeUsed, TakeUnused DEF IInv
<1> QED
  BY <1>1, <1>2, <1>3, <1>4
     DEF Next, Loop, User, External, Attempt, vars, page, Move, FindDisc, EnterSource, TryNetwork,
         LeaveNetwork, TryMirror, NoDirectory, ShowRow, ShowPage, Crash, Toggle, AddMirror,
         RemoveMirror, Back, LeaveUnwritten, WriteFile, Restart

-----------------------------------------------------------------------------
(* The theorems.                                                           *)

\* The types of the variables, for any addresses and any number of rows.
THEOREM Types == Spec => []TypeOK
<1>1. IInv => TypeOK
  BY DEF IInv, Attempted, Listed, TypeOK
<1> QED
  BY <1>1, InitInv, StepInv, PTL DEF Spec

\* However an attempt to connect ends, and however many there were, no alarm is
\* left to ring when is_connected has returned.
THEOREM AlarmOff == Spec => []NoLateAlarm
<1>1. IInv => NoLateAlarm
  BY DEF IInv, Attempted
<1> QED
  BY <1>1, InitInv, StepInv, PTL DEF Spec

\* Until an attempt has timed out, in this run of the program, the alarm ends
\* every connect: only the mask that the handler leaves behind defeats it.
THEOREM TimesOutAtFirst == Spec => [](~blocked => ConnectTimesOut)
<1> DEFINE Heard == alarm = "rung" => blocked
<1>1. Init => Heard
  BY DEF Init, ConnectInit
<1>2. ASSUME Heard, [Next]_vars
      PROVE  Heard'
  <2>1. CASE Call \/ Proceed \/ Surround
    BY <1>2, <2>1
    DEF Call, Proceed, Surround, NoAddress, SetAlarm, SetJump, Answered, Refused, TimedOut,
        Return, ConnectReturns, Ring, RingUnheard
  <2>2. CASE UNCHANGED <<alarm, blocked>>
    BY <1>2, <2>2
  <2>3. CASE Restart
    BY <2>3 DEF Restart
  <2> QED
    BY <1>2, <2>1, <2>2, <2>3
    DEF Next, Loop, User, External, Attempt, vars, connect, FindDisc, EnterSource, TryNetwork,
        LeaveNetwork, TryMirror, NoDirectory, ShowRow, ShowPage, Crash, Toggle, AddMirror,
        RemoveMirror, Back, LeaveUnwritten, Leave, TakeRow, WriteFile
<1>3. Heard => (~blocked => ConnectTimesOut)
  BY DEF ConnectTimesOut
<1> QED
  BY <1>1, <1>2, <1>3, PTL DEF Spec

\* No sequence of visits, additions, removals and starts of the installer loses
\* a mirror of the distribution, or doubles it.
THEOREM MirrorsStay == Spec => []ShippedStay
<1>1. IInv => ShippedStay
  BY DEF IInv, Listed, Progress, ShippedStay
<1> QED
  BY <1>1, InitInv, StepInv, PTL DEF Spec

\* Whatever the kernel answers and whenever the alarm rings, a mirror is shown as
\* good exactly when its own host has answered before the alarm.
THEOREM GoodIsAnswered == Spec => GoodIfAnswered
<1>1. ASSUME IInv, [Next]_vars, at = "asked", rows' # rows
      PROVE  rows'[Len(rows)].status = "good" <=> answered
  <2>1. ShowRow
    BY <1>1 DEF Next, Loop, User, External, Attempt, vars, page, Move, FindDisc, EnterSource,
                TryNetwork, LeaveNetwork, TryMirror, NoDirectory, ShowRow, ShowPage, Crash, Toggle,
                AddMirror, RemoveMirror, Back, LeaveUnwritten, Leave, TakeRow, WriteFile, Restart
  <2> DEFINE n == Len(rows)
             status == IF result < 1 THEN "bad" ELSE "good"
  <2>2. pc = "idle" /\ rows' = [rows EXCEPT ![n].status = status]
    BY <2>1 DEF ShowRow
  <2>3. n = i /\ i \in Nat \ {0} /\ rows \in Seq(Row)
    BY <1>1 DEF IInv, Listed, PageTypeOK, Progress
  <2>4. n \in DOMAIN rows /\ rows[n] \in Row
    BY <2>3, LenProperties, SMT
  <2>5. rows'[n].status = status
    <3> HIDE DEF status
    <3> QED
      BY <2>2, <2>4 DEF Row
  <2>6. result \in {-1, 0, 1} /\ (answered <=> result = 1)
    BY <1>1, <2>2 DEF IInv, Attempted, ConnectTypeOK, Own
  <2>7. status = "good" <=> result = 1
    BY <2>6, SMT
  <2> QED
    BY <2>5, <2>6, <2>7
<1>2. IInv /\ [Next]_vars =>
        [at = "asked" /\ rows' # rows => (rows'[Len(rows)].status = "good" <=> answered)]_vars
  BY <1>1
<1> QED
  BY <1>2, InitInv, StepInv, PTL DEF Spec, GoodIfAnswered

\* Whatever was added, removed and toggled, the file that is written is a list of
\* the rows with the used ones first.
THEOREM WrittenUsedFirst == Spec => UsedFirst
<1> DEFINE On  == {r \in DOMAIN rows : rows[r].use}
           Off == {r \in DOMAIN rows : ~rows[r].use}
           A   == /\ Len(file') = Len(rows)
                  /\ \E used \in 0 .. Len(rows) :
                       /\ {file'[k] : k \in 1 .. used} = {Entry(rows[r]) : r \in On}
                       /\ {file'[k] : k \in used + 1 .. Len(rows)} = {Entry(rows[r]) : r \in Off}
<1>1. ASSUME IInv, Ordered, [Next]_vars, file' # file
      PROVE  A
  <2>1. WriteFile
    BY <1>1 DEF Next, Loop, User, External, Attempt, vars, page, Move, FindDisc, EnterSource,
                TryNetwork, LeaveNetwork, TryMirror, NoDirectory, ShowRow, ShowPage, Crash, Toggle,
                AddMirror, RemoveMirror, Back, LeaveUnwritten, Leave, TakeRow, WriteFile, Restart
  <2>2. /\ at = "run" /\ file' = newlist /\ i \notin DOMAIN rows
        /\ i - 1 <= Len(rows) /\ i \in Nat \ {0} /\ rows \in Seq(Row)
    BY <1>1, <2>1 DEF WriteFile, Move, IInv, Listed, PageTypeOK, Progress
  <2>3. i - 1 = Len(rows) /\ DOMAIN rows = 1 .. i - 1
    BY <2>2, LenProperties, SMT
  <2>4. PICK used \in 0 .. i - 1 : Parted(used)
    BY <1>1, <2>2 DEF Ordered
  <2>5. \A r \in DOMAIN rows : rows[r].use = TRUE \/ rows[r].use = FALSE
    <3>1. \A r \in DOMAIN rows : rows[r] \in Row
      BY <2>2, LenProperties, SMT
    <3> QED
      BY <3>1 DEF Row
  <2>6. \A r : r \in On <=> r \in 1 .. i - 1 /\ rows[r].use = TRUE
    BY <2>3, <2>5
  <2>7. \A r : r \in Off <=> r \in 1 .. i - 1 /\ rows[r].use = FALSE
    BY <2>3, <2>5
  <2>8. {file'[k] : k \in 1 .. used} = {Entry(rows[r]) : r \in On}
    <3> HIDE DEF On
    <3>1. \A k \in 1 .. used : \E r \in On : file'[k] = Entry(rows[r])
      <4>1. \A k \in 1 .. used : \E r \in On : newlist[k] = Entry(rows[r])
        BY <2>4, <2>6 DEF Parted
      <4> QED
        BY <2>2, <4>1
    <3>2. \A r \in On : \E k \in 1 .. used : file'[k] = Entry(rows[r])
      BY <2>2, <2>3, <2>4, <2>6 DEF Parted
    <3> DEFINE X == {file'[k] : k \in 1 .. used}
               Y == {Entry(rows[r]) : r \in On}
    <3>3. ASSUME NEW x \in X PROVE x \in Y
      BY <3>1
    <3>4. ASSUME NEW y \in Y PROVE y \in X
      BY <3>2
    <3> HIDE DEF X, Y
    <3>5. X = Y
      BY <3>3, <3>4
    <3> QED
      BY <3>5 DEF X, Y
  <2>9. {file'[k] : k \in used + 1 .. Len(rows)} = {Entry(rows[r]) : r \in Off}
    <3> HIDE DEF Off
    <3>1. \A k \in used + 1 .. Len(rows) : \E r \in Off : file'[k] = Entry(rows[r])
      BY <2>2, <2>3, <2>4, <2>7 DEF Parted
    <3>2. \A r \in Off : \E k \in used + 1 .. Len(rows) : file'[k] = Entry(rows[r])
      BY <2>2, <2>3, <2>4, <2>7 DEF Parted
    <3> DEFINE X == {file'[k] : k \in used + 1 .. Len(rows)}
               Y == {Entry(rows[r]) : r \in Off}
    <3>3. ASSUME NEW x \in X PROVE x \in Y
      BY <3>1
    <3>4. ASSUME NEW y \in Y PROVE y \in X
      BY <3>2
    <3> HIDE DEF X, Y
    <3>5. X = Y
      BY <3>3, <3>4
    <3> QED
      BY <3>5 DEF X, Y
  <2>10. Len(newlist) = i - 1
    BY <1>1, <2>2 DEF Ordered
  <2>11. Len(file') = Len(rows) /\ used \in 0 .. Len(rows)
    BY <2>2, <2>3, <2>4, <2>10
  <2> HIDE DEF On, Off
  <2> QED
    BY <2>8, <2>9, <2>11
<1>2. IInv /\ Ordered /\ [Next]_vars => [file' # file => A]_vars
  BY <1>1
<1>3. Init => Ordered
  BY DEF Init, Ordered
<1> HIDE DEF A
<1>4. Spec => [][file' # file => A]_vars
  BY <1>2, <1>3, InitInv, StepInv, OrderedStep, PTL DEF Spec
<1> QED
  BY <1>4 DEF A, UsedFirst
=============================================================================
