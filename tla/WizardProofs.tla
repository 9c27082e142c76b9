---------------------------- MODULE WizardProofs ----------------------------
(***************************************************************************)
(* Proofs about the engine: its invariants, for every table of plugins     *)
(* that satisfies WizardAssumption, and that it implements the tour.       *)
(***************************************************************************)
EXTENDS Wizard, SequenceTheorems, TLAPS

(***************************************************************************)
(* The inductive invariant.  NoReentrantClick alone is not inductive: that *)
(* a click cannot arrive during a working prerun rests on its page being   *)
(* incomplete (TopInv), and that an exit never happens below a skipping    *)
(* prerun rests on which plugins can be nested (NestInv, SkipAssumption).  *)
(***************************************************************************)
TopInv ==
  stack # << >> =>
    /\ Top.at # "skipped" => Top.plugin = active
    /\ Top.at \in {"run", "skipped"} => Top.plugin # Last
    /\ Top.at = "skipped" => Top.plugin \in Skippers
    /\ Top.at = "close" => active = Last
    /\ Top.at = "working" => Top.plugin \in Workers /\ ~complete[active]

NestInv ==
  \A i \in 1 .. Len(stack) - 1 :
    /\ stack[i].plugin \in Skippers
    /\ \/ /\ stack[i+1].at = "run"
          /\ stack[i+1].plugin = stack[i].plugin
       \/ /\ stack[i+1].at \in {"prerun", "working", "skipped"}
          /\ stack[i+1].plugin = stack[i].plugin + 1

IInv ==
  /\ TypeOK
  /\ PageFollowsActive
  /\ NoReentrantClick
  /\ TopInv
  /\ NestInv
  /\ NoReturnIntoUnloaded
  /\ closed => exits > 0

-----------------------------------------------------------------------------
(* The three ways the stack changes.                                       *)

\* A call appends its frame.
LEMMA Pushed ==
  ASSUME NEW s \in Seq(Frame), NEW f \in Frame
  PROVE  /\ Append(s, f) \in Seq(Frame)
         /\ Append(s, f) # << >>
         /\ Len(Append(s, f)) = Len(s) + 1
         /\ Append(s, f)[Len(s) + 1] = f
         /\ \A i \in 1 .. Len(s) : Append(s, f)[i] = s[i]
  OBVIOUS

\* A return drops the last frame and no other.
LEMMA Popped ==
  ASSUME NEW s \in Seq(Frame), s # << >>
  PROVE  LET r == SubSeq(s, 1, Len(s) - 1)
         IN  /\ r \in Seq(Frame)
             /\ Len(r) = Len(s) - 1
             /\ \A i \in 1 .. Len(s) - 1 : r[i] = s[i]
<1> DEFINE n == Len(s) - 1
           r == SubSeq(s, 1, n)
<1>1. n \in Nat /\ \A i \in 1 .. n : s[i] \in Frame
  OBVIOUS
<1> HIDE DEF n
<1>2. /\ r \in Seq(Frame)
      /\ Len(r) = IF 1 <= n THEN n - 1 + 1 ELSE 0
      /\ \A i \in 1 .. n - 1 + 1 : r[i] = s[1 + i - 1]
  BY <1>1, SubSeqProperties
<1> HIDE DEF r
<1>3. Len(r) = n
  BY <1>1, <1>2
<1>4. ASSUME NEW i \in 1 .. n
      PROVE  r[i] = s[i]
  <2>1. i \in 1 .. n - 1 + 1 /\ 1 + i - 1 = i
    BY <1>1
  <2>2. QED
    BY <1>2, <2>1
<1>5. QED
  BY <1>2, <1>3, <1>4 DEF n, r

\* A call that goes on in another plugin changes the last frame.
LEMMA Replaced ==
  ASSUME NEW s \in Seq(Frame), s # << >>, NEW f \in Frame
  PROVE  LET r == [s EXCEPT ![Len(s)] = f]
         IN  /\ r \in Seq(Frame)
             /\ Len(r) = Len(s)
             /\ r # << >>
             /\ r[Len(s)] = f
             /\ \A i \in 1 .. Len(s) - 1 : r[i] = s[i]
  OBVIOUS

-----------------------------------------------------------------------------
\* There are a first and a last plugin, and each but the last has a next one.
LEMMA Ends ==
  /\ N \in Nat /\ N > 1
  /\ 0 \in Plugin /\ Last \in Plugin
  /\ \A p \in Plugin : p # Last => p + 1 \in Plugin
  /\ \A p \in Plugin : PageType[p] # "INTRO" => p - 1 \in Plugin
BY WizardAssumption
   DEF WizardAssumption, PluginAssumption, EndsAssumption, Plugin, Last

\* No click reaches the assistant while a plugin function is in progress.
LEMMA ClickedIdle ==
  ASSUME IInv, EventLoop,
         ForwardSensitive \/ BackSensitive \/ ApplySensitive \/ CancelSensitive
  PROVE  stack = << >> /\ exits = 0
<1>1. exits = 0 /\ (stack = << >> \/ In("working"))
  BY DEF EventLoop
<1>2. ASSUME In("working") PROVE FALSE
  <2>1. stack # << >> /\ Top.at = "working"
    BY <1>2 DEF In
  <2>2. Top.plugin \in Workers /\ Top.plugin = active /\ ~complete[active]
    BY <2>1 DEF IInv, TopInv
  <2>3. page \in Workers /\ ~complete[page]
    BY <2>2 DEF IInv, PageFollowsActive
  <2>4. PageType[page] = "PROGRESS"
    BY <2>3, WizardAssumption DEF WizardAssumption, PluginAssumption, WorkerAssumption
  <2>5. QED
    BY <2>3, <2>4 DEF ForwardSensitive, BackSensitive, ApplySensitive,
                      CancelSensitive
<1>3. QED
  BY <1>1, <1>2

\* A plugin function that can fail is not called from a prerun that skipped.
LEMMA FailingIsOutermost ==
  ASSUME IInv, stack # << >>,
         \/ Top.at = "run" /\ -1 \in RunResults[Top.plugin]
         \/ Top.at \in {"prerun", "working"} /\ -1 \in PrerunResults[Top.plugin]
         \/ Top.at = "close"
  PROVE  Len(stack) = 1 /\ Pop = << >>
<1>1. stack \in Seq(Frame) /\ Len(stack) \in Nat /\ Len(stack) > 0
  BY DEF IInv, TypeOK
<1>2. ASSUME Len(stack) > 1 PROVE FALSE
  <2> DEFINE i == Len(stack) - 1
  <2>1. i \in 1 .. Len(stack) - 1 /\ i + 1 = Len(stack)
    BY <1>1, <1>2
  <2>2. /\ stack[i].plugin \in Skippers
        /\ \/ Top.at = "run" /\ Top.plugin = stack[i].plugin
           \/ /\ Top.at \in {"prerun", "working", "skipped"}
              /\ Top.plugin = stack[i].plugin + 1
    BY <2>1 DEF IInv, NestInv, Top
  <2>3. -1 \notin RunResults[stack[i].plugin] \cup PrerunResults[stack[i].plugin + 1]
    BY <2>2, WizardAssumption DEF WizardAssumption, SkipAssumption
  <2>4. QED
    BY <2>2, <2>3
<1>3. Len(stack) = 1
  <2>1. Len(stack) \in Nat /\ Len(stack) > 0 /\ ~(Len(stack) > 1)
    BY <1>1, <1>2
  <2>2. QED
    BY <2>1
<1>4. QED
  BY <1>1, <1>3, SubSeqEmpty DEF Pop

-----------------------------------------------------------------------------
(* What returning from a frame, and moving on within it, do to the shape   *)
(* of the stack.                                                           *)

\* A return keeps the shape of the stack.
LEMMA PopKeepsShape ==
  ASSUME IInv, stack # << >>, stack' = Pop
  PROVE  stack' \in Seq(Frame) /\ NoReentrantClick' /\ NestInv' /\ TopInv'
<1>1. stack \in Seq(Frame) /\ Len(stack) \in Nat
  BY DEF IInv, TypeOK
<1>2. /\ stack' \in Seq(Frame)
      /\ Len(stack') = Len(stack) - 1
      /\ \A i \in 1 .. Len(stack) - 1 : stack'[i] = stack[i]
  BY <1>1, Popped DEF Pop
<1>3. NoReentrantClick'
  BY <1>1, <1>2 DEF IInv, NoReentrantClick
<1>4. NestInv'
  BY <1>1, <1>2 DEF IInv, NestInv
<1>5. TopInv'
  <2> SUFFICES ASSUME stack' # << >>
               PROVE  Top'.at = "skipped" /\ Top'.plugin \in Skippers
                      /\ Top'.plugin # Last
    BY DEF TopInv
  <2>1. Len(stack) - 1 \in 1 .. Len(stack) - 1
    BY <1>1, <1>2
  <2>2. Top' = stack[Len(stack) - 1]
    BY <1>2, <2>1 DEF Top
  <2>3. Top'.at = "skipped" /\ Top'.plugin \in Skippers
    BY <2>1, <2>2 DEF IInv, NoReentrantClick, NestInv
  <2>4. QED
    BY <2>3, WizardAssumption DEF WizardAssumption, EndsAssumption
<1>6. QED
  BY <1>2, <1>3, <1>4, <1>5

\* Arithmetic of positions in the stack.
LEMMA NextIndex ==
  ASSUME NEW n \in Nat, NEW i \in 1 .. n - 1, i + 1 # n
  PROVE  i + 1 \in 1 .. n - 1
  OBVIOUS

\* NoReentrantClick and NestInv, of any stack.
Shape(s) ==
  \A i \in 1 .. Len(s) - 1 :
    /\ s[i].at = "skipped"
    /\ s[i].plugin \in Skippers
    /\ \/ s[i+1].at = "run" /\ s[i+1].plugin = s[i].plugin
       \/ /\ s[i+1].at \in {"prerun", "working", "skipped"}
          /\ s[i+1].plugin = s[i].plugin + 1

\* The shape of the stack is kept when the top frame goes on to a prerun.
LEMMA ReplaceKeepsShape ==
  ASSUME IInv, stack # << >>, NEW f \in Frame,
         f.at \in {"prerun", "working", "skipped"},
         \/ Top.at = "run" /\ f.plugin = Top.plugin + 1
         \/ Top.at = "prerun" /\ f.plugin = Top.plugin,
         NEW s, s = [stack EXCEPT ![Len(stack)] = f]
  PROVE  s \in Seq(Frame) /\ s # << >> /\ s[Len(s)] = f /\ Shape(s)
<1>1. stack \in Seq(Frame) /\ Len(stack) \in Nat
  BY DEF IInv, TypeOK
<1>2. /\ s \in Seq(Frame) /\ Len(s) = Len(stack) /\ s # << >>
      /\ s[Len(s)] = f
      /\ \A i \in 1 .. Len(stack) - 1 : s[i] = stack[i]
  BY <1>1, Replaced
<1>n. Len(s) = Len(stack) /\ Len(stack) \in Nat
  BY <1>1, <1>2
<1>3. \A i \in 1 .. Len(s) - 1 : s[i].at = "skipped"
  BY <1>2 DEF IInv, NoReentrantClick
<1>4. ASSUME NEW i \in 1 .. Len(s) - 1
      PROVE  /\ s[i].plugin \in Skippers
             /\ \/ s[i+1].at = "run" /\ s[i+1].plugin = s[i].plugin
                \/ /\ s[i+1].at \in {"prerun", "working", "skipped"}
                   /\ s[i+1].plugin = s[i].plugin + 1
  <2>1. /\ stack[i].plugin \in Skippers
        /\ \/ stack[i+1].at = "run" /\ stack[i+1].plugin = stack[i].plugin
           \/ /\ stack[i+1].at \in {"prerun", "working", "skipped"}
              /\ stack[i+1].plugin = stack[i].plugin + 1
    BY <1>2 DEF IInv, NestInv
  <2>2. s[i] = stack[i]
    BY <1>2
  <2>3. CASE i + 1 = Len(stack)
    <3>1. s[i+1] = f /\ stack[i+1] = Top
      BY <1>2, <2>3 DEF Top
    <3>2. f.plugin = stack[i].plugin + 1
      BY <2>1, <3>1
    <3>3. QED
      BY <2>1, <2>2, <3>1, <3>2
  <2>4. CASE i + 1 # Len(stack)
    <3>1. i + 1 \in 1 .. Len(stack) - 1
      BY <1>n, <2>4, NextIndex
    <3>2. QED
      BY <1>2, <2>1, <2>2, <3>1
  <2>5. QED
    BY <2>3, <2>4
<1>5. QED
  BY <1>2, <1>3, <1>4 DEF Shape

-----------------------------------------------------------------------------
(* A frame pushed on an idle engine, and one pushed by a skip.             *)

\* The first frame is pushed by a click while no handler is in progress.
LEMMA PushOnIdle ==
  ASSUME IInv, stack = << >>, NEW f \in Frame, stack' = Push(f)
  PROVE  /\ stack' \in Seq(Frame) /\ stack' # << >> /\ Top' = f
         /\ NoReentrantClick' /\ NestInv'
<1>1. /\ stack' \in Seq(Frame) /\ stack' # << >>
      /\ Len(stack') = 1 /\ stack'[1] = f
  BY Pushed DEF IInv, TypeOK, Push
<1>2. NoReentrantClick' /\ NestInv'
  BY <1>1 DEF NoReentrantClick, NestInv
<1>3. QED
  BY <1>1, <1>2 DEF Top

\* Each action keeps the inductive invariant.
LEMMA ClickForwardKeeps == IInv /\ ClickForward => IInv'
<1> SUFFICES ASSUME IInv, ClickForward PROVE IInv'
  OBVIOUS
<1>1. stack = << >> /\ exits = 0
  BY ClickedIdle DEF ClickForward
<1>2. /\ active \in Plugin /\ page = active /\ ~closed
      /\ Call("run", active) \in Frame
  BY <1>1 DEF IInv, TypeOK, PageFollowsActive, Call, Frame
<1>3. /\ stack' \in Seq(Frame) /\ stack' # << >> /\ Top' = Call("run", active)
      /\ NoReentrantClick' /\ NestInv'
  BY <1>1, <1>2, PushOnIdle DEF ClickForward
<1>4. active # Last
  BY <1>2, Ends, WizardAssumption
     DEF ClickForward, ForwardSensitive, WizardAssumption, EndsAssumption
<1>5. TopInv'
  BY <1>3, <1>4 DEF TopInv, ClickForward, Call
<1>6. TypeOK' /\ PageFollowsActive'
  BY <1>2, <1>3 DEF ClickForward, IInv, TypeOK, PageFollowsActive, OwnPage,
                    ending, hist
<1>7. NoReturnIntoUnloaded' /\ (closed' => exits' > 0)
  BY <1>1, <1>2 DEF ClickForward, ending, NoReturnIntoUnloaded
<1>8. QED
  BY <1>3, <1>5, <1>6, <1>7 DEF IInv

\* Back enters the prerun of the page before.
LEMMA ClickBackKeeps == IInv /\ ClickBack => IInv'
<1> SUFFICES ASSUME IInv, ClickBack PROVE IInv'
  OBVIOUS
<1>1. stack = << >> /\ exits = 0
  BY ClickedIdle DEF ClickBack
<1>2. active \in Plugin /\ page = active /\ ~closed
  BY <1>1 DEF IInv, TypeOK, PageFollowsActive
<1>3. active - 1 \in Plugin /\ Call("prerun", active - 1) \in Frame
  BY <1>2, Ends DEF ClickBack, BackSensitive, Call, Frame
<1>p. /\ active' = active - 1 /\ page' = active - 1
      /\ UNCHANGED <<complete, modal, exits, closed, ran, after>>
  BY DEF ClickBack, OwnPage, ending, hist
<1>q. PageFollowsActive' /\ NoReturnIntoUnloaded' /\ (closed' => exits' > 0)
  BY <1>1, <1>2, <1>p DEF PageFollowsActive, NoReturnIntoUnloaded
<1>4. CASE HasPrerun(active - 1)
  <2>1. /\ stack' \in Seq(Frame) /\ stack' # << >>
        /\ Top' = Call("prerun", active - 1)
        /\ NoReentrantClick' /\ NestInv'
    BY <1>1, <1>3, <1>4, PushOnIdle DEF ClickBack
  <2>2. TopInv'
    BY <2>1 DEF TopInv, ClickBack, Call
  <2>3. TypeOK'
    BY <1>3, <1>p, <2>1 DEF IInv, TypeOK
  <2>4. QED
    BY <1>q, <2>1, <2>2, <2>3 DEF IInv
<1>5. CASE ~HasPrerun(active - 1)
  <2>1. stack' = << >>
    BY <1>1, <1>5 DEF ClickBack
  <2>2. NoReentrantClick' /\ NestInv' /\ TopInv'
    BY <2>1 DEF NoReentrantClick, NestInv, TopInv
  <2>3. TypeOK'
    BY <1>3, <1>p, <2>1 DEF IInv, TypeOK
  <2>4. QED
    BY <1>q, <2>2, <2>3 DEF IInv
<1>6. QED
  BY <1>4, <1>5

\* Cancel exits from an idle engine.
LEMMA ClickCancelKeeps == IInv /\ ClickCancel => IInv'
<1> SUFFICES ASSUME IInv, ClickCancel PROVE IInv'
  OBVIOUS
<1>1. stack = << >> /\ exits = 0
  BY ClickedIdle DEF ClickCancel
<1>2. /\ exits' = 1
      /\ UNCHANGED <<active, page, complete, stack, modal, closed, ran, after>>
  BY <1>1 DEF ClickCancel, Exit, engine, hist
<1>3. TypeOK'
  BY <1>2 DEF IInv, TypeOK
<1>4. QED
  BY <1>1, <1>2, <1>3
     DEF IInv, PageFollowsActive, NoReentrantClick, TopInv, NestInv,
         NoReturnIntoUnloaded, Top

\* Apply exits from the last page.
LEMMA ClickApplyKeeps == IInv /\ ClickApply => IInv'
<1> SUFFICES ASSUME IInv, ClickApply PROVE IInv'
  OBVIOUS
<1>1. stack = << >> /\ exits = 0
  BY ClickedIdle DEF ClickApply
<1>2. /\ active \in Plugin /\ page = active /\ ~closed
      /\ Call("close", active) \in Frame
  BY <1>1 DEF IInv, TypeOK, PageFollowsActive, Call, Frame
<1>3. UNCHANGED <<active, page, complete, modal, exits, closed, ran, after>>
  BY DEF ClickApply, ending, hist
<1>4. /\ stack' \in Seq(Frame) /\ stack' # << >> /\ Top' = Call("close", active)
      /\ NoReentrantClick' /\ NestInv'
  BY <1>1, <1>2, PushOnIdle DEF ClickApply
<1>5. active = Last
  BY <1>2, WizardAssumption
     DEF ClickApply, ApplySensitive, WizardAssumption, EndsAssumption
<1>6. TopInv'
  BY <1>3, <1>4, <1>5 DEF TopInv, Call
<1>7. TypeOK'
  BY <1>2, <1>3, <1>4 DEF IInv, TypeOK
<1>8. QED
  BY <1>1, <1>2, <1>3, <1>4, <1>6, <1>7
     DEF IInv, PageFollowsActive, NoReturnIntoUnloaded

\* Widgets mark the page of the active plugin.
LEMMA MarkPageKeeps == IInv /\ MarkPage => IInv'
<1> SUFFICES ASSUME IInv, MarkPage PROVE IInv'
  OBVIOUS
<1>1. /\ page \in Markers /\ exits = 0
      /\ complete \in [Plugin -> BOOLEAN]
      /\ \E b \in BOOLEAN : complete' = [complete EXCEPT ![page] = b]
      /\ UNCHANGED <<active, page, stack, modal, exits, closed, ran, after>>
  BY DEF MarkPage, EventLoop, ending, hist, IInv, TypeOK
<1>2. stack = << >>
  <2>1. ASSUME In("working") PROVE FALSE
    <3>1. active \in Workers /\ page = active
      BY <2>1 DEF In, IInv, TopInv, PageFollowsActive
    <3>2. QED
      BY <1>1, <3>1, WizardAssumption DEF WizardAssumption, WorkerAssumption
  <2>2. QED
    BY <2>1 DEF MarkPage, EventLoop
<1>3. complete' \in [Plugin -> BOOLEAN]
  BY <1>1
<1>4. TypeOK'
  BY <1>1, <1>3 DEF IInv, TypeOK
<1>5. QED
  BY <1>1, <1>2, <1>4
     DEF IInv, PageFollowsActive, NoReentrantClick, TopInv, NestInv,
         NoReturnIntoUnloaded, Top

\* An exit reached from a frame that can fail leaves no frame behind.
LEMMA ExitKeeps ==
  ASSUME IInv, stack # << >>, stack' = Pop, Pop = << >>, Exit,
         UNCHANGED <<active, page, complete, modal, ran, after>>,
         closed' \in BOOLEAN
  PROVE  IInv'
<1>1. exits = 0
  BY DEF IInv, NoReturnIntoUnloaded, TypeOK
<1>2. exits' = 1
  BY <1>1 DEF Exit
<1>3. TypeOK'
  BY <1>2, PopKeepsShape DEF IInv, TypeOK
<1>4. QED
  BY <1>2, <1>3, PopKeepsShape DEF IInv, PageFollowsActive, NoReturnIntoUnloaded

\* A return from a frame that changes nothing else of the invariant.
LEMMA ReturnKeeps ==
  ASSUME IInv, stack # << >>, stack' = Pop,
         UNCHANGED <<active, page, exits, closed, ran, after>>,
         complete' \in [Plugin -> BOOLEAN], modal' \in BOOLEAN
  PROVE  IInv'
<1>1. TypeOK'
  BY PopKeepsShape DEF IInv, TypeOK
<1>2. QED
  BY <1>1, PopKeepsShape DEF IInv, PageFollowsActive, NoReturnIntoUnloaded

\* The actions that end in fwife_exit.
LEMMA ExitingKeep ==
  IInv /\ (CloseReturns \/ RunFails \/ PrerunFails) => IInv'
<1> SUFFICES ASSUME IInv PROVE CloseReturns \/ RunFails \/ PrerunFails => IInv'
  OBVIOUS
<1>1. ASSUME CloseReturns PROVE IInv'
  <2>1. stack # << >> /\ Top.at = "close" /\ stack' = Pop
    BY <1>1 DEF CloseReturns, In
  <2>2. QED
    BY <1>1, <2>1, FailingIsOutermost, ExitKeeps DEF CloseReturns, hist
<1>2. ASSUME RunFails PROVE IInv'
  <2>1. /\ stack # << >> /\ Top.at = "run" /\ stack' = Pop
        /\ -1 \in RunResults[Top.plugin]
    BY <1>2 DEF RunFails, In
  <2>2. QED
    BY <1>2, <2>1, FailingIsOutermost, ExitKeeps
       DEF RunFails, hist, IInv, TypeOK
<1>3. ASSUME PrerunFails PROVE IInv'
  <2>1. /\ stack # << >> /\ Top.at \in {"prerun", "working"} /\ stack' = Pop
        /\ -1 \in PrerunResults[Top.plugin]
    BY <1>3 DEF PrerunFails, PrerunReturnsTo, In
  <2>2. QED
    BY <1>3, <2>1, FailingIsOutermost, ExitKeeps
       DEF PrerunFails, hist, IInv, TypeOK
<1>4. QED
  BY <1>1, <1>2, <1>3

\* The actions that only return.
LEMMA ReturningKeep ==
  IInv /\ (RunRefuses \/ PrerunDone \/ WorkDone \/ SkipDone) => IInv'
<1> SUFFICES ASSUME IInv
             PROVE  RunRefuses \/ PrerunDone \/ WorkDone \/ SkipDone => IInv'
  OBVIOUS
<1>1. ASSUME RunRefuses PROVE IInv'
  BY <1>1, ReturnKeeps DEF RunRefuses, In, ending, hist, IInv, TypeOK
<1>2. ASSUME PrerunDone PROVE IInv'
  <2>1. modal' \in BOOLEAN
    BY <1>2 DEF PrerunDone
  <2>2. QED
    BY <1>2, <2>1, ReturnKeeps
       DEF PrerunDone, PrerunReturnsTo, In, ending, hist, IInv, TypeOK
<1>3. ASSUME WorkDone PROVE IInv'
  <2>1. complete' \in [Plugin -> BOOLEAN]
    BY <1>3 DEF WorkDone, IInv, TypeOK
  <2>2. QED
    BY <1>3, <2>1, ReturnKeeps
       DEF WorkDone, PrerunReturnsTo, In, ending, hist, IInv, TypeOK
<1>4. ASSUME SkipDone PROVE IInv'
  BY <1>4, ReturnKeeps
     DEF SkipDone, PrerunReturnsTo, In, ending, hist, IInv, TypeOK
<1>5. QED
  BY <1>1, <1>2, <1>3, <1>4

\* A run that succeeds moves the page along with the plugin.
LEMMA RunSucceedsKeeps == IInv /\ RunSucceeds => IInv'
<1> SUFFICES ASSUME IInv, RunSucceeds PROVE IInv'
  OBVIOUS
<1>1. /\ stack # << >> /\ Top.at = "run"
      /\ UNCHANGED <<complete, modal, exits, closed>>
      /\ active' = active + 1 /\ page' = active + 1
      /\ ran' = ran \cup {active}
      /\ after' = {q \in after : active \notin {q[1], q[2]}}
                  \cup {<<active, j>> : j \in ran \ {active}}
  BY DEF RunSucceeds, In, OwnPage, ending
<1>2. Top.plugin = active /\ active # Last /\ active \in Plugin
  BY <1>1 DEF IInv, TypeOK, TopInv
<1>3. active + 1 \in Plugin
  BY <1>2, Ends
<1>4. ran' \subseteq Plugin /\ after' \subseteq Plugin \X Plugin
  BY <1>1, <1>2 DEF IInv, TypeOK
<1>5. NoReturnIntoUnloaded' /\ (closed' => exits' > 0) /\ exits = 0
  BY <1>1 DEF IInv, TypeOK, NoReturnIntoUnloaded
<1>6. ASSUME stack' \in Seq(Frame), NoReentrantClick', NestInv', TopInv'
      PROVE  IInv'
  <2>1. TypeOK'
    BY <1>1, <1>3, <1>4, <1>6 DEF IInv, TypeOK
  <2>2. QED
    BY <1>1, <1>5, <1>6, <2>1 DEF IInv, PageFollowsActive
<1>7. CASE HasPrerun(active + 1)
  <2> DEFINE f == Call("prerun", active + 1)
  <2>1. /\ f \in Frame /\ f.at = "prerun" /\ f.plugin = active + 1
    BY <1>3 DEF Call, Frame
  <2>2. stack' = [stack EXCEPT ![Len(stack)] = f]
    BY <1>7 DEF RunSucceeds
  <2> HIDE DEF f
  <2>r. /\ stack' \in Seq(Frame) /\ stack' # << >>
        /\ stack'[Len(stack')] = f /\ Shape(stack')
    BY <1>1, <1>2, <2>1, <2>2, ReplaceKeepsShape
  <2>3. /\ stack' \in Seq(Frame) /\ stack' # << >> /\ Top' = f
        /\ NoReentrantClick' /\ NestInv'
    BY <2>r DEF Shape, NoReentrantClick, NestInv, Top
  <2>4. TopInv'
    BY <1>1, <2>1, <2>3 DEF TopInv
  <2>5. QED
    BY <1>6, <2>3, <2>4
<1>8. CASE ~HasPrerun(active + 1)
  BY <1>1, <1>6, <1>8, PopKeepsShape DEF RunSucceeds
<1>9. QED
  BY <1>7, <1>8

\* A prerun that works has taken the buttons away.
LEMMA PrerunWorksKeeps == IInv /\ PrerunWorks => IInv'
<1> SUFFICES ASSUME IInv, PrerunWorks PROVE IInv'
  OBVIOUS
<1> DEFINE f == Call("working", Top.plugin)
<1>1. /\ stack # << >> /\ Top.at = "prerun" /\ Top.plugin \in Workers
      /\ complete' = [complete EXCEPT ![page] = FALSE]
      /\ stack' = [stack EXCEPT ![Len(stack)] = f]
      /\ UNCHANGED <<active, page, modal, exits, closed, ran, after>>
  BY DEF PrerunWorks, In, ending, hist
<1>2. Top.plugin = active /\ active \in Plugin /\ page = active
  BY <1>1 DEF IInv, TypeOK, TopInv, PageFollowsActive
<1>3. f \in Frame /\ f.at = "working" /\ f.plugin = Top.plugin
  BY <1>2 DEF Call, Frame
<1> HIDE DEF f
<1>r. /\ stack' \in Seq(Frame) /\ stack' # << >>
      /\ stack'[Len(stack')] = f /\ Shape(stack')
  BY <1>1, <1>3, ReplaceKeepsShape
<1>4. /\ stack' \in Seq(Frame) /\ stack' # << >> /\ Top' = f
      /\ NoReentrantClick' /\ NestInv'
  BY <1>r DEF Shape, NoReentrantClick, NestInv, Top
<1>5. complete' \in [Plugin -> BOOLEAN] /\ ~complete'[active]
  BY <1>1, <1>2 DEF IInv, TypeOK
<1>6. TopInv'
  BY <1>1, <1>2, <1>3, <1>4, <1>5 DEF TopInv
<1>7. TypeOK'
  BY <1>1, <1>4, <1>5 DEF IInv, TypeOK
<1>8. QED
  BY <1>1, <1>4, <1>6, <1>7 DEF IInv, PageFollowsActive, NoReturnIntoUnloaded

\* A skip enters plugin_next from a prerun.
LEMMA PrerunSkipsKeeps == IInv /\ PrerunSkips => IInv'
<1> SUFFICES ASSUME IInv, PrerunSkips PROVE IInv'
  OBVIOUS
<1> DEFINE f == Call("skipped", Top.plugin)
           g == Call("run", active)
           s == [stack EXCEPT ![Len(stack)] = f]
<1>1. /\ stack # << >> /\ Top.at = "prerun" /\ Top.plugin \in Skippers
      /\ stack' = Append(s, g)
      /\ page' = active
      /\ UNCHANGED <<active, complete, modal, exits, closed, ran, after>>
  BY DEF PrerunSkips, In, OwnPage, ending, hist
<1>2. Top.plugin = active /\ active \in Plugin /\ active # Last
  BY <1>1, WizardAssumption
     DEF IInv, TypeOK, TopInv, WizardAssumption, EndsAssumption
<1>3. /\ f \in Frame /\ f.at = "skipped" /\ f.plugin = active
      /\ g \in Frame /\ g.at = "run" /\ g.plugin = active
  BY <1>2 DEF Call, Frame
<1> HIDE DEF f, g
<1>s. s = [stack EXCEPT ![Len(stack)] = f]
  OBVIOUS
<1> HIDE DEF s
<1>4. s \in Seq(Frame) /\ s # << >> /\ s[Len(s)] = f /\ Shape(s)
  BY <1>1, <1>2, <1>3, <1>s, ReplaceKeepsShape
<1>5. /\ stack' \in Seq(Frame) /\ stack' # << >>
      /\ Len(stack') = Len(s) + 1 /\ stack'[Len(s) + 1] = g
      /\ \A i \in 1 .. Len(s) : stack'[i] = s[i]
  BY <1>1, <1>3, <1>4, Pushed
<1>6. Len(s) \in Nat /\ Len(s) > 0
  BY <1>4
<1>7. Top' = g
  BY <1>5, <1>6 DEF Top
<1>8. ASSUME NEW i \in 1 .. Len(stack') - 1
      PROVE  /\ stack'[i].at = "skipped"
             /\ stack'[i].plugin \in Skippers
             /\ \/ stack'[i+1].at = "run" /\ stack'[i+1].plugin = stack'[i].plugin
                \/ /\ stack'[i+1].at \in {"prerun", "working", "skipped"}
                   /\ stack'[i+1].plugin = stack'[i].plugin + 1
  <2>1. i \in 1 .. Len(s) /\ stack'[i] = s[i]
    BY <1>5, <1>6
  <2>2. CASE i = Len(s)
    BY <1>1, <1>2, <1>3, <1>4, <1>5, <2>1, <2>2
  <2>3. CASE i # Len(s)
    <3>1. i \in 1 .. Len(s) - 1 /\ i + 1 \in 1 .. Len(s)
      BY <1>6, <2>1, <2>3
    <3>2. QED
      BY <1>4, <1>5, <2>1, <3>1 DEF Shape
  <2>4. QED
    BY <2>2, <2>3
<1>9. NoReentrantClick' /\ NestInv'
  BY <1>8 DEF NoReentrantClick, NestInv
<1>10. TopInv'
  BY <1>1, <1>2, <1>3, <1>7 DEF TopInv
<1>11. TypeOK'
  BY <1>1, <1>5 DEF IInv, TypeOK
<1>12. QED
  BY <1>1, <1>5, <1>9, <1>10, <1>11
     DEF IInv, PageFollowsActive, NoReturnIntoUnloaded

-----------------------------------------------------------------------------
\* The invariant is inductive.
LEMMA IInvInductive == IInv /\ [Next]_vars => IInv'
<1>1. ASSUME IInv, UNCHANGED vars PROVE IInv'
  BY <1>1 DEF vars, IInv, TypeOK, PageFollowsActive, NoReentrantClick, TopInv,
              NestInv, NoReturnIntoUnloaded, Top
<1>2. QED
  BY <1>1, ClickForwardKeeps, ClickBackKeeps, ClickCancelKeeps, ClickApplyKeeps,
     MarkPageKeeps, ExitingKeep, ReturningKeep, RunSucceedsKeeps,
     PrerunWorksKeeps, PrerunSkipsKeeps DEF Next

\* The engine stays in its inductive invariant.
THEOREM Invariance == Spec => []IInv
<1>1. Init => IInv
  <2>1. Complete0 \in [Plugin -> BOOLEAN]
    BY WizardAssumption DEF WizardAssumption, PluginAssumption
  <2> QED
    BY <2>1, Ends
       DEF Init, IInv, TypeOK, PageFollowsActive, NoReentrantClick, TopInv,
           NestInv, NoReturnIntoUnloaded
<1>2. QED
  BY <1>1, IInvInductive, PTL DEF Spec

\* plugin_active is always a plugin of the list, and every variable has its type.
THEOREM TypeCorrect == Spec => []TypeOK
<1>1. IInv => TypeOK
  BY DEF IInv
<1>2. QED
  BY <1>1, Invariance, PTL

\* The page on screen is the page of plugin_active in every state.
THEOREM PageIsActive == Spec => []PageFollowsActive
<1>1. IInv => PageFollowsActive
  BY DEF IInv
<1>2. QED
  BY <1>1, Invariance, PTL

\* No click is handled inside the handler of another.
THEOREM NoReentrance == Spec => []NoReentrantClick
<1>1. IInv => NoReentrantClick
  BY DEF IInv
<1>2. QED
  BY <1>1, Invariance, PTL

\* No plugin function is returned to after fwife_exit, which is called once.
THEOREM CleanExit == Spec => []NoReturnIntoUnloaded
<1>1. IInv => NoReturnIntoUnloaded
  BY DEF IInv
<1>2. QED
  BY <1>1, Invariance, PTL

-----------------------------------------------------------------------------
(* Pages that lose their buttons get them back.                            *)

\* A worker's page is complete unless its prerun is still to come to its end.
Worked ==
  exits = 0 /\ active \in Workers => complete[active] \/ In("prerun") \/ In("working")

\* The steps that leave the plugin, or come to it.
LEMMA MovesKeepWorked ==
  ASSUME IInv, IInv', ClickBack \/ RunSucceeds PROVE Worked'
<1>1. active' \in Plugin
  BY DEF IInv, TypeOK
<1>2. SUFFICES ASSUME active' \in Workers PROVE In("prerun")'
  BY DEF Worked
<1>3. HasPrerun(active')
  BY <1>2, WizardAssumption DEF WizardAssumption, WorkerAssumption, HasPrerun
<1>4. stack \in Seq(Frame) /\ Call("prerun", active') \in Frame
  BY <1>1 DEF IInv, TypeOK, Call, Frame
<1>5. CASE ClickBack
  <2>1. active' = active - 1
    BY <1>5 DEF ClickBack
  <2>2. stack' = Append(stack, Call("prerun", active'))
    BY <1>3, <1>5, <2>1 DEF ClickBack, Push
  <2>3. /\ stack' # << >> /\ Len(stack') = Len(stack) + 1
        /\ stack'[Len(stack) + 1] = Call("prerun", active')
    BY <1>4, <2>2, Pushed
  <2> QED
    BY <2>3 DEF In, Top, Call
<1>6. CASE RunSucceeds
  <2>1. active' = active + 1 /\ stack # << >>
    BY <1>6 DEF RunSucceeds, In
  <2>2. stack' = [stack EXCEPT ![Len(stack)] = Call("prerun", active')]
    BY <1>3, <1>6, <2>1 DEF RunSucceeds
  <2>3. /\ stack' # << >> /\ Len(stack') = Len(stack)
        /\ stack'[Len(stack)] = Call("prerun", active')
    BY <1>4, <2>1, <2>2, Replaced
  <2> QED
    BY <2>3 DEF In, Top, Call
<1> QED
  BY <1>5, <1>6

\* Every step keeps it.
LEMMA WorkedStep == IInv /\ IInv' /\ Worked /\ [Next]_vars => Worked'
<1> SUFFICES ASSUME IInv, IInv', Worked, [Next]_vars PROVE Worked'
  OBVIOUS
<1>1. /\ active \in Plugin /\ page = active /\ exits \in Nat
      /\ complete \in [Plugin -> BOOLEAN] /\ stack \in Seq(Frame)
  BY DEF IInv, TypeOK, PageFollowsActive
<1>2. \A p \in Workers : p \notin Markers \cup Skippers
  BY WizardAssumption DEF WizardAssumption, WorkerAssumption
<1>3. CASE UNCHANGED vars
  BY <1>3 DEF vars, Worked, In, Top
<1>4. CASE ClickBack \/ RunSucceeds
  BY <1>4, MovesKeepWorked
<1>5. CASE ClickCancel \/ CloseReturns \/ RunFails \/ PrerunFails
  BY <1>1, <1>5 DEF ClickCancel, CloseReturns, RunFails, PrerunFails, Exit, Worked
<1>6. CASE ClickForward \/ ClickApply
  <2>1. stack = << >> /\ exits = 0
    BY <1>6, ClickedIdle DEF ClickForward, ClickApply
  <2>2. UNCHANGED <<active, complete>>
    BY <1>6 DEF ClickForward, ClickApply
  <2> QED
    BY <2>1, <2>2 DEF Worked, In
<1>7. CASE MarkPage
  <2>1. active' = active /\ active \notin Workers
    BY <1>1, <1>2, <1>7 DEF MarkPage
  <2> QED
    BY <2>1 DEF Worked
<1>8. CASE RunRefuses \/ SkipDone
  <2>1. Top.at \in {"run", "skipped"}
    BY <1>8 DEF RunRefuses, SkipDone, PrerunReturnsTo, In
  <2>2. UNCHANGED <<active, complete, exits>>
    BY <1>8 DEF RunRefuses, SkipDone, ending
  <2> QED
    BY <2>1, <2>2 DEF Worked, In
<1>9. CASE PrerunWorks
  <2> DEFINE f == Call("working", Top.plugin)
  <2>1. /\ stack # << >> /\ Top.at = "prerun"
        /\ stack' = [stack EXCEPT ![Len(stack)] = f]
    BY <1>9 DEF PrerunWorks, In
  <2>2. f \in Frame /\ f.at = "working"
    BY <1>1, <2>1 DEF Call, Frame, IInv, TopInv
  <2> HIDE DEF f
  <2>3. stack' # << >> /\ Len(stack') = Len(stack) /\ stack'[Len(stack)] = f
    BY <1>1, <2>1, <2>2, Replaced
  <2> QED
    BY <2>2, <2>3 DEF Worked, In, Top
<1>10. CASE PrerunSkips \/ PrerunDone
  <2>1. active' = active /\ active \notin Workers
    BY <1>2, <1>10 DEF PrerunSkips, PrerunDone, PrerunReturnsTo, In, IInv, TopInv
  <2> QED
    BY <2>1 DEF Worked
<1>11. CASE WorkDone
  BY <1>1, <1>11 DEF WorkDone, Worked
<1> QED
  BY <1>3, <1>4, <1>5, <1>6, <1>7, <1>8, <1>9, <1>10, <1>11 DEF Next

\* Whenever no handler is in progress and no modal window was left open, the
\* user can click something, for every table of plugins and every history.
THEOREM NeverStuck == Spec => []StuckOnlyBehindModal
<1>1. Init => Worked
  <2>1. 0 \notin Workers
    BY Ends, WizardAssumption DEF WizardAssumption, WorkerAssumption, EndsAssumption
  <2> QED
    BY <2>1 DEF Init, Worked
<1>2. IInv /\ Worked => StuckOnlyBehindModal
  <2> SUFFICES ASSUME IInv, Worked, exits = 0, stack = << >>
               PROVE  CancelSensitive
    BY DEF StuckOnlyBehindModal
  <2>1. page = active /\ active \in Plugin
    BY DEF IInv, TypeOK, PageFollowsActive
  <2>2. active \in Workers => complete[active]
    BY DEF Worked, In
  <2>3. PageType[active] = "PROGRESS" => active \in Workers
    BY <2>1, WizardAssumption DEF WizardAssumption, WorkerAssumption
  <2> QED
    BY <2>1, <2>2, <2>3 DEF CancelSensitive
<1>3. QED
  BY <1>1, <1>2, Invariance, IInvInductive, WorkedStep, PTL DEF Spec

-----------------------------------------------------------------------------
(* The order of the runs, and the tour of Tour.tla.                        *)

\* A run that succeeds keeps the order in which plugins were passed.
LEMMA RunKeepsOrder ==
  ASSUME IInv, RanInOrder, RunSucceeds PROVE RanInOrder'
<1>1. /\ active' = active + 1
      /\ ran' = ran \cup {active}
      /\ after' = {q \in after : active \notin {q[1], q[2]}}
                  \cup {<<active, j>> : j \in ran \ {active}}
  BY DEF RunSucceeds
<1>2. active \in Int /\ Plugin \subseteq Int
  BY DEF IInv, TypeOK, Plugin
<1>3. T!Stop = Plugin
  BY DEF T!Stop, Plugin
<1>4. SUFFICES ASSUME NEW j \in Plugin, j < active + 1
               PROVE  /\ j \in ran'
                      /\ \A i \in Plugin : i < j => <<j, i>> \in after'
  BY <1>1, <1>3 DEF RanInOrder, T!PassedInOrder, T!Stop, Plugin
<1>5. CASE j = active
  <2>1. ASSUME NEW i \in Plugin, i < j PROVE i \in ran \ {active}
    BY <1>2, <1>3, <1>5, <2>1 DEF RanInOrder, T!PassedInOrder
  <2>2. QED
    BY <1>1, <1>5, <2>1
<1>6. CASE j # active
  <2>1. j < active
    BY <1>2, <1>4, <1>6
  <2>2. j \in ran /\ \A i \in Plugin : i < j => <<j, i>> \in after
    BY <1>3, <2>1 DEF RanInOrder, T!PassedInOrder
  <2>3. ASSUME NEW i \in Plugin, i < j PROVE <<j, i>> \in after'
    <3>1. i # active /\ <<j, i>> \in after
      BY <1>2, <2>1, <2>2, <2>3
    <3>2. QED
      BY <1>1, <1>6, <3>1
  <2>4. QED
    BY <1>1, <2>2, <2>3
<1>7. QED
  BY <1>5, <1>6

\* Every plugin before the current one has run, in order, for every table of
\* plugins and every path through the pages.
THEOREM RunsInOrder == Spec => []RanInOrder
<1>1. Init => RanInOrder
  BY Ends DEF Init, RanInOrder, T!PassedInOrder, T!Stop
<1>2. IInv /\ RanInOrder /\ [Next]_vars => RanInOrder'
  <2> SUFFICES ASSUME IInv, RanInOrder, [Next]_vars PROVE RanInOrder'
    OBVIOUS
  <2>1. CASE RunSucceeds
    BY <2>1, RunKeepsOrder
  <2>2. CASE ClickBack
    <3>1. active' = active - 1 /\ UNCHANGED <<ran, after>> /\ active \in Int
      BY <2>2 DEF ClickBack, hist, IInv, TypeOK, Plugin
    <3>2. QED
      BY <3>1 DEF RanInOrder, T!PassedInOrder, T!Stop
  <2>3. CASE UNCHANGED <<active, ran, after>>
    BY <2>3 DEF RanInOrder, T!PassedInOrder, T!Stop
  <2>4. QED
    BY <2>1, <2>2, <2>3
       DEF Next, vars, engine, ending, hist, ClickForward, ClickCancel, ClickApply,
           MarkPage, CloseReturns, RunRefuses, RunFails, PrerunWorks,
           PrerunSkips, PrerunDone, WorkDone, SkipDone, PrerunFails
<1>3. QED
  BY <1>1, <1>2, Invariance, PTL DEF Spec

\* The engine implements the tour: each step is a step of the tour or leaves
\* it unchanged.
THEOREM Implementation == Spec => ImplementsTour
<1>1. Init => T!Init
  BY DEF Init, T!Init, Outcome
<1>2. IInv /\ IInv' /\ [Next]_vars => [T!Next]_(T!tour)
  <2> SUFFICES ASSUME IInv, IInv', [Next]_vars PROVE [T!Next]_(T!tour)
    OBVIOUS
  <2> USE DEF T!tour
  <2>1. CASE RunSucceeds
    <3>1. exits = 0 /\ exits' = 0 /\ active # Last /\ active \in Plugin
      BY <2>1 DEF RunSucceeds, In, ending, IInv, TopInv, TypeOK,
                  NoReturnIntoUnloaded
    <3>2. active < N-1
      BY <3>1, Ends DEF Plugin, Last
    <3>3. T!Pass
      BY <2>1, <3>1, <3>2 DEF RunSucceeds, T!Pass, Outcome
    <3>4. QED
      BY <3>3 DEF T!Next
  <2>2. CASE ClickBack
    <3>1. exits = 0 /\ exits' = 0 /\ active' = active - 1
          /\ UNCHANGED <<ran, after>>
      BY <2>2 DEF ClickBack, EventLoop, ending, hist
    <3>2. active > 0
      BY <3>1 DEF IInv, TypeOK, Plugin
    <3>3. T!StepBack
      BY <3>1, <3>2 DEF T!StepBack, Outcome
    <3>4. QED
      BY <3>3 DEF T!Next
  <2>3. CASE CloseReturns
    <3>1. /\ exits = 0 /\ exits' = 1 /\ closed' /\ active = Last
          /\ UNCHANGED <<active, ran, after>>
      BY <2>3 DEF CloseReturns, In, Exit, hist, IInv, TopInv, TypeOK,
                  NoReturnIntoUnloaded
    <3>2. T!Complete
      BY <3>1 DEF T!Complete, Outcome, Last
    <3>3. QED
      BY <3>2 DEF T!Next
  <2>4. CASE ClickCancel \/ RunFails \/ PrerunFails
    <3>1. /\ exits = 0 /\ exits' = 1 /\ UNCHANGED <<active, closed, ran, after>>
      BY <2>4 DEF ClickCancel, RunFails, PrerunFails, PrerunReturnsTo, EventLoop,
                  In, Exit, engine, hist, IInv, TypeOK, NoReturnIntoUnloaded
    <3>2. ~closed /\ ~closed'
      BY <3>1 DEF IInv
    <3>3. T!Abort
      BY <3>1, <3>2 DEF T!Abort, Outcome
    <3>4. QED
      BY <3>3 DEF T!Next
  <2>5. CASE UNCHANGED <<active, ran, after, exits, closed>>
    BY <2>5 DEF Outcome
  <2>6. QED
    BY <2>1, <2>2, <2>3, <2>4, <2>5
       DEF Next, vars, ending, hist, ClickForward, ClickApply, MarkPage,
           RunRefuses, PrerunWorks, PrerunSkips, PrerunDone, WorkDone, SkipDone
<1>3. QED
  BY <1>1, <1>2, Invariance, PTL DEF Spec, ImplementsTour, T!Spec
=============================================================================
