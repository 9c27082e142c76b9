------------------------------- MODULE Wizard -------------------------------
(***************************************************************************)
(* The engine of fwife (src/src/fwife.c): a GTK assistant with one page    *)
(* per plugin, in priority order.  GTK delivers clicks; plugin_next and    *)
(* plugin_previous call the plugins' run and prerun functions and move the *)
(* current page along.  A prerun may itself call skip_to_next_plugin,      *)
(* which re-enters plugin_next, so the handlers in progress form a stack.  *)
(*                                                                         *)
(* A plugin is known here only by what it can do to the engine: the values *)
(* its run and prerun return, whether its prerun skips, works with the     *)
(* event loop pumped or leaves a modal window, whether its widgets switch  *)
(* the completion of the page.  Plugin p is also page p: main appends the  *)
(* pages in list order.                                                    *)
(***************************************************************************)
EXTENDS Integers, Sequences

CONSTANTS
  N,              \* number of plugins in plugin_list
  PageType,       \* plugin_t.type of each plugin
  Complete0,      \* plugin_t.complete of each plugin
  RunResults,     \* the values run can return, for each plugin
  PrerunResults,  \* the values prerun can return; {} when there is no prerun
  Skippers,       \* plugins whose prerun may call skip_to_next_plugin
  Workers,        \* plugins whose prerun pumps the event loop while it works
  Markers,        \* plugins whose widgets call set_page_[in]completed
  LeavesModal     \* plugins whose prerun returns 1 with a modal window open

Plugin == 0 .. N-1
Last   == N-1
Result == {-1, 0, 1}

PluginAssumption ==
  /\ N \in Nat \ {0, 1}
  /\ PageType \in [Plugin -> {"INTRO", "CONTENT", "PROGRESS", "CONFIRM"}]
  /\ Complete0 \in [Plugin -> BOOLEAN]
  /\ RunResults \in [Plugin -> SUBSET Result]
  /\ PrerunResults \in [Plugin -> SUBSET Result]
  /\ Skippers \subseteq Plugin
  /\ Workers \subseteq Plugin
  /\ Markers \subseteq Plugin
  /\ LeavesModal \subseteq Plugin

\* The first page hides Back, the last one and no other has Apply for Forward.
EndsAssumption ==
  /\ PageType[0] = "INTRO"
  /\ \A p \in Plugin : PageType[p] = "CONFIRM" <=> p = Last
  /\ Last \notin Skippers

\* The pages where GTK takes Back, Forward and Cancel away while incomplete.
WorkerAssumption ==
  /\ \A p \in Workers : PrerunResults[p] # {} /\ p \notin Markers \cup Skippers
  /\ \A p \in Plugin : PageType[p] = "PROGRESS" <=> p \in Workers

\* A plugin that is skipped, and the prerun it is skipped to, cannot fail.
SkipAssumption ==
  \A p \in Skippers : -1 \notin RunResults[p] \cup PrerunResults[p + 1]

ASSUME WizardAssumption ==
  PluginAssumption /\ EndsAssumption /\ WorkerAssumption /\ SkipAssumption

VARIABLES
  active,    \* index of plugin_active in plugin_list
  page,      \* current page of the assistant
  complete,  \* gtk_assistant_get_page_complete of each page
  stack,     \* the plugin calls in progress, innermost last
  modal,     \* a modal window was left open and holds the grab
  exits,     \* number of calls of fwife_exit
  closed,    \* close_install was the one that called it
  ran,       \* history: plugins whose run has returned 0
  after      \* history: <<i, j>> when i last ran (returning 0) after j did

engine == <<active, page, complete, stack, modal>>
ending == <<exits, closed>>
hist   == <<ran, after>>
vars   == <<active, page, complete, stack, modal, exits, closed, ran, after>>

(***************************************************************************)
(* A frame is a call of a plugin's function: "run", "prerun", "working"    *)
(* (a prerun that pumps events), "skipped" (a prerun that has called       *)
(* skip_to_next_plugin) or "close" (the run that close_install calls).     *)
(***************************************************************************)
Frame == [at : {"run", "prerun", "working", "skipped", "close"}, plugin : Plugin]

Call(at, p) == [at |-> at, plugin |-> p]
Top         == stack[Len(stack)]
Push(f)     == Append(stack, f)
Pop         == SubSeq(stack, 1, Len(stack) - 1)
In(at)      == stack # << >> /\ Top.at = at

HasPrerun(p) == PrerunResults[p] # {}

\* Control is in the GTK main loop, or in the one a working prerun pumps.
EventLoop == exits = 0 /\ ~modal /\ (stack = << >> \/ In("working"))

Init ==
  /\ active = 0
  /\ page = 0
  /\ complete = Complete0
  /\ stack = << >>
  /\ modal = FALSE
  /\ exits = 0
  /\ closed = FALSE
  /\ ran = {}
  /\ after = {}

-----------------------------------------------------------------------------
(* What GTK lets the user click, by type and completion of the page.       *)

ForwardSensitive == PageType[page] # "CONFIRM" /\ complete[page]
ApplySensitive   == PageType[page] = "CONFIRM" /\ complete[page]
BackSensitive    == /\ PageType[page] # "INTRO"
                    /\ PageType[page] = "PROGRESS" => complete[page]
CancelSensitive  == PageType[page] = "PROGRESS" => complete[page]

\* The page fwife forces when a plugin is entered: its own, whatever page
\* GTK's own click handler has just moved to.
OwnPage(p) == p

-----------------------------------------------------------------------------
(* fwife_exit: once plugins are unloaded no event is handled any more.     *)

Exit == exits' = exits + 1

\* The operators named ...Slip are faults that the checks must notice.
\* The page is left where GTK's own handler has put it.
ClickForwardSlip ==
  /\ EventLoop
  /\ ForwardSensitive
  /\ page' = active + 1
  /\ stack' = Push(Call("run", active))
  /\ UNCHANGED <<active, complete, modal, ending, hist>>

\* Forward, up to the call of run: plugin_next.
ClickForward ==
  /\ EventLoop
  /\ ForwardSensitive
  /\ page' = OwnPage(active)
  /\ stack' = Push(Call("run", active))
  /\ UNCHANGED <<active, complete, modal, ending, hist>>

\* The index is taken one too low.
ClickBackSlip ==
  /\ EventLoop
  /\ BackSensitive
  /\ active' = active - 2
  /\ page' = active'
  /\ UNCHANGED <<complete, stack, modal, ending, hist>>

\* Back, up to the call of prerun: plugin_previous.
ClickBack ==
  /\ EventLoop
  /\ BackSensitive
  /\ active' = active - 1
  /\ page' = OwnPage(active - 1)
  /\ stack' = IF HasPrerun(active - 1) THEN Push(Call("prerun", active - 1))
                                       ELSE stack
  /\ UNCHANGED <<complete, modal, ending, hist>>

\* Cancel, or a request to close the window, confirmed: cancel_install.
ClickCancel ==
  /\ EventLoop
  /\ CancelSensitive
  /\ Exit
  /\ UNCHANGED <<engine, closed, hist>>

\* Apply on the last page ends in the "close" signal: close_install.
ClickApply ==
  /\ EventLoop
  /\ ApplySensitive
  /\ stack' = Push(Call("close", active))
  /\ UNCHANGED <<active, page, complete, modal, ending, hist>>

CloseReturns ==
  /\ In("close")
  /\ stack' = Pop
  /\ closed' = TRUE
  /\ Exit
  /\ UNCHANGED <<active, page, complete, modal, hist>>

\* A widget of the current page calls set_page_completed or its opposite.
MarkPage ==
  /\ EventLoop
  /\ page \in Markers
  /\ \E b \in BOOLEAN : complete' = [complete EXCEPT ![page] = b]
  /\ UNCHANGED <<active, page, stack, modal, ending, hist>>

-----------------------------------------------------------------------------
(* Returns of plugin functions: the rest of plugin_next, plugin_previous.  *)

RunSucceeds ==
  /\ In("run")
  /\ 0 \in RunResults[Top.plugin]
  /\ active' = active + 1
  /\ page' = OwnPage(active + 1)
  /\ stack' = IF HasPrerun(active + 1)
                THEN [stack EXCEPT ![Len(stack)] = Call("prerun", active + 1)]
                ELSE Pop
  /\ ran' = ran \cup {active}
  /\ after' = {q \in after : active \notin {q[1], q[2]}}
              \cup {<<active, j>> : j \in ran \ {active}}
  /\ UNCHANGED <<complete, modal, ending>>

\* The return value 1 is not looked at.
RunRefusesSlip ==
  /\ In("run")
  /\ 1 \in RunResults[Top.plugin]
  /\ active' = active + 1
  /\ page' = active + 1
  /\ stack' = Pop
  /\ UNCHANGED <<complete, modal, ending, hist>>

\* run returned 1: the user has to stay on the page.
RunRefuses ==
  /\ In("run")
  /\ 1 \in RunResults[Top.plugin]
  /\ stack' = Pop
  /\ UNCHANGED <<active, page, complete, modal, ending, hist>>

\* No return after fwife_exit: the next plugin is entered all the same.
RunFailsSlip ==
  /\ In("run")
  /\ -1 \in RunResults[Top.plugin]
  /\ active' = active + 1
  /\ page' = active + 1
  /\ stack' = [stack EXCEPT ![Len(stack)] = Call("prerun", active + 1)]
  /\ Exit
  /\ UNCHANGED <<complete, modal, closed, hist>>

RunFails ==
  /\ In("run")
  /\ -1 \in RunResults[Top.plugin]
  /\ stack' = Pop
  /\ Exit
  /\ UNCHANGED <<active, page, complete, modal, closed, hist>>

\* The page of a second visit stays complete while the prerun works.
PrerunWorksSlip ==
  /\ In("prerun")
  /\ Top.plugin \in Workers
  /\ stack' = [stack EXCEPT ![Len(stack)] = Call("working", Top.plugin)]
  /\ UNCHANGED <<active, page, complete, modal, ending, hist>>

\* A working prerun first takes Back, Forward and Cancel away from its page.
PrerunWorks ==
  /\ In("prerun")
  /\ Top.plugin \in Workers
  /\ complete' = [complete EXCEPT ![page] = FALSE]
  /\ stack' = [stack EXCEPT ![Len(stack)] = Call("working", Top.plugin)]
  /\ UNCHANGED <<active, page, modal, ending, hist>>

\* The skipped plugin is not run.
PrerunSkipsSlip ==
  /\ In("prerun")
  /\ Top.plugin \in Skippers
  /\ active' = active + 1
  /\ page' = active + 1
  /\ stack' = Pop
  /\ UNCHANGED <<complete, modal, ending, hist>>

\* skip_to_next_plugin: plugin_next entered from a prerun.
PrerunSkips ==
  /\ In("prerun")
  /\ Top.plugin \in Skippers
  /\ page' = OwnPage(active)
  /\ stack' = Append([stack EXCEPT ![Len(stack)] = Call("skipped", Top.plugin)],
                     Call("run", active))
  /\ UNCHANGED <<active, complete, modal, ending, hist>>

PrerunReturnsTo(at) ==
  /\ In(at)
  /\ stack' = Pop

\* Only -1 is looked at: a prerun that returns 1 counts as done.
PrerunDone ==
  /\ PrerunReturnsTo("prerun")
  /\ Top.plugin \notin Workers
  /\ \E r \in PrerunResults[Top.plugin] \ {-1} :
       modal' = (r = 1 /\ Top.plugin \in LeavesModal)
  /\ UNCHANGED <<active, page, complete, ending, hist>>

\* The page is never completed.
WorkDoneSlip ==
  /\ PrerunReturnsTo("working")
  /\ 0 \in PrerunResults[Top.plugin]
  /\ UNCHANGED <<active, page, complete, modal, ending, hist>>

WorkDone ==
  /\ PrerunReturnsTo("working")
  /\ 0 \in PrerunResults[Top.plugin]
  /\ complete' = [complete EXCEPT ![page] = TRUE]
  /\ UNCHANGED <<active, page, modal, ending, hist>>

\* The value skip_to_next_plugin returned is dropped; prerun returns 0.
SkipDone ==
  /\ PrerunReturnsTo("skipped")
  /\ UNCHANGED <<active, page, complete, modal, ending, hist>>

PrerunFails ==
  /\ \/ PrerunReturnsTo("prerun") /\ Top.plugin \notin Workers
     \/ PrerunReturnsTo("working")
  /\ -1 \in PrerunResults[Top.plugin]
  /\ Exit
  /\ UNCHANGED <<active, page, complete, modal, closed, hist>>

-----------------------------------------------------------------------------
Next ==
  \/ ClickForward \/ ClickBack \/ ClickCancel \/ ClickApply \/ MarkPage
  \/ CloseReturns \/ RunSucceeds \/ RunRefuses \/ RunFails
  \/ PrerunWorks \/ PrerunSkips
  \/ PrerunDone \/ WorkDone \/ SkipDone \/ PrerunFails

Spec == Init /\ [][Next]_vars

-----------------------------------------------------------------------------
\* The types of the variables: active never leaves the list of plugins.
TypeOK ==
  /\ active \in Plugin
  /\ page \in Plugin
  /\ complete \in [Plugin -> BOOLEAN]
  /\ stack \in Seq(Frame)
  /\ modal \in BOOLEAN
  /\ exits \in Nat
  /\ closed \in BOOLEAN
  /\ ran \subseteq Plugin
  /\ after \subseteq Plugin \X Plugin

\* The page on screen is always the page of plugin_active: neither GTK's own
\* page change nor a nested skip_to_next_plugin leaves the two apart, so
\* set_page_completed and set_page_incompleted reach the page they are for.
PageFollowsActive == page = active

\* No click is handled inside the handler of another one: while a prerun
\* pumps the event loop, its page keeps Back, Forward and Cancel away, so
\* every frame but the innermost is a prerun that skipped.
NoReentrantClick ==
  \A i \in 1 .. Len(stack) - 1 : stack[i].at = "skipped"

\* fwife_exit unloads the plugins (dlclose): no plugin function is still
\* waiting to be returned to, and plugins are unloaded once.
NoReturnIntoUnloaded == exits > 0 => stack = << >> /\ exits = 1

\* How the run of the engine ended, seen from outside.
Outcome == IF exits = 0 THEN "no" ELSE IF closed THEN "completed" ELSE "aborted"

T == INSTANCE Tour WITH at <- active, passed <- ran, later <- after,
                        ended <- Outcome

\* Whatever the path of Back, Forward and skips, every plugin before the
\* current one has run, and last ran after all those before it did: no page
\* is configured from the results of a later one.
RanInOrder == T!PassedInOrder

\* The engine moves one plugin at a time, never past the last one or before
\* the first, runs a plugin before leaving it forward, announces a completed
\* installation only at the last one, and does nothing after the exit.
ImplementsTour == T!Spec

\* The only state where the engine runs and the user can click nothing at all
\* is the one behind a modal window that a prerun left open when it returned 1,
\* the value plugin_next and plugin_previous ignore; in particular the pages
\* that lose their buttons while incomplete get them back or end in an exit.
StuckOnlyBehindModal ==
  exits = 0 /\ ~modal /\ stack = << >> =>
    ForwardSensitive \/ BackSensitive \/ ApplySensitive \/ CancelSensitive
=============================================================================
