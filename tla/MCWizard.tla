------------------------------ MODULE MCWizard ------------------------------
(***************************************************************************)
(* The wizard with the plugins of src/src/plugins.  Table lists, in order  *)
(* of priority, what each one declares in its plugin_t and can return.     *)
(***************************************************************************)
EXTENDS Wizard

Entry(name, type, filled, run, prerun) ==
  [name |-> name, type |-> type, filled |-> filled,
   run |-> run, prerun |-> prerun]

AllPlugins == <<
  Entry("greet",         "INTRO",    TRUE,  {-1, 0},    {}),
  Entry("layout",        "CONTENT",  TRUE,  {0, 1},     {}),
  Entry("configsource",  "CONTENT",  TRUE,  {0},        {0}),
  Entry("formatdisk",    "CONTENT",  FALSE, {-1, 0},    {0}),
  Entry("select",        "CONTENT",  TRUE,  {-1, 0, 1}, {-1, 0, 1}),
  Entry("install",       "PROGRESS", FALSE, {0},        {-1, 0}),
  Entry("grubconfig",    "CONTENT",  TRUE,  {0},        {}),
  Entry("rootconf",      "CONTENT",  TRUE,  {0, 1},     {}),
  Entry("usersconf",     "CONTENT",  TRUE,  {0},        {}),
  Entry("timeconfig",    "CONTENT",  FALSE, {-1, 0},    {-1, 0}),
  Entry("netconf",       "CONTENT",  TRUE,  {0},        {0}),
  Entry("configuration", "CONTENT",  TRUE,  {0},        {0}),
  Entry("Completed",     "CONFIRM",  TRUE,  {0},        {}) >>

\* The plugins of a run, in order.
CONSTANT Names

Table         == SelectSeq(AllPlugins, LAMBDA e : e.name \in Names)
MCN           == Len(Table)
Column(e)     == Table[e + 1]
MCPageType    == [p \in 0 .. MCN-1 |-> Column(p).type]
MCComplete0   == [p \in 0 .. MCN-1 |-> Column(p).filled]
MCRun         == [p \in 0 .. MCN-1 |-> Column(p).run]
MCPrerun      == [p \in 0 .. MCN-1 |-> Column(p).prerun]
Named(S)      == {p \in 0 .. MCN-1 : Column(p).name \in S}
MCSkippers    == Named({"configsource", "netconf"})
MCWorkers     == Named({"install"})
MCMarkers     == Named({"formatdisk", "rootconf", "timeconfig"})
MCLeavesModal == Named({"select"})
=============================================================================
