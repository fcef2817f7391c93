--------------------------- MODULE IviModulesProofs ---------------------------
(***************************************************************************)
(* Proofs about IviModules, for any number of clients, seats and events    *)
(* and every order of them.                                                *)
(*                                                                         *)
(* No handler uses a struct that is gone because a listener is linked only *)
(* while its struct is allocated (Linked), and because the shell is the    *)
(* last in the destroy_signal (Orders), so that each module finds it.      *)
(*                                                                         *)
(* And proofs about IdAgent, one of the modules, for any surfaces,         *)
(* applications, ids and contents of weston.ini.  That a reserved id is    *)
(* kept for its applications rests on two facts that read_config           *)
(* establishes and no handler disturbs: the sections name different ids    *)
(* (SectionsDiffer), and none of them an id of the interval                *)
(* (IntervalApart), of which the next default id always is one or past it. *)
(* That an element and the surface it names agree rests on the ids of the  *)
(* elements and of the surfaces being different (NInv).                    *)
(***************************************************************************)
EXTENDS IviModules, IdAgent, SequenceTheorems, TLAPS

Steps == {"shell", "server", "input", "global", "idle", "agent", "last"}

\* What the destroy_signal can hold: the shell is the last.
ModulesOrders == {<<>>, <<"input">>, <<"agent">>, <<"input", "agent">>}
ShellOrders   == {<<"shell">>, <<"input", "shell">>, <<"agent", "shell">>,
                  <<"input", "agent", "shell">>}
Orders == ModulesOrders \cup ShellOrders
Listed(x) == \E i \in DOMAIN on_destroy : on_destroy[i] = x

MTypes ==
    /\ pc \in Steps \cup {"run", "stop", "off"}
    /\ struct \in [Structs -> {"none", "live", "freed"}]
    /\ failed \in BOOLEAN /\ late \in BOOLEAN
    /\ bound \in [{"ivi_wm", "ivi_input"} -> SUBSET Clients]
    /\ surface = "found" => config.found

\* Weston reaches only structs that are allocated, or the shell that is freed
\* when wet_module_init fails.
Linked ==
    \A l \in linked : /\ l[2] \in Structs
                      /\ l[2] # "shell" => struct[l[2]] = "live"
                      /\ l[2] = "shell" => struct["shell"] = "live" \/ failed
                      /\ l[1] = "ivisurface_removed" => l[2] = "input"

Ordered ==
    /\ on_destroy \in Orders
    /\ \A x \in {"input", "agent"} : Listed(x) => struct[x] = "live"
    /\ pc = "shell" <=> struct["shell"] = "none"
    /\ struct["shell"] = "freed" /\ ~failed => on_destroy = <<>>

\* How far wet_module_init has come.
Loading ==
    /\ pc \in (Steps \cup {"run"}) \ {"shell"} => struct["shell"] = "live"
    /\ pc \in {"shell", "server", "input"} =>
          on_destroy = <<>> /\ struct["input"] = "none" /\ "ivi_input" \notin globals
    /\ pc = "global" => on_destroy = <<"input">> /\ "ivi_input" \notin globals
    /\ pc \in {"idle", "agent"} => on_destroy \in {<<>>, <<"input">>}
    /\ pc = "last" => on_destroy \in ModulesOrders
    /\ pc \in Steps \ {"last"} => struct["agent"] = "none"
    /\ pc \in Steps => bound["ivi_wm"] = {} /\ bound["ivi_input"] = {}
    /\ pc \in Steps \cup {"run"} /\ "ivi_input" \in globals => struct["input"] = "live"

\* Clients are bound to what there was.
Bound ==
    /\ bound["ivi_input"] # {} => struct["input"] = "live"
    /\ bound["ivi_wm"] # {} => struct["shell"] # "none"

Sound == MTypes /\ Linked /\ Ordered /\ Loading /\ Bound
MInv == Sound /\ NothingFreedIsUsed

-----------------------------------------------------------------------------
(* The destroy_signal.                                                     *)

LEMMA FirstListed ==
    ASSUME on_destroy \in Orders, on_destroy # <<>>
    PROVE  Head(on_destroy) \in Structs /\ Listed(Head(on_destroy))
<1>1. PICK x \in Structs, y \in Structs, z \in Structs :
         on_destroy = <<x>> \/ on_destroy = <<x, y>> \/ on_destroy = <<x, y, z>>
  BY DEF Orders, ModulesOrders, ShellOrders, Structs
<1>2. CASE on_destroy = <<x>>
  BY <1>2 DEF Listed
<1>3. CASE on_destroy = <<x, y>>
  BY <1>3 DEF Listed
<1>4. CASE on_destroy = <<x, y, z>>
  BY <1>4 DEF Listed
<1> QED
  BY <1>1, <1>2, <1>3, <1>4

\* The listener that runs leaves the list, and was there once.
LEMMA FirstLeaves ==
    ASSUME on_destroy \in Orders, on_destroy # <<>>, on_destroy' = Tail(on_destroy)
    PROVE  /\ on_destroy' \in Orders /\ Head(on_destroy) \in Structs
           /\ Listed(Head(on_destroy))
           /\ Head(on_destroy) = "shell" => on_destroy' = <<>>
           /\ \A x \in Structs : Listed(x)' => Listed(x) /\ x # Head(on_destroy)
<1> USE DEF Orders, ModulesOrders, ShellOrders, Structs
<1>1. CASE on_destroy \in {<<"input">>, <<"agent">>, <<"shell">>}
  <2>1. PICK x \in Structs : on_destroy = <<x>>
    BY <1>1
  <2>2. on_destroy' = <<>> /\ Head(on_destroy) = x
    BY <2>1
  <2>3. Listed(x) /\ \A y : ~Listed(y)'
    BY <2>1, <2>2 DEF Listed
  <2> QED
    BY <2>2, <2>3
<1>2. ASSUME NEW x \in Structs, NEW y \in Structs, x # y, x # "shell",
             on_destroy = <<x, y>>
      PROVE  /\ on_destroy' = <<y>> /\ Head(on_destroy) = x /\ Listed(x)
             /\ \A z : Listed(z)' => Listed(z) /\ z # x
  <2>1. on_destroy' = <<y>> /\ Head(on_destroy) = x
    BY <1>2
  <2>2. Listed(x) /\ Listed(y) /\ \A z : Listed(z)' => z = y
    BY <1>2, <2>1 DEF Listed
  <2> QED
    BY <1>2, <2>1, <2>2
<1>3. CASE on_destroy = <<"input", "agent", "shell">>
  <2>1. on_destroy' = <<"agent", "shell">> /\ Head(on_destroy) = "input"
    BY <1>3
  <2>2. /\ Listed("input") /\ Listed("agent") /\ Listed("shell")
        /\ \A z : Listed(z)' => z \in {"agent", "shell"}
    BY <1>3, <2>1 DEF Listed
  <2> QED
    BY <2>1, <2>2
<1>4. CASE on_destroy = <<"input", "agent">>
  BY <1>2, <1>4
<1>5. CASE on_destroy = <<"input", "shell">>
  BY <1>2, <1>5
<1>6. CASE on_destroy = <<"agent", "shell">>
  BY <1>2, <1>6
<1> QED
  BY <1>1, <1>3, <1>4, <1>5, <1>6

LEMMA AppendToOne == ASSUME NEW a, NEW b PROVE Append(<<a>>, b) = <<a, b>>
<1> DEFINE s == Append(<<a>>, b)
           t == <<a, b>>
<1>1. <<a>> \in Seq({a, b}) /\ s \in Seq({a, b}) /\ t \in Seq({a, b})
  OBVIOUS
<1>2. Len(s) = 2 /\ Len(t) = 2
  BY <1>1
<1>3. s[1] = a /\ s[2] = b
  BY <1>1
<1>4. \A i \in 1 .. Len(s) : s[i] = t[i]
  BY <1>2, <1>3
<1> HIDE DEF s, t
<1>5. s = t
  BY <1>1, <1>2, <1>4, SeqEqual
<1> QED
  BY <1>5 DEF s, t

LEMMA AppendToTwo == ASSUME NEW a, NEW b, NEW c PROVE Append(<<a, b>>, c) = <<a, b, c>>
<1> DEFINE s == Append(<<a, b>>, c)
           t == <<a, b, c>>
<1>1. <<a, b>> \in Seq({a, b, c}) /\ s \in Seq({a, b, c}) /\ t \in Seq({a, b, c})
  OBVIOUS
<1>2. Len(s) = 3 /\ Len(t) = 3
  BY <1>1
<1>3. s[1] = a /\ s[2] = b /\ s[3] = c
  BY <1>1
<1>4. \A i \in 1 .. Len(s) : s[i] = t[i]
  BY <1>2, <1>3
<1> HIDE DEF s, t
<1>5. s = t
  BY <1>1, <1>2, <1>4, SeqEqual
<1> QED
  BY <1>5 DEF s, t

\* A module is added before the shell, and the shell at the end.
LEMMA ListGrows ==
    ASSUME NEW x \in Structs, on_destroy' = Append(on_destroy, x)
    PROVE  /\ on_destroy = <<>> /\ x = "input" => on_destroy' = <<"input">>
           /\ on_destroy \in {<<>>, <<"input">>} /\ x = "agent" => on_destroy' \in ModulesOrders
           /\ on_destroy \in ModulesOrders /\ x = "shell" => on_destroy' \in ShellOrders
           /\ on_destroy \in ModulesOrders =>
                 \A y \in Structs : Listed(y)' => Listed(y) \/ y = x
<1> USE DEF ModulesOrders, ShellOrders, Structs
<1>1. CASE on_destroy = <<>>
  <2>1. on_destroy' = <<x>>
    BY <1>1
  <2>2. \A y : Listed(y)' => y = x
    BY <2>1 DEF Listed
  <2> QED
    BY <1>1, <2>1, <2>2
<1>2. ASSUME NEW a, on_destroy = <<a>>
      PROVE  on_destroy' = <<a, x>> /\ \A y : Listed(y)' => Listed(y) \/ y = x
  <2>1. on_destroy' = <<a, x>>
    BY <1>2, AppendToOne
  <2>2. Listed(a) /\ \A y : Listed(y)' => y \in {a, x}
    BY <1>2, <2>1 DEF Listed
  <2> QED
    BY <2>1, <2>2
<1>3. CASE on_destroy = <<"input", "agent">>
  <2>1. on_destroy' = <<"input", "agent", x>>
    BY <1>3, AppendToTwo
  <2>2. Listed("input") /\ Listed("agent") /\ \A y : Listed(y)' => y \in {"input", "agent", x}
    BY <1>3, <2>1 DEF Listed
  <2> QED
    BY <1>3, <2>1, <2>2
<1>4. CASE on_destroy = <<"input">>
  BY <1>2, <1>4
<1>5. CASE on_destroy = <<"agent">>
  BY <1>2, <1>5
<1>6. on_destroy \in {<<>>, <<"input">>} => on_destroy = <<>> \/ on_destroy = <<"input">>
  OBVIOUS
<1> QED
  BY <1>1, <1>3, <1>4, <1>5, <1>6

-----------------------------------------------------------------------------
(* What handlers use.                                                      *)

\* A handler that uses what is allocated, or the shell in the two cases that
\* are excepted.
LEMMA Uses ==
    ASSUME MInv, NEW S, Use(S), config' = config,
           failed => failed', late => late',
           \A x \in {"input", "agent"} : x \in S => struct[x] = "live",
           "shell" \in S => struct["shell"] = "live" \/ failed' \/ late'
    PROVE  NothingFreedIsUsed'
BY DEF MInv, Sound, MTypes, NothingFreedIsUsed, Use, Unsound, Accepted, Structs

LEMMA UsesNothing ==
    ASSUME MInv, UNCHANGED <<config, used>>, failed => failed', late => late'
    PROVE  NothingFreedIsUsed'
BY DEF MInv, NothingFreedIsUsed

\* The listeners a signal runs.
LEMMA RunsLive ==
    ASSUME MInv, NEW signal
    PROVE  /\ \A x \in {"input", "agent"} : x \in Runs(signal) => struct[x] = "live"
           /\ "shell" \in Runs(signal) => struct["shell"] = "live" \/ failed
           /\ Accepted \notin Runs(signal)
BY DEF MInv, Sound, Linked, Runs, Accepted, Structs

-----------------------------------------------------------------------------
(* wet_module_init.                                                        *)

LEMMA ShellLoads == MInv /\ init_ivi_shell => MInv'
<1> SUFFICES ASSUME MInv, init_ivi_shell PROVE MInv'
  OBVIOUS
<1> USE DEF MInv, Sound
<1>1. /\ pc = "shell" /\ pc' = "server" /\ struct' = [struct EXCEPT !["shell"] = "live"]
      /\ linked' = By(ShellSignals, "shell")
      /\ UNCHANGED <<config, on_destroy, globals, surface, bound, late, used, failed>>
  BY DEF init_ivi_shell, Allocate, weston
<1>2. /\ struct'["shell"] = "live"
      /\ \A x \in {"input", "agent"} : struct'[x] = struct[x]
  BY <1>1 DEF MTypes, Structs
<1>3. MTypes'
  BY <1>1 DEF MTypes, Steps, Structs
<1>4. Linked'
  BY <1>1, <1>2 DEF Linked, By, Structs, ShellSignals, LayoutSignals, OutputSignals
<1>5. Ordered'
  BY <1>1, <1>2 DEF Ordered, Listed
<1>6. Loading'
  BY <1>1, <1>2 DEF Loading, Steps
<1>7. Bound'
  BY <1>1, <1>2 DEF Bound, Loading, Steps
<1>8. NothingFreedIsUsed'
  BY <1>1, UsesNothing
<1> QED
  BY <1>3, <1>4, <1>5, <1>6, <1>7, <1>8

\* wet_module_init fails before there is a context: nothing of the modules is
\* linked yet.
LEMMA LoadingFails ==
    ASSUME MInv, Fails, pc \in {"server", "input"},
           UNCHANGED <<config, on_destroy, linked, globals, surface, bound, late, used>>
    PROVE  MInv'
<1> USE DEF MInv, Sound
<1>1. /\ pc' = "stop" /\ failed' = TRUE /\ struct'["shell"] = "freed"
      /\ \A x \in {"input", "agent"} : struct'[x] = struct[x]
      /\ struct' \in [Structs -> {"none", "live", "freed"}]
  BY DEF Fails, Free, MTypes, Structs
<1>2. MTypes'
  BY <1>1 DEF MTypes, Steps
<1>3. Linked'
  BY <1>1 DEF Linked, Structs
<1>4. Ordered'
  BY <1>1 DEF Ordered, Listed
<1>5. Loading'
  BY <1>1 DEF Loading, Steps
<1>6. Bound'
  BY <1>1 DEF Bound, Loading, Steps
<1>7. NothingFreedIsUsed'
  BY <1>1, UsesNothing
<1> QED
  BY <1>2, <1>3, <1>4, <1>5, <1>6, <1>7

LEMMA ServerStarts == MInv /\ setup_ivi_controller_server => MInv'
<1> SUFFICES ASSUME MInv, setup_ivi_controller_server PROVE MInv'
  OBVIOUS
<1>1. /\ pc = "server"
      /\ UNCHANGED <<config, on_destroy, linked, surface, bound, late, used>>
  BY DEF setup_ivi_controller_server, weston
<1>2. CASE Fails /\ UNCHANGED globals
  BY <1>1, <1>2, LoadingFails
<1>3. CASE globals' = globals \cup {"ivi_wm"} /\ pc' = "input" /\ UNCHANGED <<struct, failed>>
  <2> USE DEF MInv, Sound
  <2>1. MTypes' /\ Linked' /\ Bound'
    BY <1>1, <1>3 DEF MTypes, Linked, Bound, Steps
  <2>2. Ordered' /\ Loading'
    BY <1>1, <1>3 DEF Ordered, Listed, Loading, Steps
  <2>3. NothingFreedIsUsed'
    BY <1>1, <1>3, UsesNothing
  <2> QED
    BY <2>1, <2>2, <2>3
<1> QED
  BY <1>1, <1>2, <1>3 DEF setup_ivi_controller_server

LEMMA InputLoads == MInv /\ load_input_module => MInv'
<1> SUFFICES ASSUME MInv, load_input_module PROVE MInv'
  OBVIOUS
<1>1. pc = "input" /\ UNCHANGED <<config, globals, surface, bound, late>>
  BY DEF load_input_module, weston, Fails
<1>2. CASE CreatesContext /\ pc' = "global" /\ UNCHANGED failed
  <2> USE DEF MInv, Sound
  <2>1. /\ struct' = [struct EXCEPT !["input"] = "live"]
        /\ linked' = linked \cup By(InputSignals, "input") \cup SeatListeners(seats)
        /\ on_destroy' = Append(on_destroy, "input")
        /\ Use(AcceptedIf(DefaultSeat \in seats))
    BY <1>2 DEF CreatesContext, Allocate
  <2>2. on_destroy' = <<"input">> /\ \A y \in Structs : Listed(y)' => y = "input"
    BY <1>1, <2>1, ListGrows DEF Loading, Structs, Listed, ModulesOrders
  <2>3. /\ struct'["input"] = "live" /\ struct'["shell"] = struct["shell"]
        /\ struct'["agent"] = struct["agent"]
        /\ struct' \in [Structs -> {"none", "live", "freed"}]
    BY <2>1 DEF MTypes, Structs
  <2>4. MTypes'
    BY <1>1, <1>2, <2>3 DEF MTypes, Steps
  <2>5. Linked'
    BY <1>2, <2>1, <2>3 DEF Linked, By, SeatListeners, Structs
  <2>6. Ordered'
    BY <1>1, <1>2, <2>2, <2>3 DEF Ordered, Orders, ModulesOrders, Structs, Loading, Steps
  <2>7. Loading' /\ Bound'
    BY <1>1, <1>2, <2>2, <2>3 DEF Loading, Steps, Bound
  <2>8. NothingFreedIsUsed'
    BY <1>1, <1>2, <2>1, Uses DEF AcceptedIf, Accepted
  <2> QED
    BY <2>4, <2>5, <2>6, <2>7, <2>8
<1>3. CASE pc' = "idle" /\ UNCHANGED <<struct, linked, on_destroy, globals, used, failed>>
  <2> USE DEF MInv, Sound
  <2>1. MTypes' /\ Linked' /\ Bound'
    BY <1>1, <1>3 DEF MTypes, Linked, Bound, Steps
  <2>2. Ordered' /\ Loading'
    BY <1>1, <1>3 DEF Ordered, Listed, Loading, Steps
  <2>3. NothingFreedIsUsed'
    BY <1>1, <1>3, UsesNothing
  <2> QED
    BY <2>1, <2>2, <2>3
<1>4. CASE Fails /\ UNCHANGED <<linked, on_destroy, globals, used>>
  BY <1>1, <1>4, LoadingFails
<1> QED
  BY <1>2, <1>3, <1>4 DEF load_input_module

\* destroy_input_context finds its struct and the shell.
LEMMA ContextUses ==
    ASSUME MInv, destroy_input_context, struct["input"] = "live",
           struct["shell"] = "live" \/ failed, surface = "found" => config.found,
           config' = config, failed => failed', late => late'
    PROVE  NothingFreedIsUsed'
<1>1. Use({"input", "shell", Accepted})
  BY DEF destroy_input_context
<1> QED
  BY <1>1, Uses DEF Accepted

LEMMA InputGlobal == MInv /\ input_controller_init => MInv'
<1> SUFFICES ASSUME MInv, input_controller_init PROVE MInv'
  OBVIOUS
<1> USE DEF MInv, Sound
<1>1. UNCHANGED <<config, surface, late>>
  BY DEF input_controller_init
<1>2. /\ pc = "global" /\ on_destroy = <<"input">> /\ struct["input"] = "live"
      /\ struct["shell"] = "live" /\ struct["agent"] = "none"
      /\ bound["ivi_wm"] = {} /\ bound["ivi_input"] = {}
  <2>1. pc = "global" /\ on_destroy = <<"input">>
    BY DEF input_controller_init, Loading
  <2>2. Listed("input")
    BY <2>1 DEF Listed
  <2> QED
    BY <2>1, <2>2 DEF Loading, Ordered, Steps
<1>3. CASE globals' = globals \cup {"ivi_input"} /\ pc' = "idle"
              /\ UNCHANGED <<struct, linked, on_destroy, bound, used, failed>>
  <2>1. MTypes' /\ Linked' /\ Bound'
    BY <1>1, <1>3 DEF MTypes, Linked, Bound, Steps
  <2>2. Ordered'
    BY <1>2, <1>3 DEF Ordered, Listed
  <2>3. Loading'
    BY <1>2, <1>3 DEF Loading, Steps
  <2>4. NothingFreedIsUsed'
    BY <1>1, <1>3, UsesNothing
  <2> QED
    BY <2>1, <2>2, <2>3, <2>4
<1>4. CASE destroy_input_context /\ Free({"input", "shell"}) /\ pc' = "stop"
              /\ failed' = TRUE /\ UNCHANGED globals
  <2>1. /\ linked' = Detached
        /\ on_destroy' = <<>> /\ bound' = [bound EXCEPT !["ivi_input"] = {}]
    BY <1>2, <1>4 DEF destroy_input_context
  <2>2. /\ struct' \in [Structs -> {"none", "live", "freed"}]
        /\ struct'["shell"] = "freed" /\ struct'["input"] = "freed"
        /\ struct'["agent"] = struct["agent"]
    BY <1>4 DEF Free, MTypes, Structs
  <2>3. MTypes'
    BY <1>1, <1>4, <2>1, <2>2 DEF MTypes, Steps
  <2>4. Linked'
    BY <1>4, <2>1, <2>2 DEF Linked, Detached, Structs
  <2>5. Ordered'
    BY <1>4, <2>1, <2>2 DEF Ordered, Orders, ModulesOrders, Listed
  <2>6. Loading' /\ Bound'
    BY <1>2, <1>4, <2>1, <2>2 DEF Loading, Bound, Steps, MTypes
  <2>7. NothingFreedIsUsed'
    BY <1>1, <1>2, <1>4, ContextUses DEF MTypes
  <2> QED
    BY <2>3, <2>4, <2>5, <2>6, <2>7
<1> QED
  BY <1>3, <1>4 DEF input_controller_init

LEMMA IdleAdded == MInv /\ AddIdle => MInv'
<1> SUFFICES ASSUME MInv, AddIdle PROVE MInv'
  OBVIOUS
<1> USE DEF MInv, Sound
<1>1. /\ pc = "idle" /\ pc' = "agent"
      /\ UNCHANGED <<config, struct, on_destroy, linked, globals, surface, bound, late, used, failed>>
  BY DEF AddIdle, weston
<1>2. MTypes' /\ Linked' /\ Bound'
  BY <1>1 DEF MTypes, Linked, Bound, Steps
<1>3. Ordered' /\ Loading'
  BY <1>1 DEF Ordered, Listed, Loading, Steps
<1>4. NothingFreedIsUsed'
  BY <1>1, UsesNothing
<1> QED
  BY <1>2, <1>3, <1>4

LEMMA AgentLoads == MInv /\ load_id_agent_module => MInv'
<1> SUFFICES ASSUME MInv, load_id_agent_module PROVE MInv'
  OBVIOUS
<1> USE DEF MInv, Sound
<1>1. /\ pc = "agent" /\ pc' = "last"
      /\ UNCHANGED <<config, globals, surface, bound, late, used, failed>>
  BY DEF load_id_agent_module, weston
<1>2. /\ on_destroy \in {<<>>, <<"input">>} /\ struct["agent"] = "none"
      /\ struct["shell"] = "live"
  BY <1>1 DEF Loading, Steps
<1>3. ASSUME UNCHANGED on_destroy \/ on_destroy' = Append(on_destroy, "agent"),
             on_destroy' = Append(on_destroy, "agent") => struct'["agent"] = "live",
             struct'["shell"] = "live", struct'["input"] = struct["input"],
             struct' \in [Structs -> {"none", "live", "freed"}], Linked'
      PROVE  MInv'
  <2>1. /\ on_destroy' \in ModulesOrders
        /\ \A y \in Structs : Listed(y)' => Listed(y) \/ (y = "agent" /\ struct'["agent"] = "live")
    <3>1. CASE UNCHANGED on_destroy
      BY <1>2, <3>1 DEF Listed, ModulesOrders
    <3>2. CASE on_destroy' = Append(on_destroy, "agent")
      BY <1>2, <1>3, <3>2, ListGrows DEF ModulesOrders, Structs
    <3> QED
      BY <1>3, <3>1, <3>2
  <2>2. ~Listed("agent")
    BY <1>2 DEF Ordered
  <2>3. MTypes'
    BY <1>1, <1>3 DEF MTypes, Steps
  <2>4. Ordered'
    BY <1>1, <1>3, <2>1, <2>2 DEF Ordered, Orders, Structs
  <2>5. Loading' /\ Bound'
    BY <1>1, <1>3, <2>1 DEF Loading, Bound, Steps
  <2>6. NothingFreedIsUsed'
    BY <1>1, UsesNothing
  <2> QED
    BY <1>3, <2>3, <2>4, <2>5, <2>6
<1>4. CASE Allocate("agent") /\ on_destroy' = Append(on_destroy, "agent")
              /\ linked' = linked \cup By(AgentSignals, "agent")
  <2>1. /\ struct'["agent"] = "live" /\ struct'["shell"] = "live"
        /\ struct'["input"] = struct["input"]
        /\ struct' \in [Structs -> {"none", "live", "freed"}]
    BY <1>2, <1>4 DEF Allocate, MTypes, Structs
  <2>2. Linked'
    BY <1>1, <1>4, <2>1 DEF Linked, By, Structs, AgentSignals
  <2> QED
    BY <1>3, <1>4, <2>1, <2>2
<1>5. CASE (Free({"agent"}) \/ UNCHANGED struct) /\ UNCHANGED <<on_destroy, linked>>
  <2>1. /\ struct'["shell"] = "live" /\ struct'["input"] = struct["input"]
        /\ struct' \in [Structs -> {"none", "live", "freed"}]
    BY <1>2, <1>5 DEF Free, MTypes, Structs
  <2>2. Linked'
    BY <1>1, <1>2, <1>5, <2>1 DEF Linked, Structs
  <2>3. on_destroy' # Append(on_destroy, "agent")
    <3>1. CASE on_destroy = <<>>
      BY <1>5, <3>1
    <3>2. CASE on_destroy = <<"input">>
      BY <1>5, <3>2, AppendToOne
    <3> QED
      BY <1>2, <3>1, <3>2
  <2> QED
    BY <1>3, <1>5, <2>1, <2>2, <2>3
<1> QED
  BY <1>4, <1>5 DEF load_id_agent_module

LEMMA ShellListens == MInv /\ add_destroy_listener => MInv'
<1> SUFFICES ASSUME MInv, add_destroy_listener PROVE MInv'
  OBVIOUS
<1> USE DEF MInv, Sound
<1>1. /\ pc = "last" /\ pc' = "run" /\ on_destroy' = Append(on_destroy, "shell")
      /\ UNCHANGED <<config, struct, linked, globals, surface, bound, late, used, failed>>
  BY DEF add_destroy_listener, weston
<1>2. /\ on_destroy' \in ShellOrders
      /\ \A y \in Structs : Listed(y)' => Listed(y) \/ y = "shell"
  BY <1>1, ListGrows DEF Loading, Structs
<1>3. MTypes' /\ Linked' /\ Bound'
  BY <1>1 DEF MTypes, Linked, Bound, Steps
<1>4. struct["shell"] = "live"
  BY <1>1 DEF Loading, Steps
<1>5. Ordered'
  BY <1>1, <1>2, <1>4 DEF Ordered, Orders, Structs
<1>6. Loading'
  BY <1>1 DEF Loading, Steps
<1>7. NothingFreedIsUsed'
  BY <1>1, UsesNothing
<1> QED
  BY <1>3, <1>5, <1>6, <1>7

-----------------------------------------------------------------------------
(* Weston.                                                                 *)

\* What an event may do: it leaves the structs, and what is in the lists of
\* weston for them, or adds a listener of a struct that is there.
LEMMA Events ==
    ASSUME MInv, UNCHANGED <<config, pc, struct, on_destroy, globals, failed>>,
           \A l \in linked' : l \in linked \/ (l[2] = "input" /\ struct["input"] = "live"),
           surface' = "found" => surface = "found",
           bound' \in [{"ivi_wm", "ivi_input"} -> SUBSET Clients],
           bound'["ivi_input"] # {} => struct["input"] = "live",
           bound'["ivi_wm"] # {} => struct["shell"] # "none",
           pc \in Steps => bound' = bound,
           late' \in BOOLEAN, NothingFreedIsUsed'
    PROVE  MInv'
<1> USE DEF MInv, Sound
<1>1. MTypes'
  BY DEF MTypes
<1>2. Linked'
  BY DEF Linked, Structs
<1>3. Ordered' /\ Loading' /\ Bound'
  BY DEF Ordered, Listed, Loading, Bound
<1> QED
  BY <1>1, <1>2, <1>3

\* Events that bind no client and link no listener.
LEMMA PlainEvents ==
    ASSUME MInv, UNCHANGED <<config, pc, struct, on_destroy, globals, failed, bound, late>>,
           linked' \subseteq linked, surface' = "found" => surface = "found",
           NothingFreedIsUsed'
    PROVE  MInv'
BY Events DEF MInv, Sound, MTypes, Bound

LEMMA WestonSignal == ASSUME MInv, NEW signal, weston_signal(signal) PROVE MInv'
<1>1. /\ Use(Runs(signal))
      /\ UNCHANGED <<config, pc, struct, on_destroy, linked, globals, failed, bound, late, surface>>
  BY DEF weston_signal, memory
<1>2. NothingFreedIsUsed'
  BY <1>1, RunsLive, Uses
<1> QED
  BY <1>1, <1>2, PlainEvents

LEMMA SeatEvents == ASSUME MInv, NEW t \in Seats, seat_created(t) \/ seat_destroyed(t) PROVE MInv'
<1>1. UNCHANGED <<config, pc, struct, on_destroy, globals, failed, bound, late, surface>>
  BY DEF seat_created, seat_destroyed
<1>2. CASE seat_created(t) /\ "input" \notin Runs("seat_created")
  <2>1. UNCHANGED <<linked, used>>
    BY <1>2 DEF seat_created
  <2> QED
    BY <1>1, <2>1, UsesNothing, PlainEvents
<1>3. CASE seat_created(t) /\ "input" \in Runs("seat_created")
  <2>1. linked' = linked \cup SeatListeners({t}) /\ Use({"input"} \cup AcceptedIf(t = DefaultSeat))
    BY <1>3 DEF seat_created
  <2>2. struct["input"] = "live"
    BY <1>3, RunsLive
  <2>3. NothingFreedIsUsed'
    BY <1>1, <2>1, <2>2, Uses DEF AcceptedIf, Accepted
  <2>4. \A l \in linked' : l \in linked \/ l[2] = "input"
    BY <2>1 DEF SeatListeners
  <2> QED
    BY <1>1, <2>2, <2>3, <2>4, Events DEF MInv, Sound, MTypes, Bound
<1>4. CASE seat_destroyed(t)
  <2>1. linked' = linked \ SeatListeners({t}) /\ Use(Runs(t) \cup AcceptedIf(Runs(t) # {}))
    BY <1>4 DEF seat_destroyed
  <2>2. NothingFreedIsUsed'
    BY <1>1, <2>1, RunsLive, Uses DEF AcceptedIf, Accepted
  <2> QED
    BY <1>1, <2>1, <2>2, PlainEvents
<1> QED
  BY <1>2, <1>3, <1>4

LEMMA SurfaceEvents == ASSUME MInv, surface_created \/ surface_removed PROVE MInv'
<1>1. UNCHANGED <<config, pc, struct, on_destroy, linked, globals, failed, bound, late>>
  BY DEF surface_created, surface_removed, memory
<1>2. surface' # "found"
  BY DEF surface_created, surface_removed
<1>3. CASE surface_created
  <2>1. ASSUME "shell" \in Runs("create_surface") PROVE NothingFreedIsUsed'
    <3>1. Use({"shell"} \cup Runs("id_allocation_request") \cup Runs("ivisurface_created"))
      BY <1>3, <2>1 DEF surface_created
    <3> QED
      BY <1>1, <2>1, <3>1, RunsLive, Uses
  <2>2. ASSUME "shell" \notin Runs("create_surface") PROVE NothingFreedIsUsed'
    <3>1. Use({})
      BY <1>3, <2>2 DEF surface_created
    <3> QED
      BY <1>1, <3>1, Uses
  <2>3. NothingFreedIsUsed'
    BY <2>1, <2>2
  <2> QED
    BY <1>1, <1>2, <2>3, PlainEvents
<1>4. CASE surface_removed
  <2> DEFINE told == IF "shell" \in Runs("remove_surface") /\ Runs("ivisurface_removed") # {}
                     THEN {"input", Accepted} ELSE {}
  <2>1. Use(Runs("remove_surface") \cup told)
    BY <1>4 DEF surface_removed
  <2>2. "input" \in told => struct["input"] = "live"
    BY DEF MInv, Sound, Linked, Runs
  <2>3. NothingFreedIsUsed'
    BY <1>1, <2>1, <2>2, RunsLive, Uses DEF Accepted
  <2> QED
    BY <1>1, <1>2, <2>3, PlainEvents
<1> QED
  BY <1>3, <1>4

\* Clients come while there is a global, and leave when they like.
LEMMA ClientEvents ==
    ASSUME MInv, NEW c \in Clients,
           \/ \E g \in {"ivi_wm", "ivi_input"} : bind(g, c)
           \/ controller_surface_sync(c) \/ unbind_resource_controller(c)
    PROVE  MInv'
<1>1. UNCHANGED <<config, pc, struct, on_destroy, linked, globals, failed, surface>>
  BY DEF bind, controller_surface_sync, unbind_resource_controller, memory
<1>2. ASSUME NEW g \in {"ivi_wm", "ivi_input"}, bind(g, c) PROVE MInv'
  <2>1. /\ pc = "run" /\ g \in globals /\ late' = late
        /\ bound' = [bound EXCEPT ![g] = @ \cup {c}]
        /\ Use(IF g = "ivi_wm" THEN {"shell"} ELSE {"input", Accepted})
    BY <1>2 DEF bind
  <2>2. /\ struct["shell"] = "live"
        /\ g = "ivi_input" => struct["input"] = "live"
    BY <2>1 DEF MInv, Sound, Loading, Steps
  <2>3. NothingFreedIsUsed'
    <3>1. CASE g = "ivi_wm"
      BY <1>1, <2>1, <2>2, <3>1, Uses
    <3>2. CASE g = "ivi_input"
      BY <1>1, <2>1, <2>2, <3>2, Uses DEF Accepted
    <3> QED
      BY <3>1, <3>2
  <2>4. /\ bound' \in [{"ivi_wm", "ivi_input"} -> SUBSET Clients]
        /\ bound'["ivi_input"] # {} => struct["input"] = "live"
    BY <2>1, <2>2 DEF MInv, Sound, MTypes, Bound
  <2> QED
    BY <1>1, <2>1, <2>2, <2>3, <2>4, Events DEF MInv, Sound, MTypes, Steps
<1>3. CASE controller_surface_sync(c)
  <2>1. pc = "run" /\ UNCHANGED <<late, bound>> /\ Use({"shell"})
    BY <1>3 DEF controller_surface_sync
  <2>2. struct["shell"] = "live"
    BY <2>1 DEF MInv, Sound, Loading, Steps
  <2>3. NothingFreedIsUsed'
    BY <1>1, <2>1, <2>2, Uses
  <2> QED
    BY <1>1, <2>1, <2>3, PlainEvents
<1>4. CASE unbind_resource_controller(c)
  <2> DEFINE S == {s \in {"shell"} : c \in bound["ivi_wm"]}
                     \cup {s \in {"input"} : c \in bound["ivi_input"]}
  <2>1. /\ bound' = [g \in DOMAIN bound |-> bound[g] \ {c}]
        /\ late' = (late \/ (c \in bound["ivi_wm"] /\ struct["shell"] = "freed"))
        /\ Use(S)
    BY <1>4 DEF unbind_resource_controller
  <2>2. /\ "input" \in S => struct["input"] = "live"
        /\ "shell" \in S => struct["shell"] = "live" \/ late'
    BY <2>1 DEF MInv, Sound, MTypes, Bound, Structs
  <2>3. late' \in BOOLEAN /\ (late => late')
    BY <2>1 DEF MInv, Sound, MTypes
  <2>4. "agent" \notin S
    OBVIOUS
  <2>5. NothingFreedIsUsed'
    <3> HIDE DEF S
    <3> QED
      BY <1>1, <2>1, <2>2, <2>3, <2>4, Uses
  <2>6. /\ bound' \in [{"ivi_wm", "ivi_input"} -> SUBSET Clients]
        /\ bound'["ivi_input"] \subseteq bound["ivi_input"]
        /\ bound'["ivi_wm"] \subseteq bound["ivi_wm"]
    BY <2>1 DEF MInv, Sound, MTypes
  <2>7. pc \in Steps => bound' = bound
    <3>1. ASSUME pc \in Steps PROVE bound' = bound
      <4>1. bound["ivi_wm"] = {} /\ bound["ivi_input"] = {}
        BY <3>1 DEF MInv, Sound, Loading
      <4> QED
        BY <2>1, <4>1 DEF MInv, Sound, MTypes
    <3> QED
      BY <3>1
  <2> QED
    BY <1>1, <2>3, <2>5, <2>6, <2>7, Events DEF MInv, Sound, Bound
<1> QED
  BY <1>2, <1>3, <1>4

\* The HMI client, while weston runs.
LEMMA HmiEvents == ASSUME MInv, launch_client_process \/ ivi_shell_client_destroy PROVE MInv'
<1>1. /\ pc = "run" /\ Use({"shell"})
      /\ UNCHANGED <<config, pc, struct, on_destroy, linked, globals, failed, bound, late, surface>>
  BY DEF launch_client_process, ivi_shell_client_destroy, memory
<1>2. struct["shell"] = "live"
  BY <1>1 DEF MInv, Sound, Loading, Steps
<1>3. NothingFreedIsUsed'
  BY <1>1, <1>2, Uses
<1> QED
  BY <1>1, <1>3, PlainEvents

-----------------------------------------------------------------------------
(* Shutdown.                                                               *)

\* Weston goes from one part of its life to the next.
LEMMA Stops ==
    ASSUME MInv, pc \in {"run", "stop"}, pc' \in {"stop", "off"},
           UNCHANGED <<config, struct, on_destroy, linked, globals, surface, bound, late,
                       used, failed>>
    PROVE  MInv'
<1> USE DEF MInv, Sound
<1>1. MTypes' /\ Linked' /\ Bound'
  BY DEF MTypes, Linked, Bound
<1>2. Ordered' /\ Loading'
  BY DEF Ordered, Listed, Loading, Steps
<1>3. NothingFreedIsUsed'
  BY UsesNothing
<1> QED
  BY <1>1, <1>2, <1>3

\* A listener of the destroy_signal runs and frees its struct x: of that
\* nothing is left, and the shell comes last.
LEMMA Unloads ==
    ASSUME MInv, pc = "stop", on_destroy # <<>>, NEW x \in Structs, x = Head(on_destroy),
           Free({x}), on_destroy' = Tail(on_destroy),
           linked' = {l \in linked : l[2] # x},
           bound' \in [{"ivi_wm", "ivi_input"} -> SUBSET Clients],
           bound'["ivi_input"] # {} => bound["ivi_input"] # {} /\ x # "input",
           bound'["ivi_wm"] = bound["ivi_wm"],
           UNCHANGED <<config, pc, globals, surface, late, failed>>,
           NothingFreedIsUsed'
    PROVE  MInv'
<1> USE DEF MInv, Sound
<1>1. /\ struct' \in [Structs -> {"none", "live", "freed"}]
      /\ struct'[x] = "freed" /\ \A y \in Structs \ {x} : struct'[y] = struct[y]
  BY DEF Free, MTypes
<1>2. /\ on_destroy' \in Orders /\ (x = "shell" => on_destroy' = <<>>)
      /\ \A y \in Structs : Listed(y)' => Listed(y) /\ y # x
  BY FirstLeaves DEF Ordered
<1>3. MTypes'
  BY <1>1 DEF MTypes
<1>4. Linked'
  BY <1>1 DEF Linked
<1>5. struct["shell"] = "freed" => failed
  BY DEF Ordered
<1>6. Ordered'
  BY <1>1, <1>2, <1>5 DEF Ordered, Structs
<1>7. Loading'
  BY DEF Loading, Steps
<1>8. Bound'
  BY <1>1 DEF Bound, Structs
<1> QED
  BY <1>3, <1>4, <1>6, <1>7, <1>8

LEMMA EmitDestroy == ASSUME MInv, emit_destroy PROVE MInv'
<1> USE DEF MInv, Sound
<1>1. pc = "stop" /\ UNCHANGED <<config, globals, surface, late, failed>>
  BY DEF emit_destroy
<1>2. CASE on_destroy = <<>>
  BY <1>1, <1>2, Stops DEF emit_destroy
<1>3. CASE on_destroy # <<>>
  <2>1. /\ Head(on_destroy) \in Structs /\ Listed(Head(on_destroy)) /\ pc' = pc
    BY <1>3, FirstListed DEF emit_destroy, Ordered
  <2>2. struct["shell"] = "live" \/ failed
    BY <1>1, <1>3 DEF Ordered, MTypes, Structs, Steps
  <2>3. CASE Head(on_destroy) = "input" /\ input_controller_destroy
    <3>1. /\ Free({"input"}) /\ on_destroy' = Tail(on_destroy)
          /\ linked' = {l \in linked : l[2] # "input"}
          /\ bound' = [bound EXCEPT !["ivi_input"] = {}] /\ destroy_input_context
      BY <2>3 DEF input_controller_destroy, destroy_input_context, Detached
    <3>2. struct["input"] = "live"
      BY <2>1, <2>3 DEF Ordered
    <3>3. NothingFreedIsUsed'
      BY <1>1, <2>2, <3>1, <3>2, ContextUses DEF MTypes
    <3>4. /\ bound' \in [{"ivi_wm", "ivi_input"} -> SUBSET Clients]
          /\ bound'["ivi_input"] = {} /\ bound'["ivi_wm"] = bound["ivi_wm"]
      BY <3>1 DEF MTypes
    <3> QED
      BY <1>1, <1>3, <2>1, <2>3, <3>1, <3>3, <3>4, Unloads
  <2>4. CASE Head(on_destroy) = "agent" /\ id_agent_module_deinit
    <3>1. /\ Free({"agent"}) /\ on_destroy' = Tail(on_destroy) /\ Use({"agent", "shell"})
          /\ linked' = {l \in linked : l[2] # "agent"} /\ bound' = bound
      BY <2>4 DEF id_agent_module_deinit
    <3>2. struct["agent"] = "live"
      BY <2>1, <2>4 DEF Ordered
    <3>3. NothingFreedIsUsed'
      BY <1>1, <2>2, <3>1, <3>2, Uses
    <3> QED
      BY <1>1, <1>3, <2>1, <2>4, <3>1, <3>3, Unloads DEF MTypes
  <2>5. CASE Head(on_destroy) = "shell" /\ ivi_shell_destroy
    <3>1. /\ Free({"shell"}) /\ on_destroy' = Tail(on_destroy) /\ Use({"shell"})
          /\ linked' = {l \in linked : l[2] # "shell"} /\ bound' = bound
      BY <2>5 DEF ivi_shell_destroy
    <3>2. NothingFreedIsUsed'
      BY <1>1, <2>2, <3>1, Uses
    <3> QED
      BY <1>1, <1>3, <2>1, <2>5, <3>1, <3>2, Unloads DEF MTypes
  <2> QED
    BY <1>3, <2>1, <2>3, <2>4, <2>5 DEF emit_destroy, Structs
<1> QED
  BY <1>2, <1>3

-----------------------------------------------------------------------------

LEMMA ModulesInit == Init => MInv
<1> SUFFICES ASSUME Init PROVE MInv
  OBVIOUS
<1>1. MTypes
  BY DEF Init, MTypes, Steps
<1>2. Linked
  BY DEF Init, Linked
<1>3. Ordered
  BY DEF Init, Ordered, Orders, ModulesOrders, Listed, Structs
<1>4. Loading /\ Bound
  BY DEF Init, Loading, Bound, Steps, Structs, ModulesOrders
<1>5. NothingFreedIsUsed
  BY DEF Init, NothingFreedIsUsed
<1> QED
  BY <1>1, <1>2, <1>3, <1>4, <1>5 DEF MInv, Sound

LEMMA ModulesUnchanged == ASSUME MInv, UNCHANGED vars PROVE MInv'
<1>1. UNCHANGED <<config, pc, struct, on_destroy, linked, globals, failed, bound, late, surface, used>>
  BY DEF vars, memory, weston
<1> QED
  BY <1>1, UsesNothing, PlainEvents

LEMMA ModulesNext == MInv /\ [Next]_vars => MInv'
<1> SUFFICES ASSUME MInv, [Next]_vars PROVE MInv'
  OBVIOUS
<1>1. CASE wet_module_init
  BY <1>1, ShellLoads, ServerStarts, InputLoads, InputGlobal, IdleAdded, AgentLoads, ShellListens
  DEF wet_module_init
<1>2. CASE \E signal \in OutputSignals \cup (LayoutSignals \ {"create_surface", "remove_surface"}) :
              weston_signal(signal)
  BY <1>2, WestonSignal
<1>3. CASE \E t \in Seats : seat_created(t) \/ seat_destroyed(t)
  BY <1>3, SeatEvents
<1>4. CASE surface_created \/ surface_removed
  BY <1>4, SurfaceEvents
<1>5. CASE \E c \in Clients : \/ \E g \in {"ivi_wm", "ivi_input"} : bind(g, c)
                            \/ controller_surface_sync(c) \/ unbind_resource_controller(c)
  BY <1>5, ClientEvents
<1>6. CASE launch_client_process \/ ivi_shell_client_destroy
  BY <1>6, HmiEvents
<1>7. CASE shutdown
  <2>1. /\ pc = "run" /\ pc' = "stop"
        /\ UNCHANGED <<config, struct, on_destroy, linked, globals, surface, bound, late,
                       used, failed>>
    BY <1>7 DEF shutdown, weston
  <2> QED
    BY <2>1, Stops
<1>8. CASE emit_destroy
  BY <1>8, EmitDestroy
<1>9. CASE Finished \/ UNCHANGED vars
  BY <1>9, ModulesUnchanged DEF Finished
<1> QED
  BY <1>1, <1>2, <1>3, <1>4, <1>5, <1>6, <1>7, <1>8, <1>9 DEF Next

\* No handler uses a struct that is freed, or not allocated yet, but for the
\* three exceptions the property names, for any number of clients and seats and
\* any order of events (wet_module_init, input_controller_deinit,
\* id_agent_module_deinit, ivi_shell_destroy).
THEOREM NothingFreedIsEverUsed == Spec => []NothingFreedIsUsed
<1>1. MInv => NothingFreedIsUsed
  BY DEF MInv
<1> QED
  BY <1>1, ModulesInit, ModulesNext, PTL DEF Spec

-----------------------------------------------------------------------------
(* The id agent.                                                           *)


\* The elements name different ids.
SectionsDiffer ==
    \A j, k \in DOMAIN app_list : app_list[j].surface_id = app_list[k].surface_id => j = k

\* No element names an id of the interval, and ids are handed out upwards.
IntervalApart ==
    /\ \A k \in DOMAIN app_list :
          ~(first <= app_list[k].surface_id /\ app_list[k].surface_id <= default_surface_id_max)
    /\ first <= default_surface_id

\* The type, with the limit of an interval that is in use an id.
Typed ==
    /\ agent \in BOOLEAN /\ default_behavior_set \in BOOLEAN
    /\ first \in Nat
    /\ default_surface_id \in Ids \cup {Invalid}
    /\ default_surface_id_max \in Ids \cup {Invalid}
    /\ default_behavior_set => default_surface_id_max \in Ids
    /\ \A k \in DOMAIN app_list : app_list[k].surface_id \in Ids
    /\ id \in [Surfaces -> Ids \cup {Invalid, Absent}]
    /\ app \in [Surfaces -> Apps \cup {Null}]
    /\ DOMAIN app_list \subseteq Nat

\* Only desktop surfaces have an application, and only while they live.
LivingApps == \A s \in Surfaces : id[s] = Absent => app[s] = Null

Reserved ==
    \A k \in DOMAIN app_list, s \in Surfaces :
        id[s] = app_list[k].surface_id /\ app[s] # Null => app[s] \in app_list[k].apps

IInv == Typed /\ SectionsDiffer /\ IntervalApart /\ LivingApps /\ Reserved

\* What the configuration is turned into satisfies the three facts.
LEMMA ConfigRead ==
    ASSUME IInv, id_agent_module_init
    PROVE  IInv'
<1>1. PICK file \in Files :
        LET given == file.default # <<>>
            from  == IF given THEN file.default[1] ELSE 0
            to    == IF given THEN file.default[2] ELSE 0
            set   == given /\ from # Invalid /\ to # Invalid
        IN  /\ \A k \in DOMAIN file.apps : SectionIsValid(file.apps, k, from, to)
            /\ default_behavior_set' = set
            /\ default_surface_id' = from /\ default_surface_id_max' = to /\ first' = from
            /\ app_list' = Reverse([k \in DOMAIN file.apps |->
                              [surface_id |-> file.apps[k].surface_id,
                               apps |-> file.apps[k].apps, layout_surface |-> Null]])
    BY DEF id_agent_module_init
<1> DEFINE from == IF file.default # <<>> THEN file.default[1] ELSE 0
           to   == IF file.default # <<>> THEN file.default[2] ELSE 0
           n    == Len(file.apps)
           at(k) == (n - k) + 1
<1>2. /\ \A k \in DOMAIN file.apps : SectionIsValid(file.apps, k, from, to)
      /\ default_surface_id' = from /\ default_surface_id_max' = to /\ first' = from
      /\ app_list' = Reverse([k \in DOMAIN file.apps |->
                        [surface_id |-> file.apps[k].surface_id,
                         apps |-> file.apps[k].apps, layout_surface |-> Null]])
    BY <1>1
<1>3. file \in File
    BY AgentAssumption
<1>4. /\ file.apps \in Seq(Section) /\ n \in Nat /\ DOMAIN file.apps = 1 .. n
      /\ from \in Nat /\ to \in Nat
    BY <1>3, AgentAssumption DEF File, Ids, Invalid
<1>5. /\ DOMAIN app_list' = 1 .. n
      /\ \A k \in 1 .. n : /\ at(k) \in 1 .. n
                           /\ app_list'[k].surface_id = file.apps[at(k)].surface_id
    BY <1>2, <1>4 DEF Reverse
<1>6. ASSUME NEW k \in 1 .. n
      PROVE  /\ file.apps[k].surface_id \in Ids
             /\ ~(from <= file.apps[k].surface_id /\ file.apps[k].surface_id <= to)
             /\ \A j \in 1 .. k - 1 : file.apps[j].surface_id # file.apps[k].surface_id
    <2>1. file.apps[k] \in Section /\ SectionIsValid(file.apps, k, from, to)
        BY <1>2, <1>4
    <2> QED BY <2>1 DEF SectionIsValid, check_config, Section
<1>7. SectionsDiffer'
    <2> SUFFICES ASSUME NEW j \in 1 .. n, NEW k \in 1 .. n,
                        app_list'[j].surface_id = app_list'[k].surface_id
                 PROVE  j = k
        BY <1>5 DEF SectionsDiffer
    <2>1. file.apps[at(j)].surface_id = file.apps[at(k)].surface_id
        BY <1>5
    <2>2. at(j) \in 1 .. n /\ at(k) \in 1 .. n
        BY <1>5
    <2> HIDE DEF at
    <2>3. ~(at(j) < at(k)) /\ ~(at(k) < at(j))
        <3>1. ASSUME NEW x \in 1 .. n, NEW y \in 1 .. n, x < y
              PROVE  file.apps[x].surface_id # file.apps[y].surface_id
            <4>1. x \in 1 .. y - 1
                BY <1>4, <3>1
            <4> QED BY <1>6, <4>1
        <3> QED BY <2>1, <2>2, <3>1
    <2>4. at(j) = at(k)
        BY <1>4, <2>2, <2>3
    <2> QED BY <1>4, <2>4 DEF at
<1>8. IntervalApart'
    <2>1. first' = from /\ default_surface_id' = from /\ default_surface_id_max' = to
        BY <1>2
    <2>2. ASSUME NEW k \in 1 .. n
          PROVE  ~(from <= app_list'[k].surface_id /\ app_list'[k].surface_id <= to)
        BY <1>5, <1>6
    <2> QED BY <1>4, <1>5, <2>1, <2>2 DEF IntervalApart
<1>10. Typed'
    <2>1. /\ agent' = TRUE
          /\ default_behavior_set' = (file.default # <<>> /\ from # Invalid /\ to # Invalid)
          /\ UNCHANGED <<id, app>>
        BY <1>1 DEF id_agent_module_init
    <2>2. \A k \in 1 .. n : app_list'[k].surface_id \in Ids
        BY <1>5, <1>6
    <2>3. from \in Ids \cup {Invalid} /\ to \in Ids \cup {Invalid}
        BY <1>3, AgentAssumption DEF File, Ids
    <2>4. agent' \in BOOLEAN /\ default_behavior_set' \in BOOLEAN
        BY <2>1
    <2>5. default_behavior_set' => to \in Ids
        BY <2>1, <2>3
    <2>6. /\ first' \in Nat
          /\ default_surface_id' \in Ids \cup {Invalid}
          /\ default_surface_id_max' \in Ids \cup {Invalid}
          /\ default_behavior_set' => default_surface_id_max' \in Ids
        BY <1>2, <1>4, <2>3, <2>5
    <2>7. /\ \A k \in DOMAIN app_list' : app_list'[k].surface_id \in Ids
          /\ DOMAIN app_list' \subseteq Nat
        BY <1>4, <1>5, <2>2
    <2>8. /\ id' \in [Surfaces -> Ids \cup {Invalid, Absent}]
          /\ app' \in [Surfaces -> Apps \cup {Null}]
        BY <2>1 DEF Typed, IInv
    <2> QED BY <2>4, <2>6, <2>7, <2>8 DEF Typed
<1>9. LivingApps' /\ Reserved'
    BY DEF IInv, LivingApps, Reserved, id_agent_module_init
<1> QED BY <1>7, <1>8, <1>9, <1>10 DEF IInv

\* get_id keeps the facts: an id of an element goes to an application of the
\* element, which is the only one with that id, and an id of the interval belongs
\* to no element.
LEMMA IdAllocated ==
    ASSUME IInv, NEW s \in Surfaces, NEW a \in Apps, id_allocation_event_request(s, a)
    PROVE  IInv'
<1> USE DEF IInv, id_allocation_event_request, agentConfig
<1>1. CASE get_id_from_config(s, a)
    <2>1. PICK k \in Usable(a) :
            /\ id' = [id EXCEPT ![s] = app_list[k].surface_id]
            /\ app_list' = [app_list EXCEPT ![k].layout_surface = s]
            /\ UNCHANGED default_surface_id
        BY <1>1 DEF get_id_from_config
    <2>2. k \in DOMAIN app_list /\ a \in app_list[k].apps
        BY DEF Usable
    <2>3. /\ DOMAIN app_list' = DOMAIN app_list
          /\ \A j \in DOMAIN app_list : /\ app_list'[j].surface_id = app_list[j].surface_id
                                        /\ app_list'[j].apps = app_list[j].apps
        BY <2>1
    <2> QED
        BY <2>1, <2>2, <2>3, AgentAssumption
        DEF Typed, SectionsDiffer, IntervalApart, LivingApps, Reserved
<1>2. CASE DefaultUsable /\ TakeDefault(s)
    <2>1. /\ default_surface_id < default_surface_id_max
          /\ default_surface_id \in Ids /\ default_surface_id + 1 \in Ids
          /\ first \in Nat /\ first <= default_surface_id
        BY <1>2, AgentAssumption DEF DefaultUsable, Typed, IntervalApart, Ids, Invalid
    <2>2. ASSUME NEW k \in DOMAIN app_list
          PROVE  app_list[k].surface_id # default_surface_id
        <3>1. ~(first <= app_list[k].surface_id
                  /\ app_list[k].surface_id <= default_surface_id_max)
            BY <2>2 DEF IntervalApart
        <3>2. default_surface_id_max \in Nat /\ default_surface_id \in Nat
            BY <2>1, AgentAssumption DEF Typed, Ids, Invalid
        <3> QED BY <2>1, <3>1, <3>2
    <2>3. /\ id' = [id EXCEPT ![s] = default_surface_id]
          /\ default_surface_id' = default_surface_id + 1
          /\ UNCHANGED <<app_list, first, default_surface_id_max, default_behavior_set, agent>>
          /\ app' = [app EXCEPT ![s] = a]
        BY <1>2 DEF TakeDefault
    <2>4. Typed' /\ LivingApps'
        BY <2>1, <2>3, AgentAssumption DEF Typed, LivingApps, Ids, Invalid
    <2>5. SectionsDiffer' /\ IntervalApart'
        BY <2>1, <2>3 DEF SectionsDiffer, IntervalApart, Ids
    <2>6. Reserved'
        BY <2>2, <2>3 DEF Reserved, Typed
    <2> QED BY <2>4, <2>5, <2>6
<1>3. CASE NoId(s)
    BY <1>3, AgentAssumption
    DEF NoId, Typed, SectionsDiffer, IntervalApart, LivingApps, Reserved, Ids, Invalid
<1> QED BY <1>1, <1>2, <1>3

\* A surface of an ivi application has no application of the sections.
LEMMA IviSurface ==
    ASSUME IInv, NEW s \in Surfaces, NEW i \in Ids, ivi_surface_created(s, i)
    PROVE  IInv'
BY AgentAssumption
DEF IInv, ivi_surface_created, agentConfig, Typed, SectionsDiffer, IntervalApart, LivingApps,
    Reserved, Ids, Invalid

\* Forgetting a surface leaves the sections as they are.
LEMMA SurfaceRemoved ==
    ASSUME IInv, NEW s \in Surfaces, surface_event_remove(s)
    PROVE  IInv'
<1>1. /\ DOMAIN app_list' = DOMAIN app_list
      /\ \A k \in DOMAIN app_list : /\ app_list'[k].surface_id = app_list[k].surface_id
                                    /\ app_list'[k].apps = app_list[k].apps
    BY DEF surface_event_remove, Released
<1>2. /\ id' = [id EXCEPT ![s] = Absent] /\ app' = [app EXCEPT ![s] = Null]
      /\ UNCHANGED <<agent, default_behavior_set, default_surface_id_max, first, default_surface_id>>
    BY DEF surface_event_remove, agentConfig
<1>3. Typed'
    BY <1>1, <1>2 DEF IInv, Typed
<1>4. SectionsDiffer' /\ IntervalApart' /\ LivingApps' /\ Reserved'
    BY <1>1, <1>2 DEF IInv, Typed, SectionsDiffer, IntervalApart, LivingApps, Reserved
<1> QED BY <1>3, <1>4 DEF IInv

LEMMA AgentStarts == AgentInit => IInv
<1> SUFFICES ASSUME AgentInit PROVE IInv
    OBVIOUS
<1>1. DOMAIN app_list = {}
    BY DEF AgentInit
<1>2. Typed
    <2>1. 0 \in Ids
        BY AgentAssumption DEF Ids
    <2>2. /\ id \in [Surfaces -> Ids \cup {Invalid, Absent}]
          /\ app \in [Surfaces -> Apps \cup {Null}]
        BY DEF AgentInit
    <2> QED BY <1>1, <2>1, <2>2 DEF AgentInit, Typed
<1>3. SectionsDiffer /\ IntervalApart /\ Reserved
    BY <1>1 DEF AgentInit, SectionsDiffer, IntervalApart, Reserved
<1>4. LivingApps
    BY DEF AgentInit, LivingApps
<1> QED BY <1>2, <1>3, <1>4 DEF IInv

LEMMA AgentSteps == IInv /\ [AgentNext]_agentVars => IInv'
<1> SUFFICES ASSUME IInv, [AgentNext]_agentVars PROVE IInv'
    OBVIOUS
<1>1. CASE id_agent_module_init
    BY <1>1, ConfigRead
<1>2. ASSUME NEW s \in Surfaces, NEW a \in Apps, id_allocation_event_request(s, a)
      PROVE  IInv'
    BY <1>2, IdAllocated
<1>3. ASSUME NEW s \in Surfaces, NEW i \in Ids, ivi_surface_created(s, i)
      PROVE  IInv'
    BY <1>3, IviSurface
<1>4. ASSUME NEW s \in Surfaces, surface_event_remove(s)
      PROVE  IInv'
    BY <1>4, SurfaceRemoved
<1>5. CASE UNCHANGED agentVars
    BY <1>5 DEF agentVars, agentConfig, IInv, Typed, SectionsDiffer, IntervalApart, LivingApps, Reserved
<1> QED BY <1>1, <1>2, <1>3, <1>4, <1>5 DEF AgentNext

\* The inductive invariant.
THEOREM AgentInvariant == AgentSpec => []IInv
BY AgentStarts, AgentSteps, PTL DEF AgentSpec

\* In every reachable state a reserved id is only held by a desktop application
\* that its section matches.
THEOREM ReservedAlways == AgentSpec => []ReservedForTheirApps
<1>1. IInv => ReservedForTheirApps
    BY DEF IInv, Reserved, ReservedForTheirApps, Elements
<1> QED BY <1>1, AgentInvariant, PTL

\* An id of the interval is given once, because the next one only grows and no
\* section can give it.
THEOREM DefaultIdsFreshAlways == AgentSpec => DefaultIdsAreFresh
<1> DEFINE Fresh == \A s \in Surfaces :
                Allocated(s) /\ id'[s] \in first .. default_surface_id_max - 1
                    => id'[s] >= default_surface_id /\ default_surface_id' > id'[s]
<1>1. IInv /\ [AgentNext]_agentVars => [Fresh]_agentVars
    <2> SUFFICES ASSUME IInv, AgentNext, NEW s \in Surfaces, Allocated(s),
                        id'[s] \in first .. default_surface_id_max - 1
                 PROVE  id'[s] >= default_surface_id /\ default_surface_id' > id'[s]
        BY DEF Allocated
    <2>1. ASSUME NEW t \in Surfaces, NEW a \in Apps, id_allocation_event_request(t, a)
          PROVE  id'[s] >= default_surface_id /\ default_surface_id' > id'[s]
        <3>1. s = t
            BY <2>1 DEF Allocated, id_allocation_event_request, IInv, LivingApps, Typed
        <3>2. CASE TakeDefault(t)
            BY <3>1, <3>2 DEF TakeDefault, IInv, Typed, IntervalApart, Ids, Invalid
        <3>3. CASE NoId(t)
            BY <3>1, <3>3, AgentAssumption DEF NoId, IInv, Typed, Ids, Invalid
        <3>4. CASE get_id_from_config(t, a)
            BY <3>1, <3>4, AgentAssumption
            DEF get_id_from_config, Usable, IInv, Typed, IntervalApart, Ids, Invalid
        <3> QED BY <2>1, <3>2, <3>3, <3>4 DEF id_allocation_event_request
    <2>2. \A t \in Surfaces, i \in Ids : ~ivi_surface_created(t, i)
        BY DEF Allocated, ivi_surface_created, IInv, LivingApps
    <2>3. \A t \in Surfaces : ~surface_event_remove(t)
        BY DEF Allocated, surface_event_remove, IInv, LivingApps, Typed
    <2>4. ~id_agent_module_init
        BY DEF Allocated, id_agent_module_init, IInv, LivingApps
    <2> QED BY <2>1, <2>2, <2>3, <2>4 DEF AgentNext
<1>2. AgentSpec => [][Fresh]_agentVars
    BY <1>1, AgentInvariant, PTL DEF AgentSpec
<1> QED BY <1>2 DEF DefaultIdsAreFresh

-----------------------------------------------------------------------------
(* The elements and the surfaces they name.                                *)

Element == [surface_id : Ids, apps : SUBSET Apps, layout_surface : Surfaces \cup {Null}]

Named ==
    /\ \A k \in DOMAIN app_list :
          /\ app_list[k] \in Element
          /\ app_list[k].layout_surface # Null
                => id[app_list[k].layout_surface] = app_list[k].surface_id
    /\ ~agent => DOMAIN app_list = {}
    /\ \E n \in Nat : DOMAIN app_list = 1 .. n

\* No two surfaces have one id.
IdsDiffer == \A s, t \in Surfaces : id[s] = id[t] /\ id[s] \in Ids => s = t

\* An element that names a surface names the only one with the id of the
\* element, and elements differ in their ids (SectionsDiffer): so no surface is
\* named twice, and surface_event_remove, which stops at the first element of a
\* surface, leaves none behind.
NInv == IInv /\ Named /\ IdsDiffer

LEMMA ConfigNames ==
    ASSUME NInv, id_agent_module_init
    PROVE  Named' /\ IdsDiffer'
<1>1. PICK file \in Files :
        /\ \A k \in DOMAIN file.apps : file.apps[k].surface_id # Invalid
        /\ app_list' = Reverse([k \in DOMAIN file.apps |->
                          [surface_id |-> file.apps[k].surface_id,
                           apps |-> file.apps[k].apps, layout_surface |-> Null]])
    BY DEF id_agent_module_init, SectionIsValid
<1> DEFINE n == Len(file.apps)
           at(k) == (n - k) + 1
<1>2. /\ file.apps \in Seq(Section) /\ n \in Nat /\ DOMAIN file.apps = 1 .. n
    BY AgentAssumption DEF File
<1>3. /\ DOMAIN app_list' = 1 .. n
      /\ \A k \in 1 .. n :
            /\ at(k) \in 1 .. n
            /\ app_list'[k] = [surface_id |-> file.apps[at(k)].surface_id,
                               apps |-> file.apps[at(k)].apps, layout_surface |-> Null]
    BY <1>1, <1>2 DEF Reverse
<1>4. ASSUME NEW k \in 1 .. n
      PROVE  app_list'[k] \in Element /\ app_list'[k].layout_surface = Null
    <2>1. at(k) \in 1 .. n
        BY <1>3
    <2>2. file.apps[at(k)] \in Section /\ file.apps[at(k)].surface_id # Invalid
        BY <1>1, <1>2, <2>1
    <2>3. /\ file.apps[at(k)].surface_id \in Ids
          /\ file.apps[at(k)].apps \in SUBSET Apps
        BY <2>2 DEF Section
    <2>4. app_list'[k] = [surface_id |-> file.apps[at(k)].surface_id,
                          apps |-> file.apps[at(k)].apps, layout_surface |-> Null]
        BY <1>3
    <2> QED BY <2>3, <2>4 DEF Element
<1>5. Named'
    <2>1. agent' = TRUE
        BY DEF id_agent_module_init
    <2> HIDE DEF n
    <2> QED BY <1>2, <1>3, <1>4, <2>1 DEF Named
<1>6. IdsDiffer'
    BY DEF NInv, IdsDiffer, id_agent_module_init
<1> QED BY <1>5, <1>6

LEMMA NamesAllocated ==
    ASSUME NInv, NEW s \in Surfaces, NEW a \in Apps, id_allocation_event_request(s, a)
    PROVE  Named' /\ IdsDiffer'
<1> USE DEF NInv
<1>1. /\ id[s] = Absent /\ agent' = agent
      /\ Absent \notin Ids /\ Invalid \notin Ids
    BY AgentAssumption DEF id_allocation_event_request, agentConfig, Ids, Invalid
<1>2. \A k \in DOMAIN app_list : app_list[k].layout_surface # s
    BY <1>1, AgentAssumption DEF Named, Element
<1>3. CASE get_id_from_config(s, a)
    <2>1. PICK k \in Usable(a) :
            /\ id' = [id EXCEPT ![s] = app_list[k].surface_id]
            /\ app_list' = [app_list EXCEPT ![k].layout_surface = s]
        BY <1>3 DEF get_id_from_config
    <2>2. k \in DOMAIN app_list /\ ~InUse(app_list[k].surface_id)
        BY DEF Usable
    <2>3. /\ DOMAIN app_list' = DOMAIN app_list
          /\ \A j \in DOMAIN app_list : j # k => app_list'[j] = app_list[j]
        BY <2>1
    <2>4. app_list[k] \in Element
        BY <2>2 DEF Named
    <2>5. /\ app_list'[k] \in Element
          /\ app_list'[k].layout_surface = s
          /\ app_list'[k].surface_id = app_list[k].surface_id
        BY <2>1, <2>2, <2>4 DEF Element
    <2>6. id'[s] = app_list[k].surface_id
        BY <2>1 DEF IInv, Typed
    <2>7. \A t \in Surfaces : t # s => id'[t] = id[t]
        BY <2>1 DEF IInv, Typed
    <2>8. ASSUME NEW j \in DOMAIN app_list'
          PROVE  /\ app_list'[j] \in Element
                 /\ app_list'[j].layout_surface # Null
                      => id'[app_list'[j].layout_surface] = app_list'[j].surface_id
        <3>1. CASE j = k
            BY <2>5, <2>6, <3>1
        <3>2. CASE j # k
            BY <1>2, <2>3, <2>7, <3>2 DEF Named, Element
        <3> QED BY <3>1, <3>2
    <2>9. Named'
        BY <1>1, <2>3, <2>8 DEF Named
    <2>10. IdsDiffer'
        BY <2>2, <2>6, <2>7 DEF IdsDiffer, InUse
    <2> QED BY <2>9, <2>10
<1>4. CASE UNCHANGED app_list /\ \E i : (i \notin Ids \/ ~InUse(i)) /\ id' = [id EXCEPT ![s] = i]
    <2>1. PICK i : (i \notin Ids \/ ~InUse(i)) /\ id' = [id EXCEPT ![s] = i]
        BY <1>4
    <2>2. id'[s] = i /\ \A t \in Surfaces : t # s => id'[t] = id[t]
        BY <2>1 DEF IInv, Typed
    <2>3. Named'
        BY <1>1, <1>2, <1>4, <2>2 DEF Named, Element
    <2>4. IdsDiffer'
        BY <2>1, <2>2 DEF IdsDiffer, InUse
    <2> QED BY <2>3, <2>4
<1>5. get_id_from_config(s, a) \/ (DefaultUsable /\ TakeDefault(s)) \/ NoId(s)
    BY DEF id_allocation_event_request
<1> QED BY <1>1, <1>3, <1>4, <1>5 DEF TakeDefault, DefaultUsable, NoId

LEMMA NamesIvi ==
    ASSUME NInv, NEW s \in Surfaces, NEW i \in Ids, ivi_surface_created(s, i)
    PROVE  Named' /\ IdsDiffer'
<1> USE DEF NInv
<1>1. /\ id[s] = Absent /\ ~InUse(i) /\ id' = [id EXCEPT ![s] = i]
      /\ UNCHANGED <<app_list, agent>>
    BY DEF ivi_surface_created, agentConfig
<1>2. \A k \in DOMAIN app_list : app_list[k].layout_surface # s
    BY <1>1, AgentAssumption DEF Named, Element
<1>3. id'[s] = i /\ \A t \in Surfaces : t # s => id'[t] = id[t]
    BY <1>1 DEF IInv, Typed
<1>4. Named'
    BY <1>1, <1>2, <1>3 DEF Named, Element
<1>5. IdsDiffer'
    BY <1>1, <1>3 DEF IdsDiffer, InUse
<1> QED BY <1>4, <1>5

LEMMA NamesRemoved ==
    ASSUME NInv, NEW s \in Surfaces, surface_event_remove(s)
    PROVE  Named' /\ IdsDiffer'
<1> USE DEF NInv
<1>1. /\ id[s] # Absent /\ id' = [id EXCEPT ![s] = Absent]
      /\ agent' = agent /\ app_list' = Released(s)
    BY DEF surface_event_remove, agentConfig
<1>2. id'[s] = Absent /\ \A t \in Surfaces : t # s => id'[t] = id[t]
    BY <1>1 DEF IInv, Typed
<1>3. \A j, k \in DOMAIN app_list :
        app_list[j].layout_surface = s /\ app_list[k].layout_surface = s => j = k
    BY AgentAssumption DEF Named, IInv, SectionsDiffer
<1>4. DOMAIN app_list' = DOMAIN app_list
    BY <1>1 DEF Released
<1>5. ASSUME NEW k \in DOMAIN app_list
      PROVE  /\ app_list'[k] \in Element
             /\ app_list'[k].layout_surface # Null
                  => id'[app_list'[k].layout_surface] = app_list'[k].surface_id
    <2>1. app_list[k] \in Element
        BY DEF Named
    <2>2. CASE app_list[k].layout_surface = s
        <3>1. \A j \in 1 .. k - 1 : j \in DOMAIN app_list => app_list[j].layout_surface # s
            BY <1>3, <2>2 DEF IInv, Typed
        <3>2. \A j \in 1 .. k - 1 : j \in DOMAIN app_list
            <4>1. PICK n \in Nat : DOMAIN app_list = 1 .. n
                BY DEF Named
            <4> QED BY <4>1
        <3>3. app_list'[k] = [app_list[k] EXCEPT !.layout_surface = Null]
            BY <1>1, <2>2, <3>1, <3>2 DEF Released
        <3> QED BY <2>1, <3>3 DEF Element
    <2>3. CASE app_list[k].layout_surface # s
        <3>1. app_list'[k] = app_list[k]
            BY <1>1, <2>3 DEF Released
        <3> QED BY <1>2, <2>1, <2>3, <3>1 DEF Named, Element
    <2> QED BY <2>2, <2>3
<1>6. Named'
    BY <1>1, <1>4, <1>5 DEF Named
<1>7. IdsDiffer'
    BY <1>2, AgentAssumption DEF IdsDiffer
<1> QED BY <1>6, <1>7

\* Every surface an element names lives and has the element's id, it is named by
\* one element only, and ids differ: what the walk of get_id_from_config and the
\* unlinking of surface_event_remove keep together.
THEOREM AgentNames == AgentSpec => []NInv
<1>1. AgentInit => NInv
    <2>1. AgentInit => Named /\ IdsDiffer
        <3> SUFFICES ASSUME AgentInit PROVE Named /\ IdsDiffer
            OBVIOUS
        <3>1. DOMAIN app_list = {} /\ DOMAIN app_list = 1 .. 0
            BY DEF AgentInit
        <3>2. Named
            BY <3>1 DEF Named
        <3>3. IdsDiffer
            BY AgentAssumption DEF AgentInit, IdsDiffer
        <3> QED BY <3>2, <3>3
    <2> QED BY <2>1, AgentStarts DEF NInv
<1>2. NInv /\ [AgentNext]_agentVars => NInv'
    <2> SUFFICES ASSUME NInv, [AgentNext]_agentVars PROVE NInv'
        OBVIOUS
    <2>1. IInv'
        BY AgentSteps DEF NInv
    <2>2. CASE id_agent_module_init
        BY <2>1, <2>2, ConfigNames DEF NInv
    <2>3. ASSUME NEW s \in Surfaces, NEW a \in Apps, id_allocation_event_request(s, a)
          PROVE  NInv'
        BY <2>1, <2>3, NamesAllocated DEF NInv
    <2>4. ASSUME NEW s \in Surfaces, NEW i \in Ids, ivi_surface_created(s, i)
          PROVE  NInv'
        BY <2>1, <2>4, NamesIvi DEF NInv
    <2>5. ASSUME NEW s \in Surfaces, surface_event_remove(s)
          PROVE  NInv'
        BY <2>1, <2>5, NamesRemoved DEF NInv
    <2>6. CASE UNCHANGED agentVars
        BY <2>1, <2>6 DEF agentVars, agentConfig, NInv, Named, IdsDiffer
    <2> QED BY <2>2, <2>3, <2>4, <2>5, <2>6 DEF AgentNext
<1> QED BY <1>1, <1>2, PTL DEF AgentSpec

\* An element that names a surface names one that lives and has its id, in
\* whatever order applications come and go (get_id_from_config,
\* surface_event_remove).
THEOREM ElementsAlwaysName == AgentSpec => []ElementsNameTheirSurface
<1>1. NInv => ElementsNameTheirSurface
    BY DEF NInv, Named, ElementsNameTheirSurface, Elements
<1> QED BY <1>1, AgentNames, PTL

\* Every variable is of its type, and no two surfaces have one id, whichever of
\* the sections, the interval and the applications the ids come from.
THEOREM AgentTypes == AgentSpec => []TypeOK
<1>1. NInv => TypeOK
    <2> SUFFICES ASSUME NInv PROVE TypeOK
        OBVIOUS
    <2>1. \A e \in Elements : /\ e.surface_id \in Ids
                               /\ e.layout_surface \in Surfaces \cup {Null}
        BY DEF NInv, Named, Elements, Element
    <2> QED BY <2>1 DEF NInv, IInv, Typed, IdsDiffer, TypeOK
<1> QED BY <1>1, AgentNames, PTL

\* An application with a matching section whose id is free gets such an id: get_id
\* tries the sections one after another, and before the interval.
THEOREM SectionsAlwaysServe == AgentSpec => SectionsServe
<1> DEFINE Served == \A s \in Surfaces :
          Allocated(s) /\ (\E e \in Elements : app'[s] \in e.apps /\ ~InUse(e.surface_id))
            => \E e \in Elements : app'[s] \in e.apps /\ id'[s] = e.surface_id
<1>1. NInv /\ [AgentNext]_agentVars => [Served]_agentVars
    <2> SUFFICES ASSUME NInv, AgentNext, NEW s \in Surfaces, Allocated(s),
                        NEW e \in Elements, app'[s] \in e.apps, ~InUse(e.surface_id)
                 PROVE  \E f \in Elements : app'[s] \in f.apps /\ id'[s] = f.surface_id
        OBVIOUS
    <2> USE DEF NInv
    <2>1. ASSUME NEW t \in Surfaces, NEW a \in Apps, id_allocation_event_request(t, a)
          PROVE  \E f \in Elements : app'[s] \in f.apps /\ id'[s] = f.surface_id
        <3>1. s = t /\ app'[s] = a
            BY <2>1 DEF Allocated, id_allocation_event_request, IInv, LivingApps, Typed
        <3>2. PICK j \in DOMAIN app_list : e = app_list[j]
            BY DEF Elements
        <3>3. j \in Usable(a) /\ agent
            BY <3>1, <3>2 DEF Usable, Named
        <3>4. get_id_from_config(t, a)
            BY <2>1, <3>3 DEF id_allocation_event_request
        <3>5. PICK k \in Usable(a) : id' = [id EXCEPT ![t] = app_list[k].surface_id]
            BY <3>4 DEF get_id_from_config
        <3>6. app_list[k] \in Elements /\ a \in app_list[k].apps
            BY DEF Usable, Elements
        <3>7. id'[s] = app_list[k].surface_id
            BY <3>1, <3>5 DEF IInv, Typed
        <3> QED BY <3>1, <3>6, <3>7
    <2>2. \A t \in Surfaces, i \in Ids : ~ivi_surface_created(t, i)
        BY DEF Allocated, ivi_surface_created, IInv, LivingApps
    <2>3. \A t \in Surfaces : ~surface_event_remove(t)
        BY DEF Allocated, surface_event_remove, IInv, LivingApps, Typed
    <2>4. ~id_agent_module_init
        BY DEF Allocated, id_agent_module_init, IInv, LivingApps
    <2> QED BY <2>1, <2>2, <2>3, <2>4 DEF AgentNext
<1>2. AgentSpec => [][Served]_agentVars
    BY <1>1, AgentNames, PTL DEF AgentSpec
<1> QED BY <1>2 DEF SectionsServe
=============================================================================
