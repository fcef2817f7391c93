----------------------------- MODULE IviModules -----------------------------
(***************************************************************************)
(* Start-up and shutdown in the compositor: wet_module_init of             *)
(* ivi-controller, the ivi-input-controller and the ivi-id-agent it loads, *)
(* the listeners and globals they leave in weston, and how all of it is    *)
(* taken down again.                                                       *)
(*                                                                         *)
(* Three structs are allocated - struct ivishell, struct input_context and *)
(* struct ivi_id_agent - and weston keeps pointers into them: listeners in *)
(* its signals, the data of its globals, the links of resources.  used     *)
(* records which of them a handler has used while it was not allocated.    *)
(* Weston (external) emits its signals when it likes, also while it shuts  *)
(* down, and it destroys the clients before or after the shell.            *)
(***************************************************************************)
EXTENDS Naturals, Sequences

CONSTANTS Clients,      \* clients of ivi_wm and ivi_input
          Seats,        \* seats; one of them may be the default seat
          DefaultSeat,
          MaxEvents     \* bound on what happens besides loading and unloading

Structs == {"shell", "input", "agent"}
Accepted == "accepted_seat_list"

VARIABLES
    config,      \* what weston.ini asks for (modules, HMI client), and whether
                 \* there is a surface before the module is loaded
    pc,          \* the step of wet_module_init, then the life of weston
    struct,      \* whether each struct is allocated
    on_destroy,  \* the destroy_signal of weston's ivi-shell, in order
    linked,      \* listeners in other signals: <<signal, struct>>
    globals,     \* wl_globals: ivi_wm, ivi_input
    idle,        \* launch_client_process waits for the event loop
    hmi,         \* the HMI client runs
    seats,       \* seats of the compositor
    surface,     \* a surface of the shell: "none", "found" when the module was
                 \* loaded, or "created" later
    bound,       \* the clients bound to each global
    notified,    \* clients with a notification of the surface
    used,        \* structs used while they were not allocated
    late,        \* a client of ivi_wm has left after the shell was freed
    failed,      \* wet_module_init has failed
    events       \* bounded count

memory == <<struct, on_destroy, linked, globals, idle>>
weston == <<hmi, seats, surface, bound, notified, late, events>>
vars == <<config, pc, memory, weston, used, failed>>

LayoutSignals == {"create_layer", "remove_layer", "create_surface", "remove_surface",
                  "configure_surface", "configure_desktop_surface"}
OutputSignals == {"output_created", "output_destroyed", "output_resized"}
ShellSignals  == LayoutSignals \cup OutputSignals
InputSignals  == {"ivisurface_created", "ivisurface_removed", "seat_created"}
AgentSignals  == {"id_allocation_request", "remove_surface"}
By(signals, s) == {<<x, s>> : x \in signals}
SeatListeners(T) == {<<t, "input">> : t \in T}

\* A handler uses the structs S, or goes through the accepted_seat_list of the
\* surface, which only handle_surface_create makes a list.
Unsound(x) == IF x = Accepted THEN surface = "found" ELSE struct[x] # "live"
Use(S) == used' = used \cup {x \in S : Unsound(x)}
AcceptedIf(b) == {x \in {Accepted} : b}
\* The structs whose listeners a signal runs.
Runs(signal) == {l[2] : l \in {x \in linked : x[1] = signal}}

Init ==
    /\ config \in [input : BOOLEAN, agent : BOOLEAN, hmi : BOOLEAN, found : BOOLEAN]
    /\ pc = "shell"
    /\ struct = [s \in Structs |-> "none"]
    /\ on_destroy = <<>> /\ linked = {} /\ globals = {}
    /\ idle = FALSE /\ hmi = FALSE
    /\ seats \in SUBSET Seats
    /\ surface = IF config.found THEN "found" ELSE "none"
    /\ bound = [g \in {"ivi_wm", "ivi_input"} |-> {}]
    /\ notified = {}
    /\ used = {} /\ late = FALSE /\ failed = FALSE /\ events = 0

Allocate(s) == struct' = [struct EXCEPT ![s] = "live"]
Free(S) == struct' = [x \in Structs |-> IF x \in S THEN "freed" ELSE struct[x]]

-----------------------------------------------------------------------------
(* wet_module_init, step by step.                                          *)

\* The shell adopts the surfaces there are and listens to weston.
init_ivi_shell ==
    /\ pc = "shell"
    /\ Allocate("shell")
    /\ linked' = By(ShellSignals, "shell")
    /\ pc' = "server"
    /\ UNCHANGED <<config, on_destroy, globals, idle, weston, used, failed>>

\* The shell is freed and everything else stays as it is.
Fails ==
    /\ Free({"shell"})
    /\ pc' = "stop"
    /\ failed' = TRUE

setup_ivi_controller_server ==
    /\ pc = "server"
    /\ \/ /\ globals' = globals \cup {"ivi_wm"}
          /\ pc' = "input"
          /\ UNCHANGED <<struct, failed>>
       \/ Fails /\ UNCHANGED globals
    /\ UNCHANGED <<config, on_destroy, linked, idle, weston, used>>

\* handle_seat_create for the seats there are.  The default seat is added to
\* every surface, also to one whose accepted_seat_list has no beginning.
CreatesContext ==
    /\ Allocate("input")
    /\ linked' = linked \cup By(InputSignals, "input") \cup SeatListeners(seats)
    /\ on_destroy' = Append(on_destroy, "input")
    /\ Use(AcceptedIf(DefaultSeat \in seats))

\* The input module may be missing from the configuration, or fail before it
\* has a context.
load_input_module ==
    /\ pc = "input"
    /\ \/ /\ config.input
          /\ CreatesContext
          /\ pc' = "global"
          /\ UNCHANGED <<globals, failed>>
       \/ /\ ~config.input
          /\ pc' = "idle"
          /\ UNCHANGED <<struct, linked, on_destroy, globals, used, failed>>
       \/ /\ config.input
          /\ Fails
          /\ UNCHANGED <<linked, on_destroy, globals, used>>
    /\ UNCHANGED <<config, idle, weston>>

\* What destroy_input_context leaves of the listeners.
Detached == {l \in linked : l[2] # "input"}

\* destroy_input_context: the grabs end, the seats and the resources go.  Only
\* the global stays.  The listener that leaves the destroy_signal is the first
\* there, here and in the modules below: the signal runs it, or it is alone.
destroy_input_context ==
    /\ Use({"input", "shell", Accepted})
    /\ linked' = Detached
    /\ on_destroy' = Tail(on_destroy)
    /\ bound' = [bound EXCEPT !["ivi_input"] = {}]

\* Stage 1 of input_controller_init; a failure takes stage 0 back and with it
\* the whole module.
input_controller_init ==
    /\ pc = "global"
    /\ \/ /\ globals' = globals \cup {"ivi_input"}
          /\ pc' = "idle"
          /\ UNCHANGED <<struct, linked, on_destroy, bound, used, failed>>
       \/ /\ destroy_input_context
          /\ Free({"input", "shell"})
          /\ pc' = "stop"
          /\ failed' = TRUE
          /\ UNCHANGED globals
    /\ UNCHANGED <<config, idle, hmi, seats, surface, notified, late, events>>

AddIdle ==
    /\ pc = "idle"
    /\ idle' = config.hmi
    /\ pc' = "agent"
    /\ UNCHANGED <<config, struct, on_destroy, linked, globals, weston, used, failed>>

\* An agent that cannot read its configuration undoes its part, and the shell
\* goes on without it.
load_id_agent_module ==
    /\ pc = "agent"
    /\ pc' = "last"
    /\ \/ /\ config.agent
          /\ Allocate("agent")
          /\ on_destroy' = Append(on_destroy, "agent")
          /\ linked' = linked \cup By(AgentSignals, "agent")
       \/ /\ config.agent
          /\ Free({"agent"})
          /\ UNCHANGED <<on_destroy, linked>>
       \/ /\ ~config.agent
          /\ UNCHANGED <<struct, on_destroy, linked>>
    /\ UNCHANGED <<config, globals, idle, weston, used, failed>>

\* Mutated add_destroy_listener: the shell does not wait for its modules.
add_destroy_listener_first ==
    /\ pc = "last"
    /\ on_destroy' = <<"shell">> \o on_destroy
    /\ pc' = "run"
    /\ UNCHANGED <<config, struct, linked, globals, idle, weston, used, failed>>

\* "to ensure ivi-controller module is the last one to de-initialize"
add_destroy_listener ==
    /\ pc = "last"
    /\ on_destroy' = Append(on_destroy, "shell")
    /\ pc' = "run"
    /\ UNCHANGED <<config, struct, linked, globals, idle, weston, used, failed>>

wet_module_init ==
    \/ init_ivi_shell \/ setup_ivi_controller_server
    \/ load_input_module \/ input_controller_init
    \/ AddIdle \/ load_id_agent_module \/ add_destroy_listener

-----------------------------------------------------------------------------
(* Weston: events in every part of its life, requests only while it runs.  *)

Event == pc \in {"run", "stop", "off"} /\ events < MaxEvents /\ events' = events + 1

\* Signals of outputs and of the layout, without a surface.
weston_signal(signal) ==
    /\ Event
    /\ Use(Runs(signal))
    /\ UNCHANGED <<config, pc, memory, hmi, seats, surface, bound, notified, late, failed>>

\* handle_seat_create, and destroy_seat of handle_seat_destroy.  A new seat
\* reaches the surfaces if it is the default one.
seat_created(t) ==
    /\ Event
    /\ t \notin seats
    /\ seats' = seats \cup {t}
    /\ IF "input" \notin Runs("seat_created") THEN UNCHANGED <<linked, used>>
       ELSE /\ linked' = linked \cup SeatListeners({t})
            /\ Use({"input"} \cup AcceptedIf(t = DefaultSeat))
    /\ UNCHANGED <<config, pc, struct, on_destroy, globals, idle, hmi, surface, bound,
                   notified, late, failed>>

seat_destroyed(t) ==
    /\ Event
    /\ t \in seats
    /\ seats' = seats \ {t}
    /\ linked' = linked \ SeatListeners({t})
    /\ Use(Runs(t) \cup AcceptedIf(Runs(t) # {}))
    /\ UNCHANGED <<config, pc, struct, on_destroy, globals, idle, hmi, surface, bound,
                   notified, late, failed>>

\* surface_event_create: an id may be asked of the agent, and the input
\* controller is told on a signal of the shell.
surface_created ==
    /\ Event
    /\ surface = "none"
    /\ surface' = "created"
    /\ Use(IF "shell" \in Runs("create_surface")
           THEN {"shell"} \cup Runs("id_allocation_request") \cup Runs("ivisurface_created")
           ELSE {})
    /\ UNCHANGED <<config, pc, memory, hmi, seats, bound, notified, late, failed>>

\* surface_event_remove of the shell and of the agent.
surface_removed ==
    /\ Event
    /\ surface # "none"
    /\ surface' = "none"
    /\ Use(Runs("remove_surface") \cup
           (IF "shell" \in Runs("remove_surface") /\ Runs("ivisurface_removed") # {}
            THEN {"input", Accepted} ELSE {}))
    /\ notified' = {}
    /\ UNCHANGED <<config, pc, memory, hmi, seats, bound, late, failed>>

\* bind_ivi_controller, bind_ivi_input, then controller_surface_sync.
bind(g, c) ==
    /\ Event
    /\ pc = "run" /\ g \in globals /\ c \notin bound[g]
    /\ bound' = [bound EXCEPT ![g] = @ \cup {c}]
    /\ Use(IF g = "ivi_wm" THEN {"shell"} ELSE {"input", Accepted})
    /\ UNCHANGED <<config, pc, memory, hmi, seats, surface, notified, late, failed>>

controller_surface_sync(c) ==
    /\ Event
    /\ pc = "run" /\ surface # "none" /\ c \in bound["ivi_wm"] \ notified
    /\ notified' = notified \cup {c}
    /\ Use({"shell"})
    /\ UNCHANGED <<config, pc, memory, hmi, seats, surface, bound, late, failed>>

\* unbind_resource_controller of each module: a resource leaves a list whose
\* head is in the struct, and its notifications one in a surface of the shell.
unbind_resource_controller(c) ==
    /\ c \in bound["ivi_wm"] \cup bound["ivi_input"]
    /\ bound' = [g \in DOMAIN bound |-> bound[g] \ {c}]
    /\ notified' = notified \ {c}
    /\ late' = (late \/ (c \in bound["ivi_wm"] /\ struct["shell"] = "freed"))
    /\ Use({s \in {"shell"} : c \in bound["ivi_wm"]}
              \cup {s \in {"input"} : c \in bound["ivi_input"]})
    /\ UNCHANGED <<config, pc, memory, hmi, seats, surface, failed, events>>

\* The event loop starts the HMI client, which may leave again.
launch_client_process ==
    /\ pc = "run" /\ idle
    /\ idle' = FALSE
    /\ hmi' = TRUE
    /\ Use({"shell"})
    /\ UNCHANGED <<config, pc, struct, on_destroy, linked, globals, seats, surface, bound,
                   notified, late, events, failed>>

ivi_shell_client_destroy ==
    /\ pc = "run" /\ hmi
    /\ hmi' = FALSE
    /\ Use({"shell"})
    /\ UNCHANGED <<config, pc, memory, seats, surface, bound, notified, late, events, failed>>

shutdown ==
    /\ pc = "run"
    /\ pc' = "stop"
    /\ idle' = FALSE
    /\ UNCHANGED <<config, struct, on_destroy, linked, globals, weston, used, failed>>

-----------------------------------------------------------------------------
(* The destroy_signal of weston's ivi-shell.                               *)

\* destroy_listener of the input module: input_controller_deinit.
input_controller_destroy ==
    /\ destroy_input_context
    /\ Free({"input"})
    /\ UNCHANGED <<hmi, notified>>

\* deinit of the agent leaves the signals of the shell.
id_agent_module_deinit ==
    /\ Use({"agent", "shell"})
    /\ Free({"agent"})
    /\ linked' = {l \in linked : l[2] # "agent"}
    /\ on_destroy' = Tail(on_destroy)
    /\ UNCHANGED <<hmi, bound, notified>>

\* The HMI client goes first; surfaces and layers are freed with the shell,
\* notifications and controllers are not.
ivi_shell_destroy ==
    /\ Use({"shell"})
    /\ hmi' = FALSE
    /\ Free({"shell"})
    /\ linked' = {l \in linked : l[2] # "shell"}
    /\ on_destroy' = Tail(on_destroy)
    /\ UNCHANGED <<bound, notified>>

emit_destroy ==
    /\ pc = "stop"
    /\ IF on_destroy = <<>>
       THEN /\ pc' = "off"
            /\ UNCHANGED <<struct, on_destroy, linked, used, hmi, bound, notified>>
       ELSE /\ CASE Head(on_destroy) = "input" -> input_controller_destroy
                 [] Head(on_destroy) = "agent" -> id_agent_module_deinit
                 [] Head(on_destroy) = "shell" -> ivi_shell_destroy
            /\ UNCHANGED pc
    /\ UNCHANGED <<config, globals, idle, seats, surface, late, events, failed>>

Finished == pc = "off" /\ UNCHANGED vars

Next ==
    \/ wet_module_init
    \/ \E signal \in OutputSignals \cup (LayoutSignals \ {"create_surface", "remove_surface"}) :
           weston_signal(signal)
    \/ \E t \in Seats : seat_created(t) \/ seat_destroyed(t)
    \/ surface_created \/ surface_removed
    \/ \E g \in {"ivi_wm", "ivi_input"}, c \in Clients : bind(g, c)
    \/ \E c \in Clients : controller_surface_sync(c) \/ unbind_resource_controller(c)
    \/ launch_client_process \/ ivi_shell_client_destroy
    \/ shutdown \/ emit_destroy
    \/ Finished

Spec == Init /\ [][Next]_vars

-----------------------------------------------------------------------------
\* No handler uses a struct that is freed, or not allocated yet: the modules
\* leave every signal and list before they go, in an order in which each finds
\* the shell alive, and a module that fails takes back what it did.  The
\* exceptions: wet_module_init that fails frees the shell under its listeners,
\* a client of ivi_wm that leaves after the shell reaches into it, and a
\* surface found at loading has no list for the seats it accepts.
NothingFreedIsUsed ==
    /\ "input" \notin used /\ "agent" \notin used
    /\ "shell" \in used => failed \/ late
    /\ Accepted \in used => config.found
=============================================================================
