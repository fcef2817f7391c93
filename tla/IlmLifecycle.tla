---------------------------- MODULE IlmLifecycle ----------------------------
(***************************************************************************)
(* The life of the client library: reference counted ilm_init and          *)
(* ilm_destroy (ilmCommon/src/ilm_common.c and                             *)
(* ilm_common_wayland_platform.c), the connection, control_thread and the  *)
(* calls that synchronise (ilm_control_wayland_platform.c), while the      *)
(* compositor runs, exits and is started again.                            *)
(*                                                                         *)
(* Every thread of the application brackets its use of the library by      *)
(* ilm_init and ilm_destroy.  What the events say is left out: an event    *)
(* is something to read and dispatch.                                      *)
(*                                                                         *)
(* External, libwayland: who wants to read announces it                    *)
(* (prepare_read), the last one that comes to read_events reads, the       *)
(* others wait for it there; a protocol error or the end of the connection *)
(* makes the display fail for good, and nothing is dispatched after that.  *)
(***************************************************************************)
EXTENDS Integers, Sequences, FiniteSets

CONSTANTS Threads, Control, Nobody,
          MaxCalls, MaxEvents,   \* bounds: calls; events and faults of the compositor
          MaxConnects            \* bound: connections

ASSUME LifecycleAssumption ==
    /\ Control \notin Threads /\ Nobody \notin Threads \cup {Control}
    /\ MaxCalls \in Nat /\ MaxEvents \in Nat /\ MaxConnects \in Nat

VARIABLES
    valid, gInitialized,          \* ilm_common: the platform context and the count
    g_initialize_lock, g_deinitialize_lock,
    initialized, controller,      \* ilm_control_context: controller is the number
                                  \* of the connection its proxy belongs to, or 0
    mutex,                        \* its holder
    shutdown_fd,                  \* the event is set
    thread,                       \* where control_thread is
    pc,                           \* where the call of a thread is
    holds,                        \* threads between ilm_init and ilm_destroy
    display,                      \* number of the connection, 0: there is none
    server,                       \* "up", or "down", for this connection at least
    out, asked,                   \* requests not flushed; syncs to be answered
    socket, queue,                \* events to be read; in ctx->wl.queue
    error_queued, last_error,     \* wl_display.error: read; dispatched
    readers, waiting,             \* threads that prepared to read; that wait in it
    done,                         \* threads whose sync has been answered
    crashed,                      \* a connection that is gone was used
    overlapped,                   \* both locks were held at once
    calls, events, connects

common   == <<valid, gInitialized, g_initialize_lock, g_deinitialize_lock>>
control  == <<initialized, controller, shutdown_fd>>
reading  == <<readers, waiting>>
received == <<socket, queue, error_queued, last_error, done>>
wayland  == <<display, out, asked, reading, received>>
bounds   == <<calls, events, connects>>
vars == <<common, control, mutex, thread, pc, holds, server, wayland, crashed, overlapped,
          bounds>>

Init ==
    /\ valid = FALSE /\ gInitialized = 0
    /\ g_initialize_lock = Nobody /\ g_deinitialize_lock = Nobody
    /\ initialized = FALSE /\ controller = 0 /\ mutex = Nobody /\ shutdown_fd = FALSE
    /\ thread = "none" /\ pc = [t \in Threads |-> "idle"] /\ holds = {}
    /\ display = 0 /\ server = "up"
    /\ out = {} /\ asked = {} /\ socket = <<>> /\ queue = <<>>
    /\ error_queued = FALSE /\ last_error = FALSE
    /\ readers = {} /\ waiting = {} /\ done = {} /\ crashed = FALSE /\ overlapped = FALSE
    /\ calls = 0 /\ events = 0 /\ connects = 0

-----------------------------------------------------------------------------
(* libwayland.                                                             *)

\* The connection is closed; a compositor that is gone may be up for the next.
Closed ==
    /\ display' = 0 /\ out' = {} /\ asked' = {} /\ socket' = <<>> /\ queue' = <<>>
    /\ error_queued' = FALSE /\ last_error' = FALSE
    /\ readers' = {} /\ waiting' = {} /\ done' = {}

prepare_read_queue(x, IsEmpty) ==
    /\ IsEmpty
    /\ readers' = readers \cup {x}
    /\ UNCHANGED waiting

Flushed ==
    /\ asked' = asked \cup (out \ {"set"})
    /\ out' = {}

\* A flush fails with EPIPE, EAGAIN when the socket is full, or an old error.
CanFlush == ~last_error /\ (out = {} \/ server = "up")
MayFail  == last_error \/ out # {}

LastReader(x) == readers = {x}

\* The last reader takes all there is, or finds the end of the connection.
Read(x) ==
    /\ readers' = readers \ {x} /\ waiting' = {}
    /\ queue' = queue \o SelectSeq(socket, LAMBDA e : e # "error")
    /\ error_queued' = (error_queued \/ \E i \in DOMAIN socket : socket[i] = "error")
    /\ last_error' = (last_error \/ socket = <<>>)
    /\ socket' = <<>>
    /\ UNCHANGED done

read_events(x) ==
    IF last_error
    THEN /\ readers' = readers \ {x}
         /\ waiting' = IF LastReader(x) THEN {} ELSE waiting
         /\ UNCHANGED received
    ELSE IF LastReader(x) THEN Read(x)
    ELSE /\ readers' = readers \ {x} /\ waiting' = waiting \cup {x}
         /\ UNCHANGED received

cancel_read(x) ==
    /\ readers' = readers \ {x}
    /\ waiting' = IF LastReader(x) THEN {} ELSE waiting

Readable == socket # <<>> \/ server # "up"
Fails == last_error \/ error_queued

\* wl_display_dispatch_queue_pending: an error comes first, and nothing after it.
dispatch_queue_pending ==
    /\ last_error' = Fails /\ error_queued' = FALSE
    /\ IF Fails THEN UNCHANGED <<queue, done>>
       ELSE /\ queue' = <<>>
            /\ done' = done \cup ({queue[i] : i \in DOMAIN queue} \ {"event"})
    /\ UNCHANGED socket

-----------------------------------------------------------------------------
(* ilm_init.                                                               *)

Goto(t, where) == pc' = [pc EXCEPT ![t] = where]
Initializing == {"connect", "globals", "screens", "undo"}   \* with g_initialize_lock
Destroying   == {"count", "join", "platform", "close_poll", "close_read"}   \* with the other
Calling      == {"lock", "dispatch", "poll"}
At(t, where) == ~crashed /\ pc[t] = where

CanCall(t) ==
    /\ At(t, "idle") /\ calls < MaxCalls /\ calls' = calls + 1
    /\ UNCHANGED <<common, control, mutex, thread, holds, server, crashed, overlapped, events,
                   connects>>
Others(t, places) == \E u \in Threads \ {t} : pc[u] \in places

\* gInitialized is counted under two locks; of two counts at once one may be lost.
Counted(by, lock) ==
    gInitialized' \in {gInitialized + by} \cup {g \in {gInitialized} : lock # Nobody}

ilm_init(t) ==
    /\ CanCall(t) /\ t \notin holds
    /\ Goto(t, "init")
    /\ UNCHANGED wayland

InitStep(t, from) ==
    /\ At(t, from)
    /\ overlapped' = (overlapped \/ (from = "init" /\ g_deinitialize_lock # Nobody))
    /\ UNCHANGED <<g_deinitialize_lock, mutex, shutdown_fd, server, calls, events>>
Returned(t, ok) ==
    /\ Goto(t, "idle")
    /\ g_initialize_lock' = Nobody
    /\ holds' = IF ok THEN holds \cup {t} ELSE holds

lock_initialize(t) ==
    /\ InitStep(t, "init") /\ g_initialize_lock = Nobody
    /\ g_initialize_lock' = t /\ Goto(t, "connect")
    /\ UNCHANGED <<valid, gInitialized, initialized, controller, thread, holds, wayland,
                   crashed, connects>>

\* Mutated already_initialized: gInitialized is not incremented.
already_initialized_only(t) ==
    /\ InitStep(t, "connect") /\ valid
    /\ Returned(t, TRUE)
    /\ UNCHANGED <<valid, gInitialized, initialized, controller, thread, wayland, crashed,
                   connects>>

already_initialized(t) ==
    /\ InitStep(t, "connect") /\ valid
    /\ Counted(1, g_deinitialize_lock)
    /\ Returned(t, TRUE)
    /\ UNCHANGED <<valid, initialized, controller, thread, wayland, crashed, connects>>

\* wayland_init; then ilmControl_init, which resets nothing but the lists.  The
\* display of an ilm_destroy that is still closing is replaced, and the new one
\* is closed in its place.
wayland_init(t) ==
    /\ InitStep(t, "connect") /\ ~valid
    /\ crashed' = (display # 0)
    /\ IF server = "up" /\ connects < MaxConnects /\ display = 0
       THEN /\ valid' = TRUE /\ connects' = connects + 1
            /\ display' = connects'
            /\ Goto(t, "globals")
            /\ UNCHANGED <<g_initialize_lock, holds>>
       ELSE /\ Returned(t, FALSE)
            /\ UNCHANGED <<valid, connects, display>>
    /\ UNCHANGED <<gInitialized, initialized, controller, thread, out, asked, reading, received>>

\* The first roundtrip of init_control.  An output that is announced before
\* ivi_wm makes a request to the controller there is.  The compositor may
\* have no ivi_wm.
init_control_globals(t) ==
    /\ InitStep(t, "globals")
    /\ \/ /\ controller # 0 \/ display = 0
          /\ crashed' = TRUE
          /\ UNCHANGED <<controller, pc>>
       \/ /\ server = "up" /\ display # 0 /\ controller' \in {controller, display}
          /\ Goto(t, IF controller' # 0 THEN "screens" ELSE "undo")
          /\ UNCHANGED crashed
       \/ /\ server # "up" /\ display # 0
          /\ Goto(t, "undo") /\ UNCHANGED <<controller, crashed>>
    /\ UNCHANGED <<valid, gInitialized, g_initialize_lock, initialized, thread, holds, wayland,
                   connects>>

\* Requests to the controller, the second roundtrip, eventfd and pthread_create.
init_control_screens(t) ==
    /\ InitStep(t, "screens")
    /\ \/ /\ controller # display /\ crashed' = TRUE
          /\ UNCHANGED <<pc, gInitialized, g_initialize_lock, initialized, thread, holds>>
       \/ /\ server = "up" /\ controller = display
          /\ initialized' = TRUE /\ thread' = "prepare"
          /\ Counted(1, g_deinitialize_lock)
          /\ Returned(t, TRUE)
          /\ UNCHANGED crashed
       \/ /\ controller = display
          /\ Goto(t, "undo")
          /\ UNCHANGED <<crashed, gInitialized, g_initialize_lock, initialized, thread, holds>>
    /\ UNCHANGED <<valid, controller, wayland, connects>>

\* ilmControl_destroy returns early, as the context is not initialized; then
\* wayland_destroy.  The controller stays.
init_control_failed(t) ==
    /\ InitStep(t, "undo")
    /\ IF valid THEN Closed ELSE UNCHANGED wayland
    /\ valid' = FALSE
    /\ Returned(t, FALSE)
    /\ UNCHANGED <<gInitialized, initialized, controller, thread, crashed, connects>>

-----------------------------------------------------------------------------
(* ilm_destroy.                                                            *)

ilm_destroy(t) ==
    /\ CanCall(t) /\ t \in holds
    /\ Goto(t, "destroy")
    /\ UNCHANGED wayland

DestroyStep(t, from) ==
    /\ At(t, from)
    /\ overlapped' = (overlapped \/ (from = "destroy" /\ g_initialize_lock # Nobody))
    /\ UNCHANGED <<g_initialize_lock, mutex, server, bounds>>

lock_deinitialize(t) ==
    /\ DestroyStep(t, "destroy") /\ g_deinitialize_lock = Nobody
    /\ g_deinitialize_lock' = t /\ Goto(t, "count")
    /\ UNCHANGED <<valid, gInitialized, control, thread, holds, wayland, crashed>>

Destroyed(t, ok) ==
    /\ Goto(t, "idle")
    /\ g_deinitialize_lock' = Nobody
    /\ holds' = holds \ {t}
    /\ IF ok THEN Counted(-1, g_initialize_lock) ELSE UNCHANGED gInitialized

ilm_destroy_counted(t) ==
    /\ DestroyStep(t, "count") /\ gInitialized > 1
    /\ Destroyed(t, TRUE)
    /\ UNCHANGED <<valid, control, thread, wayland, crashed>>

\* Mutated send_shutdown_event: control_thread is not told.
send_shutdown_event_none(t) ==
    /\ DestroyStep(t, "count") /\ gInitialized <= 1
    /\ Goto(t, IF initialized THEN "join" ELSE "platform")
    /\ UNCHANGED <<valid, gInitialized, g_deinitialize_lock, initialized, controller,
                   shutdown_fd, thread, holds, wayland, crashed>>

send_shutdown_event(t) ==
    /\ DestroyStep(t, "count") /\ gInitialized <= 1
    /\ shutdown_fd' = initialized
    /\ Goto(t, IF initialized THEN "join" ELSE "platform")
    /\ UNCHANGED <<valid, gInitialized, g_deinitialize_lock, initialized, controller,
                   thread, holds, wayland, crashed>>

\* pthread_join, destroy_control_resources and the end of the context.  What
\* control_thread prepared stays prepared.
ilmControl_destroy(t) ==
    /\ DestroyStep(t, "join") /\ thread = "ended"
    /\ thread' = "none"
    /\ initialized' = FALSE /\ controller' = 0 /\ shutdown_fd' = FALSE
    /\ queue' = <<>>
    /\ crashed' = Others(t, Calling)
    /\ Goto(t, "platform")
    /\ UNCHANGED <<valid, gInitialized, g_deinitialize_lock, holds, display, out, asked, reading,
                   socket, error_queued, last_error, done>>

\* wayland_destroy: a roundtrip (on the queue of the display) and the end of
\* the connection.
wayland_destroy(t) ==
    /\ DestroyStep(t, "platform")
    /\ IF ~valid
       THEN /\ Destroyed(t, FALSE)
            /\ UNCHANGED <<valid, wayland>>
       ELSE /\ valid' = FALSE /\ Goto(t, "close_poll")
            /\ prepare_read_queue(t, TRUE)
            /\ IF CanFlush THEN asked' = asked \cup {t} \cup (out \ {"set"}) /\ out' = {}
               ELSE UNCHANGED <<asked, out>>
            /\ done' = done \ {t}
            /\ UNCHANGED <<gInitialized, g_deinitialize_lock, holds, display, socket, queue,
                           error_queued, last_error>>
    /\ UNCHANGED <<control, thread, crashed>>

close_read(t) ==
    /\ DestroyStep(t, "close_poll") /\ Readable
    /\ Goto(t, "close_read")
    /\ read_events(t)
    /\ UNCHANGED <<valid, gInitialized, g_deinitialize_lock, control, thread, holds,
                   display, out, asked, crashed>>

\* The answer is there, or the connection failed, or there is more to read.
wl_display_disconnect(t) ==
    /\ DestroyStep(t, "close_read") /\ t \notin waiting
    /\ IF Fails \/ t \in done \cup {queue[i] : i \in DOMAIN queue}
       THEN /\ Closed /\ Destroyed(t, TRUE)
            /\ crashed' = (thread # "none" \/ Others(t, Calling \cup {"globals", "screens"}))
       ELSE /\ prepare_read_queue(t, TRUE) /\ Goto(t, "close_poll")
            /\ UNCHANGED <<gInitialized, g_deinitialize_lock, holds, display, out, asked, received,
                           crashed>>
    /\ UNCHANGED <<valid, control, thread>>

-----------------------------------------------------------------------------
(* Calls between them.                                                     *)

CallStep(t, from) ==
    /\ At(t, from)
    /\ UNCHANGED <<common, control, thread, holds, server, crashed, overlapped, bounds, display>>

\* A setter: one request and no flush.  Not initialized: ILM_FAILED.
set_call(t) ==
    /\ CanCall(t) /\ t \in holds
    /\ mutex = Nobody
    /\ out' = IF initialized THEN out \cup {"set"} ELSE out
    /\ UNCHANGED <<pc, display, asked, reading, received>>

\* A call that synchronises.
sync_call(t) ==
    /\ CanCall(t) /\ t \in holds
    /\ Goto(t, IF initialized THEN "lock" ELSE "idle")
    /\ UNCHANGED wayland

\* lock_context and the sync request of wl_display_roundtrip_queue
impl_sync_and_acquire_instance(t) ==
    /\ CallStep(t, "lock") /\ mutex = Nobody
    /\ mutex' = t
    /\ out' = out \cup {t} /\ done' = done \ {t}
    /\ Goto(t, "dispatch")
    /\ UNCHANGED <<asked, reading, socket, queue, error_queued, last_error>>

\* wl_display_dispatch_queue: dispatch what is there, or prepare and flush; a
\* full socket is waited for, EPIPE is not an error.
prepare(t) ==
    /\ CallStep(t, "dispatch") /\ ~Fails /\ t \notin done /\ t \notin waiting
    /\ IF queue # <<>> THEN dispatch_queue_pending /\ UNCHANGED <<pc, reading, out, asked>>
       ELSE /\ prepare_read_queue(t, TRUE)
            /\ IF CanFlush THEN Flushed ELSE UNCHANGED <<out, asked>>
            /\ Goto(t, "poll")
            /\ UNCHANGED received
    /\ UNCHANGED mutex

read(t) ==
    /\ CallStep(t, "poll") /\ Readable
    /\ read_events(t)
    /\ Goto(t, "dispatch")
    /\ UNCHANGED <<mutex, out, asked>>

\* The roundtrip is over: ILM_SUCCESS or ILM_FAILED.
release_instance(t) ==
    /\ CallStep(t, "dispatch") /\ t \notin waiting
    /\ Fails \/ t \in done
    /\ IF Fails THEN dispatch_queue_pending ELSE UNCHANGED received
    /\ mutex' = Nobody
    /\ Goto(t, "idle")
    /\ UNCHANGED <<reading, out, asked>>

-----------------------------------------------------------------------------
(* control_thread.                                                         *)

ControlStep(from, to) ==
    /\ ~crashed /\ thread = from /\ thread' = to
    /\ UNCHANGED <<common, control, mutex, pc, holds, server, crashed, overlapped, bounds, display>>

control_dispatch ==
    /\ ControlStep("prepare", "prepare") /\ queue # <<>> /\ mutex = Nobody
    /\ dispatch_queue_pending
    /\ UNCHANGED <<reading, out, asked>>

control_prepare ==
    /\ ControlStep("prepare", "flush") /\ prepare_read_queue(Control, queue = <<>>)
    /\ UNCHANGED <<out, asked, received>>

control_flush ==
    /\ ControlStep("flush", "poll") /\ CanFlush
    /\ Flushed
    /\ UNCHANGED <<reading, received>>

\* EPIPE, or EAGAIN from a full socket: the loop is left as it is.
control_flush_fails ==
    /\ ControlStep("flush", "ended") /\ MayFail
    /\ UNCHANGED <<out, asked, reading, received>>

control_read ==
    /\ ControlStep("poll", "read") /\ Readable
    /\ read_events(Control)
    /\ UNCHANGED <<out, asked>>

\* Dispatch after the read; a failure ends the thread.
control_dispatch_read ==
    /\ \/ ControlStep("read", "prepare") /\ ~Fails
       \/ ControlStep("read", "ended") /\ Fails
    /\ Control \notin waiting /\ mutex = Nobody
    /\ dispatch_queue_pending
    /\ UNCHANGED <<reading, out, asked>>

control_shutdown ==
    /\ ControlStep("poll", "ended") /\ shutdown_fd /\ ~Readable
    /\ cancel_read(Control)
    /\ UNCHANGED <<out, asked, received>>

control_thread ==
    \/ control_dispatch \/ control_prepare \/ control_flush \/ control_flush_fails
    \/ control_read \/ control_dispatch_read \/ control_shutdown

-----------------------------------------------------------------------------
(* The compositor.                                                         *)

ServerStep ==
    UNCHANGED <<common, control, mutex, thread, pc, holds, display, out, queue, error_queued,
                last_error, done, reading, crashed, overlapped, calls, connects>>

answer_sync(t) ==
    /\ ServerStep /\ server = "up" /\ t \in asked
    /\ socket' = Append(socket, t) /\ asked' = asked \ {t}
    /\ UNCHANGED <<server, events>>

send_event ==
    /\ ServerStep /\ server = "up" /\ display # 0 /\ events < MaxEvents
    /\ socket' = Append(socket, "event") /\ events' = events + 1
    /\ UNCHANGED <<server, asked>>

\* The compositor exits, or ends this connection with a protocol error.
server_exits ==
    /\ ServerStep /\ server = "up" /\ events < MaxEvents
    /\ server' = "down" /\ events' = events + 1
    /\ asked' = {}
    /\ \/ socket' = socket
       \/ display # 0 /\ initialized /\ socket' = Append(socket, "error")

\* The next connection finds a compositor again.
server_restarts ==
    /\ ServerStep /\ server = "down" /\ display = 0
    /\ server' = "up"
    /\ UNCHANGED <<asked, socket, events>>

InLibrary(t) ==
    \/ lock_initialize(t) \/ already_initialized(t) \/ wayland_init(t)
    \/ init_control_globals(t) \/ init_control_screens(t) \/ init_control_failed(t)
    \/ lock_deinitialize(t) \/ ilm_destroy_counted(t) \/ send_shutdown_event(t)
    \/ ilmControl_destroy(t) \/ wayland_destroy(t) \/ close_read(t) \/ wl_display_disconnect(t)
    \/ impl_sync_and_acquire_instance(t) \/ prepare(t) \/ read(t) \/ release_instance(t)

Next ==
    \/ \E t \in Threads : \/ ilm_init(t) \/ ilm_destroy(t) \/ set_call(t) \/ sync_call(t)
                          \/ InLibrary(t) \/ answer_sync(t)
    \/ control_thread
    \/ send_event \/ server_exits \/ server_restarts

\* The threads run, and a compositor that is up answers.
Fairness ==
    /\ \A t \in Threads : WF_vars(InLibrary(t)) /\ WF_vars(answer_sync(t))
    /\ WF_vars(control_thread)

Spec == Init /\ [][Next]_vars /\ Fairness

-----------------------------------------------------------------------------
\* A thread between its ilm_init and ilm_destroy finds the library working, also
\* while others are in theirs: nobody tears down what another has been given,
\* and who is last lets go of everything but the controller of an ilm_init that
\* failed.  That controller is the one thing of an earlier connection that is
\* ever used.  The two locks guard the same count and context, so nothing is
\* promised after an ilm_init and an ilm_destroy held theirs at the same time.
HoldersServed ==
    ~overlapped =>
        /\ crashed => controller \notin {0, display}
        /\ ~crashed =>
               /\ gInitialized = Cardinality(holds)
               /\ (\E t \in holds : pc[t] \notin Destroying) =>
                      valid /\ initialized /\ display # 0 /\ thread # "none"
               /\ holds = {} /\ (\A t \in Threads : pc[t] \notin Initializing) =>
                      ~valid /\ ~initialized /\ display = 0 /\ thread = "none"

\* control_thread left the loop without wl_display_cancel_read: readers wait
\* for it.  Or it dispatches, without end, a queue that fails.
Abandoned == thread \in {"ended", "none"} /\ Control \in readers /\ ~last_error
Spinning == thread = "prepare" /\ queue # <<>> /\ last_error

\* Every call returns, ilm_destroy too, whatever the compositor does; but for
\* the two cases above and the use of a connection that is gone.
CallsReturn ==
    \A t \in Threads :
        pc[t] # "idle" ~> (pc[t] = "idle" \/ Abandoned \/ Spinning \/ crashed)
=============================================================================
