---------------------------- MODULE ClientProofs ----------------------------
(***************************************************************************)
(* Theorems about two parts of the programs that use ivi_wm.               *)
(*                                                                         *)
(* IlmLifecycle, for any number of threads, calls, faults and connections, *)
(* until ilm_init and ilm_destroy hold their two locks at once.  The count *)
(* and the platform context are right before that because at most one      *)
(* thread has one of the locks (OneAtATime), and because each place in     *)
(* these calls knows how much of the library is there (Phase).             *)
(*                                                                         *)
(* SceneAnalysis, for rectangles and scenes of any size: the geometry      *)
(* misses no overlap; every pixel that a surface firmly has is within the  *)
(* coordinates computed for it, however the doubles are rounded, so no     *)
(* surface that covers one escapes; a surface                              *)
(* without a problem is seen; and a surface that is said not to exist did  *)
(* not.                                                                    *)
(***************************************************************************)
EXTENDS IlmLifecycle, SceneAnalysis, FiniteSetTheorems, WellFoundedInduction, TLAPS

\* What ilm_init and ilm_destroy have to agree on, when neither is under way.
Settled ==
    /\ gInitialized = Cardinality(holds)
    /\ valid = (holds # {}) /\ initialized = (holds # {})
    /\ (display # 0) = (holds # {}) /\ (thread # "none") = (holds # {})

\* What holds where the call of a thread is: only the first ilm_init and the
\* last ilm_destroy find the library neither there nor gone.
Phase(t) ==
    /\ pc[t] \in {"init", "connect"} => t \notin holds
    /\ pc[t] \in Calling => t \in holds
    /\ pc[t] \in {"destroy", "count"} => t \in holds
    /\ pc[t] \in {"connect", "count"} => Settled
    /\ pc[t] \in {"globals", "screens", "undo"} =>
          /\ holds = {} /\ gInitialized = 0
          /\ valid /\ ~initialized /\ display # 0 /\ thread = "none"
    /\ pc[t] = "globals" => controller < display
    /\ pc[t] = "screens" => controller # 0
    /\ pc[t] = "join" =>
          /\ holds = {t} /\ gInitialized = 1
          /\ valid /\ initialized /\ display # 0 /\ thread # "none"
    /\ pc[t] = "platform" =>
          /\ holds = {t} /\ gInitialized = 1
          /\ valid /\ ~initialized /\ thread = "none"
    /\ pc[t] \in {"close_poll", "close_read"} =>
          /\ holds = {t} /\ gInitialized = 1
          /\ ~valid /\ ~initialized /\ thread = "none"

\* The places with one of the two locks, and all places.
Locked  == Initializing \cup Destroying
Waiting == {"init", "destroy"}
Places  == Locked \cup Waiting \cup Calling \cup {"idle"}

LTypes ==
    /\ holds \subseteq Threads /\ IsFiniteSet(holds)
    /\ valid \in BOOLEAN /\ initialized \in BOOLEAN
    /\ connects \in Nat /\ controller \in Nat /\ display \in Nat
    /\ controller <= connects /\ display <= connects

\* The locks are held where they are taken.
Locks ==
    \A t \in Threads :
        /\ (pc[t] \in Initializing) = (g_initialize_lock = t)
        /\ (pc[t] \in Destroying) = (g_deinitialize_lock = t)

\* At most one thread holds one of the locks: the other way is an overlap.
OneAtATime == g_initialize_lock = Nobody \/ g_deinitialize_lock = Nobody

Phases ==
    /\ \A t \in Threads : Phase(t)
    /\ (\A t \in Threads : pc[t] \notin Locked) => Settled

Good == LTypes /\ pc \in [Threads -> Places] /\ Locks /\ OneAtATime /\ Phases

\* The invariant.  After an overlap, and after the use of an earlier connection,
\* the application is not followed any further.
LInv == ~overlapped => IF crashed THEN controller \notin {0, display} ELSE Good

-----------------------------------------------------------------------------
(* How steps move a thread.                                                *)

locks == <<g_initialize_lock, g_deinitialize_lock>>
kept  == <<valid, gInitialized, initialized, controller, display, holds, connects>>

\* A step that leaves the library as it is, and moves threads outside of the
\* locks only.
LEMMA Kept ==
    ASSUME Good, UNCHANGED <<kept, locks>>, (thread' # "none") = (thread # "none"),
           pc' \in [Threads -> Places],
           \A t \in Threads :
               \/ pc'[t] = pc[t]
               \/ /\ pc[t] \notin Locked /\ pc'[t] \notin Locked
                  /\ pc'[t] = "init" => t \notin holds
                  /\ pc'[t] \in {"destroy"} \cup Calling => t \in holds
    PROVE  Good'
<1> USE DEF Good, kept, locks
<1>1. LTypes'
  BY DEF LTypes
<1>2. \A t \in Threads : /\ (pc'[t] \in Initializing) = (pc[t] \in Initializing)
                         /\ (pc'[t] \in Destroying) = (pc[t] \in Destroying)
  BY DEF Locked
<1>3. Locks' /\ OneAtATime'
  BY <1>2 DEF Locks, OneAtATime
<1>4. Settled => Settled'
  BY DEF Settled
<1>5. ASSUME NEW t \in Threads PROVE Phase(t)'
  <2>1. CASE pc'[t] = pc[t]
    BY <1>4, <2>1 DEF Phases, Phase
  <2>2. CASE pc'[t] \notin Locked /\ pc'[t] # pc[t]
    BY <2>2 DEF Phase, Locked, Initializing, Destroying, Calling
  <2> QED
    BY <2>1, <2>2
<1>6. Phases'
  BY <1>2, <1>4, <1>5 DEF Phases, Locked
<1> QED
  BY <1>1, <1>3, <1>6

\* A thread that moves when no other has a lock.
LEMMA Moved ==
    ASSUME Good, NEW t \in Threads, NEW w \in Locked \cup {"idle"},
           pc' = [pc EXCEPT ![t] = w],
           \A u \in Threads \ {t} : pc[u] \notin Locked,
           \A u \in Threads \ {t} : u \in holds' <=> u \in holds,
           LTypes', w \in Locked => Phase(t)', w \notin Locked => Settled',
           g_initialize_lock' = IF w \in Initializing THEN t ELSE Nobody,
           g_deinitialize_lock' = IF w \in Destroying THEN t ELSE Nobody
    PROVE  Good'
<1> USE DEF Good
<1>1. /\ pc' \in [Threads -> Places] /\ pc'[t] = w
      /\ \A u \in Threads \ {t} : pc'[u] = pc[u]
  BY DEF Places
<1>2. Locks' /\ OneAtATime'
  BY <1>1, LifecycleAssumption DEF Locks, OneAtATime, Locked, Initializing, Destroying
<1>3. ASSUME NEW u \in Threads \ {t} PROVE Phase(u)'
  BY <1>1 DEF Phases, Phase, Locked, Initializing, Destroying, Calling
<1>4. ASSUME w \notin Locked PROVE Phase(t)'
  BY <1>1, <1>4 DEF Phase, Locked, Initializing, Destroying, Calling
<1>5. Phases'
  BY <1>1, <1>3, <1>4 DEF Phases
<1> QED
  BY <1>1, <1>2, <1>5

\* The thread with one of the locks is alone there.
LEMMA Alone ==
    ASSUME Good, NEW t \in Threads, pc[t] \in Locked
    PROVE  /\ Phase(t) /\ \A u \in Threads \ {t} : pc[u] \notin Locked
           /\ pc[t] \in Initializing => g_deinitialize_lock = Nobody
           /\ pc[t] \in Destroying => g_initialize_lock = Nobody
BY LifecycleAssumption DEF Good, Phases, OneAtATime, Locks, Locked

\* Nobody has a lock.
LEMMA Free ==
    ASSUME Good, g_initialize_lock = Nobody, g_deinitialize_lock = Nobody
    PROVE  Settled /\ \A u \in Threads : pc[u] \notin Locked
BY LifecycleAssumption DEF Good, Phases, Locks, Locked

\* A call of ilm_init or ilm_destroy begins: it waits for its lock.
LEMMA Begins ==
    ASSUME Good, NEW t \in Threads, ilm_init(t) \/ ilm_destroy(t)
    PROVE  Good'
<1>1. /\ pc[t] = "idle" /\ UNCHANGED <<kept, locks>> /\ thread' = thread
      /\ \/ pc' = [pc EXCEPT ![t] = "init"] /\ t \notin holds
         \/ pc' = [pc EXCEPT ![t] = "destroy"] /\ t \in holds
  BY DEF ilm_init, ilm_destroy, CanCall, At, Goto, common, control, wayland, kept, locks
<1>2. pc' \in [Threads -> Places] /\ \A u \in Threads \ {t} : pc'[u] = pc[u]
  BY <1>1 DEF Good, Places, Waiting
<1>3. /\ pc[t] \notin Locked /\ pc'[t] \notin Locked
      /\ pc'[t] = "init" => t \notin holds
      /\ pc'[t] \in {"destroy"} \cup Calling => t \in holds
  BY <1>1 DEF Good, Locked, Initializing, Destroying, Calling
<1> QED
  BY <1>1, <1>2, <1>3, Kept

-----------------------------------------------------------------------------
(* ilm_init.                                                               *)

LEMMA InitSteps ==
    ASSUME Good, NEW t \in Threads, ~crashed', ~overlapped',
           \/ lock_initialize(t) \/ already_initialized(t) \/ wayland_init(t)
           \/ init_control_globals(t) \/ init_control_screens(t) \/ init_control_failed(t)
    PROVE  Good'
<1> USE DEF Goto, Returned, InitStep
<1> /\ pc[t] \in Initializing => g_initialize_lock = t
    /\ pc[t] = "init" => pc[t] \notin Locked
  BY DEF Good, Locks, Locked, Initializing, Destroying
<1>1. CASE lock_initialize(t)
  <2>1. /\ pc[t] = "init" /\ pc' = [pc EXCEPT ![t] = "connect"]
        /\ g_initialize_lock = Nobody /\ g_deinitialize_lock = Nobody
        /\ g_initialize_lock' = t /\ g_deinitialize_lock' = Nobody
        /\ UNCHANGED kept /\ thread' = thread
    BY <1>1 DEF lock_initialize, At, kept, wayland
  <2>2. Settled /\ \A u \in Threads : pc[u] \notin Locked
    BY <2>1, Free
  <2>3. LTypes' /\ t \notin holds' /\ Settled'
    BY <2>1, <2>2 DEF Good, LTypes, Phases, Phase, Settled, kept
  <2>4. Phase(t)'
    BY <2>1, <2>3 DEF Phase, Good, LTypes, Calling
  <2> QED
    BY <2>1, <2>2, <2>3, <2>4, Moved DEF Locked, Initializing, Destroying, kept
<1>2. CASE already_initialized(t)
  <2>1. /\ pc[t] = "connect" /\ pc' = [pc EXCEPT ![t] = "idle"]
        /\ valid /\ Counted(1, g_deinitialize_lock) /\ holds' = holds \cup {t}
        /\ g_initialize_lock' = Nobody /\ g_deinitialize_lock' = g_deinitialize_lock
        /\ UNCHANGED <<valid, initialized, controller, display, thread, connects>>
    BY <1>2 DEF already_initialized, At, wayland
  <2>2. /\ Phase(t) /\ \A u \in Threads \ {t} : pc[u] \notin Locked
        /\ pc[t] \in Initializing => g_deinitialize_lock = Nobody
        /\ pc[t] \in Destroying => g_initialize_lock = Nobody
    BY <2>1, Alone DEF Locked, Initializing, Destroying
  <2>3. t \notin holds /\ Settled /\ gInitialized' = gInitialized + 1
    BY <2>1, <2>2 DEF Phase, Counted, Initializing
  <2>4. IsFiniteSet(holds') /\ Cardinality(holds') = Cardinality(holds) + 1
    BY <2>1, <2>3, FS_AddElement DEF Good, LTypes
  <2>5. LTypes' /\ Settled'
    BY <2>1, <2>3, <2>4 DEF Good, LTypes, Settled
  <2> QED
    BY <2>1, <2>2, <2>5, Moved DEF Locked, Initializing, Destroying
<1>3. CASE wayland_init(t)
  <2>1. /\ pc[t] = "connect" /\ ~valid
        /\ UNCHANGED <<gInitialized, initialized, controller, thread, g_deinitialize_lock>>
    BY <1>3 DEF wayland_init, At
  <2>2. /\ Phase(t) /\ \A u \in Threads \ {t} : pc[u] \notin Locked
        /\ pc[t] \in Initializing => g_deinitialize_lock = Nobody
        /\ pc[t] \in Destroying => g_initialize_lock = Nobody
    BY <2>1, Alone DEF Locked, Initializing, Destroying
  <2>3. /\ holds = {} /\ gInitialized = 0 /\ ~initialized /\ thread = "none"
        /\ display = 0 /\ Settled
    BY <2>1, <2>2, FS_EmptySet DEF Phase, Settled
  <2>4. CASE server = "up" /\ connects < MaxConnects
    <3>1. /\ pc' = [pc EXCEPT ![t] = "globals"]
          /\ valid' = TRUE /\ connects' = connects + 1 /\ display' = connects'
          /\ holds' = holds /\ g_initialize_lock' = g_initialize_lock
      BY <1>3, <2>3, <2>4 DEF wayland_init
    <3>2. LTypes' /\ display' # 0 /\ controller' < display'
      BY <2>1, <3>1 DEF Good, LTypes
    <3>3. Phase(t)'
      BY <2>1, <2>3, <3>1, <3>2 DEF Phase, Good, LTypes, Calling
    <3> QED
      BY <2>1, <2>2, <3>1, <3>2, <3>3, Moved DEF Locked, Initializing, Destroying
  <2>5. CASE ~(server = "up" /\ connects < MaxConnects)
    <3>1. /\ pc' = [pc EXCEPT ![t] = "idle"]
          /\ holds' = holds /\ g_initialize_lock' = Nobody
          /\ UNCHANGED <<valid, connects, display>>
      BY <1>3, <2>3, <2>5 DEF wayland_init
    <3>2. LTypes' /\ Settled'
      BY <2>1, <2>3, <3>1 DEF Good, LTypes, Settled
    <3> QED
      BY <2>1, <2>2, <2>3, <3>1, <3>2, Moved DEF Locked, Initializing, Destroying
  <2> QED
    BY <2>4, <2>5
<1>4. CASE init_control_globals(t)
  <2>1. /\ pc[t] = "globals" /\ UNCHANGED locks
        /\ UNCHANGED <<valid, gInitialized, initialized, display, holds, connects, thread>>
        /\ controller' \in {controller, display}
        /\ \/ pc' = [pc EXCEPT ![t] = "screens"] /\ controller' # 0
           \/ pc' = [pc EXCEPT ![t] = "undo"]
    BY <1>4 DEF init_control_globals, At, locks, wayland
  <2>2. /\ Phase(t) /\ \A u \in Threads \ {t} : pc[u] \notin Locked
        /\ pc[t] \in Initializing => g_deinitialize_lock = Nobody
        /\ pc[t] \in Destroying => g_initialize_lock = Nobody
    BY <2>1, Alone DEF Locked, Initializing, Destroying
  <2>3. LTypes'
    BY <2>1 DEF Good, LTypes
  <2>4. (pc'[t] = "screens" /\ controller' # 0) \/ pc'[t] = "undo"
    BY <2>1 DEF Good
  <2>5. Phase(t)'
    BY <2>1, <2>2, <2>4 DEF Phase, Calling
  <2> QED
    BY <2>1, <2>2, <2>3, <2>5, Moved DEF Locked, Initializing, Destroying, locks
<1>5. CASE init_control_screens(t)
  <2>1. pc[t] = "screens" /\ UNCHANGED <<valid, controller, display, connects, g_deinitialize_lock>>
    BY <1>5 DEF init_control_screens, At, wayland
  <2>2. /\ Phase(t) /\ \A u \in Threads \ {t} : pc[u] \notin Locked
        /\ pc[t] \in Initializing => g_deinitialize_lock = Nobody
        /\ pc[t] \in Destroying => g_initialize_lock = Nobody
    BY <2>1, Alone DEF Locked, Initializing, Destroying
  <2>3. holds = {} /\ gInitialized = 0 /\ valid /\ ~initialized /\ display # 0 /\ thread = "none"
    BY <2>1, <2>2 DEF Phase, Calling
  <2>4. CASE /\ pc' = [pc EXCEPT ![t] = "idle"] /\ holds' = holds \cup {t}
             /\ initialized' = TRUE /\ thread' = "prepare" /\ gInitialized' = gInitialized + 1
             /\ g_initialize_lock' = Nobody
    <3>1. IsFiniteSet({t}) /\ Cardinality({t}) = 1
      BY FS_Singleton
    <3>2. holds' = {t} /\ holds' # {}
      BY <2>3, <2>4
    <3>3. LTypes'
      BY <2>1, <2>3, <2>4, <3>1, <3>2 DEF Good, LTypes
    <3>4. gInitialized' = Cardinality(holds')
      BY <2>3, <2>4, <3>1, <3>2
    <3>5. Settled'
      BY <2>1, <2>3, <2>4, <3>2, <3>4 DEF Settled
    <3> QED
      BY <2>1, <2>2, <2>4, <3>3, <3>5, Moved DEF Locked, Initializing, Destroying
  <2>5. CASE /\ pc' = [pc EXCEPT ![t] = "undo"]
             /\ UNCHANGED <<gInitialized, initialized, thread, holds, g_initialize_lock>>
    <3>1. LTypes'
      BY <2>1, <2>5 DEF Good, LTypes
    <3>2. Phase(t)'
      BY <2>1, <2>3, <2>5 DEF Phase, Good, LTypes, Calling
    <3> QED
      BY <2>1, <2>2, <2>5, <3>1, <3>2, Moved DEF Locked, Initializing, Destroying
  <2> QED
    BY <1>5, <2>1, <2>2, <2>4, <2>5 DEF init_control_screens, Counted, Initializing
<1>6. CASE init_control_failed(t)
  <2>1. /\ pc[t] = "undo" /\ pc' = [pc EXCEPT ![t] = "idle"]
        /\ valid' = FALSE /\ holds' = holds /\ g_initialize_lock' = Nobody
        /\ UNCHANGED <<gInitialized, initialized, controller, thread, connects,
                       g_deinitialize_lock>>
    BY <1>6 DEF init_control_failed, At
  <2>2. /\ Phase(t) /\ \A u \in Threads \ {t} : pc[u] \notin Locked
        /\ pc[t] \in Initializing => g_deinitialize_lock = Nobody
        /\ pc[t] \in Destroying => g_initialize_lock = Nobody
    BY <2>1, Alone DEF Locked, Initializing, Destroying
  <2>3. holds = {} /\ gInitialized = 0 /\ ~initialized /\ thread = "none" /\ display' = 0
    BY <1>6, <2>1, <2>2 DEF Phase, init_control_failed, Closed
  <2>4. /\ controller' \in Nat /\ display' \in Nat /\ connects' \in Nat
        /\ controller' <= connects' /\ display' <= connects'
    BY <2>1, <2>3 DEF Good, LTypes
  <2>5. LTypes'
    BY <2>1, <2>3, <2>4 DEF Good, LTypes
  <2>6. Settled'
    BY <2>1, <2>3, <2>5, FS_EmptySet DEF LTypes, Settled
  <2> QED
    BY <2>1, <2>2, <2>5, <2>6, Moved DEF Locked, Initializing, Destroying
<1> QED
  BY <1>1, <1>2, <1>3, <1>4, <1>5, <1>6

-----------------------------------------------------------------------------
(* ilm_destroy.                                                            *)

LEMMA DestroySteps ==
    ASSUME Good, NEW t \in Threads, ~overlapped',
           \/ lock_deinitialize(t) \/ ilm_destroy_counted(t) \/ send_shutdown_event(t)
           \/ ilmControl_destroy(t) \/ wayland_destroy(t) \/ close_read(t)
           \/ wl_display_disconnect(t)
    PROVE  Good'
<1> USE DEF Goto, DestroyStep, At, bounds
<1> pc[t] \in Destroying => g_deinitialize_lock = t
  BY DEF Good, Locks
<1>1. CASE lock_deinitialize(t)
  <2>1. /\ pc[t] = "destroy" /\ pc' = [pc EXCEPT ![t] = "count"]
        /\ g_initialize_lock = Nobody /\ g_deinitialize_lock = Nobody
        /\ g_deinitialize_lock' = t /\ g_initialize_lock' = Nobody
        /\ UNCHANGED kept /\ thread' = thread
    BY <1>1 DEF lock_deinitialize, kept, wayland, control
  <2>2. Settled /\ \A u \in Threads : pc[u] \notin Locked
    BY <2>1, Free
  <2>3. LTypes' /\ t \in holds' /\ Settled'
    BY <2>1, <2>2 DEF Good, LTypes, Phases, Phase, Settled, kept
  <2>4. Phase(t)'
    BY <2>1, <2>3 DEF Phase, Good, LTypes, Calling
  <2> QED
    BY <2>1, <2>2, <2>3, <2>4, Moved DEF Locked, Initializing, Destroying, kept
<1>2. CASE ilm_destroy_counted(t)
  <2>1. /\ pc[t] = "count" /\ pc' = [pc EXCEPT ![t] = "idle"] /\ gInitialized > 1
        /\ Counted(-1, g_initialize_lock) /\ holds' = holds \ {t}
        /\ g_deinitialize_lock' = Nobody /\ g_initialize_lock' = g_initialize_lock
        /\ UNCHANGED <<valid, initialized, controller, display, thread, connects>>
    BY <1>2 DEF ilm_destroy_counted, Destroyed, wayland, control
  <2>2. /\ Phase(t) /\ \A u \in Threads \ {t} : pc[u] \notin Locked
        /\ pc[t] \in Initializing => g_deinitialize_lock = Nobody
        /\ pc[t] \in Destroying => g_initialize_lock = Nobody
    BY <2>1, Alone DEF Locked, Initializing, Destroying
  <2>3. t \in holds /\ Settled /\ gInitialized' = gInitialized - 1
    <3>1. gInitialized' = gInitialized + (-1)
      BY <2>1, <2>2 DEF Counted, Destroying
    <3>2. Settled /\ t \in holds /\ Cardinality(holds) \in Nat
      BY <2>1, <2>2, FS_CardinalityType DEF Phase, Good, LTypes
    <3> QED BY <3>1, <3>2 DEF Settled
  <2>4. /\ IsFiniteSet(holds') /\ Cardinality(holds') = Cardinality(holds) - 1
        /\ Cardinality(holds) \in Nat
    BY <2>1, <2>3, FS_RemoveElement, FS_CardinalityType DEF Good, LTypes
  <2>5. holds' # {}
    BY <2>1, <2>3, <2>4, FS_EmptySet DEF Settled
  <2>6. LTypes' /\ Settled'
    BY <2>1, <2>3, <2>4, <2>5 DEF Good, LTypes, Settled
  <2> QED
    BY <2>1, <2>2, <2>6, Moved DEF Locked, Initializing, Destroying
<1>3. CASE send_shutdown_event(t)
  <2>1. /\ pc[t] = "count" /\ gInitialized <= 1
        /\ pc' = [pc EXCEPT ![t] = IF initialized THEN "join" ELSE "platform"]
        /\ UNCHANGED <<kept, locks>> /\ thread' = thread
    BY <1>3 DEF send_shutdown_event, kept, locks, wayland
  <2>2. /\ Phase(t) /\ \A u \in Threads \ {t} : pc[u] \notin Locked
        /\ pc[t] \in Initializing => g_deinitialize_lock = Nobody
        /\ pc[t] \in Destroying => g_initialize_lock = Nobody
    BY <2>1, Alone DEF Locked, Initializing, Destroying
  <2>3. t \in holds /\ Settled
    BY <2>1, <2>2 DEF Phase, Calling
  <2>4. gInitialized = 1
    BY <2>1, <2>3, FS_EmptySet, FS_CardinalityType DEF Settled, Good, LTypes
  <2>5. holds = {t}
    <3>1. IsFiniteSet(holds) /\ Cardinality(holds) = 1
      BY <2>3, <2>4 DEF Settled, Good, LTypes
    <3>2. \E x : holds = {x}
      BY <3>1, FS_Singleton
    <3> QED
      BY <2>3, <3>2
  <2>6. LTypes' /\ pc' = [pc EXCEPT ![t] = "join"]
    BY <2>1, <2>3 DEF Good, LTypes, Settled, kept
  <2>7. Phase(t)'
    BY <2>1, <2>3, <2>4, <2>5, <2>6 DEF Phase, Settled, Good, kept
  <2> QED
    BY <2>1, <2>2, <2>6, <2>7, Moved DEF Locked, Initializing, Destroying, kept, locks
<1>4. CASE ilmControl_destroy(t)
  <2>1. /\ pc[t] = "join" /\ pc' = [pc EXCEPT ![t] = "platform"]
        /\ thread' = "none" /\ initialized' = FALSE /\ controller' = 0
        /\ UNCHANGED <<valid, gInitialized, holds, display, connects, locks>>
    BY <1>4 DEF ilmControl_destroy, locks
  <2>2. /\ Phase(t) /\ \A u \in Threads \ {t} : pc[u] \notin Locked
        /\ pc[t] \in Initializing => g_deinitialize_lock = Nobody
        /\ pc[t] \in Destroying => g_initialize_lock = Nobody
    BY <2>1, Alone DEF Locked, Initializing, Destroying
  <2>3. pc'[t] = "platform" /\ LTypes'
    <3>1. controller' \in Nat /\ connects' \in Nat /\ controller' <= connects'
      BY <2>1 DEF Good, LTypes
    <3> QED
      BY <2>1, <3>1 DEF Good, LTypes
  <2>4. Phase(t)'
    BY <2>1, <2>2, <2>3 DEF Phase, Calling
  <2> QED
    BY <2>1, <2>2, <2>3, <2>4, Moved DEF Locked, Initializing, Destroying, locks
<1>5. CASE wayland_destroy(t)
  <2>1. pc[t] = "platform" /\ UNCHANGED <<initialized, controller, display, thread, connects,
                                         g_initialize_lock>>
    BY <1>5 DEF wayland_destroy, control, wayland, prepare_read_queue
  <2>2. /\ Phase(t) /\ \A u \in Threads \ {t} : pc[u] \notin Locked
        /\ pc[t] \in Initializing => g_deinitialize_lock = Nobody
        /\ pc[t] \in Destroying => g_initialize_lock = Nobody
    BY <2>1, Alone DEF Locked, Initializing, Destroying
  <2>3. holds = {t} /\ gInitialized = 1 /\ valid /\ ~initialized /\ thread = "none"
    BY <2>1, <2>2 DEF Phase, Calling
  <2>4. /\ pc' = [pc EXCEPT ![t] = "close_poll"] /\ valid' = FALSE
        /\ UNCHANGED <<gInitialized, holds, g_deinitialize_lock>>
    BY <1>5, <2>3 DEF wayland_destroy
  <2>5. LTypes' /\ pc'[t] = "close_poll"
    BY <2>1, <2>4 DEF Good, LTypes
  <2>6. Phase(t)'
    BY <2>1, <2>3, <2>4, <2>5 DEF Phase, Calling
  <2> QED
    BY <2>1, <2>2, <2>4, <2>5, <2>6, Moved DEF Locked, Initializing, Destroying
<1>6. CASE close_read(t)
  <2>1. /\ pc[t] = "close_poll" /\ pc' = [pc EXCEPT ![t] = "close_read"]
        /\ UNCHANGED <<valid, gInitialized, initialized, controller, display, holds, connects, thread,
                       locks>>
    BY <1>6 DEF close_read, control, locks
  <2>2. /\ Phase(t) /\ \A u \in Threads \ {t} : pc[u] \notin Locked
        /\ pc[t] \in Initializing => g_deinitialize_lock = Nobody
        /\ pc[t] \in Destroying => g_initialize_lock = Nobody
    BY <2>1, Alone DEF Locked, Initializing, Destroying
  <2>3. LTypes' /\ pc'[t] = "close_read"
    BY <2>1 DEF Good, LTypes
  <2>4. Phase(t)'
    BY <2>1, <2>2, <2>3 DEF Phase, Calling
  <2> QED
    BY <2>1, <2>2, <2>3, <2>4, Moved DEF Locked, Initializing, Destroying, locks
<1>7. CASE wl_display_disconnect(t)
  <2>1. /\ pc[t] = "close_read"
        /\ UNCHANGED <<valid, initialized, controller, thread, connects, g_initialize_lock>>
    BY <1>7 DEF wl_display_disconnect, control
  <2>2. /\ Phase(t) /\ \A u \in Threads \ {t} : pc[u] \notin Locked
        /\ pc[t] \in Initializing => g_deinitialize_lock = Nobody
        /\ pc[t] \in Destroying => g_initialize_lock = Nobody
    BY <2>1, Alone DEF Locked, Initializing, Destroying
  <2>3. holds = {t} /\ gInitialized = 1 /\ ~valid /\ ~initialized /\ thread = "none"
    BY <2>1, <2>2 DEF Phase, Calling
  <2>4. CASE Closed /\ Destroyed(t, TRUE)
    <3>1. /\ pc' = [pc EXCEPT ![t] = "idle"] /\ holds' = {} /\ gInitialized' = 0
          /\ display' = 0 /\ g_deinitialize_lock' = Nobody
      BY <2>1, <2>2, <2>3, <2>4 DEF Closed, Destroyed, Counted, Destroying
    <3>2. LTypes' /\ Settled'
      BY <2>1, <2>3, <3>1, FS_EmptySet DEF Good, LTypes, Settled
    <3> QED
      BY <2>1, <2>2, <2>3, <3>1, <3>2, Moved DEF Locked, Initializing, Destroying
  <2>5. CASE /\ pc' = [pc EXCEPT ![t] = "close_poll"]
             /\ UNCHANGED <<gInitialized, display, holds, g_deinitialize_lock>>
    <3>1. LTypes' /\ pc'[t] = "close_poll"
      BY <2>1, <2>5 DEF Good, LTypes
    <3>2. Phase(t)'
      BY <2>1, <2>3, <2>5, <3>1 DEF Phase, Calling
    <3> QED
      BY <2>1, <2>2, <2>5, <3>1, <3>2, Moved DEF Locked, Initializing, Destroying
  <2> QED
    BY <1>7, <2>4, <2>5 DEF wl_display_disconnect
<1> QED
  BY <1>1, <1>2, <1>3, <1>4, <1>5, <1>6, <1>7

-----------------------------------------------------------------------------
(* Everything else leaves the library as it is.                            *)

\* A call between ilm_init and ilm_destroy moves outside of both.
LEMMA CallSteps ==
    ASSUME Good, NEW t \in Threads,
           \/ set_call(t) \/ sync_call(t) \/ impl_sync_and_acquire_instance(t)
           \/ prepare(t) \/ read(t) \/ release_instance(t)
    PROVE  Good'
<1> USE DEF Goto, At
<1>1. UNCHANGED <<kept, locks>> /\ thread' = thread
  BY DEF set_call, sync_call, CanCall, impl_sync_and_acquire_instance, prepare, read,
         release_instance, CallStep, common, control, bounds, wayland, kept, locks
<1>2. \/ pc' = pc
      \/ /\ pc[t] \in {"idle", "lock", "dispatch", "poll"}
         /\ pc[t] = "idle" => t \in holds
         /\ \E w \in {"idle", "lock", "dispatch", "poll"} : pc' = [pc EXCEPT ![t] = w]
  BY DEF set_call, sync_call, CanCall, impl_sync_and_acquire_instance, prepare, read,
         release_instance, CallStep
<1>3. CASE pc' = pc
  BY <1>1, <1>3, Kept DEF Good
<1>4. ASSUME NEW w \in {"idle", "lock", "dispatch", "poll"}, pc' = [pc EXCEPT ![t] = w],
             pc[t] \in {"idle", "lock", "dispatch", "poll"}
      PROVE  Good'
  <2>1. pc' \in [Threads -> Places] /\ pc'[t] = w /\ \A u \in Threads \ {t} : pc'[u] = pc[u]
    BY <1>4 DEF Good, Places, Calling
  <2>2. /\ pc[t] \notin Locked /\ pc'[t] \notin Locked
        /\ pc'[t] # "init" /\ pc'[t] # "destroy"
        /\ pc'[t] \in Calling => t \in holds
    BY <1>2, <1>4, <2>1 DEF Locked, Initializing, Destroying, Calling, Good, Phases, Phase
  <2> QED
    BY <1>1, <2>1, <2>2, Kept
<1> QED
  BY <1>2, <1>3, <1>4

\* control_thread neither begins nor joins itself.
LEMMA ControlSteps == ASSUME Good, control_thread PROVE Good'
<1>1. UNCHANGED <<kept, locks>> /\ pc' = pc /\ thread # "none" /\ thread' # "none"
  BY DEF control_thread, control_dispatch, control_prepare, control_flush, control_flush_fails,
         control_read, control_dispatch_read, control_shutdown, ControlStep, common, control,
         bounds, kept, locks
<1> QED
  BY <1>1, Kept DEF Good

LEMMA ServerSteps ==
    ASSUME Good, (\E t \in Threads : answer_sync(t)) \/ send_event \/ server_exits \/ server_restarts
    PROVE  Good'
<1>1. UNCHANGED <<kept, locks>> /\ pc' = pc /\ thread' = thread
  BY DEF answer_sync, send_event, server_exits, server_restarts, ServerStep, common, control, kept,
         locks
<1> QED
  BY <1>1, Kept DEF Good

\* A crash is the end, and an overlap stays one.
LEMMA TheEnd ==
    ASSUME Next
    PROVE  /\ overlapped => overlapped'
           /\ crashed => crashed' /\ UNCHANGED <<controller, display>>
<1>1. ASSUME NEW t \in Threads, ilm_init(t) \/ ilm_destroy(t) \/ set_call(t) \/ sync_call(t)
      PROVE  ~crashed /\ overlapped' = overlapped
  BY <1>1 DEF ilm_init, ilm_destroy, set_call, sync_call, CanCall, At
<1>2. ASSUME NEW t \in Threads, NEW from,
             InitStep(t, from) \/ DestroyStep(t, from) \/ CallStep(t, from)
      PROVE  ~crashed /\ (overlapped => overlapped')
  <2>1. CASE InitStep(t, from)
    BY <2>1 DEF InitStep, At
  <2>2. CASE DestroyStep(t, from)
    BY <2>2 DEF DestroyStep, At
  <2>3. CASE CallStep(t, from)
    BY <2>3 DEF CallStep, At
  <2> QED
    BY <1>2, <2>1, <2>2, <2>3
<1>3. ASSUME NEW t \in Threads, InLibrary(t) PROVE ~crashed /\ (overlapped => overlapped')
  BY <1>2, <1>3 DEF InLibrary, lock_initialize, already_initialized, wayland_init,
     init_control_globals, init_control_screens, init_control_failed, lock_deinitialize,
     ilm_destroy_counted, send_shutdown_event, ilmControl_destroy, wayland_destroy, close_read,
     wl_display_disconnect, impl_sync_and_acquire_instance, prepare, read, release_instance
<1>4. ASSUME control_thread PROVE ~crashed /\ overlapped' = overlapped
  BY <1>4 DEF control_thread, control_dispatch, control_prepare, control_flush,
     control_flush_fails, control_read, control_dispatch_read, control_shutdown, ControlStep
<1>5. ASSUME (\E t \in Threads : answer_sync(t)) \/ send_event \/ server_exits \/ server_restarts
      PROVE  UNCHANGED <<crashed, overlapped, controller, display>>
  BY <1>5 DEF answer_sync, send_event, server_exits, server_restarts, ServerStep, control
<1> QED
  BY <1>1, <1>3, <1>4, <1>5 DEF Next

\* Only an ilm_init crashes without an overlap, and only for the controller of
\* an earlier one that failed.
LEMMA Crashes ==
    ASSUME Good, ~crashed, Next, ~overlapped', crashed'
    PROVE  controller' \notin {0, display'}
<1>1. ASSUME NEW t \in Threads, ilm_init(t) \/ ilm_destroy(t) \/ set_call(t) \/ sync_call(t)
      PROVE  FALSE
  BY <1>1 DEF ilm_init, ilm_destroy, set_call, sync_call, CanCall
<1>2. ASSUME NEW t \in Threads, NEW from, CallStep(t, from) PROVE FALSE
  BY <1>2 DEF CallStep
<1>3. ASSUME NEW t \in Threads,
             \/ lock_initialize(t) \/ already_initialized(t) \/ init_control_failed(t)
             \/ lock_deinitialize(t) \/ ilm_destroy_counted(t) \/ send_shutdown_event(t)
             \/ wayland_destroy(t) \/ close_read(t)
             \/ impl_sync_and_acquire_instance(t) \/ prepare(t) \/ read(t) \/ release_instance(t)
      PROVE  FALSE
  BY <1>2, <1>3 DEF lock_initialize, already_initialized, init_control_failed, lock_deinitialize,
     ilm_destroy_counted, send_shutdown_event, wayland_destroy, close_read,
     impl_sync_and_acquire_instance, prepare, read, release_instance
<1>4. ASSUME NEW t \in Threads, pc[t] \in Locked
      PROVE  Phase(t) /\ \A u \in Threads \ {t} : pc[u] \notin Locked
  BY <1>4, Alone
<1>5. ASSUME NEW t \in Threads, wayland_init(t) PROVE FALSE
  <2>1. pc[t] = "connect" /\ ~valid /\ display # 0
    BY <1>5 DEF wayland_init, InitStep, At
  <2>2. Settled
    BY <1>4, <2>1 DEF Phase, Locked, Initializing
  <2> QED
    BY <2>1, <2>2 DEF Settled
<1>6. ASSUME NEW t \in Threads, init_control_globals(t) PROVE controller' \notin {0, display'}
  <2>1. /\ pc[t] = "globals" /\ (controller # 0 \/ display = 0)
        /\ UNCHANGED <<controller, display>>
    BY <1>6 DEF init_control_globals, InitStep, At, wayland
  <2>2. display # 0 /\ controller < display /\ controller \in Nat /\ display \in Nat
    BY <1>4, <2>1 DEF Phase, Locked, Initializing, Good, LTypes
  <2> QED
    BY <2>1, <2>2
<1>7. ASSUME NEW t \in Threads, init_control_screens(t) PROVE controller' \notin {0, display'}
  <2>1. pc[t] = "screens" /\ controller # display /\ UNCHANGED <<controller, display>>
    BY <1>7 DEF init_control_screens, InitStep, At, wayland
  <2>2. controller # 0
    BY <1>4, <2>1 DEF Phase, Locked, Initializing
  <2> QED
    BY <2>1, <2>2
<1>8. ASSUME NEW t \in Threads, ilmControl_destroy(t) \/ wl_display_disconnect(t) PROVE FALSE
  <2>1. pc[t] \in {"join", "close_read"} /\ thread \notin {"ended"} => pc[t] = "close_read"
    BY <1>8 DEF ilmControl_destroy, wl_display_disconnect, DestroyStep, At
  <2>2. /\ Phase(t) /\ \A u \in Threads \ {t} : pc[u] \notin Locked
    BY <1>4, <1>8 DEF ilmControl_destroy, wl_display_disconnect, DestroyStep, At, Locked,
       Destroying
  <2>3. holds = {t}
    BY <1>8, <2>2 DEF Phase, ilmControl_destroy, wl_display_disconnect, DestroyStep, At
  <2>4. \A u \in Threads \ {t} : pc[u] \notin Calling \cup {"globals", "screens"}
    BY <2>2, <2>3 DEF Good, Phases, Phase, Locked, Initializing
  <2> QED
    BY <1>8, <2>2, <2>4 DEF Phase, ilmControl_destroy, wl_display_disconnect, DestroyStep, At,
       Others
<1>9. ASSUME control_thread PROVE FALSE
  BY <1>9 DEF control_thread, control_dispatch, control_prepare, control_flush,
     control_flush_fails, control_read, control_dispatch_read, control_shutdown, ControlStep
<1>10. ASSUME (\E t \in Threads : answer_sync(t)) \/ send_event \/ server_exits \/ server_restarts
       PROVE  FALSE
  BY <1>10 DEF answer_sync, send_event, server_exits, server_restarts, ServerStep
<1> QED
  BY <1>1, <1>3, <1>5, <1>6, <1>7, <1>8, <1>9, <1>10 DEF Next, InLibrary

LEMMA LifecycleInit == Init => LInv
<1> SUFFICES ASSUME Init PROVE Good
  BY DEF LInv, Init
<1>1. LTypes /\ Settled
  <2>1. /\ controller \in Nat /\ display \in Nat /\ connects \in Nat
        /\ controller <= connects /\ display <= connects
    BY DEF Init
  <2> QED
    BY <2>1, FS_EmptySet DEF Init, LTypes, Settled
<1>2. \A t \in Threads : pc[t] = "idle"
  BY DEF Init
<1>3. pc \in [Threads -> Places]
  BY DEF Init, Places
<1>4. OneAtATime /\ Phases /\ Locks
  BY <1>1, <1>2, LifecycleAssumption DEF Init, OneAtATime, Phases, Phase, Locks, Initializing,
     Destroying, Calling
<1> QED
  BY <1>1, <1>3, <1>4 DEF Good

LEMMA LifecycleNext == LInv /\ [Next]_vars => LInv'
<1> SUFFICES ASSUME LInv, [Next]_vars, ~overlapped'
             PROVE  IF crashed' THEN controller' \notin {0, display'} ELSE Good'
  BY DEF LInv
<1>1. CASE UNCHANGED vars
  <2>1. /\ UNCHANGED <<kept, locks>> /\ pc' = pc /\ thread' = thread
        /\ UNCHANGED <<crashed, overlapped, controller, display>>
    BY <1>1 DEF vars, common, control, wayland, bounds, kept, locks
  <2>2. ASSUME Good PROVE Good'
    BY <2>1, <2>2, Kept DEF Good
  <2> QED
    BY <2>1, <2>2 DEF LInv
<1>2. CASE Next /\ crashed
  BY <1>2, TheEnd DEF LInv
<1>3. CASE Next /\ ~crashed
  <2>1. Good
    BY <1>3, TheEnd DEF LInv
  <2>2. CASE crashed'
    BY <1>3, <2>1, <2>2, Crashes
  <2>3. CASE ~crashed'
    <3>1. ASSUME NEW t \in Threads, ilm_init(t) \/ ilm_destroy(t) PROVE Good'
      BY <2>1, <3>1, Begins
    <3>2. ASSUME NEW t \in Threads, set_call(t) \/ sync_call(t) PROVE Good'
      BY <2>1, <3>2, CallSteps
    <3>3. ASSUME NEW t \in Threads, InLibrary(t) PROVE Good'
      BY <2>1, <2>3, <3>3, InitSteps, DestroySteps, CallSteps DEF InLibrary
    <3>4. ASSUME control_thread PROVE Good'
      BY <2>1, <3>4, ControlSteps
    <3> QED
      BY <1>3, <2>1, <2>3, <3>1, <3>2, <3>3, <3>4, ServerSteps DEF Next
  <2> QED
    BY <2>2, <2>3
<1> QED
  BY <1>1, <1>2, <1>3

\* A thread between its ilm_init and ilm_destroy finds the library working, also
\* while others are in theirs, and the last one lets go of everything, for any
\* number of threads and whatever the compositor does, until an ilm_init and an
\* ilm_destroy hold their two locks at once (ilm_init, ilm_destroy,
\* init_control, wayland_destroy).
THEOREM HoldersAlwaysServed == Spec => []HoldersServed
<1>1. ASSUME Good, ~crashed PROVE HoldersServed
  <2>1. CASE \A t \in Threads : pc[t] \notin Locked
    BY <1>1, <2>1 DEF Good, Phases, Settled, HoldersServed
  <2>2. ASSUME NEW t \in Threads, pc[t] \in Locked PROVE HoldersServed
    <3>1. Phase(t)
      BY <1>1 DEF Good, Phases
    <3>2. Cardinality({}) = 0 /\ Cardinality({t}) = 1
      BY FS_EmptySet, FS_Singleton
    <3>3. CASE pc[t] \in {"connect", "count"}
      BY <1>1, <2>2, <3>1, <3>3 DEF Phase, Settled, HoldersServed
    <3>4. CASE pc[t] \in {"globals", "screens", "undo"}
      BY <1>1, <2>2, <3>1, <3>2, <3>4 DEF Phase, HoldersServed, Initializing
    <3>5. CASE pc[t] \in {"join", "platform", "close_poll", "close_read"}
      BY <1>1, <2>2, <3>1, <3>2, <3>5 DEF Phase, HoldersServed, Destroying
    <3> QED
      BY <2>2, <3>3, <3>4, <3>5 DEF Locked, Initializing, Destroying
  <2> QED
    BY <2>1, <2>2
<1>2. LInv => HoldersServed
  BY <1>1 DEF LInv, HoldersServed
<1>3. LInv /\ [Next]_vars => LInv'
  BY LifecycleNext
<1> QED
  BY <1>2, <1>3, LifecycleInit, PTL DEF Spec

-----------------------------------------------------------------------------
(* The analysis of LayerManagerControl.                                    *)

-----------------------------------------------------------------------------
(* Rectangles.                                                             *)

Corners == [x : Int, y : Int, z : Int, w : Int]
Upright(A) == A.x <= A.z /\ A.y <= A.w
Covers(A, p) == p[1] \in A.x .. A.z /\ p[2] \in A.y .. A.w

\* intersect (util.cpp) tells exactly whether two rectangles have a pixel in
\* common, be it at a corner, in a cross or one inside the other.
THEOREM IntersectExact ==
    ASSUME NEW A \in Corners, NEW B \in Corners, Upright(A), Upright(B)
    PROVE  intersect(A, B) <=> \E p \in Int \X Int : Covers(A, p) /\ Covers(B, p)
<1> DEFINE larger(a, b) == IF a >= b THEN a ELSE b
           p == <<larger(A.x, B.x), larger(A.y, B.y)>>
<1>1. ASSUME intersect(A, B) PROVE p \in Int \X Int /\ Covers(A, p) /\ Covers(B, p)
  BY <1>1 DEF intersect, inside, between, Corners, Upright, Covers
<1>2. ASSUME NEW q \in Int \X Int, Covers(A, q), Covers(B, q) PROVE intersect(A, B)
  BY <1>2 DEF intersect, inside, between, Corners, Upright, Covers
<1> QED BY <1>1, <1>2

\* Integer division, at the two ends of a surface.
LEMMA DivLow ==
    ASSUME NEW n \in Nat, NEW d \in Nat \ {0}, NEW p \in Nat, n < (p + 1) * d
    PROVE  n \div d \in Nat /\ n \div d <= p
  BY SMT

LEMMA DivHigh ==
    ASSUME NEW n \in Nat, NEW d \in Nat \ {0}, NEW p \in Nat, n >= p * d
    PROVE  n \div d \in Nat /\ n \div d >= p
  BY SMT

LEMMA Small ==
    ASSUME NEW n \in Nat, NEW d \in Nat \ {0}, n < d
    PROVE  n % d = n
  BY SMT

LEMMA Scales ==
    ASSUME NEW a \in Nat, NEW b \in Nat, NEW c \in Nat, a <= b
    PROVE  a * c \in Nat /\ b * c \in Nat /\ a * c <= b * c
  BY SMT

LEMMA IntMaxIs == IntMax \in Nat /\ IntMax < Exactness /\ Exactness \in Nat \ {0}
BY SceneAssumption DEF IntMax

\* The rounding does not take what is left of the end of a pixel p past it ...
LEMMA RoundedBelow ==
    ASSUME NEW n \in Nat, NEW size \in Nat \ {0}, NEW width, NEW p \in 0 .. IntMax,
           n <= p * size, NEW i \in ToInts(n, size, width)
    PROVE  i \in Int /\ i <= p
<1> DEFINE K == Exactness
           e == IF size = width THEN 0 ELSE n
           D == size * K
<1>1. p \in Nat /\ p < K /\ p <= IntMax /\ K \in Nat \ {0} /\ IntMax \in Nat
  BY IntMaxIs
<1>2. e \in Nat /\ e <= n /\ p * size \in Nat /\ n * K \in Nat
  BY <1>1, Scales
<1>3. D \in Nat \ {0}
  BY <1>1, SMT
<1>4. n * K <= (p * size) * K /\ (p * size) * K \in Nat
  BY <1>1, <1>2, Scales
<1>5. p * size < K * size /\ K * size = D
  BY <1>1, SMT
<1>6. (p * size) * K + D = (p + 1) * D
  BY <1>1, SMT
<1>7. n * K + e \in Nat /\ n * K + e < (p + 1) * D
  <2> HIDE DEF e, D
  <2>1. (p + 1) * D \in Nat
    BY <1>1, <1>3, SMT
  <2> QED BY <1>2, <1>3, <1>4, <1>5, <1>6, <2>1
<1> HIDE DEF D
<1>8. (n * K + e) \div D \in Nat /\ (n * K + e) \div D <= p
  BY <1>1, <1>3, <1>7, DivLow
<1>9. PICK j \in (n * K - e) \div D .. (n * K + e) \div D : i = IF j <= IntMax THEN j ELSE Indefinite
  BY DEF ToInts, D
<1>10. j \in Int /\ j <= p
  BY <1>1, <1>8, <1>9
<1> QED BY <1>1, <1>9, <1>10

\* ... nor what is right of the beginning of the pixel after it before that,
\* unless it is scaled and within the next one.
LEMMA RoundedAbove ==
    ASSUME NEW n \in Nat, NEW size \in Nat \ {0}, NEW width, NEW p \in Nat,
           n >= (p + 1) * size, size = width \/ n >= (p + 2) * size, n <= IntMax * size,
           NEW i \in ToInts(n, size, width)
    PROVE  i \in Nat /\ i <= IntMax /\ i >= p + 1
<1> DEFINE K == Exactness
           e == IF size = width THEN 0 ELSE n
           D == size * K
<1>1. K \in Nat \ {0} /\ IntMax \in Nat /\ IntMax < K /\ IntMax \in 0 .. IntMax
  BY IntMaxIs
<1>2. D \in Nat \ {0} /\ n * K \in Nat /\ (p + 1) * D \in Nat
  BY <1>1, SMT
<1>3. e \in Nat /\ n * K - e >= (p + 1) * D
  <2>1. CASE size = width
    <3>1. ((p + 1) * size) * K <= n * K
      <4>1. (p + 1) * size \in Nat
        BY SMT
      <4> QED BY <1>1, <4>1, Scales
    <3>2. ((p + 1) * size) * K = (p + 1) * D
      BY <1>1, SMT
    <3>3. e = 0
      BY <2>1
    <3> HIDE DEF D, e
    <3> QED BY <1>2, <3>1, <3>2, <3>3
  <2>2. CASE size # width
    <3>1. ((p + 2) * size) * K <= n * K
      <4>1. (p + 2) * size \in Nat /\ n >= (p + 2) * size
        BY <2>2, SMT
      <4> QED BY <1>1, <4>1, Scales
    <3>2. ((p + 2) * size) * K = (p + 1) * D + D
      BY <1>1, SMT
    <3>3. n <= D
      <4>1. IntMax * size <= K * size /\ IntMax * size \in Nat /\ K * size = D
        BY <1>1, SMT
      <4> QED BY <1>2, <4>1
    <3>4. e = n
      BY <2>2
    <3> HIDE DEF D, e
    <3> QED BY <1>2, <3>1, <3>2, <3>3, <3>4
  <2> QED BY <2>1, <2>2
<1>4. i <= IntMax
  BY <1>1, RoundedBelow
<1> HIDE DEF D, e
<1>5. n * K - e \in Nat /\ p + 1 \in Nat
  BY <1>2, <1>3
<1>6. (n * K - e) \div D \in Nat /\ (n * K - e) \div D >= p + 1
  BY <1>2, <1>3, <1>5, DivHigh
<1>7. PICK j \in (n * K - e) \div D .. (n * K + e) \div D : i = IF j <= IntMax THEN j ELSE Indefinite
  BY DEF ToInts, D, e
<1>8. j <= IntMax
  BY <1>1, <1>7, RoundedBelow DEF ToInts, D, e
<1> QED BY <1>4, <1>6, <1>7, <1>8

\* The range in which the tool's arithmetic shows every pixel.
Fits(position, length, from, size, to, width) ==
    /\ {position, length, from, size, to, width} \subseteq Nat
    /\ position - from < Uint
    /\ InRange(position, length, from, size, to, width)

\* A pixel that a surface firmly has is not left of the first and not right of
\* the last one getSurfaceScreenCoordinates may compute, however the layer
\* moves and stretches the surface.
LEMMA PixelsAreWithin ==
    ASSUME NEW p \in 0 .. IntMax, NEW position, NEW length, NEW from, NEW size, NEW to, NEW width,
           Fits(position, length, from, size, to, width),
           Firm(p, position, length, from, size, to, width),
           NEW x \in FirstPixels(position, from, size, to, width),
           NEW z \in LastPixels(position, length, from, size, to, width)
    PROVE  x \in Int /\ z \in Int /\ p \in x .. z
<1> DEFINE offset == position - from
           first == to * size + width * offset
           last  == to * size + width * (offset + length)
<1>1. /\ position \in Nat /\ length \in Nat /\ from \in Nat /\ to \in Nat /\ width \in Nat
      /\ size \in Nat \ {0} /\ Uint \in Nat \ {0} /\ offset \in Nat /\ offset < Uint
      /\ last <= IntMax * size
  <2>1. /\ position \in Nat /\ length \in Nat /\ from \in Nat /\ to \in Nat /\ width \in Nat
        /\ size \in Nat /\ offset < Uint
    BY DEF Fits
  <2>2. size > 0
    BY DEF Firm, Whole
  <2>3. position >= from /\ (size > 0 => last <= IntMax * size)
    BY DEF Fits, InRange
  <2>4. offset \in Nat
    BY <2>1, <2>3
  <2> HIDE DEF offset, last
  <2> QED BY <2>1, <2>2, <2>3, <2>4, SceneAssumption
<1>2. offset % Uint = offset
  BY <1>1, Small
<1>3. /\ (p - to) * size >= width * offset
      /\ (p + 1 - to) * size <= width * (offset + length)
      /\ size = width \/ (p + 1 + 1 - to) * size <= width * (offset + length)
  <2>1. position + length - from = offset + length
    BY <1>1
  <2> QED BY <2>1 DEF Firm, Whole
<1>4. first \in Nat /\ last \in Nat
  <2>1. to * size \in Nat /\ width * offset \in Nat /\ width * (offset + length) \in Nat
    BY <1>1, SMT
  <2> QED BY <2>1
<1>p. p \in Nat /\ p <= IntMax /\ IntMax \in Nat
  BY IntMaxIs
<1>5. first <= p * size
  <2>1. (p - to) * size = p * size - to * size
    BY <1>1, <1>p, SMT
  <2>2. to * size \in Nat /\ width * offset \in Nat /\ p * size \in Nat
    BY <1>1, <1>p, SMT
  <2> QED BY <1>3, <2>1, <2>2
<1>6. last >= (p + 1) * size /\ (size = width \/ last >= (p + 2) * size)
  <2>1. /\ (p + 1 - to) * size = (p + 1) * size - to * size
        /\ (p + 1 + 1 - to) * size = (p + 2) * size - to * size
    BY <1>1, <1>p, SMT
  <2>2. /\ to * size \in Nat /\ width * (offset + length) \in Nat
        /\ (p + 1) * size \in Nat /\ (p + 2) * size \in Nat
    BY <1>1, <1>p, SMT
  <2> QED BY <1>3, <2>1, <2>2
<1>7. x \in Int /\ x <= p
  <2>1. x \in ToInts(first, size, width)
    BY <1>1, <1>2 DEF FirstPixels
  <2> HIDE DEF first
  <2> QED BY <1>1, <1>4, <1>5, <2>1, RoundedBelow
<1>8. z \in Int /\ p <= z
  <2>1. PICK i \in ToInts(last, size, width) : \E j \in LessOne(i) : z = NotNegative(j)
    BY <1>1, <1>2 DEF LastPixels
  <2>2. i \in Nat /\ i <= IntMax /\ i >= p + 1
    <3> HIDE DEF last
    <3> QED BY <1>1, <1>4, <1>6, <1>p, <2>1, RoundedAbove
  <2>3. LessOne(i) = {i - 1}
    BY <1>p, <2>2 DEF LessOne
  <2> QED BY <1>p, <2>1, <2>2, <2>3 DEF NotNegative
<1> QED BY <1>p, <1>7, <1>8

\* Surface s was captured on layer l, both as they are, and the tool's
\* arithmetic goes well for it.
Captured(s, l) ==
    /\ scene.layerOf[s] = l
    /\ scene.surface[s] = surface[s] /\ scene.layer[l] = layer[l]
    /\ LET r == surface[s].dst
           v == layer[l]
       IN  /\ Fits(r.x, r.w, v.src.x, v.src.w, v.dst.x, v.dst.w)
           /\ Fits(r.y, r.h, v.src.y, v.src.h, v.dst.y, v.dst.h)

\* Whatever coordinates are computed for a captured surface, they cover every
\* pixel that it is shown at.
LEMMA CoordinatesCover ==
    ASSUME NEW s, NEW l, NEW p \in Pixels, Captured(s, l), Shows(l, s, p),
           NEW A \in getSurfaceScreenCoordinates(s)
    PROVE  A \in Corners /\ Upright(A) /\ Covers(A, p)
<1> DEFINE r == surface[s].dst
           v == layer[l]
<1>1. /\ Fits(r.x, r.w, v.src.x, v.src.w, v.dst.x, v.dst.w)
      /\ Fits(r.y, r.h, v.src.y, v.src.h, v.dst.y, v.dst.h)
  BY DEF Captured
<1>2. /\ Firm(p[1], r.x, r.w, v.src.x, v.src.w, v.dst.x, v.dst.w)
      /\ Firm(p[2], r.y, r.h, v.src.y, v.src.h, v.dst.y, v.dst.h)
  BY DEF Shows
<1>3. p[1] \in 0 .. IntMax /\ p[2] \in 0 .. IntMax
  BY DEF Pixels
<1>4. /\ A = [x |-> A.x, y |-> A.y, z |-> A.z, w |-> A.w]
      /\ A.x \in FirstPixels(r.x, v.src.x, v.src.w, v.dst.x, v.dst.w)
      /\ A.y \in FirstPixels(r.y, v.src.y, v.src.h, v.dst.y, v.dst.h)
      /\ A.z \in LastPixels(r.x, r.w, v.src.x, v.src.w, v.dst.x, v.dst.w)
      /\ A.w \in LastPixels(r.y, r.h, v.src.y, v.src.h, v.dst.y, v.dst.h)
  BY DEF Captured, getSurfaceScreenCoordinates
<1>5. A.x \in Int /\ A.z \in Int /\ p[1] \in A.x .. A.z
  BY <1>1, <1>2, <1>3, <1>4, PixelsAreWithin
<1>6. A.y \in Int /\ A.w \in Int /\ p[2] \in A.y .. A.w
  BY <1>1, <1>2, <1>3, <1>4, PixelsAreWithin
<1>7. A \in Corners
  BY <1>4, <1>5, <1>6 DEF Corners
<1> QED BY <1>3, <1>5, <1>6, <1>7 DEF Upright, Covers

\* A surface that covers a pixel of the target is found to occlude it
\* (analyzeOcclusion), wherever layers place, crop and stretch the two and
\* however the doubles are rounded.
THEOREM OcclusionIsFound ==
    ASSUME NEW l, NEW s, NEW k, NEW p \in Pixels,
           Captured(target, l), Captured(s, k),
           Shows(l, target, p), Shows(k, s, p),
           NEW A \in getSurfaceScreenCoordinates(target),
           NEW B \in getSurfaceScreenCoordinates(s)
    PROVE  Occludes(A, B)
<1>1. A \in Corners /\ Upright(A) /\ Covers(A, p)
  BY CoordinatesCover
<1>2. B \in Corners /\ Upright(B) /\ Covers(B, p)
  BY CoordinatesCover
<1>3. p \in Int \X Int
  BY IntMaxIs DEF Pixels
<1>4. intersect(A, B)
  BY <1>1, <1>2, <1>3, IntersectExact
<1> QED BY <1>4 DEF Occludes

-----------------------------------------------------------------------------
(* Sequences laid end to end.                                              *)

LEMMA LeastNatural ==
    ASSUME NEW S, S \subseteq Nat, S # {}
    PROVE  \E m \in S : \A k \in S : m <= k
<1>1. IsWellFoundedOn(StrictSubsetOrdering(Nat), FiniteSubsetsOf(Nat))
  BY FS_StrictSubsetOrderingWellFounded
<1> DEFINE T == {0 .. n : n \in S}
<1>2. T \subseteq FiniteSubsetsOf(Nat)
  <2> SUFFICES ASSUME NEW n \in S PROVE 0 .. n \in FiniteSubsetsOf(Nat)
    OBVIOUS
  <2>1. IsFiniteSet(0 .. n) /\ 0 .. n \subseteq Nat
    BY FS_Interval
  <2> QED BY <2>1 DEF FiniteSubsetsOf
<1>3. PICK U \in T : \A V \in T : <<V, U>> \notin StrictSubsetOrdering(Nat)
  <2>1. T # {}
    OBVIOUS
  <2> HIDE DEF T
  <2> QED BY <1>1, <1>2, <2>1, WFMin
<1>4. PICK m \in S : U = 0 .. m
  BY <1>3
<1>5. ASSUME NEW k \in S, ~(m <= k) PROVE FALSE
  <2>1. 0 .. k \in T /\ <<0 .. k, U>> \in StrictSubsetOrdering(Nat)
    BY <1>4, <1>5 DEF StrictSubsetOrdering
  <2> QED BY <1>3, <2>1
<1> QED BY <1>5

Has(q, a) == \E i \in DOMAIN q : q[i] = a
Before(q, a, b) == \E i, j \in DOMAIN q : i < j /\ q[i] = a /\ q[j] = b

LEMMA JoinHas ==
    ASSUME NEW X, NEW q \in Seq(X), NEW r \in Seq(X), NEW a, NEW b
    PROVE  /\ Has(q, a) \/ Has(r, a) => Has(q \o r, a)
           /\ Before(q, a, b) \/ Before(r, a, b) \/ (Has(q, a) /\ Has(r, b))
                  => Before(q \o r, a, b)
<1>1. /\ q \o r \in Seq(X) /\ Len(q \o r) = Len(q) + Len(r)
      /\ \A i \in DOMAIN q : i \in DOMAIN (q \o r) /\ (q \o r)[i] = q[i]
      /\ \A i \in DOMAIN r : /\ Len(q) + i \in DOMAIN (q \o r)
                             /\ (q \o r)[Len(q) + i] = r[i]
  OBVIOUS
<1>2. \A i \in DOMAIN q, j \in DOMAIN r : i < Len(q) + j
  OBVIOUS
<1>3. \A i, j \in DOMAIN r : i < j => Len(q) + i < Len(q) + j
  OBVIOUS
<1>4. PICK u : u = q \o r
  OBVIOUS
<1>5. Has(q, a) \/ Has(r, a) => Has(u, a)
  BY <1>1, <1>4 DEF Has
<1>6. Before(q, a, b) => Before(u, a, b)
  BY <1>1, <1>4 DEF Before
<1>7. Before(r, a, b) => Before(u, a, b)
  BY <1>1, <1>3, <1>4 DEF Before
<1>8. Has(q, a) /\ Has(r, b) => Before(u, a, b)
  BY <1>1, <1>2, <1>4 DEF Has, Before
<1> QED BY <1>4, <1>5, <1>6, <1>7, <1>8

\* f[i] is the first i sequences of q laid end to end.
Joined(q, n, f) == f = [i \in 1 .. n |-> IF i = 1 THEN q[i] ELSE f[i - 1] \o q[i]]

LEMMA JoinedExist ==
    ASSUME NEW q, NEW n \in Nat
    PROVE  \E f : Joined(q, n, f)
<1>1. PICK Bad : Bad = {m \in Nat : ~ \E f : Joined(q, m, f)}
  OBVIOUS
<1>2. ASSUME Bad # {} PROVE FALSE
  <2>1. PICK m \in Bad : \A k \in Bad : m <= k
    BY <1>1, <1>2, LeastNatural
  <2>2. m \in Nat
    BY <1>1
  <2>3. CASE m = 0
    <3>1. Joined(q, m, <<>>)
      BY <2>3 DEF Joined
    <3> QED BY <1>1, <2>1, <3>1
  <2>4. CASE m # 0
    <3>1. m - 1 \in Nat /\ ~(m <= m - 1)
      BY <2>2, <2>4
    <3>2. PICK g : Joined(q, m - 1, g)
      BY <1>1, <2>1, <3>1
    <3>3. \A i \in 1 .. m - 1 : g[i] = IF i = 1 THEN q[i] ELSE g[i - 1] \o q[i]
      BY <3>2 DEF Joined
    <3>4. PICK f : f = [i \in 1 .. m |-> IF i < m THEN g[i]
                                         ELSE IF i = 1 THEN q[i] ELSE g[i - 1] \o q[i]]
      OBVIOUS
    <3>5. \A i \in 1 .. m : f[i] = IF i = 1 THEN q[i] ELSE f[i - 1] \o q[i]
      <4> SUFFICES ASSUME NEW i \in 1 .. m
                   PROVE  f[i] = IF i = 1 THEN q[i] ELSE f[i - 1] \o q[i]
        OBVIOUS
      <4>1. f[i] = IF i = 1 THEN q[i] ELSE g[i - 1] \o q[i]
        BY <2>2, <3>3, <3>4
      <4>2. i # 1 => f[i - 1] = g[i - 1]
        BY <2>2, <3>4
      <4> QED BY <4>1, <4>2
    <3>6. Joined(q, m, f)
      BY <3>4, <3>5 DEF Joined
    <3> QED BY <1>1, <2>1, <3>6
  <2> QED BY <2>3, <2>4
<1> QED BY <1>1, <1>2

\* What is in one of the first n sequences of q is in r, in the same order, and
\* what is in an earlier one is before what is in a later one.
Keeps(q, n, r) ==
    /\ \A m \in 1 .. n : \A a, b : /\ Has(q[m], a) => Has(r, a)
                                   /\ Before(q[m], a, b) => Before(r, a, b)
    /\ \A m, k \in 1 .. n : \A a, b : m < k /\ Has(q[m], a) /\ Has(q[k], b) => Before(r, a, b)

LEMMA KeepsFirst ==
    ASSUME NEW q PROVE Keeps(q, 1, q[1])
BY DEF Keeps

LEMMA KeepsNext ==
    ASSUME NEW X, NEW q \in Seq(Seq(X)), NEW n \in 2 .. Len(q), NEW r \in Seq(X), Keeps(q, n - 1, r)
    PROVE  Keeps(q, n, r \o q[n])
<1>1. q[n] \in Seq(X) /\ \A m \in 1 .. n : m = n \/ m \in 1 .. n - 1
  OBVIOUS
<1>2. PICK u : u = r \o q[n]
  OBVIOUS
<1>3. \A a, b : /\ Has(r, a) \/ Has(q[n], a) => Has(u, a)
                /\ Before(r, a, b) \/ Before(q[n], a, b) \/ (Has(r, a) /\ Has(q[n], b))
                       => Before(u, a, b)
  BY <1>1, <1>2, JoinHas
<1>4. \A m \in 1 .. n : \A a, b : /\ Has(q[m], a) => Has(u, a)
                                  /\ Before(q[m], a, b) => Before(u, a, b)
  BY <1>1, <1>3 DEF Keeps
<1>5. ASSUME NEW m \in 1 .. n, NEW k \in 1 .. n, NEW a, NEW b, m < k, Has(q[m], a), Has(q[k], b)
      PROVE  Before(u, a, b)
  <2>1. m \in 1 .. n - 1
    BY <1>5
  <2>2. CASE k = n
    <3>1. Has(r, a)
      BY <1>5, <2>1 DEF Keeps
    <3> QED BY <1>3, <1>5, <2>2, <3>1
  <2>3. CASE k \in 1 .. n - 1
    BY <1>3, <1>5, <2>1, <2>3 DEF Keeps
  <2> QED BY <1>1, <2>2, <2>3
<1> QED BY <1>2, <1>4, <1>5 DEF Keeps

LEMMA JoinedKeeps ==
    ASSUME NEW X, NEW q \in Seq(Seq(X)), NEW f, Joined(q, Len(q), f)
    PROVE  \A i \in 1 .. Len(q) : f[i] \in Seq(X) /\ Keeps(q, i, f[i])
<1>1. PICK Bad : Bad = {i \in 1 .. Len(q) : ~(f[i] \in Seq(X) /\ Keeps(q, i, f[i]))}
  OBVIOUS
<1>2. ASSUME Bad # {} PROVE FALSE
  <2>1. Bad \subseteq Nat
    BY <1>1
  <2>2. PICK m \in Bad : \A k \in Bad : m <= k
    BY <1>2, <2>1, LeastNatural
  <2>3. m \in 1 .. Len(q) /\ q[m] \in Seq(X)
    BY <1>1
  <2>4. f[m] = IF m = 1 THEN q[m] ELSE f[m - 1] \o q[m]
    BY <2>3 DEF Joined
  <2>5. CASE m = 1
    BY <1>1, <2>3, <2>4, <2>5, KeepsFirst
  <2>6. CASE m # 1
    <3>1. m - 1 \in 1 .. Len(q) /\ ~(m <= m - 1) /\ m \in 2 .. Len(q)
      BY <2>3, <2>6
    <3>2. f[m - 1] \in Seq(X) /\ Keeps(q, m - 1, f[m - 1])
      BY <1>1, <2>2, <3>1
    <3>3. PICK r \in Seq(X) : r = f[m - 1]
      BY <3>2
    <3>4. f[m] = r \o q[m] /\ r \o q[m] \in Seq(X)
      <4>1. PICK s \in Seq(X) : s = q[m]
        BY <2>3
      <4>2. r \o s \in Seq(X)
        OBVIOUS
      <4> QED BY <2>4, <2>6, <3>3, <4>1, <4>2
    <3>5. Keeps(q, m, r \o q[m])
      BY <3>1, <3>2, <3>3, KeepsNext
    <3> QED BY <1>1, <3>4, <3>5
  <2> QED BY <2>5, <2>6
<1> QED BY <1>1, <1>2

LEMMA FlattenIsJoined ==
    ASSUME NEW q, Len(q) # 0, \E f : Joined(q, Len(q), f)
    PROVE  \E f : Joined(q, Len(q), f) /\ FlattenSeq(q) = f[Len(q)]
BY DEF FlattenSeq, Joined

LEMMA FlattenKeeps ==
    ASSUME NEW X, NEW q \in Seq(Seq(X))
    PROVE  FlattenSeq(q) \in Seq(X) /\ Keeps(q, Len(q), FlattenSeq(q))
<1>1. Len(q) \in Nat
  OBVIOUS
<1>2. CASE Len(q) = 0
  <2>1. FlattenSeq(q) = <<>> /\ q = <<>>
    BY <1>2 DEF FlattenSeq
  <2>2. <<>> \in Seq(X)
    OBVIOUS
  <2>3. Keeps(q, 0, <<>>)
    BY DEF Keeps
  <2> QED BY <1>2, <2>1, <2>2, <2>3
<1>3. CASE Len(q) # 0
  <2>1. PICK f : Joined(q, Len(q), f) /\ FlattenSeq(q) = f[Len(q)]
    BY <1>1, <1>3, JoinedExist, FlattenIsJoined
  <2>2. Len(q) \in 1 .. Len(q)
    BY <1>1, <1>3
  <2> QED BY <2>1, <2>2, JoinedKeeps
<1> QED BY <1>2, <1>3

-----------------------------------------------------------------------------
(* What is captured of a scene that stands still.                          *)

\* What there is has looks, and orders of what there is.
World ==
    /\ DOMAIN surface \subseteq Surfaces /\ \A s \in DOMAIN surface : surface[s] \in SurfaceLooks
    /\ DOMAIN layer \subseteq Layers /\ \A l \in DOMAIN layer : layer[l] \in LayerLooks
    /\ \A d \in Listed(Screens) : layersOn[d] \in Seq(DOMAIN layer)
    /\ \A l \in DOMAIN layer : surfacesOn[l] \in Seq(DOMAIN surface)

Shape ==
    /\ DOMAIN scene = {"layersOn", "screenOf", "layers", "layer", "surfacesOn", "layerOf",
                       "surfaces", "surface"}
    /\ DOMAIN scene.layersOn = Listed(Screens) /\ DOMAIN scene.layer = Layers
    /\ DOMAIN scene.surfacesOn = Layers /\ DOMAIN scene.surface = Surfaces

AfterOrders == {"surfaces", "surface", "analyze", "done"}
AfterLayers == {"order"} \cup AfterOrders
AfterScreens == {"layers", "layer"} \cup AfterLayers

\* The loop of a step has come to x, or the step is over.
Seen(place, after, x) == step \in after \/ (step = place /\ x \notin todo)

OnLayer(s, l) == l \in DOMAIN layer /\ s \in Listed(surfacesOn[l])
Screened ==
    /\ \A d \in Listed(Screens) :
          Seen("screens", AfterScreens, d) => scene.layersOn[d] = layersOn[d]
    /\ \A l \in Layers : scene.screenOf[l] # none =>
          \E d \in Listed(Screens) : l \in Listed(layersOn[d])
Layered ==
    /\ step \in {"layer", "order"} => scene.layers = DOMAIN layer
    /\ \A l \in DOMAIN layer : Seen("layer", AfterLayers, l) => scene.layer[l] = layer[l]
Ordered ==
    /\ \A l \in DOMAIN layer : Seen("order", AfterOrders, l) =>
          /\ scene.surfacesOn[l] = surfacesOn[l]
          /\ \A s \in Listed(surfacesOn[l]) : OnLayer(s, scene.layerOf[s])
    /\ \A s \in Surfaces : scene.layerOf[s] # none => OnLayer(s, scene.layerOf[s])
Surfaced ==
    /\ step \in {"surface", "analyze", "done"} => scene.surfaces = DOMAIN surface
    /\ \A s \in DOMAIN surface :
          Seen("surface", {"analyze", "done"}, s) => scene.surface[s] = surface[s]

CapInv ==
    /\ changes \in Nat /\ failed \in BOOLEAN
    /\ changes = 0 /\ ~failed => World /\ Shape /\ Screened /\ Layered /\ Ordered /\ Surfaced

LEMMA OrdersAreSequences ==
    ASSUME NEW S, IsFiniteSet(S), NEW q \in Orders(S)
    PROVE  q \in Seq(S)
<1>1. Cardinality(S) \in Nat
  BY FS_CardinalityType
<1>2. PICK n \in 0 .. Cardinality(S) : q \in [1 .. n -> S]
  BY <1>1 DEF Orders, SeqOf
<1> QED BY <1>1, <1>2

LEMMA CapInit == ToolInit => CapInv
<1> SUFFICES ASSUME ToolInit PROVE CapInv
  OBVIOUS
<1>1. PICK S \in SUBSET Surfaces, L \in SUBSET Layers :
        /\ surface \in [S -> SurfaceLooks] /\ layer \in [L -> LayerLooks]
        /\ surfacesOn \in [L -> Orders(S)] /\ layersOn \in [Listed(Screens) -> Orders(L)]
  BY DEF ToolInit
<1>2. IsFiniteSet(S) /\ IsFiniteSet(L)
  BY SceneAssumption, FS_Subset
<1>3. World
  <2>1. \A q \in Orders(S) : q \in Seq(S)
    BY <1>2, OrdersAreSequences
  <2>2. \A q \in Orders(L) : q \in Seq(L)
    BY <1>2, OrdersAreSequences
  <2>3. DOMAIN surface = S /\ DOMAIN layer = L
    BY <1>1
  <2> QED BY <1>1, <2>1, <2>2, <2>3 DEF World
<1>4. /\ step = "screens" /\ todo = Listed(Screens) /\ scene = EmptyScene
      /\ changes = 0 /\ failed = FALSE
  BY DEF ToolInit, Start
<1>5. Shape
  BY <1>4 DEF Shape, EmptyScene
<1>6. Screened
  BY <1>4 DEF Screened, EmptyScene, Seen, AfterScreens, AfterLayers, AfterOrders
<1>7. Layered
  BY <1>4 DEF Layered, Seen, AfterLayers, AfterOrders
<1>8. Ordered
  BY <1>4 DEF Ordered, EmptyScene, Seen, AfterOrders
<1>9. Surfaced
  BY <1>4 DEF Surfaced, Seen
<1> QED BY <1>3, <1>4, <1>5, <1>6, <1>7, <1>8, <1>9 DEF CapInv

\* A call that succeeds in a scene that stood still, and leaves it.
Succeeds == UNCHANGED <<world, changes, failed>> /\ changes = 0 /\ ~failed
Still == World /\ Shape /\ Screened /\ Layered /\ Ordered /\ Surfaced

\* Parts of the capture that a call for another part leaves.
LEMMA ScreenedKept ==
    ASSUME Still, UNCHANGED world, Shape',
           scene'.layersOn = scene.layersOn, scene'.screenOf = scene.screenOf,
           step \in AfterScreens
    PROVE  Screened'
  BY DEF Still, Screened, Seen, world

LEMMA LayeredKept ==
    ASSUME Still, UNCHANGED world, Shape',
           scene'.layers = scene.layers, scene'.layer = scene.layer,
           \/ step' \notin {"layer"} \cup AfterLayers
           \/ step \in AfterLayers /\ step' \in AfterLayers /\ (step' = "order" => step = "order")
    PROVE  Layered'
  BY DEF Still, Layered, Seen, world, AfterLayers, AfterOrders

LEMMA OrderedKept ==
    ASSUME Still, UNCHANGED world, Shape',
           scene'.surfacesOn = scene.surfacesOn, scene'.layerOf = scene.layerOf,
           \/ step' \notin {"order"} \cup AfterOrders
           \/ step \in AfterOrders
           \/ step' = "order" /\ todo' = DOMAIN layer
    PROVE  Ordered'
  BY DEF Still, Ordered, Seen, world, OnLayer, AfterOrders

LEMMA SurfacedKept ==
    ASSUME Still, UNCHANGED world, Shape',
           scene'.surfaces = scene.surfaces, scene'.surface = scene.surface,
           step' \notin {"surface", "analyze", "done"}
    PROVE  Surfaced'
  BY DEF Still, Surfaced, Seen, world

LEMMA CapScreens ==
    ASSUME Still, NEW d \in Listed(Screens), ilm_getLayerIDsOnScreen(d)
    PROVE  Still'
<1>1. /\ step = "screens" /\ d \in todo /\ UNCHANGED world
      /\ scene' = [scene EXCEPT
                     !.layersOn[d] = layersOn[d],
                     !.screenOf = [l \in Layers |-> IF l \in Listed(layersOn[d]) THEN d ELSE @[l]]]
      /\ \/ todo' = todo \ {d} /\ step' = "screens"
         \/ todo = {d} /\ step' = "layers"
  BY DEF ilm_getLayerIDsOnScreen, Advance, Unseen
<1>2. /\ Shape'
      /\ scene'.layersOn = [scene.layersOn EXCEPT ![d] = layersOn[d]]
      /\ scene'.screenOf = [l \in Layers |-> IF l \in Listed(layersOn[d]) THEN d ELSE scene.screenOf[l]]
      /\ scene'.layers = scene.layers /\ scene'.layer = scene.layer
      /\ scene'.surfacesOn = scene.surfacesOn /\ scene'.layerOf = scene.layerOf
      /\ scene'.surfaces = scene.surfaces /\ scene'.surface = scene.surface
  BY <1>1 DEF Still, Shape
<1>3. World'
  BY <1>1 DEF Still, World, world
<1>4. Screened'
  <2>1. \A e \in Listed(Screens) :
          Seen("screens", AfterScreens, e)' => e = d \/ Seen("screens", AfterScreens, e)
    BY <1>1 DEF Seen, AfterScreens, AfterLayers, AfterOrders
  <2>2. \A e \in Listed(Screens) :
          Seen("screens", AfterScreens, e)' => scene'.layersOn[e] = layersOn[e]
    BY <1>2, <2>1 DEF Still, Screened, Shape
  <2>3. \A l \in Layers : scene'.screenOf[l] # none =>
          \E e \in Listed(Screens) : l \in Listed(layersOn[e])
    BY <1>2 DEF Still, Screened
  <2> QED BY <1>1, <2>2, <2>3 DEF Screened, world
<1>5. step' \notin {"layer", "surface", "analyze", "done"} \cup AfterLayers
  BY <1>1 DEF AfterLayers, AfterOrders
<1>6. Layered' /\ Ordered' /\ Surfaced'
  BY <1>1, <1>2, <1>5, LayeredKept, OrderedKept, SurfacedKept DEF AfterLayers
<1> QED BY <1>2, <1>3, <1>4, <1>6 DEF Still

LEMMA CapLayers ==
    ASSUME Still, ilm_getLayerIDs
    PROVE  Still'
<1>1. /\ step = "layers" /\ UNCHANGED world /\ todo' = DOMAIN layer
      /\ scene' = [scene EXCEPT !.layers = DOMAIN layer]
      /\ step' = "layer" \/ (step' = "surfaces" /\ DOMAIN layer = {})
  BY DEF ilm_getLayerIDs, Unseen
<1>2. /\ Shape' /\ scene'.layers = DOMAIN layer
      /\ scene'.layersOn = scene.layersOn /\ scene'.screenOf = scene.screenOf
      /\ scene'.layer = scene.layer
      /\ scene'.surfacesOn = scene.surfacesOn /\ scene'.layerOf = scene.layerOf
      /\ scene'.surfaces = scene.surfaces /\ scene'.surface = scene.surface
  BY <1>1 DEF Still, Shape
<1>3. World'
  BY <1>1 DEF Still, World, world
<1>4. Screened'
  BY <1>1, <1>2, ScreenedKept DEF AfterScreens
<1>5. Layered'
  BY <1>1, <1>2 DEF Layered, Seen, world, AfterLayers, AfterOrders
<1>6. Ordered'
  BY <1>1, <1>2 DEF Still, Ordered, Seen, world, OnLayer, AfterOrders
<1>7. Surfaced'
  BY <1>1, <1>2, SurfacedKept
<1> QED BY <1>2, <1>3, <1>4, <1>5, <1>6, <1>7 DEF Still

LEMMA CapLayer ==
    ASSUME Still, NEW l \in Layers, ilm_getPropertiesOfLayer(l), ~failed'
    PROVE  Still'
<1>1. /\ step = "layer" /\ UNCHANGED world /\ l \in DOMAIN layer
      /\ scene' = [scene EXCEPT !.layer[l] = layer[l]]
      /\ \/ todo' = todo \ {l} /\ step' = "layer"
         \/ todo = {l} /\ step' = "order" /\ todo' = scene.layers
  BY DEF ilm_getPropertiesOfLayer, Advance, Unseen, Fail
<1>2. /\ Shape' /\ scene'.layers = scene.layers
      /\ scene'.layersOn = scene.layersOn /\ scene'.screenOf = scene.screenOf
      /\ scene'.layer = [scene.layer EXCEPT ![l] = layer[l]]
      /\ scene'.surfacesOn = scene.surfacesOn /\ scene'.layerOf = scene.layerOf
      /\ scene'.surfaces = scene.surfaces /\ scene'.surface = scene.surface
  BY <1>1 DEF Still, Shape
<1>3. World'
  BY <1>1 DEF Still, World, world
<1>4. Screened'
  BY <1>1, <1>2, ScreenedKept DEF AfterScreens
<1>5. scene.layers = DOMAIN layer
  BY <1>1 DEF Still, Layered
<1>6. Layered'
  <2>1. \A k \in DOMAIN layer : Seen("layer", AfterLayers, k)' => k = l \/ Seen("layer", AfterLayers, k)
    BY <1>1 DEF Seen, AfterLayers, AfterOrders
  <2>2. \A k \in DOMAIN layer : k \in Layers
    BY DEF Still, World
  <2> QED BY <1>1, <1>2, <1>5, <2>1, <2>2 DEF Still, Layered, Shape, world
<1>7. Ordered'
  BY <1>1, <1>2, <1>5, OrderedKept DEF AfterOrders
<1>8. Surfaced'
  BY <1>1, <1>2, SurfacedKept
<1> QED BY <1>2, <1>3, <1>4, <1>6, <1>7, <1>8 DEF Still

LEMMA CapOrder ==
    ASSUME Still, NEW l \in Layers, ilm_getSurfaceIDsOnLayer(l), ~failed'
    PROVE  Still'
<1>1. /\ step = "order" /\ UNCHANGED world /\ l \in DOMAIN layer
      /\ scene' = [scene EXCEPT
                     !.surfacesOn[l] = surfacesOn[l],
                     !.layerOf = [s \in Surfaces |->
                                    IF s \in Listed(surfacesOn[l]) THEN l ELSE @[s]]]
      /\ \/ todo' = todo \ {l} /\ step' = "order"
         \/ todo = {l} /\ step' = "surfaces"
  BY DEF ilm_getSurfaceIDsOnLayer, Advance, Unseen, Fail
<1>2. /\ Shape' /\ scene'.layers = scene.layers
      /\ scene'.layersOn = scene.layersOn /\ scene'.screenOf = scene.screenOf
      /\ scene'.layer = scene.layer
      /\ scene'.surfacesOn = [scene.surfacesOn EXCEPT ![l] = surfacesOn[l]]
      /\ scene'.layerOf = [s \in Surfaces |->
                             IF s \in Listed(surfacesOn[l]) THEN l ELSE scene.layerOf[s]]
      /\ scene'.surfaces = scene.surfaces /\ scene'.surface = scene.surface
  BY <1>1 DEF Still, Shape
<1>3. World'
  BY <1>1 DEF Still, World, world
<1>4. Screened'
  BY <1>1, <1>2, ScreenedKept DEF AfterScreens, AfterLayers
<1>5. Layered'
  BY <1>1, <1>2, LayeredKept DEF AfterLayers, AfterOrders
<1>6. Ordered'
  <2>1. \A k \in DOMAIN layer : Seen("order", AfterOrders, k)' => k = l \/ Seen("order", AfterOrders, k)
    BY <1>1 DEF Seen, AfterOrders
  <2>2. \A k \in DOMAIN layer : k \in Layers /\ \A s \in Listed(surfacesOn[k]) : s \in Surfaces
    BY DEF Still, World, Listed, ToSet
  <2>3. \A s \in Surfaces : OnLayer(s, scene.layerOf[s]) => OnLayer(s, scene'.layerOf[s])
    BY <1>1, <1>2 DEF OnLayer
  <2>4. \A s \in Surfaces : s \in Listed(surfacesOn[l]) => OnLayer(s, scene'.layerOf[s])
    BY <1>1, <1>2 DEF OnLayer
  <2>5. \A k \in DOMAIN layer : Seen("order", AfterOrders, k)' =>
          /\ scene'.surfacesOn[k] = surfacesOn[k]
          /\ \A s \in Listed(surfacesOn[k]) : OnLayer(s, scene'.layerOf[s])
    BY <1>2, <2>1, <2>2, <2>3, <2>4 DEF Still, Ordered, Shape
  <2>6. \A s \in Surfaces : scene'.layerOf[s] # none => OnLayer(s, scene'.layerOf[s])
    BY <1>2, <2>3, <2>4 DEF Still, Ordered
  <2> QED BY <1>1, <2>5, <2>6 DEF Ordered, OnLayer, world
<1>7. Surfaced'
  BY <1>1, <1>2, SurfacedKept
<1> QED BY <1>2, <1>3, <1>4, <1>5, <1>6, <1>7 DEF Still

LEMMA CapSurfaces ==
    ASSUME Still, ilm_getSurfaceIDs
    PROVE  Still'
<1>1. /\ step = "surfaces" /\ UNCHANGED world /\ todo' = DOMAIN surface
      /\ scene' = [scene EXCEPT !.surfaces = DOMAIN surface]
      /\ step' = "surface" \/ (step' = "analyze" /\ DOMAIN surface = {})
  BY DEF ilm_getSurfaceIDs, Unseen
<1>2. /\ Shape' /\ scene'.layers = scene.layers
      /\ scene'.layersOn = scene.layersOn /\ scene'.screenOf = scene.screenOf
      /\ scene'.layer = scene.layer
      /\ scene'.surfacesOn = scene.surfacesOn /\ scene'.layerOf = scene.layerOf
      /\ scene'.surfaces = DOMAIN surface /\ scene'.surface = scene.surface
  BY <1>1 DEF Still, Shape
<1>3. World'
  BY <1>1 DEF Still, World, world
<1>4. Screened' /\ Layered' /\ Ordered'
  BY <1>1, <1>2, ScreenedKept, LayeredKept, OrderedKept DEF AfterScreens, AfterLayers, AfterOrders
<1>5. Surfaced'
  BY <1>1, <1>2 DEF Surfaced, Seen, world
<1> QED BY <1>2, <1>3, <1>4, <1>5 DEF Still

LEMMA CapSurface ==
    ASSUME Still, NEW s \in Surfaces, ilm_getPropertiesOfSurface(s), ~failed'
    PROVE  Still'
<1>1. /\ step = "surface" /\ UNCHANGED world /\ s \in DOMAIN surface
      /\ scene' = [scene EXCEPT !.surface[s] = surface[s]]
      /\ \/ todo' = todo \ {s} /\ step' = "surface"
         \/ todo = {s} /\ step' = "analyze"
  BY DEF ilm_getPropertiesOfSurface, Advance, Unseen, Fail
<1>2. /\ Shape' /\ scene'.layers = scene.layers
      /\ scene'.layersOn = scene.layersOn /\ scene'.screenOf = scene.screenOf
      /\ scene'.layer = scene.layer
      /\ scene'.surfacesOn = scene.surfacesOn /\ scene'.layerOf = scene.layerOf
      /\ scene'.surfaces = scene.surfaces
      /\ scene'.surface = [scene.surface EXCEPT ![s] = surface[s]]
  BY <1>1 DEF Still, Shape
<1>3. World'
  BY <1>1 DEF Still, World, world
<1>4. Screened' /\ Layered' /\ Ordered'
  BY <1>1, <1>2, ScreenedKept, LayeredKept, OrderedKept DEF AfterScreens, AfterLayers, AfterOrders
<1>5. Surfaced'
  <2>1. \A t \in DOMAIN surface : /\ t \in Surfaces
                                  /\ Seen("surface", {"analyze", "done"}, t)'
                                       => t = s \/ Seen("surface", {"analyze", "done"}, t)
    BY <1>1 DEF Seen, Still, World
  <2> QED BY <1>1, <1>2, <2>1 DEF Still, Surfaced, Shape, world
<1> QED BY <1>2, <1>3, <1>4, <1>5 DEF Still

LEMMA CapNext == CapInv /\ [ToolNext]_toolVars => CapInv'
<1> SUFFICES ASSUME CapInv, [ToolNext]_toolVars PROVE CapInv'
  OBVIOUS
<1>1. changes' \in Nat /\ failed' \in BOOLEAN /\ (changes' = 0 /\ ~failed' => changes = 0 /\ ~failed)
  <2>1. CASE captureSceneData
    <3>1. changes' = changes
      BY <2>1, Zenon DEF captureSceneData, Unseen, ilm_getLayerIDsOnScreen, ilm_getLayerIDs,
            ilm_getPropertiesOfLayer, ilm_getSurfaceIDsOnLayer, ilm_getSurfaceIDs,
            ilm_getPropertiesOfSurface
    <3>2. failed' = failed \/ failed' = TRUE
      BY <2>1, Zenon DEF captureSceneData, Fail, ilm_getLayerIDsOnScreen, ilm_getLayerIDs,
            ilm_getPropertiesOfLayer, ilm_getSurfaceIDsOnLayer, ilm_getSurfaceIDs,
            ilm_getPropertiesOfSurface
    <3> QED BY <3>1, <3>2 DEF CapInv
  <2>2. CASE analyzeSurface \/ UNCHANGED toolVars
    <3>1. UNCHANGED <<changes, failed>>
      BY <2>2 DEF analyzeSurface, toolVars
    <3> QED BY <3>1 DEF CapInv
  <2>3. CASE Change
    BY <2>3 DEF CapInv, Change
  <2> QED BY <2>1, <2>2, <2>3, Zenon DEF ToolNext, Exit, ChangeSurface, ChangeLayer, ChangeOrders
<1>2. SUFFICES ASSUME changes = 0, changes' = 0, Still, ~failed' PROVE Still'
  BY <1>1 DEF CapInv, Still
<1>3. CASE captureSceneData
  BY <1>2, <1>3, CapScreens, CapLayers, CapLayer, CapOrder, CapSurfaces, CapSurface DEF captureSceneData
<1>4. CASE analyzeSurface \/ UNCHANGED toolVars
  <2>1. /\ UNCHANGED <<surface, layer, layersOn, surfacesOn, scene, todo>>
        /\ step' = step \/ (step = "analyze" /\ step' = "done")
    BY <1>4 DEF analyzeSurface, toolVars, world
  <2>2. World' /\ Shape'
    BY <1>2, <2>1 DEF Still, World, Shape
  <2>3. Screened' /\ Layered'
    BY <1>2, <2>1 DEF Still, Screened, Layered, Seen, AfterScreens, AfterLayers, AfterOrders
  <2>4. Ordered' /\ Surfaced'
    BY <1>2, <2>1 DEF Still, Ordered, Surfaced, Seen, OnLayer, AfterOrders
  <2> QED BY <2>2, <2>3, <2>4 DEF Still
<1>5. ASSUME Change PROVE FALSE
  BY <1>2, <1>5 DEF Change
<1> QED BY <1>3, <1>4, <1>5 DEF ToolNext, Exit, ChangeSurface, ChangeLayer, ChangeOrders

-----------------------------------------------------------------------------
(* A surface that is reported clean.                                       *)

\* The analysis of a scene that stood still and was captured.
Analysed == Still /\ step = "analyze"

LEMMA AllCaptured ==
    ASSUME Analysed
    PROVE  /\ \A d \in Listed(Screens) : scene.layersOn[d] = layersOn[d]
           /\ \A l \in DOMAIN layer : /\ scene.layer[l] = layer[l]
                                      /\ scene.surfacesOn[l] = surfacesOn[l]
           /\ \A l \in DOMAIN layer : \A s \in Listed(surfacesOn[l]) : OnLayer(s, scene.layerOf[s])
           /\ \A s \in DOMAIN surface : scene.surface[s] = surface[s]
           /\ scene.surfaces = DOMAIN surface
BY DEF Analysed, Still, Screened, Layered, Ordered, Surfaced, Seen, AfterScreens, AfterLayers,
       AfterOrders

\* Where the scene is Ordinary, each surface is captured as it is.
LEMMA LayerIsCaptured ==
    ASSUME Analysed, Ordinary, NEW l, NEW s, OnLayer(s, l)
    PROVE  /\ s \in DOMAIN surface /\ scene.layerOf[s] = l
           /\ scene.surface[s] = surface[s] /\ scene.layer[l] = layer[l]
<1>1. l \in DOMAIN layer /\ s \in Listed(surfacesOn[l])
  BY DEF OnLayer
<1>2. s \in DOMAIN surface
  BY <1>1 DEF Analysed, Still, World, Listed, ToSet
<1>3. OnLayer(s, scene.layerOf[s])
  BY <1>1, AllCaptured
<1>4. scene.layerOf[s] = l
  BY <1>1, <1>3 DEF OnLayer, Ordinary
<1> QED BY <1>1, <1>2, <1>4, AllCaptured

LEMMA LooksAre ==
    ASSUME World
    PROVE  /\ \A s \in DOMAIN surface :
                 /\ surface[s].visible \in BOOLEAN /\ surface[s].opacity \in Nat
                 /\ surface[s].dst \in Rects
           /\ \A l \in DOMAIN layer :
                 /\ layer[l].visible \in BOOLEAN /\ layer[l].opacity \in Nat
                 /\ layer[l].src \in Rects /\ layer[l].dst \in Rects
<1>1. \A s \in DOMAIN surface :
        surface[s] \in [dst : Rects, size : Nat, visible : BOOLEAN, opacity : 0 .. 100, frames : Nat]
  BY SceneAssumption DEF World
<1>2. \A l \in DOMAIN layer :
        layer[l] \in [src : Rects, dst : Rects, visible : BOOLEAN, opacity : 0 .. 100]
  BY SceneAssumption DEF World
<1>3. \A o \in 0 .. 100 : o \in Nat
  OBVIOUS
<1> QED BY <1>1, <1>2, <1>3

LEMMA RectIs ==
    ASSUME NEW r \in Rects
    PROVE  /\ r.x \in Nat /\ r.y \in Nat /\ r.w \in Nat /\ r.h \in Nat
           /\ r.x < Uint /\ r.y < Uint
BY SceneAssumption DEF Rects

LEMMA OrdinaryFits ==
    ASSUME Analysed, Ordinary, NEW l, NEW s, OnLayer(s, l)
    PROVE  Captured(s, l)
<1>1. /\ s \in DOMAIN surface /\ l \in DOMAIN layer /\ s \in Listed(surfacesOn[l])
      /\ scene.layerOf[s] = l /\ scene.surface[s] = surface[s] /\ scene.layer[l] = layer[l]
  BY LayerIsCaptured DEF OnLayer
<1>2. PICK r \in Rects, v \in Rects, w \in Rects :
        r = surface[s].dst /\ v = layer[l].src /\ w = layer[l].dst
  BY <1>1, LooksAre DEF Analysed, Still
<1>3. /\ InRange(r.x, r.w, v.x, v.w, w.x, w.w)
      /\ InRange(r.y, r.h, v.y, v.h, w.y, w.h)
  BY <1>1, <1>2 DEF Ordinary
<1>4. /\ r.x \in Nat /\ r.y \in Nat /\ r.w \in Nat /\ r.h \in Nat /\ r.x < Uint /\ r.y < Uint
      /\ v.x \in Nat /\ v.y \in Nat /\ v.w \in Nat /\ v.h \in Nat
      /\ w.x \in Nat /\ w.y \in Nat /\ w.w \in Nat /\ w.h \in Nat
  BY RectIs
<1>5. Uint \in Nat \ {0, 1}
  BY SceneAssumption
<1>6. r.x - v.x < Uint /\ r.y - v.y < Uint
  BY <1>4, <1>5
<1>7. Fits(r.x, r.w, v.x, v.w, w.x, w.w) /\ Fits(r.y, r.h, v.y, v.h, w.y, w.h)
  BY <1>3, <1>4, <1>6 DEF Fits
<1> QED BY <1>1, <1>2, <1>7 DEF Captured

-----------------------------------------------------------------------------
(* The order of rendering.                                                 *)

LEMMA FunctionIsSequence ==
    ASSUME NEW S, NEW n \in Nat, NEW f \in [1 .. n -> S]
    PROVE  f \in Seq(S) /\ Len(f) = n
OBVIOUS

LEMMA AboveIsAfter ==
    ASSUME Analysed, NEW d \in Listed(Screens),
           NEW l \in Listed(layersOn[d]), NEW s \in Listed(surfacesOn[l]),
           NEW k \in Listed(layersOn[d]), NEW t \in Listed(surfacesOn[k]),
           Above(d, l, s, k, t)
    PROVE  Before(getSceneRenderOrder, s, t)
<1>1. PICK ls \in Seq(DOMAIN layer) : ls = layersOn[d] /\ ls = scene.layersOn[d]
  BY AllCaptured DEF Analysed, Still, World
<1>2. PICK X : X = DOMAIN surface
  OBVIOUS
<1>3. \A e \in Listed(Screens) : scene.layersOn[e] \in Seq(DOMAIN layer)
  BY AllCaptured DEF Analysed, Still, World
<1>4. \A m \in DOMAIN layer : scene.surfacesOn[m] = surfacesOn[m] /\ surfacesOn[m] \in Seq(X)
  BY <1>2, AllCaptured DEF Analysed, Still, World
<1>5. /\ l \in DOMAIN layer /\ k \in DOMAIN layer
      /\ (\E i \in DOMAIN ls : ls[i] = l) /\ (\E i \in DOMAIN ls : ls[i] = k)
      /\ \E i \in DOMAIN surfacesOn[l] : surfacesOn[l][i] = s
      /\ \E i \in DOMAIN surfacesOn[k] : surfacesOn[k][i] = t
  BY <1>1 DEF Listed, ToSet
<1> DEFINE Inner(e) == LET order == scene.layersOn[e]
                       IN  [j \in DOMAIN order |-> scene.surfacesOn[order[j]]]
<1>6. \A e \in Listed(Screens) : Inner(e) \in Seq(Seq(X))
  <2> SUFFICES ASSUME NEW e \in Listed(Screens) PROVE Inner(e) \in Seq(Seq(X))
    OBVIOUS
  <2>1. PICK o \in Seq(DOMAIN layer) : o = scene.layersOn[e]
    BY <1>3
  <2>2. \A j \in 1 .. Len(o) : scene.surfacesOn[o[j]] \in Seq(X)
    BY <1>4
  <2>3. DOMAIN o = 1 .. Len(o) /\ Len(o) \in Nat
    OBVIOUS
  <2>4. Inner(e) \in [1 .. Len(o) -> Seq(X)]
    BY <2>1, <2>2, <2>3
  <2> HIDE DEF Inner
  <2> QED BY <2>3, <2>4, FunctionIsSequence
<1>7. PICK q \in Seq(Seq(X)) : q = Inner(d)
  BY <1>6
<1>8. /\ Len(q) \in Nat /\ DOMAIN q = 1 .. Len(q) /\ DOMAIN q = DOMAIN ls
      /\ \A j \in DOMAIN ls : q[j] = surfacesOn[ls[j]]
  <2>1. q = [j \in DOMAIN ls |-> scene.surfacesOn[ls[j]]]
    BY <1>1, <1>7
  <2>2. \A j \in DOMAIN ls : ls[j] \in DOMAIN layer
    OBVIOUS
  <2>3. Len(q) \in Nat /\ DOMAIN q = 1 .. Len(q)
    OBVIOUS
  <2> QED BY <1>4, <2>1, <2>2, <2>3
<1>9. PICK a, b : /\ a = CHOOSE i \in DOMAIN ls : ls[i] = l
                  /\ b = CHOOSE i \in DOMAIN ls : ls[i] = k
  OBVIOUS
<1>10. a \in 1 .. Len(q) /\ q[a] = surfacesOn[l] /\ b \in 1 .. Len(q) /\ q[b] = surfacesOn[k]
  BY <1>5, <1>8, <1>9
<1>11. Has(q[a], s) /\ Has(q[b], t)
  BY <1>5, <1>10 DEF Has
<1>12. Before(FlattenSeq(q), s, t)
  <2>1. Keeps(q, Len(q), FlattenSeq(q))
    BY FlattenKeeps
  <2>2. CASE k = l
    <3>1. PICK i, j : /\ i = CHOOSE m \in DOMAIN surfacesOn[k] : surfacesOn[k][m] = s
                      /\ j = CHOOSE m \in DOMAIN surfacesOn[k] : surfacesOn[k][m] = t
      OBVIOUS
    <3>2. j > i
      BY <2>2, <3>1 DEF Above
    <3>3. /\ i \in DOMAIN surfacesOn[k] /\ surfacesOn[k][i] = s
          /\ j \in DOMAIN surfacesOn[k] /\ surfacesOn[k][j] = t
      BY <1>5, <2>2, <3>1
    <3>4. i \in Nat /\ j \in Nat
      <4>1. surfacesOn[k] \in Seq(X)
        BY <1>4, <1>5
      <4> QED BY <3>3, <4>1
    <3>5. Before(q[b], s, t)
      BY <1>10, <3>2, <3>3, <3>4 DEF Before
    <3> QED BY <1>10, <2>1, <3>5 DEF Keeps
  <2>3. CASE k # l
    <3>1. b > a
      BY <1>1, <1>9, <2>3 DEF Above
    <3>2. a < b
      BY <1>10, <3>1
    <3> QED BY <1>10, <1>11, <2>1, <3>2 DEF Keeps
  <2> QED BY <2>2, <2>3
<1>13. PICK z : z = [i \in DOMAIN Screens |-> FlattenSeq(Inner(Screens[i]))]
  OBVIOUS
<1>14. z \in Seq(Seq(X)) /\ Len(z) = Len(Screens)
  <2>1. Screens \in Seq(Listed(Screens))
    BY SceneAssumption DEF Listed
  <2>2. \A i \in 1 .. Len(Screens) : Screens[i] \in Listed(Screens)
    BY <2>1
  <2>3. \A e \in Listed(Screens) : FlattenSeq(Inner(e)) \in Seq(X)
    <3> HIDE DEF Inner
    <3> QED BY <1>6, FlattenKeeps
  <2>4. DOMAIN Screens = 1 .. Len(Screens) /\ Len(Screens) \in Nat
    BY <2>1
  <2> HIDE DEF Inner
  <2>5. z \in [1 .. Len(Screens) -> Seq(X)]
    BY <1>13, <2>2, <2>3, <2>4
  <2> QED BY <2>4, <2>5, FunctionIsSequence
<1>15. PICK n \in DOMAIN Screens : Screens[n] = d
  BY DEF Listed, ToSet
<1>16. n \in 1 .. Len(z) /\ z[n] = FlattenSeq(q)
  <2>1. DOMAIN Screens = 1 .. Len(Screens)
    BY SceneAssumption
  <2> HIDE DEF Inner
  <2> QED BY <1>7, <1>13, <1>14, <1>15, <2>1
<1>17. Before(FlattenSeq(z), s, t)
  <2>1. Keeps(z, Len(z), FlattenSeq(z))
    BY <1>14, FlattenKeeps
  <2> QED BY <1>12, <1>16, <2>1 DEF Keeps
<1>18. getSceneRenderOrder = FlattenSeq(z)
  BY <1>13 DEF getSceneRenderOrder
<1> QED BY <1>17, <1>18

-----------------------------------------------------------------------------
(* No problem.                                                             *)

NoProblem(at) ==
    /\ analyzeCheckSurfaceExists /\ analyzeCheckRendered
    /\ analyzeVisibilityAndOpacity = {} /\ analyzeSurfaceCheckInsideLayer(at) = {}
    /\ analyzeOcclusion(at) = {}

LEMMA ReportIsEmpty ==
    ASSUME analyzeSurface, report' = {}
    PROVE  \E at \in ScreenCoordinates : NoProblem(at)
BY DEF analyzeSurface, NoProblem

\* Every surface on a layer was given coordinates.
LEMMA CoordinatesAre ==
    ASSUME Analysed, Ordinary, NEW at \in ScreenCoordinates, NEW l, NEW s, OnLayer(s, l)
    PROVE  at[s] \in getSurfaceScreenCoordinates(s)
<1>1. s \in DOMAIN surface /\ scene.layerOf[s] = l /\ l \in DOMAIN layer
  BY LayerIsCaptured DEF OnLayer
<1>2. s \in Surfaces /\ scene.layerOf[s] # none
  BY <1>1, SceneAssumption DEF Analysed, Still, World
<1> QED BY <1>2 DEF ScreenCoordinates

\* Layer l of screen d shows the target as CleanMeansSeen says.
SeenOn(d, l) ==
    /\ target \in Listed(surfacesOn[l]) /\ Drawn(l, target)
    /\ \A p \in Pixels : Shows(l, target, p) =>
          /\ p[1] \in layer[l].dst.x .. layer[l].dst.x + layer[l].dst.w
          /\ p[2] \in layer[l].dst.y .. layer[l].dst.y + layer[l].dst.h
          /\ \A k \in Listed(layersOn[d]) : \A t \in Listed(surfacesOn[k]) :
                Drawn(k, t) /\ Above(d, l, target, k, t) => ~Shows(k, t, p)

LEMMA CleanIsRendered ==
    ASSUME Analysed, NEW at, NoProblem(at)
    PROVE  \E d \in Listed(Screens), l \in DOMAIN layer :
               /\ l \in Listed(layersOn[d]) /\ OnLayer(target, l) /\ scene.layerOf[target] = l
<1>1. target \in DOMAIN surface /\ target \in Surfaces
  BY AllCaptured DEF NoProblem, analyzeCheckSurfaceExists, Analysed, Still, World
<1>2. PICK l : l = scene.layerOf[target]
  OBVIOUS
<1>3. OnLayer(target, l)
  BY <1>1, <1>2 DEF NoProblem, analyzeCheckRendered, Analysed, Still, Ordered
<1>4. l \in DOMAIN layer /\ l \in Layers
  BY <1>3 DEF OnLayer, Analysed, Still, World
<1>5. PICK d \in Listed(Screens) : l \in Listed(layersOn[d])
  BY <1>2, <1>4 DEF NoProblem, analyzeCheckRendered, Analysed, Still, Screened
<1> QED BY <1>2, <1>3, <1>4, <1>5

LEMMA CleanIsDrawn ==
    ASSUME Analysed, Ordinary, NEW at, NoProblem(at), NEW l, OnLayer(target, l)
    PROVE  Drawn(l, target)
<1>1. /\ target \in DOMAIN surface /\ l \in DOMAIN layer
      /\ Look = surface[target] /\ LayerLook = layer[l]
  BY LayerIsCaptured DEF Look, LayerLook, OnLayer
<1>2. Look.visible /\ LayerLook.visible /\ ~(Look.opacity <= 20) /\ ~(LayerLook.opacity <= 20)
  <2>1. \A tag, problem : Tag(tag, problem) = {} => ~problem
    BY DEF Tag
  <2> QED BY <2>1 DEF NoProblem, analyzeVisibilityAndOpacity
<1>3. PICK a \in Nat, b \in Nat : a = layer[l].opacity /\ b = surface[target].opacity
  BY <1>1, LooksAre DEF Analysed, Still
<1>4. a > 0 /\ b > 0
  BY <1>1, <1>2, <1>3
<1>5. a * b > 0
  BY <1>4, SMT
<1> QED BY <1>1, <1>2, <1>3, <1>5 DEF Drawn

\* A drawn surface above the target that shows one of its pixels is reported.
LEMMA CleanIsUncovered ==
    ASSUME Analysed, Ordinary, NEW at \in ScreenCoordinates, NoProblem(at), NEW d \in Listed(Screens),
           NEW l \in Listed(layersOn[d]), OnLayer(target, l), NEW p \in Pixels, Shows(l, target, p),
           NEW k \in Listed(layersOn[d]), NEW t \in Listed(surfacesOn[k]),
           Drawn(k, t), Above(d, l, target, k, t), Shows(k, t, p)
    PROVE  FALSE
<1>1. l \in DOMAIN layer /\ k \in DOMAIN layer /\ target \in Listed(surfacesOn[l])
  BY DEF Analysed, Still, World, Listed, ToSet, OnLayer
<1>2. OnLayer(t, k)
  BY <1>1 DEF OnLayer
<1>3. Captured(target, l) /\ Captured(t, k)
  BY <1>2, OrdinaryFits
<1>4. Occludes(at[target], at[t])
  BY <1>2, <1>3, CoordinatesAre, OcclusionIsFound
<1>5. ~Neglected(t)
  <2>1. /\ scene.layerOf[t] = k /\ scene.surface[t] = surface[t] /\ scene.layer[k] = layer[k]
        /\ t \in DOMAIN surface
    BY <1>2, LayerIsCaptured
  <2>2. PICK a \in Nat, b \in Nat : a = layer[k].opacity /\ b = surface[t].opacity
    BY <1>1, <2>1, LooksAre DEF Analysed, Still
  <2>3. a * b # 0
    BY <2>2 DEF Drawn
  <2> QED BY <2>1, <2>2, <2>3 DEF Neglected, Drawn
<1>6. Before(getSceneRenderOrder, target, t)
  BY <1>1, AboveIsAfter
<1>7. PICK i, j \in DOMAIN getSceneRenderOrder :
        i < j /\ getSceneRenderOrder[i] = target /\ getSceneRenderOrder[j] = t
  BY <1>6 DEF Before
<1>8. "Occlusion" \in analyzeOcclusion(at)
  BY <1>4, <1>5, <1>7 DEF analyzeOcclusion, Tag
<1> QED BY <1>8 DEF NoProblem

LEMMA CleanIsInside ==
    ASSUME Analysed, Ordinary, NEW at \in ScreenCoordinates, NoProblem(at), NEW l, OnLayer(target, l),
           NEW p \in Pixels, Shows(l, target, p)
    PROVE  /\ p[1] \in layer[l].dst.x .. layer[l].dst.x + layer[l].dst.w
           /\ p[2] \in layer[l].dst.y .. layer[l].dst.y + layer[l].dst.h
<1>1. Captured(target, l) /\ l \in DOMAIN layer
  BY OrdinaryFits DEF OnLayer
<1>2. PICK A : A = at[target] /\ A \in Corners /\ Covers(A, p)
  BY <1>1, CoordinatesAre, CoordinatesCover
<1>3. PICK r \in Rects : r = layer[l].dst /\ r = LayerLook.dst
  BY <1>1, LooksAre, LayerIsCaptured DEF Analysed, Still, LayerLook
<1>4. A.z <= AsInt(r.x + r.w) /\ A.w <= AsInt(r.y + r.h)
  <2>1. \A tag, problem : Tag(tag, problem) = {} => ~problem
    BY DEF Tag
  <2>2. inside(A, [x |-> AsInt(r.x), y |-> AsInt(r.y),
                   z |-> AsInt(r.x + r.w), w |-> AsInt(r.y + r.h)])
    BY <1>2, <1>3, <2>1 DEF NoProblem, analyzeSurfaceCheckInsideLayer
  <2> QED BY <2>2 DEF inside
<1>5. r.x \in Nat /\ r.y \in Nat /\ r.w \in Nat /\ r.h \in Nat
  BY RectIs
<1>6. \A u \in Nat : AsInt(u) \in Int /\ AsInt(u) <= u
  <2> TAKE u \in Nat
  <2>1. u % Uint \in Nat /\ u % Uint <= u /\ Uint \in Nat
    BY SceneAssumption, SMT
  <2> QED BY <2>1 DEF AsInt
<1>7. p[1] \in Int /\ p[2] \in Int
  BY IntMaxIs DEF Pixels
<1>8. p[1] <= r.x + r.w /\ p[2] <= r.y + r.h
  <2>1. p[1] <= A.z /\ p[2] <= A.w /\ A.z \in Int /\ A.w \in Int
    BY <1>2, <1>7 DEF Corners, Covers
  <2>2. /\ AsInt(r.x + r.w) \in Int /\ AsInt(r.x + r.w) <= r.x + r.w
        /\ AsInt(r.y + r.h) \in Int /\ AsInt(r.y + r.h) <= r.y + r.h
    BY <1>5, <1>6
  <2> QED BY <1>4, <1>5, <1>7, <2>1, <2>2
<1>9. p[1] >= r.x /\ p[2] >= r.y
  <2>1. ASSUME NEW q \in Int, NEW position, NEW length, NEW from, NEW size, NEW to, NEW width,
               Fits(position, length, from, size, to, width),
               Firm(q, position, length, from, size, to, width)
        PROVE  q >= to
    <3>1. /\ size \in Nat \ {0} /\ to \in Nat /\ width \in Nat /\ position - from \in Nat
          /\ (q - to) * size >= width * (position - from)
      BY <2>1 DEF Fits, InRange, Firm, Whole
    <3>2. width * (position - from) >= 0
      BY <3>1, SMT
    <3>3. (q - to) * size >= 0
      <4>1. width * (position - from) \in Int /\ (q - to) * size \in Int
        BY <3>1, SMT
      <4> QED BY <3>1, <3>2, <4>1
    <3> QED BY <3>1, <3>3, SMT
  <2>2. PICK t \in Rects, v \in Rects : t = surface[target].dst /\ v = layer[l].src
    BY <1>1, LooksAre DEF Analysed, Still, OnLayer, World, Listed, ToSet
  <2> QED BY <1>1, <1>3, <1>7, <2>1 DEF Captured, Shows
<1> QED BY <1>3, <1>5, <1>7, <1>8, <1>9

LEMMA CleanIsSeen ==
    ASSUME Analysed, Ordinary, NEW at \in ScreenCoordinates, NoProblem(at)
    PROVE  \E d \in Listed(Screens) : \E l \in Listed(layersOn[d]) : SeenOn(d, l)
<1>1. PICK d \in Listed(Screens), l \in DOMAIN layer :
        l \in Listed(layersOn[d]) /\ OnLayer(target, l)
  BY CleanIsRendered
<1>2. target \in Listed(surfacesOn[l]) /\ Drawn(l, target)
  BY <1>1, CleanIsDrawn DEF OnLayer
<1>3. ASSUME NEW p \in Pixels, Shows(l, target, p)
      PROVE  /\ p[1] \in layer[l].dst.x .. layer[l].dst.x + layer[l].dst.w
             /\ p[2] \in layer[l].dst.y .. layer[l].dst.y + layer[l].dst.h
             /\ \A k \in Listed(layersOn[d]) : \A t \in Listed(surfacesOn[k]) :
                   Drawn(k, t) /\ Above(d, l, target, k, t) => ~Shows(k, t, p)
  <2>1. \A k \in Listed(layersOn[d]) : \A t \in Listed(surfacesOn[k]) :
          Drawn(k, t) /\ Above(d, l, target, k, t) => ~Shows(k, t, p)
    BY <1>1, <1>3, CleanIsUncovered
  <2> QED BY <1>1, <1>3, <2>1, CleanIsInside
<1>4. SeenOn(d, l)
  BY <1>2, <1>3 DEF SeenOn
<1> QED BY <1>1, <1>4

\* What is seen depends on the world only.
AboveIn(layers, surfaces, d, l, s, k, t) ==
    LET at(x) == CHOOSE i \in DOMAIN layers[d] : layers[d][i] = x
        in(x) == CHOOSE i \in DOMAIN surfaces[k] : surfaces[k][i] = x
    IN  IF k = l THEN in(t) > in(s) ELSE at(k) > at(l)

LEMMA SeenOnKept ==
    ASSUME UNCHANGED <<surface, layer, layersOn, surfacesOn, target>>,
           NEW d, NEW l, SeenOn(d, l)
    PROVE  SeenOn(d, l)'
<1>1. \A s, k, t : /\ Above(d, l, s, k, t) = AboveIn(layersOn, surfacesOn, d, l, s, k, t)
                   /\ Above(d, l, s, k, t)' = AboveIn(layersOn', surfacesOn', d, l, s, k, t)
  BY DEF Above, AboveIn
<1>2. \A s, k, t : Above(d, l, s, k, t)' <=> Above(d, l, s, k, t)
  <2> HIDE DEF AboveIn
  <2> QED BY <1>1
<1>3. \A k, t, p : (Drawn(k, t)' <=> Drawn(k, t)) /\ (Shows(k, t, p)' <=> Shows(k, t, p))
  BY DEF Drawn, Shows
<1>4. Pixels' = Pixels
  BY DEF Pixels, IntMax
<1> QED BY <1>2, <1>3, <1>4 DEF SeenOn

LEMMA OrdinaryKept ==
    ASSUME UNCHANGED <<surface, layer, surfacesOn>>, Ordinary'
    PROVE  Ordinary
BY DEF Ordinary

\* When the tool finds no problem with a surface, in a scene that stood still,
\* the surface is drawn on a screen and none of its pixels is covered or
\* outside of its layer (analyzeSurface and all that it calls).
THEOREM CleanAlwaysSeen == ToolSpec => []CleanMeansSeen
<1>0. CleanMeansSeen <=>
        (step = "done" /\ report = {} /\ ~failed /\ changes = 0 /\ Ordinary =>
            \E d \in Listed(Screens) : \E l \in Listed(layersOn[d]) : SeenOn(d, l))
  BY DEF CleanMeansSeen, SeenOn
<1>1. ToolInit => CleanMeansSeen
  BY DEF ToolInit, Start, CleanMeansSeen
<1>2. CapInv /\ CleanMeansSeen /\ [ToolNext]_toolVars => CleanMeansSeen'
  <2> SUFFICES ASSUME CapInv, CleanMeansSeen, [ToolNext]_toolVars PROVE CleanMeansSeen'
    OBVIOUS
  <2>0. SUFFICES ASSUME step' = "done", report' = {}, ~failed', changes' = 0, Ordinary'
                 PROVE  \E d \in Listed(Screens) : \E l \in Listed(layersOn'[d]) : SeenOn(d, l)'
    BY DEF CleanMeansSeen, SeenOn
  <2>1. ASSUME UNCHANGED <<surface, layer, layersOn, surfacesOn, target>>,
               \E d \in Listed(Screens) : \E l \in Listed(layersOn[d]) : SeenOn(d, l)
        PROVE  \E d \in Listed(Screens) : \E l \in Listed(layersOn'[d]) : SeenOn(d, l)'
    <3>1. PICK d \in Listed(Screens) : \E l \in Listed(layersOn[d]) : SeenOn(d, l)
      BY <2>1
    <3>2. PICK l \in Listed(layersOn[d]) : SeenOn(d, l)
      BY <3>1
    <3>3. SeenOn(d, l)'
      BY <2>1, <3>2, SeenOnKept
    <3> QED BY <2>1, <3>2, <3>3
  <2>2. CASE UNCHANGED toolVars
    <3>1. /\ UNCHANGED <<surface, layer, layersOn, surfacesOn, target>>
          /\ step = "done" /\ report = {} /\ ~failed /\ changes = 0
      BY <2>0, <2>2 DEF toolVars, world
    <3>2. Ordinary
      BY <2>0, <3>1, OrdinaryKept
    <3> QED BY <1>0, <2>1, <3>1, <3>2
  <2>3. CASE analyzeSurface
    <3>1. /\ UNCHANGED <<surface, layer, layersOn, surfacesOn, target>>
          /\ step = "analyze" /\ ~failed /\ changes = 0
      BY <2>0, <2>3 DEF analyzeSurface, world
    <3>2. Ordinary
      BY <2>0, <3>1, OrdinaryKept
    <3>3. Analysed
      BY <3>1 DEF CapInv, Analysed, Still
    <3>4. PICK at \in ScreenCoordinates : NoProblem(at)
      BY <2>0, <2>3, ReportIsEmpty
    <3> QED BY <2>0, <2>1, <3>1, <3>2, <3>3, <3>4, CleanIsSeen
  <2>4. CASE captureSceneData
    <3>1. step' # "done"
      BY <2>4, Zenon DEF captureSceneData, ilm_getLayerIDsOnScreen, ilm_getLayerIDs,
            ilm_getPropertiesOfLayer, ilm_getSurfaceIDsOnLayer, ilm_getSurfaceIDs,
            ilm_getPropertiesOfSurface, Advance, Fail
    <3> QED BY <2>0, <3>1
  <2>5. CASE Change
    <3>1. step' # "done"
      BY <2>5 DEF Change
    <3> QED BY <2>0, <3>1
  <2> QED BY <2>2, <2>3, <2>4, <2>5, Zenon DEF ToolNext, Exit, ChangeSurface, ChangeLayer, ChangeOrders
<1> QED BY <1>1, <1>2, CapInit, CapNext, PTL DEF ToolSpec

-----------------------------------------------------------------------------
(* Absence.                                                                *)

Asked == {"surface", "analyze", "done"}

\* absent is up to date, the surfaces are captured before their properties,
\* and only the last step reports.
AbsInv ==
    /\ absent \in BOOLEAN /\ failed \in BOOLEAN
    /\ scene = [x \in DOMAIN scene |-> scene[x]] /\ "surfaces" \in DOMAIN scene
    /\ target \notin DOMAIN surface => absent
    /\ step \in Asked /\ ~failed /\ target \notin scene.surfaces => absent
    /\ "Surface existance" \in report => step = "done" /\ target \notin scene.surfaces

LEMMA AbsInit == ToolInit => AbsInv
  BY DEF ToolInit, Start, AbsInv, Asked, EmptyScene

\* Steps that leave the list of captured surfaces.
SurfacesKept ==
    /\ scene' = [x \in DOMAIN scene' |-> scene'[x]] /\ "surfaces" \in DOMAIN scene'
    /\ scene'.surfaces = scene.surfaces

LEMMA OtherCapture ==
    ASSUME AbsInv, Unseen, step # "done", SurfacesKept,
           Fail \/ (UNCHANGED failed /\ (step' \notin Asked \/ step \in Asked))
    PROVE  AbsInv'
  BY DEF AbsInv, Unseen, world, Fail, Asked, SurfacesKept

LEMMA CaptureKeeps == ASSUME AbsInv, captureSceneData PROVE AbsInv'
<1>1. ASSUME NEW d \in Listed(Screens), ilm_getLayerIDsOnScreen(d) PROVE AbsInv'
  <2>1. SurfacesKept
    BY <1>1 DEF AbsInv, SurfacesKept, ilm_getLayerIDsOnScreen
  <2> QED BY <1>1, <2>1, OtherCapture DEF ilm_getLayerIDsOnScreen, Advance, Asked
<1>2. ASSUME ilm_getLayerIDs PROVE AbsInv'
  <2>1. SurfacesKept
    BY <1>2 DEF AbsInv, SurfacesKept, ilm_getLayerIDs
  <2> QED BY <1>2, <2>1, OtherCapture DEF ilm_getLayerIDs, Asked
<1>3. ASSUME NEW l \in Layers, ilm_getPropertiesOfLayer(l) PROVE AbsInv'
  <2>1. SurfacesKept
    BY <1>3 DEF AbsInv, SurfacesKept, ilm_getPropertiesOfLayer, Fail
  <2>2. Fail \/ (UNCHANGED failed /\ (step' \notin Asked \/ step \in Asked))
    BY <1>3 DEF ilm_getPropertiesOfLayer, Advance, Asked
  <2> QED BY <1>3, <2>1, <2>2, OtherCapture DEF ilm_getPropertiesOfLayer
<1>4. ASSUME NEW l \in Layers, ilm_getSurfaceIDsOnLayer(l) PROVE AbsInv'
  <2>1. SurfacesKept
    BY <1>4 DEF AbsInv, SurfacesKept, ilm_getSurfaceIDsOnLayer, Fail
  <2>2. Fail \/ (UNCHANGED failed /\ (step' \notin Asked \/ step \in Asked))
    BY <1>4 DEF ilm_getSurfaceIDsOnLayer, Advance, Asked
  <2> QED BY <1>4, <2>1, <2>2, OtherCapture DEF ilm_getSurfaceIDsOnLayer
<1>5. ASSUME ilm_getSurfaceIDs PROVE AbsInv'
  BY <1>5 DEF AbsInv, ilm_getSurfaceIDs, Unseen, world, Asked
<1>6. ASSUME NEW s \in Surfaces, ilm_getPropertiesOfSurface(s) PROVE AbsInv'
  <2>1. SurfacesKept
    BY <1>6 DEF AbsInv, SurfacesKept, ilm_getPropertiesOfSurface, Fail
  <2>2. Fail \/ (UNCHANGED failed /\ (step' \notin Asked \/ step \in Asked))
    BY <1>6 DEF ilm_getPropertiesOfSurface, Advance, Asked
  <2> QED BY <1>6, <2>1, <2>2, OtherCapture DEF ilm_getPropertiesOfSurface
<1> QED BY <1>1, <1>2, <1>3, <1>4, <1>5, <1>6 DEF captureSceneData

\* The report names a missing surface only if the capture had none.
LEMMA AnalysisKeeps == ASSUME AbsInv, analyzeSurface PROVE AbsInv'
<1>1. "Surface existance" \in report' => target \notin scene.surfaces
  BY DEF analyzeSurface, analyzeCheckSurfaceExists, analyzeVisibilityAndOpacity,
         analyzeSurfaceDimensions, analyzeLayerDimensions, analyzeSurfaceCheckInsideLayer,
         analyzeOcclusion, analyzeFrameCounter, Tag
<1>2. step' = "done" /\ step \in Asked
  BY DEF analyzeSurface, Asked
<1>3. UNCHANGED <<surface, scene, target, failed, absent>>
  BY DEF analyzeSurface, world
<1> QED BY <1>1, <1>2, <1>3 DEF AbsInv

\* Whatever others change, absent goes with it.
LEMMA ChangeKeeps == ASSUME AbsInv, Change, Watch PROVE AbsInv'
  BY DEF AbsInv, Change, Watch, Asked

LEMMA AbsNext == AbsInv /\ [ToolNext]_toolVars => AbsInv'
<1> SUFFICES ASSUME AbsInv, [ToolNext]_toolVars PROVE AbsInv'
  OBVIOUS
<1>1. CASE captureSceneData
  BY <1>1, CaptureKeeps
<1>2. CASE analyzeSurface
  BY <1>2, AnalysisKeeps
<1>3. ASSUME NEW s \in Surfaces, ChangeSurface(s) PROVE AbsInv'
  BY <1>3, ChangeKeeps DEF ChangeSurface
<1>4. ASSUME NEW l \in Layers, ChangeLayer(l) PROVE AbsInv'
  BY <1>4, ChangeKeeps DEF ChangeLayer
<1>5. CASE ChangeOrders
  BY <1>5, ChangeKeeps DEF ChangeOrders
<1>6. CASE UNCHANGED toolVars
  BY <1>6 DEF AbsInv, toolVars, world
<1> QED BY <1>1, <1>2, <1>3, <1>4, <1>5, <1>6 DEF ToolNext, Exit

\* A surface that the tool says does not exist, without a failed call, did not
\* exist at some time since the command was given.
THEOREM AbsenceWasRealAlways == ToolSpec => []AbsenceWasReal
<1>1. AbsInv => AbsenceWasReal
  BY DEF AbsInv, AbsenceWasReal, Asked
<1> QED BY <1>1, AbsInit, AbsNext, PTL DEF ToolSpec
=============================================================================
