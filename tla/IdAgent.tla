------------------------------ MODULE IdAgent ------------------------------
(***************************************************************************)
(* ivi-id-agent: desktop applications (xdg-shell, wl_shell) cannot name    *)
(* the id of their surface, so this module of the compositor gives it one, *)
(* from the [desktop-app] sections of weston.ini, or from the interval of  *)
(* [desktop-app-default].  Ivi applications choose their id themselves.    *)
(*                                                                         *)
(* Everything happens in the compositor's thread.  What is hard is that    *)
(* three sources of ids (sections, interval, ivi applications) share one   *)
(* space, and that the configuration is checked while it is read.          *)
(***************************************************************************)
EXTENDS Integers, Sequences, SequencesExt

CONSTANTS Surfaces,     \* addresses of struct ivi_layout_surface
          Apps,         \* pairs of app id and title that a client may have
          MaxId,        \* the largest id
          Files,        \* contents of weston.ini
          Null,         \* no layout surface
          Absent        \* the id of a surface that does not exist

Ids     == 0 .. MaxId
Invalid == MaxId + 1    \* INVALID_ID, IVI_INVALID_ID: the largest uint32_t

\* A [desktop-app] section: its surface-id, Invalid when it is missing, and the
\* applications that app-id and app-title match.  With neither it matches all.
Section == [surface_id : Ids \cup {Invalid}, apps : SUBSET Apps]

\* default is the [desktop-app-default] section or <<>> when there is none.
File == [default : {<<>>} \cup (Ids \cup {Invalid}) \X (Ids \cup {Invalid}),
         apps : Seq(Section)]

ASSUME AgentAssumption ==
    /\ MaxId \in Nat
    /\ \A f \in Files : f \in File
    /\ Null \notin Surfaces
    /\ Absent \notin Ids \cup {Invalid}

VARIABLES
    agent,                  \* the module is loaded and its listeners are connected
    default_behavior_set, default_surface_id, default_surface_id_max,
    app_list,               \* struct db_elem: a section and the surface that got its id
    id,                     \* of each layout surface
    app,                    \* of each desktop surface, Null of the others
    first                   \* default-surface-id of weston.ini

agentConfig == <<agent, default_behavior_set, default_surface_id_max, first>>
agentVars   == <<agentConfig, default_surface_id, app_list, id, app>>

AgentInit ==
    /\ agent = FALSE /\ default_behavior_set = FALSE
    /\ default_surface_id = 0 /\ default_surface_id_max = 0 /\ first = 0
    /\ app_list = <<>>
    /\ id = [s \in Surfaces |-> Absent]
    /\ app = [s \in Surfaces |-> Null]

-----------------------------------------------------------------------------
(* Reading weston.ini.                                                     *)

\* Mutated check_config: the end points of the interval are not refused.
check_config_inside(F, k, from, to) ==
    /\ ~(from < F[k].surface_id /\ F[k].surface_id < to)
    /\ \A j \in 1 .. k - 1 : F[j].surface_id # F[k].surface_id

\* Section k of F, with the sections before it already in app_list.
check_config(F, k, from, to) ==
    /\ ~(from <= F[k].surface_id /\ F[k].surface_id <= to)
    /\ \A j \in 1 .. k - 1 : F[j].surface_id # F[k].surface_id

\* Mutated SectionIsValid: surface-id may be missing.
SectionIsValidUnset(F, k, from, to) == F[k].apps # Apps /\ check_config(F, k, from, to)

SectionIsValid(F, k, from, to) ==
    /\ F[k].surface_id # Invalid
    /\ F[k].apps # Apps
    /\ check_config(F, k, from, to)

\* id_agent_module_init with read_config.  When it fails the compositor goes on
\* without the agent.  wl_list_insert leaves the last section first.
id_agent_module_init ==
    /\ ~agent /\ \A s \in Surfaces : id[s] = Absent
    /\ \E file \in Files :
        LET given == file.default # <<>>
            from  == IF given THEN file.default[1] ELSE 0
            to    == IF given THEN file.default[2] ELSE 0
            set   == given /\ from # Invalid /\ to # Invalid
        IN  /\ set \/ file.apps # <<>>
            /\ \A k \in DOMAIN file.apps : SectionIsValid(file.apps, k, from, to)
            /\ agent' = TRUE
            /\ default_behavior_set' = set
            /\ default_surface_id' = from /\ default_surface_id_max' = to /\ first' = from
            /\ app_list' = Reverse([k \in DOMAIN file.apps |->
                              [surface_id |-> file.apps[k].surface_id,
                               apps |-> file.apps[k].apps, layout_surface |-> Null]])
    /\ UNCHANGED <<id, app>>

-----------------------------------------------------------------------------
(* Surfaces.                                                               *)

InUse(i) == \E s \in Surfaces : id[s] = i

\* Mutated Usable: the first element that matches is the only one that is tried.
UsableFirst(a) ==
    {k \in DOMAIN app_list :
        /\ a \in app_list[k].apps /\ ~InUse(app_list[k].surface_id)
        /\ \A j \in 1 .. k - 1 : a \notin app_list[j].apps}

\* Elements whose section matches application a and whose id surface_set_id
\* accepts.
Usable(a) == {k \in DOMAIN app_list : a \in app_list[k].apps /\ ~InUse(app_list[k].surface_id)}

get_id_from_config(s, a) ==
    \E k \in Usable(a) :
        /\ \A j \in Usable(a) : k <= j
        /\ id' = [id EXCEPT ![s] = app_list[k].surface_id]
        /\ app_list' = [app_list EXCEPT ![k].layout_surface = s]
        /\ UNCHANGED default_surface_id

DefaultUsable ==
    /\ default_behavior_set
    /\ default_surface_id < default_surface_id_max
    /\ ~InUse(default_surface_id)

\* Mutated TakeDefault: the id is not counted.
TakeDefaultAgain(s) ==
    /\ id' = [id EXCEPT ![s] = default_surface_id]
    /\ UNCHANGED <<default_surface_id, app_list>>

TakeDefault(s) ==
    /\ id' = [id EXCEPT ![s] = default_surface_id]
    /\ default_surface_id' = default_surface_id + 1
    /\ UNCHANGED app_list

NoId(s) ==
    /\ id' = [id EXCEPT ![s] = Invalid]
    /\ UNCHANGED <<default_surface_id, app_list>>

\* A desktop surface of application a appears without an id, the controller asks
\* for one with id_allocation_request_signal, and get_id answers.
id_allocation_event_request(s, a) ==
    /\ id[s] = Absent
    /\ app' = [app EXCEPT ![s] = a]
    /\ IF ~agent THEN NoId(s)
       ELSE IF Usable(a) # {} THEN get_id_from_config(s, a)
       ELSE IF DefaultUsable THEN TakeDefault(s)
       ELSE NoId(s)
    /\ UNCHANGED agentConfig

\* An ivi application makes a surface with an id no surface has.
ivi_surface_created(s, i) ==
    /\ id[s] = Absent /\ ~InUse(i)
    /\ id' = [id EXCEPT ![s] = i]
    /\ UNCHANGED <<agentConfig, default_surface_id, app_list, app>>

\* Mutated Released: no element forgets the surface.
ReleasedNone(s) == app_list

\* The first element of the surface.
Released(s) ==
    [k \in DOMAIN app_list |->
        IF app_list[k].layout_surface = s /\ \A j \in 1 .. k - 1 : app_list[j].layout_surface # s
        THEN [app_list[k] EXCEPT !.layout_surface = Null] ELSE app_list[k]]

surface_event_remove(s) ==
    /\ id[s] # Absent
    /\ app_list' = Released(s)
    /\ id' = [id EXCEPT ![s] = Absent]
    /\ app' = [app EXCEPT ![s] = Null]
    /\ UNCHANGED <<agentConfig, default_surface_id>>

AgentNext ==
    \/ id_agent_module_init
    \/ \E s \in Surfaces :
        \/ \E a \in Apps : id_allocation_event_request(s, a)
        \/ \E i \in Ids : ivi_surface_created(s, i)
        \/ surface_event_remove(s)

AgentSpec == AgentInit /\ [][AgentNext]_agentVars

-----------------------------------------------------------------------------
(* Properties.                                                             *)

Elements == {app_list[k] : k \in DOMAIN app_list}

\* Every variable holds a value of its type, and no two surfaces have one id.
TypeOK ==
    /\ agent \in BOOLEAN /\ default_behavior_set \in BOOLEAN
    /\ default_surface_id \in Ids \cup {Invalid}
    /\ default_surface_id_max \in Ids \cup {Invalid}
    /\ \A e \in Elements : /\ e.surface_id \in Ids
                           /\ e.layout_surface \in Surfaces \cup {Null}
    /\ id \in [Surfaces -> Ids \cup {Invalid, Absent}]
    /\ app \in [Surfaces -> Apps \cup {Null}]
    /\ \A s, t \in Surfaces : id[s] = id[t] /\ id[s] \in Ids => s = t

\* An id that a section reserves is never the id of a desktop application that
\* the section does not match, however far the interval has been used.
ReservedForTheirApps ==
    \A e \in Elements, s \in Surfaces :
        id[s] = e.surface_id /\ app[s] # Null => app[s] \in e.apps

\* An element that names a surface names one that lives and has the element's id.
ElementsNameTheirSurface ==
    \A e \in Elements :
        e.layout_surface # Null => id[e.layout_surface] = e.surface_id

Allocated(s) == id[s] = Absent /\ app'[s] # Null

\* Ids of the interval are given to a desktop surface once: what was used by an
\* application that has gone never comes back for another one.
DefaultIdsAreFresh ==
    [][\A s \in Surfaces :
          Allocated(s) /\ id'[s] \in first .. default_surface_id_max - 1
            => id'[s] >= default_surface_id /\ default_surface_id' > id'[s]]_agentVars

\* An application with a matching section whose id is free gets such an id, even
\* when another instance has the id of the section that comes first.
SectionsServe ==
    [][\A s \in Surfaces :
          Allocated(s) /\ (\E e \in Elements : app'[s] \in e.apps /\ ~InUse(e.surface_id))
            => \E e \in Elements : app'[s] \in e.apps /\ id'[s] = e.surface_id]_agentVars
=============================================================================
