---------------------------- MODULE ProviderGraph ----------------------------
(***************************************************************************)
(* The provider graph of the database: connections own model routes,       *)
(* routes own generation presets, the settings select a route with one of  *)
(* its presets, and generations remember what they were made with          *)
(* (crates/storage/src/database.rs, called by crates/core/src/app.rs).     *)
(* Legacy provider profiles live on beside it: saving one writes a         *)
(* connection, a route and a preset whose ids are derived from the         *)
(* profile's.                                                              *)
(*                                                                         *)
(* Every operation is one transaction and one action; an operation the     *)
(* code refuses changes nothing and is no step.  Checks that Core makes    *)
(* before the transaction and the transaction makes again are made once.   *)
(*                                                                         *)
(* Abstractions.  All connections speak one API family.  Labels, times,    *)
(* availability and parameter values are left out: saving an existing      *)
(* route or preset changes nothing else.  Users choose new ids (the shells *)
(* make UUIDs).  What discovery does with a plan is in DiscoveryCommit;    *)
(* here it captures the selection and may put it back.                     *)
(*                                                                         *)
(* A definition Faulty<X> is what a plausible mistake would make of <X>.   *)
(* No specification uses it: it shows that a property notices the mistake. *)
(***************************************************************************)
EXTENDS Naturals, FiniteSets

CONSTANTS
    Profiles,     \* ids of legacy provider profiles, and of their connections
    Others,       \* ids of other connections
    Models,       \* model ids of a provider
    Configs,      \* route configurations
    Default,      \* ModelRouteConfig::default()
    UserRoutes,   \* ids users give to routes
    UserPresets,  \* ids users give to presets
    None,         \* Option::None
    Absent,       \* no discovery has captured the selection
    MaxHistory,   \* bound on the targets generations were made with
    Discovery     \* whether a discovery may run

Connections == Profiles \cup Others
Sibling(p, m) == <<"sibling", p, m>>   \* legacy_model_route_id
Listed(c, m) == <<"listed", c, m>>     \* deterministic_model_route_id
Initial(r) == <<"initial", r>>         \* deterministic_initial_preset_id
RouteIds == Profiles \cup UserRoutes \cup {Sibling(p, m) : p \in Profiles, m \in Models}
                \cup {Listed(c, m) : c \in Connections, m \in Models}
PresetIds == RouteIds \cup UserPresets \cup {Initial(r) : r \in RouteIds}

(* None is no value, and ids made for different things differ.             *)
ASSUME GraphAssumption ==
    /\ Default \in Configs /\ MaxHistory \in Nat /\ Discovery \in BOOLEAN
    /\ None \notin Models \cup PresetIds
    /\ None \notin [connection : Connections, model : Models, config : Configs]
    /\ Absent \notin [route : RouteIds \cup {None}, preset : PresetIds \cup {None}]
    /\ UserRoutes \cap Profiles = {} /\ UserPresets \cap RouteIds = {}
    /\ \A p \in Profiles, m \in Models : Sibling(p, m) \notin Profiles \cup UserRoutes
    /\ \A c \in Connections, m \in Models : Listed(c, m) \notin Profiles \cup UserRoutes
    /\ \A r \in RouteIds : Initial(r) \notin RouteIds \cup UserPresets

VARIABLES
    profiles,     \* provider_profiles: the model of each
    connections,  \* provider_connections: "absent", "active" or "archived"
    routes,       \* provider_models
    presets,      \* generation_presets: the route of each
    settings,     \* the selection in app_settings
    history,      \* the route and preset of generations
    plan          \* the selection a discovery captured

vars == <<profiles, connections, routes, presets, settings, history, plan>>

Route == [connection : Connections, model : Models, config : Configs]
Target == [route : RouteIds \cup {None}, preset : PresetIds \cup {None}]
Selection == [profile : Profiles \cup {None}, route : RouteIds \cup {None},
              preset : PresetIds \cup {None}]
Clear == [profile |-> None, route |-> None, preset |-> None]

-----------------------------------------------------------------------------
(* What the transactions look up.                                          *)
Stored(r) == r \in RouteIds /\ routes[r] # None
ActiveRoute(r) == Stored(r) /\ connections[routes[r].connection] = "active"
ActiveProfile(p) == p \in Profiles /\ profiles[p] # None /\ connections[p] = "active"
RoutesOf(c) == {r \in RouteIds : Stored(r) /\ routes[r].connection = c}
Matching(c, m, config) == {r \in RoutesOf(c) : routes[r].model = m /\ routes[r].config = config}

(* validate_model_route: the route with the id of a legacy profile must    *)
(* have the profile's model.                                               *)
RouteValid(r, c, m) == r = c /\ c \in Profiles => profiles[c] \in {None, m}

-----------------------------------------------------------------------------
Init ==
    /\ profiles = [p \in Profiles |-> None]
    /\ connections = [c \in Connections |-> "absent"]
    /\ routes = [r \in RouteIds |-> None]
    /\ presets = [q \in PresetIds |-> None]
    /\ settings = Clear /\ history = {} /\ plan = Absent

(* insert_provider_connection: an archived id is not vacant.               *)
CreateProviderConnection(c) ==
    /\ connections[c] = "absent"
    /\ connections' = [connections EXCEPT ![c] = "active"]
    /\ UNCHANGED <<profiles, routes, presets, settings, history, plan>>

(* The route a legacy profile uses for a model: the one it has, its own id *)
(* while that is free, or a sibling.                                       *)
LegacyModelRouteId(p, m) ==
    CASE Matching(p, m, Default) # {} -> CHOOSE r \in Matching(p, m, Default) : TRUE
      [] Matching(p, m, Default) = {} -> IF Stored(p) THEN Sibling(p, m) ELSE p

(* A selected profile takes its selection along.                           *)
FollowProfile(s, p, r) ==
    IF s.profile = p THEN [s EXCEPT !.route = r, !.preset = r] ELSE s

SaveProviderProfile(p, m) ==
    LET r == LegacyModelRouteId(p, m)
    IN  /\ connections[p] # "archived"
        /\ profiles' = [profiles EXCEPT ![p] = m]
        /\ connections' = [connections EXCEPT ![p] = "active"]
        /\ routes' = [routes EXCEPT ![r] = IF @ = None THEN [connection |-> p, model |-> m, config |-> Default] ELSE @]
        /\ presets' = [presets EXCEPT ![r] = IF @ = None THEN r ELSE @]
        /\ settings' = FollowProfile(settings, p, r)
        /\ UNCHANGED <<history, plan>>

FaultyClearForConnection(s, c) == IF s.profile = c THEN Clear ELSE s

(* clear_provider_selections_for_connection                                *)
ClearForConnection(s, c) ==
    IF s.profile = c \/ (Stored(s.route) /\ routes[s.route].connection = c) THEN Clear ELSE s

(* archive_provider_connection_row, by delete_provider_connection or       *)
(* delete_provider_profile.  Unfinished work refuses it; see ModelSync.    *)
ArchiveProviderConnection(c) ==
    /\ connections[c] = "active"
    /\ settings' = ClearForConnection(settings, c)
    /\ connections' = [connections EXCEPT ![c] = "archived"]
    /\ UNCHANGED <<profiles, routes, presets, history, plan>>

-----------------------------------------------------------------------------
(* A user adds a route; the table keeps connection, model and              *)
(* configuration unique.                                                   *)
SaveModelRoute(r, c, m, config) ==
    /\ connections[c] = "active" /\ RouteValid(r, c, m)
    /\ routes[r] = None /\ Matching(c, m, config) = {}
    /\ routes' = [routes EXCEPT ![r] = [connection |-> c, model |-> m, config |-> config]]
    /\ UNCHANGED <<profiles, connections, presets, settings, history, plan>>

PresetsOf(r) == {q \in PresetIds : presets[q] = r}

FaultyUnused(q) == \A g \in history : g.route # q

(* generations reference routes and presets with ON DELETE RESTRICT.       *)
Unused(q) == \A g \in history : g.preset # q

FaultyClearForRoute(s, r, c) == IF s.route = r THEN [s EXCEPT !.route = None, !.profile = None] ELSE s

(* clear_provider_selections_for_route                                     *)
ClearForRoute(s, r, c) ==
    IF s.route # r THEN s
    ELSE [profile |-> IF s.profile = c THEN None ELSE s.profile, route |-> None, preset |-> None]

DeleteModelRoute(r) ==
    LET c == routes[r].connection
    IN  /\ Stored(r)
        /\ ~ (r = c /\ r \in Profiles /\ profiles[r] # None)
        /\ \A g \in history : g.route # r
        /\ \A q \in PresetsOf(r) : Unused(q)
        /\ settings' = ClearForRoute(settings, r, c)
        /\ presets' = [q \in PresetIds |-> IF presets[q] = r THEN None ELSE presets[q]]
        /\ routes' = [routes EXCEPT ![r] = None]
        /\ UNCHANGED <<profiles, connections, history, plan>>

(* A user adds a preset to a route of an active connection.                *)
SaveGenerationPreset(q, r) ==
    /\ presets[q] = None /\ ActiveRoute(r)
    /\ presets' = [presets EXCEPT ![q] = r]
    /\ UNCHANGED <<profiles, connections, routes, settings, history, plan>>

(* clear_provider_selections_for_preset compares the profile with the      *)
(* route's id.                                                             *)
ClearForPreset(s, q, r) ==
    IF s.preset # q THEN s
    ELSE [profile |-> IF s.profile = r THEN None ELSE s.profile, route |-> None, preset |-> None]

DeleteGenerationPreset(q) ==
    LET r == presets[q]
    IN  /\ r # None
        /\ ~ (q = r /\ q \in Profiles /\ profiles[q] # None)
        /\ Unused(q)
        /\ settings' = ClearForPreset(settings, q, r)
        /\ presets' = [presets EXCEPT ![q] = None]
        /\ UNCHANGED <<profiles, connections, routes, history, plan>>

(* The routes of commit_model_sync_job: a listed model keeps the route it  *)
(* has; two routes of one model are taken for corruption                   *)
(* (reconcile_input_routes).  New routes get a preset.                     *)
CommitModelSync(c, models) ==
    LET known(m) == {r \in RoutesOf(c) : routes[r].model = m}
        fresh == {m \in models : known(m) = {}}
    IN  /\ connections[c] = "active"
        /\ \A r, s \in RoutesOf(c) : routes[r].model = routes[s].model => r = s
        /\ \A m \in models : \A r \in known(m) : RouteValid(r, c, m)
        /\ \A m \in fresh : ~ Stored(Listed(c, m))
        /\ routes' = [r \in RouteIds |-> IF \E m \in fresh : r = Listed(c, m)
                                        THEN [connection |-> c, model |-> r[3], config |-> Default]
                                        ELSE routes[r]]
        /\ presets' = [q \in PresetIds |-> IF \E m \in fresh : q = Initial(Listed(c, m)) THEN q[2] ELSE presets[q]]
        /\ UNCHANGED <<profiles, connections, settings, history, plan>>

-----------------------------------------------------------------------------
(* normalize_settings_for_write.  A profile stands for its current route   *)
(* and the preset of the same id; a selection is complete or empty; and    *)
(* the ids of a profile's own route and preset select the profile.         *)
CurrentRoutes(p) == Matching(p, profiles[p], Default)
CurrentRoute(p) == CHOOSE r \in CurrentRoutes(p) : TRUE

Filled(s) ==
    IF s.profile = None THEN s
    ELSE [s EXCEPT !.route = CurrentRoute(s.profile), !.preset = CurrentRoute(s.profile)]

ProfileAgrees(s) ==
    s.profile # None => /\ ActiveProfile(s.profile) /\ CurrentRoutes(s.profile) # {}
                        /\ s.route \in {None, CurrentRoute(s.profile)}
                        /\ s.preset \in {None, CurrentRoute(s.profile)}

TargetExists(s) ==
    \/ s.route = None /\ s.preset = None
    \/ ActiveRoute(s.route) /\ s.preset \in PresetIds /\ presets[s.preset] = s.route

Acceptable(s) == ProfileAgrees(s) /\ TargetExists(Filled(s))

Normalized(s) ==
    LET f == Filled(s)
    IN  IF f.profile = None /\ f.route = f.preset /\ ActiveProfile(f.route)
        THEN [f EXCEPT !.profile = f.route] ELSE f

(* update_settings and select_generation_target.  A selection names only   *)
(* what is stored: what else it names is refused.                          *)
Submitted ==
    [profile : {p \in Profiles : ActiveProfile(p)} \cup {None},
     route : {r \in RouteIds : ActiveRoute(r)} \cup {None},
     preset : {q \in PresetIds : presets[q] # None} \cup {None}]

SaveSettings(s) ==
    /\ Acceptable(s)
    /\ settings' = Normalized(s)
    /\ UNCHANGED <<profiles, connections, routes, presets, history, plan>>

(* append_generation: the triggers of the generations table.  Core looked  *)
(* at the connection in an earlier transaction.                            *)
AppendGeneration(r, q) ==
    /\ Cardinality(history) < MaxHistory
    /\ Stored(r) /\ presets[q] = r
    /\ history' = history \cup {[route |-> r, preset |-> q]}
    /\ UNCHANGED <<profiles, connections, routes, presets, settings, plan>>

-----------------------------------------------------------------------------
(* load_discovery_previous_selection, for the plan of a commit.            *)
PreviousSelection ==
    IF settings.route = None /\ settings.profile # None
    THEN [route |-> settings.profile, preset |-> settings.profile]
    ELSE [route |-> settings.route, preset |-> settings.preset]

TargetStored(t) == Stored(t.route) /\ t.preset \in PresetIds /\ presets[t.preset] = t.route

PrepareDiscoveryCommit ==
    /\ Discovery /\ plan = Absent
    /\ PreviousSelection.route = None \/ TargetStored(PreviousSelection)
    /\ plan' = PreviousSelection
    /\ UNCHANGED <<profiles, connections, routes, presets, settings, history>>

(* restore_discovery_provider_selection: only into an empty selection.     *)
RestoreDiscoverySelection ==
    /\ plan # Absent /\ (plan.route # None => TargetStored(plan))
    /\ plan' = Absent
    /\ settings' = IF settings # Clear \/ plan.route = None THEN settings
                   ELSE [profile |-> IF plan.route = plan.preset /\ plan.route \in Profiles /\ profiles[plan.route] # None
                                     THEN plan.route ELSE None,
                         route |-> plan.route, preset |-> plan.preset]
    /\ UNCHANGED <<profiles, connections, routes, presets, history>>

(* The commit succeeded and its plan is history.                           *)
FinishDiscovery ==
    /\ plan # Absent /\ plan' = Absent
    /\ UNCHANGED <<profiles, connections, routes, presets, settings, history>>

-----------------------------------------------------------------------------
Next ==
    \/ \E c \in Others : CreateProviderConnection(c)
    \/ \E p \in Profiles, m \in Models : SaveProviderProfile(p, m)
    \/ \E c \in Connections : ArchiveProviderConnection(c)
    \/ \E r \in UserRoutes, c \in Connections, m \in Models, config \in Configs : SaveModelRoute(r, c, m, config)
    \/ \E r \in RouteIds : DeleteModelRoute(r)
    \/ \E q \in UserPresets, r \in RouteIds : SaveGenerationPreset(q, r)
    \/ \E q \in PresetIds : DeleteGenerationPreset(q)
    \/ \E c \in Connections : \E models \in SUBSET Models : CommitModelSync(c, models)
    \/ \E s \in Submitted : SaveSettings(s)
    \/ \E r \in RouteIds, q \in PresetIds : AppendGeneration(r, q)
    \/ PrepareDiscoveryCommit \/ RestoreDiscoverySelection \/ FinishDiscovery

Spec == Init /\ [][Next]_vars

-----------------------------------------------------------------------------
TypeOK ==
    /\ profiles \in [Profiles -> Models \cup {None}]
    /\ connections \in [Connections -> {"absent", "active", "archived"}]
    /\ routes \in [RouteIds -> Route \cup {None}]
    /\ presets \in [PresetIds -> RouteIds \cup {None}]
    /\ settings \in Selection
    /\ history \subseteq [route : RouteIds, preset : PresetIds]
    /\ plan \in Target \cup {Absent}

(* The selection names a stored route with one of that route's presets, or *)
(* neither: no deletion of a route or of a preset leaves half of it, or a  *)
(* preset of another route, which load_discovery_previous_selection would  *)
(* take for corruption.                                                    *)
SelectionIsConsistent ==
    \/ settings.route = None /\ settings.preset = None
    \/ /\ Stored(settings.route)
       /\ settings.preset \in PresetIds /\ presets[settings.preset] = settings.route

(* What is selected can be used: archiving a connection in any order with  *)
(* a save of the settings leaves no selection of what it owned.            *)
SelectedIsActive ==
    /\ settings.route # None => ActiveRoute(settings.route)
    /\ settings.profile # None => ActiveProfile(settings.profile)

(* What a generation was made with stays as it was: no deletion, model     *)
(* change or synchronisation touches the route or the preset it records.   *)
HistoryIsKept ==
    [][\A g \in history : /\ routes'[g.route] = routes[g.route] /\ Stored(g.route)
                          /\ presets'[g.preset] = g.route]_vars

(* Saving the selected profile with another model selects a route of that  *)
(* model, whichever routes the connection already had.                     *)
SaveFollowsModel ==
    [][\A p \in Profiles :
          profiles'[p] # profiles[p] /\ settings.profile = p
          => /\ settings'.profile = p /\ settings'.route \in RouteIds
             /\ routes'[settings'.route] =
                    [connection |-> p, model |-> profiles'[p], config |-> Default]]_vars

(* Edits neither rewrite what old answers were made with nor leave the     *)
(* selection behind on the model a profile had before.                     *)
EditsKeepTheirTargets == HistoryIsKept /\ SaveFollowsModel

-----------------------------------------------------------------------------
(* Statements the repository makes that the code does not keep.            *)

(* A selected profile stands for the route of its current model.           *)
SelectedProfileIsCurrent ==
    settings.profile # None => settings.route \in CurrentRoutes(settings.profile)

(* A profile has a route for its current model.                            *)
ProfileHasRoute == \A p \in Profiles : ActiveProfile(p) => CurrentRoutes(p) # {}

(* A stored route can be saved as it is.                                   *)
RoutesCanBeSaved ==
    \A r \in RouteIds : ActiveRoute(r) => RouteValid(r, routes[r].connection, routes[r].model)

(* A connection has one route for each model.                              *)
RouteIdentitiesAreUnique ==
    \A c \in Connections : \A r, s \in RoutesOf(c) : routes[r].model = routes[s].model => r = s
=============================================================================
