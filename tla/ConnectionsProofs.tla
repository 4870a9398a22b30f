-------------------------- MODULE ConnectionsProofs --------------------------
(***************************************************************************)
(* Connections and their credentials, proved: the selection and the        *)
(* history of the provider graph, for every number of profiles,            *)
(* connections, models, routes, presets and generations; the commands that *)
(* change a row and its secret, for every number of commands, connections  *)
(* and secrets; and the keychain record, for every set of credentials.     *)
(***************************************************************************)
EXTENDS MCConnections, TLAPS

(* A preset whose id is made from a route belongs to that route, and a     *)
(* route whose id is made from a profile belongs to that profile.          *)
IdsSayTheOwner ==
    /\ \A r \in RouteIds : presets[r] \in {None, r} /\ presets[Initial(r)] \in {None, r}
    /\ \A p \in Profiles : routes[p] # None => routes[p].connection = p
    /\ \A p \in Profiles, m \in Models :
          routes[Sibling(p, m)] \in {None, [connection |-> p, model |-> m, config |-> Default]}

(* A preset's route is stored.                                             *)
PresetsHaveRoutes == \A q \in PresetIds : presets[q] # None => routes[presets[q]] # None

HistoryIsStored == \A g \in history : Stored(g.route) /\ presets[g.preset] = g.route

Inv == /\ TypeOK /\ IdsSayTheOwner /\ PresetsHaveRoutes
       /\ SelectionIsConsistent /\ HistoryIsStored

-----------------------------------------------------------------------------
(* The ids made for one thing are ids of that kind.                        *)
LEMMA Ids ==
    /\ Profiles \subseteq RouteIds /\ UserRoutes \subseteq RouteIds
    /\ RouteIds \subseteq PresetIds /\ UserPresets \subseteq PresetIds
    /\ \A p \in Profiles, m \in Models : Sibling(p, m) \in RouteIds
    /\ \A c \in Connections, m \in Models : Listed(c, m) \in RouteIds
    /\ \A r \in RouteIds : Initial(r) \in PresetIds
    /\ None \notin RouteIds /\ None \notin PresetIds /\ None \notin Models /\ None \notin Profiles
    /\ None \notin Route
    /\ Profiles \subseteq Connections
BY GraphAssumption DEF RouteIds, PresetIds, Route, Connections

(* Different ids.                                                          *)
LEMMA DifferentIds ==
    /\ \A p, q \in Profiles, m, n \in Models : Sibling(p, m) = Sibling(q, n) => p = q /\ m = n
    /\ \A p, q \in Profiles, m \in Models : Sibling(p, m) # q
    /\ \A p \in Profiles, c \in Connections, m, n \in Models : Sibling(p, m) # Listed(c, n)
    /\ \A c \in Connections, m \in Models : Listed(c, m)[3] = m
    /\ \A r \in RouteIds : Initial(r)[2] = r
    /\ \A r, s \in RouteIds : Initial(r) # s /\ (Initial(r) = Initial(s) => r = s)
<1>1. \A p, q \in Profiles, m, n \in Models : Sibling(p, m) = Sibling(q, n) => p = q /\ m = n
  BY DEF Sibling
<1>2. \A p, q \in Profiles, m \in Models : Sibling(p, m) # q
  BY GraphAssumption
<1>3. \A p \in Profiles, c \in Connections, m, n \in Models : Sibling(p, m) # Listed(c, n)
  BY DEF Sibling, Listed
<1>4. \A c \in Connections, m \in Models : Listed(c, m)[3] = m
  BY DEF Listed
<1>5. \A r \in RouteIds : Initial(r)[2] = r
  BY DEF Initial
<1>6. \A r, s \in RouteIds : Initial(r) # s /\ (Initial(r) = Initial(s) => r = s)
  BY GraphAssumption, <1>5
<1>7. QED
  BY <1>1, <1>2, <1>3, <1>4, <1>5, <1>6

(* The route a profile uses for a model is one of its own, or none yet.    *)
LEMMA LegacyRoute ==
    ASSUME TypeOK, IdsSayTheOwner, NEW p \in Profiles, NEW m \in Models
    PROVE  /\ LegacyModelRouteId(p, m) \in RouteIds
           /\ routes[LegacyModelRouteId(p, m)]
                 \in {None, [connection |-> p, model |-> m, config |-> Default]}
<1>1. CASE Matching(p, m, Default) # {}
  <2>1. LegacyModelRouteId(p, m) \in Matching(p, m, Default)
    <3> HIDE DEF Matching
    <3> QED BY <1>1, Zenon DEF LegacyModelRouteId
  <2>2. QED
    BY <2>1 DEF Matching, RoutesOf, Stored, TypeOK, Route
<1>2. CASE Matching(p, m, Default) = {}
  <2>1. LegacyModelRouteId(p, m) = IF Stored(p) THEN Sibling(p, m) ELSE p
    BY <1>2 DEF LegacyModelRouteId
  <2>2. QED
    BY <2>1, Ids DEF Stored, IdsSayTheOwner
<1>3. QED
  BY <1>1, <1>2

(* An accepted selection is typed, complete or empty, and active.          *)
LEMMA AcceptedSelection ==
    ASSUME TypeOK, NEW s \in Selection, Acceptable(s)
    PROVE  /\ Normalized(s) \in Selection
           /\ TargetExists(Normalized(s))
           /\ Normalized(s).profile # None => ActiveProfile(Normalized(s).profile)
<1>1. s.profile # None => CurrentRoute(s.profile) \in RouteIds
  <2>1. SUFFICES ASSUME s.profile # None PROVE CurrentRoute(s.profile) \in RouteIds
    OBVIOUS
  <2>2. CurrentRoutes(s.profile) # {}
    BY <2>1 DEF Acceptable, ProfileAgrees
  <2>3. CurrentRoute(s.profile) \in CurrentRoutes(s.profile)
    <3> HIDE DEF CurrentRoutes
    <3> QED BY <2>2, Zenon DEF CurrentRoute
  <2>4. QED
    BY <2>3 DEF CurrentRoutes, Matching, RoutesOf
<1>2. Filled(s) \in Selection /\ Filled(s).profile = s.profile
  BY <1>1, Ids DEF Filled, Selection
<1>3. TargetExists(Filled(s)) /\ (s.profile # None => ActiveProfile(s.profile))
  BY DEF Acceptable, ProfileAgrees
<1>4. CASE Filled(s).profile = None /\ Filled(s).route = Filled(s).preset /\ ActiveProfile(Filled(s).route)
  <2>1. Normalized(s) = [Filled(s) EXCEPT !.profile = Filled(s).route]
    BY <1>4 DEF Normalized
  <2>2. Filled(s).route \in Profiles
    BY <1>4 DEF ActiveProfile
  <2>3. /\ Normalized(s) \in Selection
        /\ Normalized(s).profile = Filled(s).route
        /\ Normalized(s).route = Filled(s).route /\ Normalized(s).preset = Filled(s).preset
    BY <2>1, <2>2, <1>2 DEF Selection
  <2>4. QED
    BY <2>3, <1>3, <1>4 DEF TargetExists
<1>5. CASE ~ (Filled(s).profile = None /\ Filled(s).route = Filled(s).preset /\ ActiveProfile(Filled(s).route))
  <2>1. Normalized(s) = Filled(s)
    BY <1>5 DEF Normalized
  <2>2. QED
    BY <2>1, <1>2, <1>3
<1>6. QED
  BY <1>4, <1>5

-----------------------------------------------------------------------------
LEMMA InitInv == Init => Inv
BY Ids DEF Init, Inv, TypeOK, IdsSayTheOwner, PresetsHaveRoutes, SelectionIsConsistent,
           HistoryIsStored, Clear, Selection

LEMMA SaveProviderProfileInv ==
    ASSUME Inv, NEW p \in Profiles, NEW m \in Models, SaveProviderProfile(p, m) PROVE Inv'
<1> DEFINE r == LegacyModelRouteId(p, m)
<1> DEFINE new == [connection |-> p, model |-> m, config |-> Default]
<1>1. r \in RouteIds /\ routes[r] \in {None, new}
  BY LegacyRoute DEF Inv
<1>2. new \in Route /\ new.connection = p
  BY Ids, GraphAssumption DEF Route
<1>3. /\ profiles' = [profiles EXCEPT ![p] = m]
      /\ connections' = [connections EXCEPT ![p] = "active"]
      /\ routes' = [routes EXCEPT ![r] = new]
      /\ presets' = [presets EXCEPT ![r] = r]
      /\ settings' = FollowProfile(settings, p, r)
      /\ UNCHANGED <<history, plan>>
  <2>1. presets[r] \in {None, r}
    BY <1>1 DEF Inv, IdsSayTheOwner
  <2>2. QED
    BY <1>1, <2>1 DEF SaveProviderProfile, Inv, TypeOK
<1> HIDE DEF r, new
<1>4. r \in PresetIds /\ settings' \in Selection
  BY <1>1, <1>3, Ids DEF FollowProfile, Inv, TypeOK, Selection
<1>5. TypeOK'
  BY <1>1, <1>2, <1>3, <1>4, Ids DEF Inv, TypeOK
<1>6. IdsSayTheOwner'
  <2>1. \A s \in RouteIds : presets'[s] \in {None, s} /\ presets'[Initial(s)] \in {None, s}
    BY <1>1, <1>3, Ids, DifferentIds DEF Inv, IdsSayTheOwner, TypeOK
  <2>2. r = p \/ (r # p /\ r \notin Profiles) \/ (r \in Profiles /\ routes[r] = new)
    BY Ids, DifferentIds, <1>1, <1>2 DEF r, new, LegacyModelRouteId, Matching, RoutesOf, Stored
  <2>3. \A q \in Profiles : routes'[q] # None => routes'[q].connection = q
    BY <2>2, <1>1, <1>2, <1>3, Ids DEF Inv, IdsSayTheOwner, TypeOK
  <2>4. \A q \in Profiles, n \in Models :
           routes'[Sibling(q, n)] \in {None, [connection |-> q, model |-> n, config |-> Default]}
    <3>1. CASE routes[r] = new
      <4>1. routes' = routes
        BY <3>1, <1>1, <1>3 DEF Inv, TypeOK
      <4>2. QED BY <4>1 DEF Inv, IdsSayTheOwner
    <3>2. CASE routes[r] = None
      <4>1. r \in {p, Sibling(p, m)}
        <5>1. Matching(p, m, Default) = {}
          <6>1. SUFFICES ASSUME Matching(p, m, Default) # {} PROVE FALSE
            OBVIOUS
          <6>2. r \in Matching(p, m, Default)
            <7> HIDE DEF Matching
            <7> QED BY <6>1, Zenon DEF r, LegacyModelRouteId
          <6>3. QED
            BY <6>2, <3>2 DEF Matching, RoutesOf, Stored
        <5>2. QED
          BY <5>1 DEF r, LegacyModelRouteId
      <4>2. QED
        BY <4>1, <1>1, <1>3, Ids, DifferentIds DEF Inv, IdsSayTheOwner, TypeOK, new
    <3>3. QED
      BY <3>1, <3>2, <1>1
  <2>5. QED
    BY <2>1, <2>3, <2>4 DEF IdsSayTheOwner
<1>7. PresetsHaveRoutes'
  BY <1>1, <1>2, <1>3, <1>4, Ids DEF Inv, PresetsHaveRoutes, TypeOK
<1>8. SelectionIsConsistent'
  <2>1. \/ settings'.route = r /\ settings'.preset = r
        \/ settings' = settings
    BY <1>3 DEF FollowProfile, Inv, TypeOK, Selection
  <2>2. routes'[r] # None /\ presets'[r] = r
    BY <1>1, <1>2, <1>3, <1>4, Ids DEF Inv, TypeOK
  <2>3. \A s \in RouteIds : routes[s] # None => routes'[s] # None
    BY <1>2, <1>3, Ids DEF Inv, TypeOK
  <2>4. \A q \in PresetIds : presets[q] # None => presets'[q] = presets[q]
    BY <1>1, <1>3 DEF Inv, TypeOK, IdsSayTheOwner
  <2>5. QED
    BY <2>1, <2>2, <2>3, <2>4, <1>1, <1>4, Ids DEF Inv, SelectionIsConsistent, Stored
<1>9. HistoryIsStored'
  BY <1>1, <1>2, <1>3, <1>4, Ids DEF Inv, HistoryIsStored, IdsSayTheOwner, Stored, TypeOK
<1>10. QED
  BY <1>5, <1>6, <1>7, <1>8, <1>9 DEF Inv

LEMMA DeleteModelRouteInv ==
    ASSUME Inv, NEW r \in RouteIds, DeleteModelRoute(r) PROVE Inv'
<1>1. /\ presets' = [q \in PresetIds |-> IF presets[q] = r THEN None ELSE presets[q]]
      /\ routes' = [routes EXCEPT ![r] = None]
      /\ UNCHANGED <<profiles, connections, history, plan>>
  BY DEF DeleteModelRoute
<1>2. \/ settings.route # r /\ settings' = settings
      \/ settings' \in Selection /\ settings'.route = None /\ settings'.preset = None
  BY DEF DeleteModelRoute, ClearForRoute, Inv, TypeOK, Selection
<1>3. \A g \in history : g.route # r
  BY DEF DeleteModelRoute
<1>4. TypeOK'
  BY <1>1, <1>2 DEF Inv, TypeOK
<1>5. IdsSayTheOwner'
  BY <1>1, Ids DEF Inv, IdsSayTheOwner, TypeOK
<1>6. PresetsHaveRoutes'
  BY <1>1, Ids DEF Inv, PresetsHaveRoutes, TypeOK
<1>7. SelectionIsConsistent'
  BY <1>1, <1>2 DEF Inv, SelectionIsConsistent, Stored, TypeOK, Selection
<1>8. HistoryIsStored'
  BY <1>1, <1>3 DEF Inv, HistoryIsStored, Stored, TypeOK
<1>9. QED
  BY <1>4, <1>5, <1>6, <1>7, <1>8 DEF Inv

LEMMA DeleteGenerationPresetInv ==
    ASSUME Inv, NEW q \in PresetIds, DeleteGenerationPreset(q) PROVE Inv'
<1>1. /\ presets' = [presets EXCEPT ![q] = None]
      /\ UNCHANGED <<profiles, connections, routes, history, plan>>
      /\ \A g \in history : g.preset # q
  BY DEF DeleteGenerationPreset, Unused
<1>2. \/ settings.preset # q /\ settings' = settings
      \/ settings' \in Selection /\ settings'.route = None /\ settings'.preset = None
  BY DEF DeleteGenerationPreset, ClearForPreset, Inv, TypeOK, Selection
<1>3. TypeOK'
  BY <1>1, <1>2 DEF Inv, TypeOK
<1>4. IdsSayTheOwner'
  BY <1>1, Ids DEF Inv, IdsSayTheOwner, TypeOK
<1>5. PresetsHaveRoutes'
  BY <1>1, Ids DEF Inv, PresetsHaveRoutes, TypeOK
<1>6. SelectionIsConsistent'
  BY <1>1, <1>2 DEF Inv, SelectionIsConsistent, Stored, TypeOK, Selection
<1>7. HistoryIsStored'
  BY <1>1 DEF Inv, HistoryIsStored, Stored, TypeOK
<1>8. QED
  BY <1>3, <1>4, <1>5, <1>6, <1>7 DEF Inv

LEMMA CommitModelSyncInv ==
    ASSUME Inv, NEW c \in Connections, NEW models \in SUBSET Models, CommitModelSync(c, models) PROVE Inv'
<1>1. PICK fresh \in SUBSET Models :
         /\ \A m \in fresh : ~ Stored(Listed(c, m))
         /\ routes' = [r \in RouteIds |-> IF \E m \in fresh : r = Listed(c, m)
                                         THEN [connection |-> c, model |-> r[3], config |-> Default]
                                         ELSE routes[r]]
         /\ presets' = [q \in PresetIds |-> IF \E m \in fresh : q = Initial(Listed(c, m)) THEN q[2] ELSE presets[q]]
  BY DEF CommitModelSync
<1>2. UNCHANGED <<profiles, connections, settings, history, plan>>
  BY DEF CommitModelSync
<1>3. \A r \in RouteIds : \/ routes'[r] = routes[r]
                          \/ /\ routes[r] = None /\ routes'[r] \in Route
                             /\ \E m \in fresh : r = Listed(c, m)
  BY <1>1, Ids, DifferentIds, GraphAssumption DEF Stored, Route
<1>4. \A q \in PresetIds : \/ presets'[q] = presets[q]
                           \/ \E m \in fresh : /\ q = Initial(Listed(c, m)) /\ presets[q] = None
                                               /\ presets'[q] = Listed(c, m)
  <2>1. SUFFICES ASSUME NEW m \in fresh PROVE presets[Initial(Listed(c, m))] = None
    BY <1>1, Ids, DifferentIds
  <2>2. Listed(c, m) \in RouteIds /\ routes[Listed(c, m)] = None
    BY <1>1, Ids DEF Stored
  <2>3. presets[Initial(Listed(c, m))] \in {None, Listed(c, m)}
    BY <2>2 DEF Inv, IdsSayTheOwner
  <2>4. QED
    BY <2>2, <2>3, Ids DEF Inv, PresetsHaveRoutes
<1>5. \A m \in fresh : Listed(c, m) \in RouteIds /\ routes'[Listed(c, m)] # None
  <2>1. SUFFICES ASSUME NEW m \in fresh PROVE Listed(c, m) \in RouteIds /\ routes'[Listed(c, m)] # None
    OBVIOUS
  <2>2. [connection |-> c, model |-> m, config |-> Default] # None
    BY <2>1, Ids, GraphAssumption DEF Route
  <2>3. Listed(c, m) \in RouteIds /\ Listed(c, m)[3] = m
    BY <2>1, Ids, DifferentIds
  <2>4. routes'[Listed(c, m)] = [connection |-> c, model |-> Listed(c, m)[3], config |-> Default]
    BY <2>1, <2>3, <1>1
  <2>5. QED
    BY <2>2, <2>3, <2>4
<1>6. TypeOK'
  <2>1. routes' \in [RouteIds -> Route \cup {None}]
    BY <1>1, <1>3 DEF Inv, TypeOK
  <2>2. presets' \in [PresetIds -> RouteIds \cup {None}]
    BY <1>1, <1>4, Ids DEF Inv, TypeOK
  <2>3. QED
    BY <2>1, <2>2, <1>2 DEF Inv, TypeOK
<1>7. IdsSayTheOwner'
  <2>1. \A s \in RouteIds : presets'[s] \in {None, s} /\ presets'[Initial(s)] \in {None, s}
    BY <1>4, Ids, DifferentIds DEF Inv, IdsSayTheOwner
  <2>2. \A p \in Profiles : routes'[p] = routes[p]
    BY <1>3, Ids, GraphAssumption
  <2>3. \A p \in Profiles, m \in Models : routes'[Sibling(p, m)] = routes[Sibling(p, m)]
    BY <1>3, Ids, DifferentIds
  <2>4. QED
    BY <2>1, <2>2, <2>3 DEF Inv, IdsSayTheOwner
<1>8. PresetsHaveRoutes'
  BY <1>3, <1>4, <1>5, Ids DEF Inv, PresetsHaveRoutes, TypeOK
<1>9. SelectionIsConsistent'
  BY <1>2, <1>3, <1>4, Ids DEF Inv, SelectionIsConsistent, Stored
<1>10. HistoryIsStored'
  BY <1>2, <1>3, <1>4, Ids DEF Inv, HistoryIsStored, Stored, TypeOK
<1>11. QED
  BY <1>6, <1>7, <1>8, <1>9, <1>10 DEF Inv

LEMMA SaveModelRouteInv ==
    ASSUME Inv, NEW r \in UserRoutes, NEW c \in Connections, NEW m \in Models, NEW config \in Configs,
           SaveModelRoute(r, c, m, config)
    PROVE  Inv'
<1>1. /\ routes[r] = None
      /\ routes' = [routes EXCEPT ![r] = [connection |-> c, model |-> m, config |-> config]]
      /\ UNCHANGED <<profiles, connections, presets, settings, history, plan>>
  BY DEF SaveModelRoute
<1>2. \A s \in RouteIds : routes[s] # None => routes'[s] = routes[s]
  BY <1>1 DEF Inv, TypeOK
<1>3. TypeOK'
  BY <1>1 DEF Inv, TypeOK, Route
<1>4. IdsSayTheOwner'
  <2>1. r \notin Profiles /\ \A p \in Profiles, n \in Models : Sibling(p, n) # r
    BY GraphAssumption
  <2>2. \A s \in RouteIds : s # r => routes'[s] = routes[s]
    BY <1>1 DEF Inv, TypeOK
  <2>3. QED
    BY <2>1, <2>2, <1>1, Ids DEF Inv, IdsSayTheOwner
<1>5. PresetsHaveRoutes' /\ SelectionIsConsistent' /\ HistoryIsStored'
  BY <1>1, <1>2, Ids DEF Inv, PresetsHaveRoutes, SelectionIsConsistent, HistoryIsStored, Stored, TypeOK
<1>6. QED
  BY <1>3, <1>4, <1>5 DEF Inv

LEMMA SaveGenerationPresetInv ==
    ASSUME Inv, NEW q \in UserPresets, NEW r \in RouteIds, SaveGenerationPreset(q, r) PROVE Inv'
<1>1. /\ presets[q] = None /\ Stored(r)
      /\ presets' = [presets EXCEPT ![q] = r]
      /\ UNCHANGED <<profiles, connections, routes, settings, history, plan>>
  BY DEF SaveGenerationPreset, ActiveRoute
<1>2. q \in PresetIds /\ q \notin RouteIds /\ \A s \in RouteIds : q # Initial(s)
  BY Ids, GraphAssumption
<1>3. TypeOK'
  BY <1>1, <1>2 DEF Inv, TypeOK
<1>4. IdsSayTheOwner'
  BY <1>1, <1>2, Ids DEF Inv, TypeOK, IdsSayTheOwner
<1>5. PresetsHaveRoutes' /\ SelectionIsConsistent' /\ HistoryIsStored'
  BY <1>1, <1>2, Ids DEF Inv, PresetsHaveRoutes, SelectionIsConsistent, HistoryIsStored, Stored, TypeOK
<1>6. QED
  BY <1>3, <1>4, <1>5 DEF Inv

LEMMA SaveSettingsInv ==
    ASSUME Inv, NEW s \in Submitted, SaveSettings(s) PROVE Inv'
<1>1. s \in Selection
  BY DEF Submitted, Selection, ActiveProfile
<1>2. settings' = Normalized(s) /\ settings' \in Selection /\ TargetExists(settings')
  BY <1>1, AcceptedSelection DEF SaveSettings, Inv
<1>3. UNCHANGED <<profiles, connections, routes, presets, history, plan>>
  BY DEF SaveSettings
<1>4. TypeOK' /\ IdsSayTheOwner' /\ PresetsHaveRoutes' /\ HistoryIsStored'
  BY <1>2, <1>3 DEF Inv, TypeOK, IdsSayTheOwner, PresetsHaveRoutes, HistoryIsStored, Stored
<1>5. SelectionIsConsistent'
  BY <1>2, <1>3 DEF TargetExists, SelectionIsConsistent, ActiveRoute, Stored
<1>6. QED
  BY <1>4, <1>5 DEF Inv

(* The actions that write only connections, the selection, history or the  *)
(* plan.                                                                   *)
LEMMA OtherActionsInv ==
    ASSUME Inv,
           \/ \E c \in Others : CreateProviderConnection(c)
           \/ \E c \in Connections : ArchiveProviderConnection(c)
           \/ \E r \in RouteIds, q \in PresetIds : AppendGeneration(r, q)
           \/ PrepareDiscoveryCommit \/ RestoreDiscoverySelection \/ FinishDiscovery
           \/ UNCHANGED vars
    PROVE  Inv'
<1>1. routes' = routes /\ presets' = presets
  BY DEF CreateProviderConnection, ArchiveProviderConnection, AppendGeneration, PrepareDiscoveryCommit,
         RestoreDiscoverySelection, FinishDiscovery, vars
<1>2. IdsSayTheOwner' /\ PresetsHaveRoutes'
  BY <1>1 DEF Inv, IdsSayTheOwner, PresetsHaveRoutes
<1>3. HistoryIsStored' /\ history' \subseteq [route : RouteIds, preset : PresetIds]
  BY <1>1 DEF CreateProviderConnection, ArchiveProviderConnection, AppendGeneration, PrepareDiscoveryCommit,
         RestoreDiscoverySelection, FinishDiscovery, vars, Inv, TypeOK, HistoryIsStored, Stored
<1>4. settings' \in Selection /\ SelectionIsConsistent'
  <2>1. CASE settings' = settings
    BY <2>1, <1>1 DEF Inv, TypeOK, SelectionIsConsistent, Stored
  <2>2. CASE settings' = Clear
    BY <2>2 DEF Clear, Selection, SelectionIsConsistent
  <2>3. CASE settings' # settings /\ settings' # Clear
    <3>1. RestoreDiscoverySelection
      BY <2>3 DEF CreateProviderConnection, ArchiveProviderConnection, AppendGeneration, PrepareDiscoveryCommit,
                  FinishDiscovery, ClearForConnection, vars
    <3>2. /\ plan \in Target /\ plan.route # None /\ TargetStored(plan)
          /\ settings'.route = plan.route /\ settings'.preset = plan.preset
          /\ settings' \in Selection
      BY <3>1, <2>3 DEF RestoreDiscoverySelection, Inv, TypeOK, Target, Selection
    <3>3. QED
      BY <3>2, <1>1 DEF TargetStored, SelectionIsConsistent, Stored
  <2>4. QED
    BY <2>1, <2>2, <2>3
<1>5. plan' \in Target \cup {Absent}
  <2>1. PreviousSelection \in Target
    BY Ids DEF PreviousSelection, Inv, TypeOK, Selection, Target
  <2>2. QED
    BY <2>1 DEF CreateProviderConnection, ArchiveProviderConnection, AppendGeneration, PrepareDiscoveryCommit,
       RestoreDiscoverySelection, FinishDiscovery, vars, Inv, TypeOK
<1>6. profiles' = profiles /\ connections' \in [Connections -> {"absent", "active", "archived"}]
  BY DEF CreateProviderConnection, ArchiveProviderConnection, AppendGeneration, PrepareDiscoveryCommit,
         RestoreDiscoverySelection, FinishDiscovery, vars, Inv, TypeOK
<1>7. QED
  BY <1>1, <1>2, <1>3, <1>4, <1>5, <1>6 DEF Inv, TypeOK

LEMMA StepInv == Inv /\ [Next]_vars => Inv'
<1>1. SUFFICES ASSUME Inv, [Next]_vars PROVE Inv'
  OBVIOUS
<1>2. CASE \E p \in Profiles, m \in Models : SaveProviderProfile(p, m)
  BY <1>1, <1>2, SaveProviderProfileInv
<1>3. CASE \E r \in UserRoutes, c \in Connections, m \in Models, config \in Configs : SaveModelRoute(r, c, m, config)
  BY <1>1, <1>3, SaveModelRouteInv
<1>4. CASE \E r \in RouteIds : DeleteModelRoute(r)
  BY <1>1, <1>4, DeleteModelRouteInv
<1>5. CASE \E q \in UserPresets, r \in RouteIds : SaveGenerationPreset(q, r)
  BY <1>1, <1>5, SaveGenerationPresetInv
<1>6. CASE \E q \in PresetIds : DeleteGenerationPreset(q)
  BY <1>1, <1>6, DeleteGenerationPresetInv
<1>7. CASE \E c \in Connections : \E models \in SUBSET Models : CommitModelSync(c, models)
  BY <1>1, <1>7, CommitModelSyncInv
<1>8. CASE \E s \in Submitted : SaveSettings(s)
  BY <1>1, <1>8, SaveSettingsInv
<1>9. CASE \/ \E c \in Others : CreateProviderConnection(c)
           \/ \E c \in Connections : ArchiveProviderConnection(c)
           \/ \E r \in RouteIds, q \in PresetIds : AppendGeneration(r, q)
           \/ PrepareDiscoveryCommit \/ RestoreDiscoverySelection \/ FinishDiscovery
           \/ UNCHANGED vars
  BY <1>1, <1>9, OtherActionsInv
<1>10. QED
  BY <1>1, <1>2, <1>3, <1>4, <1>5, <1>6, <1>7, <1>8, <1>9 DEF Next

(* Every reachable state satisfies the inductive invariant.                *)
LEMMA SpecInv == Spec => []Inv
BY InitInv, StepInv, PTL DEF Spec

(* The tables and the selection hold what their types say, whatever is     *)
(* saved, deleted, synchronised or restored.                               *)
THEOREM GraphTyped == Spec => []TypeOK
<1>1. Inv => TypeOK
  BY DEF Inv
<1>2. QED
  BY SpecInv, <1>1, PTL

(* The selection is whole or empty: its preset is stored and belongs to    *)
(* its route, in every order of saves, deletions, synchronisations and     *)
(* restorations by discovery.                                              *)
THEOREM SelectionConsistent == Spec => []SelectionIsConsistent
<1>1. Inv => SelectionIsConsistent
  BY DEF Inv
<1>2. QED
  BY SpecInv, <1>1, PTL

-----------------------------------------------------------------------------
(* What saving a profile does to a stored route and preset: nothing; and   *)
(* the route it uses is stored as the profile's for the model.             *)
LEMMA SaveKeepsRows ==
    ASSUME Inv, NEW p \in Profiles, NEW m \in Models, SaveProviderProfile(p, m)
    PROVE  /\ \A r \in RouteIds : routes[r] # None => routes'[r] = routes[r]
           /\ \A q \in PresetIds : presets[q] # None => presets'[q] = presets[q]
           /\ LegacyModelRouteId(p, m) \in RouteIds
           /\ routes'[LegacyModelRouteId(p, m)] = [connection |-> p, model |-> m, config |-> Default]
<1>1. /\ LegacyModelRouteId(p, m) \in RouteIds
      /\ routes[LegacyModelRouteId(p, m)] \in {None, [connection |-> p, model |-> m, config |-> Default]}
  BY LegacyRoute DEF Inv
<1>2. QED
  BY <1>1, Ids DEF SaveProviderProfile, Inv, TypeOK

(* Stored rows survive a synchronisation as they are.                      *)
LEMMA SyncKeepsRows ==
    ASSUME Inv, NEW c \in Connections, NEW models \in SUBSET Models, CommitModelSync(c, models)
    PROVE  /\ \A r \in RouteIds : routes[r] # None => routes'[r] = routes[r]
           /\ \A q \in PresetIds : presets[q] # None => presets'[q] = presets[q]
<1>1. PICK fresh \in SUBSET Models :
         /\ \A m \in fresh : ~ Stored(Listed(c, m))
         /\ routes' = [r \in RouteIds |-> IF \E m \in fresh : r = Listed(c, m)
                                         THEN [connection |-> c, model |-> r[3], config |-> Default]
                                         ELSE routes[r]]
         /\ presets' = [q \in PresetIds |-> IF \E m \in fresh : q = Initial(Listed(c, m)) THEN q[2] ELSE presets[q]]
  BY DEF CommitModelSync
<1>2. \A m \in fresh : Listed(c, m) \in RouteIds /\ routes[Listed(c, m)] = None
  BY <1>1, Ids DEF Stored
<1>3. \A m \in fresh : presets[Initial(Listed(c, m))] = None
  <2>1. SUFFICES ASSUME NEW m \in fresh PROVE presets[Initial(Listed(c, m))] = None
    OBVIOUS
  <2>2. presets[Initial(Listed(c, m))] \in {None, Listed(c, m)}
    BY <1>2 DEF Inv, IdsSayTheOwner
  <2>3. QED
    BY <1>2, <2>2, Ids DEF Inv, PresetsHaveRoutes
<1>4. QED
  BY <1>1, <1>2, <1>3, Ids

(* What a generation was made with stays as it was: the route and the      *)
(* preset that a generation references are never deleted or changed.       *)
THEOREM HistoryKept == Spec => HistoryIsKept
<1> DEFINE Kept == \A g \in history : /\ routes'[g.route] = routes[g.route] /\ Stored(g.route)
                                      /\ presets'[g.preset] = g.route
<1>1. ASSUME Inv, [Next]_vars PROVE Kept
  <2>1. SUFFICES ASSUME NEW g \in history
                 PROVE /\ routes'[g.route] = routes[g.route] /\ Stored(g.route)
                       /\ presets'[g.preset] = g.route
    OBVIOUS
  <2>2. /\ g.route \in RouteIds /\ routes[g.route] # None /\ Stored(g.route)
        /\ g.preset \in PresetIds /\ presets[g.preset] = g.route /\ presets[g.preset] # None
    BY <1>1, <2>1, Ids DEF Inv, TypeOK, HistoryIsStored, Stored
  <2>3. CASE \E p \in Profiles, m \in Models : SaveProviderProfile(p, m)
    BY <1>1, <2>2, <2>3, SaveKeepsRows
  <2>4. CASE \E r \in UserRoutes, c \in Connections, m \in Models, config \in Configs : SaveModelRoute(r, c, m, config)
    BY <1>1, <2>2, <2>4 DEF SaveModelRoute, Inv, TypeOK
  <2>5. CASE \E r \in RouteIds : DeleteModelRoute(r)
    BY <1>1, <2>1, <2>2, <2>5 DEF DeleteModelRoute, Inv, TypeOK
  <2>6. CASE \E q \in UserPresets, r \in RouteIds : SaveGenerationPreset(q, r)
    BY <1>1, <2>2, <2>6, Ids DEF SaveGenerationPreset, Inv, TypeOK
  <2>7. CASE \E q \in PresetIds : DeleteGenerationPreset(q)
    BY <1>1, <2>1, <2>2, <2>7 DEF DeleteGenerationPreset, Unused, Inv, TypeOK
  <2>8. CASE \E c \in Connections : \E models \in SUBSET Models : CommitModelSync(c, models)
    BY <1>1, <2>2, <2>8, SyncKeepsRows
  <2>9. CASE routes' = routes /\ presets' = presets
    BY <2>2, <2>9
  <2>10. QED
    BY <1>1, <2>3, <2>4, <2>5, <2>6, <2>7, <2>8, <2>9
       DEF Next, SaveSettings, CreateProviderConnection, ArchiveProviderConnection, AppendGeneration,
           PrepareDiscoveryCommit, RestoreDiscoverySelection, FinishDiscovery, vars
<1>2. QED
  BY SpecInv, <1>1, PTL DEF Spec, HistoryIsKept

(* Saving the selected profile with another model selects a stored route   *)
(* of that model and profile, whichever routes were there.                 *)
THEOREM SaveTakesSelectionAlong == Spec => SaveFollowsModel
<1> DEFINE Follows ==
        \A p \in Profiles :
          profiles'[p] # profiles[p] /\ settings.profile = p
          => /\ settings'.profile = p /\ settings'.route \in RouteIds
             /\ routes'[settings'.route] =
                    [connection |-> p, model |-> profiles'[p], config |-> Default]
<1>1. ASSUME Inv, [Next]_vars PROVE Follows
  <2>1. SUFFICES ASSUME NEW p \in Profiles, profiles'[p] # profiles[p], settings.profile = p
                 PROVE /\ settings'.profile = p /\ settings'.route \in RouteIds
                       /\ routes'[settings'.route] =
                             [connection |-> p, model |-> profiles'[p], config |-> Default]
    OBVIOUS
  <2>2. \E q \in Profiles, m \in Models : SaveProviderProfile(q, m)
    BY <1>1, <2>1
       DEF Next, SaveModelRoute, DeleteModelRoute, SaveGenerationPreset, DeleteGenerationPreset,
           CommitModelSync, SaveSettings, CreateProviderConnection, ArchiveProviderConnection,
           AppendGeneration, PrepareDiscoveryCommit, RestoreDiscoverySelection, FinishDiscovery, vars
  <2>3. PICK m \in Models : SaveProviderProfile(p, m)
    BY <1>1, <2>1, <2>2 DEF SaveProviderProfile, Inv, TypeOK
  <2>4. profiles'[p] = m
    BY <1>1, <2>3 DEF SaveProviderProfile, Inv, TypeOK
  <2>5. settings'.profile = p /\ settings'.route = LegacyModelRouteId(p, m)
    BY <1>1, <2>1, <2>3 DEF SaveProviderProfile, FollowProfile, Inv, TypeOK, Selection
  <2>6. QED
    BY <1>1, <2>3, <2>4, <2>5, SaveKeepsRows
<1>2. QED
  BY SpecInv, <1>1, PTL DEF Spec, SaveFollowsModel

(* Both promises of an edit, for any number of profiles, routes, presets   *)
(* and recorded generations.                                               *)
THEOREM TargetsKept == Spec => EditsKeepTheirTargets
  BY HistoryKept, SaveTakesSelectionAlong DEF EditsKeepTheirTargets

-----------------------------------------------------------------------------
(* Without a discovery, what is selected is active.                        *)
Active == Inv /\ plan = Absent /\ SelectedIsActive

(* A discovery that starts has captured a selection.                       *)
LEMMA PlanOfDiscovery ==
    ASSUME Inv, plan = Absent, PrepareDiscoveryCommit PROVE Discovery /\ plan' # Absent
<1>1. Discovery /\ plan' = PreviousSelection
  BY DEF PrepareDiscoveryCommit
<1>2. settings.profile \in Profiles \cup {None} /\ settings \in Selection
  BY DEF Inv, TypeOK, Selection
<1>3. PreviousSelection \in Target
  BY <1>2, Ids DEF PreviousSelection, Target, Selection
<1>4. QED
  BY <1>1, <1>3, GraphAssumption DEF Target

(* A step that leaves no captured selection behind keeps it so.            *)
LEMMA StepActive == ASSUME Active, [Next]_vars, plan' = Absent PROVE Active'
<1>1. Inv'
  BY StepInv DEF Active
<1>2. ~ PrepareDiscoveryCommit /\ ~ RestoreDiscoverySelection /\ ~ FinishDiscovery
  BY PlanOfDiscovery DEF Active, RestoreDiscoverySelection, FinishDiscovery
<1>3. plan' = plan
  BY <1>2 DEF Next, SaveProviderProfile, SaveModelRoute, DeleteModelRoute, SaveGenerationPreset, DeleteGenerationPreset,
           CommitModelSync, SaveSettings, CreateProviderConnection, ArchiveProviderConnection,
           AppendGeneration, vars
<1>4. SelectedIsActive'
  <2> USE DEF Active
  <2>1. ASSUME NEW p \in Profiles, NEW m \in Models, SaveProviderProfile(p, m) PROVE SelectedIsActive'
    <3>1. /\ profiles' = [profiles EXCEPT ![p] = m]
          /\ connections' = [connections EXCEPT ![p] = "active"]
      BY <2>1 DEF SaveProviderProfile
    <3>2. /\ \A c \in Connections : connections[c] = "active" => connections'[c] = "active"
          /\ connections'[p] = "active" /\ profiles'[p] # None
          /\ \A q \in Profiles : profiles[q] # None => profiles'[q] # None
      BY <3>1, Ids DEF Inv, TypeOK
    <3>3. CASE settings.profile = p
      <4>1. settings'.profile = p /\ settings'.route = LegacyModelRouteId(p, m)
        BY <2>1, <3>3 DEF SaveProviderProfile, FollowProfile, Inv, TypeOK, Selection
      <4>2. LegacyModelRouteId(p, m) \in RouteIds /\ routes'[LegacyModelRouteId(p, m)] # None
            /\ routes'[LegacyModelRouteId(p, m)].connection = p
        <5>1. /\ LegacyModelRouteId(p, m) \in RouteIds
              /\ routes'[LegacyModelRouteId(p, m)] = [connection |-> p, model |-> m, config |-> Default]
          BY <2>1, SaveKeepsRows
        <5>2. [connection |-> p, model |-> m, config |-> Default] \in Route
          BY Ids, GraphAssumption DEF Route
        <5>3. QED
          BY <5>1, <5>2, Ids
      <4>3. QED
        BY <4>1, <4>2, <3>2 DEF SelectedIsActive, ActiveRoute, ActiveProfile, Stored
    <3>4. CASE settings.profile # p
      <4>1. settings' = settings
        BY <2>1, <3>4 DEF SaveProviderProfile, FollowProfile
      <4>2. \A r \in RouteIds : routes[r] # None => routes'[r] = routes[r] /\ routes[r].connection \in Connections
        BY <2>1, SaveKeepsRows DEF Inv, TypeOK, Route
      <4>3. QED
        BY <4>1, <4>2, <3>2, Ids DEF SelectedIsActive, ActiveRoute, ActiveProfile, Stored
    <3>5. QED
      BY <3>3, <3>4
  <2>2. ASSUME NEW c \in Connections, ArchiveProviderConnection(c) PROVE SelectedIsActive'
    <3>1. CASE settings' = Clear
      BY <3>1 DEF SelectedIsActive, Clear
    <3>2. CASE settings' # Clear
      <4>1. /\ settings' = settings /\ settings.profile # c
            /\ Stored(settings.route) => routes[settings.route].connection # c
        BY <2>2, <3>2 DEF ArchiveProviderConnection, ClearForConnection
      <4>2. /\ connections' = [connections EXCEPT ![c] = "archived"]
            /\ UNCHANGED <<profiles, routes>>
        BY <2>2 DEF ArchiveProviderConnection
      <4>3. \A d \in Connections : d # c => connections'[d] = connections[d]
        BY <4>2 DEF Inv, TypeOK
      <4>4. \A r \in RouteIds : routes[r] # None => routes[r].connection \in Connections
        BY DEF Inv, TypeOK, Route
      <4>5. QED
        BY <4>1, <4>2, <4>3, <4>4, Ids DEF SelectedIsActive, ActiveRoute, ActiveProfile, Stored
    <3>3. QED
      BY <3>1, <3>2
  <2>3. ASSUME NEW r \in RouteIds, DeleteModelRoute(r) PROVE SelectedIsActive'
    <3>1. \/ settings.route # r /\ settings' = settings
          \/ settings'.route = None /\ settings'.profile \in {None, settings.profile}
      BY <2>3 DEF DeleteModelRoute, ClearForRoute
    <3>2. /\ routes' = [routes EXCEPT ![r] = None] /\ UNCHANGED <<profiles, connections>>
      BY <2>3 DEF DeleteModelRoute
    <3>3. QED
      BY <3>1, <3>2 DEF SelectedIsActive, ActiveRoute, ActiveProfile, Stored, Inv, TypeOK
  <2>4. ASSUME NEW q \in PresetIds, DeleteGenerationPreset(q) PROVE SelectedIsActive'
    <3>1. \/ settings' = settings
          \/ settings'.route = None /\ settings'.profile \in {None, settings.profile}
      BY <2>4 DEF DeleteGenerationPreset, ClearForPreset
    <3>2. UNCHANGED <<profiles, connections, routes>>
      BY <2>4 DEF DeleteGenerationPreset
    <3>3. QED
      BY <3>1, <3>2 DEF SelectedIsActive, ActiveRoute, ActiveProfile, Stored
  <2>5. ASSUME NEW s \in Submitted, SaveSettings(s) PROVE SelectedIsActive'
    <3>1. s \in Selection
      BY DEF Submitted, Selection, ActiveProfile
    <3>2. /\ settings' = Normalized(s) /\ TargetExists(settings')
          /\ settings'.profile # None => ActiveProfile(settings'.profile)
      BY <3>1, <2>5, AcceptedSelection DEF SaveSettings, Inv
    <3>3. UNCHANGED <<profiles, connections, routes, presets>>
      BY <2>5 DEF SaveSettings
    <3>4. QED
      BY <3>2, <3>3 DEF SelectedIsActive, TargetExists, ActiveRoute, ActiveProfile, Stored
  <2>6. ASSUME /\ settings' = settings /\ profiles' = profiles
               /\ \A c \in Connections : connections[c] = "active" => connections'[c] = "active"
               /\ \A r \in RouteIds : routes[r] # None => routes'[r] = routes[r]
        PROVE SelectedIsActive'
    <3>1. \A r \in RouteIds : routes[r] # None => routes[r].connection \in Connections
      BY DEF Inv, TypeOK, Route
    <3>2. QED
      BY <2>6, <3>1, Ids DEF SelectedIsActive, ActiveRoute, ActiveProfile, Stored
  <2>7. ASSUME NEW c \in Others, CreateProviderConnection(c) PROVE SelectedIsActive'
    BY <2>6, <2>7 DEF CreateProviderConnection, Inv, TypeOK, Connections
  <2>8. ASSUME NEW r \in UserRoutes, NEW c \in Connections, NEW m \in Models, NEW config \in Configs,
               SaveModelRoute(r, c, m, config)
        PROVE SelectedIsActive'
    BY <2>6, <2>8 DEF SaveModelRoute, Inv, TypeOK
  <2>9. ASSUME NEW c \in Connections, NEW models \in SUBSET Models, CommitModelSync(c, models)
        PROVE SelectedIsActive'
    <3>1. UNCHANGED <<profiles, connections, settings>>
      BY <2>9 DEF CommitModelSync
    <3>2. QED
      BY <2>6, <2>9, <3>1, SyncKeepsRows
  <2>10. CASE \/ \E q \in UserPresets, r \in RouteIds : SaveGenerationPreset(q, r)
              \/ \E r \in RouteIds, q \in PresetIds : AppendGeneration(r, q)
              \/ UNCHANGED vars
    <3>1. UNCHANGED <<profiles, connections, routes, settings>>
      BY <2>10 DEF SaveGenerationPreset, AppendGeneration, vars
    <3>2. QED
      BY <2>6, <3>1
  <2>11. QED
    BY <1>2, <2>1, <2>2, <2>3, <2>4, <2>5, <2>7, <2>8, <2>9, <2>10 DEF Next
<1>5. QED
  BY <1>1, <1>3, <1>4 DEF Active

(* As long as no discovery runs, what is selected can be used: archiving   *)
(* in any order with saves of the settings leaves no selection behind.     *)
THEOREM SelectedActive == Discovery = FALSE => (Spec => []SelectedIsActive)
<1>1. SUFFICES ASSUME Discovery = FALSE PROVE Spec => []SelectedIsActive
  OBVIOUS
<1>2. Init => Active
  BY InitInv DEF Active, Init, Clear, SelectedIsActive
<1>3. Active /\ [Next]_vars => Active'
  <2>1. SUFFICES ASSUME Active, [Next]_vars PROVE Active'
    OBVIOUS
  <2>2. ~ PrepareDiscoveryCommit
    BY <1>1, <2>1, PlanOfDiscovery DEF Active
  <2>3. plan' = Absent
    BY <2>1, <2>2 DEF Active, Next, SaveProviderProfile, SaveModelRoute, DeleteModelRoute,
           SaveGenerationPreset, DeleteGenerationPreset, CommitModelSync, SaveSettings,
           CreateProviderConnection, ArchiveProviderConnection, AppendGeneration,
           RestoreDiscoverySelection, FinishDiscovery, vars
  <2>4. QED
    BY <2>1, <2>3, StepActive
<1>4. Active => SelectedIsActive
  BY DEF Active
<1>5. QED
  BY <1>2, <1>3, <1>4, PTL DEF Spec

(* Where users edit and no discovery interferes, what is selected stays    *)
(* active, whatever else the composition runs beside the graph.            *)
THEOREM SelectedStays == MCSpec => []SelectedStaysActive
<1> DEFINE J == scope = "edits" => Active
<1>1. MCInit => J
  BY InitInv DEF MCInit, Active, Init, Clear, SelectedIsActive
<1>2. J /\ [MCNext]_<<scope, vars, vaultVars, keychainVars>> => J'
  <2>1. SUFFICES ASSUME J, [MCNext]_<<scope, vars, vaultVars, keychainVars>>, scope' = "edits"
                 PROVE Active'
    OBVIOUS
  <2>2. scope' = scope
    BY <2>1 DEF MCNext, GraphNext, AloneNext, TogetherNext, FaultsNext, DeathNext
  <2>3. [Next]_vars /\ (plan' = Absent)
    <3>1. CASE GraphNext
      BY <2>1, <2>2, <3>1 DEF GraphNext
    <3>2. CASE ~GraphNext
      <4>1. UNCHANGED vars
        BY <2>1, <2>2, <3>2 DEF MCNext, AloneNext, TogetherNext, FaultsNext, DeathNext
      <4>2. QED
        BY <2>1, <2>2, <4>1 DEF vars, Active
    <3>3. QED
      BY <3>1, <3>2
  <2>4. QED
    BY <2>1, <2>2, <2>3, StepActive
<1>3. J => SelectedStaysActive
  BY DEF Active, SelectedStaysActive
<1>4. QED
  BY <1>1, <1>2, <1>3, PTL DEF MCSpec

-----------------------------------------------------------------------------

(***************************************************************************)
(* The keychain record of one credential                                   *)
(***************************************************************************)
Record == Faults!Records \cup {None}
OpKinds == {"idle", "read", "store", "delete"}
OpPhases == {"rest", "probe", "legacy", "put", "check", "drop", "gone", "sweep", "undo", "undone"}
OpResults == {"ok", "error", "recovery", "died"}
Ops == [kind : OpKinds, at : OpPhases, value : Values \cup {None}, target : Record,
        previous : Record, result : OpResults]

(* The records are records, and what an operation wants to write is in the *)
(* form the baseline demands.                                              *)
KeptShape ==
    /\ protected \in Record /\ legacy \in Record /\ op \in Ops
    /\ truth \subseteq Values \cup {None} /\ tainted \in BOOLEAN
    /\ op.target # None => Faults!Conforms(op.target)

(* Which record the data-protection keychain holds at each call, as far as *)
(* the calls before it settle that whatever they reported.                 *)
Course ==
    /\ op.kind = "idle" <=> op.at = "rest"
    /\ op.kind = "store" => op.value \in Values
    /\ op.at \in {"rest", "probe"} => op.previous = None
    /\ op.at = "legacy" => op.kind = "read" /\ protected = None /\ op.previous = None
    /\ op.at = "put" => op.kind \in {"read", "store"} /\ protected = op.previous
    /\ op.at = "check" => op.kind \in {"read", "store"} /\ protected # None
    /\ op.at = "drop" => op.kind = "delete" /\ protected = op.previous
    /\ op.at = "gone" => op.kind = "delete" /\ protected = None
    /\ op.at = "sweep" => protected = (IF op.kind = "delete" THEN None ELSE op.target)
    /\ op.at \in {"put", "check", "sweep"} /\ op.kind # "delete" => op.target # None
    /\ op.at \in {"put", "check", "sweep"} /\ op.kind = "store" => op.target = Faults!Hardened(op.value)
    /\ op.at = "undo" /\ op.kind # "delete" => protected # None
    /\ op.at = "undone" /\ op.previous # None => protected # None

(* What a reader would be given were this the protected record.            *)
Reads(record) ==
    IF record # None THEN record.value ELSE IF legacy # None THEN legacy.value ELSE None

(* None may be found once a deletion is under way.                         *)
Deleting == IF op.kind = "delete" THEN {None} ELSE {}

(* Every copy an operation may fall back to is one the user may expect:    *)
(* the legacy record, the record it found, and the record a read rewrites. *)
Faithful ==
    ~tainted =>
        /\ legacy # None => legacy.value \in truth
        /\ op.at \in {"rest", "probe"} => Reads(protected) \in truth
        /\ op.at \notin {"rest", "probe"} => Reads(op.previous) \in truth \cup Deleting
        /\ op.at \in {"put", "check", "sweep"} /\ op.kind = "read" => op.target.value \in truth

KeptInv == KeptShape /\ Course /\ Faithful

(* Where writes are not corrupted the record is known at every call.       *)
Settled ==
    /\ op.at = "check" => protected = op.target
    /\ op.at = "undo" /\ op.kind = "delete" => protected \in {None, op.previous}
    /\ op.at = "undo" /\ op.kind # "delete" => op.target # None /\ protected = op.target
    /\ op.at = "undo" /\ op.kind = "store" => op.target.value = op.value
    /\ op.at = "undo" /\ op.kind = "read" /\ ~tainted => op.target.value \in truth
    /\ op.at = "undone" => protected = op.previous

-----------------------------------------------------------------------------
(* None is no record, and a record has its value.                          *)
LEMMA RecordFacts ==
    /\ None \notin Faults!Records
    /\ \A v \in Values \cup {Junk} : Faults!Hardened(v) \in Faults!Records /\ Faults!Conforms(Faults!Hardened(v))
                          /\ Faults!Hardened(v).value = v
    /\ \A r \in Faults!Records : r.value \in Values \cup {Junk}
    /\ \A r \in Faults!Records : Faults!Conforms(r) => r = Faults!Hardened(r.value)
BY ConnectionsAssumption DEF Faults!Records, Faults!Hardened, Faults!Conforms

(* The protected record changes in no way but to a record.                 *)
LEMMA UpsertRecord ==
    ASSUME NEW record \in Faults!Records, Faults!Upsert(record)
    PROVE  protected' \in Faults!Records
BY DEF Faults!Upsert, Faults!Records

(* An operation that ends.                                                 *)
LEMMA FinishOp ==
    ASSUME NEW result \in OpResults, NEW returned, KeptShape, Course, op.kind # "idle",
           Faults!Finish(result, returned)
    PROVE  /\ op' \in Ops /\ op'.kind = "idle" /\ op'.at = "rest" /\ op'.target = None
           /\ op'.previous = None /\ op'.result = result
           /\ truth' \subseteq Values \cup {None}
           /\ tainted' \in BOOLEAN
           /\ result # "ok" /\ ~tainted' => ~tainted /\ result # "recovery"
           /\ result # "ok" => truth' = truth \cup (IF op.kind = "store" THEN {op.value} ELSE {}) \cup Deleting
           /\ result = "ok" /\ op.kind = "read" => truth' = truth \cap {returned} /\ tainted' = tainted
           /\ result = "ok" /\ op.kind = "store" => truth' = {op.value} /\ tainted' = FALSE
           /\ result = "ok" /\ op.kind = "delete" => truth' = {None} /\ tainted' = FALSE
<1>1. op' = [kind |-> "idle", at |-> "rest", value |-> None, target |-> None,
             previous |-> None, result |-> result]
  BY DEF Faults!Finish, Faults!Idle
<1>2. op.kind \in {"read", "store", "delete"} /\ (op.kind = "store" => op.value \in Values)
  BY DEF KeptShape, Course, Ops, OpKinds
<1>3. truth' = Faults!Expected(result, returned)
  BY DEF Faults!Finish
<1>4. /\ result # "ok" => truth' = truth \cup (IF op.kind = "store" THEN {op.value} ELSE {}) \cup Deleting
      /\ result = "ok" /\ op.kind = "read" => truth' = truth \cap {returned}
      /\ result = "ok" /\ op.kind = "store" => truth' = {op.value}
      /\ result = "ok" /\ op.kind = "delete" => truth' = {None}
  BY <1>2, <1>3 DEF Faults!Expected, Deleting
<1>5. truth' \subseteq Values \cup {None}
  BY <1>2, <1>4 DEF KeptShape, Deleting
<1>6. /\ result = "recovery" => tainted' = TRUE
      /\ result = "ok" /\ op.kind # "read" => tainted' = FALSE
      /\ result # "recovery" /\ (result # "ok" \/ op.kind = "read") => tainted' = tainted
  BY DEF Faults!Finish
<1>7. op' \in Ops
  BY <1>1 DEF Ops, OpKinds, OpPhases, OpResults, Record
<1>8. tainted' \in BOOLEAN
  BY <1>6 DEF KeptShape
<1>9. QED
  BY <1>1, <1>2, <1>4, <1>5, <1>6, <1>7, <1>8

(* An operation that fails, in whatever way but by recovery: what remains  *)
(* must be what the user may expect.                                       *)
LEMMA FailKeeps ==
    ASSUME NEW result \in OpResults \ {"ok"}, NEW returned, KeptInv, op.kind # "idle",
           Faults!Finish(result, returned),
           protected' \in Record, legacy' \in {legacy, None},
           ~tainted /\ result # "recovery" =>
               Reads(protected)' \in truth \cup (IF op.kind = "store" THEN {op.value} ELSE {}) \cup Deleting
    PROVE  KeptInv'
<1>1. result \in OpResults /\ result # "ok"
  OBVIOUS
<1>2. /\ op' \in Ops /\ op'.kind = "idle" /\ op'.at = "rest" /\ op'.target = None
      /\ op'.previous = None /\ op'.result = result
      /\ truth' \subseteq Values \cup {None}
      /\ tainted' \in BOOLEAN
      /\ ~tainted' => ~tainted /\ result # "recovery"
      /\ truth' = truth \cup (IF op.kind = "store" THEN {op.value} ELSE {}) \cup Deleting
  BY <1>1, FinishOp DEF KeptInv
<1>3. KeptShape'
  BY <1>2 DEF KeptShape, KeptInv, Record
<1>4. Course'
  BY <1>2 DEF Course
<1>5. Faithful'
  BY <1>2 DEF Faithful, KeptInv
<1>6. QED
  BY <1>3, <1>4, <1>5 DEF KeptInv

(* An operation that moves on.                                             *)
LEMMA GoOp ==
    ASSUME NEW at \in OpPhases, KeptShape, Faults!Go(at)
    PROVE  /\ op' \in Ops /\ op'.kind = op.kind /\ op'.at = at /\ op'.value = op.value
           /\ op'.target = op.target /\ op'.previous = op.previous
           /\ UNCHANGED <<truth, tainted>>
BY DEF Faults!Go, KeptShape, Ops

-----------------------------------------------------------------------------
(* Each call of an operation keeps the invariant of the record.            *)
LEMMA KeepStart ==
    ASSUME KeptInv, NEW kind \in {"read", "store", "delete"}, NEW v \in Values \cup {None},
           kind = "store" => v \in Values, Faults!Start(kind, v)
    PROVE  KeptInv'
<1>1. op' = [kind |-> kind, at |-> "probe", value |-> v, target |-> None,
             previous |-> None, result |-> "ok"]
  BY DEF Faults!Start, Faults!Idle
<1>2. /\ op' \in Ops /\ op'.kind = kind /\ op'.at = "probe" /\ op'.value = v /\ op'.target = None
      /\ op'.previous = None
      /\ UNCHANGED <<protected, legacy, truth, tainted>>
      /\ op.at = "rest"
  <2>1. op.kind = "idle" /\ UNCHANGED <<protected, legacy, truth, tainted>>
    BY DEF Faults!Start
  <2>2. op.at = "rest"
    BY <2>1 DEF KeptInv, Course
  <2>3. op' \in Ops
    BY <1>1 DEF Ops, OpKinds, OpPhases, OpResults, Record
  <2>4. QED
    BY <1>1, <2>1, <2>2, <2>3
<1>3. KeptShape'
  BY <1>2 DEF KeptShape, KeptInv
<1>4. Course'
  BY <1>2 DEF Course
<1>5. Faithful'
  BY <1>2 DEF Faithful, KeptInv, Reads
<1>6. QED
  BY <1>3, <1>4, <1>5 DEF KeptInv

LEMMA KeepProbe == ASSUME KeptInv, Faults!Probe PROVE KeptInv'
<1> USE DEF KeptInv
<1>1. /\ op.at = "probe" /\ op.kind # "idle" /\ UNCHANGED <<protected, legacy>>
      /\ op.kind \in {"read", "store", "delete"} /\ op.previous = None /\ op \in Ops
      /\ protected \in Record
  BY DEF Faults!Probe, Course, KeptShape, Ops, OpKinds
<1>2. CASE Faults!Finish("error", None)
  BY <1>1, <1>2, FailKeeps DEF KeptShape, Faithful, Reads, OpResults
<1>3. CASE op.kind = "read" /\ protected = None /\ Faults!Go("legacy")
  <2>1. /\ op' \in Ops /\ op'.kind = op.kind /\ op'.at = "legacy" /\ op'.value = op.value
        /\ op'.target = op.target /\ op'.previous = op.previous
        /\ UNCHANGED <<truth, tainted>>
    BY <1>3, GoOp DEF OpPhases
  <2>2. KeptShape'
    BY <1>1, <2>1 DEF KeptShape
  <2>3. Course'
    BY <1>1, <1>3, <2>1 DEF Course
  <2>4. Faithful'
    BY <1>1, <1>3, <2>1 DEF Faithful, Reads
  <2>5. QED
    BY <2>2, <2>3, <2>4
<1>4. ASSUME NEW at \in {"sweep", "put", "drop"}, NEW target \in Record,
             op' = [op EXCEPT !.at = at, !.previous = protected, !.target = target],
             UNCHANGED <<truth, tainted>>,
             target # None => Faults!Conforms(target),
             at = "drop" <=> op.kind = "delete",
             at # "drop" => target # None,
             at = "sweep" => op.kind = "read" /\ protected = target,
             op.kind = "store" => target = Faults!Hardened(op.value),
             op.kind = "read" => protected # None /\ target.value = protected.value
      PROVE  KeptInv'
  <2>1. /\ op' \in Ops /\ op'.kind = op.kind /\ op'.at = at /\ op'.value = op.value
        /\ op'.target = target /\ op'.previous = protected
    BY <1>1, <1>4 DEF Ops, OpPhases
  <2>2. KeptShape'
    BY <1>1, <1>4, <2>1 DEF KeptShape
  <2>3. Course'
    BY <1>1, <1>4, <2>1 DEF Course
  <2>4. Faithful'
    BY <1>1, <1>4, <2>1 DEF Faithful, Reads
  <2>5. QED
    BY <2>2, <2>3, <2>4
<1>5. CASE /\ op.kind = "read" /\ protected # None /\ Faults!Conforms(protected)
           /\ op' = [op EXCEPT !.at = "sweep", !.previous = protected, !.target = protected]
           /\ UNCHANGED <<truth, tainted>>
  BY <1>1, <1>4, <1>5
<1>6. CASE /\ op.kind = "read" /\ protected # None
           /\ op' = [op EXCEPT !.at = "put", !.previous = protected,
                               !.target = Faults!Hardened(protected.value)]
           /\ UNCHANGED <<truth, tainted>>
  <2>1. /\ Faults!Hardened(protected.value) \in Faults!Records
        /\ Faults!Conforms(Faults!Hardened(protected.value))
        /\ Faults!Hardened(protected.value).value = protected.value
    BY <1>1, <1>6, RecordFacts DEF Record
  <2>2. Faults!Hardened(protected.value) # None
    BY <2>1, RecordFacts
  <2>3. QED
    BY <1>4, <1>6, <2>1, <2>2 DEF Record
<1>7. CASE /\ op.kind = "store"
           /\ op' = [op EXCEPT !.at = "put", !.previous = protected, !.target = Faults!Hardened(op.value)]
           /\ UNCHANGED <<truth, tainted>>
  <2>1. op.value \in Values
    BY <1>7 DEF Course
  <2>2. /\ Faults!Hardened(op.value) \in Faults!Records
        /\ Faults!Conforms(Faults!Hardened(op.value))
    BY <2>1, RecordFacts
  <2>3. Faults!Hardened(op.value) # None
    BY <2>2, RecordFacts
  <2>4. QED
    BY <1>4, <1>7, <2>2, <2>3 DEF Record
<1>8. CASE /\ op.kind = "delete"
           /\ op' = [op EXCEPT !.at = "drop", !.previous = protected]
           /\ UNCHANGED <<truth, tainted>>
  <2>1. op' = [op EXCEPT !.at = "drop", !.previous = protected, !.target = op.target]
    BY <1>1, <1>8 DEF Ops
  <2>2. op.target \in Record /\ (op.target # None => Faults!Conforms(op.target))
    BY <1>1 DEF Ops, KeptShape
  <2>3. QED
    BY <1>4, <1>8, <2>1, <2>2
<1>9. QED
  BY <1>1, <1>2, <1>3, <1>5, <1>6, <1>7, <1>8 DEF Faults!Probe

LEMMA KeepReadLegacy == ASSUME KeptInv, Faults!ReadLegacy PROVE KeptInv'
<1> USE DEF KeptInv
<1>1. /\ op.at = "legacy" /\ op.kind = "read" /\ UNCHANGED <<protected, legacy>>
      /\ protected = None /\ op.previous = None /\ op \in Ops /\ legacy \in Record
  BY DEF Faults!ReadLegacy, Course, KeptShape
<1>2. CASE Faults!Finish("error", None)
  <2>1. ~tainted => Reads(protected)' \in truth
    BY <1>1 DEF Faithful, Reads, Deleting
  <2>2. QED
    BY <1>1, <1>2, <2>1, FailKeeps DEF KeptShape, OpResults
<1>3. CASE legacy = None /\ Faults!Finish("ok", None)
  <2>1. /\ op' \in Ops /\ op'.kind = "idle" /\ op'.at = "rest" /\ op'.target = None
        /\ op'.previous = None /\ truth' \subseteq Values \cup {None}
        /\ truth' = truth \cap {None} /\ tainted' = tainted
    BY <1>1, <1>3, FinishOp DEF OpResults
  <2>2. KeptShape'
    BY <1>1, <2>1 DEF KeptShape
  <2>3. Course'
    BY <1>1, <2>1 DEF Course
  <2>4. Faithful'
    BY <1>1, <1>3, <2>1 DEF Faithful, Reads, Deleting
  <2>5. QED
    BY <2>2, <2>3, <2>4
<1>4. CASE /\ legacy # None
           /\ op' = [op EXCEPT !.at = "put", !.target = Faults!Hardened(legacy.value)]
           /\ UNCHANGED <<truth, tainted>>
  <2> DEFINE target == Faults!Hardened(legacy.value)
  <2>1. /\ target \in Faults!Records /\ Faults!Conforms(target) /\ target.value = legacy.value
        /\ target # None
    BY <1>1, <1>4, RecordFacts DEF Record
  <2>2. /\ op' \in Ops /\ op'.kind = "read" /\ op'.at = "put" /\ op'.value = op.value
        /\ op'.target = target /\ op'.previous = None
    BY <1>1, <1>4, <2>1 DEF Ops, OpPhases, Record
  <2> HIDE DEF target
  <2>3. KeptShape'
    BY <1>1, <1>4, <2>1, <2>2 DEF KeptShape
  <2>4. Course'
    BY <1>1, <1>4, <2>1, <2>2 DEF Course
  <2>5. Faithful'
    BY <1>1, <1>4, <2>1, <2>2 DEF Faithful, Reads, Deleting
  <2>6. QED
    BY <2>3, <2>4, <2>5
<1>5. QED
  BY <1>1, <1>2, <1>3, <1>4 DEF Faults!ReadLegacy

LEMMA KeepPut == ASSUME KeptInv, Faults!Put PROVE KeptInv'
<1> USE DEF KeptInv
<1>1. /\ op.at = "put" /\ op.kind \in {"read", "store"} /\ UNCHANGED legacy
      /\ protected = op.previous /\ op \in Ops /\ protected \in Record /\ op.target \in Faults!Records
  BY DEF Faults!Put, Course, KeptShape, Ops, Record
<1>2. CASE UNCHANGED protected /\ Faults!Finish("error", None)
  <2>1. ~tainted => Reads(protected)' \in truth
    BY <1>1, <1>2 DEF Faithful, Reads, Deleting
  <2>2. QED
    BY <1>1, <1>2, <2>1, FailKeeps DEF KeptShape, OpResults
<1>3. CASE Faults!Upsert(op.target) /\ Faults!Go("check")
  <2>1. /\ op' \in Ops /\ op'.kind = op.kind /\ op'.at = "check" /\ op'.value = op.value
        /\ op'.target = op.target /\ op'.previous = op.previous
        /\ UNCHANGED <<truth, tainted>>
    BY <1>3, GoOp DEF OpPhases
  <2>2. protected' \in Faults!Records /\ protected' # None
    BY <1>1, <1>3, UpsertRecord, RecordFacts
  <2>3. KeptShape'
    BY <1>1, <2>1, <2>2 DEF KeptShape, Record
  <2>4. Course'
    BY <1>1, <2>1, <2>2 DEF Course
  <2>5. Faithful'
    BY <1>1, <2>1 DEF Faithful, Reads, Deleting
  <2>6. QED
    BY <2>3, <2>4, <2>5
<1>4. QED
  BY <1>1, <1>2, <1>3 DEF Faults!Put

LEMMA KeepCheck == ASSUME KeptInv, Faults!Check PROVE KeptInv'
<1> USE DEF KeptInv
<1>1. /\ op.at = "check" /\ op.kind \in {"read", "store"} /\ UNCHANGED <<protected, legacy>>
      /\ protected # None /\ op \in Ops
  BY DEF Faults!Check, Course, KeptShape
<1>2. \/ Faults!Go("undo")
      \/ protected = op.target /\ Faults!Go("sweep")
  BY DEF Faults!Check, Faults!Verified
<1>3. PICK at \in {"undo", "sweep"} : Faults!Go(at) /\ (at = "sweep" => protected = op.target)
  BY <1>2
<1>4. /\ op' \in Ops /\ op'.kind = op.kind /\ op'.at = at /\ op'.value = op.value
      /\ op'.target = op.target /\ op'.previous = op.previous
      /\ UNCHANGED <<truth, tainted>>
  BY <1>3, GoOp DEF OpPhases
<1>5. KeptShape'
  BY <1>1, <1>4 DEF KeptShape
<1>6. Course'
  BY <1>1, <1>3, <1>4 DEF Course
<1>7. Faithful'
  BY <1>1, <1>3, <1>4 DEF Faithful, Reads, Deleting
<1>8. QED
  BY <1>5, <1>6, <1>7

LEMMA KeepDrop == ASSUME KeptInv, Faults!Drop PROVE KeptInv'
<1> USE DEF KeptInv
<1>1. /\ op.at = "drop" /\ op.kind = "delete" /\ UNCHANGED legacy
      /\ protected = op.previous /\ op \in Ops
  BY DEF Faults!Drop, Course, KeptShape
<1>2. PICK at \in {"undo", "gone"} : /\ Faults!Go(at) /\ protected' \in {None, protected}
                                     /\ at = "gone" => protected' = None
  BY DEF Faults!Drop, Faults!MayErase, Faults!Erase
<1>3. /\ op' \in Ops /\ op'.kind = op.kind /\ op'.at = at /\ op'.value = op.value
      /\ op'.target = op.target /\ op'.previous = op.previous
      /\ UNCHANGED <<truth, tainted>>
  BY <1>2, GoOp DEF OpPhases
<1>4. KeptShape'
  BY <1>1, <1>2, <1>3 DEF KeptShape, Record
<1>5. Course'
  BY <1>1, <1>2, <1>3 DEF Course
<1>6. Faithful'
  BY <1>1, <1>3 DEF Faithful, Reads, Deleting
<1>7. QED
  BY <1>4, <1>5, <1>6

LEMMA KeepGone == ASSUME KeptInv, Faults!Gone PROVE KeptInv'
<1> USE DEF KeptInv
<1>1. /\ op.at = "gone" /\ op.kind = "delete" /\ UNCHANGED <<protected, legacy>>
      /\ protected = None /\ op \in Ops
  BY DEF Faults!Gone, Course, KeptShape
<1>2. PICK at \in {"undo", "sweep"} : Faults!Go(at)
  BY DEF Faults!Gone
<1>3. /\ op' \in Ops /\ op'.kind = op.kind /\ op'.at = at /\ op'.value = op.value
      /\ op'.target = op.target /\ op'.previous = op.previous
      /\ UNCHANGED <<truth, tainted>>
  BY <1>2, GoOp DEF OpPhases
<1>4. KeptShape'
  BY <1>1, <1>3 DEF KeptShape
<1>5. Course'
  BY <1>1, <1>3 DEF Course
<1>6. Faithful'
  BY <1>1, <1>3 DEF Faithful, Reads, Deleting
<1>7. QED
  BY <1>4, <1>5, <1>6

LEMMA KeepSweep == ASSUME KeptInv, Faults!Sweep PROVE KeptInv'
<1> USE DEF KeptInv
<1>1. /\ op.at = "sweep" /\ op.kind \in {"read", "store", "delete"} /\ UNCHANGED protected
      /\ protected = (IF op.kind = "delete" THEN None ELSE op.target) /\ op \in Ops
      /\ protected \in Record /\ legacy' \in {legacy, None} /\ None \in Record
      /\ op.kind # "delete" => op.target # None
      /\ op.kind = "store" => op.target.value = op.value
  BY RecordFacts DEF Faults!Sweep, Faults!Erase, Faults!MayErase, Course, KeptShape, Ops, OpKinds, Record
<1>2. CASE /\ legacy' = None
           /\ Faults!Finish("ok", IF op.kind = "delete" THEN None ELSE op.target.value)
  <2> DEFINE returned == IF op.kind = "delete" THEN None ELSE op.target.value
  <2>1. /\ op' \in Ops /\ op'.kind = "idle" /\ op'.at = "rest" /\ op'.target = None
        /\ op'.previous = None /\ truth' \subseteq Values \cup {None} /\ tainted' \in BOOLEAN
        /\ op.kind = "read" => truth' = truth \cap {returned} /\ tainted' = tainted
        /\ op.kind = "store" => truth' = {op.value} /\ tainted' = FALSE
        /\ op.kind = "delete" => truth' = {None} /\ tainted' = FALSE
    <3>1. Faults!Finish("ok", returned)
      BY <1>2
    <3> HIDE DEF returned
    <3>2. QED
      BY <1>1, <3>1, FinishOp DEF OpResults
  <2>2. KeptShape'
    BY <1>1, <1>2, <2>1 DEF KeptShape
  <2>3. Course'
    BY <1>1, <2>1 DEF Course
  <2>4. Faithful'
    <3>1. ~tainted' => Reads(protected)' \in truth'
      BY <1>1, <1>2, <2>1 DEF Faithful, Reads
    <3>2. QED
      BY <1>2, <2>1, <3>1 DEF Faithful
  <2>5. QED
    BY <2>2, <2>3, <2>4
<1>3. CASE op.kind # "delete" /\ Faults!Finish("error", None)
  <2>1. ~tainted => Reads(protected)' \in truth \cup (IF op.kind = "store" THEN {op.value} ELSE {})
    BY <1>1, <1>3 DEF Faithful, Reads
  <2>2. QED
    BY <1>1, <1>3, <2>1, FailKeeps DEF KeptShape, OpResults
<1>4. CASE (op.kind = "delete" \/ (op.kind = "store" /\ op.previous # None)) /\ Faults!Go("undo")
  <2>1. /\ op' \in Ops /\ op'.kind = op.kind /\ op'.at = "undo" /\ op'.value = op.value
        /\ op'.target = op.target /\ op'.previous = op.previous
        /\ UNCHANGED <<truth, tainted>>
    BY <1>4, GoOp DEF OpPhases
  <2>2. KeptShape'
    BY <1>1, <2>1 DEF KeptShape
  <2>3. Course'
    BY <1>1, <2>1 DEF Course
  <2>4. Faithful'
    BY <1>1, <1>4, <2>1 DEF Faithful, Reads, Deleting
  <2>5. QED
    BY <2>2, <2>3, <2>4
<1>5. QED
  BY <1>1, <1>2, <1>3, <1>4 DEF Faults!Sweep, Faults!Erase, Faults!MayErase

LEMMA KeepUndo == ASSUME KeptInv, Faults!Undo PROVE KeptInv'
<1> USE DEF KeptInv
<1>1. /\ op.at = "undo" /\ op.kind # "idle" /\ UNCHANGED legacy /\ op \in Ops
      /\ protected \in Record /\ None \in Record
      /\ op.previous # None => op.previous \in Faults!Records
  BY DEF Faults!Undo, Course, KeptShape, Ops, Record
<1>2. CASE protected' \in {None, protected} /\ Faults!Finish("recovery", None)
  BY <1>1, <1>2, FailKeeps DEF KeptShape, OpResults
<1>3. CASE /\ protected' \in Record /\ Faults!Go("undone")
           /\ op.previous # None => protected' # None
  <2>1. /\ op' \in Ops /\ op'.kind = op.kind /\ op'.at = "undone" /\ op'.value = op.value
        /\ op'.target = op.target /\ op'.previous = op.previous
        /\ UNCHANGED <<truth, tainted>>
    BY <1>3, GoOp DEF OpPhases
  <2>2. KeptShape'
    BY <1>1, <1>3, <2>1 DEF KeptShape
  <2>3. Course'
    BY <1>1, <1>3, <2>1 DEF Course
  <2>4. Faithful'
    BY <1>1, <2>1 DEF Faithful, Reads, Deleting
  <2>5. QED
    BY <2>2, <2>3, <2>4
<1>4. ASSUME op.previous # None, Faults!Upsert(op.previous)
      PROVE  protected' \in Record /\ protected' # None
  BY <1>1, <1>4, UpsertRecord, RecordFacts DEF Record
<1>5. QED
  BY <1>1, <1>2, <1>3, <1>4 DEF Faults!Undo, Faults!Erase, Faults!MayErase

LEMMA KeepUndone == ASSUME KeptInv, Faults!Undone PROVE KeptInv'
<1> USE DEF KeptInv
<1>1. /\ op.at = "undone" /\ op.kind # "idle" /\ UNCHANGED <<protected, legacy>>
      /\ protected \in Record
  BY DEF Faults!Undone, Course, KeptShape
<1>2. CASE Faults!Finish("recovery", None)
  BY <1>1, <1>2, FailKeeps DEF KeptShape, OpResults
<1>3. CASE protected = op.previous /\ Faults!Finish("error", None)
  <2>1. ~tainted => Reads(protected)' \in truth \cup Deleting
    BY <1>1, <1>3 DEF Faithful, Reads
  <2>2. QED
    BY <1>1, <1>3, <2>1, FailKeeps DEF KeptShape, OpResults
<1>4. QED
  BY <1>1, <1>2, <1>3 DEF Faults!Undone

(* Every call, whichever fails or is corrupted.                            *)
LEMMA KeepFaults == ASSUME KeptInv, [Faults!Next]_keychainVars PROVE KeptInv'
<1>1. CASE UNCHANGED keychainVars
  BY <1>1 DEF keychainVars, KeptInv, KeptShape, Course, Faithful, Reads, Deleting
<1>2. ~ Faults!Die
  BY DEF Faults!Die
<1>3. ASSUME Faults!Start("read", None) \/ Faults!Start("delete", None) PROVE KeptInv'
  BY <1>3, KeepStart
<1>4. ASSUME NEW v \in Values, Faults!Start("store", v) PROVE KeptInv'
  BY <1>4, KeepStart
<1>5. QED
  BY <1>1, <1>2, <1>3, <1>4, KeepProbe, KeepReadLegacy, KeepPut, KeepCheck, KeepDrop, KeepGone,
     KeepSweep, KeepUndo, KeepUndone DEF Faults!Next

(* A process that can die makes no other calls, and writes what it says.   *)
LEMMA DeathIsFault == ASSUME Death!Next PROVE Faults!Next \/ Death!Die
<1>1. \A result, returned : Death!Finish(result, returned) => Faults!Finish(result, returned)
  BY DEF Death!Finish, Faults!Finish, Death!Expected, Faults!Expected, Death!Idle, Faults!Idle
<1>2. \A at : Death!Go(at) => Faults!Go(at)
  BY DEF Death!Go, Faults!Go
<1>3. \A record : Death!Upsert(record) => Faults!Upsert(record)
  BY DEF Death!Upsert, Faults!Upsert
<1>4. \A kind, v : Death!Start(kind, v) => Faults!Start(kind, v)
  BY DEF Death!Start, Faults!Start, Death!Idle, Faults!Idle
<1>5. Death!Probe => Faults!Probe
  BY <1>1, <1>2 DEF Death!Probe, Faults!Probe, Death!Conforms, Faults!Conforms, Death!Hardened, Faults!Hardened
<1>6. Death!ReadLegacy => Faults!ReadLegacy
  BY <1>1 DEF Death!ReadLegacy, Faults!ReadLegacy, Death!Hardened, Faults!Hardened
<1>7. Death!Put => Faults!Put
  BY <1>1, <1>2, <1>3 DEF Death!Put, Faults!Put
<1>8. Death!Check => Faults!Check
  BY <1>1, <1>2 DEF Death!Check, Faults!Check, Death!Verified, Faults!Verified
<1>9. Death!Drop => Faults!Drop
  BY <1>2 DEF Death!Drop, Faults!Drop, Death!Erase, Faults!Erase, Death!MayErase, Faults!MayErase
<1>10. Death!Gone => Faults!Gone
  BY <1>1, <1>2 DEF Death!Gone, Faults!Gone
<1>11. Death!Sweep => Faults!Sweep
  BY <1>1, <1>2 DEF Death!Sweep, Faults!Sweep, Death!Erase, Faults!Erase, Death!MayErase, Faults!MayErase
<1>12. Death!Undo => Faults!Undo
  BY <1>1, <1>2, <1>3 DEF Death!Undo, Faults!Undo, Death!Erase, Faults!Erase, Death!MayErase, Faults!MayErase
<1>13. Death!Undone => Faults!Undone
  BY <1>1 DEF Death!Undone, Faults!Undone
<1>14. QED
  BY <1>4, <1>5, <1>6, <1>7, <1>8, <1>9, <1>10, <1>11, <1>12, <1>13 DEF Death!Next, Faults!Next

(* The record is known at every call of such a process.                    *)
LEMMA KeepSettled == ASSUME KeptInv, Settled, [Death!Next]_keychainVars PROVE Settled'
<1> USE DEF KeptInv
<1>1. CASE UNCHANGED keychainVars
  BY <1>1 DEF keychainVars, Settled
<1>2. op \in Ops
  BY DEF KeptShape
<1>3. ASSUME op'.at \notin {"check", "undo", "undone"} PROVE Settled'
  BY <1>3 DEF Settled
<1>4. ASSUME NEW result, NEW returned, Death!Finish(result, returned) PROVE Settled'
  <2>1. op'.at = "rest"
    BY <1>4 DEF Death!Finish, Death!Idle
  <2>2. QED
    BY <1>3, <2>1
<1>5. ASSUME NEW at, Death!Go(at)
      PROVE  /\ op'.kind = op.kind /\ op'.at = at /\ op'.value = op.value
             /\ op'.target = op.target /\ op'.previous = op.previous
             /\ UNCHANGED <<truth, tainted>>
  BY <1>2, <1>5 DEF Death!Go, Ops
<1>6. ASSUME NEW kind, NEW v, Death!Start(kind, v) PROVE Settled'
  <2>1. op'.at = "probe"
    BY <1>6 DEF Death!Start, Death!Idle
  <2>2. QED
    BY <1>3, <2>1
<1>7. CASE Death!Probe \/ Death!ReadLegacy
  <2>1. CASE \E result, returned : Death!Finish(result, returned)
    BY <1>4, <2>1
  <2>2. CASE Death!Go("legacy")
    BY <1>3, <1>5, <2>2
  <2>3. CASE ~ (\E result, returned : Death!Finish(result, returned)) /\ ~ Death!Go("legacy")
    <3>1. op'.at \in {"sweep", "put", "drop"}
      BY <1>2, <1>7, <2>3 DEF Death!Probe, Death!ReadLegacy, Ops
    <3>2. QED
      BY <1>3, <3>1
  <2>4. QED
    BY <2>1, <2>2, <2>3
<1>8. CASE Death!Put
  <2>1. CASE Death!Finish("error", None)
    BY <1>4, <2>1
  <2>2. CASE Death!Upsert(op.target) /\ Death!Go("check")
    BY <1>5, <2>2 DEF Death!Upsert, Settled
  <2>3. QED
    BY <1>8, <2>1, <2>2 DEF Death!Put
<1>9. CASE Death!Check
  <2>1. /\ op.at = "check" /\ op.kind \in {"read", "store"} /\ protected = op.target /\ protected # None
        /\ UNCHANGED protected
        /\ op.kind = "store" => op.target.value = op.value
        /\ op.kind = "read" /\ ~tainted => op.target.value \in truth
    BY <1>9, RecordFacts DEF Death!Check, Settled, Course, Faithful
  <2>2. CASE Death!Go("undo")
    BY <1>5, <2>1, <2>2 DEF Settled
  <2>3. CASE Death!Go("sweep")
    BY <1>3, <1>5, <2>3
  <2>4. QED
    BY <1>9, <2>2, <2>3 DEF Death!Check, Death!Verified
<1>10. CASE Death!Drop
  <2>1. op.at = "drop" /\ op.kind = "delete" /\ protected = op.previous
    BY <1>10 DEF Death!Drop, Course
  <2>2. CASE Death!MayErase(protected) /\ Death!Go("undo")
    BY <1>5, <2>1, <2>2 DEF Settled, Death!MayErase
  <2>3. CASE Death!Go("gone")
    BY <1>3, <1>5, <2>3
  <2>4. QED
    BY <1>10, <2>2, <2>3 DEF Death!Drop
<1>11. CASE Death!Gone
  <2>1. op.at = "gone" /\ op.kind = "delete" /\ protected = None /\ UNCHANGED protected
    BY <1>11 DEF Death!Gone, Course
  <2>2. CASE Death!Go("undo")
    BY <1>5, <2>1, <2>2 DEF Settled
  <2>3. CASE Death!Go("sweep")
    BY <1>3, <1>5, <2>3
  <2>4. QED
    BY <1>11, <2>2, <2>3 DEF Death!Gone
<1>12. CASE Death!Sweep
  <2>1. /\ op.at = "sweep" /\ protected = (IF op.kind = "delete" THEN None ELSE op.target)
        /\ UNCHANGED protected /\ (op.kind # "delete" => op.target # None)
        /\ op.kind = "store" => op.target.value = op.value
    BY <1>12, RecordFacts DEF Death!Sweep, Course
  <2>2. CASE \E result, returned : Death!Finish(result, returned)
    BY <1>4, <2>2
  <2>3. CASE (op.kind = "delete" \/ op.kind = "store") /\ Death!Go("undo")
    BY <1>5, <2>1, <2>3 DEF Settled
  <2>4. QED
    BY <1>12, <2>2, <2>3 DEF Death!Sweep
<1>13. CASE Death!Undo
  <2>1. CASE \E result, returned : Death!Finish(result, returned)
    BY <1>4, <2>1
  <2>2. CASE protected' = op.previous /\ Death!Go("undone")
    BY <1>5, <2>2 DEF Settled
  <2>3. QED
    BY <1>13, <2>1, <2>2 DEF Death!Undo, Death!Upsert, Death!Erase
<1>14. CASE Death!Undone \/ Death!Die
  BY <1>4, <1>14 DEF Death!Undone, Death!Die
<1>15. QED
  BY <1>1, <1>6, <1>7, <1>8, <1>9, <1>10, <1>11, <1>12, <1>13, <1>14 DEF Death!Next

(* So its death leaves nothing the user could not expect.                  *)
LEMMA KeepDie == ASSUME KeptInv, Settled, Death!Die PROVE KeptInv'
<1>1. op.kind # "idle" /\ UNCHANGED <<protected, legacy>> /\ Death!Finish("died", None)
  BY DEF Death!Die
<1>2. Faults!Finish("died", None)
  BY <1>1 DEF Death!Finish, Faults!Finish, Death!Expected, Faults!Expected, Death!Idle, Faults!Idle
<1>3. op.kind \in {"read", "store", "delete"} /\ op.at \in OpPhases \ {"rest"}
  BY <1>1 DEF KeptInv, KeptShape, Course, Ops, OpKinds
<1>4. ASSUME ~tainted
      PROVE  Reads(protected) \in truth \cup (IF op.kind = "store" THEN {op.value} ELSE {}) \cup Deleting
  <2>1. CASE op.at \in {"probe", "legacy", "put", "drop", "undone"}
    BY <1>4, <2>1 DEF KeptInv, Course, Faithful, Settled
  <2>2. CASE op.at \in {"check", "sweep", "undo"} /\ op.kind # "delete"
    <3>1. op.target # None /\ protected = op.target
      BY <2>2 DEF KeptInv, Course, Settled
    <3>2. op.kind = "store" => op.target.value = op.value
      BY <1>3, <2>2, RecordFacts DEF KeptInv, Course, Settled
    <3>3. op.kind = "read" => op.target.value \in truth
      BY <1>4, <2>2 DEF KeptInv, Faithful, Settled
    <3>4. QED
      BY <1>3, <2>2, <3>1, <3>2, <3>3 DEF Reads
  <2>3. CASE op.at \in {"gone", "sweep"} /\ op.kind = "delete"
    BY <1>4, <2>3 DEF KeptInv, Course, Faithful, Reads, Deleting
  <2>4. CASE op.at = "undo" /\ op.kind = "delete"
    BY <1>4, <2>4 DEF KeptInv, Faithful, Settled, Reads, Deleting
  <2>5. op.at \in {"gone", "check"} => (op.kind = "delete" <=> op.at = "gone")
    BY DEF KeptInv, Course
  <2>6. QED
    BY <1>3, <2>1, <2>2, <2>3, <2>4, <2>5 DEF OpPhases
<1>5. (Reads(protected))' = Reads(protected)
  BY <1>1 DEF Reads
<1>6. QED
  BY <1>1, <1>2, <1>4, <1>5, FailKeeps DEF KeptInv, KeptShape, OpResults

LEMMA KeepDeath == ASSUME KeptInv, Settled, [Death!Next]_keychainVars PROVE KeptInv' /\ Settled'
BY KeepSettled, KeepDie, KeepFaults, DeathIsFault

(* What the invariant of the record is for.                                *)
LEMMA KeptIsSound ==
    ASSUME KeptInv PROVE Faults!TypeOK /\ Faults!ReadIsFaithful /\ Faults!AlwaysACopy
<1> USE DEF KeptInv
<1>1. Faults!TypeOK
  <2>1. op.target # None => op.target \in {Faults!Hardened(v) : v \in Values \cup {Junk}}
    BY RecordFacts DEF KeptShape, Ops, Record
  <2>2. QED
    BY <2>1 DEF KeptShape, Ops, Record, OpKinds, Faults!TypeOK
<1>2. Faults!Readable = Reads(protected)
  BY DEF Faults!Readable, Reads
<1>3. Faults!ReadIsFaithful
  BY <1>2 DEF Faults!ReadIsFaithful, Course, Faithful
<1>4. Faults!AlwaysACopy
  <2>1. SUFFICES ASSUME None \notin truth, op.kind # "delete", ~tainted, protected = None
                 PROVE  legacy # None
    BY DEF Faults!AlwaysACopy
  <2>2. Deleting = {}
    BY <2>1 DEF Deleting
  <2>3. CASE op.at \in {"rest", "probe"}
    BY <2>1, <2>3 DEF Faithful, Reads
  <2>4. CASE op.at \in {"legacy", "put"} \/ (op.at = "undone" /\ op.previous = None)
    BY <2>1, <2>2, <2>4 DEF Course, Faithful, Reads
  <2>5. op.at \notin {"check", "sweep", "undo", "drop", "gone"}
    BY <2>1 DEF Course
  <2>6. QED
    BY <2>1, <2>3, <2>4, <2>5 DEF Course, KeptShape, Ops, OpPhases
<1>5. QED
  BY <1>1, <1>3, <1>4

(* An operation ends well in two places only.                              *)
LEMMA SuccessSettles ==
    ASSUME KeptInv, [Faults!Next \/ Death!Next]_keychainVars PROVE Faults!SuccessIsSettled
<1> USE DEF KeptInv
<1>1. SUFFICES ASSUME op.kind # "idle", op'.kind = "idle", op'.result = "ok"
               PROVE  /\ legacy' = None
                      /\ protected' = None \/ Faults!Conforms(protected')
                      /\ op.kind = "store" => protected' = Faults!Hardened(op.value)
                      /\ op.kind = "delete" => protected' = None
  BY DEF Faults!SuccessIsSettled
<1>2. Faults!Next
  <2>1. ~ Death!Die
    BY <1>1 DEF Death!Die, Death!Finish, Death!Idle
  <2>2. QED
    BY <1>1, <2>1, DeathIsFault DEF keychainVars
<1>3. op \in Ops
  BY DEF KeptShape
<1>4. \A at : ~ Faults!Go(at)
  BY <1>1, <1>3 DEF Faults!Go, Ops
<1>5. \A result, returned : Faults!Finish(result, returned) => result = "ok"
  BY <1>1 DEF Faults!Finish, Faults!Idle
<1>6. \A kind, v : ~ Faults!Start(kind, v)
  BY <1>1 DEF Faults!Start
<1>7. ~ Faults!Probe
  <2>1. SUFFICES ASSUME Faults!Probe PROVE FALSE
    OBVIOUS
  <2>2. op'.kind = op.kind
    BY <1>3, <1>4, <1>5, <2>1 DEF Faults!Probe, Ops
  <2>3. QED
    BY <1>1, <2>2
<1>8. ASSUME Faults!ReadLegacy PROVE protected' = None /\ legacy' = None /\ op.kind = "read"
  <2>1. protected = None /\ op.kind = "read" /\ UNCHANGED <<protected, legacy>>
    BY <1>8 DEF Faults!ReadLegacy, Course
  <2>2. legacy # None => op'.kind = op.kind
    BY <1>3, <1>5, <1>8 DEF Faults!ReadLegacy, Ops
  <2>3. QED
    BY <1>1, <2>1, <2>2
<1>9. ~ Faults!Put /\ ~ Faults!Undo /\ ~ Faults!Undone /\ ~ Faults!Check /\ ~ Faults!Drop /\ ~ Faults!Gone
  BY <1>4, <1>5 DEF Faults!Put, Faults!Undo, Faults!Undone, Faults!Check, Faults!Verified, Faults!Drop, Faults!Gone
<1>10. ASSUME Faults!Sweep
       PROVE  /\ legacy' = None /\ protected' = (IF op.kind = "delete" THEN None ELSE op.target)
  BY <1>4, <1>5, <1>10 DEF Faults!Sweep, Faults!Erase, Course
<1>11. ~ Faults!Die
  BY DEF Faults!Die
<1>12. CASE Faults!ReadLegacy
  BY <1>8, <1>12
<1>13. CASE Faults!Sweep
  BY <1>10, <1>13 DEF KeptShape, Course, Faults!Sweep
<1>14. QED
  BY <1>2, <1>6, <1>7, <1>9, <1>11, <1>12, <1>13 DEF Faults!Next

(* The records a credential starts with.                                   *)
LEMMA KeptInit == ASSUME Faults!Init PROVE KeptInv /\ Settled
<1>1. /\ op = [kind |-> "idle", at |-> "rest", value |-> None, target |-> None,
               previous |-> None, result |-> "ok"]
      /\ tainted = FALSE /\ truth = {Faults!Readable}
  BY DEF Faults!Init, Faults!Idle
<1>2. op \in Ops /\ op.kind = "idle" /\ op.at = "rest" /\ op.target = None /\ op.previous = None
  BY <1>1 DEF Ops, OpKinds, OpPhases, OpResults, Record
<1>3. /\ protected = None \/ (protected \in Faults!Records /\ protected.value \in Values)
      /\ legacy = None \/ (legacy \in Faults!Records /\ legacy.value \in Values)
      /\ protected # None /\ legacy # None => protected.value = legacy.value
  BY DEF Faults!Init, Faults!Records
<1>4. /\ Faults!Readable = Reads(protected) /\ Reads(protected) \in Values \cup {None}
      /\ legacy # None => Reads(protected) = legacy.value
  BY <1>3 DEF Faults!Readable, Reads
<1>5. KeptShape
  BY <1>1, <1>2, <1>3, <1>4 DEF KeptShape, Record
<1>6. Course
  BY <1>2 DEF Course
<1>7. Faithful
  BY <1>1, <1>2, <1>4 DEF Faithful
<1>8. QED
  BY <1>2, <1>5, <1>6, <1>7 DEF KeptInv, Settled


-----------------------------------------------------------------------------
(***************************************************************************)
(* Rows and their secrets                                                  *)
(***************************************************************************)
Slotted == Together!Keys \cup {None}
RowStates == {"absent", "active", "archived"}
Changing == {"create", "delete", "set", "clear"}
Sending == {"send", "profile"}
Commands == Changing \cup Sending \cup {"none"}
Stages == {"rest", "look", "status", "store", "insert", "undo", "read", "erase", "archive", "resolve"}
Outcomes == {"ok", "error", "leftover"}
Calls == [cmd : Commands, at : Stages, conn : Slots \cup {None}, key : Slotted, previous : Slotted,
          before : [row : RowStates, vault : Slotted] \cup {None}, result : Outcomes]

(* A command holds secrets of its own connection only.                     *)
OwnCall(call) ==
    /\ call.cmd \in Changing \cup {"profile"} => call.conn \in Slots
    /\ call.cmd = "profile" => call.conn \in Legacies
    /\ call.cmd \in Sending => call.previous = None
    /\ call.cmd = "send" /\ call.at = "look" => call.key = None
    /\ call.cmd = "send" /\ call.at # "look" => call.conn \in Slots
    /\ call.key # None => call.key.of = call.conn
    /\ call.previous # None => call.previous.of = call.conn

VaultInv ==
    /\ Together!TypeOK
    /\ calls \in [Callers -> Calls]
    /\ \A c \in Callers : OwnCall(calls[c])

-----------------------------------------------------------------------------
(* A command that moves or returns holds its own secrets as before.        *)
LEMMA MoveCall ==
    ASSUME VaultInv, NEW c \in Callers, NEW call \in Calls, OwnCall(call),
           calls' = [calls EXCEPT ![c] = call], Together!TypeOK'
    PROVE  VaultInv' /\ calls'[c] = call
<1>1. /\ calls' \in [Callers -> Calls] /\ calls'[c] = call
      /\ \A d \in Callers : d # c => calls'[d] = calls[d]
  BY DEF VaultInv
<1>2. \A d \in Callers : OwnCall(calls'[d])
  BY <1>1 DEF VaultInv
<1>3. QED
  BY <1>1, <1>2 DEF VaultInv

LEMMA GoCall ==
    ASSUME VaultInv, NEW c \in Callers, NEW at \in Stages \ {"look"}, calls[c].cmd \in Changing,
           Together!Go(c, at)
    PROVE  \E call \in Calls : /\ calls' = [calls EXCEPT ![c] = call] /\ OwnCall(call)
                               /\ call = [calls[c] EXCEPT !.at = at]
<1> DEFINE call == [calls[c] EXCEPT !.at = at]
<1>1. calls[c] \in Calls /\ OwnCall(calls[c])
  BY DEF VaultInv
<1>2. /\ call \in Calls /\ call.cmd = calls[c].cmd /\ call.conn = calls[c].conn /\ call.at = at
      /\ call.key = calls[c].key /\ call.previous = calls[c].previous
  BY <1>1 DEF Calls
<1>3. OwnCall(call)
  BY <1>1, <1>2 DEF OwnCall, Changing, Sending
<1>4. calls' = [calls EXCEPT ![c] = call]
  BY DEF Together!Go
<1>5. QED
  BY <1>2, <1>3, <1>4

LEMMA ReturnCall ==
    ASSUME NEW c \in Callers, NEW result \in Outcomes, Together!Return(c, result)
    PROVE  \E call \in Calls : /\ calls' = [calls EXCEPT ![c] = call] /\ OwnCall(call)
                               /\ call.cmd = "none" /\ call.result = result
<1> DEFINE call == [cmd |-> "none", at |-> "rest", conn |-> None, key |-> None, previous |-> None,
                    before |-> None, result |-> result]
<1>1. calls' = [calls EXCEPT ![c] = call]
  <2>1. [Together!Idle EXCEPT !.result = result] = call
    BY DEF Together!Idle
  <2> HIDE DEF call
  <2>2. QED
    BY <2>1 DEF Together!Return
<1>2. call \in Calls
  BY DEF Calls, Commands, Stages, Slotted
<1>3. call.cmd = "none" /\ call.key = None /\ call.previous = None /\ call.result = result
  OBVIOUS
<1> HIDE DEF call
<1>4. OwnCall(call)
  BY <1>3 DEF OwnCall, Changing, Sending
<1>5. QED
  BY <1>1, <1>2, <1>3, <1>4

(* A step that returns, or that moves a changing command along, keeps the  *)
(* invariant when it stores secrets of the slot only.                      *)
LEMMA StepCall ==
    ASSUME VaultInv, NEW c \in Callers, Together!TypeOK',
           \/ \E result \in Outcomes : Together!Return(c, result)
           \/ calls[c].cmd \in Changing /\ \E at \in Stages \ {"look"} : Together!Go(c, at)
    PROVE  VaultInv'
<1>1. PICK call \in Calls : calls' = [calls EXCEPT ![c] = call] /\ OwnCall(call)
  BY ReturnCall, GoCall
<1>2. QED
  BY <1>1, MoveCall

(* Storing nothing or a secret of the slot keeps every secret in its place.*)
LEMMA StoreKeepsType ==
    ASSUME VaultInv, NEW s \in Slots, NEW key \in Slotted, key # None => key.of = s,
           vault' = [vault EXCEPT ![s] = key],
           UNCHANGED <<row, unfinished, route>>, leftover' \subseteq Slots
    PROVE  Together!TypeOK'
<1>1. /\ vault' \in [Slots -> Slotted]
      /\ \A t \in Slots : vault'[t] # None => vault'[t].of = t
  BY DEF VaultInv, Together!TypeOK, Slotted
<1>2. QED
  BY <1>1 DEF VaultInv, Together!TypeOK, Slotted

(* So does a change of a row to another state.                             *)
LEMMA RowKeepsType ==
    ASSUME VaultInv, NEW s \in Slots, NEW state \in RowStates, row' = [row EXCEPT ![s] = state],
           UNCHANGED <<vault, unfinished, route, leftover>>
    PROVE  Together!TypeOK'
BY DEF VaultInv, Together!TypeOK, RowStates

(* A command of the shell that is no generation, step by step.             *)
ChangeStep(c) ==
    \/ Together!CreateLook(c) \/ Together!CreateStatus(c) \/ Together!CreateStore(c)
    \/ Together!CreateInsert(c) \/ Together!CreateUndo(c)
    \/ Together!DeleteLook(c) \/ Together!DeleteErase(c)
    \/ Together!DeleteArchive(c) \/ Together!DeleteUndo(c)
    \/ Together!SetLook(c) \/ Together!SetStore(c)

LEMMA OwnChange == ASSUME VaultInv, NEW c \in Callers, ChangeStep(c) PROVE VaultInv'
<1>1. /\ calls[c] \in Calls /\ OwnCall(calls[c])
      /\ calls[c].key \in Slotted /\ calls[c].previous \in Slotted
  BY DEF VaultInv, Calls
<1>2. calls[c].cmd \in Changing
  BY DEF ChangeStep, Changing, Together!CreateLook, Together!CreateStatus, Together!CreateStore, Together!CreateInsert,
         Together!CreateUndo, Together!DeleteLook, Together!DeleteErase, Together!DeleteArchive,
         Together!DeleteUndo, Together!SetLook, Together!SetStore, Together!At
<1>3. calls[c].conn \in Slots
  BY <1>1, <1>2 DEF OwnCall
<1>4. \/ \E result \in Outcomes : Together!Return(c, result)
      \/ \E at \in Stages \ {"look"} : Together!Go(c, at)
  BY DEF ChangeStep, Together!CreateLook, Together!CreateStatus, Together!CreateStore, Together!CreateInsert,
         Together!CreateUndo, Together!DeleteLook, Together!DeleteErase, Together!DeleteArchive,
         Together!DeleteUndo, Together!SetLook, Together!SetStore, Together!Fail, Outcomes, Stages
<1>5. Together!TypeOK'
  <2>1. CASE UNCHANGED <<row, vault, unfinished, route>> /\ leftover' \subseteq Slots
    BY <2>1 DEF VaultInv, Together!TypeOK
  <2>2. CASE /\ \E key \in {None, calls[c].key, calls[c].previous} : vault' = [vault EXCEPT ![calls[c].conn] = key]
             /\ UNCHANGED <<row, unfinished, route>> /\ leftover' \subseteq Slots
    <3>1. PICK key \in {None, calls[c].key, calls[c].previous} : vault' = [vault EXCEPT ![calls[c].conn] = key]
      BY <2>2
    <3>2. key \in Slotted /\ (key # None => key.of = calls[c].conn)
      BY <1>1, <3>1 DEF OwnCall, Slotted
    <3>3. QED
      BY <1>3, <2>2, <3>1, <3>2, StoreKeepsType
  <2>3. CASE /\ \E state \in RowStates : row' = [row EXCEPT ![calls[c].conn] = state]
             /\ UNCHANGED <<vault, unfinished, route, leftover>>
    BY <1>3, <2>3, RowKeepsType
  <2>4. leftover \subseteq Slots
    BY DEF VaultInv, Together!TypeOK
  <2>5. CASE Together!CreateLook(c) \/ Together!CreateStatus(c) \/ Together!DeleteLook(c) \/ Together!SetLook(c)
    BY <2>1, <2>4, <2>5 DEF Together!CreateLook, Together!CreateStatus, Together!DeleteLook, Together!SetLook,
                            Together!Keep
  <2>6. CASE Together!CreateStore(c) \/ Together!DeleteErase(c) \/ Together!SetStore(c)
    <3>1. UNCHANGED <<row, unfinished, route, leftover>>
      BY <2>6 DEF Together!CreateStore, Together!DeleteErase, Together!SetStore, Together!KeepButVault
    <3>2. \/ UNCHANGED vault
          \/ \E key \in {None, calls[c].key, calls[c].previous} : vault' = [vault EXCEPT ![calls[c].conn] = key]
      BY <2>6 DEF Together!CreateStore, Together!DeleteErase, Together!SetStore, Together!Store, Together!Slot
    <3>3. QED
      BY <2>1, <2>2, <2>4, <3>1, <3>2
  <2>7. CASE Together!CreateInsert(c) \/ Together!DeleteArchive(c)
    <3>1. UNCHANGED <<vault, unfinished, route, leftover>>
      BY <2>7 DEF Together!CreateInsert, Together!DeleteArchive
    <3>2. UNCHANGED row \/ \E state \in RowStates : row' = [row EXCEPT ![calls[c].conn] = state]
      BY <2>7 DEF Together!CreateInsert, Together!DeleteArchive, Together!Slot, RowStates
    <3>3. QED
      BY <2>1, <2>3, <2>4, <3>1, <3>2
  <2>8. CASE Together!CreateUndo(c) \/ Together!DeleteUndo(c)
    <3>1. UNCHANGED <<row, unfinished, route>> /\ leftover' \in {leftover, leftover \cup {calls[c].conn}}
      BY <2>8 DEF Together!CreateUndo, Together!DeleteUndo, Together!Slot
    <3>2. \/ UNCHANGED vault
          \/ \E key \in {None, calls[c].key, calls[c].previous} : vault' = [vault EXCEPT ![calls[c].conn] = key]
      BY <2>8 DEF Together!CreateUndo, Together!DeleteUndo, Together!Store, Together!Slot
    <3>3. leftover' \subseteq Slots
      BY <1>3, <2>4, <3>1
    <3>4. QED
      BY <2>1, <2>2, <3>1, <3>2, <3>3
  <2>9. QED
    BY <2>5, <2>6, <2>7, <2>8 DEF ChangeStep
<1>6. QED
  BY <1>2, <1>4, <1>5, StepCall

LEMMA OwnDeleteRead ==
    ASSUME VaultInv, NEW c \in Callers, Together!DeleteRead(c)
    PROVE  VaultInv' /\ \/ Together!Fail(c)
                        \/ \E call \in Calls : /\ calls' = [calls EXCEPT ![c] = call]
                                               /\ call = [calls[c] EXCEPT !.at = "erase", !.previous = vault[calls[c].conn]]
<1>1. /\ calls[c].cmd = "delete" /\ calls[c].at = "read" /\ calls[c] \in Calls /\ OwnCall(calls[c])
      /\ calls[c].conn \in Slots /\ UNCHANGED <<row, vault, unfinished, route, leftover, sent>>
  BY DEF Together!DeleteRead, Together!At, Together!Keep, VaultInv, OwnCall, Changing
<1>2. Together!TypeOK'
  BY <1>1 DEF VaultInv, Together!TypeOK
<1>3. CASE Together!Fail(c)
  BY <1>2, <1>3, StepCall DEF Together!Fail, Outcomes
<1>4. CASE calls' = [calls EXCEPT ![c].at = "erase", ![c].previous = vault[calls[c].conn]]
  <2> DEFINE call == [calls[c] EXCEPT !.at = "erase", !.previous = vault[calls[c].conn]]
  <2>1. vault[calls[c].conn] \in Slotted /\ (vault[calls[c].conn] # None => vault[calls[c].conn].of = calls[c].conn)
    BY <1>1 DEF VaultInv, Together!TypeOK, Slotted
  <2>2. /\ call \in Calls /\ call.cmd = calls[c].cmd /\ call.conn = calls[c].conn /\ call.at = "erase"
        /\ call.key = calls[c].key /\ call.previous = vault[calls[c].conn]
    BY <1>1, <2>1 DEF Calls, Stages
  <2>3. calls' = [calls EXCEPT ![c] = call]
    BY <1>1, <1>4 DEF VaultInv
  <2>4. OwnCall(call)
    <3> HIDE DEF call
    <3>1. QED
      BY <1>1, <2>1, <2>2 DEF OwnCall, Changing, Sending
  <2>5. VaultInv'
    BY <1>2, <2>2, <2>3, <2>4, MoveCall
  <2>6. QED
    BY <2>2, <2>3, <2>5
<1>5. QED
  BY <1>3, <1>4 DEF Together!DeleteRead, Together!Slot

(* A command that begins holds the secret that came with it.               *)
LEMMA OwnBegin ==
    ASSUME VaultInv, NEW c \in Callers, NEW cmd \in Commands \ {"none"}, NEW conn \in Slots \cup {None},
           NEW key \in Slotted, NEW before \in [row : RowStates, vault : Slotted] \cup {None},
           cmd \in Changing => conn \in Slots, cmd \in Sending => key = None,
           cmd = "profile" => conn \in Legacies,
           key # None => key.of = conn,
           calls' = [calls EXCEPT ![c] = [cmd |-> cmd, at |-> "look", conn |-> conn, key |-> key,
                         previous |-> None, before |-> before, result |-> "ok"]],
           UNCHANGED <<row, vault, unfinished, route, leftover, sent>>
    PROVE  VaultInv'
<1> DEFINE call == [cmd |-> cmd, at |-> "look", conn |-> conn, key |-> key,
                    previous |-> None, before |-> before, result |-> "ok"]
<1>1. /\ call \in Calls /\ call.cmd = cmd /\ call.conn = conn /\ call.at = "look"
      /\ call.key = key /\ call.previous = None
  BY DEF Calls, Stages, Slotted, Outcomes
<1>2. calls' = [calls EXCEPT ![c] = call]
  OBVIOUS
<1> HIDE DEF call
<1>3. OwnCall(call)
  BY <1>1, ConnectionsAssumption DEF OwnCall, Changing, Sending
<1>4. Together!TypeOK'
  BY DEF VaultInv, Together!TypeOK
<1>5. QED
  BY <1>1, <1>2, <1>3, <1>4, MoveCall

(* What a command that begins holds, where it may overlap and where not.   *)
Begun(c, cmd, conn, key, before) ==
    /\ calls' = [calls EXCEPT ![c] = [cmd |-> cmd, at |-> "look", conn |-> conn, key |-> key,
                     previous |-> None, before |-> before, result |-> "ok"]]
    /\ UNCHANGED <<row, vault, unfinished, route, leftover, sent>>

LEMMA IdleBegins ==
    ASSUME NEW cmd, NEW conn, NEW key, NEW before, NEW call,
           \/ call = [Together!Idle EXCEPT !.cmd = cmd, !.at = "look", !.conn = conn, !.key = key,
                                          !.before = before]
           \/ call = [Alone!Idle EXCEPT !.cmd = cmd, !.at = "look", !.conn = conn, !.key = key,
                                       !.before = before]
    PROVE  call = [cmd |-> cmd, at |-> "look", conn |-> conn, key |-> key,
                   previous |-> None, before |-> before, result |-> "ok"]
<1>1. CASE call = [Together!Idle EXCEPT !.cmd = cmd, !.at = "look", !.conn = conn, !.key = key,
                                        !.before = before]
  BY <1>1 DEF Together!Idle
<1>2. CASE call = [Alone!Idle EXCEPT !.cmd = cmd, !.at = "look", !.conn = conn, !.key = key,
                                     !.before = before]
  BY <1>2 DEF Alone!Idle
<1>3. QED
  BY <1>1, <1>2

LEMMA BeginTogether ==
    ASSUME NEW c \in Callers, NEW cmd, NEW conn, NEW key, Together!Begin(c, cmd, conn, key)
    PROVE  Begun(c, cmd, conn, key, None)
<1>1. Together!Found(conn) = None
  BY DEF Together!Found
<1>2. PICK call : call = [Together!Idle EXCEPT !.cmd = cmd, !.at = "look", !.conn = conn, !.key = key,
                                               !.before = None]
  OBVIOUS
<1>3. calls' = [calls EXCEPT ![c] = call]
  BY <1>1, <1>2 DEF Together!Begin
<1>4. call = [cmd |-> cmd, at |-> "look", conn |-> conn, key |-> key,
              previous |-> None, before |-> None, result |-> "ok"]
  BY <1>2, IdleBegins
<1>5. QED
  BY <1>3, <1>4 DEF Together!Begin, Begun

LEMMA BeginAlone ==
    ASSUME NEW c \in Callers, NEW cmd, NEW conn, NEW key, Alone!Begin(c, cmd, conn, key)
    PROVE  /\ Begun(c, cmd, conn, key, Alone!Found(conn))
           /\ \A d \in Callers : calls[d].cmd = "none"
<1>1. PICK before : before = Alone!Found(conn)
  OBVIOUS
<1>2. PICK call : call = [Alone!Idle EXCEPT !.cmd = cmd, !.at = "look", !.conn = conn, !.key = key,
                                            !.before = before]
  OBVIOUS
<1>3. calls' = [calls EXCEPT ![c] = call]
  BY <1>1, <1>2 DEF Alone!Begin
<1>4. call = [cmd |-> cmd, at |-> "look", conn |-> conn, key |-> key,
              previous |-> None, before |-> before, result |-> "ok"]
  BY <1>2, IdleBegins
<1>5. QED
  BY <1>1, <1>3, <1>4 DEF Alone!Begin, Begun

LEMMA FoundTyped ==
    ASSUME VaultInv, NEW conn \in Slots \cup {None}
    PROVE  /\ Alone!Found(conn) \in [row : RowStates, vault : Slotted] \cup {None}
           /\ conn \in Slots => Alone!Found(conn) = [row |-> row[conn], vault |-> vault[conn]]
BY ConnectionsAssumption DEF Alone!Found, VaultInv, Together!TypeOK, Slotted, RowStates

(* The commands a user may give.                                           *)
Given(cmd, conn, key) ==
    \/ cmd \in {"create", "delete", "clear"} /\ conn \in Slots /\ key = None
    \/ cmd \in {"create", "set"} /\ conn \in Slots /\ key \in Together!Keys /\ key.of = conn
    \/ cmd = "send" /\ conn = None /\ key = None
    \/ cmd = "profile" /\ conn \in Legacies /\ key = None

LEMMA OwnBegun ==
    ASSUME VaultInv, NEW c \in Callers, NEW cmd, NEW conn, NEW key, Given(cmd, conn, key),
           NEW before \in [row : RowStates, vault : Slotted] \cup {None},
           Begun(c, cmd, conn, key, before)
    PROVE  VaultInv'
<1>1. /\ cmd \in Commands \ {"none"} /\ conn \in Slots \cup {None} /\ key \in Slotted
      /\ cmd \in Changing => conn \in Slots
      /\ cmd \in Sending => key = None
      /\ cmd = "profile" => conn \in Legacies
      /\ key # None => key.of = conn
  BY ConnectionsAssumption DEF Given, Commands, Changing, Sending, Slotted
<1>2. QED
  BY <1>1, OwnBegin DEF Begun

(* A generation holds the secret of the connection it looked up.           *)
LEMMA OwnSendLook ==
    ASSUME VaultInv, NEW c \in Callers, Together!SendLook(c) \/ Alone!SendLook(c)
    PROVE  /\ VaultInv' /\ UNCHANGED <<row, vault, unfinished, route, leftover, sent>>
           /\ calls[c].cmd = "send"
           /\ \E call \in Calls : calls' = [calls EXCEPT ![c] = call] /\ call.cmd \in {"none", "send"}
<1>1. /\ calls[c].cmd = "send" /\ calls[c].at = "look" /\ calls[c] \in Calls /\ OwnCall(calls[c])
      /\ UNCHANGED <<row, vault, unfinished, route, leftover, sent>>
  BY DEF Together!SendLook, Together!At, Together!Keep, Alone!SendLook, Alone!At, Alone!Keep, VaultInv
<1>2. Together!TypeOK'
  BY <1>1 DEF VaultInv, Together!TypeOK
<1>3. CASE Together!Return(c, "error")
  <2>1. PICK call \in Calls : calls' = [calls EXCEPT ![c] = call] /\ OwnCall(call) /\ call.cmd = "none"
    BY <1>3, ReturnCall DEF Outcomes
  <2>2. QED
    BY <1>1, <1>2, <2>1, MoveCall
<1>4. ASSUME NEW at \in {"read", "resolve"}, route \in Slots,
             calls' = [calls EXCEPT ![c].conn = route, ![c].at = at]
      PROVE  VaultInv' /\ \E call \in Calls : calls' = [calls EXCEPT ![c] = call] /\ call.cmd = "send"
  <2> DEFINE call == [calls[c] EXCEPT !.conn = route, !.at = at]
  <2>1. /\ call \in Calls /\ call.cmd = "send" /\ call.conn = route /\ call.at = at
        /\ call.key = None /\ call.previous = None
    BY <1>1, <1>4 DEF Calls, Stages, OwnCall, Sending
  <2>2. calls' = [calls EXCEPT ![c] = call]
    BY <1>1, <1>4 DEF VaultInv
  <2> HIDE DEF call
  <2>3. OwnCall(call)
    BY <1>4, <2>1 DEF OwnCall, Changing, Sending
  <2>4. QED
    BY <1>2, <2>1, <2>2, <2>3, MoveCall
<1>5. route # None => route \in Slots
  BY DEF VaultInv, Together!TypeOK
<1>6. Alone!Return(c, "error") => Together!Return(c, "error")
  BY DEF Alone!Return, Together!Return, Alone!Idle, Together!Idle
<1>7. ASSUME Together!SendLook(c)
      PROVE  \/ Together!Return(c, "error")
             \/ route # None /\ \E at \in {"read", "resolve"} : calls' = [calls EXCEPT ![c].conn = route, ![c].at = at]
  BY <1>7 DEF Together!SendLook, Together!Fail
<1>8. ASSUME Alone!SendLook(c)
      PROVE  \/ Alone!Return(c, "error")
             \/ route # None /\ \E at \in {"read", "resolve"} : calls' = [calls EXCEPT ![c].conn = route, ![c].at = at]
  BY <1>8 DEF Alone!SendLook, Alone!Fail
<1>9. QED
  BY <1>1, <1>3, <1>4, <1>5, <1>6, <1>7, <1>8

LEMMA OwnSendRead ==
    ASSUME VaultInv, NEW c \in Callers, Together!SendRead(c)
    PROVE  /\ VaultInv' /\ UNCHANGED <<row, vault, unfinished, route, leftover, sent>>
           /\ calls[c].cmd = "send"
           /\ \E call \in Calls : calls' = [calls EXCEPT ![c] = call] /\ call.cmd \in {"none", "send"}
<1>1. /\ calls[c].cmd = "send" /\ calls[c].at = "read" /\ calls[c] \in Calls /\ OwnCall(calls[c])
      /\ UNCHANGED <<row, vault, unfinished, route, leftover, sent>> /\ calls[c].conn \in Slots
  BY DEF Together!SendRead, Together!At, Together!Keep, VaultInv, OwnCall
<1>2. Together!TypeOK'
  BY <1>1 DEF VaultInv, Together!TypeOK
<1>3. CASE Together!Return(c, "error")
  <2>1. PICK call \in Calls : calls' = [calls EXCEPT ![c] = call] /\ OwnCall(call) /\ call.cmd = "none"
    BY <1>3, ReturnCall DEF Outcomes
  <2>2. QED
    BY <1>1, <1>2, <2>1, MoveCall
<1>4. CASE calls' = [calls EXCEPT ![c].at = "resolve", ![c].key = vault[calls[c].conn]]
  <2> DEFINE call == [calls[c] EXCEPT !.at = "resolve", !.key = vault[calls[c].conn]]
  <2>1. vault[calls[c].conn] \in Slotted /\ (vault[calls[c].conn] # None => vault[calls[c].conn].of = calls[c].conn)
    BY <1>1 DEF VaultInv, Together!TypeOK, Slotted
  <2>2. /\ call \in Calls /\ call.cmd = "send" /\ call.conn = calls[c].conn /\ call.at = "resolve"
        /\ call.key = vault[calls[c].conn] /\ call.previous = calls[c].previous
    BY <1>1, <2>1 DEF Calls, Stages
  <2>3. calls' = [calls EXCEPT ![c] = call]
    BY <1>1, <1>4 DEF VaultInv
  <2> HIDE DEF call
  <2>4. OwnCall(call)
    BY <1>1, <2>1, <2>2 DEF OwnCall, Changing, Sending
  <2>5. QED
    BY <1>1, <1>2, <2>2, <2>3, <2>4, MoveCall
<1>5. QED
  BY <1>3, <1>4 DEF Together!SendRead, Together!Slot, Together!Fail

(* Core accepts a secret for the connection of the route alone.            *)
LEMMA OwnSendResolve ==
    ASSUME VaultInv, NEW c \in Callers, Together!SendResolve(c) \/ Alone!SendResolve(c)
    PROVE  /\ VaultInv' /\ UNCHANGED <<row, vault, unfinished, route, leftover>>
           /\ calls[c].cmd = "send"
           /\ \E call \in Calls : calls' = [calls EXCEPT ![c] = call] /\ call.cmd \in {"none", "send"}
<1>1. /\ calls[c].cmd = "send" /\ UNCHANGED <<row, vault, unfinished, route, leftover>>
      /\ Together!Return(c, "error") \/ Together!Return(c, "ok")
  BY DEF Together!SendResolve, Together!At, Alone!SendResolve, Alone!At, Together!Fail, Alone!Fail,
         Alone!Return, Together!Return, Alone!Idle, Together!Idle
<1>2. Together!TypeOK'
  BY <1>1 DEF VaultInv, Together!TypeOK
<1>3. PICK call \in Calls : calls' = [calls EXCEPT ![c] = call] /\ OwnCall(call) /\ call.cmd = "none"
  BY <1>1, ReturnCall DEF Outcomes
<1>4. QED
  BY <1>1, <1>2, <1>3, MoveCall

(* So does one through a profile, whose connection is fixed from the start.*)
LEMMA OwnProfile ==
    ASSUME VaultInv, NEW c \in Callers,
           Together!ProfileLook(c) \/ Together!ProfileRead(c) \/ Together!ProfileResolve(c)
    PROVE  /\ VaultInv' /\ UNCHANGED <<row, vault, unfinished, route, leftover>>
           /\ calls[c].cmd = "profile"
           /\ UNCHANGED sent \/ Together!ProfileResolve(c)
           /\ \E call \in Calls : calls' = [calls EXCEPT ![c] = call] /\ call.cmd \in {"none", "profile"}
<1>1. /\ calls[c].cmd = "profile" /\ calls[c] \in Calls /\ OwnCall(calls[c])
      /\ calls[c].conn \in Slots /\ calls[c].conn \in Legacies
      /\ UNCHANGED <<row, vault, unfinished, route, leftover>>
      /\ UNCHANGED sent \/ Together!ProfileResolve(c)
  BY DEF Together!ProfileLook, Together!ProfileRead, Together!ProfileResolve, Together!At, Together!Keep,
         VaultInv, OwnCall
<1>2. Together!TypeOK'
  BY <1>1 DEF VaultInv, Together!TypeOK
<1>3. ASSUME NEW result \in Outcomes, Together!Return(c, result)
      PROVE  VaultInv' /\ \E call \in Calls : calls' = [calls EXCEPT ![c] = call] /\ call.cmd = "none"
  <2>1. PICK call \in Calls : calls' = [calls EXCEPT ![c] = call] /\ OwnCall(call) /\ call.cmd = "none"
    BY <1>3, ReturnCall
  <2>2. QED
    BY <1>2, <2>1, MoveCall
<1>4. ASSUME NEW at \in {"read", "resolve"}, NEW key \in {calls[c].key, vault[calls[c].conn]},
             NEW call, call = [calls[c] EXCEPT !.at = at, !.key = key], calls' = [calls EXCEPT ![c] = call]
      PROVE  VaultInv' /\ \E d \in Calls : calls' = [calls EXCEPT ![c] = d] /\ d.cmd = "profile"
  <2>1. key \in Slotted /\ (key # None => key.of = calls[c].conn)
    BY <1>1, <1>4 DEF VaultInv, Together!TypeOK, Slotted, Calls, OwnCall
  <2>2. /\ call \in Calls /\ call.cmd = "profile" /\ call.conn = calls[c].conn
        /\ call.key = key /\ call.previous = calls[c].previous
    BY <1>1, <1>4, <2>1 DEF Calls, Stages
  <2>3. OwnCall(call)
    BY <1>1, <2>1, <2>2 DEF OwnCall, Changing, Sending
  <2>4. QED
    BY <1>2, <1>4, <2>2, <2>3, MoveCall
<1>5. CASE Together!ProfileLook(c)
  <2>1. CASE Together!Fail(c)
    BY <1>1, <1>3, <2>1 DEF Together!Fail, Outcomes
  <2>2. CASE Together!Go(c, "read")
    <3>1. PICK call : call = [calls[c] EXCEPT !.at = "read", !.key = calls[c].key]
      OBVIOUS
    <3>2. call = [calls[c] EXCEPT !.at = "read"]
      BY <1>1, <3>1 DEF Calls
    <3>3. calls' = [calls EXCEPT ![c] = call]
      BY <1>1, <2>2, <3>2 DEF VaultInv, Together!Go
    <3>4. QED
      BY <1>1, <1>4, <3>1, <3>3
  <2>3. QED
    BY <1>5, <2>1, <2>2 DEF Together!ProfileLook
<1>6. CASE Together!ProfileRead(c)
  <2>1. CASE Together!Fail(c)
    BY <1>1, <1>3, <2>1 DEF Together!Fail, Outcomes
  <2>2. CASE calls' = [calls EXCEPT ![c].at = "resolve", ![c].key = vault[calls[c].conn]]
    <3>1. PICK call : call = [calls[c] EXCEPT !.at = "resolve", !.key = vault[calls[c].conn]]
      OBVIOUS
    <3>2. calls' = [calls EXCEPT ![c] = call]
      BY <1>1, <2>2, <3>1 DEF VaultInv
    <3>3. QED
      BY <1>1, <1>4, <3>1, <3>2
  <2>3. QED
    BY <1>6, <2>1, <2>2 DEF Together!ProfileRead, Together!Slot
<1>7. CASE Together!ProfileResolve(c)
  <2>1. Together!Return(c, "error") \/ Together!Return(c, "ok")
    BY <1>7 DEF Together!ProfileResolve, Together!Fail
  <2>2. QED
    BY <1>1, <1>3, <2>1 DEF Outcomes
<1>8. QED
  BY <1>5, <1>6, <1>7

(* What goes out by a route has passed the binding check; what goes out by *)
(* a profile has the secret of that profile's slot, or none.               *)
LEMMA SentSecret ==
    ASSUME VaultInv, NEW c \in Callers, Together!SecretReachesItsConnection,
           \/ Together!SendResolve(c) \/ Alone!SendResolve(c) \/ Together!ProfileResolve(c)
    PROVE  Together!SecretReachesItsConnection'
<1>1. CASE UNCHANGED sent
  BY <1>1 DEF Together!SecretReachesItsConnection
<1>2. CASE /\ calls[c].conn = route /\ (route \in Demanding) = (calls[c].key # None)
           /\ sent' = [by |-> "route", to |-> route, key |-> calls[c].key]
  BY <1>2 DEF Together!SecretReachesItsConnection, VaultInv, OwnCall
<1>3. CASE Together!ProfileResolve(c) /\ sent' = [by |-> "profile", to |-> calls[c].conn, key |-> calls[c].key]
  <2>1. calls[c].conn \in Legacies /\ calls[c].conn \in Demanding
    BY <1>3, ConnectionsAssumption DEF Together!ProfileResolve, Together!At, VaultInv, OwnCall
  <2>2. QED
    BY <1>3, <2>1 DEF Together!SecretReachesItsConnection, VaultInv, OwnCall
<1>4. QED
  BY <1>1, <1>2, <1>3 DEF Together!SendResolve, Together!BindingAccepted, Alone!SendResolve, Alone!BindingAccepted,
                          Together!ProfileResolve, Together!Slot

(* The edits around the commands.                                          *)
EditStep ==
    \/ \E conn \in Slots : Together!SyncStarts(conn) \/ Together!SyncEnds(conn) \/ Together!SaveRoute(conn)
    \/ Together!DeleteRoute

LEMMA OwnEdit ==
    ASSUME VaultInv, EditStep
    PROVE  VaultInv' /\ UNCHANGED <<row, vault, calls, leftover, sent>>
<1>1. /\ UNCHANGED <<row, vault, calls, leftover, sent>>
      /\ route' \in Slots \cup {None} /\ unfinished' \subseteq Slots
  BY DEF EditStep, Together!SyncStarts, Together!SyncEnds, Together!SaveRoute, Together!DeleteRoute, VaultInv,
         Together!TypeOK
<1>2. QED
  BY <1>1 DEF VaultInv, Together!TypeOK

(* Commands that overlap in any way.                                       *)
LEMMA OwnTogether ==
    ASSUME VaultInv, Together!SecretReachesItsConnection, [Together!Next]_vaultVars
    PROVE  VaultInv' /\ Together!SecretReachesItsConnection'
<1> USE DEF Together!SecretReachesItsConnection
<1>1. CASE UNCHANGED vaultVars
  BY <1>1 DEF vaultVars, VaultInv, Together!TypeOK
<1>2. CASE EditStep
  BY <1>2, OwnEdit
<1>3. ASSUME NEW c \in Callers, NEW cmd, NEW conn, NEW key, Given(cmd, conn, key), Together!Begin(c, cmd, conn, key)
      PROVE  VaultInv' /\ Together!SecretReachesItsConnection'
  <2>1. Begun(c, cmd, conn, key, None)
    BY <1>3, BeginTogether
  <2>2. QED
    BY <1>3, <2>1, OwnBegun DEF Begun
<1>4. ASSUME NEW c \in Callers, ChangeStep(c) \/ Together!DeleteRead(c)
      PROVE  VaultInv' /\ Together!SecretReachesItsConnection'
  <2>1. UNCHANGED sent
    BY <1>4 DEF ChangeStep, Together!CreateLook, Together!CreateStatus, Together!CreateStore, Together!CreateInsert,
         Together!CreateUndo, Together!DeleteLook, Together!DeleteRead, Together!DeleteErase, Together!DeleteArchive,
         Together!DeleteUndo, Together!SetLook, Together!SetStore, Together!Keep, Together!KeepButVault
  <2>2. QED
    BY <1>4, <2>1, OwnChange, OwnDeleteRead
<1>5. ASSUME NEW c \in Callers, Together!SendLook(c) \/ Together!SendRead(c) \/ Together!SendResolve(c)
      PROVE  VaultInv' /\ Together!SecretReachesItsConnection'
  BY <1>5, OwnSendLook, OwnSendRead, OwnSendResolve, SentSecret
<1>8. ASSUME NEW c \in Callers,
             Together!ProfileLook(c) \/ Together!ProfileRead(c) \/ Together!ProfileResolve(c)
      PROVE  VaultInv' /\ Together!SecretReachesItsConnection'
  BY <1>8, OwnProfile, SentSecret
<1>6. \A conn \in Slots, secret \in Secrets :
          [of |-> conn, secret |-> secret] \in Together!Keys /\ [of |-> conn, secret |-> secret].of = conn
  BY DEF Together!Keys
<1>7. QED
  BY <1>1, <1>2, <1>3, <1>4, <1>5, <1>6, <1>8 DEF Together!Next, EditStep, ChangeStep, Given

-----------------------------------------------------------------------------
(* Where commands follow one another, a command knows what it has done to  *)
(* the row and the slot it found.                                          *)
Standing(call, state, secret) ==
    /\ call.cmd = "create" =>
        /\ call.at \in {"look", "status", "store", "insert", "undo"}
        /\ call.at \in {"look", "status", "store"} => call.before = [row |-> state, vault |-> secret]
        /\ call.at = "store" => secret = None
        /\ call.at = "insert" =>
              \/ call.key = None /\ call.before = [row |-> state, vault |-> secret]
              \/ call.key # None /\ secret = call.key /\ call.before = [row |-> state, vault |-> None]
        /\ call.at = "undo" => call.before = [row |-> state, vault |-> None]
    /\ call.cmd = "delete" =>
        /\ call.at \in {"look", "read", "erase", "archive", "undo"}
        /\ call.at \in {"look", "read", "erase"} => call.before = [row |-> state, vault |-> secret]
        /\ call.at = "erase" => call.previous = secret
        /\ call.at \in {"archive", "undo"} => secret = None /\ call.before = [row |-> state, vault |-> call.previous]
    /\ call.cmd \in {"set", "clear"} =>
        /\ call.at \in {"look", "store"} /\ call.before = [row |-> state, vault |-> secret]
        /\ call.at = "store" => state = "active"

(* A connection that is gone has no secret, unless that was reported.      *)
Tidy(conn) == conn \in leftover \/ vault[conn] = None \/ row[conn] = "active"

LoneInv ==
    /\ \A c, d \in Callers : calls[c].cmd # "none" /\ calls[d].cmd # "none" => c = d
    /\ \A c \in Callers : calls[c].cmd \in Changing =>
          /\ Standing(calls[c], row[calls[c].conn], vault[calls[c].conn])
          /\ calls[c].before \in [row : RowStates, vault : Slotted]
          /\ \/ calls[c].conn \in leftover
             \/ calls[c].before.vault = None
             \/ calls[c].before.row = "active"
    /\ \A conn \in Slots :
          Tidy(conn) \/ \E c \in Callers : calls[c].cmd \in Changing /\ calls[c].conn = conn

(* A step of a command that touches its own slot and goes on.              *)
LEMMA LoneGo ==
    ASSUME VaultInv, LoneInv, NEW c \in Callers, calls[c].cmd \in Changing,
           NEW call \in Calls, calls' = [calls EXCEPT ![c] = call],
           call.cmd = calls[c].cmd, call.conn = calls[c].conn, call.before = calls[c].before,
           \A t \in Slots : t # calls[c].conn => row'[t] = row[t] /\ vault'[t] = vault[t],
           leftover' = leftover,
           Standing(call, row'[call.conn], vault'[call.conn])
    PROVE  LoneInv' /\ Alone!AllOrNothing
<1>1. /\ calls'[c] = call /\ \A d \in Callers : d # c => calls'[d] = calls[d]
      /\ calls[c].cmd # "none" /\ call.cmd # "none"
  BY DEF VaultInv, Changing
<1>2. \A d \in Callers : d # c => calls[d].cmd = "none"
  BY <1>1 DEF LoneInv
<1>3. \A d \in Callers : d # c => calls[d].cmd \notin Changing
  BY <1>2 DEF Changing
<1>4. Alone!AllOrNothing
  BY <1>1, <1>2 DEF Alone!AllOrNothing, Alone!Ended
<1>5. \A d, e \in Callers : calls'[d].cmd # "none" /\ calls'[e].cmd # "none" => d = e
  BY <1>1, <1>2
<1>6. \A d \in Callers : calls'[d].cmd \in Changing =>
          /\ Standing(calls'[d], row'[calls'[d].conn], vault'[calls'[d].conn])
          /\ calls'[d].before \in [row : RowStates, vault : Slotted]
          /\ \/ calls'[d].conn \in leftover'
             \/ calls'[d].before.vault = None
             \/ calls'[d].before.row = "active"
  BY <1>1, <1>3 DEF LoneInv
<1>7. \A conn \in Slots :
          Tidy(conn)' \/ \E d \in Callers : calls'[d].cmd \in Changing /\ calls'[d].conn = conn
  <2>1. SUFFICES ASSUME NEW conn \in Slots, conn # calls[c].conn PROVE Tidy(conn)'
    BY <1>1
  <2>2. Tidy(conn)
    BY <1>3, <2>1 DEF LoneInv
  <2>3. QED
    BY <2>1, <2>2 DEF Tidy
<1>8. QED
  BY <1>4, <1>5, <1>6, <1>7 DEF LoneInv

(* A step that ends a command, which has done all, or nothing, or says     *)
(* that it could not undo.                                                 *)
LEMMA LoneEnd ==
    ASSUME VaultInv, LoneInv, NEW c \in Callers, calls[c].cmd \in Changing,
           NEW result \in Outcomes, Together!Return(c, result),
           \A t \in Slots : t # calls[c].conn => row'[t] = row[t] /\ vault'[t] = vault[t],
           leftover \subseteq leftover',
           result = "ok" => Alone!Done(calls[c], row'[calls[c].conn], vault'[calls[c].conn]),
           result = "error" =>
               [row |-> row'[calls[c].conn], vault |-> vault'[calls[c].conn]] = calls[c].before,
           result = "leftover" => calls[c].conn \in leftover'
    PROVE  LoneInv' /\ Alone!AllOrNothing
<1>1. PICK call \in Calls : calls' = [calls EXCEPT ![c] = call] /\ call.cmd = "none" /\ call.result = result
  BY ReturnCall
<1>2. /\ calls'[c] = call /\ \A d \in Callers : d # c => calls'[d] = calls[d]
      /\ calls[c].cmd # "none" /\ calls[c].conn \in Slots
  BY <1>1 DEF VaultInv, Changing, OwnCall
<1>3. \A d \in Callers : d # c => calls[d].cmd = "none"
  BY <1>2 DEF LoneInv
<1>4. \A d \in Callers : calls'[d].cmd = "none" /\ calls'[d].cmd \notin Changing
  BY <1>1, <1>2, <1>3 DEF Changing
<1>5. Alone!AllOrNothing
  <2>1. SUFFICES ASSUME calls'[c].result # "leftover"
                 PROVE  IF calls'[c].result = "ok"
                        THEN Alone!Done(calls[c], row'[calls[c].conn], vault'[calls[c].conn])
                        ELSE [row |-> row'[calls[c].conn], vault |-> vault'[calls[c].conn]] = calls[c].before
    BY <1>3 DEF Alone!AllOrNothing, Alone!Ended
  <2>2. QED
    BY <1>1, <1>2, <2>1 DEF Outcomes
<1>6. \A conn \in Slots : Tidy(conn)'
  <2>1. TAKE conn \in Slots
  <2>2. CASE conn # calls[c].conn
    <3>1. Tidy(conn)
      BY <1>2, <1>3, <2>2 DEF LoneInv, Changing
    <3>2. QED
      BY <2>2, <3>1 DEF Tidy
  <2>3. CASE conn = calls[c].conn
    <3>1. CASE result = "ok"
      BY <2>3, <3>1 DEF Alone!Done, Tidy
    <3>2. CASE result = "error"
      <4>1. /\ calls[c].before.row = row'[conn] /\ calls[c].before.vault = vault'[conn]
        BY <2>3, <3>2
      <4>2. QED
        BY <2>3, <4>1 DEF LoneInv, Tidy
    <3>3. QED
      BY <2>3, <3>1, <3>2 DEF Outcomes, Tidy
  <2>4. QED
    BY <2>2, <2>3
<1>7. QED
  BY <1>4, <1>5, <1>6 DEF LoneInv

(* A step that is none of a changing command's.                            *)
LEMMA LoneOther ==
    ASSUME VaultInv, LoneInv, UNCHANGED <<row, vault, leftover>>,
           \/ UNCHANGED calls
           \/ \E c \in Callers, call \in Calls :
                 /\ calls[c].cmd \in Sending /\ call.cmd \in Sending \cup {"none"}
                 /\ calls' = [calls EXCEPT ![c] = call]
    PROVE  LoneInv' /\ Alone!AllOrNothing
<1>1. CASE UNCHANGED calls
  BY <1>1 DEF LoneInv, Tidy, Alone!AllOrNothing, Alone!Ended
<1>2. ASSUME NEW c \in Callers, NEW call \in Calls, calls[c].cmd \in Sending, call.cmd \in Sending \cup {"none"},
             calls' = [calls EXCEPT ![c] = call]
      PROVE  LoneInv' /\ Alone!AllOrNothing
  <2>1. /\ calls'[c] = call /\ \A d \in Callers : d # c => calls'[d] = calls[d]
    BY <1>2 DEF VaultInv
  <2>2. \A d \in Callers : d # c => calls[d].cmd = "none"
    BY <1>2 DEF LoneInv, Sending
  <2>3. \A d \in Callers : calls[d].cmd \notin Changing /\ calls'[d].cmd \notin Changing
    BY <1>2, <2>1, <2>2 DEF Changing, Sending
  <2>4. Alone!AllOrNothing
    BY <1>2, <2>1, <2>2 DEF Alone!AllOrNothing, Alone!Ended, Sending
  <2>5. \A conn \in Slots : Tidy(conn)
    BY <2>3 DEF LoneInv
  <2>6. \A conn \in Slots : Tidy(conn)'
    BY <2>5 DEF Tidy
  <2>7. QED
    BY <2>1, <2>2, <2>3, <2>4, <2>6 DEF LoneInv
<1>3. QED
  BY <1>1, <1>2

(* A command that begins when no other is under way.                       *)
LEMMA LoneBegin ==
    ASSUME VaultInv, LoneInv, NEW c \in Callers, NEW cmd, NEW conn, NEW key, Given(cmd, conn, key),
           Alone!Begin(c, cmd, conn, key)
    PROVE  VaultInv' /\ LoneInv' /\ Alone!AllOrNothing
<1>1. /\ Begun(c, cmd, conn, key, Alone!Found(conn)) /\ \A d \in Callers : calls[d].cmd = "none"
  BY BeginAlone
<1>2. conn \in Slots \cup {None} /\ (cmd \in Changing => conn \in Slots) /\ cmd # "none"
  BY ConnectionsAssumption DEF Given, Changing
<1>3. PICK before : before = Alone!Found(conn)
  OBVIOUS
<1>4. /\ before \in [row : RowStates, vault : Slotted] \cup {None}
      /\ conn \in Slots => before = [row |-> row[conn], vault |-> vault[conn]]
  BY <1>2, <1>3, FoundTyped
<1>5. VaultInv' /\ UNCHANGED <<row, vault, leftover>>
  BY <1>1, <1>3, <1>4, OwnBegun DEF Begun
<1>6. PICK call : call = [cmd |-> cmd, at |-> "look", conn |-> conn, key |-> key,
                          previous |-> None, before |-> before, result |-> "ok"]
  OBVIOUS
<1>7. /\ calls' = [calls EXCEPT ![c] = call]
      /\ call.cmd = cmd /\ call.at = "look" /\ call.conn = conn /\ call.before = before
  BY <1>1, <1>3, <1>6 DEF Begun
<1>8. /\ calls'[c] = call /\ \A d \in Callers : d # c => calls'[d] = calls[d]
  BY <1>7 DEF VaultInv
<1>9. \A t \in Slots : Tidy(t)
  BY <1>1 DEF LoneInv, Changing
<1>10. Alone!AllOrNothing
  BY <1>1, <1>8 DEF Alone!AllOrNothing, Alone!Ended
<1>11. ASSUME cmd \in Changing
       PROVE  /\ Standing(call, row'[conn], vault'[conn])
              /\ before \in [row : RowStates, vault : Slotted]
              /\ conn \in leftover' \/ before.vault = None \/ before.row = "active"
  <2>1. conn \in Slots /\ before = [row |-> row[conn], vault |-> vault[conn]]
    BY <1>2, <1>4, <1>11
  <2>2. before \in [row : RowStates, vault : Slotted]
    BY <2>1 DEF VaultInv, Together!TypeOK, Slotted, RowStates
  <2>3. before.vault = vault[conn] /\ before.row = row[conn]
    BY <2>1
  <2>4. Standing(call, row'[conn], vault'[conn])
    BY <1>5, <1>7, <2>1 DEF Standing
  <2>5. conn \in leftover' \/ before.vault = None \/ before.row = "active"
    BY <1>5, <1>9, <2>1, <2>3 DEF Tidy
  <2>6. QED
    BY <2>2, <2>4, <2>5
<1>12. LoneInv'
  <2>1. \A d, e \in Callers : calls'[d].cmd # "none" /\ calls'[e].cmd # "none" => d = e
    BY <1>1, <1>8
  <2>2. \A d \in Callers : calls'[d].cmd \in Changing => d = c
    BY <1>1, <1>8 DEF Changing
  <2>3. \A t \in Slots : Tidy(t)'
    BY <1>5, <1>9 DEF Tidy
  <2>4. QED
    BY <1>7, <1>8, <1>11, <2>1, <2>2, <2>3 DEF LoneInv
<1>13. QED
  BY <1>5, <1>10, <1>12

(* A step of a changing command: its own slot, and what it finds there.    *)
LEMMA LoneFacts ==
    ASSUME VaultInv, LoneInv, NEW c \in Callers, calls[c].cmd \in Changing
    PROVE  /\ calls[c] \in Calls /\ calls[c].conn \in Slots
           /\ Standing(calls[c], row[calls[c].conn], vault[calls[c].conn])
           /\ row \in [Slots -> RowStates] /\ vault \in [Slots -> Slotted]
BY DEF VaultInv, LoneInv, OwnCall, Together!TypeOK, RowStates, Slotted

(* A command that fails before it has changed anything.                    *)
LEMMA LoneFail ==
    ASSUME VaultInv, LoneInv, NEW c \in Callers, calls[c].cmd \in Changing,
           Together!Fail(c), UNCHANGED <<row, vault, leftover>>,
           calls[c].before = [row |-> row[calls[c].conn], vault |-> vault[calls[c].conn]]
    PROVE  LoneInv' /\ Alone!AllOrNothing
BY LoneEnd DEF Together!Fail, Outcomes

(* A command that moves on without a change of row or slot.                *)
LEMMA LoneMove ==
    ASSUME VaultInv, LoneInv, NEW c \in Callers, calls[c].cmd \in Changing,
           NEW at \in Stages \ {"look"}, Together!Go(c, at), leftover' = leftover,
           \A t \in Slots : t # calls[c].conn => row'[t] = row[t] /\ vault'[t] = vault[t],
           \A call \in Calls :
               /\ call.cmd = calls[c].cmd /\ call.at = at /\ call.conn = calls[c].conn
               /\ call.key = calls[c].key /\ call.previous = calls[c].previous
               /\ call.before = calls[c].before
               => Standing(call, row'[calls[c].conn], vault'[calls[c].conn])
    PROVE  LoneInv' /\ Alone!AllOrNothing
<1>1. calls[c] \in Calls
  BY DEF VaultInv
<1>2. PICK call \in Calls : calls' = [calls EXCEPT ![c] = call] /\ call = [calls[c] EXCEPT !.at = at]
  BY GoCall
<1>3. /\ call.cmd = calls[c].cmd /\ call.at = at /\ call.conn = calls[c].conn
      /\ call.key = calls[c].key /\ call.previous = calls[c].previous
      /\ call.before = calls[c].before
  BY <1>1, <1>2 DEF Calls
<1>4. Standing(call, row'[call.conn], vault'[call.conn])
  BY <1>2, <1>3
<1>5. QED
  BY <1>2, <1>3, <1>4, LoneGo

LEMMA LoneCreate ==
    ASSUME VaultInv, LoneInv, NEW c \in Callers,
           \/ Together!CreateLook(c) \/ Together!CreateStatus(c) \/ Together!CreateStore(c)
           \/ Together!CreateInsert(c) \/ Together!CreateUndo(c)
    PROVE  LoneInv' /\ Alone!AllOrNothing
<1>1. calls[c].cmd = "create" /\ calls[c].cmd \in Changing
  BY DEF Together!CreateLook, Together!CreateStatus, Together!CreateStore, Together!CreateInsert,
         Together!CreateUndo, Together!At, Changing
<1>2. PICK s \in Slots : s = calls[c].conn
  BY <1>1, LoneFacts
<1>3. /\ Standing(calls[c], row[s], vault[s]) /\ row \in [Slots -> RowStates] /\ vault \in [Slots -> Slotted]
  BY <1>1, <1>2, LoneFacts
<1>4. CASE Together!CreateLook(c)
  <2>1. /\ calls[c].at = "look" /\ UNCHANGED <<row, vault, leftover>>
        /\ calls[c].before = [row |-> row[s], vault |-> vault[s]]
    BY <1>1, <1>3, <1>4 DEF Together!CreateLook, Together!At, Together!Keep, Standing
  <2>2. CASE Together!Fail(c)
    BY <1>1, <1>2, <2>1, <2>2, LoneFail
  <2>3. CASE calls[c].key = None /\ Together!Go(c, "insert")
    <3>1. \A call \in Calls :
               /\ call.cmd = calls[c].cmd /\ call.at = "insert" /\ call.conn = calls[c].conn
               /\ call.key = calls[c].key /\ call.previous = calls[c].previous
               /\ call.before = calls[c].before
               => Standing(call, row'[calls[c].conn], vault'[calls[c].conn])
      BY <1>1, <1>2, <2>1, <2>3 DEF Standing
    <3>2. QED
      BY <1>1, <2>1, <2>3, <3>1, LoneMove DEF Stages
  <2>4. CASE Together!Go(c, "status")
    <3>1. \A call \in Calls :
               /\ call.cmd = calls[c].cmd /\ call.at = "status" /\ call.conn = calls[c].conn
               /\ call.key = calls[c].key /\ call.previous = calls[c].previous
               /\ call.before = calls[c].before
               => Standing(call, row'[calls[c].conn], vault'[calls[c].conn])
      BY <1>1, <1>2, <2>1, <2>4 DEF Standing
    <3>2. QED
      BY <1>1, <2>1, <2>4, <3>1, LoneMove DEF Stages
  <2>5. QED
    BY <1>4, <2>2, <2>3, <2>4 DEF Together!CreateLook
<1>5. CASE Together!CreateStatus(c)
  <2>1. /\ calls[c].at = "status" /\ UNCHANGED <<row, vault, leftover>>
        /\ calls[c].before = [row |-> row[s], vault |-> vault[s]]
    BY <1>1, <1>3, <1>5 DEF Together!CreateStatus, Together!At, Together!Keep, Standing
  <2>2. CASE Together!Fail(c)
    BY <1>1, <1>2, <2>1, <2>2, LoneFail
  <2>3. CASE vault[s] = None /\ Together!Go(c, "store")
    <3>1. \A call \in Calls :
               /\ call.cmd = calls[c].cmd /\ call.at = "store" /\ call.conn = calls[c].conn
               /\ call.key = calls[c].key /\ call.previous = calls[c].previous
               /\ call.before = calls[c].before
               => Standing(call, row'[calls[c].conn], vault'[calls[c].conn])
      BY <1>1, <1>2, <2>1, <2>3 DEF Standing
    <3>2. QED
      BY <1>1, <2>1, <2>3, <3>1, LoneMove DEF Stages
  <2>4. QED
    BY <1>2, <1>5, <2>2, <2>3 DEF Together!CreateStatus, Together!Slot
<1>6. CASE Together!CreateStore(c)
  <2>1. /\ calls[c].at = "store" /\ UNCHANGED <<row, leftover>> /\ vault[s] = None
        /\ calls[c].before = [row |-> row[s], vault |-> vault[s]]
    BY <1>1, <1>3, <1>6 DEF Together!CreateStore, Together!At, Together!KeepButVault, Standing
  <2>2. CASE Together!Fail(c) /\ UNCHANGED vault
    BY <1>1, <1>2, <2>1, <2>2, LoneFail
  <2>3. CASE vault' = [vault EXCEPT ![s] = calls[c].key] /\ Together!Go(c, "insert")
    <3>1. vault'[s] = calls[c].key /\ \A t \in Slots : t # s => vault'[t] = vault[t]
      BY <1>3, <2>3
    <3>2. \A call \in Calls :
               /\ call.cmd = calls[c].cmd /\ call.at = "insert" /\ call.conn = calls[c].conn
               /\ call.key = calls[c].key /\ call.previous = calls[c].previous
               /\ call.before = calls[c].before
               => Standing(call, row'[calls[c].conn], vault'[calls[c].conn])
      BY <1>1, <1>2, <2>1, <3>1 DEF Standing
    <3>3. QED
      BY <1>1, <1>2, <2>1, <2>3, <3>1, <3>2, LoneMove DEF Stages
  <2>4. QED
    BY <1>2, <1>6, <2>2, <2>3 DEF Together!CreateStore, Together!Store, Together!Slot
<1>7. CASE Together!CreateInsert(c)
  <2>1. /\ calls[c].at = "insert" /\ UNCHANGED <<vault, leftover>>
        /\ \/ calls[c].key = None /\ calls[c].before = [row |-> row[s], vault |-> vault[s]]
           \/ calls[c].key # None /\ vault[s] = calls[c].key /\ calls[c].before = [row |-> row[s], vault |-> None]
    BY <1>1, <1>3, <1>7 DEF Together!CreateInsert, Together!At, Standing
  <2>2. CASE row' = [row EXCEPT ![s] = "active"] /\ Together!Return(c, "ok")
    <3>1. row'[s] = "active" /\ \A t \in Slots : t # s => row'[t] = row[t]
      BY <1>3, <2>2
    <3>2. Alone!Done(calls[c], row'[s], vault'[s])
      BY <1>1, <2>1, <3>1 DEF Alone!Done
    <3>3. QED
      BY <1>1, <1>2, <2>1, <2>2, <3>1, <3>2, LoneEnd DEF Outcomes
  <2>3. CASE calls[c].key = None /\ Together!Fail(c) /\ UNCHANGED row
    BY <1>1, <1>2, <2>1, <2>3, LoneFail
  <2>4. CASE calls[c].key # None /\ Together!Go(c, "undo") /\ UNCHANGED row
    <3>1. \A call \in Calls :
               /\ call.cmd = calls[c].cmd /\ call.at = "undo" /\ call.conn = calls[c].conn
               /\ call.key = calls[c].key /\ call.previous = calls[c].previous
               /\ call.before = calls[c].before
               => Standing(call, row'[calls[c].conn], vault'[calls[c].conn])
      BY <1>1, <1>2, <2>1, <2>4 DEF Standing
    <3>2. QED
      BY <1>1, <2>1, <2>4, <3>1, LoneMove DEF Stages
  <2>5. QED
    BY <1>2, <1>7, <2>2, <2>3, <2>4 DEF Together!CreateInsert, Together!Slot
<1>8. CASE Together!CreateUndo(c)
  <2>1. calls[c].at = "undo" /\ UNCHANGED row /\ calls[c].before = [row |-> row[s], vault |-> None]
    BY <1>1, <1>3, <1>8 DEF Together!CreateUndo, Together!At, Standing
  <2>2. CASE vault' = [vault EXCEPT ![s] = None] /\ UNCHANGED leftover /\ Together!Fail(c)
    <3>1. vault'[s] = None /\ \A t \in Slots : t # s => vault'[t] = vault[t]
      BY <1>3, <2>2
    <3>2. QED
      BY <1>1, <1>2, <2>1, <2>2, <3>1, LoneEnd DEF Outcomes, Together!Fail
  <2>3. CASE UNCHANGED vault /\ leftover' = leftover \cup {s} /\ Together!Return(c, "leftover")
    BY <1>1, <1>2, <2>1, <2>3, LoneEnd DEF Outcomes
  <2>4. QED
    BY <1>2, <1>8, <2>2, <2>3 DEF Together!CreateUndo, Together!Store, Together!Slot
<1>9. QED
  BY <1>4, <1>5, <1>6, <1>7, <1>8

LEMMA LoneDelete ==
    ASSUME VaultInv, LoneInv, NEW c \in Callers,
           \/ Together!DeleteLook(c) \/ Together!DeleteRead(c) \/ Together!DeleteErase(c)
           \/ Together!DeleteArchive(c) \/ Together!DeleteUndo(c)
    PROVE  LoneInv' /\ Alone!AllOrNothing
<1>1. calls[c].cmd = "delete" /\ calls[c].cmd \in Changing
  BY DEF Together!DeleteLook, Together!DeleteRead, Together!DeleteErase, Together!DeleteArchive,
         Together!DeleteUndo, Together!At, Changing
<1>2. PICK s \in Slots : s = calls[c].conn
  BY <1>1, LoneFacts
<1>3. /\ Standing(calls[c], row[s], vault[s]) /\ row \in [Slots -> RowStates] /\ vault \in [Slots -> Slotted]
      /\ calls[c] \in Calls
  BY <1>1, <1>2, LoneFacts
<1>4. CASE Together!DeleteLook(c)
  <2>1. /\ calls[c].at = "look" /\ UNCHANGED <<row, vault, leftover>>
        /\ calls[c].before = [row |-> row[s], vault |-> vault[s]]
    BY <1>1, <1>3, <1>4 DEF Together!DeleteLook, Together!At, Together!Keep, Standing
  <2>2. CASE Together!Fail(c)
    BY <1>1, <1>2, <2>1, <2>2, LoneFail
  <2>3. CASE Together!Go(c, "read")
    <3>1. \A call \in Calls :
               /\ call.cmd = calls[c].cmd /\ call.at = "read" /\ call.conn = calls[c].conn
               /\ call.key = calls[c].key /\ call.previous = calls[c].previous
               /\ call.before = calls[c].before
               => Standing(call, row'[calls[c].conn], vault'[calls[c].conn])
      BY <1>1, <1>2, <2>1, <2>3 DEF Standing
    <3>2. QED
      BY <1>1, <2>1, <2>3, <3>1, LoneMove DEF Stages
  <2>4. QED
    BY <1>4, <2>2, <2>3 DEF Together!DeleteLook
<1>5. CASE Together!DeleteRead(c)
  <2>1. /\ calls[c].at = "read" /\ UNCHANGED <<row, vault, leftover>>
        /\ calls[c].before = [row |-> row[s], vault |-> vault[s]]
    BY <1>1, <1>3, <1>5 DEF Together!DeleteRead, Together!At, Together!Keep, Standing
  <2>2. CASE Together!Fail(c)
    BY <1>1, <1>2, <2>1, <2>2, LoneFail
  <2>3. CASE ~ Together!Fail(c)
    <3>1. PICK call \in Calls : /\ calls' = [calls EXCEPT ![c] = call]
                                /\ call = [calls[c] EXCEPT !.at = "erase", !.previous = vault[calls[c].conn]]
      BY <1>5, <2>3, OwnDeleteRead
    <3>2. /\ call.cmd = calls[c].cmd /\ call.at = "erase" /\ call.conn = calls[c].conn
          /\ call.previous = vault[s] /\ call.before = calls[c].before
      BY <1>2, <1>3, <3>1 DEF Calls
    <3>3. Standing(call, row'[call.conn], vault'[call.conn])
      BY <1>1, <1>2, <2>1, <3>2 DEF Standing
    <3>4. QED
      BY <1>1, <2>1, <3>1, <3>2, <3>3, LoneGo
  <2>4. QED
    BY <2>2, <2>3
<1>6. CASE Together!DeleteErase(c)
  <2>1. /\ calls[c].at = "erase" /\ UNCHANGED <<row, leftover>> /\ calls[c].previous = vault[s]
        /\ calls[c].before = [row |-> row[s], vault |-> vault[s]]
    BY <1>1, <1>3, <1>6 DEF Together!DeleteErase, Together!At, Together!KeepButVault, Standing
  <2>2. CASE Together!Fail(c) /\ UNCHANGED vault
    BY <1>1, <1>2, <2>1, <2>2, LoneFail
  <2>3. CASE vault' = [vault EXCEPT ![s] = None] /\ Together!Go(c, "archive")
    <3>1. vault'[s] = None /\ \A t \in Slots : t # s => vault'[t] = vault[t]
      BY <1>3, <2>3
    <3>2. \A call \in Calls :
               /\ call.cmd = calls[c].cmd /\ call.at = "archive" /\ call.conn = calls[c].conn
               /\ call.key = calls[c].key /\ call.previous = calls[c].previous
               /\ call.before = calls[c].before
               => Standing(call, row'[calls[c].conn], vault'[calls[c].conn])
      BY <1>1, <1>2, <2>1, <3>1 DEF Standing
    <3>3. QED
      BY <1>1, <1>2, <2>1, <2>3, <3>1, <3>2, LoneMove DEF Stages
  <2>4. QED
    BY <1>2, <1>6, <2>2, <2>3 DEF Together!DeleteErase, Together!Store, Together!Slot
<1>7. CASE Together!DeleteArchive(c)
  <2>1. /\ calls[c].at = "archive" /\ UNCHANGED <<vault, leftover>> /\ vault[s] = None
        /\ calls[c].before = [row |-> row[s], vault |-> calls[c].previous]
    BY <1>1, <1>3, <1>7 DEF Together!DeleteArchive, Together!At, Standing
  <2>2. CASE row' = [row EXCEPT ![s] = "archived"] /\ Together!Return(c, "ok")
    <3>1. row'[s] = "archived" /\ \A t \in Slots : t # s => row'[t] = row[t]
      BY <1>3, <2>2
    <3>2. Alone!Done(calls[c], row'[s], vault'[s])
      BY <1>1, <2>1, <3>1 DEF Alone!Done
    <3>3. QED
      BY <1>1, <1>2, <2>1, <2>2, <3>1, <3>2, LoneEnd DEF Outcomes
  <2>3. CASE calls[c].previous = None /\ Together!Fail(c) /\ UNCHANGED row
    BY <1>1, <1>2, <2>1, <2>3, LoneFail
  <2>4. CASE Together!Go(c, "undo") /\ UNCHANGED row
    <3>1. \A call \in Calls :
               /\ call.cmd = calls[c].cmd /\ call.at = "undo" /\ call.conn = calls[c].conn
               /\ call.key = calls[c].key /\ call.previous = calls[c].previous
               /\ call.before = calls[c].before
               => Standing(call, row'[calls[c].conn], vault'[calls[c].conn])
      BY <1>1, <1>2, <2>1, <2>4 DEF Standing
    <3>2. QED
      BY <1>1, <2>1, <2>4, <3>1, LoneMove DEF Stages
  <2>5. QED
    BY <1>2, <1>7, <2>2, <2>3, <2>4 DEF Together!DeleteArchive, Together!Slot
<1>8. CASE Together!DeleteUndo(c)
  <2>1. calls[c].at = "undo" /\ UNCHANGED row /\ calls[c].before = [row |-> row[s], vault |-> calls[c].previous]
    BY <1>1, <1>3, <1>8 DEF Together!DeleteUndo, Together!At, Standing
  <2>2. CASE vault' = [vault EXCEPT ![s] = calls[c].previous] /\ UNCHANGED leftover /\ Together!Fail(c)
    <3>1. vault'[s] = calls[c].previous /\ \A t \in Slots : t # s => vault'[t] = vault[t]
      BY <1>3, <2>2
    <3>2. QED
      BY <1>1, <1>2, <2>1, <2>2, <3>1, LoneEnd DEF Outcomes, Together!Fail
  <2>3. CASE UNCHANGED vault /\ leftover' = leftover \cup {s} /\ Together!Return(c, "leftover")
    BY <1>1, <1>2, <2>1, <2>3, LoneEnd DEF Outcomes
  <2>4. QED
    BY <1>2, <1>8, <2>2, <2>3 DEF Together!DeleteUndo, Together!Store, Together!Slot
<1>9. QED
  BY <1>4, <1>5, <1>6, <1>7, <1>8

LEMMA LoneSet ==
    ASSUME VaultInv, LoneInv, NEW c \in Callers, Together!SetLook(c) \/ Together!SetStore(c)
    PROVE  LoneInv' /\ Alone!AllOrNothing
<1>1. calls[c].cmd \in {"set", "clear"} /\ calls[c].cmd \in Changing
  BY DEF Together!SetLook, Together!SetStore, Changing
<1>2. PICK s \in Slots : s = calls[c].conn
  BY <1>1, LoneFacts
<1>3. /\ Standing(calls[c], row[s], vault[s]) /\ row \in [Slots -> RowStates] /\ vault \in [Slots -> Slotted]
  BY <1>1, <1>2, LoneFacts
<1>4. calls[c].before = [row |-> row[s], vault |-> vault[s]] /\ (calls[c].at = "store" => row[s] = "active")
  BY <1>1, <1>3 DEF Standing
<1>5. CASE Together!SetLook(c)
  <2>1. UNCHANGED <<row, vault, leftover>>
    BY <1>5 DEF Together!SetLook, Together!Keep
  <2>2. CASE Together!Fail(c)
    BY <1>1, <1>2, <1>4, <2>1, <2>2, LoneFail
  <2>3. CASE row[s] = "active" /\ Together!Go(c, "store")
    <3>1. \A call \in Calls :
               /\ call.cmd = calls[c].cmd /\ call.at = "store" /\ call.conn = calls[c].conn
               /\ call.key = calls[c].key /\ call.previous = calls[c].previous
               /\ call.before = calls[c].before
               => Standing(call, row'[calls[c].conn], vault'[calls[c].conn])
      BY <1>1, <1>2, <1>4, <2>1, <2>3 DEF Standing
    <3>2. QED
      BY <1>1, <2>1, <2>3, <3>1, LoneMove DEF Stages
  <2>4. QED
    BY <1>2, <1>5, <2>2, <2>3 DEF Together!SetLook, Together!Active, Together!Slot
<1>6. CASE Together!SetStore(c)
  <2>1. UNCHANGED <<row, leftover>> /\ row[s] = "active"
    BY <1>4, <1>6 DEF Together!SetStore, Together!KeepButVault
  <2>2. CASE Together!Fail(c) /\ UNCHANGED vault
    BY <1>1, <1>2, <1>4, <2>1, <2>2, LoneFail
  <2>3. CASE vault' = [vault EXCEPT ![s] = calls[c].key] /\ Together!Return(c, "ok")
    <3>1. vault'[s] = calls[c].key /\ \A t \in Slots : t # s => vault'[t] = vault[t]
      BY <1>3, <2>3
    <3>2. Alone!Done(calls[c], row'[s], vault'[s])
      BY <1>1, <2>1, <3>1 DEF Alone!Done
    <3>3. QED
      BY <1>1, <1>2, <2>1, <2>3, <3>1, <3>2, LoneEnd DEF Outcomes
  <2>4. QED
    BY <1>2, <1>6, <2>2, <2>3 DEF Together!SetStore, Together!Store, Together!Slot
<1>7. QED
  BY <1>5, <1>6

(* A command alone takes the steps of one among others.                    *)
LEMMA AloneIsTogether ==
    ASSUME VaultInv, NEW c \in Callers
    PROVE  /\ Alone!CreateLook(c) => Together!CreateLook(c)
           /\ Alone!CreateStatus(c) => Together!CreateStatus(c)
           /\ Alone!CreateStore(c) => Together!CreateStore(c)
           /\ Alone!CreateInsert(c) => Together!CreateInsert(c)
           /\ Alone!CreateUndo(c) => Together!CreateUndo(c)
           /\ Alone!DeleteLook(c) => Together!DeleteLook(c)
           /\ Alone!DeleteRead(c) => Together!DeleteRead(c)
           /\ Alone!DeleteErase(c) => Together!DeleteErase(c)
           /\ Alone!DeleteArchive(c) => Together!DeleteArchive(c)
           /\ Alone!DeleteUndo(c) => Together!DeleteUndo(c)
           /\ Alone!SetLook(c) => Together!SetLook(c)
           /\ Alone!SetStore(c) => Together!SetStore(c)
           /\ Alone!SendRead(c) => Together!SendRead(c)
           /\ Alone!ProfileLook(c) => Together!ProfileLook(c)
           /\ Alone!ProfileRead(c) => Together!ProfileRead(c)
           /\ Alone!ProfileResolve(c) => Together!ProfileResolve(c)
<1> USE DEF Alone!At, Together!At, Alone!Keep, Together!Keep, Alone!KeepButVault, Together!KeepButVault
<1>1. \A result : Alone!Return(c, result) => Together!Return(c, result)
  BY DEF Alone!Return, Together!Return, Alone!Idle, Together!Idle
<1>2. Alone!Fail(c) => Together!Fail(c)
  BY <1>1 DEF Alone!Fail, Together!Fail
<1>3. \A at : Alone!Go(c, at) => Together!Go(c, at)
  BY DEF Alone!Go, Together!Go
<1>4. /\ Alone!Slot(c) = Together!Slot(c) /\ \A key : Alone!Store(c, key) => Together!Store(c, key)
      /\ \A conn : Alone!Active(conn) <=> Together!Active(conn)
  BY DEF Alone!Slot, Together!Slot, Alone!Store, Together!Store, Alone!Active, Together!Active
<1>5. /\ Alone!CreateLook(c) => Together!CreateLook(c)
      /\ Alone!CreateStatus(c) => Together!CreateStatus(c)
  BY <1>2, <1>3, <1>4 DEF Alone!CreateLook, Together!CreateLook, Alone!CreateStatus, Together!CreateStatus
<1>6. /\ Alone!CreateStore(c) => Together!CreateStore(c)
      /\ Alone!DeleteErase(c) => Together!DeleteErase(c)
      /\ Alone!SetStore(c) => Together!SetStore(c)
  BY <1>1, <1>2, <1>3, <1>4
     DEF Alone!CreateStore, Together!CreateStore, Alone!DeleteErase, Together!DeleteErase, Alone!SetStore, Together!SetStore
<1>7. Alone!CreateInsert(c) => Together!CreateInsert(c)
  BY <1>1, <1>2, <1>3, <1>4, ConnectionsAssumption DEF Alone!CreateInsert, Together!CreateInsert
<1>8. /\ Alone!CreateUndo(c) => Together!CreateUndo(c)
      /\ Alone!DeleteUndo(c) => Together!DeleteUndo(c)
  BY <1>1, <1>2, <1>4 DEF Alone!CreateUndo, Together!CreateUndo, Alone!DeleteUndo, Together!DeleteUndo
<1>9. /\ Alone!DeleteLook(c) => Together!DeleteLook(c)
      /\ Alone!DeleteRead(c) => Together!DeleteRead(c)
      /\ Alone!SendRead(c) => Together!SendRead(c)
  BY <1>2, <1>3, <1>4
     DEF Alone!DeleteLook, Together!DeleteLook, Alone!DeleteRead, Together!DeleteRead, Alone!SendRead, Together!SendRead
<1>10. Alone!DeleteArchive(c) => Together!DeleteArchive(c)
  BY <1>1, <1>2, <1>3, <1>4 DEF Alone!DeleteArchive, Together!DeleteArchive
<1>11. Alone!SetLook(c) => Together!SetLook(c)
  BY <1>2, <1>3, <1>4, ConnectionsAssumption DEF Alone!SetLook, Together!SetLook
<1>12. /\ Alone!ProfileLook(c) => Together!ProfileLook(c)
       /\ Alone!ProfileRead(c) => Together!ProfileRead(c)
       /\ Alone!ProfileResolve(c) => Together!ProfileResolve(c)
  BY <1>1, <1>2, <1>3, <1>4
     DEF Alone!ProfileLook, Together!ProfileLook, Alone!ProfileRead, Together!ProfileRead,
         Alone!ProfileResolve, Together!ProfileResolve
<1>13. QED
  BY <1>5, <1>6, <1>7, <1>8, <1>9, <1>10, <1>11, <1>12

(* Commands that follow one another.                                       *)
LEMMA OwnAlone ==
    ASSUME VaultInv, LoneInv, Together!SecretReachesItsConnection, [Alone!Next]_vaultVars
    PROVE  VaultInv' /\ LoneInv' /\ Together!SecretReachesItsConnection' /\ Alone!AllOrNothing
<1> DEFINE Kept == VaultInv' /\ LoneInv' /\ Together!SecretReachesItsConnection' /\ Alone!AllOrNothing
<1> SUFFICES Kept
  OBVIOUS
<1>1. UNCHANGED sent => Together!SecretReachesItsConnection'
  BY DEF Together!SecretReachesItsConnection
<1>2. CASE UNCHANGED vaultVars
  <2>1. VaultInv'
    BY <1>2 DEF vaultVars, VaultInv, Together!TypeOK
  <2>2. LoneInv' /\ Alone!AllOrNothing
    BY <1>2, LoneOther DEF vaultVars
  <2>3. QED
    BY <1>1, <1>2, <2>1, <2>2 DEF vaultVars
<1>3. CASE \/ \E conn \in Slots : Alone!SyncStarts(conn) \/ Alone!SyncEnds(conn) \/ Alone!SaveRoute(conn)
           \/ Alone!DeleteRoute
  <2>1. EditStep
    BY <1>3 DEF EditStep, Alone!SyncStarts, Alone!SyncEnds, Alone!SaveRoute, Alone!DeleteRoute,
                Together!SyncStarts, Together!SyncEnds, Together!SaveRoute, Together!DeleteRoute,
                Alone!Active, Together!Active
  <2>2. VaultInv' /\ UNCHANGED <<row, vault, calls, leftover, sent>>
    BY <2>1, OwnEdit
  <2>3. LoneInv' /\ Alone!AllOrNothing
    BY <2>2, LoneOther
  <2>4. QED
    BY <1>1, <2>2, <2>3
<1>4. ASSUME NEW c \in Callers, NEW cmd, NEW conn, NEW key, Given(cmd, conn, key), Alone!Begin(c, cmd, conn, key)
      PROVE  Kept
  <2>1. UNCHANGED sent
    BY <1>4 DEF Alone!Begin
  <2>2. QED
    BY <1>1, <1>4, <2>1, LoneBegin
<1>5. ASSUME NEW c \in Callers, ChangeStep(c) \/ Together!DeleteRead(c) PROVE Kept
  <2>1. UNCHANGED sent
    BY <1>5 DEF ChangeStep, Together!CreateLook, Together!CreateStatus, Together!CreateStore, Together!CreateInsert,
         Together!CreateUndo, Together!DeleteLook, Together!DeleteRead, Together!DeleteErase, Together!DeleteArchive,
         Together!DeleteUndo, Together!SetLook, Together!SetStore, Together!Keep, Together!KeepButVault
  <2>2. VaultInv'
    BY <1>5, OwnChange, OwnDeleteRead
  <2>3. LoneInv' /\ Alone!AllOrNothing
    BY <1>5, LoneCreate, LoneDelete, LoneSet DEF ChangeStep
  <2>4. QED
    BY <1>1, <2>1, <2>2, <2>3
<1>6. ASSUME NEW c \in Callers,
             \/ Alone!SendLook(c) \/ Together!SendRead(c) \/ Alone!SendResolve(c)
             \/ Together!ProfileLook(c) \/ Together!ProfileRead(c) \/ Together!ProfileResolve(c)
      PROVE  Kept
  <2>1. /\ VaultInv' /\ UNCHANGED <<row, vault, leftover>>
        /\ \E call \in Calls : /\ calls[c].cmd \in Sending /\ call.cmd \in Sending \cup {"none"}
                               /\ calls' = [calls EXCEPT ![c] = call]
        /\ UNCHANGED sent \/ Alone!SendResolve(c) \/ Together!ProfileResolve(c)
    BY <1>6, OwnSendLook, OwnSendRead, OwnSendResolve, OwnProfile DEF Sending
  <2>2. LoneInv' /\ Alone!AllOrNothing
    BY <2>1, LoneOther
  <2>3. QED
    BY <1>1, <2>1, <2>2, SentSecret
<1>7. \A conn \in Slots, secret \in Secrets :
          [of |-> conn, secret |-> secret] \in Together!Keys /\ [of |-> conn, secret |-> secret].of = conn
  BY DEF Together!Keys
<1>8. ASSUME NEW c \in Callers, NEW conn \in Slots,
             \/ Alone!Begin(c, "create", conn, None) \/ Alone!Begin(c, "delete", conn, None)
             \/ Alone!Begin(c, "clear", conn, None)
             \/ \E secret \in Secrets :
                   \/ Alone!Begin(c, "create", conn, [of |-> conn, secret |-> secret])
                   \/ Alone!Begin(c, "set", conn, [of |-> conn, secret |-> secret])
      PROVE  Kept
  BY <1>4, <1>7, <1>8 DEF Given
<1>9. ASSUME NEW c \in Callers,
             Alone!Begin(c, "send", None, None) \/ \E profile \in Legacies : Alone!Begin(c, "profile", profile, None)
      PROVE  Kept
  BY <1>4, <1>9 DEF Given
<1>10. ASSUME NEW c \in Callers,
              \/ Alone!CreateLook(c) \/ Alone!CreateStatus(c) \/ Alone!CreateStore(c) \/ Alone!CreateInsert(c)
              \/ Alone!CreateUndo(c)
              \/ Alone!DeleteLook(c) \/ Alone!DeleteRead(c) \/ Alone!DeleteErase(c) \/ Alone!DeleteArchive(c)
              \/ Alone!DeleteUndo(c)
              \/ Alone!SetLook(c) \/ Alone!SetStore(c)
       PROVE  Kept
  BY <1>5, <1>10, AloneIsTogether DEF ChangeStep
<1>11. ASSUME NEW c \in Callers,
              \/ Alone!SendLook(c) \/ Alone!SendRead(c) \/ Alone!SendResolve(c)
              \/ Alone!ProfileLook(c) \/ Alone!ProfileRead(c) \/ Alone!ProfileResolve(c)
       PROVE  Kept
  BY <1>6, <1>11, AloneIsTogether
<1> HIDE DEF Kept
<1>12. QED
  BY <1>2, <1>3, <1>8, <1>9, <1>10, <1>11 DEF Alone!Next

(* The rows and slots a profile starts with.                               *)
LEMMA VaultInit ==
    ASSUME Together!Init
    PROVE  VaultInv /\ LoneInv /\ Together!SecretReachesItsConnection
<1>1. PICK call : call = Together!Idle
  OBVIOUS
<1>2. call \in Calls /\ call.cmd = "none" /\ call.key = None /\ call.previous = None
  BY <1>1 DEF Calls, Together!Idle, Commands, Stages, Slotted, Outcomes
<1>3. OwnCall(call)
  BY <1>2 DEF OwnCall, Changing, Sending
<1>4. calls = [c \in Callers |-> call] /\ sent = None
  BY <1>1 DEF Together!Init
<1>5. Together!TypeOK
  BY DEF Together!TypeOK, Together!Init
<1>6. VaultInv
  BY <1>2, <1>3, <1>4, <1>5 DEF VaultInv
<1>7. \A conn \in Slots : Tidy(conn)
  BY DEF Together!Init, Tidy
<1>8. LoneInv
  BY <1>2, <1>4, <1>7 DEF LoneInv, Changing
<1>9. QED
  BY <1>4, <1>6, <1>8 DEF Together!SecretReachesItsConnection

(* What the invariant of a lone command is for.                            *)
LEMMA LoneIsTidy == ASSUME LoneInv PROVE Alone!SecretHasConnection
BY DEF LoneInv, Alone!SecretHasConnection, Alone!AtRest, Tidy, Changing

-----------------------------------------------------------------------------
(* Each scope of the composition keeps what it needs; the others leave the *)
(* variables alone.                                                        *)
ScopesInv ==
    /\ KeptInv /\ (scope = "death" => Settled)
    /\ VaultInv
    /\ scope \in {"alone", "together"} => Together!SecretReachesItsConnection
    /\ scope = "alone" => LoneInv

LEMMA ScopesStep ==
    ASSUME ScopesInv, [MCNext]_<<scope, vars, vaultVars, keychainVars>>
    PROVE  /\ ScopesInv' /\ Faults!SuccessIsSettled
           /\ scope = "alone" => Alone!AllOrNothing
<1> USE DEF ScopesInv
<1>1. /\ scope' = scope
      /\ [Faults!Next \/ Death!Next]_keychainVars
      /\ scope = "death" => [Death!Next]_keychainVars
      /\ scope # "death" => [Faults!Next]_keychainVars
  BY DEF MCNext, GraphNext, AloneNext, TogetherNext, FaultsNext, DeathNext
<1>2. /\ scope = "alone" => [Alone!Next]_vaultVars
      /\ scope = "together" => [Together!Next]_vaultVars
      /\ scope \notin {"alone", "together"} => UNCHANGED vaultVars
  BY DEF MCNext, GraphNext, AloneNext, TogetherNext, FaultsNext, DeathNext
<1>3. Faults!SuccessIsSettled
  BY <1>1, SuccessSettles
<1>4. KeptInv' /\ (scope = "death" => Settled')
  BY <1>1, KeepFaults, KeepDeath
<1>5. CASE scope = "alone"
  BY <1>1, <1>2, <1>3, <1>4, <1>5, OwnAlone
<1>6. CASE scope = "together"
  BY <1>1, <1>2, <1>3, <1>4, <1>6, OwnTogether
<1>7. CASE scope \notin {"alone", "together"}
  <2>1. VaultInv'
    BY <1>2, <1>7 DEF vaultVars, VaultInv, Together!TypeOK
  <2>2. QED
    BY <1>1, <1>3, <1>4, <1>7, <2>1
<1>8. QED
  BY <1>5, <1>6, <1>7

LEMMA ScopesInit == MCInit => ScopesInv
BY KeptInit, VaultInit DEF MCInit, ScopesInv

LEMMA ScopesKept == MCSpec => []ScopesInv
<1>1. ScopesInv /\ [MCNext]_<<scope, vars, vaultVars, keychainVars>> => ScopesInv'
  BY ScopesStep
<1>2. QED
  BY ScopesInit, <1>1, PTL DEF MCSpec

(* Whatever commands overlap, a secret goes out to the connection it was   *)
(* entered for and to no other, and only a generation through a legacy     *)
(* profile calls a connection that demands one without; commands that      *)
(* follow one another leave no secret of a connection that is gone; and    *)
(* whichever call of the keychain fails, is corrupted or is the last of a  *)
(* process that dies, a reader is given a value the user may expect and a  *)
(* copy remains.                                                           *)
THEOREM SecretsSound == MCSpec => []SecretsAreSound
<1>1. ScopesInv => SecretsAreSound
  BY KeptIsSound, LoneIsTidy
     DEF ScopesInv, VaultInv, SecretsAreSound, Alone!SecretReachesItsConnection, Together!SecretReachesItsConnection
<1>2. QED
  BY <1>1, ScopesKept, PTL

(* A command of the shell that ends alone has done all it says or nothing, *)
(* unless it reports that the undoing failed too; an operation of the      *)
(* keychain that reports success leaves the one record the baseline        *)
(* demands.                                                                *)
THEOREM CommandsWhole == MCSpec => CommandsAreWhole
<1>1. ScopesInv /\ [MCNext]_<<scope, vars, vaultVars, keychainVars>>
        => [(scope = "alone" => Alone!AllOrNothing) /\ Faults!SuccessIsSettled]_<<vaultVars, keychainVars>>
  BY ScopesStep
<1>2. QED
  BY <1>1, ScopesKept, PTL DEF MCSpec, CommandsAreWhole
=============================================================================
