---------------------------- MODULE ConfigGenProofs ----------------------------
(***************************************************************************)
(* For every set of specs and base configs: admission lets no unsafe       *)
(* object in although an update is only checked where it changes one, and  *)
(* what a pass deploys serves what the admitted spec says.                 *)
(*                                                                         *)
(* The state only has to remember where things came from (IndInv): what is *)
(* deployed is Deployed(s, b) for a spec s that was admitted and a base    *)
(* config b.  Everything else is about the functions of pkg/config.        *)
(***************************************************************************)
EXTENDS ConfigGen, WellFoundedInduction, TLAPS

(* A new object is checked as a whole.                                     *)
LEMMA AdmittedNew ==
    ASSUME NEW s, Admitted(None, s)
    PROVE  Safe(s)
<1>1. ExternalAccessRules(s.external) /\ validateChangedVolumeTypes(None, s)
  BY DEF Admitted, collectErrors
<1> QED
  BY <1>1 DEF Safe, validateChangedVolumeTypes

(* An update of a safe object is checked where it differs from it.         *)
LEMMA AdmittedUpdate ==
    ASSUME NEW old, NEW s, Safe(old), Admitted(old, s)
    PROVE  Safe(s)
<1>1. ExternalAccessRules(s.external)
  BY DEF Admitted, Safe
<1>2. validateChangedVolumeTypes(old, s)
  BY DEF Admitted, collectErrors
<1>3. \A v \in DOMAIN s.volumes : isAllowedVolumeType(s.volumes[v])
  BY <1>2 DEF Safe, validateChangedVolumeTypes
<1> QED
  BY <1>1, <1>3 DEF Safe

(* However it is edited, an object without a volume of a disallowed type   *)
(* and without plain-HTTP exposure never gets one, and a new one never has *)
(* one: the webhook's checks of what changed lose nothing.                 *)
THEOREM SafeForGood == Spec => SafeStaysSafe
<1> DEFINE A == cr' # None /\ (cr = None \/ Safe(cr)) => Safe(cr')
<1>1. ASSUME Next, cr' # None, cr = None \/ Safe(cr)
      PROVE  Safe(cr') \/ UNCHANGED cr
  <2>1. CASE ValidateCreate
    BY <2>1, AdmittedNew DEF ValidateCreate
  <2>2. CASE ValidateUpdate
    <3>1. cr # None /\ Safe(cr) /\ \E s \in Submitted : Admitted(cr, s) /\ cr' = s
      BY <1>1, <2>2 DEF ValidateUpdate
    <3> QED
      BY <3>1, AdmittedUpdate
  <2>3. CASE ValidateDelete
    BY <1>1, <2>3 DEF ValidateDelete
  <2>4. CASE EditBase \/ Reconcile
    BY <2>4 DEF EditBase, Reconcile
  <2> QED
    BY <1>1, <2>1, <2>2, <2>3, <2>4 DEF Next
<1>2. [Next]_vars => [A]_vars
  BY <1>1 DEF Safe
<1> QED
  BY <1>2, PTL DEF Spec, SafeStaysSafe

----------------------------------------------------------------------------
(* Admission.                                                              *)

(* Whatever it replaces, an object that is admitted obeys the schema, and  *)
(* its models and provider IDs were checked.                               *)
LEMMA AdmittedIsBefore ==
    ASSUME NEW old, NEW s, Admitted(old, s)
    PROVE  AdmittedBefore(s)
BY DEF Admitted, collectErrors, AdmittedBefore

(* An update that leaves external access and volumes alone is admitted if  *)
(* the rest of it is.                                                      *)
LEMMA RestAdmitted ==
    ASSUME NEW old, NEW s, IsSpec(s), old # None,
           s.external = old.external, s.volumes = old.volumes,
           Admitted(None, [s EXCEPT !.external = None, !.volumes = <<>>])
    PROVE  Admitted(old, s)
<1> DEFINE t == [s EXCEPT !.external = None, !.volumes = <<>>]
<1>1. /\ t.distribution = s.distribution /\ t.override = s.override
      /\ t.baseConfig = s.baseConfig /\ t.providers = s.providers /\ t.models = s.models
      /\ t.storage = s.storage /\ t.disabled = s.disabled /\ t.adopt = s.adopt
  BY DEF IsSpec
<1> HIDE DEF t
<1>2. SpecRules(t) /\ collectErrors(None, t)
  BY DEF Admitted, t
<1>3. SpecRules(s)
  BY <1>1, <1>2 DEF SpecRules
<1>4. validateDistributionName(s) /\ validateProviderIDs(s) /\ validateProviderReferences(s)
  BY <1>1, <1>2 DEF collectErrors, validateDistributionName, validateProviderIDs,
                    validateProviderReferences
<1>5. validateAdoptionAnnotations(s)
  BY <1>1, <1>2 DEF collectErrors, validateAdoptionAnnotations
<1>6. validateChangedVolumeTypes(old, s)
  BY DEF validateChangedVolumeTypes
<1> QED
  BY <1>3, <1>4, <1>5, <1>6 DEF Admitted, collectErrors

----------------------------------------------------------------------------
(* The inductive invariant.                                                *)

Stored == cr # None => cr \in Submitted /\ AdmittedBefore(cr)

WellDeployed ==
    dep # None =>
        /\ dep.spec \in Submitted /\ AdmittedBefore(dep.spec)
        /\ dep.base \in Bases(subject)
        /\ dep = Deployed(dep.spec, dep.base)

IndInv ==
    /\ subject \in Specs \cup {None} /\ base \in Bases(subject)
    /\ Stored /\ WellDeployed

(* What may be submitted has the form of an OGXServer.                     *)
LEMMA SubmittedIsSpec ==
    ASSUME subject \in Specs \cup {None}, NEW s \in Submitted
    PROVE  IsSpec(s)
BY SpecsAssumption DEF Submitted

(* A deployment records the spec and the base config it was made from.     *)
LEMMA DeployedFields ==
    ASSUME NEW s, NEW b
    PROVE  Deployed(s, b).spec = s /\ Deployed(s, b).base = b
BY DEF Deployed

(* An object of an older release passed the checks that release had.       *)
LEMMA InitOK == Init => IndInv
BY DEF Init, IndInv, Stored, WellDeployed

(* Admission stores what was admitted, and a pass deploys what is stored.  *)
LEMMA NextOK == IndInv /\ [Next]_vars => IndInv'
<1> SUFFICES ASSUME IndInv, [Next]_vars PROVE IndInv'
  OBVIOUS
<1> USE DEF IndInv
<1>1. CASE ValidateCreate \/ ValidateUpdate
  <2>1. UNCHANGED <<subject, base, dep>> /\ cr' \in Submitted /\ AdmittedBefore(cr')
    BY <1>1, AdmittedIsBefore DEF ValidateCreate, ValidateUpdate
  <2> QED
    BY <2>1 DEF Stored, WellDeployed, Submitted
<1>2. CASE ValidateDelete
  BY <1>2 DEF ValidateDelete, Stored, WellDeployed, Submitted
<1>3. CASE EditBase
  BY <1>3 DEF EditBase, Stored, WellDeployed, Submitted
<1>4. CASE Reconcile
  <2>1. cr # None /\ dep' = Deployed(cr, base) /\ UNCHANGED <<subject, cr, base>>
    BY <1>4 DEF Reconcile
  <2>2. dep'.spec = cr /\ dep'.base = base
    BY <2>1, DeployedFields
  <2> QED
    BY <2>1, <2>2 DEF Stored, WellDeployed, Submitted
<1>5. CASE UNCHANGED vars
  BY <1>5 DEF vars, Stored, WellDeployed, Submitted
<1> QED
  BY <1>1, <1>2, <1>3, <1>4, <1>5 DEF Next

(* In every reachable state what is stored and deployed came about this    *)
(* way.                                                                    *)
LEMMA Invariance == Spec => []IndInv
BY InitOK, NextOK, PTL DEF Spec

(* An object stored before the checks of external access and of volumes    *)
(* existed stays editable, however it came to be what it is: an update     *)
(* that leaves the two alone and is fine otherwise is admitted, by the     *)
(* rules of the schema (which are not evaluated again) and by the webhook  *)
(* (which compares with the old object).                                   *)
THEOREM Grandfathered == Spec => []GrandfatheredStaysEditable
<1>1. IndInv => GrandfatheredStaysEditable
  BY SubmittedIsSpec, RestAdmitted DEF IndInv, GrandfatheredStaysEditable
<1> QED
  BY <1>1, Invariance, PTL

----------------------------------------------------------------------------
(* The two ways to a config.                                               *)

Merged(s, b) == MergeProviders(b.providers, ExpandProviders(s.providers))

FromSpec(s, b) ==
    /\ HasDeclarativeConfig(s)
    /\ ~NoModelProvider(s.models, Merged(s, b))
    /\ Deployed(s, b).config =
         buildFinalConfig(b, Merged(s, b), ExpandResources(s.models, Merged(s, b)),
                          MergeStorage(b.storage, s.storage),
                          MergeAPIs(b.apis, effectiveDisabledAPIs(s)), s.praxis)

FromDefault(s, b) ==
    /\ ~HasDeclarativeConfig(s) /\ s.praxis
    /\ Deployed(s, b).config =
         [apis |-> filterAPIList(b.apis, effectiveDisabledAPIs(s)).apis,
          providers |-> b.providers, models |-> b.models,
          storage |-> applyPraxisVectorStoreMetadata(b.storage, b.providers),
          auth |-> applyPraxisAuth,
          filtered |-> filterAPIList(b.apis, effectiveDisabledAPIs(s)).filtered]

(* A config is generated from the spec, or is the image's default taken    *)
(* over for Praxis; in both cases the names of the variables were checked. *)
LEMMA ConfigFrom ==
    ASSUME NEW s, NEW b, Deployed(s, b).config # None
    PROVE  /\ b # None /\ ValidateSecretRefEnvVarNames(s)
           /\ Deployed(s, b).env = CollectSecretRefs(s)
           /\ FromSpec(s, b) \/ FromDefault(s, b)
<1>1. shouldGenerateConfig(s)
  BY DEF Deployed
<1>2. /\ Deployed(s, b).config = reconcileGeneratedConfig(s, b)
      /\ Deployed(s, b).env = CollectSecretRefs(s)
  BY <1>1 DEF Deployed
<1>3. b # None /\ ValidateSecretRefEnvVarNames(s)
  BY <1>2 DEF reconcileGeneratedConfig
<1>4. CASE HasDeclarativeConfig(s)
  <2>1. Deployed(s, b).config = GenerateConfig(s, b)
    BY <1>2, <1>3, <1>4 DEF reconcileGeneratedConfig
  <2> QED
    BY <1>2, <1>3, <1>4, <2>1 DEF GenerateConfig, FromSpec, Merged
<1>5. CASE ~HasDeclarativeConfig(s)
  <2>1. Deployed(s, b).config = GeneratePraxisDefaultConfig(s, b)
    BY <1>2, <1>3, <1>5 DEF reconcileGeneratedConfig
  <2>2. s.praxis
    BY <1>1, <1>5 DEF shouldGenerateConfig
  <2> QED
    BY <1>2, <1>3, <1>5, <2>1, <2>2 DEF GeneratePraxisDefaultConfig, FromDefault
<1> QED
  BY <1>2, <1>3, <1>4, <1>5

(* What is deployed has a config only if both its spec and its base config *)
(* are what they should be.                                                *)
LEMMA DeployedConfig ==
    ASSUME IndInv, HasConfig
    PROVE  /\ dep = Deployed(dep.spec, dep.base)
           /\ Deployed(dep.spec, dep.base).config # None
           /\ IsSpec(dep.spec) /\ AdmittedBefore(dep.spec)
           /\ dep.base # None /\ IsBase(dep.base)
<1>1. /\ dep = Deployed(dep.spec, dep.base) /\ dep.config # None
      /\ dep.spec \in Submitted /\ dep.base \in Bases(subject)
      /\ AdmittedBefore(dep.spec)
  BY DEF IndInv, WellDeployed, HasConfig
<1>2. Deployed(dep.spec, dep.base).config # None
  BY <1>1
<1>3. dep.base # None
  BY <1>2, ConfigFrom
<1> QED
  BY <1>1, <1>2, <1>3, SubmittedIsSpec, BasesAssumption DEF IndInv

(* Taking the image's default config over for Praxis never widens what the *)
(* server serves, and APIs are reported as filtered only if they are gone. *)
THEOREM NotWidened == Spec => []DefaultConfigNotWidened
<1>1. ASSUME IndInv, HasConfig, ~HasDeclarativeConfig(dep.spec)
      PROVE  /\ ServedAPIs(dep.config) \subseteq ServedAPIs(dep.base)
             /\ dep.config.filtered => ServedAPIs(dep.config) \cap praxisServedAPIs = {}
  <2> DEFINE b == dep.base
             gone == effectiveDisabledAPIs(dep.spec)
             list == filterAPIList(b.apis, gone)
  <2>1. FromDefault(dep.spec, dep.base) /\ dep = Deployed(dep.spec, dep.base)
    BY <1>1, DeployedConfig, ConfigFrom DEF FromSpec
  <2>2. praxisServedAPIs \subseteq gone
    BY <2>1 DEF FromDefault, effectiveDisabledAPIs
  <2>3. /\ dep.config.apis = list.apis /\ dep.config.filtered = list.filtered
        /\ dep.config.providers = b.providers
    BY <2>1 DEF FromDefault
  <2>4. CASE b.apis \ gone = {}
    BY <2>3, <2>4 DEF filterAPIList, ServedAPIs
  <2>5. CASE b.apis \ gone # {}
    BY <2>2, <2>3, <2>5 DEF filterAPIList, ServedAPIs
  <2> QED
    BY <2>4, <2>5
<1>2. IndInv => DefaultConfigNotWidened
  BY <1>1 DEF DefaultConfigNotWidened
<1> QED
  BY <1>2, Invariance, PTL

----------------------------------------------------------------------------
(* Names: the first of those in use.                                       *)

(* A non-empty set of naturals has a least element.                        *)
LEMMA LeastNatural ==
    ASSUME NEW T \in SUBSET Nat, T # {}
    PROVE  \E i \in T : \A j \in T : i <= j
<1>1. \E i \in T : \A j \in T : ~(<<j, i>> \in OpToRel(<, Nat))
  BY NatLessThanWellFounded, WFMin
<1>2. \A i, j \in Nat : ~(<<j, i>> \in OpToRel(<, Nat)) => i <= j
  BY DEF OpToRel
<1> QED
  BY <1>1, <1>2

(* A name in use has a place in the order of names.                        *)
LEMMA PlaceIsNat ==
    ASSUME NEW n \in Names
    PROVE  Place(n) \in Nat
<1>1. \E i \in DOMAIN NamesInOrder : NamesInOrder[i] = n
  BY DEF Names, ToSet
<1>2. DOMAIN NamesInOrder \subseteq Nat
  BY NamesAssumption
<1> QED
  BY <1>1, <1>2 DEF Place

(* The first of some names is one of them.                                 *)
LEMMA LeastIsOne ==
    ASSUME NEW names, names \subseteq Names, names # {}
    PROVE  Least(names) \in names
<1> DEFINE places == {Place(n) : n \in names}
<1>1. places \in SUBSET Nat /\ places # {}
  BY PlaceIsNat
<1>2. PICK i \in places : \A j \in places : i <= j
  BY <1>1, LeastNatural
<1>3. \E n \in names : \A m \in names : Place(n) <= Place(m)
  BY <1>2
<1> QED
  BY <1>3 DEF Least

----------------------------------------------------------------------------
(* The providers of the merged config: those of the spec, and the base's   *)
(* for the API types the spec says nothing about.                          *)

(* Where providers are written in a spec.                                  *)
LEMMA PlacesAre ==
    ASSUME NEW ps
    PROVE  /\ \A x \in Places(ps) : /\ x[1] \in DOMAIN ps /\ x[2] \in DOMAIN ps[x[1]]
                                    /\ ps[x[1]] # <<>>
           /\ \A api \in DOMAIN ps : \A i \in DOMAIN ps[api] : <<api, i>> \in Places(ps)
BY DEF Places

(* The entry of a provider has its ID and settings, and persists, if at    *)
(* all, to the default key-value backend.                                  *)
LEMMA EntryFields ==
    ASSUME NEW api, NEW p
    PROVE  /\ expandProvider(api, p).id = DeriveID(api, p)
           /\ expandProvider(api, p).backend \in {None, KVDefault}
           /\ expandProvider(api, p).settings = expandSettings(p.kind, p.settings)
BY DEF expandProvider, expandCustomProvider, expandTypedProvider, Entry

(* ExpandProviders yields the API types the spec has providers for.        *)
LEMMA ExpandedAPIs ==
    ASSUME NEW ps, ps # None
    PROVE  DOMAIN ExpandProviders(ps) = {a \in DOMAIN ps : ps[a] # <<>>}
BY DEF ExpandProviders

(* ExpandProviders yields an entry for each provider of an API type.       *)
LEMMA ExpandedProviders ==
    ASSUME NEW ps, ps # None, NEW api \in DOMAIN ExpandProviders(ps)
    PROVE  ExpandProviders(ps)[api] = {expandProvider(api, ps[api][i]) : i \in DOMAIN ps[api]}
BY DEF ExpandProviders

(* Without spec.providers nothing is expanded.                             *)
LEMMA ExpandedNone == DOMAIN ExpandProviders(None) = {}
BY DEF ExpandProviders

(* An API type the spec has providers for has exactly those in the merged  *)
(* config.                                                                 *)
LEMMA MergedHas ==
    ASSUME NEW s, NEW b, s.providers # None, NEW x \in Places(s.providers)
    PROVE  /\ x[1] \in DOMAIN Merged(s, b)
           /\ \A e \in Merged(s, b)[x[1]] : \E i \in DOMAIN s.providers[x[1]] :
                 e = expandProvider(x[1], s.providers[x[1]][i])
           /\ expandProvider(x[1], At(s.providers, x)) \in Merged(s, b)[x[1]]
<1>1. /\ x[1] \in DOMAIN s.providers /\ x[2] \in DOMAIN s.providers[x[1]]
      /\ s.providers[x[1]] # <<>>
  BY PlacesAre
<1>2. x[1] \in DOMAIN ExpandProviders(s.providers)
  BY <1>1, ExpandedAPIs
<1>3. /\ x[1] \in DOMAIN Merged(s, b)
      /\ Merged(s, b)[x[1]] = ExpandProviders(s.providers)[x[1]]
  BY <1>2 DEF Merged, MergeProviders
<1>4. ExpandProviders(s.providers)[x[1]] =
          {expandProvider(x[1], s.providers[x[1]][i]) : i \in DOMAIN s.providers[x[1]]}
  BY <1>2, ExpandedProviders
<1>5. expandProvider(x[1], At(s.providers, x)) \in ExpandProviders(s.providers)[x[1]]
  BY <1>1, <1>4 DEF At
<1> QED
  BY <1>3, <1>4, <1>5

(* Every entry of the merged config is the base config's or one of the     *)
(* spec's.                                                                 *)
LEMMA MergedFrom ==
    ASSUME NEW s, NEW b, NEW api \in DOMAIN Merged(s, b), NEW e \in Merged(s, b)[api]
    PROVE  \/ api \in DOMAIN b.providers /\ e \in b.providers[api]
           \/ /\ s.providers # None
              /\ \E x \in Places(s.providers) :
                    x[1] = api /\ e = expandProvider(api, At(s.providers, x))
<1>1. CASE api \notin DOMAIN ExpandProviders(s.providers)
  BY <1>1 DEF Merged, MergeProviders
<1>2. CASE api \in DOMAIN ExpandProviders(s.providers)
  <2>1. s.providers # None
    BY <1>2, ExpandedNone
  <2>2. Merged(s, b)[api] = ExpandProviders(s.providers)[api]
    BY <1>2 DEF Merged, MergeProviders
  <2>3. PICK i \in DOMAIN s.providers[api] : e = expandProvider(api, s.providers[api][i])
    <3>1. ExpandProviders(s.providers)[api] =
              {expandProvider(api, s.providers[api][i]) : i \in DOMAIN s.providers[api]}
      BY <1>2, <2>1, ExpandedProviders
    <3> QED
      BY <2>2, <3>1
  <2>4. api \in DOMAIN s.providers
    BY <1>2, <2>1, ExpandedAPIs
  <2>5. <<api, i>> \in Places(s.providers)
    BY <2>4, PlacesAre
  <2>6. At(s.providers, <<api, i>>) = s.providers[api][i]
    BY DEF At
  <2> QED
    BY <2>1, <2>3, <2>5, <2>6
<1> QED
  BY <1>1, <1>2

(* The merged config has the API types of the schema and the base config's.*)
LEMMA MergedAPIs ==
    ASSUME NEW s, NEW b, IsSpec(s)
    PROVE  DOMAIN Merged(s, b) \subseteq ProviderAPIs \cup DOMAIN b.providers
<1>1. DOMAIN Merged(s, b) = DOMAIN b.providers \cup DOMAIN ExpandProviders(s.providers)
  BY DEF Merged, MergeProviders
<1>2. DOMAIN ExpandProviders(s.providers) \subseteq ProviderAPIs
  BY ExpandedNone, ExpandedAPIs DEF IsSpec
<1> QED
  BY <1>1, <1>2

(* The provider IDs of the merged config are names in use.                 *)
LEMMA MergedNames ==
    ASSUME NEW s, NEW b, IsSpec(s), IsBase(b), NEW api
    PROVE  ProviderIDs(Merged(s, b), api) \subseteq Names
<1> SUFFICES ASSUME api \in DOMAIN Merged(s, b), NEW e \in Merged(s, b)[api]
             PROVE  e.id \in Names
  BY DEF ProviderIDs
<1>1. CASE api \in DOMAIN b.providers /\ e \in b.providers[api]
  BY <1>1 DEF IsBase
<1>2. ASSUME s.providers # None, NEW x \in Places(s.providers),
             x[1] = api, e = expandProvider(api, At(s.providers, x))
      PROVE  e.id \in Names
  BY <1>2, EntryFields DEF IsSpec
<1> QED
  BY <1>1, <1>2, MergedFrom

(* The model entries: a provider that is named, or the first one.          *)
LEMMA ModelNames ==
    ASSUME NEW s, NEW b, IsSpec(s), IsBase(b), s.models # None,
           ~NoModelProvider(s.models, Merged(s, b)),
           NEW m \in ExpandResources(s.models, Merged(s, b))
    PROVE  m \in s.models \ {None} \/ m \in ProviderIDs(Merged(s, b), "inference")
<1> DEFINE ids == ProviderIDs(Merged(s, b), "inference")
<1>1. PICK n \in s.models : m = IF n = None THEN Least(ids) ELSE n
  BY DEF ExpandResources
<1>2. CASE n = None
  <2>1. ids # {} /\ ids \subseteq Names
    BY <1>2, MergedNames DEF NoModelProvider
  <2> QED
    BY <1>1, <1>2, <2>1, LeastIsOne
<1> QED
  BY <1>1, <1>2

(* A model that a spec with providers registers has a provider in the      *)
(* generated config.                                                       *)
THEOREM ModelsServed == Spec => []ModelsHaveProviders
<1>1. ASSUME IndInv, HasConfig, dep.spec.models # None, dep.spec.providers # None,
             NEW m \in dep.config.models, dep.spec.models # {}
      PROVE  \E api \in DOMAIN dep.config.providers :
                 m \in ProviderIDs(dep.config.providers, api)
  <2> DEFINE s == dep.spec
             b == dep.base
             ps == Merged(s, b)
  <2>1. FromSpec(s, b) /\ dep = Deployed(s, b)
    BY <1>1, DeployedConfig, ConfigFrom DEF FromDefault, HasDeclarativeConfig
  <2>2. IsSpec(s) /\ AdmittedBefore(s) /\ IsBase(b)
    BY <1>1, DeployedConfig
  <2>3. dep.config.providers = ps
    BY <2>1 DEF FromSpec, buildFinalConfig
  <2>4. ExpandResources(s.models, ps) # {}
    BY <1>1 DEF ExpandResources
  <2>5. dep.config.models = ExpandResources(s.models, ps)
    BY <2>1, <2>4 DEF FromSpec, buildFinalConfig
  <2>6. m \in s.models \ {None} \/ m \in ProviderIDs(ps, "inference")
    BY <1>1, <2>1, <2>2, <2>5, ModelNames DEF FromSpec
  <2>7. CASE m \in ProviderIDs(ps, "inference")
    BY <2>3, <2>7 DEF ProviderIDs
  <2>8. CASE m \in s.models \ {None}
    <3>1. m \in IDs(s.providers)
      BY <1>1, <2>2, <2>8 DEF AdmittedBefore, validateProviderReferences
    <3>2. PICK x \in Places(s.providers) : m = DeriveID(x[1], At(s.providers, x))
      BY <3>1 DEF IDs, ListedPlaces
    <3>3. /\ x[1] \in DOMAIN ps
          /\ expandProvider(x[1], At(s.providers, x)) \in ps[x[1]]
      BY <1>1, MergedHas
    <3>4. m \in ProviderIDs(ps, x[1])
      BY <3>2, <3>3, EntryFields DEF ProviderIDs
    <3> QED
      BY <2>3, <3>3, <3>4
  <2> QED
    BY <2>6, <2>7, <2>8
<1>2. IndInv => ModelsHaveProviders
  BY <1>1 DEF ModelsHaveProviders
<1> QED
  BY <1>2, Invariance, PTL

----------------------------------------------------------------------------
(* Storage: whatever the base config's is like, what MergeStorage and the  *)
(* Praxis mode add to it names backends that are there.                    *)

(* Storage made from spec.storage has both default backends, and each of   *)
(* its stores is on one of them.                                           *)
LEMMA AppliedStorage ==
    ASSUME NEW st
    PROVE  /\ IsBaseStorage(ApplyStorage(st))
           /\ DOMAIN ApplyStorage(st).backends = {KVDefault, SQLDefault}
           /\ \A n \in DOMAIN ApplyStorage(st).stores :
                 ApplyStorage(st).stores[n] \in {KVDefault, SQLDefault}
           /\ "vector_stores" \notin DOMAIN ApplyStorage(st).stores
<1> DEFINE new == ApplyStorage(st)
<1>1. new = [backends |-> new.backends, stores |-> new.stores, object |-> new.object,
             refs |-> new.refs]
  BY DEF ApplyStorage
<1>2. DOMAIN new.backends = {KVDefault, SQLDefault}
  BY DEF ApplyStorage
<1>3. new.stores = defaultStores
  BY DEF ApplyStorage
<1>4. /\ "vector_stores" \notin DOMAIN defaultStores
      /\ \A n \in DOMAIN defaultStores : defaultStores[n] \in {KVDefault, SQLDefault}
  BY DEF defaultStores
<1> HIDE DEF new
<1> QED
  BY <1>1, <1>2, <1>3, <1>4, DefaultsAssumption DEF IsBaseStorage, new

(* sqlBackendName finds a SQL backend where there is one.                  *)
LEMMA SQLBackend ==
    ASSUME NEW st, IsBaseStorage(st), \E n \in DOMAIN st.backends : isSQLBackend(st.backends[n])
    PROVE  /\ sqlBackendName(st) \in DOMAIN st.backends
           /\ isSQLBackend(st.backends[sqlBackendName(st)])
           /\ sqlBackendName(st) # None
<1> DEFINE cs == {n \in DOMAIN st.backends : isSQLBackend(st.backends[n])}
<1>1. cs \subseteq Names /\ cs # {}
  BY DEF IsBaseStorage
<1>2. Least(cs) \in cs
  BY <1>1, LeastIsOne
<1>3. sqlBackendName(st) \in cs
  BY <1>1, <1>2 DEF sqlBackendName
<1> QED
  BY <1>1, <1>3, DefaultsAssumption

CouldHold(st) == \E n \in DOMAIN st.backends : isSQLBackend(st.backends[n])

(* applyPraxisVectorStoreMetadata leaves the backends and the stores that  *)
(* are declared alone, and adds at most the one for vector stores, on a SQL*)
(* backend, and wherever there is one that could hold it.                  *)
LEMMA PraxisStorage ==
    ASSUME NEW st, NEW ps, st # None, IsBaseStorage(st)
    PROVE  LET new == applyPraxisVectorStoreMetadata(st, ps)
           IN  /\ new.backends = st.backends /\ new.object = st.object
               /\ DOMAIN st.stores \subseteq DOMAIN new.stores
               /\ \A n \in DOMAIN st.stores : new.stores[n] = st.stores[n]
               /\ \A n \in DOMAIN new.stores \ DOMAIN st.stores :
                     /\ n = "vector_stores" /\ new.stores[n] \in DOMAIN st.backends
                     /\ isSQLBackend(st.backends[new.stores[n]])
               /\ ProviderIDs(ps, "vector_io") # {} /\ st.object /\ CouldHold(st)
                     => "vector_stores" \in DOMAIN new.stores
<1> DEFINE new == applyPraxisVectorStoreMetadata(st, ps)
           name == sqlBackendName(st)
           stores == [n \in DOMAIN st.stores \cup {"vector_stores"} |->
                         IF n = "vector_stores" THEN name ELSE st.stores[n]]
<1>1. CASE \/ ProviderIDs(ps, "vector_io") = {} \/ name = None
           \/ ~st.object \/ "vector_stores" \in DOMAIN st.stores
  <2>1. new = st
    BY <1>1 DEF applyPraxisVectorStoreMetadata
  <2>2. ProviderIDs(ps, "vector_io") # {} /\ st.object /\ CouldHold(st)
            => "vector_stores" \in DOMAIN st.stores
    BY <1>1, SQLBackend DEF CouldHold
  <2> QED
    BY <2>1, <2>2
<1>2. CASE /\ ProviderIDs(ps, "vector_io") # {} /\ name # None
           /\ st.object /\ "vector_stores" \notin DOMAIN st.stores
  <2>1. new = [st EXCEPT !.stores = stores]
    BY <1>2 DEF applyPraxisVectorStoreMetadata
  <2>2. new.backends = st.backends /\ new.object = st.object /\ new.stores = stores
    BY <2>1 DEF IsBaseStorage
  <2>3. \E n \in DOMAIN st.backends : isSQLBackend(st.backends[n])
    BY <1>2, DefaultsAssumption DEF sqlBackendName
  <2>4. name \in DOMAIN st.backends /\ isSQLBackend(st.backends[name])
    BY <2>3, SQLBackend
  <2>5. /\ DOMAIN stores = DOMAIN st.stores \cup {"vector_stores"}
        /\ stores["vector_stores"] = name
        /\ \A n \in DOMAIN st.stores : stores[n] = st.stores[n]
    BY <1>2
  <2> HIDE DEF new, name, stores
  <2> QED
    BY <1>2, <2>2, <2>4, <2>5 DEF new
<1> QED
  BY <1>1, <1>2

(* The providers of the spec persist to the default key-value backend.     *)
LEMMA SpecBackend ==
    ASSUME NEW s, NEW b, NEW api \in DOMAIN ExpandProviders(s.providers),
           NEW e \in Merged(s, b)[api]
    PROVE  e.backend \in {None, KVDefault}
<1>1. s.providers # None
  BY ExpandedNone
<1>2. Merged(s, b)[api] = {expandProvider(api, s.providers[api][i]) : i \in DOMAIN s.providers[api]}
  BY <1>1, ExpandedProviders DEF Merged, MergeProviders
<1> QED
  BY <1>2, EntryFields

(* Storage: every store that the base config did not declare is on a       *)
(* backend that is there, and the base config's stay as declared.  A       *)
(* provider's backend is missing only if it is none of those the base      *)
(* config or, in their place, spec.storage provides, and for a provider of *)
(* the spec only if this is kv_default.  In Praxis mode the vector stores  *)
(* have a metadata store wherever a SQL backend could hold it.  This holds *)
(* for every base config, whether or not its storage fits together.        *)
THEOREM StorageTogether == Spec => []StorageHoldsTogether
<1>1. ASSUME IndInv, HasConfig, dep.config.storage # None
      PROVE  LET st == dep.config.storage
                 providers == dep.config.providers
             IN  /\ \A n \in DOMAIN st.stores :
                       IF Kept(n) THEN st.stores[n] = dep.base.storage.stores[n]
                       ELSE st.stores[n] \in DOMAIN st.backends
                 /\ \A api \in DOMAIN providers : \A e \in providers[api] :
                       \/ e.backend \in DOMAIN st.backends \cup {None}
                       \/ /\ e.backend \notin Promised
                          /\ api \in DOMAIN ExpandProviders(dep.spec.providers)
                                => e.backend = KVDefault
                 /\ (/\ dep.spec.praxis /\ ProviderIDs(providers, "vector_io") # {}
                     /\ st.object /\ CouldHold(st))
                    => /\ "vector_stores" \in DOMAIN st.stores
                       /\ Kept("vector_stores") \/ isSQLBackend(st.backends[st.stores.vector_stores])
  <2> DEFINE s == dep.spec
             b == dep.base
             st == dep.config.storage
             providers == dep.config.providers
             raw == MergeStorage(b.storage, s.storage)
  <2>1. /\ dep = Deployed(s, b) /\ IsBase(b)
        /\ FromSpec(s, b) \/ FromDefault(s, b)
    BY <1>1, DeployedConfig, ConfigFrom
  <2>2. st = IF s.praxis THEN applyPraxisVectorStoreMetadata(raw, providers) ELSE raw
    <3>1. CASE FromSpec(s, b)
      BY <2>1, <3>1 DEF FromSpec, buildFinalConfig
    <3>2. CASE FromDefault(s, b)
      BY <2>1, <3>2 DEF FromDefault, HasDeclarativeConfig, MergeStorage
    <3> QED
      BY <2>1, <3>1, <3>2
  <2>3. ASSUME NEW api \in DOMAIN providers, NEW e \in providers[api],
               api \in DOMAIN ExpandProviders(s.providers)
        PROVE  e.backend \in {None, KVDefault}
    <3>1. CASE FromSpec(s, b)
      <4>1. providers = Merged(s, b)
        BY <2>1, <3>1 DEF FromSpec, buildFinalConfig
      <4> QED
        BY <2>3, <4>1, SpecBackend
    <3>2. CASE FromDefault(s, b)
      BY <2>3, <3>2, ExpandedNone DEF FromDefault, HasDeclarativeConfig
    <3> QED
      BY <2>1, <3>1, <3>2
  <2>4. raw # None
    BY <1>1, <2>2 DEF applyPraxisVectorStoreMetadata
  <2>5. IsBaseStorage(raw)
    BY <2>1, <2>4, AppliedStorage DEF MergeStorage, IsBase
  <2>6. DOMAIN raw.backends = Promised
    BY AppliedStorage DEF MergeStorage, Promised
  <2>7. \A n \in DOMAIN raw.stores :
            IF Kept(n) THEN raw.stores[n] = b.storage.stores[n]
            ELSE raw.stores[n] \in DOMAIN raw.backends
    BY AppliedStorage DEF MergeStorage, Kept
  <2>8. \A n : Kept(n) => n \in DOMAIN raw.stores
    BY DEF MergeStorage, Kept
  <2>9. "vector_stores" \in DOMAIN raw.stores => Kept("vector_stores")
    BY AppliedStorage DEF MergeStorage, Kept
  <2> HIDE DEF raw, st, providers
  <2>10. CASE s.praxis
    <3>1. st = applyPraxisVectorStoreMetadata(raw, providers)
      BY <2>2, <2>10
    <3>2. /\ st.backends = raw.backends /\ st.object = raw.object
          /\ \A n \in DOMAIN raw.stores : st.stores[n] = raw.stores[n]
          /\ \A n \in DOMAIN st.stores \ DOMAIN raw.stores :
                /\ n = "vector_stores" /\ st.stores[n] \in DOMAIN raw.backends
                /\ isSQLBackend(raw.backends[st.stores[n]])
          /\ ProviderIDs(providers, "vector_io") # {} /\ raw.object /\ CouldHold(raw)
                => "vector_stores" \in DOMAIN st.stores
      BY <2>4, <2>5, <3>1, PraxisStorage
    <3>3. CouldHold(st) => CouldHold(raw)
      BY <3>2 DEF CouldHold
    <3>4. \A n \in DOMAIN st.stores :
              IF Kept(n) THEN st.stores[n] = b.storage.stores[n]
              ELSE st.stores[n] \in DOMAIN st.backends
      BY <2>7, <2>8, <3>2
    <3>5. ProviderIDs(providers, "vector_io") # {} /\ st.object /\ CouldHold(st)
              => /\ "vector_stores" \in DOMAIN st.stores
                 /\ Kept("vector_stores") \/ isSQLBackend(st.backends[st.stores.vector_stores])
      BY <2>9, <3>2, <3>3
    <3> QED
      BY <2>3, <2>6, <3>2, <3>4, <3>5 DEF st, providers
  <2>11. CASE ~s.praxis
    <3>1. st = raw
      BY <2>2, <2>11
    <3> QED
      BY <2>3, <2>6, <2>7, <2>11, <3>1 DEF st, providers
  <2> QED
    BY <2>10, <2>11
<1>2. IndInv => StorageHoldsTogether
  BY <1>1 DEF StorageHoldsTogether, CouldHold
<1> QED
  BY <1>2, Invariance, PTL

(* What is stored and deployed is of the right form, whatever the specs    *)
(* and base configs are.                                                   *)
THEOREM TypeCorrect == Spec => []TypeOK
<1>1. ASSUME IndInv, HasConfig
      PROVE  /\ dep.config.apis \subseteq dep.base.apis
             /\ DOMAIN dep.config.providers \subseteq ProviderAPIs \cup DOMAIN dep.base.providers
             /\ dep.config.models \subseteq Names
             /\ dep.config.filtered \in BOOLEAN
  <2> DEFINE s == dep.spec
             b == dep.base
  <2>1. /\ dep = Deployed(s, b) /\ IsSpec(s) /\ IsBase(b)
        /\ FromSpec(s, b) \/ FromDefault(s, b)
    BY <1>1, DeployedConfig, ConfigFrom
  <2>2. CASE FromSpec(s, b)
    <3> DEFINE models == ExpandResources(s.models, Merged(s, b))
    <3>1. /\ dep.config.apis \subseteq b.apis
          /\ dep.config.providers = Merged(s, b)
          /\ dep.config.models = IF models # {} THEN models ELSE b.models
          /\ dep.config.filtered = (s.praxis /\ b.apis # {})
      BY <2>1, <2>2 DEF FromSpec, buildFinalConfig, MergeAPIs
    <3>2. ASSUME NEW m \in models PROVE m \in Names
      <4>1. s.models # None
        BY <3>2 DEF ExpandResources
      <4> QED
        BY <2>1, <2>2, <3>2, <4>1, ModelNames, MergedNames DEF FromSpec, IsSpec
    <3>3. b.models \subseteq Names
      BY <2>1 DEF IsBase
    <3>4. DOMAIN dep.config.providers \subseteq ProviderAPIs \cup DOMAIN b.providers
      BY <2>1, <3>1, MergedAPIs
    <3>5. dep.config.filtered \in BOOLEAN
      BY <3>1
    <3> QED
      BY <3>1, <3>2, <3>3, <3>4, <3>5
  <2>3. CASE FromDefault(s, b)
    <3> DEFINE list == filterAPIList(b.apis, effectiveDisabledAPIs(s))
    <3>1. /\ dep.config.apis = list.apis /\ dep.config.filtered = list.filtered
          /\ dep.config.providers = b.providers /\ dep.config.models = b.models
      BY <2>1, <2>3 DEF FromDefault
    <3>2. list.apis \subseteq b.apis /\ list.filtered \in BOOLEAN
      BY DEF filterAPIList
    <3> QED
      BY <2>1, <3>1, <3>2 DEF IsBase
  <2> QED
    BY <2>1, <2>2, <2>3
<1>2. IndInv => TypeOK
  BY <1>1 DEF IndInv, Stored, WellDeployed, TypeOK, HasConfig
<1> QED
  BY <1>2, Invariance, PTL

----------------------------------------------------------------------------
(* The tables.  For a kind of provider the fields that may name a Secret   *)
(* (the API types), those that become references in the config             *)
(* (buildProviderExpanders) and those that are put into the environment    *)
(* (collectProviderSecrets) are the same, and its IDs are checked to be    *)
(* unique (IDs()).                                                         *)

Fields(type) == type.required \cup type.optional

InSync(types, listed, expanded, collected) ==
    \A kind \in DOMAIN types :
        /\ kind # "custom" /\ kind \in listed
        /\ kind \in DOMAIN expanded /\ expanded[kind] = Fields(types[kind])
        /\ (IF kind \in DOMAIN collected THEN collected[kind] ELSE {}) = Fields(types[kind])

(* A provider kind's fields that may name a Secret, when all are required  *)
(* or all optional.                                                        *)
LEMMA TypeFields ==
    ASSUME NEW id, NEW fields
    PROVE  Fields(Type(id, fields, {})) = fields /\ Fields(Type(id, {}, fields)) = fields
BY DEF Fields, Type

(* The same for a kind that may be there once.                             *)
LEMMA SingleFields ==
    ASSUME NEW id, NEW optional
    PROVE  Fields(Single(id, optional)) = optional
BY DEF Fields, Type, Single

(* The tables of inference agree.                                          *)
LEMMA InferenceInSync ==
    InSync(InferenceTypes, InferenceIDs, expandInferenceProviders, collectRemoteInferenceSecrets)
<1> DEFINE kinds == {"vllm", "openai", "azure", "bedrock", "vertexai", "watsonx"}
<1>1. /\ DOMAIN InferenceTypes = kinds /\ DOMAIN expandInferenceProviders = kinds
      /\ DOMAIN collectRemoteInferenceSecrets = kinds \ {"vertexai"}
  BY DEF InferenceTypes, expandInferenceProviders, collectRemoteInferenceSecrets
<1>2. \A kind \in kinds : expandInferenceProviders[kind] = Fields(InferenceTypes[kind])
  BY TypeFields DEF InferenceTypes, expandInferenceProviders
<1>3. \A kind \in kinds \ {"vertexai"} :
          collectRemoteInferenceSecrets[kind] = expandInferenceProviders[kind]
  <2>1. \A kind \in {"vllm", "openai", "azure", "bedrock", "watsonx"} :
            collectRemoteInferenceSecrets[kind] = expandInferenceProviders[kind]
    BY DEF collectRemoteInferenceSecrets, expandInferenceProviders
  <2> QED
    BY <2>1
<1>4. expandInferenceProviders["vertexai"] = {}
  BY DEF expandInferenceProviders
<1>5. "custom" \notin kinds /\ kinds \subseteq InferenceIDs
  BY DEF InferenceIDs
<1> HIDE DEF kinds
<1>6. ASSUME NEW kind \in kinds
      PROVE  (IF kind \in kinds \ {"vertexai"} THEN collectRemoteInferenceSecrets[kind] ELSE {})
                = Fields(InferenceTypes[kind])
  BY <1>2, <1>3, <1>4
<1> QED
  BY <1>1, <1>2, <1>5, <1>6 DEF InSync

(* The tables of vector_io agree.                                          *)
LEMMA VectorIOInSync ==
    InSync(VectorIOTypes, VectorIOIDs, expandVectorIOProviders, collectVectorIOSecrets)
BY TypeFields DEF InSync, VectorIOTypes, VectorIOIDs, expandVectorIOProviders,
                  collectVectorIOSecrets

(* The tables of tool_runtime agree.                                       *)
LEMMA ToolRuntimeInSync ==
    InSync(ToolRuntimeTypes, ToolRuntimeIDs, expandToolRuntimeProviders, collectToolRuntimeSecrets)
BY TypeFields DEF InSync, ToolRuntimeTypes, ToolRuntimeIDs, expandToolRuntimeProviders,
                  collectToolRuntimeSecrets

(* The tables of files agree.                                              *)
LEMMA FilesInSync == InSync(FilesTypes, FilesIDs, expandFilesProviders, collectFilesSecrets)
BY SingleFields DEF InSync, FilesTypes, FilesIDs, expandFilesProviders, collectFilesSecrets

(* Batches and responses have no kinds with Secrets of their own.          *)
LEMMA NoneCollected == DOMAIN collectCustomSecretsFromSlices = {}
BY DEF collectCustomSecretsFromSlices

(* The tables of batches agree.                                            *)
LEMMA BatchesInSync ==
    InSync(BatchesTypes, BatchesIDs, expandBatchesProviders, collectCustomSecretsFromSlices)
<1>1. DOMAIN BatchesTypes = {"reference"} /\ DOMAIN expandBatchesProviders = {"reference"}
  BY DEF BatchesTypes, expandBatchesProviders
<1>2. Fields(BatchesTypes["reference"]) = {} /\ expandBatchesProviders["reference"] = {}
  BY SingleFields DEF BatchesTypes, expandBatchesProviders
<1> QED
  BY <1>1, <1>2, NoneCollected DEF InSync, BatchesIDs

(* The tables of responses agree.                                          *)
LEMMA ResponsesInSync ==
    InSync(ResponsesTypes, ResponsesIDs, expandResponsesProviders, collectCustomSecretsFromSlices)
<1>1. DOMAIN ResponsesTypes = {"builtin"} /\ DOMAIN expandResponsesProviders = {"builtin"}
  BY DEF ResponsesTypes, expandResponsesProviders
<1>2. Fields(ResponsesTypes["builtin"]) = {} /\ expandResponsesProviders["builtin"] = {}
  BY SingleFields DEF ResponsesTypes, expandResponsesProviders
<1> QED
  BY <1>1, <1>2, NoneCollected DEF InSync, ResponsesIDs

(* The tables of file_processors agree.                                    *)
LEMMA FileProcessorsInSync ==
    InSync(FileProcessorsTypes, FileProcessorsIDs, expandFileProcessorsProviders,
           collectFileProcessorsSecrets)
BY SingleFields DEF InSync, FileProcessorsTypes, FileProcessorsIDs, expandFileProcessorsProviders,
                  collectFileProcessorsSecrets

(* The tables of every API type agree.                                     *)
LEMMA TablesInSync ==
    ASSUME NEW api \in ProviderAPIs
    PROVE  InSync(Types[api], Listed[api], Expanded[api], Collected[api])
BY InferenceInSync, VectorIOInSync, ToolRuntimeInSync, FilesInSync, BatchesInSync,
   ResponsesInSync, FileProcessorsInSync
   DEF ProviderAPIs, Types, Listed, Expanded, Collected

(* IDs() lists the custom providers of every API type.                     *)
LEMMA CustomListed ==
    ASSUME NEW api \in ProviderAPIs
    PROVE  "custom" \in Listed[api]
BY DEF ProviderAPIs, Types, Listed, InferenceIDs, VectorIOIDs, ToolRuntimeIDs, FilesIDs,
       BatchesIDs, ResponsesIDs, FileProcessorsIDs

----------------------------------------------------------------------------
(* One provider of an admitted spec.                                       *)

(* Each provider of an admitted spec obeys the rules of its API type.      *)
LEMMA ProviderAdmitted ==
    ASSUME NEW s, IsSpec(s), AdmittedBefore(s), s.providers # None, NEW x \in Places(s.providers)
    PROVE  x[1] \in ProviderAPIs /\ ProviderRules(x[1], At(s.providers, x))
BY PlacesAre DEF IsSpec, AdmittedBefore, SpecRules

(* IDs() lists every provider of an admitted spec.                         *)
LEMMA AllListed ==
    ASSUME NEW s, IsSpec(s), AdmittedBefore(s), s.providers # None, NEW x \in Places(s.providers)
    PROVE  x \in ListedPlaces(s.providers)
<1> DEFINE p == At(s.providers, x)
<1>1. x[1] \in ProviderAPIs /\ (p.kind # "custom" => p.kind \in DOMAIN Types[x[1]])
  BY ProviderAdmitted DEF ProviderRules
<1>2. p.kind \in Listed[x[1]]
  BY <1>1, CustomListed, TablesInSync DEF InSync
<1> QED
  BY <1>2 DEF ListedPlaces

(* Provider IDs are unique, so that an entry is found by its ID.           *)
LEMMA OneEntry ==
    ASSUME NEW s, NEW b, IsSpec(s), AdmittedBefore(s), s.providers # None,
           NEW x \in Places(s.providers), NEW other \in Merged(s, b)[x[1]],
           other.id = DeriveID(x[1], At(s.providers, x))
    PROVE  other = expandProvider(x[1], At(s.providers, x))
<1>1. PICK i \in DOMAIN s.providers[x[1]] : other = expandProvider(x[1], s.providers[x[1]][i])
  BY MergedHas
<1> DEFINE y == <<x[1], i>>
<1>2. y \in Places(s.providers) /\ y[1] = x[1]
  BY PlacesAre
<1>3. At(s.providers, y) = s.providers[x[1]][i]
  BY DEF At
<1> HIDE DEF y
<1>4. DeriveID(y[1], At(s.providers, y)) = DeriveID(x[1], At(s.providers, x))
  BY <1>1, <1>2, <1>3, EntryFields
<1>5. x \in ListedPlaces(s.providers) /\ y \in ListedPlaces(s.providers)
  BY <1>2, AllListed
<1>6. validateProviderIDs(s)
  BY DEF AdmittedBefore
<1>7. y = x
  BY <1>4, <1>5, <1>6 DEF validateProviderIDs
<1> QED
  BY <1>1, <1>3, <1>7

(* No setting with something in it is left out.                            *)
LEMMA SettingsKept ==
    ASSUME NEW api, NEW p, ProviderRules(api, p), NEW g \in DOMAIN p.settings, p.settings[g] # {}
    PROVE  /\ g \in DOMAIN expandSettings(p.kind, p.settings)
           /\ expandSettings(p.kind, p.settings)[g] = p.settings[g]
<1>1. g \in AllowedGroups(api, p.kind)
  BY DEF ProviderRules
<1> QED
  BY <1>1 DEF AllowedGroups, expandSettings, applyNetworkConfig, expandPgvectorVectorIndex,
              expandVectorStoresConfig, expandCompactionConfig

(* A field that names a Secret is a reference to a variable that is bound  *)
(* to this Secret.                                                         *)
LEMMA SecretsReferred ==
    ASSUME NEW api \in ProviderAPIs, NEW p, ProviderRules(api, p), NEW f \in DOMAIN p.secrets
    PROVE  LET refs == expandProvider(api, p).refs
           IN  /\ f \in DOMAIN refs
               /\ [name |-> refs[f], secret |-> p.secrets[f]] \in collectProviderSecrets(api, p)
<1>1. CASE p.kind = "custom"
  <2> DEFINE refs == [key \in DOMAIN p.secrets |->
                         envVarRef(DeriveID(api, p), normalizeEnvVarField(key))]
  <2>1. expandProvider(api, p).refs = refs
    BY <1>1 DEF expandProvider, expandCustomProvider, Entry
  <2>2. secretToEnvVar(DeriveID(api, p), normalizeEnvVarField(f), p.secrets[f])
            \in collectProviderSecrets(api, p)
    BY <1>1 DEF collectProviderSecrets, collectCustomProviderSecrets
  <2>3. secretToEnvVar(DeriveID(api, p), normalizeEnvVarField(f), p.secrets[f])
            = [name |-> refs[f], secret |-> p.secrets[f]]
    BY DEF secretToEnvVar, envVarRef
  <2> QED
    BY <2>1, <2>2, <2>3
<1>2. CASE p.kind # "custom"
  <2>1. /\ p.kind \in DOMAIN Types[api]
        /\ f \in Fields(Types[api][p.kind])
    BY <1>2 DEF ProviderRules, Fields
  <2>2. /\ f \in Expanded[api][p.kind]
        /\ f \in (IF p.kind \in DOMAIN Collected[api] THEN Collected[api][p.kind] ELSE {})
    BY <2>1, TablesInSync DEF InSync
  <2> DEFINE refs == [k \in Expanded[api][p.kind] \cap DOMAIN p.secrets |->
                         envVarRef(DeriveID(api, p), k)]
  <2>3. expandProvider(api, p).refs = refs
    BY <1>2 DEF expandProvider, expandTypedProvider, Entry
  <2>4. secretToEnvVar(DeriveID(api, p), f, p.secrets[f]) \in collectProviderSecrets(api, p)
    BY <1>2, <2>2 DEF collectProviderSecrets, collectTypedSecrets
  <2>5. f \in DOMAIN refs /\ refs[f] = envVarRef(DeriveID(api, p), f)
    BY <2>2
  <2>6. secretToEnvVar(DeriveID(api, p), f, p.secrets[f])
            = [name |-> refs[f], secret |-> p.secrets[f]]
    BY <2>5 DEF secretToEnvVar, envVarRef
  <2> QED
    BY <2>3, <2>4, <2>5, <2>6
<1> QED
  BY <1>1, <1>2

(* Where no two Secrets share a name, the environment binds each name to   *)
(* the Secret it was collected with.                                       *)
LEMMA Bound ==
    ASSUME NEW s, ValidateSecretRefEnvVarNames(s), NEW c \in collectSecretRefsRaw(s)
    PROVE  c.name \in DOMAIN CollectSecretRefs(s) /\ CollectSecretRefs(s)[c.name] = c.secret
<1> DEFINE raw == collectSecretRefsRaw(s)
           chosen == CHOOSE b \in raw : b.name = c.name
<1>1. chosen \in raw /\ chosen.name = c.name
  OBVIOUS
<1>2. chosen.secret = c.secret
  BY <1>1 DEF ValidateSecretRefEnvVarNames
<1>3. c.name \in {b.name : b \in raw}
  OBVIOUS
<1>4. c.name \in DOMAIN CollectSecretRefs(s) /\ CollectSecretRefs(s)[c.name] = chosen.secret
  BY <1>3 DEF CollectSecretRefs
<1> QED
  BY <1>2, <1>4

(* ProviderServed, of any entries and environment.                         *)
ServedIn(entries, env, api, p) ==
    \E e \in entries :
        /\ e.id = DeriveID(api, p)
        /\ \A other \in entries : other.id = e.id => other = e
        /\ \A g \in DOMAIN p.settings : p.settings[g] # {} =>
               g \in DOMAIN e.settings /\ e.settings[g] = p.settings[g]
        /\ \A f \in DOMAIN p.secrets :
               /\ f \in DOMAIN e.refs /\ e.refs[f] \in DOMAIN env
               /\ env[e.refs[f]] = p.secrets[f]

(* Each provider of an admitted spec is served as written.                 *)
LEMMA ServedProvider ==
    ASSUME NEW s, NEW b, IsSpec(s), AdmittedBefore(s), s.providers # None,
           ValidateSecretRefEnvVarNames(s), NEW x \in Places(s.providers)
    PROVE  ServedIn(Merged(s, b)[x[1]], CollectSecretRefs(s), x[1], At(s.providers, x))
<1> DEFINE p == At(s.providers, x)
           e == expandProvider(x[1], p)
<1>1. x[1] \in ProviderAPIs /\ ProviderRules(x[1], p)
  BY ProviderAdmitted
<1>2. /\ e \in Merged(s, b)[x[1]] /\ e.id = DeriveID(x[1], p)
      /\ e.settings = expandSettings(p.kind, p.settings)
  BY MergedHas, EntryFields
<1>3. \A other \in Merged(s, b)[x[1]] : other.id = e.id => other = e
  BY <1>2, OneEntry
<1>4. \A g \in DOMAIN p.settings : p.settings[g] # {} =>
          g \in DOMAIN e.settings /\ e.settings[g] = p.settings[g]
  BY <1>1, <1>2, SettingsKept
<1>5. ASSUME NEW f \in DOMAIN p.secrets
      PROVE  /\ f \in DOMAIN e.refs /\ e.refs[f] \in DOMAIN CollectSecretRefs(s)
             /\ CollectSecretRefs(s)[e.refs[f]] = p.secrets[f]
  <2> DEFINE c == [name |-> e.refs[f], secret |-> p.secrets[f]]
  <2>1. f \in DOMAIN e.refs /\ c \in collectProviderSecrets(x[1], p)
    BY <1>1, SecretsReferred
  <2>2. c \in collectSecretRefsRaw(s)
    BY <2>1 DEF collectSecretRefsRaw
  <2>3. c.name = e.refs[f] /\ c.secret = p.secrets[f]
    OBVIOUS
  <2> HIDE DEF c, e, p
  <2>4. c.name \in DOMAIN CollectSecretRefs(s) /\ CollectSecretRefs(s)[c.name] = c.secret
    BY <2>2, Bound
  <2> QED
    BY <2>1, <2>3, <2>4
<1> HIDE DEF e, p
<1>6. ServedIn(Merged(s, b)[x[1]], CollectSecretRefs(s), x[1], p)
  BY <1>2, <1>3, <1>4, <1>5 DEF ServedIn
<1> QED
  BY <1>6 DEF p

(* Each reference of the storage is bound to the Secret that spec.storage  *)
(* names.                                                                  *)
LEMMA ServedStorage ==
    ASSUME NEW s, AdmittedBefore(s), s.storage # None, ValidateSecretRefEnvVarNames(s)
    PROVE  LET refs == ApplyStorage(s.storage).refs
           IN  /\ refs \subseteq DOMAIN CollectSecretRefs(s)
               /\ \A c \in collectStorageSecrets(s.storage) :
                     c.name \in refs /\ CollectSecretRefs(s)[c.name] = c.secret
<1> DEFINE st == s.storage
           refs == ApplyStorage(st).refs
           kv == [name |-> KVPassword, secret |-> st.password]
           sql == [name |-> SQLConnection, secret |-> st.connection]
<1>1. StorageRules(st)
  BY DEF AdmittedBefore, SpecRules
<1>2. refs = (IF st.kv = "redis" /\ st.password # None THEN {KVPassword} ELSE {})
                \cup (IF st.sql = "postgres" THEN {SQLConnection} ELSE {})
  BY DEF ApplyStorage
<1>3. collectStorageSecrets(st) \subseteq collectSecretRefsRaw(s)
  BY DEF collectSecretRefsRaw
<1>4. ASSUME NEW c \in collectStorageSecrets(st)
      PROVE  c.name \in refs /\ c.name \in DOMAIN CollectSecretRefs(s)
             /\ CollectSecretRefs(s)[c.name] = c.secret
  <2>1. (c = kv /\ st.password # None) \/ (c = sql /\ st.connection # None)
    BY <1>4 DEF collectStorageSecrets
  <2>2. c.name \in refs
    BY <1>1, <1>2, <2>1 DEF StorageRules
  <2> QED
    BY <1>3, <1>4, <2>2, Bound
<1>5. ASSUME NEW r \in refs
      PROVE  \E c \in collectStorageSecrets(st) : c.name = r
  <2>1. CASE r = KVPassword /\ st.password # None
    <3>1. kv \in collectStorageSecrets(st)
      BY <2>1 DEF collectStorageSecrets
    <3> QED
      BY <2>1, <3>1
  <2>2. CASE r = SQLConnection /\ st.connection # None
    <3>1. sql \in collectStorageSecrets(st)
      BY <2>2 DEF collectStorageSecrets
    <3> QED
      BY <2>2, <3>1
  <2> QED
    BY <1>1, <1>2, <1>5, <2>1, <2>2 DEF StorageRules
<1> QED
  BY <1>4, <1>5

(* The config serves the spec as it was written: for every admitted spec   *)
(* and every base config, each provider of the spec is in the generated    *)
(* config once, under its API type and ID and with its settings, and each  *)
(* of its references, and those of the storage, resolves in the container  *)
(* to the Secret the spec names.  It rests on the tables being in sync, on *)
(* IDs() listing every kind, and on the names of the variables having been *)
(* checked for collisions.                                                 *)
THEOREM AsWritten == Spec => []ServedAsWritten
<1>1. ASSUME IndInv, HasConfig
      PROVE  /\ dep = Deployed(dep.spec, dep.base)
             /\ IsSpec(dep.spec) /\ AdmittedBefore(dep.spec)
             /\ ValidateSecretRefEnvVarNames(dep.spec)
             /\ dep.env = CollectSecretRefs(dep.spec)
             /\ FromSpec(dep.spec, dep.base) \/ FromDefault(dep.spec, dep.base)
  BY <1>1, DeployedConfig, ConfigFrom
<1>2. ASSUME IndInv, HasConfig, dep.spec.providers # None, NEW x \in Places(dep.spec.providers)
      PROVE  ProviderServed(x[1], At(dep.spec.providers, x))
  <2>1. FromSpec(dep.spec, dep.base)
    BY <1>1, <1>2 DEF FromDefault, HasDeclarativeConfig
  <2>2. dep.config.providers = Merged(dep.spec, dep.base)
    BY <1>1, <1>2, <2>1 DEF FromSpec, buildFinalConfig
  <2>3. ServedIn(Merged(dep.spec, dep.base)[x[1]], CollectSecretRefs(dep.spec),
                 x[1], At(dep.spec.providers, x))
    BY <1>1, <1>2, ServedProvider
  <2>4. ServedIn(dep.config.providers[x[1]], dep.env, x[1], At(dep.spec.providers, x))
    BY <1>1, <1>2, <2>2, <2>3
  <2> QED
    BY <2>4 DEF ServedIn, ProviderServed
<1>3. ASSUME IndInv, HasConfig, dep.spec.storage # None
      PROVE  /\ dep.config.storage.refs \subseteq DOMAIN dep.env
             /\ \A c \in collectStorageSecrets(dep.spec.storage) :
                   c.name \in dep.config.storage.refs /\ dep.env[c.name] = c.secret
  <2> DEFINE applied == ApplyStorage(dep.spec.storage)
             ps == Merged(dep.spec, dep.base)
  <2>1. FromSpec(dep.spec, dep.base)
    BY <1>1, <1>3 DEF FromDefault, HasDeclarativeConfig
  <2>2. dep.config.storage = IF dep.spec.praxis THEN applyPraxisVectorStoreMetadata(applied, ps)
                             ELSE applied
    BY <1>1, <1>3, <2>1 DEF FromSpec, buildFinalConfig, MergeStorage
  <2>3. applyPraxisVectorStoreMetadata(applied, ps).refs = applied.refs
    <3>1. IsBaseStorage(applied)
      BY AppliedStorage
    <3> HIDE DEF applied
    <3> QED
      BY <3>1 DEF applyPraxisVectorStoreMetadata, IsBaseStorage
  <2>4. dep.config.storage.refs = applied.refs
    BY <2>2, <2>3
  <2> HIDE DEF applied
  <2>5. /\ applied.refs \subseteq DOMAIN CollectSecretRefs(dep.spec)
        /\ \A c \in collectStorageSecrets(dep.spec.storage) :
              c.name \in applied.refs /\ CollectSecretRefs(dep.spec)[c.name] = c.secret
    BY <1>1, <1>3, ServedStorage DEF applied
  <2> QED
    BY <1>1, <1>3, <2>4, <2>5
<1>4. IndInv => ServedAsWritten
  BY <1>2, <1>3 DEF ServedAsWritten
<1> QED
  BY <1>4, Invariance, PTL
================================================================================
