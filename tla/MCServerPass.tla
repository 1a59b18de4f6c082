------------------------------ MODULE MCServerPass ------------------------------
(* Instances of ServerPass for TLC.                                        *)
EXTENDS ServerPass, TLC

Plan(praxis, expose, wants, config, ca, storage) ==
    [praxis |-> praxis, expose |-> expose, wants |-> wants, config |-> config,
     ca |-> ca, storage |-> storage]
(* Without the SCC ClusterRole, as outside OpenShift.                      *)
Given(cm, ca, odh) ==
    [cm |-> cm, ca |-> ca, odh |-> odh, secret |-> "s1", crds |-> TRUE, role |-> FALSE]
NoInputs == Given("missing", "missing", "missing")

Nothing == [k \in Kinds |-> Absent]
With(o, k, who) == [o EXCEPT ![k] = Owner(Plain(<<"older">>), who)]

(* Exposure on, off and without TLS, in both modes, with an Ingress of an  *)
(* older release, and a config that may be missing for good.               *)
Exposure ==
    [specs |-> {Plan(FALSE, e, {}, "override", FALSE, FALSE) : e \in {"off", "unsafe", "safe"}}
                   \cup {Plan(TRUE, "safe", {}, "override", FALSE, FALSE)},
     worlds |-> {Given("v1", "missing", "missing"), Given("missing", "missing", "missing")},
     stores |-> {With(Nothing, "Ingress", "self"), With(Nothing, "Ingress", "peer")},
     touched |-> {"Ingress"}]

(* Optional kinds come and go, with foreign objects of their names.        *)
OptionalKinds ==
    [specs |-> {Plan(FALSE, "off", {}, "none", FALSE, FALSE),
                Plan(TRUE, "off", {"NetworkPolicy", "PodDisruptionBudget"}, "none", FALSE, FALSE)},
     worlds |-> {NoInputs},
     stores |-> {With(Nothing, "NetworkPolicy", "self"), With(Nothing, "NetworkPolicy", "peer")},
     touched |-> {"PodDisruptionBudget"}]

(* The monitoring CRDs come and go, and so does storage.                   *)
Monitoring ==
    [specs |-> {Plan(FALSE, "off", {"ServiceMonitor"}, "none", FALSE, TRUE),
                Plan(FALSE, "off", {}, "none", FALSE, FALSE)},
     worlds |-> {NoInputs, [NoInputs EXCEPT !.crds = FALSE]},
     stores |-> {Nothing, With(Nothing, "PersistentVolumeClaim", "self")},
     touched |-> {"ServiceMonitor"}]

(* A RoleBinding of an older release has another role; the ClusterRole     *)
(* comes and goes.                                                         *)
RoleBindings ==
    [specs |-> {Plan(FALSE, "off", {}, "none", FALSE, FALSE)},
     worlds |-> {NoInputs, [NoInputs EXCEPT !.role = TRUE]},
     stores |-> {Nothing, With(Nothing, "RoleBinding", "self")},
     touched |-> {"RoleBinding"}]

(* Config and CA ConfigMaps that appear, change, break and go.             *)
Inputs ==
    [specs |-> {Plan(FALSE, "off", {}, "base", TRUE, FALSE),
                Plan(FALSE, "off", {}, "override", FALSE, FALSE)},
     worlds |-> {Given("v1", "c1", "missing"),
                 [Given("v2", "c2", "missing") EXCEPT !.secret = "s2"],
                 [Given("v1", "c1", "missing") EXCEPT !.secret = "missing"],
                 Given("missing", "c1", "missing"), Given("invalid", "keyless", "x1")},
     stores |-> {Nothing},
     touched |-> {}]

(* Others delete the CA bundle ConfigMap, or take its name.                *)
Bundles ==
    [specs |-> {Plan(FALSE, "off", {}, "none", TRUE, FALSE)},
     worlds |-> {Given("missing", "c1", "missing"), Given("missing", "c2", "x1"),
                 Given("missing", "bad", "empty")},
     stores |-> {Nothing},
     touched |-> {"Bundle"}]

MCScenarios == {Exposure, OptionalKinds, Monitoring, RoleBindings, Inputs, Bundles}

(* A user-config volume that is dropped, and storage that is added.        *)
ReplacedDeployment ==
    {[specs |-> {Plan(FALSE, "off", {}, "override", FALSE, FALSE),
                 Plan(FALSE, "off", {}, "none", FALSE, FALSE)},
      worlds |-> {Given("v1", "missing", "missing")},
      stores |-> {Nothing}, touched |-> {}]}
================================================================================
