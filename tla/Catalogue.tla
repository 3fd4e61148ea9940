------------------------------ MODULE Catalogue ------------------------------
(***************************************************************************)
(* What the operator installs, and what it believes it installed.          *)
(*                                                                         *)
(* Four tables of the source say which cluster objects belong to the       *)
(* operator, and nothing but care keeps them in step:                      *)
(*   - the deploy functions of deployer.go (Steps): what an engine applies *)
(*   - the constructors of component.go: names, labels, immutable fields   *)
(*   - expectedResources (Expected): the names the orphan sweep spares     *)
(*   - cleanupOrphans (SweepKinds) and cleanup (CleanupList): what the     *)
(*     sweep looks at, and what deletion of the custom resource removes.   *)
(*                                                                         *)
(* A spec is a record                                                      *)
(*   on       the enabled engines                                          *)
(*   class    the storageClassName of each engine, "" for none             *)
(*   pool     what the engine's spec puts in fields the API server will    *)
(*            not change: volume group, pool, base path; for Mayastor the  *)
(*            size and class of the etcd volume claim template (the base   *)
(*            paths also reach the provisioners, in fields it will change) *)
(*   tune     everything else of the spec: images, node selector, ...      *)
(*   snap     snapshotClassName, "" for none                               *)
(*   velero   whether etcdVeleroSchedule is set                            *)
(*   veleroNs etcdVeleroNamespace                                          *)
(***************************************************************************)
EXTENDS Naturals, Sequences

\* The engines in the order deployEngines visits them.
EngineOrder == << "lvm", "zfs", "hostpath", "rawfile", "mayastor" >>

Engines == {"lvm", "zfs", "hostpath", "rawfile", "mayastor"}

\* An object is its kind, its namespace ("" for cluster-scoped kinds) and name.
Obj(kind, ns, name) == [kind |-> kind, ns |-> ns, name |-> name]

\* Kinds with fields an Update may not change: selectors, roleRef, parameters...
\* (A Service keeps the cluster IP it has unless the Update names another.)
Rigid == {"Deployment", "DaemonSet", "StatefulSet", "StorageClass",
          "CSIDriver", "ClusterRoleBinding"}

\* The content of the immutable fields: what set it, and the spec field it took.
Flexible   == << "none", "" >>
Fixed(o)   == IF o.kind \in Rigid THEN << "fixed", "" >> ELSE Flexible
Foreign(o) == IF o.kind \in Rigid \cup {"Service"} THEN << "foreign", "" >> ELSE Flexible

\* The content of the other fields: nothing of the spec, or the spec fields it took;
\* and what another client put there.
Unvaried == << >>
Altered  == << "foreign" >>

-----------------------------------------------------------------------------
(***************************************************************************)
(* What a constructor of component.go builds: the object, whether it       *)
(* carries the managed-by label, and the content of its immutable and of   *)
(* its mutable fields.                                                     *)
(***************************************************************************)
Build(o, labelled, imm, mut) == [obj |-> o, labelled |-> labelled, imm |-> imm, mut |-> mut]

Labelled(kind, ns, name, mut) == LET o == Obj(kind, ns, name) IN Build(o, TRUE, Fixed(o), mut)

\* Provisioner and parameters of a StorageClass are immutable.
Class(name, imm, mut) == Build(Obj("StorageClass", "", name), TRUE, imm, mut)

lvmServiceAccount          == Labelled("ServiceAccount", "openebs", "openebs-lvm-controller", Unvaried)
lvmClusterRole             == Build(Obj("ClusterRole", "", "openebs-lvm-role"), FALSE, Flexible, Unvaried)
lvmClusterRoleBinding      == Labelled("ClusterRoleBinding", "", "openebs-lvm-binding", Unvaried)
lvmControllerDeployment(s) == Labelled("Deployment", "openebs", "openebs-lvm-controller", << s.tune >>)
lvmNodeDaemonSet(s)        == Labelled("DaemonSet", "openebs", "openebs-lvm-node", << s.tune >>)
lvmCSIDriver               == Labelled("CSIDriver", "", "local.csi.openebs.io", Unvaried)
lvmStorageClass(name, s)   == Class(name, << "lvm", s.pool["lvm"] >>, << s.tune >>)

hostpathServiceAccount        == Labelled("ServiceAccount", "openebs", "openebs-localpv-provisioner", Unvaried)
hostpathClusterRole           == Labelled("ClusterRole", "", "openebs-localpv-provisioner", Unvaried)
hostpathClusterRoleBinding    == Labelled("ClusterRoleBinding", "", "openebs-localpv-provisioner", Unvaried)
hostpathDeployment(s)         == Labelled("Deployment", "openebs", "openebs-localpv-provisioner",
    << s.tune, s.pool["hostpath"] >>)
hostpathStorageClass(name, s) == Class(name, << "hostpath", s.pool["hostpath"] >>, << s.tune >>)

zfsServiceAccount          == Labelled("ServiceAccount", "openebs", "openebs-zfs-controller", Unvaried)
zfsClusterRole             == Build(Obj("ClusterRole", "", "openebs-zfs-role"), FALSE, Flexible, Unvaried)
zfsClusterRoleBinding      == Labelled("ClusterRoleBinding", "", "openebs-zfs-binding", Unvaried)
zfsControllerDeployment(s) == Labelled("Deployment", "openebs", "openebs-zfs-controller", << s.tune >>)
zfsNodeDaemonSet(s)        == Labelled("DaemonSet", "openebs", "openebs-zfs-node", << s.tune >>)
zfsBinConfigMap            == Labelled("ConfigMap", "openebs", "openebs-zfspv-bin", Unvaried)
zfsCSIDriver               == Labelled("CSIDriver", "", "zfs.csi.openebs.io", Unvaried)
zfsStorageClass(name, s)   == Class(name, << "zfs", s.pool["zfs"] >>, << s.tune >>)

rawfileServiceAccount        == Labelled("ServiceAccount", "openebs", "openebs-rawfile-provisioner", Unvaried)
rawfileClusterRole           == Labelled("ClusterRole", "", "openebs-rawfile-provisioner", Unvaried)
rawfileClusterRoleBinding    == Labelled("ClusterRoleBinding", "", "openebs-rawfile-provisioner", Unvaried)
rawfileDeployment(s)         == Labelled("Deployment", "openebs", "openebs-rawfile-provisioner",
    << s.tune, s.pool["rawfile"] >>)
rawfileStorageClass(name, s) == Class(name, << "rawfile", s.pool["rawfile"] >>, << s.tune >>)

mayastorServiceAccount     == Labelled("ServiceAccount", "mayastor", "mayastor-service-account", Unvaried)
mayastorClusterRole        == Labelled("ClusterRole", "", "mayastor-role", Unvaried)
mayastorClusterRoleBinding == Labelled("ClusterRoleBinding", "", "mayastor-binding", Unvaried)
mayastorEtcdService        == Build(Obj("Service", "mayastor", "mayastor-etcd"), TRUE,
                                    << "headless", "" >>, Unvaried)
mayastorEtcdStatefulSet(s) == Build(Obj("StatefulSet", "mayastor", "mayastor-etcd"), TRUE,
                                    << "etcd", s.pool["mayastor"] >>, << s.tune >>)
mayastorEtcdVeleroSchedule(s)      == Labelled("Schedule", s.veleroNs, "mayastor-etcd", << s.tune >>)
mayastorAgentCoreDeployment(s)     == Labelled("Deployment", "mayastor", "mayastor-agent-core", << s.tune >>)
mayastorAgentCoreService           == Labelled("Service", "mayastor", "mayastor-agent-core", Unvaried)
mayastorAPIRestDeployment(s)       == Labelled("Deployment", "mayastor", "mayastor-api-rest", << s.tune >>)
mayastorAPIRestService             == Labelled("Service", "mayastor", "mayastor-api-rest", Unvaried)
mayastorCSIControllerDeployment(s) == Labelled("Deployment", "mayastor", "mayastor-csi-controller", << s.tune >>)
mayastorIOEngineDaemonSet(s)       == Labelled("DaemonSet", "mayastor", "mayastor-io-engine", << s.tune >>)
mayastorMetricsExporterService     == Labelled("Service", "mayastor", "mayastor-metrics-exporter-io-engine", Unvaried)
mayastorCSINodeDaemonSet(s)        == Labelled("DaemonSet", "mayastor", "mayastor-csi-node", << s.tune >>)
mayastorHANodeDaemonSet(s)         == Labelled("DaemonSet", "mayastor", "mayastor-agent-ha-node", << s.tune >>)
mayastorOperatorDiskpoolDeployment(s) == Labelled("Deployment", "mayastor", "mayastor-operator-diskpool", << s.tune >>)
mayastorCSIDriver                  == Labelled("CSIDriver", "", "io.openebs.csi-mayastor", Unvaried)
mayastorStorageClass(name, s)      == Class(name, << "mayastor", "" >>, << s.tune >>)
mayastorVolumeSnapshotClass(name)  == Labelled("VolumeSnapshotClass", "", name, Unvaried)

-----------------------------------------------------------------------------
\* Names of the StorageClasses: the default of each engine, and the one applied.
DefaultClass(e) == CASE e = "lvm"      -> "openebs-lvm"
                     [] e = "zfs"      -> "openebs-zfs"
                     [] e = "hostpath" -> "openebs-hostpath"
                     [] e = "rawfile"  -> "openebs-rawfile"
                     [] e = "mayastor" -> "mayastor"

ClassName(s, e) == IF e # "rawfile" /\ s.class[e] # "" THEN s.class[e] ELSE DefaultClass(e)

SnapshotClassName(s) == IF s.snap # "" THEN s.snap ELSE "mayastor-snapshot"

-----------------------------------------------------------------------------
(***************************************************************************)
(* One call of a deploy function: the helper it calls, and what it hands   *)
(* over. CRDs come from embedded manifests, without the managed-by label.  *)
(***************************************************************************)
Step(how, c) == [how |-> how, obj |-> c.obj, labelled |-> c.labelled, imm |-> c.imm, mut |-> c.mut]

Apply(c) == Step("apply", c)

Unlabelled(kind, name) == Build(Obj(kind, "", name), FALSE, Flexible, Unvaried)
Namespace(ns)          == Step("namespace", Unlabelled("Namespace", ns))
CRD(name)              == Step("unstructured", Unlabelled("CRD", name))

\* The calls of deployLVM, deployZFS, deployHostpath, deployRawfile, deployMayastor.
LVMSteps(s) ==
    << Namespace("openebs"),
       CRD("lvmnodes.local.openebs.io"),
       CRD("lvmvolumes.local.openebs.io"),
       CRD("lvmsnapshots.local.openebs.io"),
       Apply(lvmServiceAccount),
       Apply(lvmClusterRole),
       Apply(lvmClusterRoleBinding),
       Apply(lvmControllerDeployment(s)),
       Apply(lvmNodeDaemonSet(s)),
       Apply(lvmCSIDriver),
       Step("storageclass", lvmStorageClass(ClassName(s, "lvm"), s)) >>

ZFSSteps(s) ==
    << Namespace("openebs"),
       CRD("zfsnodes.zfs.openebs.io"),
       CRD("zfsvolumes.zfs.openebs.io"),
       CRD("zfssnapshots.zfs.openebs.io"),
       Apply(zfsServiceAccount),
       Apply(zfsClusterRole),
       Apply(zfsClusterRoleBinding),
       Apply(zfsControllerDeployment(s)),
       Apply(zfsBinConfigMap),
       Apply(zfsNodeDaemonSet(s)),
       Apply(zfsCSIDriver),
       Step("storageclass", zfsStorageClass(ClassName(s, "zfs"), s)) >>

HostpathSteps(s) ==
    << Namespace("openebs"),
       Apply(hostpathServiceAccount),
       Apply(hostpathClusterRole),
       Apply(hostpathClusterRoleBinding),
       Apply(hostpathDeployment(s)),
       Step("storageclass", hostpathStorageClass(ClassName(s, "hostpath"), s)) >>

RawfileSteps(s) ==
    << Namespace("openebs"),
       Apply(rawfileServiceAccount),
       Apply(rawfileClusterRole),
       Apply(rawfileClusterRoleBinding),
       Apply(rawfileDeployment(s)),
       Step("storageclass", rawfileStorageClass(ClassName(s, "rawfile"), s)) >>

MayastorSteps(s) ==
    << Namespace("mayastor"),
       CRD("volumesnapshotclasses.snapshot.storage.k8s.io"),
       CRD("volumesnapshots.snapshot.storage.k8s.io"),
       CRD("volumesnapshotcontents.snapshot.storage.k8s.io"),
       Apply(mayastorServiceAccount),
       Apply(mayastorClusterRole),
       Apply(mayastorClusterRoleBinding),
       Step("service", mayastorEtcdService),
       Step("etcdhealth", mayastorEtcdStatefulSet(s)),
       Step("statefulset", mayastorEtcdStatefulSet(s)),
       Step(IF s.velero THEN "schedule" ELSE "unschedule", mayastorEtcdVeleroSchedule(s)),
       Apply(mayastorAgentCoreDeployment(s)),
       Apply(mayastorAgentCoreService),
       Apply(mayastorAPIRestService),
       Apply(mayastorAPIRestDeployment(s)),
       Apply(mayastorCSIControllerDeployment(s)),
       Apply(mayastorIOEngineDaemonSet(s)),
       Apply(mayastorMetricsExporterService),
       Apply(mayastorCSINodeDaemonSet(s)),
       Apply(mayastorHANodeDaemonSet(s)),
       Apply(mayastorOperatorDiskpoolDeployment(s)),
       Apply(mayastorCSIDriver),
       Step("storageclass", mayastorStorageClass(ClassName(s, "mayastor"), s)),
       Step("unstructured", mayastorVolumeSnapshotClass(SnapshotClassName(s))) >>

Steps(s, e) == CASE e = "lvm"      -> LVMSteps(s)
                 [] e = "zfs"      -> ZFSSteps(s)
                 [] e = "hostpath" -> HostpathSteps(s)
                 [] e = "rawfile"  -> RawfileSteps(s)
                 [] e = "mayastor" -> MayastorSteps(s)

\* The calls that leave an object behind.
Writes(st) == st.how \notin {"etcdhealth", "unschedule"}

\* The writing calls of the enabled engines, and the objects a spec asks for.
PlanSteps(s, e) == {st \in {Steps(s, e)[i] : i \in DOMAIN Steps(s, e)} : Writes(st)}
Plan(s) == {st.obj : st \in UNION {PlanSteps(s, e) : e \in s.on}}

-----------------------------------------------------------------------------
(***************************************************************************)
(* expectedResources: the names the sweep must spare. Names only: an       *)
(* object of any kind and namespace with one of these names is expected.   *)
(***************************************************************************)
\* Mutant: the configured class name is not expected.
NoOverride(s, e) == {}

Override(s, e) == IF s.class[e] = "" THEN {} ELSE {s.class[e]}

ExpectedOf(s, e) ==
    CASE e = "lvm"      -> {"openebs-lvm-controller", "openebs-lvm-node", "local.csi.openebs.io",
                            "openebs-lvm", "openebs-lvm-role", "openebs-lvm-binding"}
                           \cup Override(s, e)
      [] e = "zfs"      -> {"openebs-zfs-controller", "openebs-zfs-node", "zfs.csi.openebs.io",
                            "openebs-zfs", "openebs-zfs-role", "openebs-zfs-binding"}
                           \cup Override(s, e)
      [] e = "hostpath" -> {"openebs-localpv-provisioner", "openebs-hostpath"} \cup Override(s, e)
      [] e = "rawfile"  -> {"openebs-rawfile-provisioner", "openebs-rawfile",
                            "openebs-rawfile-role", "openebs-rawfile-binding"}
      [] e = "mayastor" -> {"mayastor-etcd", "mayastor-agent-core", "mayastor-api-rest",
                            "mayastor-csi-controller", "mayastor-io-engine", "mayastor-csi-node",
                            "mayastor-agent-ha-node", "mayastor-operator-diskpool",
                            "mayastor-service-account", "mayastor-role", "mayastor-binding",
                            "io.openebs.csi-mayastor", "mayastor", "mayastor-snapshot",
                            "volumesnapshotclasses.snapshot.storage.k8s.io",
                            "volumesnapshots.snapshot.storage.k8s.io",
                            "volumesnapshotcontents.snapshot.storage.k8s.io"}
                           \cup Override(s, e)
                           \cup (IF s.snap = "" THEN {} ELSE {s.snap})

Expected(s) == UNION {ExpectedOf(s, e) : e \in s.on}

\* The kinds cleanupOrphans lists by label, in its order, with their namespace.
SweepKinds ==
    << << "Deployment", "openebs" >>, << "DaemonSet", "openebs" >>,
       << "ServiceAccount", "openebs" >>,
       << "Deployment", "mayastor" >>, << "DaemonSet", "mayastor" >>,
       << "StatefulSet", "mayastor" >>, << "ServiceAccount", "mayastor" >>,
       << "ClusterRole", "" >>, << "ClusterRoleBinding", "" >>,
       << "CSIDriver", "" >>, << "StorageClass", "" >> >>

ScheduleWanted(s) == "mayastor" \in s.on /\ s.velero

(***************************************************************************)
(* cleanup: the objects deletion of the custom resource removes one by     *)
(* one. Service accounts, cluster roles and bindings, the etcd and         *)
(* api-rest services and every renamed class are left to the garbage       *)
(* collector, which follows their owner reference; namespaces stay.        *)
(***************************************************************************)
CleanupList(s) ==
    << lvmControllerDeployment(s).obj,
       lvmNodeDaemonSet(s).obj,
       hostpathDeployment(s).obj,
       zfsControllerDeployment(s).obj,
       zfsNodeDaemonSet(s).obj,
       zfsBinConfigMap.obj,
       rawfileDeployment(s).obj,
       Obj("CSIDriver", "", "local.csi.openebs.io"),
       Obj("CSIDriver", "", "zfs.csi.openebs.io"),
       Obj("StorageClass", "", "openebs-lvm"),
       Obj("StorageClass", "", "openebs-hostpath"),
       Obj("StorageClass", "", "openebs-zfs"),
       Obj("StorageClass", "", "openebs-rawfile"),
       mayastorEtcdStatefulSet(s).obj,
       mayastorAgentCoreDeployment(s).obj,
       mayastorAgentCoreService.obj,
       mayastorAPIRestDeployment(s).obj,
       mayastorCSIControllerDeployment(s).obj,
       mayastorIOEngineDaemonSet(s).obj,
       mayastorMetricsExporterService.obj,
       mayastorCSINodeDaemonSet(s).obj,
       mayastorHANodeDaemonSet(s).obj,
       mayastorOperatorDiskpoolDeployment(s).obj,
       Obj("CSIDriver", "", "io.openebs.csi-mayastor"),
       Obj("StorageClass", "", "mayastor"),
       Obj("CRD", "", "lvmnodes.local.openebs.io"),
       Obj("CRD", "", "lvmvolumes.local.openebs.io"),
       Obj("CRD", "", "lvmsnapshots.local.openebs.io"),
       Obj("CRD", "", "zfsnodes.zfs.openebs.io"),
       Obj("CRD", "", "zfsvolumes.zfs.openebs.io"),
       Obj("CRD", "", "zfssnapshots.zfs.openebs.io"),
       Obj("CRD", "", "volumesnapshotclasses.snapshot.storage.k8s.io"),
       Obj("CRD", "", "volumesnapshots.snapshot.storage.k8s.io"),
       Obj("CRD", "", "volumesnapshotcontents.snapshot.storage.k8s.io"),
       Obj("VolumeSnapshotClass", "", "mayastor-snapshot"),
       mayastorEtcdVeleroSchedule(s).obj >>
=============================================================================
