--------------------------- MODULE CatalogueProofs ---------------------------
(***************************************************************************)
(* Tables kept in step, for every spec: no call of a deploy function       *)
(* leaves an object the sweep lists under a name expectedResources lacks,  *)
(* and no two of them are for the same object.                             *)
(***************************************************************************)
EXTENDS Catalogue, TLAPS

SweptKinds == {"Deployment", "DaemonSet", "ServiceAccount", "StatefulSet", "ClusterRole",
               "ClusterRoleBinding", "CSIDriver", "StorageClass"}

\* The kinds the sweep lists.
LEMMA KindsSwept ==
    DOMAIN SweepKinds = 1 .. 11 /\ \A k \in 1 .. 11 : SweepKinds[k][1] \in SweptKinds
  <1>1. DOMAIN SweepKinds = 1 .. 11
    BY DEF SweepKinds
  <1>2. /\ SweepKinds[1][1] \in SweptKinds /\ SweepKinds[2][1] \in SweptKinds
        /\ SweepKinds[3][1] \in SweptKinds /\ SweepKinds[4][1] \in SweptKinds
        /\ SweepKinds[5][1] \in SweptKinds /\ SweepKinds[6][1] \in SweptKinds
        /\ SweepKinds[7][1] \in SweptKinds /\ SweepKinds[8][1] \in SweptKinds
        /\ SweepKinds[9][1] \in SweptKinds /\ SweepKinds[10][1] \in SweptKinds
        /\ SweepKinds[11][1] \in SweptKinds
    BY DEF SweepKinds, SweptKinds
  <1> QED BY <1>1, <1>2

Spared(s, e, st) == st.obj.kind \in SweptKinds => st.obj.name \in ExpectedOf(s, e)

\* A call is spared if the sweep does not list its kind, or expects its name.
LEMMA CallSpared ==
    ASSUME NEW s, NEW e, NEW how, NEW c,
           c.obj.kind \in SweptKinds => c.obj.name \in ExpectedOf(s, e)
    PROVE  Spared(s, e, Step(how, c)) /\ Spared(s, e, Apply(c))
  BY DEF Spared, Apply, Step

\* Namespaces and CRDs are not swept.
LEMMA NamespaceSpared ==
    ASSUME NEW s, NEW e, NEW n
    PROVE  Spared(s, e, Namespace(n)) /\ Spared(s, e, CRD(n))
  BY DEF Spared, Step, Namespace, CRD, Unlabelled, Build, Obj, SweptKinds

\* What deployLVM applies is spared.
LEMMA LVMSpared ==
    ASSUME NEW s
    PROVE  \A i \in DOMAIN LVMSteps(s) : Spared(s, "lvm", LVMSteps(s)[i])
  <1>1. {"openebs-lvm-controller", "openebs-lvm-node", "local.csi.openebs.io",
         "openebs-lvm-role", "openebs-lvm-binding", ClassName(s, "lvm")}
            \subseteq ExpectedOf(s, "lvm")
    BY DEF ExpectedOf, ClassName, DefaultClass, Override
  <1>2. /\ Spared(s, "lvm", LVMSteps(s)[1]) /\ Spared(s, "lvm", LVMSteps(s)[2])
        /\ Spared(s, "lvm", LVMSteps(s)[3]) /\ Spared(s, "lvm", LVMSteps(s)[4])
    BY NamespaceSpared DEF LVMSteps
  <1>3. /\ Spared(s, "lvm", LVMSteps(s)[5]) /\ Spared(s, "lvm", LVMSteps(s)[6])
        /\ Spared(s, "lvm", LVMSteps(s)[7]) /\ Spared(s, "lvm", LVMSteps(s)[8])
    BY <1>1, CallSpared DEF LVMSteps, lvmServiceAccount, lvmClusterRole, lvmClusterRoleBinding,
                            lvmControllerDeployment, Labelled, Class, Build, Obj, SweptKinds
  <1>4. /\ Spared(s, "lvm", LVMSteps(s)[9]) /\ Spared(s, "lvm", LVMSteps(s)[10])
        /\ Spared(s, "lvm", LVMSteps(s)[11])
    BY <1>1, CallSpared DEF LVMSteps, lvmNodeDaemonSet, lvmCSIDriver, lvmStorageClass, Labelled,
                            Class, Build, Obj, SweptKinds
  <1>5. DOMAIN LVMSteps(s) = 1 .. 11
    BY DEF LVMSteps
  <1> QED BY <1>2, <1>3, <1>4, <1>5

\* What deployZFS applies is spared.
LEMMA ZFSSpared ==
    ASSUME NEW s
    PROVE  \A i \in DOMAIN ZFSSteps(s) : Spared(s, "zfs", ZFSSteps(s)[i])
  <1>1. {"openebs-zfs-controller", "openebs-zfs-node", "zfs.csi.openebs.io",
         "openebs-zfs-role", "openebs-zfs-binding", ClassName(s, "zfs")}
            \subseteq ExpectedOf(s, "zfs")
    BY DEF ExpectedOf, ClassName, DefaultClass, Override
  <1>2. /\ Spared(s, "zfs", ZFSSteps(s)[1]) /\ Spared(s, "zfs", ZFSSteps(s)[2])
        /\ Spared(s, "zfs", ZFSSteps(s)[3]) /\ Spared(s, "zfs", ZFSSteps(s)[4])
    BY NamespaceSpared DEF ZFSSteps
  <1>3. /\ Spared(s, "zfs", ZFSSteps(s)[5]) /\ Spared(s, "zfs", ZFSSteps(s)[6])
        /\ Spared(s, "zfs", ZFSSteps(s)[7]) /\ Spared(s, "zfs", ZFSSteps(s)[8])
    BY <1>1, CallSpared DEF ZFSSteps, zfsServiceAccount, zfsClusterRole, zfsClusterRoleBinding,
                            zfsControllerDeployment, Labelled, Class, Build, Obj, SweptKinds
  <1>4. /\ Spared(s, "zfs", ZFSSteps(s)[9]) /\ Spared(s, "zfs", ZFSSteps(s)[10])
        /\ Spared(s, "zfs", ZFSSteps(s)[11]) /\ Spared(s, "zfs", ZFSSteps(s)[12])
    BY <1>1, CallSpared DEF ZFSSteps, zfsBinConfigMap, zfsNodeDaemonSet, zfsCSIDriver,
                            zfsStorageClass, Labelled, Class, Build, Obj, SweptKinds
  <1>5. DOMAIN ZFSSteps(s) = 1 .. 12
    BY DEF ZFSSteps
  <1> QED BY <1>2, <1>3, <1>4, <1>5

\* What deployHostpath applies is spared.
LEMMA HostpathSpared ==
    ASSUME NEW s
    PROVE  \A i \in DOMAIN HostpathSteps(s) : Spared(s, "hostpath", HostpathSteps(s)[i])
  <1>1. {"openebs-localpv-provisioner", ClassName(s, "hostpath")}
            \subseteq ExpectedOf(s, "hostpath")
    BY DEF ExpectedOf, ClassName, DefaultClass, Override
  <1>2. /\ Spared(s, "hostpath", HostpathSteps(s)[1])
    BY NamespaceSpared DEF HostpathSteps
  <1>3. /\ Spared(s, "hostpath", HostpathSteps(s)[2]) /\ Spared(s, "hostpath", HostpathSteps(s)[3])
        /\ Spared(s, "hostpath", HostpathSteps(s)[4]) /\ Spared(s, "hostpath", HostpathSteps(s)[5])
    BY <1>1, CallSpared DEF HostpathSteps, hostpathServiceAccount, hostpathClusterRole,
                            hostpathClusterRoleBinding, hostpathDeployment, Labelled, Class, Build,
                            Obj, SweptKinds
  <1>4. /\ Spared(s, "hostpath", HostpathSteps(s)[6])
    BY <1>1, CallSpared DEF HostpathSteps, hostpathStorageClass, Labelled, Class, Build, Obj,
                            SweptKinds
  <1>5. DOMAIN HostpathSteps(s) = 1 .. 6
    BY DEF HostpathSteps
  <1> QED BY <1>2, <1>3, <1>4, <1>5

\* What deployRawfile applies is spared.
LEMMA RawfileSpared ==
    ASSUME NEW s
    PROVE  \A i \in DOMAIN RawfileSteps(s) : Spared(s, "rawfile", RawfileSteps(s)[i])
  <1>1. {"openebs-rawfile-provisioner", ClassName(s, "rawfile")}
            \subseteq ExpectedOf(s, "rawfile")
    BY DEF ExpectedOf, ClassName, DefaultClass, Override
  <1>2. /\ Spared(s, "rawfile", RawfileSteps(s)[1])
    BY NamespaceSpared DEF RawfileSteps
  <1>3. /\ Spared(s, "rawfile", RawfileSteps(s)[2]) /\ Spared(s, "rawfile", RawfileSteps(s)[3])
        /\ Spared(s, "rawfile", RawfileSteps(s)[4]) /\ Spared(s, "rawfile", RawfileSteps(s)[5])
    BY <1>1, CallSpared DEF RawfileSteps, rawfileServiceAccount, rawfileClusterRole,
                            rawfileClusterRoleBinding, rawfileDeployment, Labelled, Class, Build,
                            Obj, SweptKinds
  <1>4. /\ Spared(s, "rawfile", RawfileSteps(s)[6])
    BY <1>1, CallSpared DEF RawfileSteps, rawfileStorageClass, Labelled, Class, Build, Obj,
                            SweptKinds
  <1>5. DOMAIN RawfileSteps(s) = 1 .. 6
    BY DEF RawfileSteps
  <1> QED BY <1>2, <1>3, <1>4, <1>5

\* What deployMayastor applies is spared.
LEMMA MayastorSpared ==
    ASSUME NEW s
    PROVE  \A i \in DOMAIN MayastorSteps(s) : Spared(s, "mayastor", MayastorSteps(s)[i])
  <1>1. {"mayastor-service-account", "mayastor-role", "mayastor-binding", "mayastor-etcd",
         "mayastor-agent-core", "mayastor-api-rest", "mayastor-csi-controller",
         "mayastor-io-engine", "mayastor-csi-node", "mayastor-agent-ha-node",
         "mayastor-operator-diskpool", "io.openebs.csi-mayastor", ClassName(s, "mayastor")}
            \subseteq ExpectedOf(s, "mayastor")
    <2>1. ClassName(s, "mayastor") \in {"mayastor"} \cup Override(s, "mayastor")
      BY DEF ClassName, DefaultClass, Override
    <2>2. {"mayastor-service-account", "mayastor-role", "mayastor-binding", "mayastor-etcd",
           "mayastor-agent-core", "mayastor-api-rest", "mayastor-csi-controller",
           "mayastor-io-engine", "mayastor-csi-node", "mayastor-agent-ha-node",
           "mayastor-operator-diskpool", "io.openebs.csi-mayastor", "mayastor"}
              \cup Override(s, "mayastor") \subseteq ExpectedOf(s, "mayastor")
      BY DEF ExpectedOf
    <2> QED BY <2>1, <2>2
  <1>2. /\ Spared(s, "mayastor", MayastorSteps(s)[1]) /\ Spared(s, "mayastor", MayastorSteps(s)[2])
        /\ Spared(s, "mayastor", MayastorSteps(s)[3]) /\ Spared(s, "mayastor", MayastorSteps(s)[4])
    BY NamespaceSpared DEF MayastorSteps
  <1>3. /\ Spared(s, "mayastor", MayastorSteps(s)[5]) /\ Spared(s, "mayastor", MayastorSteps(s)[6])
        /\ Spared(s, "mayastor", MayastorSteps(s)[7]) /\ Spared(s, "mayastor", MayastorSteps(s)[8])
        /\ Spared(s, "mayastor", MayastorSteps(s)[9])
    BY <1>1, CallSpared DEF MayastorSteps, mayastorServiceAccount, mayastorClusterRole,
                            mayastorClusterRoleBinding, mayastorEtcdService, mayastorEtcdStatefulSet,
                            Labelled, Class, Build, Obj, SweptKinds
  <1>4. /\ Spared(s, "mayastor", MayastorSteps(s)[10]) /\ Spared(s, "mayastor", MayastorSteps(s)[11])
        /\ Spared(s, "mayastor", MayastorSteps(s)[12]) /\ Spared(s, "mayastor", MayastorSteps(s)[13])
        /\ Spared(s, "mayastor", MayastorSteps(s)[14])
    BY <1>1, CallSpared DEF MayastorSteps, mayastorEtcdStatefulSet, mayastorEtcdVeleroSchedule,
                            mayastorAgentCoreDeployment, mayastorAgentCoreService,
                            mayastorAPIRestService, Labelled, Class, Build, Obj, SweptKinds
  <1>5. /\ Spared(s, "mayastor", MayastorSteps(s)[15]) /\ Spared(s, "mayastor", MayastorSteps(s)[16])
        /\ Spared(s, "mayastor", MayastorSteps(s)[17]) /\ Spared(s, "mayastor", MayastorSteps(s)[18])
        /\ Spared(s, "mayastor", MayastorSteps(s)[19])
    BY <1>1, CallSpared DEF MayastorSteps, mayastorAPIRestDeployment,
                            mayastorCSIControllerDeployment, mayastorIOEngineDaemonSet,
                            mayastorMetricsExporterService, mayastorCSINodeDaemonSet, Labelled,
                            Class, Build, Obj, SweptKinds
  <1>6. /\ Spared(s, "mayastor", MayastorSteps(s)[20]) /\ Spared(s, "mayastor", MayastorSteps(s)[21])
        /\ Spared(s, "mayastor", MayastorSteps(s)[22]) /\ Spared(s, "mayastor", MayastorSteps(s)[23])
        /\ Spared(s, "mayastor", MayastorSteps(s)[24])
    BY <1>1, CallSpared DEF MayastorSteps, mayastorHANodeDaemonSet,
                            mayastorOperatorDiskpoolDeployment, mayastorCSIDriver,
                            mayastorStorageClass, mayastorVolumeSnapshotClass, Labelled, Class,
                            Build, Obj, SweptKinds
  <1>7. DOMAIN MayastorSteps(s) = 1 .. 24
    BY DEF MayastorSteps
  <1> QED BY <1>2, <1>3, <1>4, <1>5, <1>6, <1>7

\* Every engine's plan is spared by the sweep of a spec that enables the engine.
THEOREM PlanIsExpected ==
    ASSUME NEW s, s.on \subseteq Engines, NEW o \in Plan(s), o.kind \in SweptKinds
    PROVE  o.name \in Expected(s)
  <1>1. PICK e \in s.on : \E st \in PlanSteps(s, e) : st.obj = o
    BY DEF Plan
  <1>2. PICK i \in DOMAIN Steps(s, e) : Steps(s, e)[i].obj = o
    BY <1>1 DEF PlanSteps
  <1>3. Spared(s, e, Steps(s, e)[i])
    <2>1. CASE e = "lvm"
      <3>1. Steps(s, e) = LVMSteps(s) BY <2>1 DEF Steps
      <3> QED BY <2>1, <3>1, LVMSpared
    <2>2. CASE e = "zfs"
      <3>1. Steps(s, e) = ZFSSteps(s) BY <2>2 DEF Steps
      <3> QED BY <2>2, <3>1, ZFSSpared
    <2>3. CASE e = "hostpath"
      <3>1. Steps(s, e) = HostpathSteps(s) BY <2>3 DEF Steps
      <3> QED BY <2>3, <3>1, HostpathSpared
    <2>4. CASE e = "rawfile"
      <3>1. Steps(s, e) = RawfileSteps(s) BY <2>4 DEF Steps
      <3> QED BY <2>4, <3>1, RawfileSpared
    <2>5. CASE e = "mayastor"
      <3>1. Steps(s, e) = MayastorSteps(s) BY <2>5 DEF Steps
      <3> QED BY <2>5, <3>1, MayastorSpared
    <2> QED BY <2>1, <2>2, <2>3, <2>4, <2>5 DEF Engines
  <1>4. o.name \in ExpectedOf(s, e)
    BY <1>2, <1>3 DEF Spared
  <1> QED BY <1>4 DEF Expected

-----------------------------------------------------------------------------
(***************************************************************************)
(* No two calls of a round write the same object, but for the namespaces,  *)
(* which every engine writes alike: what one engine has put in place, no   *)
(* other engine's call replaces. Objects are told apart by kind and name.  *)
(***************************************************************************)
OwnKinds == {"Schedule", "VolumeSnapshotClass"}

OwnNames(e) ==
    CASE e = "lvm" -> {"lvmnodes.local.openebs.io", "lvmvolumes.local.openebs.io",
                       "lvmsnapshots.local.openebs.io", "openebs-lvm-controller",
                       "openebs-lvm-role", "openebs-lvm-binding", "openebs-lvm-node",
                       "local.csi.openebs.io"}
      [] e = "zfs" -> {"zfsnodes.zfs.openebs.io", "zfsvolumes.zfs.openebs.io",
                       "zfssnapshots.zfs.openebs.io", "openebs-zfs-controller",
                       "openebs-zfs-role", "openebs-zfs-binding", "openebs-zfspv-bin",
                       "openebs-zfs-node", "zfs.csi.openebs.io"}
      [] e = "hostpath" -> {"openebs-localpv-provisioner"}
      [] e = "rawfile" -> {"openebs-rawfile-provisioner"}
      [] e = "mayastor" -> {"volumesnapshotclasses.snapshot.storage.k8s.io",
                            "volumesnapshots.snapshot.storage.k8s.io",
                            "volumesnapshotcontents.snapshot.storage.k8s.io",
                            "mayastor-service-account", "mayastor-role", "mayastor-binding",
                            "mayastor-etcd", "mayastor-agent-core", "mayastor-api-rest",
                            "mayastor-csi-controller", "mayastor-io-engine",
                            "mayastor-metrics-exporter-io-engine", "mayastor-csi-node",
                            "mayastor-agent-ha-node", "mayastor-operator-diskpool",
                            "io.openebs.csi-mayastor"}

Own(e, o) == IF o.kind \in OwnKinds THEN e = "mayastor" ELSE o.name \in OwnNames(e)

\* Whose an object is: everybody's, the class of the engine, or the engine's own.
Place(s, e, st) ==
    \/ st.obj.kind = "Namespace" /\ st = Namespace(st.obj.name)
    \/ st.obj.kind = "StorageClass" /\ st.obj.name = ClassName(s, e)
    \/ st.obj.kind \notin {"Namespace", "StorageClass"} /\ Own(e, st.obj)

Key(st, kind, name) == st.obj.kind = kind /\ st.obj.name = name

\* What a call is handed decides its object.
LEMMA KeyOfCall ==
    ASSUME NEW how, NEW c, NEW n
    PROVE  /\ Step(how, c).obj = c.obj /\ Apply(c).obj = c.obj /\ Step(how, c).how = how
           /\ Key(Namespace(n), "Namespace", n) /\ Key(CRD(n), "CRD", n)
  BY DEF Key, Apply, Step, Namespace, CRD, Unlabelled, Build, Obj

\* The kinds and names of the objects deployLVM writes.
LEMMA LVMKeys ==
    ASSUME NEW s
    PROVE  /\ DOMAIN LVMSteps(s) = 1 .. 11
           /\ Key(LVMSteps(s)[1], "Namespace", "openebs")
           /\ Key(LVMSteps(s)[2], "CRD", "lvmnodes.local.openebs.io")
           /\ Key(LVMSteps(s)[3], "CRD", "lvmvolumes.local.openebs.io")
           /\ Key(LVMSteps(s)[4], "CRD", "lvmsnapshots.local.openebs.io")
           /\ Key(LVMSteps(s)[5], "ServiceAccount", "openebs-lvm-controller")
           /\ Key(LVMSteps(s)[6], "ClusterRole", "openebs-lvm-role")
           /\ Key(LVMSteps(s)[7], "ClusterRoleBinding", "openebs-lvm-binding")
           /\ Key(LVMSteps(s)[8], "Deployment", "openebs-lvm-controller")
           /\ Key(LVMSteps(s)[9], "DaemonSet", "openebs-lvm-node")
           /\ Key(LVMSteps(s)[10], "CSIDriver", "local.csi.openebs.io")
           /\ Key(LVMSteps(s)[11], "StorageClass", ClassName(s, "lvm"))
  <1>0. DOMAIN LVMSteps(s) = 1 .. 11
    BY DEF LVMSteps
  <1>1. /\ Key(LVMSteps(s)[1], "Namespace", "openebs")
        /\ Key(LVMSteps(s)[2], "CRD", "lvmnodes.local.openebs.io")
        /\ Key(LVMSteps(s)[3], "CRD", "lvmvolumes.local.openebs.io")
        /\ Key(LVMSteps(s)[4], "CRD", "lvmsnapshots.local.openebs.io")
    BY DEF LVMSteps, Key, Apply, Step, Namespace, CRD, Unlabelled, Build, Obj
  <1>2. /\ Key(LVMSteps(s)[5], "ServiceAccount", "openebs-lvm-controller")
        /\ Key(LVMSteps(s)[6], "ClusterRole", "openebs-lvm-role")
        /\ Key(LVMSteps(s)[7], "ClusterRoleBinding", "openebs-lvm-binding")
        /\ Key(LVMSteps(s)[8], "Deployment", "openebs-lvm-controller")
    BY DEF LVMSteps, Key, Apply, Step, Labelled, Class, Build, Obj, lvmServiceAccount,
           lvmClusterRole, lvmClusterRoleBinding, lvmControllerDeployment
  <1>3. /\ Key(LVMSteps(s)[9], "DaemonSet", "openebs-lvm-node")
        /\ Key(LVMSteps(s)[10], "CSIDriver", "local.csi.openebs.io")
        /\ Key(LVMSteps(s)[11], "StorageClass", ClassName(s, "lvm"))
    BY DEF LVMSteps, Key, Apply, Step, Labelled, Class, Build, Obj, lvmNodeDaemonSet,
           lvmCSIDriver, lvmStorageClass
  <1> QED BY <1>0, <1>1, <1>2, <1>3

\* Two calls of deployLVM for one object are one call.
LEMMA LVMApart ==
    ASSUME NEW s, NEW i \in DOMAIN LVMSteps(s), NEW j \in DOMAIN LVMSteps(s),
           LVMSteps(s)[i].obj = LVMSteps(s)[j].obj
    PROVE  i = j \/ LVMSteps(s)[i].how = "etcdhealth" \/ LVMSteps(s)[j].how = "etcdhealth"
  BY LVMKeys DEF Key

\* Every object of deployLVM is everybody's, its class, or its own.
LEMMA LVMPlaced ==
    ASSUME NEW s, NEW i \in DOMAIN LVMSteps(s)
    PROVE  Place(s, "lvm", LVMSteps(s)[i])
  <1>1. LVMSteps(s)[1] = Namespace(LVMSteps(s)[1].obj.name)
    BY DEF LVMSteps, Namespace, Step, Unlabelled, Build, Obj
  <1> QED BY <1>1, LVMKeys DEF Key, Place, Own, OwnKinds, OwnNames

\* The kinds and names of the objects deployZFS writes.
LEMMA ZFSKeys ==
    ASSUME NEW s
    PROVE  /\ DOMAIN ZFSSteps(s) = 1 .. 12
           /\ Key(ZFSSteps(s)[1], "Namespace", "openebs")
           /\ Key(ZFSSteps(s)[2], "CRD", "zfsnodes.zfs.openebs.io")
           /\ Key(ZFSSteps(s)[3], "CRD", "zfsvolumes.zfs.openebs.io")
           /\ Key(ZFSSteps(s)[4], "CRD", "zfssnapshots.zfs.openebs.io")
           /\ Key(ZFSSteps(s)[5], "ServiceAccount", "openebs-zfs-controller")
           /\ Key(ZFSSteps(s)[6], "ClusterRole", "openebs-zfs-role")
           /\ Key(ZFSSteps(s)[7], "ClusterRoleBinding", "openebs-zfs-binding")
           /\ Key(ZFSSteps(s)[8], "Deployment", "openebs-zfs-controller")
           /\ Key(ZFSSteps(s)[9], "ConfigMap", "openebs-zfspv-bin")
           /\ Key(ZFSSteps(s)[10], "DaemonSet", "openebs-zfs-node")
           /\ Key(ZFSSteps(s)[11], "CSIDriver", "zfs.csi.openebs.io")
           /\ Key(ZFSSteps(s)[12], "StorageClass", ClassName(s, "zfs"))
  <1>0. DOMAIN ZFSSteps(s) = 1 .. 12
    BY DEF ZFSSteps
  <1>1. /\ Key(ZFSSteps(s)[1], "Namespace", "openebs")
        /\ Key(ZFSSteps(s)[2], "CRD", "zfsnodes.zfs.openebs.io")
        /\ Key(ZFSSteps(s)[3], "CRD", "zfsvolumes.zfs.openebs.io")
        /\ Key(ZFSSteps(s)[4], "CRD", "zfssnapshots.zfs.openebs.io")
    BY DEF ZFSSteps, Key, Apply, Step, Namespace, CRD, Unlabelled, Build, Obj
  <1>2. /\ Key(ZFSSteps(s)[5], "ServiceAccount", "openebs-zfs-controller")
        /\ Key(ZFSSteps(s)[6], "ClusterRole", "openebs-zfs-role")
        /\ Key(ZFSSteps(s)[7], "ClusterRoleBinding", "openebs-zfs-binding")
        /\ Key(ZFSSteps(s)[8], "Deployment", "openebs-zfs-controller")
    BY DEF ZFSSteps, Key, Apply, Step, Labelled, Class, Build, Obj, zfsServiceAccount,
           zfsClusterRole, zfsClusterRoleBinding, zfsControllerDeployment
  <1>3. /\ Key(ZFSSteps(s)[9], "ConfigMap", "openebs-zfspv-bin")
        /\ Key(ZFSSteps(s)[10], "DaemonSet", "openebs-zfs-node")
        /\ Key(ZFSSteps(s)[11], "CSIDriver", "zfs.csi.openebs.io")
        /\ Key(ZFSSteps(s)[12], "StorageClass", ClassName(s, "zfs"))
    BY DEF ZFSSteps, Key, Apply, Step, Labelled, Class, Build, Obj, zfsBinConfigMap,
           zfsNodeDaemonSet, zfsCSIDriver, zfsStorageClass
  <1> QED BY <1>0, <1>1, <1>2, <1>3

\* Two calls of deployZFS for one object are one call.
LEMMA ZFSApart ==
    ASSUME NEW s, NEW i \in DOMAIN ZFSSteps(s), NEW j \in DOMAIN ZFSSteps(s),
           ZFSSteps(s)[i].obj = ZFSSteps(s)[j].obj
    PROVE  i = j \/ ZFSSteps(s)[i].how = "etcdhealth" \/ ZFSSteps(s)[j].how = "etcdhealth"
  BY ZFSKeys DEF Key

\* Every object of deployZFS is everybody's, its class, or its own.
LEMMA ZFSPlaced ==
    ASSUME NEW s, NEW i \in DOMAIN ZFSSteps(s)
    PROVE  Place(s, "zfs", ZFSSteps(s)[i])
  <1>1. ZFSSteps(s)[1] = Namespace(ZFSSteps(s)[1].obj.name)
    BY DEF ZFSSteps, Namespace, Step, Unlabelled, Build, Obj
  <1> QED BY <1>1, ZFSKeys DEF Key, Place, Own, OwnKinds, OwnNames

\* The kinds and names of the objects deployHostpath writes.
LEMMA HostpathKeys ==
    ASSUME NEW s
    PROVE  /\ DOMAIN HostpathSteps(s) = 1 .. 6
           /\ Key(HostpathSteps(s)[1], "Namespace", "openebs")
           /\ Key(HostpathSteps(s)[2], "ServiceAccount", "openebs-localpv-provisioner")
           /\ Key(HostpathSteps(s)[3], "ClusterRole", "openebs-localpv-provisioner")
           /\ Key(HostpathSteps(s)[4], "ClusterRoleBinding", "openebs-localpv-provisioner")
           /\ Key(HostpathSteps(s)[5], "Deployment", "openebs-localpv-provisioner")
           /\ Key(HostpathSteps(s)[6], "StorageClass", ClassName(s, "hostpath"))
  <1>0. DOMAIN HostpathSteps(s) = 1 .. 6
    BY DEF HostpathSteps
  <1>1. /\ Key(HostpathSteps(s)[1], "Namespace", "openebs")
        /\ Key(HostpathSteps(s)[2], "ServiceAccount", "openebs-localpv-provisioner")
        /\ Key(HostpathSteps(s)[3], "ClusterRole", "openebs-localpv-provisioner")
        /\ Key(HostpathSteps(s)[4], "ClusterRoleBinding", "openebs-localpv-provisioner")
    BY DEF HostpathSteps, Key, Apply, Step, Namespace, CRD, Unlabelled, Labelled, Class, Build,
           Obj, hostpathServiceAccount, hostpathClusterRole, hostpathClusterRoleBinding
  <1>2. /\ Key(HostpathSteps(s)[5], "Deployment", "openebs-localpv-provisioner")
        /\ Key(HostpathSteps(s)[6], "StorageClass", ClassName(s, "hostpath"))
    BY DEF HostpathSteps, Key, Apply, Step, Labelled, Class, Build, Obj, hostpathDeployment,
           hostpathStorageClass
  <1> QED BY <1>0, <1>1, <1>2

\* Two calls of deployHostpath for one object are one call.
LEMMA HostpathApart ==
    ASSUME NEW s, NEW i \in DOMAIN HostpathSteps(s), NEW j \in DOMAIN HostpathSteps(s),
           HostpathSteps(s)[i].obj = HostpathSteps(s)[j].obj
    PROVE  i = j \/ HostpathSteps(s)[i].how = "etcdhealth" \/ HostpathSteps(s)[j].how = "etcdhealth"
  BY HostpathKeys DEF Key

\* Every object of deployHostpath is everybody's, its class, or its own.
LEMMA HostpathPlaced ==
    ASSUME NEW s, NEW i \in DOMAIN HostpathSteps(s)
    PROVE  Place(s, "hostpath", HostpathSteps(s)[i])
  <1>1. HostpathSteps(s)[1] = Namespace(HostpathSteps(s)[1].obj.name)
    BY DEF HostpathSteps, Namespace, Step, Unlabelled, Build, Obj
  <1> QED BY <1>1, HostpathKeys DEF Key, Place, Own, OwnKinds, OwnNames

\* The kinds and names of the objects deployRawfile writes.
LEMMA RawfileKeys ==
    ASSUME NEW s
    PROVE  /\ DOMAIN RawfileSteps(s) = 1 .. 6
           /\ Key(RawfileSteps(s)[1], "Namespace", "openebs")
           /\ Key(RawfileSteps(s)[2], "ServiceAccount", "openebs-rawfile-provisioner")
           /\ Key(RawfileSteps(s)[3], "ClusterRole", "openebs-rawfile-provisioner")
           /\ Key(RawfileSteps(s)[4], "ClusterRoleBinding", "openebs-rawfile-provisioner")
           /\ Key(RawfileSteps(s)[5], "Deployment", "openebs-rawfile-provisioner")
           /\ Key(RawfileSteps(s)[6], "StorageClass", ClassName(s, "rawfile"))
  <1>0. DOMAIN RawfileSteps(s) = 1 .. 6
    BY DEF RawfileSteps
  <1>1. /\ Key(RawfileSteps(s)[1], "Namespace", "openebs")
        /\ Key(RawfileSteps(s)[2], "ServiceAccount", "openebs-rawfile-provisioner")
        /\ Key(RawfileSteps(s)[3], "ClusterRole", "openebs-rawfile-provisioner")
        /\ Key(RawfileSteps(s)[4], "ClusterRoleBinding", "openebs-rawfile-provisioner")
    BY DEF RawfileSteps, Key, Apply, Step, Namespace, CRD, Unlabelled, Labelled, Class, Build,
           Obj, rawfileServiceAccount, rawfileClusterRole, rawfileClusterRoleBinding
  <1>2. /\ Key(RawfileSteps(s)[5], "Deployment", "openebs-rawfile-provisioner")
        /\ Key(RawfileSteps(s)[6], "StorageClass", ClassName(s, "rawfile"))
    BY DEF RawfileSteps, Key, Apply, Step, Labelled, Class, Build, Obj, rawfileDeployment,
           rawfileStorageClass
  <1> QED BY <1>0, <1>1, <1>2

\* Two calls of deployRawfile for one object are one call.
LEMMA RawfileApart ==
    ASSUME NEW s, NEW i \in DOMAIN RawfileSteps(s), NEW j \in DOMAIN RawfileSteps(s),
           RawfileSteps(s)[i].obj = RawfileSteps(s)[j].obj
    PROVE  i = j \/ RawfileSteps(s)[i].how = "etcdhealth" \/ RawfileSteps(s)[j].how = "etcdhealth"
  BY RawfileKeys DEF Key

\* Every object of deployRawfile is everybody's, its class, or its own.
LEMMA RawfilePlaced ==
    ASSUME NEW s, NEW i \in DOMAIN RawfileSteps(s)
    PROVE  Place(s, "rawfile", RawfileSteps(s)[i])
  <1>1. RawfileSteps(s)[1] = Namespace(RawfileSteps(s)[1].obj.name)
    BY DEF RawfileSteps, Namespace, Step, Unlabelled, Build, Obj
  <1> QED BY <1>1, RawfileKeys DEF Key, Place, Own, OwnKinds, OwnNames

\* The kinds and names of the objects deployMayastor writes.
LEMMA MayastorKeys ==
    ASSUME NEW s
    PROVE  /\ DOMAIN MayastorSteps(s) = 1 .. 24
           /\ Key(MayastorSteps(s)[1], "Namespace", "mayastor")
           /\ Key(MayastorSteps(s)[2], "CRD", "volumesnapshotclasses.snapshot.storage.k8s.io")
           /\ Key(MayastorSteps(s)[3], "CRD", "volumesnapshots.snapshot.storage.k8s.io")
           /\ Key(MayastorSteps(s)[4], "CRD", "volumesnapshotcontents.snapshot.storage.k8s.io")
           /\ Key(MayastorSteps(s)[5], "ServiceAccount", "mayastor-service-account")
           /\ Key(MayastorSteps(s)[6], "ClusterRole", "mayastor-role")
           /\ Key(MayastorSteps(s)[7], "ClusterRoleBinding", "mayastor-binding")
           /\ Key(MayastorSteps(s)[8], "Service", "mayastor-etcd")
           /\ Key(MayastorSteps(s)[9], "StatefulSet", "mayastor-etcd")
           /\ Key(MayastorSteps(s)[10], "StatefulSet", "mayastor-etcd")
           /\ Key(MayastorSteps(s)[11], "Schedule", "mayastor-etcd")
           /\ Key(MayastorSteps(s)[12], "Deployment", "mayastor-agent-core")
           /\ Key(MayastorSteps(s)[13], "Service", "mayastor-agent-core")
           /\ Key(MayastorSteps(s)[14], "Service", "mayastor-api-rest")
           /\ Key(MayastorSteps(s)[15], "Deployment", "mayastor-api-rest")
           /\ Key(MayastorSteps(s)[16], "Deployment", "mayastor-csi-controller")
           /\ Key(MayastorSteps(s)[17], "DaemonSet", "mayastor-io-engine")
           /\ Key(MayastorSteps(s)[18], "Service", "mayastor-metrics-exporter-io-engine")
           /\ Key(MayastorSteps(s)[19], "DaemonSet", "mayastor-csi-node")
           /\ Key(MayastorSteps(s)[20], "DaemonSet", "mayastor-agent-ha-node")
           /\ Key(MayastorSteps(s)[21], "Deployment", "mayastor-operator-diskpool")
           /\ Key(MayastorSteps(s)[22], "CSIDriver", "io.openebs.csi-mayastor")
           /\ Key(MayastorSteps(s)[23], "StorageClass", ClassName(s, "mayastor"))
           /\ Key(MayastorSteps(s)[24], "VolumeSnapshotClass", SnapshotClassName(s))
  <1>0. DOMAIN MayastorSteps(s) = 1 .. 24
    BY DEF MayastorSteps
  <1>1. /\ Key(MayastorSteps(s)[1], "Namespace", "mayastor")
        /\ Key(MayastorSteps(s)[2], "CRD", "volumesnapshotclasses.snapshot.storage.k8s.io")
        /\ Key(MayastorSteps(s)[3], "CRD", "volumesnapshots.snapshot.storage.k8s.io")
        /\ Key(MayastorSteps(s)[4], "CRD", "volumesnapshotcontents.snapshot.storage.k8s.io")
    BY DEF MayastorSteps, Key, Apply, Step, Namespace, CRD, Unlabelled, Build, Obj
  <1>2. /\ Key(MayastorSteps(s)[5], "ServiceAccount", "mayastor-service-account")
        /\ Key(MayastorSteps(s)[6], "ClusterRole", "mayastor-role")
        /\ Key(MayastorSteps(s)[7], "ClusterRoleBinding", "mayastor-binding")
        /\ Key(MayastorSteps(s)[8], "Service", "mayastor-etcd")
    BY DEF MayastorSteps, Key, Apply, Step, Labelled, Class, Build, Obj,
           mayastorServiceAccount, mayastorClusterRole, mayastorClusterRoleBinding,
           mayastorEtcdService
  <1>3. /\ Key(MayastorSteps(s)[9], "StatefulSet", "mayastor-etcd")
        /\ Key(MayastorSteps(s)[10], "StatefulSet", "mayastor-etcd")
        /\ Key(MayastorSteps(s)[11], "Schedule", "mayastor-etcd")
        /\ Key(MayastorSteps(s)[12], "Deployment", "mayastor-agent-core")
    BY DEF MayastorSteps, Key, Apply, Step, Labelled, Class, Build, Obj,
           mayastorEtcdStatefulSet, mayastorEtcdVeleroSchedule, mayastorAgentCoreDeployment
  <1>4. /\ Key(MayastorSteps(s)[13], "Service", "mayastor-agent-core")
        /\ Key(MayastorSteps(s)[14], "Service", "mayastor-api-rest")
        /\ Key(MayastorSteps(s)[15], "Deployment", "mayastor-api-rest")
        /\ Key(MayastorSteps(s)[16], "Deployment", "mayastor-csi-controller")
    BY DEF MayastorSteps, Key, Apply, Step, Labelled, Class, Build, Obj,
           mayastorAgentCoreService, mayastorAPIRestService, mayastorAPIRestDeployment,
           mayastorCSIControllerDeployment
  <1>5. /\ Key(MayastorSteps(s)[17], "DaemonSet", "mayastor-io-engine")
        /\ Key(MayastorSteps(s)[18], "Service", "mayastor-metrics-exporter-io-engine")
        /\ Key(MayastorSteps(s)[19], "DaemonSet", "mayastor-csi-node")
        /\ Key(MayastorSteps(s)[20], "DaemonSet", "mayastor-agent-ha-node")
    BY DEF MayastorSteps, Key, Apply, Step, Labelled, Class, Build, Obj,
           mayastorIOEngineDaemonSet, mayastorMetricsExporterService, mayastorCSINodeDaemonSet,
           mayastorHANodeDaemonSet
  <1>6. /\ Key(MayastorSteps(s)[21], "Deployment", "mayastor-operator-diskpool")
        /\ Key(MayastorSteps(s)[22], "CSIDriver", "io.openebs.csi-mayastor")
        /\ Key(MayastorSteps(s)[23], "StorageClass", ClassName(s, "mayastor"))
        /\ Key(MayastorSteps(s)[24], "VolumeSnapshotClass", SnapshotClassName(s))
    BY DEF MayastorSteps, Key, Apply, Step, Labelled, Class, Build, Obj,
           mayastorOperatorDiskpoolDeployment, mayastorCSIDriver, mayastorStorageClass,
           mayastorVolumeSnapshotClass
  <1> QED BY <1>0, <1>1, <1>2, <1>3, <1>4, <1>5, <1>6

\* The places of each kind in the list of deployMayastor.
LEMMA MayastorKinds ==
    ASSUME NEW s, NEW i \in DOMAIN MayastorSteps(s)
    PROVE  /\ MayastorSteps(s)[i].obj.kind = "Namespace" => i = 1
           /\ MayastorSteps(s)[i].obj.kind = "CRD" => i \in {2, 3, 4}
           /\ MayastorSteps(s)[i].obj.kind = "ServiceAccount" => i = 5
           /\ MayastorSteps(s)[i].obj.kind = "ClusterRole" => i = 6
           /\ MayastorSteps(s)[i].obj.kind = "ClusterRoleBinding" => i = 7
           /\ MayastorSteps(s)[i].obj.kind = "Service" => i \in {8, 13, 14, 18}
           /\ MayastorSteps(s)[i].obj.kind = "StatefulSet" => i \in {9, 10}
           /\ MayastorSteps(s)[i].obj.kind = "Schedule" => i = 11
           /\ MayastorSteps(s)[i].obj.kind = "Deployment" => i \in {12, 15, 16, 21}
           /\ MayastorSteps(s)[i].obj.kind = "DaemonSet" => i \in {17, 19, 20}
           /\ MayastorSteps(s)[i].obj.kind = "CSIDriver" => i = 22
           /\ MayastorSteps(s)[i].obj.kind = "StorageClass" => i = 23
           /\ MayastorSteps(s)[i].obj.kind = "VolumeSnapshotClass" => i = 24
  <1>0. i \in 1 .. 24 BY MayastorKeys
  <1>1. CASE i \in 1 .. 6
    <2>1. i \in {1, 2, 3, 4, 5, 6} BY <1>1
    <2> QED BY <2>1, MayastorKeys DEF Key
  <1>2. CASE i \in 7 .. 12
    <2>1. i \in {7, 8, 9, 10, 11, 12} BY <1>2
    <2> QED BY <2>1, MayastorKeys DEF Key
  <1>3. CASE i \in 13 .. 18
    <2>1. i \in {13, 14, 15, 16, 17, 18} BY <1>3
    <2> QED BY <2>1, MayastorKeys DEF Key
  <1>4. CASE i \in 19 .. 24
    <2>1. i \in {19, 20, 21, 22, 23, 24} BY <1>4
    <2> QED BY <2>1, MayastorKeys DEF Key
  <1> QED BY <1>0, <1>1, <1>2, <1>3, <1>4

\* Two calls of deployMayastor for one object are one call.
LEMMA MayastorApart ==
    ASSUME NEW s, NEW i \in DOMAIN MayastorSteps(s), NEW j \in DOMAIN MayastorSteps(s),
           MayastorSteps(s)[i].obj = MayastorSteps(s)[j].obj
    PROVE  i = j \/ MayastorSteps(s)[i].how = "etcdhealth" \/ MayastorSteps(s)[j].how = "etcdhealth"
  <1>1. MayastorSteps(s)[9].how = "etcdhealth"
    BY DEF MayastorSteps, Step
  <1>2. /\ MayastorSteps(s)[i].obj.kind = MayastorSteps(s)[j].obj.kind
        /\ MayastorSteps(s)[i].obj.name = MayastorSteps(s)[j].obj.name
    OBVIOUS
  <1>3. CASE MayastorSteps(s)[i].obj.kind = "Namespace"
    BY <1>2, <1>3, MayastorKinds
  <1>4. CASE MayastorSteps(s)[i].obj.kind = "CRD"
    <2>1. i \in {2, 3, 4} /\ j \in {2, 3, 4}
      BY <1>2, <1>4, MayastorKinds
    <2>2. /\ MayastorSteps(s)[2].obj.name = "volumesnapshotclasses.snapshot.storage.k8s.io"
          /\ MayastorSteps(s)[3].obj.name = "volumesnapshots.snapshot.storage.k8s.io"
          /\ MayastorSteps(s)[4].obj.name = "volumesnapshotcontents.snapshot.storage.k8s.io"
      BY MayastorKeys DEF Key
    <2> QED BY <1>2, <2>1, <2>2
  <1>5. CASE MayastorSteps(s)[i].obj.kind = "ServiceAccount"
    BY <1>2, <1>5, MayastorKinds
  <1>6. CASE MayastorSteps(s)[i].obj.kind = "ClusterRole"
    BY <1>2, <1>6, MayastorKinds
  <1>7. CASE MayastorSteps(s)[i].obj.kind = "ClusterRoleBinding"
    BY <1>2, <1>7, MayastorKinds
  <1>8. CASE MayastorSteps(s)[i].obj.kind = "Service"
    <2>1. i \in {8, 13, 14, 18} /\ j \in {8, 13, 14, 18}
      BY <1>2, <1>8, MayastorKinds
    <2>2. /\ MayastorSteps(s)[8].obj.name = "mayastor-etcd"
          /\ MayastorSteps(s)[13].obj.name = "mayastor-agent-core"
          /\ MayastorSteps(s)[14].obj.name = "mayastor-api-rest"
          /\ MayastorSteps(s)[18].obj.name = "mayastor-metrics-exporter-io-engine"
      BY MayastorKeys DEF Key
    <2> QED BY <1>2, <2>1, <2>2
  <1>9. CASE MayastorSteps(s)[i].obj.kind = "StatefulSet"
    <2>1. i \in {9, 10} /\ j \in {9, 10}
      BY <1>2, <1>9, MayastorKinds
    <2> QED BY <1>1, <2>1
  <1>10. CASE MayastorSteps(s)[i].obj.kind = "Schedule"
    BY <1>2, <1>10, MayastorKinds
  <1>11. CASE MayastorSteps(s)[i].obj.kind = "Deployment"
    <2>1. i \in {12, 15, 16, 21} /\ j \in {12, 15, 16, 21}
      BY <1>2, <1>11, MayastorKinds
    <2>2. /\ MayastorSteps(s)[12].obj.name = "mayastor-agent-core"
          /\ MayastorSteps(s)[15].obj.name = "mayastor-api-rest"
          /\ MayastorSteps(s)[16].obj.name = "mayastor-csi-controller"
          /\ MayastorSteps(s)[21].obj.name = "mayastor-operator-diskpool"
      BY MayastorKeys DEF Key
    <2> QED BY <1>2, <2>1, <2>2
  <1>12. CASE MayastorSteps(s)[i].obj.kind = "DaemonSet"
    <2>1. i \in {17, 19, 20} /\ j \in {17, 19, 20}
      BY <1>2, <1>12, MayastorKinds
    <2>2. /\ MayastorSteps(s)[17].obj.name = "mayastor-io-engine"
          /\ MayastorSteps(s)[19].obj.name = "mayastor-csi-node"
          /\ MayastorSteps(s)[20].obj.name = "mayastor-agent-ha-node"
      BY MayastorKeys DEF Key
    <2> QED BY <1>2, <2>1, <2>2
  <1>13. CASE MayastorSteps(s)[i].obj.kind = "CSIDriver"
    BY <1>2, <1>13, MayastorKinds
  <1>14. CASE MayastorSteps(s)[i].obj.kind = "StorageClass"
    BY <1>2, <1>14, MayastorKinds
  <1>15. CASE MayastorSteps(s)[i].obj.kind = "VolumeSnapshotClass"
    BY <1>2, <1>15, MayastorKinds
  <1>16. MayastorSteps(s)[i].obj.kind 
           \in {"Namespace", "CRD", "ServiceAccount", "ClusterRole", "ClusterRoleBinding",
               "Service", "StatefulSet", "Schedule", "Deployment", "DaemonSet", "CSIDriver",
               "StorageClass", "VolumeSnapshotClass"}
    <2>0. i \in 1 .. 24 BY MayastorKeys
    <2>1. CASE i \in 1 .. 6
      <3>1. i \in {1, 2, 3, 4, 5, 6} BY <2>1
      <3> QED BY <3>1, MayastorKeys DEF Key
    <2>2. CASE i \in 7 .. 12
      <3>1. i \in {7, 8, 9, 10, 11, 12} BY <2>2
      <3> QED BY <3>1, MayastorKeys DEF Key
    <2>3. CASE i \in 13 .. 18
      <3>1. i \in {13, 14, 15, 16, 17, 18} BY <2>3
      <3> QED BY <3>1, MayastorKeys DEF Key
    <2>4. CASE i \in 19 .. 24
      <3>1. i \in {19, 20, 21, 22, 23, 24} BY <2>4
      <3> QED BY <3>1, MayastorKeys DEF Key
    <2> QED BY <2>0, <2>1, <2>2, <2>3, <2>4
  <1> QED BY <1>3, <1>4, <1>5, <1>6, <1>7, <1>8, <1>9, <1>10, <1>11, <1>12, <1>13, <1>14, <1>15, <1>16

\* Every object of deployMayastor is everybody's, its class, or its own.
LEMMA MayastorPlaced ==
    ASSUME NEW s, NEW i \in DOMAIN MayastorSteps(s)
    PROVE  Place(s, "mayastor", MayastorSteps(s)[i])
  <1>1. MayastorSteps(s)[1] = Namespace(MayastorSteps(s)[1].obj.name)
    BY DEF MayastorSteps, Namespace, Step, Unlabelled, Build, Obj
  <1> QED BY <1>1, MayastorKeys DEF Key, Place, Own, OwnKinds, OwnNames

\* The calls of a deploy function are counted from one.
LEMMA StepsDomain ==
    ASSUME NEW s, NEW e \in Engines
    PROVE  DOMAIN Steps(s, e) = 1 .. Len(Steps(s, e))
  <1>1. CASE e = "lvm"
    <2>1. Steps(s, e) = LVMSteps(s) BY <1>1 DEF Steps
    <2>2. Len(LVMSteps(s)) = 11 BY DEF LVMSteps
    <2>3. DOMAIN LVMSteps(s) = 1 .. 11 BY LVMKeys
    <2> QED BY <2>1, <2>2, <2>3
  <1>2. CASE e = "zfs"
    <2>1. Steps(s, e) = ZFSSteps(s) BY <1>2 DEF Steps
    <2>2. Len(ZFSSteps(s)) = 12 BY DEF ZFSSteps
    <2>3. DOMAIN ZFSSteps(s) = 1 .. 12 BY ZFSKeys
    <2> QED BY <2>1, <2>2, <2>3
  <1>3. CASE e = "hostpath"
    <2>1. Steps(s, e) = HostpathSteps(s) BY <1>3 DEF Steps
    <2>2. Len(HostpathSteps(s)) = 6 BY DEF HostpathSteps
    <2>3. DOMAIN HostpathSteps(s) = 1 .. 6 BY HostpathKeys
    <2> QED BY <2>1, <2>2, <2>3
  <1>4. CASE e = "rawfile"
    <2>1. Steps(s, e) = RawfileSteps(s) BY <1>4 DEF Steps
    <2>2. Len(RawfileSteps(s)) = 6 BY DEF RawfileSteps
    <2>3. DOMAIN RawfileSteps(s) = 1 .. 6 BY RawfileKeys
    <2> QED BY <2>1, <2>2, <2>3
  <1>5. CASE e = "mayastor"
    <2>1. Steps(s, e) = MayastorSteps(s) BY <1>5 DEF Steps
    <2>2. Len(MayastorSteps(s)) = 24 BY DEF MayastorSteps
    <2>3. DOMAIN MayastorSteps(s) = 1 .. 24 BY MayastorKeys
    <2> QED BY <2>1, <2>2, <2>3
  <1> QED BY <1>1, <1>2, <1>3, <1>4, <1>5 DEF Engines

\* The calls of an engine's deploy function, whichever engine it is.
LEMMA CallPlaced ==
    ASSUME NEW s, NEW e \in Engines, NEW i \in DOMAIN Steps(s, e)
    PROVE  Place(s, e, Steps(s, e)[i])
  <1>1. CASE e = "lvm"
    <2>1. Steps(s, e) = LVMSteps(s) BY <1>1 DEF Steps
    <2> QED BY <1>1, <2>1, LVMPlaced
  <1>2. CASE e = "zfs"
    <2>1. Steps(s, e) = ZFSSteps(s) BY <1>2 DEF Steps
    <2> QED BY <1>2, <2>1, ZFSPlaced
  <1>3. CASE e = "hostpath"
    <2>1. Steps(s, e) = HostpathSteps(s) BY <1>3 DEF Steps
    <2> QED BY <1>3, <2>1, HostpathPlaced
  <1>4. CASE e = "rawfile"
    <2>1. Steps(s, e) = RawfileSteps(s) BY <1>4 DEF Steps
    <2> QED BY <1>4, <2>1, RawfilePlaced
  <1>5. CASE e = "mayastor"
    <2>1. Steps(s, e) = MayastorSteps(s) BY <1>5 DEF Steps
    <2> QED BY <1>5, <2>1, MayastorPlaced
  <1> QED BY <1>1, <1>2, <1>3, <1>4, <1>5 DEF Engines

\* Two calls of one deploy function for one object are one call.
LEMMA CallsApart ==
    ASSUME NEW s, NEW e \in Engines, NEW i \in DOMAIN Steps(s, e), NEW j \in DOMAIN Steps(s, e),
           Steps(s, e)[i].obj = Steps(s, e)[j].obj
    PROVE  i = j \/ Steps(s, e)[i].how = "etcdhealth" \/ Steps(s, e)[j].how = "etcdhealth"
  <1>1. CASE e = "lvm"
    <2>1. Steps(s, e) = LVMSteps(s) BY <1>1 DEF Steps
    <2> QED BY <2>1, LVMApart
  <1>2. CASE e = "zfs"
    <2>1. Steps(s, e) = ZFSSteps(s) BY <1>2 DEF Steps
    <2> QED BY <2>1, ZFSApart
  <1>3. CASE e = "hostpath"
    <2>1. Steps(s, e) = HostpathSteps(s) BY <1>3 DEF Steps
    <2> QED BY <2>1, HostpathApart
  <1>4. CASE e = "rawfile"
    <2>1. Steps(s, e) = RawfileSteps(s) BY <1>4 DEF Steps
    <2> QED BY <2>1, RawfileApart
  <1>5. CASE e = "mayastor"
    <2>1. Steps(s, e) = MayastorSteps(s) BY <1>5 DEF Steps
    <2> QED BY <2>1, MayastorApart
  <1> QED BY <1>1, <1>2, <1>3, <1>4, <1>5 DEF Engines

\* No name is two engines' own.
LEMMA OwnApart ==
    ASSUME NEW e \in Engines, NEW f \in Engines, NEW o, Own(e, o), Own(f, o)
    PROVE  e = f
  <1>1. CASE o.kind \in OwnKinds BY <1>1 DEF Own
  <1>2. CASE o.kind \notin OwnKinds
    <2>1. o.name \in OwnNames(e) /\ o.name \in OwnNames(f) BY <1>2 DEF Own
    <2>2. CASE e = "lvm" BY <2>1, <2>2 DEF OwnNames, Engines
    <2>3. CASE e = "zfs" BY <2>1, <2>3 DEF OwnNames, Engines
    <2>4. CASE e = "hostpath" BY <2>1, <2>4 DEF OwnNames, Engines
    <2>5. CASE e = "rawfile" BY <2>1, <2>5 DEF OwnNames, Engines
    <2>6. CASE e = "mayastor" BY <2>1, <2>6 DEF OwnNames, Engines
    <2> QED BY <2>2, <2>3, <2>4, <2>5, <2>6 DEF Engines
  <1> QED BY <1>1, <1>2

\* The deploy functions do not write over one another (deployer.go:140-540): of a
\* spec whose classes have different names, an object is the matter of one call of
\* one engine, the etcd health check aside, or it is a namespace, which every engine
\* that needs it writes alike.
THEOREM OneWriter ==
    ASSUME NEW s, s.on \subseteq Engines,
           \A e, f \in s.on : e # f => ClassName(s, e) # ClassName(s, f),
           NEW e \in s.on, NEW f \in s.on,
           NEW i \in DOMAIN Steps(s, e), NEW j \in DOMAIN Steps(s, f),
           Steps(s, e)[i].obj = Steps(s, f)[j].obj,
           Steps(s, e)[i].how # "etcdhealth", Steps(s, f)[j].how # "etcdhealth"
    PROVE  \/ e = f /\ i = j
           \/ e # f /\ Steps(s, e)[i].how = "namespace" /\ Steps(s, e)[i] = Steps(s, f)[j]
  <1>1. CASE e = f BY <1>1, CallsApart
  <1>2. CASE e # f
    <2> DEFINE x == Steps(s, e)[i]
               y == Steps(s, f)[j]
    <2>1. Place(s, e, x) /\ Place(s, f, y) BY CallPlaced
    <2>2. x.obj = y.obj OBVIOUS
    <2>3. CASE x.obj.kind = "Namespace"
      <3>1. x = Namespace(x.obj.name) /\ y = Namespace(y.obj.name)
        BY <2>1, <2>2, <2>3 DEF Place
      <3>2. x.how = "namespace"
        BY <3>1, KeyOfCall DEF Namespace
      <3> QED BY <1>2, <2>2, <3>1, <3>2
    <2>4. x.obj.kind # "StorageClass"
      BY <1>2, <2>1, <2>2 DEF Place
    <2>5. CASE x.obj.kind # "Namespace"
      <3>1. Own(e, x.obj) /\ Own(f, x.obj) BY <2>1, <2>2, <2>4, <2>5 DEF Place
      <3> QED BY <1>2, <3>1, OwnApart
    <2> QED BY <2>3, <2>5
  <1> QED BY <1>1, <1>2

\* Only a spec that wants the Velero Schedule has a call that writes one.
LEMMA ScheduleCall ==
    ASSUME NEW s, s.on \subseteq Engines, NEW e \in s.on, NEW i \in DOMAIN Steps(s, e),
           Writes(Steps(s, e)[i]), Steps(s, e)[i].obj.kind = "Schedule"
    PROVE  ScheduleWanted(s)
  <1>1. e = "mayastor"
    <2>1. Place(s, e, Steps(s, e)[i]) BY CallPlaced
    <2> QED BY <2>1 DEF Place, Own, OwnKinds
  <1>2. Steps(s, e) = MayastorSteps(s) BY <1>1 DEF Steps
  <1>3. i = 11 BY <1>2, MayastorKeys DEF Key
  <1>4. MayastorSteps(s)[11].how = IF s.velero THEN "schedule" ELSE "unschedule"
    BY DEF MayastorSteps, Step
  <1>5. s.velero = TRUE \/ ~ s.velero OBVIOUS
  <1> QED BY <1>1, <1>2, <1>3, <1>4 DEF Writes, ScheduleWanted
==============================================================================
