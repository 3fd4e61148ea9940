---------------------------- MODULE MCReconciler ----------------------------
(***************************************************************************)
(* Instances of Reconciler for TLC: a few specs over the real tables.      *)
(***************************************************************************)
EXTENDS Reconciler

NoClass == [e \in Engines |-> ""]
OnePool == [e \in Engines |-> "p1"]

Plain(on) == [on |-> on, class |-> NoClass, pool |-> OnePool, tune |-> "t1",
              snap |-> "", velero |-> FALSE, veleroNs |-> "velero"]

Hostpath        == Plain({"hostpath"})
HostpathRenamed == [Hostpath EXCEPT !.class["hostpath"] = "fast"]

\* A second engine, and another base path for the first: an edit one way
\* replaces a StorageClass, the other way it leaves orphans as well.
TwoEngines == [Plain({"hostpath", "rawfile"}) EXCEPT !.pool["hostpath"] = "p2"]
LocalSpecs == {Hostpath, TwoEngines}
MovedSpecs == {Hostpath, HostpathRenamed, [Hostpath EXCEPT !.pool["hostpath"] = "p2"]}
RenameSpecs == {Hostpath, HostpathRenamed}

HostpathClass      == Obj("StorageClass", "", "openebs-hostpath")
HostpathDeployment == Obj("Deployment", "openebs", "openebs-localpv-provisioner")

NoObjects     == {}
LocalForeign  == {HostpathClass, HostpathDeployment}
LocalTampered == {HostpathClass, Obj("ServiceAccount", "openebs", "openebs-rawfile-provisioner")}
OneTampered   == {HostpathClass}

\* Mayastor with a Velero schedule; with another etcd volume and no schedule;
\* and instead of it the two CSI engines, with a class and the tuning changed.
Mayastor      == [Plain({"mayastor"}) EXCEPT !.velero = TRUE]
MayastorMoved == [Mayastor EXCEPT !.pool["mayastor"] = "p2", !.velero = FALSE]
LVMAndZFS     == [Plain({"lvm", "zfs"}) EXCEPT !.class["lvm"] = "fast", !.tune = "t2"]
EngineSpecs   == {Mayastor, MayastorMoved, LVMAndZFS}
EtcdForeign   == {Obj("StatefulSet", "mayastor", "mayastor-etcd"), Obj("Service", "mayastor", "mayastor-etcd")}

\* Mayastor, switched off, and with a volume of its own and no schedule.
MayastorSpecs == {Mayastor, MayastorMoved, Plain({})}

\* One of the DaemonSets the sweep takes away once Mayastor is off.
OneDaemonSet == {Obj("DaemonSet", "mayastor", "mayastor-io-engine")}

\* The schedule switched off and its namespace changed in one edit.
ScheduleSpecs == {Mayastor, [Mayastor EXCEPT !.velero = FALSE, !.veleroNs = "backup"]}
=============================================================================
