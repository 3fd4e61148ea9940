-------------------------- MODULE MCEtcdBootstrap --------------------------
(***************************************************************************)
(* Instances of EtcdBootstrap for TLC.                                     *)
(***************************************************************************)
EXTENDS EtcdBootstrap

\* Unset, one, and the number that still has a majority when one is lost.
OneOrThree == {0, 1, 3}
OneOrTwo   == {1, 2}

AnyImage == {"obliging", "etcd"}
OnlyEtcd == {"etcd"}
=============================================================================
