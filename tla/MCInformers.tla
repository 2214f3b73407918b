---------------------------- MODULE MCInformers ----------------------------
(***************************************************************************)
(* An instance of Informers for TLC: a native kind, the kind Event, and    *)
(* two custom resources of which one is installed.                         *)
(***************************************************************************)
EXTENDS Informers

CONSTANTS Deployment, EventKind, Rollout, HTTPProxy

Object(k) == [kind |-> k]
OneOfEach == {Object(Deployment), Object(EventKind), Object(Rollout)}
=============================================================================
