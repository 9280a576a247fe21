------------------------------- MODULE MCProxy ------------------------------
(***************************************************************************)
(* Parts that users drive, one moving at a time: the two sides of a phone's *)
(* proxy, ProxyLease with two calls at a time by one owner who may have one *)
(* lease, and RelayAgent, the process that a lease starts; capture sessions *)
(* and their files, Sessions; and the development of a plugin, PluginDev.   *)
(***************************************************************************)
EXTENDS ProxyLease, RelayAgent, PluginDev, Sessions, TLC

Symmetry == Permutations(Callers) \cup Permutations(CtrlPorts) \cup Permutations(GrpcPorts)

VARIABLE which

proxyVars == <<which, leaseVars, relVars, devVars, sesVars>>

ProxyInit == which \in {"lease", "relay", "plugin", "sessions"} /\ LeaseInit /\ RelInit /\ DevInit /\ SesInit

ProxyNext ==
    \/ which = "lease" /\ LeaseNext /\ UNCHANGED <<which, relVars, devVars, sesVars>>
    \/ which = "relay" /\ RelNext /\ UNCHANGED <<which, leaseVars, devVars, sesVars>>
    \/ which = "plugin" /\ DevNext /\ UNCHANGED <<which, leaseVars, relVars, sesVars>>
    \/ which = "sessions" /\ SesNext /\ UNCHANGED <<which, leaseVars, relVars, devVars>>

ProxySpec == ProxyInit /\ [][ProxyNext]_proxyVars
=============================================================================
