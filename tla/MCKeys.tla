-------------------------------- MODULE MCKeys --------------------------------
(***************************************************************************)
(* Small instances of the services that give users access beside single    *)
(* keys: bundles, protocol removal, proxy accesses, Hysteria2 keys.  They  *)
(* share no state here, so each behaviour runs one of them and the others  *)
(* stay as they began.                                                     *)
(***************************************************************************)
EXTENDS KeyBundles, ProtocolUninstall, ProxyAccess, HysteriaKeys

VARIABLE part

mcBasic == <<"tcp", "hy2">>
mcExtended == <<"tcp", "hy2", "http">>
mcBackendOf == [n \in {"tcp", "hy2", "http"} |-> IF n = "hy2" THEN "hysteria2" ELSE "xray"]
mcRelays == <<"r1">>
mcProxyOwner == [i \in 1 .. 3 |-> IF i = 3 THEN "bob" ELSE "alice"]
mcHyOwner == [k \in {"k1", "k2"} |-> IF k = "k1" THEN "alice" ELSE "bob"]

keysVars == <<part, bundleVars, uninstallVars, proxyVars, hyVars>>

KeysInit ==
    /\ part \in {"bundles", "uninstall", "proxy", "hysteria"}
    /\ BundlesInit /\ UninstallInit /\ ProxyInit /\ HyInit
    /\ part # "proxy" => ptype = "socks5"

KeysNext ==
    \/ part = "bundles" /\ BundlesNext /\ UNCHANGED <<part, uninstallVars, proxyVars, hyVars>>
    \/ part = "uninstall" /\ UninstallNext /\ UNCHANGED <<part, bundleVars, proxyVars, hyVars>>
    \/ part = "proxy" /\ ProxyNext /\ UNCHANGED <<part, bundleVars, uninstallVars, hyVars>>
    \/ part = "hysteria" /\ HyNext /\ UNCHANGED <<part, bundleVars, uninstallVars, proxyVars>>

KeysSpec == KeysInit /\ [][KeysNext]_keysVars
===============================================================================
