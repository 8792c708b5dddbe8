---------------------------- MODULE MCMulchProxy -----------------------------
(***************************************************************************)
(* Three parts of the mulch-proxy program that share no state: its requests *)
(* (HTTPProxy), its TCP ports (PortServer) and its place in a chain of      *)
(* proxies (ProxyChain).  In a behavior one part, chosen at the start,      *)
(* takes all the steps, and the others stay in one initial state: the       *)
(* states of the parts add up and do not multiply.                          *)
(***************************************************************************)
EXTENDS HTTPProxy, PortServer, ProxyChain, TLC

CONSTANTS a, b     \* the two clients of the ports

VARIABLE part

\* A domain that is proxied, and then redirected.
Redirection == { "h" :> {[redirects |-> FALSE]}, "h" :> {[redirects |-> TRUE]} }

\* A public port that changes of VM, and a port of a group that loses a client.
To(i, n) == [ip |-> i, port |-> n]
Forwards ==
    { 80 :> (Star :> To("vm1", 1)),
      80 :> (Star :> To("vm2", 1)) @@ 9001 :> (a :> To("vm1", 2) @@ b :> To("vm2", 2)),
      80 :> (Star :> To("vm1", 2)) @@ 9001 :> (a :> To("vm2", 2)) }

\* The files the parts that wait have loaded.
NoRedirection == "h" :> {[redirects |-> FALSE]}
OnePort == 80 :> (Star :> To("vm1", 1))

Init ==
    /\ part \in {"http", "port", "chain"}
    /\ HTTPInit /\ (part # "http" => domainDB[1] = NoRedirection)
    /\ PortsInit /\ (part # "port" => portDB = OnePort)
    /\ ChainInit

NextRequest == HTTPNext /\ UNCHANGED <<part, portVars, chainVars>>
NextPort == PortsNext /\ UNCHANGED <<part, httpVars, chainVars>>
NextChain == ChainNext /\ UNCHANGED <<part, httpVars, portVars>>

Next ==
    \/ part = "http" /\ NextRequest
    \/ part = "port" /\ NextPort
    \/ part = "chain" /\ NextChain

vars == <<part, httpVars, portVars, chainVars>>
Spec == Init /\ [][Next]_vars

-----------------------------------------------------------------------------
\* The variables of each part have their types.
TypeOK == HTTPTypeOK /\ PortsTypeOK /\ ChainTypeOK

=============================================================================
