---------------------------- MODULE MCRequestChain ----------------------------
(* Instances of RequestChain for TLC. *)
EXTENDS RequestChain, TLC

CONSTANTS r1, r2, r3, r4, r5, peer, forwarded, apikey, key

\* A keyed call and its retry, a route with a pattern of its own and one that
\* only looks like it, one request without a valid token; all behind one peer.
MCPathOf == r1 :> "/accounts/id" @@ r2 :> "/accounts"
              @@ r3 :> "/transfers" @@ r4 :> "/transfers" @@ r5 :> "/transfers"
MCPeerOf == [r \in Requests |-> peer]
MCForwardOf == [r \in Requests |-> IF r = r1 THEN None ELSE forwarded]
MCApiKeyOf == [r \in Requests |-> IF r = r4 THEN apikey ELSE None]
MCKeyOf == [r \in Requests |-> IF r \in {r3, r4} THEN key ELSE None]
MCLimits == [l \in Limiters |->
  IF l = "global" THEN [price |-> 2, burst |-> 2] ELSE [price |-> 2, burst |-> 1]]

\* Logins from one client, beside a request of the protected group.
LoginPathOf == [r \in Requests |-> IF r = r1 THEN "/accounts/id" ELSE "/login"]
LoginForwardOf == [r \in Requests |-> None]
=============================================================================
