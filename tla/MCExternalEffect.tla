-------------------------- MODULE MCExternalEffect --------------------------
(***************************************************************************)
(* Instances of ExternalEffect and its audit for TLC.                      *)
(***************************************************************************)
EXTENDS EffectAudit, TLC

CONSTANTS p1, p2, e1, x1, x2

OnePacket  == {p1}
TwoPackets == {p1, p2}
ScopeOf    == [p \in {p1, p2} |-> IF p = p1 THEN "scope1" ELSE "scope2"]
OneScopeOf == [p \in {p1} |-> "scope1"]

\* Contents: as generated, another receipt over the same manifest, and artifacts
\* whose manifest can no longer be computed.
Contents      == {"released", "receipt2", "broken"}
SameManifest  == {"released", "receipt2"}
NoManifest    == {"broken"}
ReleasedOnly  == {"released"}

Bind(scope, target) == [scope |-> scope, target |-> target]
OneBinding          == {Bind("scope1", "t1")}
CollidingBindings   == {Bind("scope1", "t1"), Bind("scope2", "t1"), Bind("scope2", "t2")}

Nothing == {}
\* What another program signs with the executor key: a result for the claim of
\* the second packet that names the first, one for a request that was never
\* derived, and one that gives the first claim up.
ByHand(claim, bytes, retry) ==
  [effect |-> p1, claim |-> claim, executor |-> e1,
   request |-> [target |-> "t1", bytes |-> bytes],
   outcome |-> "FAILED", retry |-> retry]
Foreign ==
  {ByHand(<<p2, 1>>, "released", TRUE), ByHand(<<p1, 1>>, "broken", TRUE),
   ByHand(<<p1, 1>>, "released", FALSE)}

Symmetry == Permutations(Processes)
=============================================================================
