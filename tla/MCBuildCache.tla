---------------------------- MODULE MCBuildCache ----------------------------
(***************************************************************************)
(* Values of the constants of BuildCache for the model checker.            *)
(***************************************************************************)
EXTENDS BuildCache, TLC

\* Two artifacts that share a chunk, and a second chunking of the first.
ChunkedBlobs     == {"p", "q", "r", "pq"}
ChunkedManifests == {<<"p", "q">>, <<"pq">>, <<"p", "r">>}
ChunkedArtifacts == {"PQ", "PR"}
ChunkedArtifactOf == (<<"p", "q">> :> "PQ") @@ (<<"pq">> :> "PQ") @@ (<<"p", "r">> :> "PR")
ChunkedSizeOf    == ("PQ" :> 2) @@ ("PR" :> 2)

\* The same, without the second chunking.
PlainBlobs     == {"p", "q", "r"}
PlainManifests == {<<"p", "q">>, <<"p", "r">>}
PlainArtifactOf == (<<"p", "q">> :> "PQ") @@ (<<"p", "r">> :> "PR")

\* Single chunks of different sizes.
SizedBlobs     == {"a", "b"}
SizedManifests == {<<"a">>, <<"b">>}
SizedArtifacts == {"A", "B"}
SizedArtifactOf == (<<"a">> :> "A") @@ (<<"b">> :> "B")
SizedSizeOf    == ("A" :> 1) @@ ("B" :> 2)

\* A single artifact of one chunk.
OneBlob       == {"a"}
OneManifest   == {<<"a">>}
OneArtifact   == {"A"}
OneArtifactOf == <<"a">> :> "A"
OneSizeOf     == "A" :> 1

\* What clients declare: anything, or what their chunks really are, or little enough
\* for two namespaces to be explored.
AnyUploads     == Slots \X Artifacts \X Manifests
HonestUploads  == {u \in AnyUploads : ArtifactOf[u[3]] = u[2]}
UploadsOf(S)   == {u \in HonestUploads : <<u[1], u[2]>> \in S}
SourceAndNeighbours ==
  UploadsOf({<< <<"dev", 1>>, "B" >>, << <<"prod", 2>>, "A" >>, << <<"prod", 3>>, "A" >>})
SourceAndNeighbour == UploadsOf({<< <<"dev", 1>>, "B" >>, << <<"prod", 2>>, "A" >>})
SourceAndRival     == UploadsOf({<< <<"dev", 1>>, "A" >>, << <<"prod", 2>>, "B" >>})

Unlimited  == [ns \in Namespaces |-> 0]
LimitOne   == [ns \in Namespaces |-> 1]
LimitTwo   == [ns \in Namespaces |-> 2]

PinFor(t)    == [deadline |-> 0, ttl |-> t, digest |-> NoDigest, expected |-> AnyVersion]
PinIf(t, v)  == [deadline |-> 0, ttl |-> t, digest |-> NoDigest, expected |-> v]

NoPinInputs       == {}
ShortPins         == {PinFor(1)}
PinContent(c)     == [deadline |-> 0, ttl |-> 1, digest |-> c, expected |-> AnyVersion]
PinsOfA           == {PinContent("A")}
PinsOfB           == {PinContent("B")}
ConditionalPins   == {PinFor(2), PinIf(1, 1)}

\* One route between two namespaces.
ToProd       == {<< <<"dev", 1>>, <<"prod", 1>> >>}
ProdLimitTwo == [ns \in Namespaces |-> IF ns = "prod" THEN 2 ELSE 0]

Symmetry == Permutations(SessionIds) \cup Permutations(RequestIds)
=============================================================================
