-------------------------- MODULE MC_RegistryProxy --------------------------
(***************************************************************************)
(* A small instance of RegistryProxy, and in it of ContentRegistry.        *)
(***************************************************************************)
EXTENDS RegistryProxy, TLC

CONSTANTS h0, h1, h2, a1, a2, nobody

\* Contents other than the zero word are interchangeable.
Symmetry == Permutations({h1, h2})

\* Platform names as the API accepts them (no ":"), chosen so that only the
\* separator keeps "a" + "bb" and "ab" + "b" apart.
PlainPlatforms == {<<"a">>, <<"a", "b">>}
PlainIds == {<<"b">>, <<"b", "b">>}

\* Bound: a state has at most one of a changed owner or implementation, a
\* content with two keys, and a manifest URI that is not empty.
Pristine == implementation = "V1" /\ owner = Deployer
OneKeyEach == \A h \in Hashes : Len(hashToPlatformKeys[h]) <= 1
NoManifests == \A h \in Hashes : entries[h].manifestURI = EmptyURI

Bounded ==
    \/ Pristine /\ OneKeyEach
    \/ Pristine /\ NoManifests
    \/ OneKeyEach /\ NoManifests

MCSpec == ProxyInit /\ [][ProxyNext /\ Bounded']_vars
=============================================================================
