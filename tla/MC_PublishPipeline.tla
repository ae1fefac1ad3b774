------------------------ MODULE MC_PublishPipeline ------------------------
(***************************************************************************)
(* Small instances of PublishPipeline, with lists of up to two posts, of   *)
(* IpfsUpload, whose outcome is all the pipeline sees of an upload, and of *)
(* Lookups, which read what was published: a behaviour is of one of them.  *)
(***************************************************************************)
EXTENDS PublishPipeline, IpfsUpload, Lookups, TLC

CONSTANTS k1, k2

MCBindLists == {<<>>, <<k1>>, <<k1, k2>>}
Symmetric == Permutations(Requests) \union Permutations(Registries)

\* Every set of configured providers, forced ones, and ones that are still
\* as in .env.example.
SomeUploads ==
    [route : {"upload"}, force : {"none", "unknown"} \cup Providers, set : SUBSET Providers,
     example : {{}}]
    \cup [route : {"upload"}, force : {"none", "pinata"}, set : {Providers, {"pinata", "infura"}},
          example : {{"pinata"}, {"web3storage", "pinata"}}]
    \cup [route : {"manifest", "manifestOnly"}, force : {"none"}, set : {{"pinata"}, {"local"}},
          example : {{}}]

NoUploads == {}

\* Two posts in the API's registry, read in both ways; one post whose manifest
\* is read; one post in three registries.
SomeCases ==
    {[kinds |-> {"resolve", "platform"}, chains |-> 1, posts |-> 2, requests |-> 2,
      changes |-> 1, failures |-> 1],
     [kinds |-> {"public-verify"}, chains |-> 1, posts |-> 1, requests |-> 2, changes |-> 2, failures |-> 1],
     [kinds |-> OverAllChains, chains |-> 3, posts |-> 1, requests |-> 1, changes |-> 2, failures |-> 2]}

NoCases == {}

MCInit ==
    /\ Init /\ UploadInit /\ LookInit
    /\ upload = NoUpload \/ about = NoCase

MCNext ==
    \/ upload = NoUpload /\ about = NoCase /\ Next /\ UNCHANGED <<uploading, lookups>>
    \/ upload # NoUpload /\ UploadNext /\ UNCHANGED <<vars, lookups>>
    \/ about # NoCase /\ LookNext /\ UNCHANGED <<vars, uploading>>

MCSpec == MCInit /\ [][MCNext]_<<vars, uploading, lookups>>
=============================================================================
