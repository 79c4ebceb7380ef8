---------------------------- MODULE OciRegistry ----------------------------
(***************************************************************************)
(* The writable buildcache namespace (oci/registry.go, registry_push.go,   *)
(* authz.go, token.go): clients push layers, then the manifest and its tag *)
(* and others pull, while the route's policy changes.  Every request is    *)
(* decided on the route as it is then; the manifest and its tag are two    *)
(* Puts of one request.  A manifest is the set of its layers.              *)
(***************************************************************************)
EXTENDS Naturals, FiniteSets

CONSTANTS
    Pushers, Readers,     \* clients by what they do ...
    Members, Writers,     \* ... with a credential of the project, and with one that may write
    Layers,
    MaxPolicies,          \* bound on policy changes
    MaxFaults             \* bound on storage errors, wrong bodies and disconnects

OciRegistryAssumption ==
    /\ Writers \subseteq Members /\ Members \subseteq Pushers \cup Readers
    /\ Pushers \cap Readers = {} /\ {MaxPolicies, MaxFaults} \subseteq Nat

ASSUME OciRegistryConstants == OciRegistryAssumption

Clients == Pushers \cup Readers
Manifests == SUBSET Layers \ {{}}
None == "none"
NoManifest == {}

VARIABLES
    route,       \* enabled, read_auth_required
    blobs, manifests, tag,   \* the three namespaces
    cli,         \* per client: where it is, the manifest it is about, the layers left, the
                 \* token it holds
    policies, faults

vars == <<route, blobs, manifests, tag, cli, policies, faults>>

Client(at, m, todo, b, token) == [at |-> at, m |-> m, todo |-> todo, b |-> b, token |-> token]
Idle == Client("idle", NoManifest, {}, None, None)

Init ==
    /\ route \in [enabled : {TRUE}, auth : BOOLEAN]
    /\ blobs = {} /\ manifests = {} /\ tag = NoManifest
    /\ cli = [c \in Clients |-> Idle]
    /\ policies = 0 /\ faults = 0

\* A client moves on, with the token it holds ...
Becomes(c, at, m, todo, b) == cli' = [cli EXCEPT ![c] = Client(at, m, todo, b, cli[c].token)]

\* ... and with what it is about.
Answer(c, at) == Becomes(c, at, cli[c].m, cli[c].todo, cli[c].b)

Fault == faults < MaxFaults /\ faults' = faults + 1

\* The control plane enables, disables, opens or closes the route.
SetPolicy ==
    /\ policies < MaxPolicies /\ policies' = policies + 1
    /\ \E r \in [enabled : BOOLEAN, auth : BOOLEAN] : r # route /\ route' = r
    /\ UNCHANGED <<blobs, manifests, tag, cli, faults>>

-----------------------------------------------------------------------------
(* Authorization *)

\* principal: the token names one, unless it is the anonymous token.
Principal(c) == cli[c].token = "own"

\* authorize: an open route lets everyone read.
Authorize(c) == route.auth => Principal(c) /\ c \in Members

\* Mutant: any principal may write.
AuthorizeWrite_Any(c) == Principal(c)

\* authorizeWrite: a principal that may write, whatever the route says of reads.
AuthorizeWrite(c) == Principal(c) /\ c \in Writers

\* 401 with a challenge, or 403 for a principal that may not write.
Refused(c, write) ==
    Becomes(c, IF ~(write /\ Principal(c)) /\ cli[c].token = None THEN "challenge" ELSE "denied",
            cli[c].m, cli[c].todo, None)

\* The client takes up its work again, with this token.
Retries(c, token) ==
    cli' = [cli EXCEPT ![c] = Client(IF c \in Pushers THEN "push" ELSE "pull",
                                     cli[c].m, cli[c].todo, cli[c].b, token)]

\* Mutant: the token endpoint hands out the anonymous token.
ServeToken_Anonymous(c) ==
    /\ cli[c].at = "challenge"
    /\ Retries(c, "anonymous")
    /\ UNCHANGED <<route, blobs, manifests, tag, policies, faults>>

\* serveToken: the credential presented comes back as the token; a client without one gets
\* the anonymous token.
ServeToken(c) ==
    /\ cli[c].at = "challenge"
    /\ Retries(c, IF c \in Members THEN "own" ELSE "anonymous")
    /\ UNCHANGED <<route, blobs, manifests, tag, policies, faults>>

-----------------------------------------------------------------------------
(* Push *)

StartPush(c) ==
    /\ cli[c].at \in {"idle", "acked", "denied", "failed"}
    /\ \E m \in Manifests : Becomes(c, "push", m, m, None)
    /\ UNCHANGED <<route, blobs, manifests, tag, policies, faults>>

\* A layer is there: on to the next.
LayerDone(c) == Becomes(c, "push", cli[c].m, cli[c].todo \ {cli[c].b}, None)

\* The client takes its next layer, or the manifest when none is left.
NextLayer(c) ==
    /\ cli[c].at = "push"
    /\ \/ \E b \in cli[c].todo : Becomes(c, "head", cli[c].m, cli[c].todo, b)
       \/ cli[c].todo = {} /\ Answer(c, "manifest")
    /\ UNCHANGED <<route, blobs, manifests, tag, policies, faults>>

\* serve, serveRead and serveCachedBlob on HEAD: a layer that is there is not sent again.  A
\* disabled route falls through to the mirror, which holds nothing of this name.
HeadBlob(c) ==
    /\ cli[c].at = "head"
    /\ \/ ~route.enabled /\ Answer(c, "post")
       \/ route.enabled /\ ~Authorize(c) /\ Refused(c, FALSE)
       \/ /\ route.enabled /\ Authorize(c)
          /\ IF cli[c].b \in blobs THEN LayerDone(c) ELSE Answer(c, "post")
    /\ UNCHANGED <<route, blobs, manifests, tag, policies, faults>>

\* serveUploadStart.
ServeUploadStart(c) ==
    /\ cli[c].at = "post"
    /\ \/ ~route.enabled /\ Answer(c, "failed")
       \/ route.enabled /\ ~AuthorizeWrite(c) /\ Refused(c, TRUE)
       \/ route.enabled /\ AuthorizeWrite(c) /\ Answer(c, "upload")
    /\ UNCHANGED <<route, blobs, manifests, tag, policies, faults>>

\* Mutant: a body that is not the digest named is acknowledged.
PutBlob_AcksMismatch(c) ==
    /\ cli[c].at = "upload" /\ route.enabled /\ AuthorizeWrite(c)
    /\ LayerDone(c)
    /\ \/ Fault /\ UNCHANGED blobs
       \/ blobs' = blobs \cup {cli[c].b} /\ UNCHANGED faults
    /\ UNCHANGED <<route, manifests, tag, policies>>

\* servePut of an upload and putBlob: the bytes must be the digest named, or 400; a storage
\* error is a 500.
PutBlob(c) ==
    /\ cli[c].at = "upload"
    /\ \/ ~route.enabled /\ Answer(c, "failed") /\ UNCHANGED <<blobs, faults>>
       \/ route.enabled /\ ~AuthorizeWrite(c) /\ Refused(c, TRUE) /\ UNCHANGED <<blobs, faults>>
       \/ route.enabled /\ AuthorizeWrite(c) /\ Fault /\ Answer(c, "failed") /\ UNCHANGED blobs
       \/ /\ route.enabled /\ AuthorizeWrite(c) /\ blobs' = blobs \cup {cli[c].b}
          /\ LayerDone(c) /\ UNCHANGED faults
    /\ UNCHANGED <<route, manifests, tag, policies>>

\* servePut and putManifest: the manifest goes in under its own digest ...
PutManifest(c) ==
    /\ cli[c].at = "manifest"
    /\ \/ ~route.enabled /\ Answer(c, "failed") /\ UNCHANGED <<manifests, faults>>
       \/ route.enabled /\ ~AuthorizeWrite(c) /\ Refused(c, TRUE) /\ UNCHANGED <<manifests, faults>>
       \/ route.enabled /\ AuthorizeWrite(c) /\ Fault /\ Answer(c, "failed") /\ UNCHANGED manifests
       \/ /\ route.enabled /\ AuthorizeWrite(c) /\ manifests' = manifests \cup {cli[c].m}
          /\ Answer(c, "tag") /\ UNCHANGED faults
    /\ UNCHANGED <<route, blobs, tag, policies>>

\* ... and the tag after it, within the same request: the route is not looked at again.
PointTag(c) ==
    /\ cli[c].at = "tag"
    /\ \/ Fault /\ Answer(c, "failed") /\ UNCHANGED tag
       \/ tag' = cli[c].m /\ Answer(c, "acked") /\ UNCHANGED faults
    /\ UNCHANGED <<route, blobs, manifests, policies>>

\* The client goes away; the request's context ends with it.
Disconnect(c) ==
    /\ cli[c].at \in {"upload", "manifest", "tag", "serve"} /\ Fault /\ Answer(c, "failed")
    /\ UNCHANGED <<route, blobs, manifests, tag, policies>>

-----------------------------------------------------------------------------
(* Pull *)

StartPull(c) ==
    /\ cli[c].at \in {"idle", "ok", "404", "denied", "failed"}
    /\ Becomes(c, "pull", NoManifest, {}, cli[c].b)
    /\ UNCHANGED <<route, blobs, manifests, tag, policies, faults>>

\* serveCachedManifest by tag: the row is read past the cache.
ServeTag(c) ==
    /\ cli[c].at = "pull"
    /\ \/ ~route.enabled /\ Answer(c, "404")
       \/ route.enabled /\ ~Authorize(c) /\ Refused(c, FALSE)
       \/ /\ route.enabled /\ Authorize(c)
          /\ Becomes(c, IF tag = NoManifest THEN "404" ELSE "serve", tag, cli[c].todo, cli[c].b)
    /\ UNCHANGED <<route, blobs, manifests, tag, policies, faults>>

\* writeManifest: the bytes, by the digest the tag row gave.
ServeManifest(c) ==
    /\ cli[c].at = "serve"
    /\ IF cli[c].m \in manifests
       THEN Becomes(c, "layers", cli[c].m, cli[c].m, cli[c].b)
       ELSE Answer(c, "missing")
    /\ UNCHANGED <<route, blobs, manifests, tag, policies, faults>>

\* serveCachedBlob: the layers, one request each.
ServeBlob(c) ==
    /\ cli[c].at = "layers"
    /\ \/ cli[c].todo = {} /\ Answer(c, "ok")
       \/ cli[c].todo # {} /\ ~route.enabled /\ Answer(c, "404")
       \/ cli[c].todo # {} /\ route.enabled /\ ~Authorize(c) /\ Refused(c, FALSE)
       \/ \E b \in cli[c].todo :
             /\ route.enabled /\ Authorize(c)
             /\ IF b \in blobs
                THEN Becomes(c, "layers", cli[c].m, cli[c].todo \ {b}, cli[c].b)
                ELSE Answer(c, "missing")
    /\ UNCHANGED <<route, blobs, manifests, tag, policies, faults>>

-----------------------------------------------------------------------------
Push(c) == NextLayer(c) \/ HeadBlob(c) \/ ServeUploadStart(c) \/ PutBlob(c) \/ PutManifest(c) \/ PointTag(c)
Pull(c) == ServeTag(c) \/ ServeManifest(c) \/ ServeBlob(c)

Next ==
    \/ SetPolicy
    \/ \E c \in Clients : ServeToken(c) \/ Disconnect(c)
    \/ \E c \in Pushers : StartPush(c) \/ Push(c)
    \/ \E c \in Readers : StartPull(c) \/ Pull(c)

Spec == Init /\ [][Next]_vars

-----------------------------------------------------------------------------
(* Properties *)

\* Nobody who has read the tag finds its manifest or one of its layers missing, however
\* pushes are cut short, repeated or refused half way.
NothingMissing == \A c \in Readers : cli[c].at # "missing"

\* The namespaces change only in a request of a client whose credential may write.
OnlyWritersWrite ==
    <<blobs, manifests, tag>>' # <<blobs, manifests, tag>> =>
        \E c \in Writers : cli[c].token = "own" /\ cli'[c] # cli[c]

=============================================================================
