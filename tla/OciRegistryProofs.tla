------------------------- MODULE OciRegistryProofs -------------------------
(***************************************************************************)
(* Proofs about the writable registry: a reader that has the tag finds its *)
(* manifest and every layer, and only credentials that may write change a  *)
(* namespace, the second Put of a manifest's request included.  And about  *)
(* the Bazel remote cache: an action that is answered has its outputs.     *)
(***************************************************************************)
EXTENDS OciRegistry, Bazel, TLAPS

Stages == {"idle", "push", "head", "post", "upload", "manifest", "tag", "acked", "challenge",
           "denied", "failed", "pull", "404", "serve", "layers", "ok", "missing"}

ClientStates == [at : Stages, m : SUBSET Layers, todo : SUBSET Layers, b : Layers \cup {None},
                 token : {None, "own", "anonymous"}]

\* Types of the namespaces and the clients.
RegistryTypes ==
    /\ cli \in [Clients -> ClientStates]
    /\ manifests \subseteq SUBSET Layers

\* The namespaces: a manifest's layers are there before it, and it before its tag.
NamespacesNest ==
    /\ \A m \in manifests : m \subseteq blobs
    /\ tag \in manifests \cup {NoManifest}

\* A pusher has seen or stored every layer it does not have left, has none left when it
\* sends the manifest, and is still the one that was let in when it points the tag.
PusherInOrder(c) ==
    /\ cli[c].m \ cli[c].todo \subseteq blobs
    /\ cli[c].at \in {"head", "post", "upload"} => cli[c].b \in Layers
    /\ cli[c].at \in {"manifest", "tag"} => cli[c].todo = {}
    /\ cli[c].at = "tag" => cli[c].m \in manifests /\ c \in Writers /\ cli[c].token = "own"
    /\ cli[c].at \notin {"serve", "layers", "pull"}

\* A reader asks for what was there when it learned of it, and nothing goes away.
ReaderInOrder(c) ==
    /\ cli[c].at = "serve" => cli[c].m \in manifests
    /\ cli[c].at = "layers" => cli[c].todo \subseteq blobs
    /\ cli[c].at \notin {"missing", "head", "post", "upload", "manifest", "tag"}

RegistryInv ==
    /\ RegistryTypes /\ NamespacesNest
    /\ \A c \in Pushers : PusherInOrder(c)
    /\ \A c \in Readers : ReaderInOrder(c)

-----------------------------------------------------------------------------
(* Steps of one client *)

\* A client's step keeps the others in order, since the namespaces only grow.
LEMMA ClientStep ==
    ASSUME RegistryInv, NEW c \in Clients, NEW r \in ClientStates, cli' = [cli EXCEPT ![c] = r],
           blobs \subseteq blobs', manifests \subseteq manifests', manifests' \subseteq SUBSET Layers,
           NamespacesNest', c \in Pushers => PusherInOrder(c)', c \in Readers => ReaderInOrder(c)'
    PROVE  RegistryInv'
  <1>1. cli' \in [Clients -> ClientStates]
    BY DEF RegistryInv, RegistryTypes
  <1>2. \A d \in Clients \ {c} : cli'[d] = cli[d]
    BY DEF RegistryInv, RegistryTypes
  <1>3. ASSUME NEW d \in Pushers PROVE PusherInOrder(d)'
    <2>1. CASE d # c
      <3>1. cli'[d] = cli[d]
        BY <1>2, <2>1 DEF Clients
      <3> QED
        BY <3>1 DEF RegistryInv, PusherInOrder
    <2> QED
      BY <2>1
  <1>4. ASSUME NEW d \in Readers PROVE ReaderInOrder(d)'
    <2>1. CASE d # c
      <3>1. cli'[d] = cli[d]
        BY <1>2, <2>1 DEF Clients
      <3> QED
        BY <3>1 DEF RegistryInv, ReaderInOrder
    <2> QED
      BY <2>1
  <1> QED
    BY <1>1, <1>3, <1>4 DEF RegistryInv, RegistryTypes

LEMMA BecomesIs ==
    ASSUME RegistryInv, NEW c \in Clients, NEW at \in Stages, NEW m \in SUBSET Layers,
           NEW todo \in SUBSET Layers, NEW b \in Layers \cup {None}, Becomes(c, at, m, todo, b)
    PROVE  /\ Client(at, m, todo, b, cli[c].token) \in ClientStates
           /\ cli' = [cli EXCEPT ![c] = Client(at, m, todo, b, cli[c].token)]
           /\ cli'[c].at = at /\ cli'[c].m = m /\ cli'[c].todo = todo /\ cli'[c].b = b
           /\ cli'[c].token = cli[c].token
  <1>1. cli \in [Clients -> ClientStates] /\ cli[c] \in ClientStates
    BY DEF RegistryInv, RegistryTypes
  <1>2. Client(at, m, todo, b, cli[c].token) \in ClientStates
    BY <1>1 DEF Client, ClientStates
  <1>3. cli'[c] = Client(at, m, todo, b, cli[c].token)
    BY <1>1 DEF Becomes
  <1> QED
    BY <1>2, <1>3 DEF Becomes, Client

\* Where a client is, of what kind.
LEMMA ClientIs ==
    ASSUME RegistryInv, NEW c \in Clients
    PROVE  /\ cli[c] \in ClientStates /\ cli[c].m \in SUBSET Layers /\ cli[c].todo \in SUBSET Layers
           /\ cli[c].b \in Layers \cup {None}
           /\ c \in Pushers => PusherInOrder(c) /\ c \notin Readers
           /\ c \in Readers => ReaderInOrder(c) /\ c \notin Pushers
  BY OciRegistryConstants DEF OciRegistryAssumption, RegistryInv, RegistryTypes, ClientStates

\* A pusher moves on with the namespaces as they were.
LEMMA PusherMoves ==
    ASSUME RegistryInv, NEW c \in Pushers, NEW at \in Stages, NEW m \in SUBSET Layers,
           NEW todo \in SUBSET Layers, NEW b \in Layers \cup {None}, Becomes(c, at, m, todo, b),
           UNCHANGED <<blobs, manifests, tag>>, m \ todo \subseteq blobs,
           at \in {"head", "post", "upload"} => b \in Layers, at = "manifest" => todo = {},
           at \notin {"tag", "serve", "layers", "pull"}
    PROVE  RegistryInv'
  <1>1. c \in Clients /\ c \notin Readers
    BY OciRegistryConstants DEF OciRegistryAssumption, Clients
  <1>2. PusherInOrder(c)'
    <2>1. cli'[c].at = at /\ cli'[c].m = m /\ cli'[c].todo = todo /\ cli'[c].b = b
      BY <1>1, BecomesIs
    <2> QED
      BY <2>1 DEF PusherInOrder
  <1>3. NamespacesNest'
    BY DEF NamespacesNest, RegistryInv
  <1> QED
    BY <1>1, <1>2, <1>3, BecomesIs, ClientStep DEF RegistryInv, RegistryTypes

\* A reader does.
LEMMA ReaderMoves ==
    ASSUME RegistryInv, NEW c \in Readers, NEW at \in Stages, NEW m \in SUBSET Layers,
           NEW todo \in SUBSET Layers, NEW b \in Layers \cup {None}, Becomes(c, at, m, todo, b),
           UNCHANGED <<blobs, manifests, tag>>, at = "serve" => m \in manifests,
           at = "layers" => todo \subseteq blobs,
           at \notin {"missing", "head", "post", "upload", "manifest", "tag"}
    PROVE  RegistryInv'
  <1>1. c \in Clients /\ c \notin Pushers
    BY OciRegistryConstants DEF OciRegistryAssumption, Clients
  <1>2. ReaderInOrder(c)'
    <2>1. cli'[c].at = at /\ cli'[c].m = m /\ cli'[c].todo = todo
      BY <1>1, BecomesIs
    <2> QED
      BY <2>1 DEF ReaderInOrder
  <1>3. NamespacesNest'
    BY DEF NamespacesNest, RegistryInv
  <1> QED
    BY <1>1, <1>2, <1>3, BecomesIs, ClientStep DEF RegistryInv, RegistryTypes

\* Answers that end a request of either.
LEMMA RequestEnds ==
    ASSUME RegistryInv, NEW c \in Clients, UNCHANGED <<blobs, manifests, tag>>,
           \/ Answer(c, "failed") \/ Answer(c, "404")
           \/ Refused(c, TRUE) \/ Refused(c, FALSE)
    PROVE  RegistryInv'
  <1> USE ClientIs
  <1>1. PICK at \in {"failed", "404", "challenge", "denied"}, b \in Layers \cup {None} :
           Becomes(c, at, cli[c].m, cli[c].todo, b)
    BY DEF Answer, Refused
  <1>2. at \in Stages
    BY DEF Stages
  <1>3. CASE c \in Pushers
    BY <1>1, <1>2, <1>3, PusherMoves DEF PusherInOrder
  <1>4. CASE c \in Readers
    BY <1>1, <1>2, <1>4, ReaderMoves
  <1> QED
    BY <1>3, <1>4 DEF Clients

-----------------------------------------------------------------------------
(* Pushes *)

LEMMA PushKeeps ==
    ASSUME RegistryInv, NEW c \in Pushers, StartPush(c) \/ Push(c)
    PROVE  RegistryInv'
  <1>1. c \in Clients /\ c \notin Readers /\ PusherInOrder(c) /\ NamespacesNest
    BY OciRegistryConstants DEF OciRegistryAssumption, Clients, RegistryInv
  <1> USE ClientIs
  <1>2. CASE StartPush(c)
    <2>1. PICK m \in Manifests : Becomes(c, "push", m, m, None)
      BY <1>2 DEF StartPush
    <2> QED
      BY <1>2, <2>1, PusherMoves DEF StartPush, Manifests, Stages
  <1>3. CASE NextLayer(c)
    <2>1. ASSUME NEW b \in cli[c].todo, Becomes(c, "head", cli[c].m, cli[c].todo, b) PROVE RegistryInv'
      BY <1>1, <1>3, <2>1, PusherMoves DEF NextLayer, Stages, PusherInOrder
    <2>2. CASE cli[c].todo = {} /\ Answer(c, "manifest")
      BY <1>1, <1>3, <2>2, PusherMoves DEF NextLayer, Stages, PusherInOrder, Answer
    <2> QED
      BY <1>3, <2>1, <2>2 DEF NextLayer
  <1>4. CASE HeadBlob(c)
    <2>1. UNCHANGED <<blobs, manifests, tag>> /\ cli[c].b \in Layers
      BY <1>1, <1>4 DEF HeadBlob, PusherInOrder
    <2>2. CASE Answer(c, "post")
      BY <1>1, <2>1, <2>2, PusherMoves DEF Stages, PusherInOrder, Answer
    <2>3. CASE cli[c].b \in blobs /\ LayerDone(c)
      BY <1>1, <2>1, <2>3, PusherMoves DEF Stages, PusherInOrder, LayerDone
    <2> QED
      BY <1>1, <1>4, <2>1, <2>2, <2>3, RequestEnds DEF HeadBlob
  <1>5. CASE ServeUploadStart(c)
    <2>1. UNCHANGED <<blobs, manifests, tag>> /\ cli[c].b \in Layers
      BY <1>1, <1>5 DEF ServeUploadStart, PusherInOrder
    <2>2. CASE Answer(c, "upload")
      BY <1>1, <2>1, <2>2, PusherMoves DEF Stages, PusherInOrder, Answer
    <2> QED
      BY <1>1, <1>5, <2>1, <2>2, RequestEnds DEF ServeUploadStart
  <1>6. CASE PutBlob(c)
    <2>1. UNCHANGED <<manifests, tag>>
      BY <1>6 DEF PutBlob
    <2>2. CASE UNCHANGED blobs /\ (Answer(c, "failed") \/ Refused(c, TRUE))
      BY <1>1, <2>1, <2>2, RequestEnds
    <2>3. CASE blobs' = blobs \cup {cli[c].b} /\ LayerDone(c)
      <3>1. Becomes(c, "push", cli[c].m, cli[c].todo \ {cli[c].b}, None)
        BY <2>3 DEF LayerDone
      <3>2. PusherInOrder(c)'
        <4>1. cli'[c].at = "push" /\ cli'[c].m = cli[c].m /\ cli'[c].todo = cli[c].todo \ {cli[c].b}
          <5>1. "push" \in Stages /\ None \in Layers \cup {None} /\ cli[c].todo \ {cli[c].b} \in SUBSET Layers
            BY <1>1 DEF Stages
          <5> QED
            BY <1>1, <3>1, <5>1, BecomesIs
        <4>2. cli[c].m \ cli[c].todo \subseteq blobs
          BY <1>1 DEF PusherInOrder
        <4>3. cli'[c].m \ cli'[c].todo \subseteq blobs'
          BY <2>3, <4>1, <4>2
        <4> QED
          BY <4>1, <4>3 DEF PusherInOrder
      <3>3. NamespacesNest'
        BY <1>1, <2>1, <2>3 DEF NamespacesNest
      <3> QED
        BY <1>1, <2>1, <2>3, <3>1, <3>2, <3>3, BecomesIs, ClientStep DEF Stages, RegistryInv, RegistryTypes
    <2> QED
      BY <1>6, <2>2, <2>3 DEF PutBlob
  <1>7. CASE PutManifest(c)
    <2>1. UNCHANGED <<blobs, tag>>
      BY <1>7 DEF PutManifest
    <2>2. CASE UNCHANGED manifests /\ (Answer(c, "failed") \/ Refused(c, TRUE))
      BY <1>1, <2>1, <2>2, RequestEnds
    <2>3. CASE AuthorizeWrite(c) /\ manifests' = manifests \cup {cli[c].m} /\ Answer(c, "tag")
      <3>1. Becomes(c, "tag", cli[c].m, cli[c].todo, cli[c].b)
        BY <2>3 DEF Answer
      <3>2. cli[c].todo = {} /\ cli[c].m \subseteq blobs
        BY <1>1, <1>7 DEF PutManifest, PusherInOrder
      <3>3. PusherInOrder(c)'
        BY <1>1, <2>1, <2>3, <3>1, <3>2, BecomesIs DEF Stages, PusherInOrder, AuthorizeWrite, Principal
      <3>4. NamespacesNest'
        BY <1>1, <2>1, <2>3, <3>2 DEF NamespacesNest
      <3> QED
        BY <1>1, <2>1, <2>3, <3>1, <3>3, <3>4, BecomesIs, ClientStep DEF Stages, RegistryInv, RegistryTypes
    <2> QED
      BY <1>7, <2>2, <2>3 DEF PutManifest
  <1>8. CASE PointTag(c)
    <2>1. UNCHANGED <<blobs, manifests>>
      BY <1>8 DEF PointTag
    <2>2. CASE UNCHANGED tag /\ Answer(c, "failed")
      BY <1>1, <2>1, <2>2, RequestEnds
    <2>3. CASE tag' = cli[c].m /\ Answer(c, "acked")
      <3>1. Becomes(c, "acked", cli[c].m, cli[c].todo, cli[c].b)
        BY <2>3 DEF Answer
      <3>2. PusherInOrder(c)'
        <4>1. cli'[c].at = "acked" /\ cli'[c].m = cli[c].m /\ cli'[c].todo = cli[c].todo
          BY <1>1, <3>1, BecomesIs DEF Stages
        <4> QED
          BY <1>1, <2>1, <4>1 DEF PusherInOrder
      <3>3. NamespacesNest'
        BY <1>1, <1>8, <2>1, <2>3 DEF NamespacesNest, PointTag, PusherInOrder
      <3> QED
        BY <1>1, <2>1, <3>1, <3>2, <3>3, BecomesIs, ClientStep DEF Stages, RegistryInv, RegistryTypes
    <2> QED
      BY <1>8, <2>2, <2>3 DEF PointTag
  <1> QED
    BY <1>2, <1>3, <1>4, <1>5, <1>6, <1>7, <1>8 DEF Push

-----------------------------------------------------------------------------
(* Pulls *)

LEMMA PullKeeps ==
    ASSUME RegistryInv, NEW c \in Readers, StartPull(c) \/ Pull(c)
    PROVE  RegistryInv'
  <1>1. /\ c \in Clients /\ ReaderInOrder(c) /\ NamespacesNest
        /\ UNCHANGED <<blobs, manifests, tag>> /\ manifests \subseteq SUBSET Layers
    BY DEF Clients, RegistryInv, RegistryTypes, StartPull, Pull, ServeTag, ServeManifest, ServeBlob
  <1> USE ClientIs
  <1>2. CASE StartPull(c)
    BY <1>1, <1>2, ReaderMoves DEF StartPull, Stages, NoManifest
  <1>3. CASE ServeTag(c)
    <2>1. CASE Becomes(c, IF tag = NoManifest THEN "404" ELSE "serve", tag, cli[c].todo, cli[c].b)
      <3>1. tag \in SUBSET Layers /\ (tag # NoManifest => tag \in manifests)
        BY <1>1 DEF NamespacesNest, NoManifest
      <3> QED
        BY <1>1, <2>1, <3>1, ReaderMoves DEF Stages
    <2> QED
      BY <1>1, <1>3, <2>1, RequestEnds DEF ServeTag
  <1>4. CASE ServeManifest(c)
    <2>1. cli[c].m \in manifests /\ cli[c].m \subseteq blobs
      BY <1>1, <1>4 DEF ServeManifest, ReaderInOrder, NamespacesNest
    <2>2. Becomes(c, "layers", cli[c].m, cli[c].m, cli[c].b)
      BY <1>4, <2>1 DEF ServeManifest
    <2> QED
      BY <1>1, <2>1, <2>2, ReaderMoves DEF Stages
  <1>5. CASE ServeBlob(c)
    <2>1. cli[c].todo \subseteq blobs
      BY <1>1, <1>5 DEF ServeBlob, ReaderInOrder
    <2>2. CASE Answer(c, "ok")
      BY <1>1, <2>2, ReaderMoves DEF Stages, Answer
    <2>3. ASSUME NEW b \in cli[c].todo, Becomes(c, "layers", cli[c].m, cli[c].todo \ {b}, cli[c].b)
          PROVE  RegistryInv'
      BY <1>1, <2>1, <2>3, ReaderMoves DEF Stages
    <2> QED
      BY <1>1, <1>5, <2>1, <2>2, <2>3, RequestEnds DEF ServeBlob
  <1> QED
    BY <1>2, <1>3, <1>4, <1>5 DEF Pull

-----------------------------------------------------------------------------
(* The specification *)

\* A token is fetched and the work taken up again.
LEMMA TokenKeeps ==
    ASSUME RegistryInv, NEW c \in Clients, ServeToken(c)
    PROVE  RegistryInv'
  <1> USE ClientIs
  <1> DEFINE token == IF c \in Members THEN "own" ELSE "anonymous"
             r == Client(IF c \in Pushers THEN "push" ELSE "pull", cli[c].m, cli[c].todo, cli[c].b, token)
  <1>1. cli' = [cli EXCEPT ![c] = r] /\ UNCHANGED <<blobs, manifests, tag>>
    BY DEF ServeToken, Retries
  <1>2. r \in ClientStates
    BY DEF Client, ClientStates, Stages
  <1>3. cli'[c] = r
    BY <1>1 DEF RegistryInv, RegistryTypes
  <1>4. r.at = (IF c \in Pushers THEN "push" ELSE "pull") /\ r.m = cli[c].m /\ r.todo = cli[c].todo
    BY DEF Client
  <1> HIDE DEF r
  <1>5. c \in Pushers => PusherInOrder(c)'
    BY <1>1, <1>3, <1>4 DEF PusherInOrder
  <1>6. c \in Readers => ReaderInOrder(c)'
    BY <1>1, <1>3, <1>4 DEF ReaderInOrder
  <1>7. NamespacesNest'
    BY <1>1 DEF NamespacesNest, RegistryInv
  <1> QED
    BY <1>1, <1>2, <1>5, <1>6, <1>7, ClientStep DEF RegistryInv, RegistryTypes

LEMMA RegistryStep ==
    ASSUME RegistryInv, [Next]_vars
    PROVE  RegistryInv'
  <1>1. ASSUME UNCHANGED <<blobs, manifests, tag, cli>> PROVE RegistryInv'
    BY <1>1 DEF RegistryInv, RegistryTypes, NamespacesNest, PusherInOrder, ReaderInOrder
  <1>2. CASE UNCHANGED vars \/ SetPolicy
    BY <1>1, <1>2 DEF vars, SetPolicy
  <1>3. ASSUME NEW c \in Clients, Disconnect(c) PROVE RegistryInv'
    BY <1>3, RequestEnds DEF Disconnect
  <1> QED
    BY <1>2, <1>3, TokenKeeps, PushKeeps, PullKeeps DEF Next

LEMMA RegistryInit ==
    ASSUME Init
    PROVE  RegistryInv
  <1>1. Idle \in ClientStates
    BY DEF Idle, Client, ClientStates, Stages, NoManifest
  <1>2. \A c \in Clients : cli[c].at = "idle" /\ cli[c].m = {} /\ cli[c].todo = {}
    BY DEF Init, Idle, Client, NoManifest
  <1> QED
    BY <1>1, <1>2 DEF Init, RegistryInv, RegistryTypes, NamespacesNest, PusherInOrder, ReaderInOrder,
                    Clients

\* Nobody who has read the tag finds its manifest or one of its layers missing, for any
\* number of pushers, readers, layers, policy changes and faults: layers are stored before
\* the manifest that names them, and the manifest before its tag.
THEOREM PullsFindEverything == Spec => []NothingMissing
  <1>1. RegistryInv => NothingMissing
    BY DEF RegistryInv, ReaderInOrder, NothingMissing
  <1> QED
    BY <1>1, RegistryInit, RegistryStep, PTL DEF Spec

\* The namespaces change only in a request of a client whose credential may write.  The tag
\* is pointed without another look at the credential: it is the one the manifest came with.
THEOREM NamespacesAreWritersOnly == Spec => [][OnlyWritersWrite]_vars
  <1>1. ASSUME RegistryInv, [Next]_vars PROVE [OnlyWritersWrite]_vars
    <2>1. ASSUME UNCHANGED <<blobs, manifests, tag>> PROVE OnlyWritersWrite
      BY <2>1 DEF OnlyWritersWrite
    <2>2. ASSUME NEW c \in Pushers, PutBlob(c) \/ PutManifest(c) \/ PointTag(c) PROVE OnlyWritersWrite
      <3>1. c \in Clients /\ PusherInOrder(c)
        BY <1>1 DEF Clients, RegistryInv
      <3>2. CASE UNCHANGED <<blobs, manifests, tag>>
        BY <2>1, <3>2
      <3>3. CASE ~UNCHANGED <<blobs, manifests, tag>>
        <4>1. PICK at, todo, b : at # cli[c].at /\ Becomes(c, at, cli[c].m, todo, b)
          BY <2>2, <3>3 DEF PutBlob, PutManifest, PointTag, LayerDone, Answer
        <4>2. cli'[c].at = at
          BY <1>1, <3>1, <4>1 DEF RegistryInv, RegistryTypes, Becomes, Client
        <4>3. c \in Writers /\ cli[c].token = "own"
          BY <2>2, <3>1, <3>3 DEF PutBlob, PutManifest, PointTag, AuthorizeWrite, Principal, PusherInOrder
        <4> QED
          BY <4>1, <4>2, <4>3 DEF OnlyWritersWrite
      <3> QED
        BY <3>2, <3>3
    <2>3. CASE UNCHANGED vars \/ SetPolicy
      BY <2>1, <2>3 DEF vars, SetPolicy
    <2>4. ASSUME NEW c \in Clients, ServeToken(c) \/ Disconnect(c) PROVE OnlyWritersWrite
      BY <2>1, <2>4 DEF ServeToken, Disconnect
    <2>5. ASSUME NEW c \in Pushers, StartPush(c) \/ Push(c) PROVE OnlyWritersWrite
      BY <2>1, <2>2, <2>5 DEF StartPush, Push, NextLayer, HeadBlob, ServeUploadStart
    <2>6. ASSUME NEW c \in Readers, StartPull(c) \/ Pull(c) PROVE OnlyWritersWrite
      BY <2>1, <2>6 DEF StartPull, Pull, ServeTag, ServeManifest, ServeBlob
    <2> QED
      BY <1>1, <2>3, <2>4, <2>5, <2>6 DEF Next
  <1> QED
    BY <1>1, RegistryInit, RegistryStep, PTL DEF Spec

-----------------------------------------------------------------------------
(* Bazel: hot actions keep their outputs, for any builds, any windows and   *)
(* any length of a run.                                                     *)
(*                                                                          *)
(* What an action needs is younger than its row plus the time a build       *)
(* takes; a run that has spared the row finds it, when it comes to the CAS, *)
(* within the longer window.  A build's own answers and uploads are younger *)
(* than the build.                                                          *)

BuildSteps == {"rest", "built", "hit", "upload", "update", "lost"}

BuildStates ==
    [at : BuildSteps, r : Results \cup {NoResult}, todo : SUBSET Cas, ticks : Nat]

BazelTypes ==
    /\ ac \in Results \cup {NoResult} /\ acAge \in Nat /\ age \in [Cas -> 0 .. Gone]
    /\ build \in [Builds -> BuildStates]
    /\ gc \in [at : {"idle", "ac", "cas"}, ticks : Nat]

\* What a build counts on, from the state b it is in and the ages a.
CountsOn(b, a) ==
    /\ b.at # "lost"
    /\ b.at # "rest" => b.ticks <= Patience /\ b.r \in Results
    /\ b.at = "hit" => b.todo \subseteq Needed(b.r) /\ \A o \in Needed(b.r) : a[o] <= b.ticks
    /\ b.at \in {"upload", "update"} =>
          \A o \in Needed(b.r) : a[o] <= b.ticks \/ (b.at = "upload" /\ o \in b.todo /\ a[o] = Gone)

\* What a recorded action needs is there, and not much older than its row.
ActionIsComplete ==
    ac # NoResult => \A o \in Needed(ac) : age[o] # Gone /\ age[o] <= acAge + Patience

\* A run that is past the action cache has spared the row.
SparedRowIsYoung == gc.at = "cas" /\ ac # NoResult => acAge <= WindowAc + gc.ticks

BazelInv ==
    /\ BazelTypes /\ ActionIsComplete /\ SparedRowIsYoung
    /\ \A c \in Builds : CountsOn(build[c], age)

\* The ages and windows, as numbers.
LEMMA BazelNumbers ==
  ASSUME BazelAssumption
  PROVE  /\ WindowAc \in Nat /\ WindowCas \in Nat /\ Patience \in Nat /\ MaxRun \in Nat
         /\ WindowAc + Patience <= WindowCas
         /\ Oldest \in Nat /\ Gone = Oldest + 1 /\ Patience < Oldest /\ WindowCas < Oldest
  BY DEF BazelAssumption, Oldest, Gone

LEMMA SumIsNat == \A x, y \in Nat : x + y \in Nat /\ 0 <= x + y
  OBVIOUS

LEMMA NeededIsCas ==
  /\ \A r \in Results : Needed(r) \subseteq Cas
  /\ NoResult \notin Results
  BY DEF Needed, Outputs, TreeContents, Results, Cas, NoResult

\* A step that makes what is there no older, and takes nothing away, leaves every build
\* what it counts on.
LEMMA YoungerIsFine ==
  ASSUME BazelAssumption, BazelInv, NEW a \in [Cas -> 0 .. Gone],
         \A o \in Cas : a[o] = age[o] \/ a[o] = 0
  PROVE  /\ \A c \in Builds : CountsOn(build[c], a)
         /\ ac # NoResult => \A o \in Needed(ac) : a[o] # Gone /\ a[o] <= acAge + Patience
  <1>1. Gone \in Nat /\ Gone # 0 /\ Patience \in Nat
    BY BazelNumbers
  <1>2. ASSUME NEW c \in Builds PROVE CountsOn(build[c], a)
    <2>1. build[c] \in BuildStates /\ CountsOn(build[c], age)
      BY DEF BazelInv, BazelTypes
    <2>2. build[c].ticks \in Nat
      BY <2>1 DEF BuildStates
    <2>3. \A r \in Results : \A o \in Needed(r) : o \in Cas
      BY NeededIsCas
    <2> QED
      BY <2>1, <2>2, <2>3 DEF CountsOn
  <1>3. ASSUME ac # NoResult, NEW o \in Needed(ac) PROVE a[o] # Gone /\ a[o] <= acAge + Patience
    <2>1. o \in Cas /\ age[o] # Gone /\ age[o] <= acAge + Patience /\ acAge \in Nat
      BY <1>3, NeededIsCas DEF BazelInv, BazelTypes, ActionIsComplete
    <2> QED
      BY <1>1, <2>1
  <1> QED
    BY <1>2, <1>3

\* A step of one build, of which the others notice only younger ages.
LEMMA BuildStep ==
  ASSUME BazelAssumption, BazelInv, NEW c \in Builds,
         build' \in [Builds -> BuildStates], \A d \in Builds : d # c => build'[d] = build[d],
         CountsOn(build'[c], age'), age' \in [Cas -> 0 .. Gone],
         \A x \in Cas : age'[x] = age[x] \/ age'[x] = 0,
         ac' = ac, gc' = gc, acAge' \in Nat, acAge' <= acAge,
         acAge' = acAge \/ (ac # NoResult => \A x \in Needed(ac) : age'[x] = 0)
  PROVE  BazelInv'
  <1>2. BazelTypes'
    BY DEF BazelInv, BazelTypes
  <1>3. ASSUME NEW d \in Builds PROVE CountsOn(build'[d], age')
    <2>1. CASE d = c
      BY <2>1
    <2>2. CASE d # c
      <3>1. CountsOn(build[d], age')
        BY YoungerIsFine
      <3> QED
        BY <2>2, <3>1
    <2> QED
      BY <2>1, <2>2
  <1>4. ActionIsComplete'
    <2> SUFFICES ASSUME ac # NoResult, NEW o \in Needed(ac)
                 PROVE  age'[o] # Gone /\ age'[o] <= acAge' + Patience
      BY DEF ActionIsComplete
    <2>1. age'[o] # Gone /\ age'[o] <= acAge + Patience
      BY YoungerIsFine
    <2>2. Patience \in Nat /\ acAge \in Nat
      BY BazelNumbers DEF BazelInv, BazelTypes
    <2>3. CASE acAge' = acAge
      BY <2>1, <2>3
    <2>4. CASE age'[o] = 0
      <3>1. acAge' \in Nat /\ 0 <= acAge' + Patience
        BY <2>2, SumIsNat
      <3> QED
        BY ONLY <2>1, <2>4, <3>1
    <2> QED
      BY <2>3, <2>4
  <1>5. SparedRowIsYoung'
    <2>1. acAge \in Nat /\ gc.ticks \in Nat /\ WindowAc \in Nat
      BY BazelNumbers DEF BazelInv, BazelTypes
    <2> QED
      BY <2>1 DEF BazelInv, SparedRowIsYoung
  <1> QED
    BY <1>2, <1>3, <1>4, <1>5 DEF BazelInv, CountsOn, Gone

-----------------------------------------------------------------------------
(* One lemma per call *)

LEMMA BuildTypes ==
  ASSUME BazelInv, NEW c \in Builds
  PROVE  /\ build[c] \in BuildStates /\ CountsOn(build[c], age)
         /\ build[c].ticks \in Nat /\ build[c].todo \subseteq Cas
         /\ age \in [Cas -> 0 .. Gone] /\ acAge \in Nat /\ ac \in Results \cup {NoResult}
  BY DEF BazelInv, BazelTypes, BuildStates

LEMMA RestIsFine == Rest \in BuildStates /\ \A a : CountsOn(Rest, a)
  BY DEF Rest, BuildStates, BuildSteps, CountsOn

\* What a step that gives one build a new state leaves of the others.
LEMMA BuildSet ==
  ASSUME BazelInv, NEW c \in Builds, NEW b \in BuildStates, build' = [build EXCEPT ![c] = b]
  PROVE  /\ build' \in [Builds -> BuildStates] /\ build'[c] = b
         /\ \A d \in Builds : d # c => build'[d] = build[d]
  BY DEF BazelInv, BazelTypes

\* A build gives up or is done.
LEMMA DoneKeeps ==
  ASSUME BazelAssumption, BazelInv, NEW c \in Builds, Done(c), age' \in [Cas -> 0 .. Gone],
         \A o \in Cas : age'[o] = age[o] \/ age'[o] = 0, UNCHANGED <<ac, acAge, gc>>
  PROVE  BazelInv'
  <1>0. Rest \in BuildStates /\ CountsOn(Rest, age')
    BY RestIsFine
  <1>1. /\ build' \in [Builds -> BuildStates] /\ build'[c] = Rest
        /\ \A d \in Builds : d # c => build'[d] = build[d]
    BY <1>0 DEF Done, BazelInv, BazelTypes
  <1>2. acAge' \in Nat /\ acAge' <= acAge /\ acAge' = acAge
    BY DEF BazelInv, BazelTypes
  <1> QED
    BY <1>0, <1>1, <1>2, BuildStep

LEMMA GetActionResultKeeps ==
  ASSUME BazelAssumption, BazelInv, NEW c \in Builds, GetActionResult(c)
  PROVE  BazelInv'
  <1>1. /\ age \in [Cas -> 0 .. Gone] /\ acAge \in Nat /\ ac \in Results \cup {NoResult}
        /\ Gone \in Nat /\ Patience \in Nat /\ ac' = ac /\ gc' = gc
    BY BuildTypes, BazelNumbers DEF GetActionResult
  <1>2. CASE ac = NoResult
    <2>1. PICK r \in Results : build' = [build EXCEPT ![c] = [at |-> "built", r |-> r, todo |-> {}, ticks |-> 0]]
      BY <1>2 DEF GetActionResult
    <2> DEFINE b == [at |-> "built", r |-> r, todo |-> {}, ticks |-> 0]
    <2>2. b \in BuildStates /\ CountsOn(b, age')
      BY <1>1 DEF BuildStates, BuildSteps, CountsOn
    <2>3. age' = age /\ acAge' = acAge
      BY <1>2 DEF GetActionResult
    <2> HIDE DEF b
    <2>4. build' = [build EXCEPT ![c] = b]
      BY <2>1 DEF b
    <2>5. /\ build' \in [Builds -> BuildStates] /\ build'[c] = b
          /\ \A d \in Builds : d # c => build'[d] = build[d]
      BY <2>2, <2>4, BuildSet
    <2> QED
      BY <1>1, <2>2, <2>3, <2>5, BuildStep
  <1>3. CASE ac # NoResult
    <2> DEFINE b == [at |-> "hit", r |-> ac, todo |-> Needed(ac), ticks |-> 0]
    <2>1. acAge' = 0 /\ age' = TouchOutputs(ac) /\ build' = [build EXCEPT ![c] = b]
      BY <1>3 DEF GetActionResult
    <2>2. \A o \in Needed(ac) : Present(o)
      BY <1>3 DEF BazelInv, ActionIsComplete, Present
    <2>3. Needed(ac) \subseteq Outputs(ac) \cup (IF Present("t") THEN TreeContents(ac) ELSE {})
      BY <1>1, <1>3, <2>2 DEF Needed, Outputs, TreeContents, Results
    <2>4. age' \in [Cas -> 0 .. Gone] /\ \A o \in Cas : age'[o] = age[o] \/ age'[o] = 0
      BY <1>1, <2>1 DEF TouchOutputs
    <2>5. \A o \in Needed(ac) : age'[o] = 0
      BY <1>1, <1>3, <2>1, <2>2, <2>3, NeededIsCas DEF TouchOutputs
    <2>6. b \in BuildStates
      BY <1>1, <1>3, NeededIsCas DEF BuildStates, BuildSteps
    <2>7. CountsOn(b, age')
      BY <1>1, <1>3, <2>5 DEF CountsOn
    <2> HIDE DEF b
    <2>8. /\ build' \in [Builds -> BuildStates] /\ build'[c] = b
          /\ \A d \in Builds : d # c => build'[d] = build[d]
      BY <2>1, <2>6, BuildSet
    <2> QED
      BY <1>1, <2>1, <2>4, <2>5, <2>7, <2>8, BuildStep
  <1> QED
    BY <1>2, <1>3

LEMMA ReadKeeps ==
  ASSUME BazelAssumption, BazelInv, NEW c \in Builds, Read(c)
  PROVE  BazelInv'
  <1>1. /\ build[c] \in BuildStates /\ CountsOn(build[c], age) /\ build[c].ticks \in Nat
        /\ age \in [Cas -> 0 .. Gone] /\ acAge \in Nat /\ Gone \in Nat /\ Patience < Gone
        /\ build[c].at = "hit" /\ ac' = ac /\ gc' = gc /\ acAge' = acAge
        /\ build[c].todo \subseteq Cas
    BY BuildTypes, BazelNumbers DEF Read
  <1>2. CASE Done(c) /\ UNCHANGED age
    BY <1>1, <1>2, DoneKeeps
  <1>3. ASSUME NEW o \in build[c].todo,
               IF Present(o) THEN build' = [build EXCEPT ![c].todo = @ \ {o}] ELSE Go(c, "lost"),
               age' = IF Present(o) THEN [age EXCEPT ![o] = 0] ELSE age
        PROVE  BazelInv'
    <2>1. build[c].r \in Results /\ o \in Needed(build[c].r) /\ age[o] <= build[c].ticks /\ build[c].ticks <= Patience
          /\ o \in Cas
      BY <1>1 DEF CountsOn
    <2>2. Present(o)
      BY <1>1, <2>1, BazelNumbers DEF Present
    <2> DEFINE b == [build[c] EXCEPT !.todo = build[c].todo \ {o}]
    <2>3. build' = [build EXCEPT ![c] = b] /\ age' = [age EXCEPT ![o] = 0]
      BY <1>3, <2>2
    <2>4. /\ b \in BuildStates /\ b.at = "hit" /\ b.r = build[c].r /\ b.ticks = build[c].ticks
          /\ b.todo = build[c].todo \ {o}
      BY <1>1 DEF BuildStates
    <2>5. age' \in [Cas -> 0 .. Gone] /\ \A x \in Cas : age'[x] = age[x] \/ age'[x] = 0
      BY <1>1, <2>3
    <2>6. CountsOn(b, age')
      <3>1. CountsOn(build[c], age')
        BY <2>5, YoungerIsFine
      <3> HIDE DEF b
      <3> QED
        BY <1>1, <2>4, <3>1 DEF CountsOn
    <2> HIDE DEF b
    <2>7. /\ build' \in [Builds -> BuildStates] /\ build'[c] = b
          /\ \A d \in Builds : d # c => build'[d] = build[d]
      BY <2>3, <2>4, BuildSet
    <2> QED
      BY <1>1, <2>5, <2>6, <2>7, BuildStep
  <1> QED
    BY <1>2, <1>3 DEF Read

LEMMA FindMissingBlobsKeeps ==
  ASSUME BazelAssumption, BazelInv, NEW c \in Builds, FindMissingBlobs(c)
  PROVE  BazelInv'
  <1> DEFINE missing == {o \in Needed(build[c].r) : ~Present(o)}
             b1 == [build[c] EXCEPT !.at = "upload"]
             b == [b1 EXCEPT !.todo = missing]
  <1>1. /\ build[c] \in BuildStates /\ CountsOn(build[c], age) /\ build[c].ticks \in Nat
        /\ age \in [Cas -> 0 .. Gone] /\ acAge \in Nat /\ Gone \in Nat
        /\ build[c].at = "built" /\ ac' = ac /\ gc' = gc /\ acAge' = acAge
    BY BuildTypes, BazelNumbers DEF FindMissingBlobs
  <1>2. build[c].r \in Results /\ Needed(build[c].r) \subseteq Cas /\ build[c].ticks <= Patience
    BY <1>1, NeededIsCas DEF CountsOn
  <1>3. build' = [build EXCEPT ![c] = b]
    <2>1. build' = [build EXCEPT ![c].at = "upload", ![c].todo = missing]
      BY Zenon DEF FindMissingBlobs
    <2>2. [build EXCEPT ![c].at = "upload", ![c].todo = missing]
            = [[build EXCEPT ![c].at = "upload"] EXCEPT ![c].todo = missing]
      BY Zenon
    <2>3. [build EXCEPT ![c].at = "upload"] = [build EXCEPT ![c] = b1]
      BY Zenon
    <2> QED
      BY <2>1, <2>2, <2>3 DEF BazelInv, BazelTypes
  <1>4. b1 \in BuildStates /\ b1.at = "upload" /\ b1.r = build[c].r /\ b1.ticks = build[c].ticks
    BY <1>1 DEF BuildStates, BuildSteps
  <1> HIDE DEF b1
  <1>5. b \in BuildStates /\ b.at = "upload" /\ b.r = build[c].r /\ b.ticks = build[c].ticks /\ b.todo = missing
    BY <1>2, <1>4 DEF BuildStates
  <1>6. age' \in [Cas -> 0 .. Gone] /\ (\A o \in Cas : age'[o] = age[o] \/ age'[o] = 0)
        /\ \A o \in Needed(build[c].r) : age'[o] = IF Present(o) THEN 0 ELSE age[o]
    BY <1>1, <1>2 DEF FindMissingBlobs
  <1> HIDE DEF b
  <1>7. CountsOn(b, age')
    BY <1>1, <1>2, <1>5, <1>6 DEF CountsOn, Present
  <1>8. /\ build' \in [Builds -> BuildStates] /\ build'[c] = b
        /\ \A d \in Builds : d # c => build'[d] = build[d]
    BY <1>3, <1>5, BuildSet
  <1> QED
    BY <1>1, <1>6, <1>7, <1>8, BuildStep

LEMMA WriteKeeps ==
  ASSUME BazelAssumption, BazelInv, NEW c \in Builds, Write(c)
  PROVE  BazelInv'
  <1>1. /\ build[c] \in BuildStates /\ CountsOn(build[c], age) /\ build[c].ticks \in Nat
        /\ age \in [Cas -> 0 .. Gone] /\ acAge \in Nat /\ Gone \in Nat
        /\ build[c].at = "upload" /\ ac' = ac /\ gc' = gc /\ acAge' = acAge
        /\ build[c].todo \subseteq Cas
    BY BuildTypes, BazelNumbers DEF Write
  <1>2. PICK o \in build[c].todo :
          age' = [age EXCEPT ![o] = 0] /\ build' = [build EXCEPT ![c].todo = @ \ {o}]
    BY DEF Write
  <1> DEFINE b == [build[c] EXCEPT !.todo = build[c].todo \ {o}]
  <1>3. build' = [build EXCEPT ![c] = b]
    BY <1>2
  <1>4. /\ b \in BuildStates /\ b.at = "upload" /\ b.r = build[c].r /\ b.ticks = build[c].ticks
        /\ b.todo = build[c].todo \ {o}
    BY <1>1 DEF BuildStates
  <1>5. age' \in [Cas -> 0 .. Gone] /\ (\A x \in Cas : age'[x] = age[x] \/ age'[x] = 0) /\ age'[o] = 0
    BY <1>1, <1>2
  <1> HIDE DEF b
  <1>6. CountsOn(build[c], age')
    BY <1>5, YoungerIsFine
  <1>7. CountsOn(b, age')
    BY <1>1, <1>4, <1>5, <1>6 DEF CountsOn
  <1>8. /\ build' \in [Builds -> BuildStates] /\ build'[c] = b
        /\ \A d \in Builds : d # c => build'[d] = build[d]
    BY <1>3, <1>4, BuildSet
  <1> QED
    BY <1>1, <1>5, <1>7, <1>8, BuildStep

\* A build goes on to record, with everything it needs there.
LEMMA GoesOn ==
  ASSUME BazelAssumption, BazelInv, NEW c \in Builds, build[c].at = "upload",
         NEW a \in [Cas -> 0 .. Gone],
         \A o \in Cas : a[o] = age[o] \/ a[o] = 0,
         \A o \in build[c].todo : age[o] = Gone => a[o] = 0,
         NEW b \in BuildStates, b.at = "update", b.r = build[c].r, b.ticks = build[c].ticks
  PROVE  CountsOn(b, a)
  <1>1. CountsOn(build[c], age) /\ build[c].ticks \in Nat /\ Gone \in Nat /\ Gone # 0
    BY BuildTypes, BazelNumbers
  <1>2. b.r \in Results /\ Needed(b.r) \subseteq Cas
    BY <1>1, NeededIsCas DEF CountsOn
  <1>3. ASSUME NEW o \in Needed(b.r) PROVE a[o] <= b.ticks
    <2>1. age[o] <= b.ticks \/ (o \in build[c].todo /\ age[o] = Gone)
      BY <1>1 DEF CountsOn
    <2>2. a[o] = age[o] \/ a[o] = 0
      BY <1>2
    <2> QED
      BY <1>1, <2>1, <2>2
  <1> QED
    BY <1>1, <1>2, <1>3 DEF CountsOn

LEMMA UploadedKeeps ==
  ASSUME BazelAssumption, BazelInv, NEW c \in Builds, Uploaded(c)
  PROVE  BazelInv'
  <1> DEFINE b == [build[c] EXCEPT !.at = "update"]
  <1>1. /\ build[c] \in BuildStates /\ age \in [Cas -> 0 .. Gone] /\ acAge \in Nat
        /\ build[c].at = "upload" /\ build[c].todo = {}
        /\ ac' = ac /\ gc' = gc /\ acAge' = acAge /\ age' = age
    BY BuildTypes DEF Uploaded
  <1>2. build' = [build EXCEPT ![c] = b]
    BY DEF Uploaded, Go
  <1>3. b \in BuildStates /\ b.at = "update" /\ b.r = build[c].r /\ b.ticks = build[c].ticks
    BY <1>1 DEF BuildStates, BuildSteps
  <1> HIDE DEF b
  <1>4. CountsOn(b, age)
    BY <1>1, <1>3, GoesOn
  <1>5. /\ build' \in [Builds -> BuildStates] /\ build'[c] = b
        /\ \A d \in Builds : d # c => build'[d] = build[d]
    BY <1>2, <1>3, BuildSet
  <1> QED
    BY <1>1, <1>4, <1>5, BuildStep

LEMMA BatchUpdateBlobsKeeps ==
  ASSUME BazelAssumption, BazelInv, NEW c \in Builds, BatchUpdateBlobs(c)
  PROVE  BazelInv'
  <1>1. /\ build[c] \in BuildStates /\ age \in [Cas -> 0 .. Gone] /\ acAge \in Nat
        /\ build[c].at = "upload" /\ build[c].todo \subseteq Cas /\ Gone \in Nat
        /\ ac' = ac /\ gc' = gc /\ acAge' = acAge
    BY BuildTypes, BazelNumbers DEF BatchUpdateBlobs
  <1>2. PICK fail \in SUBSET build[c].todo :
          /\ fail = {} => build' = [build EXCEPT ![c].at = "update", ![c].todo = {}]
          /\ fail # {} => Done(c)
          /\ age' = [o \in Cas |-> IF o \in build[c].todo \ fail /\ ~Present(o) THEN 0 ELSE age[o]]
    BY DEF BatchUpdateBlobs
  <1>3. age' \in [Cas -> 0 .. Gone] /\ \A o \in Cas : age'[o] = age[o] \/ age'[o] = 0
    BY <1>1, <1>2
  <1>4. CASE fail # {}
    BY <1>1, <1>2, <1>3, <1>4, DoneKeeps
  <1>5. CASE fail = {}
    <2> DEFINE b1 == [build[c] EXCEPT !.at = "update"]
               b == [b1 EXCEPT !.todo = {}]
    <2>1. build' = [build EXCEPT ![c] = b]
      <3>1. build' = [build EXCEPT ![c].at = "update", ![c].todo = {}]
        BY <1>2, <1>5
      <3>2. [build EXCEPT ![c].at = "update", ![c].todo = {}]
              = [[build EXCEPT ![c].at = "update"] EXCEPT ![c].todo = {}]
        BY Zenon
      <3>3. [build EXCEPT ![c].at = "update"] = [build EXCEPT ![c] = b1]
        BY Zenon
      <3> QED
        BY <3>1, <3>2, <3>3 DEF BazelInv, BazelTypes
    <2>2. b1 \in BuildStates /\ b1.at = "update" /\ b1.r = build[c].r /\ b1.ticks = build[c].ticks
      BY <1>1 DEF BuildStates, BuildSteps
    <2> HIDE DEF b1
    <2>3. b \in BuildStates /\ b.at = "update" /\ b.r = build[c].r /\ b.ticks = build[c].ticks
      BY <2>2 DEF BuildStates
    <2> HIDE DEF b
    <2>4. \A o \in build[c].todo : age[o] = Gone => age'[o] = 0
      BY <1>1, <1>2, <1>5 DEF Present
    <2>5. CountsOn(b, age')
      BY <1>1, <1>3, <2>3, <2>4, GoesOn
    <2>6. /\ build' \in [Builds -> BuildStates] /\ build'[c] = b
          /\ \A d \in Builds : d # c => build'[d] = build[d]
      BY <2>1, <2>3, BuildSet
    <2> QED
      BY <1>1, <1>3, <2>5, <2>6, BuildStep
  <1> QED
    BY <1>4, <1>5

LEMMA UpdateActionResultKeeps ==
  ASSUME BazelAssumption, BazelInv, NEW c \in Builds, UpdateActionResult(c)
  PROVE  /\ BazelInv' /\ \A o \in Needed(ac') : age'[o] # Gone
  <1>1. /\ build[c].at = "update" /\ ac' = build[c].r /\ acAge' = 0 /\ Done(c)
        /\ age' = age /\ gc' = gc
    BY DEF UpdateActionResult
  <1>2. /\ CountsOn(build[c], age) /\ build[c].ticks \in Nat /\ age \in [Cas -> 0 .. Gone]
        /\ Gone \in Nat /\ Patience \in Nat /\ Patience < Gone /\ WindowAc \in Nat
    BY BuildTypes, BazelNumbers
  <1>3. ac' \in Results /\ Needed(ac') \subseteq Cas /\ build[c].ticks <= Patience
    BY <1>1, <1>2, NeededIsCas DEF CountsOn
  <1>4. ASSUME NEW o \in Needed(ac') PROVE age[o] # Gone /\ age[o] <= Patience
    <2>1. age[o] <= build[c].ticks /\ age[o] \in Nat
      BY <1>1, <1>2, <1>3 DEF CountsOn
    <2> QED
      BY <1>2, <1>3, <2>1
  <1>5. /\ build' \in [Builds -> BuildStates] /\ build'[c] = Rest
        /\ \A d \in Builds : d # c => build'[d] = build[d]
    BY <1>1, RestIsFine DEF Done, BazelInv, BazelTypes
  <1>6. BazelTypes'
    BY <1>1, <1>3, <1>5 DEF BazelInv, BazelTypes
  <1>7. ActionIsComplete'
    <2>1. acAge' + Patience = Patience
      BY <1>1, <1>2
    <2> QED
      BY <1>1, <1>4, <2>1 DEF ActionIsComplete
  <1>8. SparedRowIsYoung'
    <2>1. gc.ticks \in Nat
      BY DEF BazelInv, BazelTypes
    <2> QED
      BY <1>1, <1>2, <2>1, SumIsNat DEF SparedRowIsYoung
  <1>9. ASSUME NEW d \in Builds PROVE CountsOn(build'[d], age')
    BY <1>1, <1>5, RestIsFine DEF BazelInv
  <1> QED
    BY <1>1, <1>4, <1>6, <1>7, <1>8, <1>9 DEF BazelInv, CountsOn, Gone

LEMMA TickKeeps ==
  ASSUME BazelAssumption, BazelInv, Tick
  PROVE  BazelInv'
  <1>1. /\ WindowAc \in Nat /\ WindowCas \in Nat /\ Patience \in Nat /\ Oldest \in Nat
        /\ Gone = Oldest + 1 /\ Patience < Oldest
    BY BazelNumbers
  <1>2. acAge \in Nat /\ age \in [Cas -> 0 .. Gone] /\ build \in [Builds -> BuildStates]
        /\ ac \in Results \cup {NoResult} /\ gc.ticks \in Nat /\ gc \in [at : {"idle", "ac", "cas"}, ticks : Nat]
    BY DEF BazelInv, BazelTypes
  <1>3. /\ acAge' = IF ac = NoResult THEN acAge ELSE Older(acAge)
        /\ age' = [o \in Cas |-> Older(age[o])]
        /\ build' = [c \in Builds |-> IF build[c].at = "rest" THEN build[c]
                                      ELSE [build[c] EXCEPT !.ticks = build[c].ticks + 1]]
        /\ gc' = IF gc.at = "idle" THEN gc ELSE [gc EXCEPT !.ticks = gc.ticks + 1]
        /\ ac' = ac /\ \A c \in Builds : build[c].at = "rest" \/ build[c].ticks < Patience
    BY DEF Tick
  <1>4. \A n \in Nat : Older(n) \in Nat /\ Older(n) <= n + 1 /\ (n <= Oldest => Older(n) <= Oldest)
                       /\ (n < Oldest => Older(n) = n + 1) /\ (n >= Oldest => Older(n) = n)
    BY <1>1 DEF Older
  <1>5. \A o \in Cas : /\ age[o] \in Nat /\ age[o] <= Gone /\ age'[o] = Older(age[o])
                       /\ age'[o] \in 0 .. Gone /\ (age[o] # Gone => age'[o] # Gone)
                       /\ (age[o] = Gone => age'[o] = Gone)
    <2> SUFFICES ASSUME NEW o \in Cas
                 PROVE  /\ age[o] \in Nat /\ age[o] <= Gone /\ age'[o] = Older(age[o])
                        /\ age'[o] \in 0 .. Gone /\ (age[o] # Gone => age'[o] # Gone)
                        /\ (age[o] = Gone => age'[o] = Gone)
      OBVIOUS
    <2>1. age[o] \in Nat /\ age[o] <= Gone /\ age'[o] = Older(age[o])
      BY <1>1, <1>2, <1>3
    <2> QED
      BY <1>1, <1>4, <2>1
  <1>6. acAge' \in Nat
    BY <1>2, <1>3, <1>4
  <1>7. gc' \in [at : {"idle", "ac", "cas"}, ticks : Nat] /\ gc'.at = gc.at
        /\ gc'.ticks = (IF gc.at = "idle" THEN gc.ticks ELSE gc.ticks + 1)
    BY <1>2, <1>3
  <1>8. ASSUME NEW c \in Builds PROVE build'[c] \in BuildStates /\ CountsOn(build'[c], age')
    <2>1. build[c] \in BuildStates /\ CountsOn(build[c], age) /\ build[c].ticks \in Nat
      BY BuildTypes
    <2>2. CASE build[c].at = "rest"
      BY <1>3, <2>1, <2>2 DEF CountsOn
    <2>3. CASE build[c].at # "rest"
      <3> DEFINE b == [build[c] EXCEPT !.ticks = build[c].ticks + 1]
      <3>1. build'[c] = b
        BY <1>3, <2>3
      <3>2. b \in BuildStates /\ b.at = build[c].at /\ b.r = build[c].r /\ b.todo = build[c].todo
            /\ b.ticks = build[c].ticks + 1
        BY <2>1 DEF BuildStates
      <3> HIDE DEF b
      <3>3. b.ticks <= Patience /\ build[c].ticks < Patience /\ b.r \in Results
        BY <1>1, <1>3, <2>1, <2>3, <3>2 DEF CountsOn
      <3>4. \A o \in Cas : age[o] <= build[c].ticks => age'[o] <= b.ticks
        BY <1>1, <1>4, <1>5, <2>1, <3>2, <3>3
      <3>5. Needed(b.r) \subseteq Cas
        BY <3>3, NeededIsCas
      <3>6. CountsOn(b, age')
        BY <1>5, <2>1, <2>3, <3>2, <3>3, <3>4, <3>5 DEF CountsOn
      <3> QED
        BY <3>1, <3>2, <3>6
    <2> QED
      BY <2>2, <2>3
  <1>9. BazelTypes'
    <2>1. age' \in [Cas -> 0 .. Gone]
      BY <1>3, <1>5
    <2>2. build' \in [Builds -> BuildStates]
      BY <1>3, <1>8
    <2> QED
      BY <1>2, <1>3, <1>6, <1>7, <2>1, <2>2 DEF BazelTypes
  <1>10. ActionIsComplete'
    <2> SUFFICES ASSUME ac # NoResult, NEW o \in Needed(ac)
                 PROVE  age'[o] # Gone /\ age'[o] <= acAge' + Patience
      BY <1>3 DEF ActionIsComplete
    <2>1. o \in Cas /\ age[o] # Gone /\ age[o] <= acAge + Patience
      BY <1>2, NeededIsCas DEF BazelInv, ActionIsComplete
    <2>2. age'[o] # Gone /\ age'[o] = Older(age[o]) /\ age[o] \in Nat /\ age[o] <= Oldest
      BY <1>1, <1>5, <2>1
    <2>3. acAge' = Older(acAge)
      BY <1>3
    <2>4. CASE acAge >= Oldest
      <3>1. acAge' = acAge /\ age'[o] <= Oldest
        BY <1>2, <1>4, <2>2, <2>3, <2>4
      <3> QED
        BY <1>1, <1>2, <1>4, <2>2, <2>4, <3>1
    <2>5. CASE acAge < Oldest
      <3>1. acAge' = acAge + 1 /\ age'[o] <= age[o] + 1 /\ age'[o] \in Nat
        BY <1>2, <1>4, <2>2, <2>3, <2>5
      <3> QED
        BY <1>1, <1>2, <2>1, <2>2, <3>1
    <2> QED
      BY <1>1, <1>2, <2>4, <2>5
  <1>11. SparedRowIsYoung'
    <2> SUFFICES ASSUME gc.at = "cas", ac # NoResult PROVE acAge' <= WindowAc + gc'.ticks
      BY <1>3, <1>7 DEF SparedRowIsYoung
    <2>1. acAge <= WindowAc + gc.ticks /\ gc'.ticks = gc.ticks + 1
      BY <1>7 DEF BazelInv, SparedRowIsYoung
    <2>2. acAge' <= acAge + 1
      BY <1>2, <1>3, <1>4
    <2> QED
      BY <1>1, <1>2, <1>6, <2>1, <2>2
  <1> QED
    BY <1>8, <1>9, <1>10, <1>11 DEF BazelInv, CountsOn, Gone

\* The collector: what an action needs is within the longer window of a run that has
\* spared its row, and what a build counts on within every window.
LEMMA SweepCasKeeps ==
  ASSUME BazelAssumption, BazelInv, SweepCas
  PROVE  BazelInv'
  <1>1. /\ WindowAc \in Nat /\ WindowCas \in Nat /\ Patience \in Nat /\ Gone \in Nat /\ Patience < Gone
        /\ WindowAc + Patience <= WindowCas
    BY BazelNumbers
  <1>2. acAge \in Nat /\ age \in [Cas -> 0 .. Gone] /\ gc.ticks \in Nat /\ ac \in Results \cup {NoResult}
    BY DEF BazelInv, BazelTypes
  <1>3. /\ gc.at = "cas" /\ gc' = NoRun /\ UNCHANGED <<ac, acAge, build>>
        /\ age' = [o \in Cas |-> IF Present(o) /\ Doomed(age[o], WindowCas) THEN Gone ELSE age[o]]
    BY DEF SweepCas
  <1>4. ASSUME NEW o \in Cas, age[o] <= WindowCas + gc.ticks PROVE age'[o] = age[o]
    <2>1. ~(age[o] > WindowCas + gc.ticks)
      BY <1>1, <1>2, <1>4
    <2> QED
      BY <1>3, <2>1 DEF Doomed
  <1>5. age' \in [Cas -> 0 .. Gone] /\ \A o \in Cas : age[o] = Gone => age'[o] = Gone
    BY <1>1, <1>2, <1>3
  <1>6. ASSUME NEW c \in Builds PROVE CountsOn(build[c], age')
    <2>1. CountsOn(build[c], age) /\ build[c].ticks \in Nat
      BY BuildTypes
    <2>2. ASSUME NEW r \in Results, build[c].ticks <= Patience, NEW o \in Needed(r), age[o] <= build[c].ticks
          PROVE  age'[o] = age[o]
      <3>1. o \in Cas /\ age[o] \in Nat
        BY <1>2, NeededIsCas
      <3>2. age[o] <= WindowCas + gc.ticks
        BY <1>1, <1>2, <2>1, <2>2, <3>1
      <3> QED
        BY <1>4, <3>1, <3>2
    <2>3. \A r \in Results : Needed(r) \subseteq Cas
      BY NeededIsCas
    <2> QED
      BY <1>5, <2>1, <2>2, <2>3 DEF CountsOn
  <1>7. ActionIsComplete'
    <2> SUFFICES ASSUME ac # NoResult, NEW o \in Needed(ac)
                 PROVE  age'[o] # Gone /\ age'[o] <= acAge + Patience
      BY <1>3 DEF ActionIsComplete
    <2>1. o \in Cas /\ age[o] # Gone /\ age[o] <= acAge + Patience /\ age[o] \in Nat
      BY <1>2, NeededIsCas DEF BazelInv, ActionIsComplete
    <2>2. acAge <= WindowAc + gc.ticks
      BY <1>3 DEF BazelInv, SparedRowIsYoung
    <2>3. age[o] <= WindowCas + gc.ticks
      BY <1>1, <1>2, <2>1, <2>2
    <2> QED
      BY <1>4, <2>1, <2>3
  <1>8. BazelTypes' /\ SparedRowIsYoung'
    BY <1>2, <1>3, <1>5 DEF BazelInv, BazelTypes, SparedRowIsYoung, NoRun
  <1> QED
    BY <1>3, <1>6, <1>7, <1>8 DEF BazelInv, CountsOn, Gone

LEMMA SweepAcKeeps ==
  ASSUME BazelAssumption, BazelInv, SweepAc
  PROVE  BazelInv'
  <1>1. /\ gc.at = "ac" /\ gc' = [gc EXCEPT !.at = "cas"] /\ age' = age /\ build' = build
        /\ ac' = IF ac # NoResult /\ Doomed(acAge, WindowAc) THEN NoResult ELSE ac
        /\ acAge' = IF ac' = NoResult THEN 0 ELSE acAge
    BY DEF SweepAc
  <1>2. /\ acAge \in Nat /\ gc \in [at : {"idle", "ac", "cas"}, ticks : Nat] /\ gc.ticks \in Nat
        /\ WindowAc \in Nat
    BY BazelNumbers DEF BazelInv, BazelTypes
  <1>3. gc' \in [at : {"idle", "ac", "cas"}, ticks : Nat] /\ gc'.ticks = gc.ticks
    BY <1>1, <1>2
  <1>4. BazelTypes'
    BY <1>1, <1>2, <1>3 DEF BazelInv, BazelTypes
  <1>5. ac' # NoResult => ac' = ac /\ acAge' = acAge /\ acAge <= WindowAc + gc.ticks
    <2> SUFFICES ASSUME ac' # NoResult PROVE ac' = ac /\ acAge' = acAge /\ acAge <= WindowAc + gc.ticks
      OBVIOUS
    <2>1. ac' = ac /\ acAge' = acAge /\ ~(acAge > WindowAc + gc.ticks)
      BY <1>1 DEF Doomed
    <2> QED
      BY <1>2, <2>1
  <1>6. ActionIsComplete' /\ SparedRowIsYoung'
    BY <1>1, <1>3, <1>5 DEF BazelInv, ActionIsComplete, SparedRowIsYoung
  <1> QED
    BY <1>1, <1>4, <1>6 DEF BazelInv, CountsOn, Gone

LEMMA BazelInvInit ==
  ASSUME BazelAssumption, BazelInit
  PROVE  BazelInv
  <1>1. Gone \in Nat /\ Gone \in 0 .. Gone
    BY BazelNumbers
  <1>2. BazelTypes
    BY <1>1, RestIsFine DEF BazelInit, BazelTypes, NoRun
  <1> QED
    BY <1>2, RestIsFine DEF BazelInit, BazelInv, ActionIsComplete, SparedRowIsYoung, NoRun

\* One step: the invariant, and what is true of a result that is recorded.
LEMMA BazelInvStep ==
  ASSUME BazelAssumption, BazelInv, [BazelNext]_bazelVars
  PROVE  BazelInv'
  <1>1. CASE Tick \/ SweepAc \/ SweepCas
    BY <1>1, TickKeeps, SweepAcKeeps, SweepCasKeeps
  <1>2. CASE StartRun
    <2>1. gc' = [at |-> "ac", ticks |-> 0] /\ UNCHANGED <<ac, acAge, age, build>>
      BY <1>2 DEF StartRun
    <2> QED
      BY <2>1 DEF BazelInv, BazelTypes, ActionIsComplete, SparedRowIsYoung, CountsOn, Gone
  <1>3. ASSUME NEW c \in Builds, Refuse(c) \/ WriteFails(c) PROVE BazelInv'
    <2>1. Done(c) /\ UNCHANGED <<ac, acAge, gc, age>>
      BY <1>3 DEF Refuse, WriteFails
    <2>2. age' \in [Cas -> 0 .. Gone] /\ \A o \in Cas : age'[o] = age[o] \/ age'[o] = 0
      BY <2>1 DEF BazelInv, BazelTypes
    <2> QED
      BY <2>1, <2>2, DoneKeeps
  <1>4. ASSUME NEW c \in Builds,
               GetActionResult(c) \/ Read(c) \/ FindMissingBlobs(c) \/ Write(c)
               \/ BatchUpdateBlobs(c) \/ Uploaded(c) \/ UpdateActionResult(c)
        PROVE  BazelInv'
    BY <1>4, GetActionResultKeeps, ReadKeeps, FindMissingBlobsKeeps, WriteKeeps,
       BatchUpdateBlobsKeeps, UploadedKeeps, UpdateActionResultKeeps
  <1>5. CASE UNCHANGED bazelVars
    BY <1>5 DEF bazelVars, BazelInv, BazelTypes, ActionIsComplete, SparedRowIsYoung, CountsOn, Gone
  <1> QED
    BY <1>1, <1>2, <1>3, <1>4, <1>5 DEF BazelNext

\* A build that was answered with a result finds every output it names, the contents of a
\* tree included (GetActionResult, touchOutputs, touchTreeContents), for any windows that
\* leave the CAS longer than the action cache by at least the time a build takes, and
\* however long a collection is under way.
THEOREM HotActionsKeepTheirOutputs ==
  ASSUME BazelAssumption
  PROVE  BazelSpec => []NoLostInputs
  <1>1. BazelInit => BazelInv
    BY BazelInvInit
  <1>2. BazelInv /\ [BazelNext]_bazelVars => BazelInv'
    BY BazelInvStep
  <1>3. BazelInv => NoLostInputs
    BY DEF BazelInv, CountsOn, NoLostInputs
  <1> QED
    BY <1>1, <1>2, <1>3, PTL DEF BazelSpec

\* A result is recorded only over outputs that are all there (UpdateActionResult, after
\* FindMissingBlobs and the uploads): failed uploads and collections in between included.
THEOREM ResultsAreRecordedComplete ==
  ASSUME BazelAssumption
  PROVE  BazelSpec => [][RecordedIsComplete]_bazelVars
  <1>1. BazelInit => BazelInv
    BY BazelInvInit
  <1>2. BazelInv /\ [BazelNext]_bazelVars => BazelInv'
    BY BazelInvStep
  <1>3. BazelInv /\ BazelNext => RecordedIsComplete
    <2> SUFFICES ASSUME BazelInv, BazelNext, NEW c \in Builds,
                        build[c].at = "update", build'[c].at = "rest", MayWrite(c)
                 PROVE  \A o \in Needed(ac') : age'[o] # Gone
      BY DEF RecordedIsComplete
    <2>1. build \in [Builds -> BuildStates] /\ build[c] \in BuildStates
      BY DEF BazelInv, BazelTypes
    <2>2. ~(Tick \/ StartRun \/ SweepAc \/ SweepCas)
      BY <2>1 DEF Tick, StartRun, SweepAc, SweepCas, BuildStates
    <2>3. PICK d \in Builds :
            \/ GetActionResult(d) \/ Read(d) \/ FindMissingBlobs(d) \/ Refuse(d)
            \/ Write(d) \/ BatchUpdateBlobs(d) \/ WriteFails(d) \/ Uploaded(d) \/ UpdateActionResult(d)
      BY <2>2 DEF BazelNext
    <2>4. d = c
      BY <2>1, <2>3 DEF GetActionResult, Read, FindMissingBlobs, Refuse, Write, BatchUpdateBlobs,
         WriteFails, Uploaded, UpdateActionResult, Done, Go
    <2>5. UpdateActionResult(c)
      BY <2>3, <2>4 DEF GetActionResult, Read, FindMissingBlobs, Refuse, Write, BatchUpdateBlobs,
         WriteFails, Uploaded
    <2> QED
      BY <2>5, UpdateActionResultKeeps
  <1> QED
    BY <1>1, <1>2, <1>3, PTL DEF BazelSpec

=============================================================================
