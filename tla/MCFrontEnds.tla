------------------------------ MODULE MCFrontEnds ---------------------------
(***************************************************************************)
(* The front ends that serve builds: OCI mirror and registry, the Bazel    *)
(* remote cache and the plain HTTP cache, each on a small instance.        *)
(***************************************************************************)
EXTENDS OciRegistry, Bazel

VARIABLES
    part,  \* which of the models below the behaviour is one of
    \* OciMirror
    up, moves, row, stored, req, flight, bg, outages,
    \* HttpBlob
    object, bytes, lru, lookup, caller, acked, grace, writes

Mirror == INSTANCE OciMirror WITH
    Clients <- {"c1", "a1"}, Anonymous <- {"a1"}, Steady <- {}, Digests <- {"d1", "d2"},
    MaxMoves <- 1, MaxFaults <- 1, Collects <- {}, faults <- outages

Followers == INSTANCE OciMirror WITH
    Clients <- {"c1", "c2"}, Anonymous <- {}, Steady <- {}, Digests <- {"d1", "d2"},
    MaxMoves <- 0, MaxFaults <- 1, Collects <- {}, faults <- outages

Moves == INSTANCE OciMirror WITH
    Clients <- {"c1", "c2"}, Anonymous <- {}, Steady <- {"c2"}, Digests <- {"d1", "d2"},
    MaxMoves <- 2, MaxFaults <- 0, Collects <- {}, faults <- outages

Policies == INSTANCE OciRegistry WITH
    Writers <- {"p1"}, Layers <- {"b1"}, MaxPolicies <- 2

HttpAc == INSTANCE HttpBlob WITH
    Clients <- {"c1", "c2"}, Keyed <- {"c1", "c2"}, Writers <- {"c1", "c2"},
    Digests <- {"d1", "d2"}, Mount <- "ac", ReadAuth <- FALSE, Overlap <- FALSE,
    Evicts <- TRUE, MaxWrites <- 3, row <- object, flight <- lookup,
    cli <- caller

HttpReaders == INSTANCE HttpBlob WITH
    Clients <- {"c1", "c2", "c3"}, Keyed <- {"c1"}, Writers <- {"c1"},
    Digests <- {"d1", "d2"}, Mount <- "ac", ReadAuth <- FALSE, Overlap <- FALSE,
    Evicts <- TRUE, MaxWrites <- 1, row <- object, flight <- lookup,
    cli <- caller

HttpCas == INSTANCE HttpBlob WITH
    Clients <- {"c1", "c2", "c3"}, Keyed <- {"c1", "c2"}, Writers <- {"c1", "c2"},
    Digests <- {"d1", "d2"}, Mount <- "cas", ReadAuth <- TRUE, Overlap <- TRUE,
    Evicts <- FALSE, MaxWrites <- 3, row <- object, flight <- lookup,
    cli <- caller

mirrorVars == <<up, moves, row, stored, req, flight, bg, outages>>
httpVars == <<object, bytes, lru, lookup, caller, acked, grace, writes>>
partVars == <<part, mirrorVars, vars, bazelVars, httpVars>>

\* Every instance is one its module is meant for.
ASSUME InstancesAssumption ==
    /\ Mirror!OciMirrorAssumption
    /\ Followers!OciMirrorAssumption
    /\ Moves!OciMirrorAssumption
    /\ OciRegistryAssumption
    /\ Policies!OciRegistryAssumption
    /\ BazelAssumption
    /\ HttpAc!HttpBlobAssumption
    /\ HttpReaders!HttpBlobAssumption
    /\ HttpCas!HttpBlobAssumption

-----------------------------------------------------------------------------
(* A part's initial states and steps; the other parts' variables rest. *)

NoMirror ==
    /\ up = 0 /\ moves = 0 /\ row = 0 /\ stored = 0 /\ req = 0 /\ flight = 0 /\ bg = 0
    /\ outages = 0

NoRegistry ==
    /\ route = 0 /\ blobs = 0 /\ manifests = 0 /\ tag = 0 /\ policies = 0 /\ faults = 0
    /\ cli = [c \in Clients |-> Idle]

NoBazel ==
    /\ ac = 0 /\ acAge = 0 /\ age = 0 /\ build = [c \in Builds |-> Rest] /\ gc = 0 /\ drops = 0

NoHttp ==
    /\ object = 0 /\ bytes = 0 /\ lru = 0 /\ lookup = 0 /\ caller = 0 /\ acked = 0
    /\ grace = 0 /\ writes = 0

PartInit ==
    \/ part = "mirror" /\ Mirror!Init /\ NoRegistry /\ NoBazel /\ NoHttp
    \/ part = "followers" /\ Followers!Init /\ NoRegistry /\ NoBazel /\ NoHttp
    \/ part = "moves" /\ Moves!Init /\ NoRegistry /\ NoBazel /\ NoHttp
    \/ part = "registry" /\ Init /\ NoMirror /\ NoBazel /\ NoHttp
    \/ part = "policies" /\ Policies!Init /\ NoMirror /\ NoBazel /\ NoHttp
    \/ part = "bazel" /\ BazelInit /\ NoMirror /\ NoRegistry /\ NoHttp
    \/ part = "ac" /\ HttpAc!Init /\ NoMirror /\ NoRegistry /\ NoBazel
    \/ part = "readers" /\ HttpReaders!Init /\ NoMirror /\ NoRegistry /\ NoBazel
    \/ part = "cas" /\ HttpCas!Init /\ NoMirror /\ NoRegistry /\ NoBazel

PartNext ==
    \/ part = "mirror" /\ Mirror!Next
       /\ UNCHANGED <<part, vars, bazelVars, httpVars>>
    \/ part = "followers" /\ Followers!Next
       /\ UNCHANGED <<part, vars, bazelVars, httpVars>>
    \/ part = "moves" /\ Moves!Next
       /\ UNCHANGED <<part, vars, bazelVars, httpVars>>
    \/ part = "registry" /\ Next
       /\ UNCHANGED <<part, mirrorVars, bazelVars, httpVars>>
    \/ part = "policies" /\ Policies!Next
       /\ UNCHANGED <<part, mirrorVars, bazelVars, httpVars>>
    \/ part = "bazel" /\ BazelNext
       /\ UNCHANGED <<part, mirrorVars, vars, httpVars>>
    \/ part = "ac" /\ HttpAc!Next
       /\ UNCHANGED <<part, mirrorVars, vars, bazelVars>>
    \/ part = "readers" /\ HttpReaders!Next
       /\ UNCHANGED <<part, mirrorVars, vars, bazelVars>>
    \/ part = "cas" /\ HttpCas!Next
       /\ UNCHANGED <<part, mirrorVars, vars, bazelVars>>

PartSpec == PartInit /\ [][PartNext]_partVars

-----------------------------------------------------------------------------
(* Properties, besides those of OciRegistry and Bazel *)

\* What is served for a digest or a /cas key is that content, whatever was uploaded or
\* sent by the upstream; an /ac answer is outdated only when its query began before the
\* write, and its bytes are there when it is opened.
AnswersAreRight ==
    /\ part = "mirror" => Mirror!ServedIsAsked
    /\ part = "followers" => Followers!ServedIsAsked
    /\ part = "ac" => HttpAc!NoDangling500 /\ HttpAc!StaleOnlyByFlight
    /\ part = "readers" => HttpReaders!NoDangling500 /\ HttpReaders!StaleOnlyByFlight
    /\ part = "cas" => HttpCas!CasServesItsKey

\* While its row stays a tag never goes back to what the upstream named earlier; a
\* client that shares a fetch is refused only when the fetch failed; only a credential
\* that may write changes a namespace; and an action result is recorded only over
\* outputs that are stored.
FrontEndStepsAreSound ==
    [][/\ part = "moves" => Moves!TagNeverGoesBack
       /\ part = "followers" => Followers!FollowersOutliveTheLeader
       /\ part = "policies" => Policies!OnlyWritersWrite
       /\ part = "bazel" => RecordedIsComplete]_partVars

=============================================================================
