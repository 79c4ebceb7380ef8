----------------------------- MODULE OciMirror -----------------------------
(***************************************************************************)
(* The pull-through mirror (oci/tags.go, manifests.go, blobs.go): one tag  *)
(* and the manifests it has named, pulled by tag and by digest.  A fetch   *)
(* runs detached in a singleflight; a stale tag is served at once and      *)
(* revalidated in the background.  Each call to the upstream and each Put  *)
(* is a step.  A blob pulled by digest takes the path of a manifest.       *)
(***************************************************************************)
EXTENDS Naturals, FiniteSets

CONSTANTS
    Clients, Anonymous,   \* Anonymous: those without a principal
    Steady,               \* clients that pull the tag only, and wait for their answer
    Digests,
    MaxMoves,             \* bound on upstream pushes
    MaxFaults,            \* bound on upstream or storage errors and mismatching bytes
    Collects              \* what the collector takes away: subset of "tag", "manifest"

OciMirrorAssumption ==
    /\ {Anonymous, Steady} \subseteq SUBSET Clients /\ {MaxMoves, MaxFaults} \subseteq Nat
    /\ Collects \subseteq {"tag", "manifest"}

None == "none"
Tag == "tag"

VARIABLES
    up, moves,   \* what the tag names upstream, and how often it has moved
    row,         \* the tag row: digest, whether updated_at is within tag_ttl, and the move its
                 \* digest was seen at
    stored,      \* the manifests namespace
    req,         \* per client: its request
    flight,      \* per flight key (the tag, or a digest): the ingest running under it
    bg,          \* per client: the background revalidation it started
    faults

vars == <<up, moves, row, stored, req, flight, bg, faults>>

NoRow == [d |-> None, fresh |-> FALSE, seen |-> 0]
Off == [at |-> "off", d |-> None, seen |-> 0, have |-> None]
Idle == [at |-> "idle", ask |-> None, d |-> None]

Init ==
    /\ moves = 0 /\ up \in Digests
    /\ row = NoRow /\ stored = {} /\ faults = 0
    /\ req = [c \in Clients |-> Idle]
    /\ flight = [k \in Digests \cup {Tag} |-> Off]
    /\ bg = [c \in Clients |-> Off]

Fault == faults < MaxFaults /\ faults' = faults + 1
Fresh == row.fresh

\* tag_ttl passes.
Expire ==
    /\ Fresh /\ row' = [row EXCEPT !.fresh = FALSE]
    /\ UNCHANGED <<up, moves, stored, req, flight, bg, faults>>

\* The upstream's tag is pushed.
UpMoves ==
    /\ moves < MaxMoves /\ moves' = moves + 1
    /\ \E d \in Digests \ {up} : up' = d
    /\ UNCHANGED <<row, stored, req, flight, bg, faults>>

\* The collector takes the tag row, or a manifest under a tag (see GcSweep).
Collect ==
    /\ \/ "tag" \in Collects /\ row' = NoRow /\ UNCHANGED stored
       \/ "manifest" \in Collects /\ (\E d \in stored : stored' = stored \ {d}) /\ UNCHANGED row
    /\ UNCHANGED <<up, moves, req, flight, bg, faults>>

-----------------------------------------------------------------------------
(* Requests *)

To(c, at) == req' = [req EXCEPT ![c].at = at]

Pull(c) ==
    /\ req[c].at \in {"idle", "ok", "404"}
    /\ \E k \in {Tag} \cup (IF c \in Steady THEN {} ELSE Digests) : req' = [req EXCEPT ![c] = [Idle EXCEPT !.at = "stat", !.ask = k]]
    /\ UNCHANGED <<up, moves, row, stored, flight, bg, faults>>

\* ingest: the flight of this key, joined or led.
Joins(c, k) ==
    /\ To(c, "join")
    /\ flight' = IF flight[k].at = "off" THEN [flight EXCEPT ![k].at = "fetch"] ELSE flight

\* serveTag: the row is read past the cache; a miss needs a principal; a stale hit of one
\* starts a revalidation with the digest it read, and is served.
ServeTag(c) ==
    /\ req[c].at = "stat" /\ req[c].ask = Tag
    /\ \/ row = NoRow /\ c \in Anonymous /\ To(c, "404") /\ UNCHANGED <<flight, bg>>
       \/ row = NoRow /\ c \notin Anonymous /\ Joins(c, Tag) /\ UNCHANGED bg
       \/ /\ row # NoRow
          /\ req' = [req EXCEPT ![c].at = "serve", ![c].d = row.d]
          /\ bg' = IF ~Fresh /\ c \notin Anonymous /\ bg[c].at = "off"
                   THEN [bg EXCEPT ![c] = [Off EXCEPT !.at = "go", !.have = row.d]] ELSE bg
          /\ UNCHANGED flight
    /\ UNCHANGED <<up, moves, row, stored, faults>>

\* serveManifestByDigest and serveBlob.
ServeDigest(c) ==
    /\ req[c].at = "stat" /\ req[c].ask # Tag
    /\ \/ /\ req[c].ask \in stored
          /\ req' = [req EXCEPT ![c].at = "serve", ![c].d = req[c].ask] /\ UNCHANGED flight
       \/ req[c].ask \notin stored /\ c \in Anonymous /\ To(c, "404") /\ UNCHANGED flight
       \/ req[c].ask \notin stored /\ c \notin Anonymous /\ Joins(c, req[c].ask)
    /\ UNCHANGED <<up, moves, row, stored, bg, faults>>

\* writeManifest: the bytes come out of the manifests namespace, under the digest read.
WriteManifest(c) ==
    /\ req[c].at = "serve" /\ To(c, IF req[c].d \in stored THEN "ok" ELSE "404")
    /\ UNCHANGED <<up, moves, row, stored, flight, bg, faults>>

\* Mutant: the fetch rides the context of the request that leads it.
Cancel_EndsFlight(c) ==
    /\ req[c].at \in {"stat", "join", "serve"}
    /\ IF req[c].at = "join" /\ flight[req[c].ask].at # "off"
       THEN /\ flight' = [flight EXCEPT ![req[c].ask] = Off]
            /\ req' = [q \in Clients |-> IF q = c THEN Idle
                         ELSE IF req[q].at = "join" /\ req[q].ask = req[c].ask
                         THEN [req[q] EXCEPT !.at = "404"] ELSE req[q]]
       ELSE req' = [req EXCEPT ![c] = Idle] /\ UNCHANGED flight
    /\ UNCHANGED <<up, moves, row, stored, bg, faults>>

\* A client disconnects; what it started goes on without it.
Cancel(c) ==
    /\ c \notin Steady
    /\ req[c].at \in {"stat", "join", "serve"} /\ req' = [req EXCEPT ![c] = Idle]
    /\ UNCHANGED <<up, moves, row, stored, flight, bg, faults>>

-----------------------------------------------------------------------------
(* Ingest flights *)

Waiting(k) == {c \in Clients : req[c].at = "join" /\ req[c].ask = k}

\* The flight ends: everyone who joined is answered.
Lands(k, answer) ==
    /\ flight' = [flight EXCEPT ![k] = Off]
    /\ req' = [c \in Clients |-> IF c \in Waiting(k) THEN answer[c] ELSE req[c]]

\* The flight failed, or served none of them.
NotFound == [c \in Clients |-> [req[c] EXCEPT !.at = "404"]]

\* up.Manifest: for a tag what it names now, for a digest its bytes or, from an upstream
\* that does not check, others; or an error.
Fetch(k) ==
    /\ flight[k].at = "fetch"
    /\ \/ /\ UNCHANGED <<faults, req>>
          /\ flight' = [flight EXCEPT ![k] = [Off EXCEPT !.at = "manifest",
                            !.d = IF k = Tag THEN up ELSE k, !.seen = moves]]
       \/ /\ Fault /\ k # Tag /\ UNCHANGED req
          /\ \E d \in Digests \ {k} : flight' = [flight EXCEPT ![k] = [Off EXCEPT !.at = "manifest", !.d = d]]
       \/ Fault /\ Lands(k, NotFound)
    /\ UNCHANGED <<up, moves, row, stored, bg>>

\* Mutant: the digest of what was stored is not compared with the one asked for.
Landed_Unchecked(k) ==
    Lands(k, [c \in Clients |-> [req[c] EXCEPT !.at = "serve", !.d = flight[k].d]])

\* What a digest's flight returns is served only if it is the digest asked for.
Landed(k) ==
    Lands(k, [c \in Clients |->
                 IF k # Tag /\ flight[k].d # req[c].ask THEN NotFound[c]
                 ELSE [req[c] EXCEPT !.at = "serve", !.d = flight[k].d]])

\* storeManifest: under the digest of the bytes held; a digest's flight ends here.
StoreManifest(k) ==
    /\ flight[k].at = "manifest"
    /\ \/ Fault /\ Lands(k, NotFound) /\ UNCHANGED stored
       \/ /\ stored' = stored \cup {flight[k].d} /\ UNCHANGED faults
          /\ IF k = Tag THEN flight' = [flight EXCEPT ![k].at = "tag"] /\ UNCHANGED req
             ELSE Landed(k)
    /\ UNCHANGED <<up, moves, row, bg>>

\* storeTag: the row is pointed at it.
StoreTag ==
    /\ flight[Tag].at = "tag"
    /\ \/ Fault /\ Lands(Tag, NotFound) /\ UNCHANGED row
       \/ /\ row' = [d |-> flight[Tag].d, fresh |-> TRUE, seen |-> flight[Tag].seen]
          /\ Landed(Tag) /\ UNCHANGED faults
    /\ UNCHANGED <<up, moves, stored, bg>>

-----------------------------------------------------------------------------
(* Background revalidation *)

\* Mutant: every request revalidates on its own.
Refresh_Each(c) ==
    /\ bg[c].at = "go" /\ bg' = [bg EXCEPT ![c].at = "resolve"]
    /\ UNCHANGED <<up, moves, row, stored, req, flight, faults>>

\* refresh: a flight of its own key; a goroutine that finds it running shares its outcome.
Refresh(c) ==
    /\ bg[c].at = "go"
    /\ bg' = [bg EXCEPT ![c] = IF \E q \in Clients : bg[q].at \notin {"off", "go"}
                               THEN Off ELSE [@ EXCEPT !.at = "resolve"]]
    /\ UNCHANGED <<up, moves, row, stored, req, flight, faults>>

\* revalidate: one HEAD, compared with the digest the request had read ...
Resolve(c) ==
    /\ bg[c].at = "resolve"
    /\ \/ /\ UNCHANGED faults
          /\ bg' = [bg EXCEPT ![c].at = IF up = bg[c].have THEN "touch" ELSE "fetch", ![c].seen = moves]
       \/ Fault /\ bg' = [bg EXCEPT ![c] = Off]
    /\ UNCHANGED <<up, moves, row, stored, req, flight>>

\* Mutant: an unchanged tag is left as it is.
TouchTag_Not(c) ==
    /\ bg[c].at = "touch" /\ bg' = [bg EXCEPT ![c] = Off]
    /\ UNCHANGED <<up, moves, row, stored, req, flight, faults>>

\* ... unchanged: the row's updated_at is bumped, if there is a row ...
TouchTag(c) ==
    /\ bg[c].at = "touch" /\ bg' = [bg EXCEPT ![c] = Off]
    /\ row' = IF row = NoRow THEN row ELSE [row EXCEPT !.fresh = TRUE]
    /\ UNCHANGED <<up, moves, stored, req, flight, faults>>

\* ... changed: a full fetch, then the two Puts.
Refetch(c) ==
    /\ bg[c].at = "fetch"
    /\ \/ bg' = [bg EXCEPT ![c].at = "manifest", ![c].d = up, ![c].seen = moves] /\ UNCHANGED faults
       \/ Fault /\ bg' = [bg EXCEPT ![c] = Off]
    /\ UNCHANGED <<up, moves, row, stored, req, flight>>

RestoreManifest(c) ==
    /\ bg[c].at = "manifest" /\ stored' = stored \cup {bg[c].d}
    /\ bg' = [bg EXCEPT ![c].at = "tag"]
    /\ UNCHANGED <<up, moves, row, req, flight, faults>>

Repoint(c) ==
    /\ bg[c].at = "tag" /\ bg' = [bg EXCEPT ![c] = Off]
    /\ row' = [d |-> bg[c].d, fresh |-> TRUE, seen |-> bg[c].seen]
    /\ UNCHANGED <<up, moves, stored, req, flight, faults>>

-----------------------------------------------------------------------------
Serve(c) == ServeTag(c) \/ ServeDigest(c) \/ WriteManifest(c)
Ingest(k) == Fetch(k) \/ StoreManifest(k) \/ (k = Tag /\ StoreTag)
Revalidate(c) ==
    Refresh(c) \/ Resolve(c) \/ TouchTag(c) \/ Refetch(c) \/ RestoreManifest(c) \/ Repoint(c)

Next ==
    \/ Expire \/ UpMoves \/ Collect
    \/ \E c \in Clients : Pull(c) \/ Cancel(c) \/ Serve(c) \/ Revalidate(c)
    \/ \E k \in Digests \cup {Tag} : Ingest(k)

Spec == Init /\ [][Next]_vars

-----------------------------------------------------------------------------
(* Properties *)

\* A client that waits for a fetch is refused only when the fetch itself failed, never
\* because the client that happened to lead it went away.
FollowersOutliveTheLeader ==
    \A c \in Clients : req[c].at = "join" /\ req'[c].at = "404" =>
        faults' # faults \/ flight[req[c].ask].d \notin {None, req[c].ask}

\* What is served for a digest is that digest's bytes, whatever the upstream sent.
ServedIsAsked == \A c \in Clients : req[c].at = "serve" /\ req[c].ask # Tag => req[c].d = req[c].ask

\* While its row stays, a tag never goes back to what the upstream named earlier: slow
\* revalidations do not overtake each other.
TagNeverGoesBack == row # NoRow /\ row' # NoRow => row'.seen >= row.seen

=============================================================================
