------------------------------ MODULE HttpBlob ------------------------------
(***************************************************************************)
(* One object of an HTTP mount (httpblob/backend.go, policy.go, delete.go, *)
(* webdav.go) down to the look-up and the bytes (blob.go: stat, statDB,    *)
(* Get, cache).  A look-up takes the cached entry or shares one query; a   *)
(* GET opens the bytes after it; a write commits, then publishes to the    *)
(* cache, then answers.  Versions count the row's changes.                 *)
(***************************************************************************)
EXTENDS Naturals

CONSTANTS
    Clients, Keyed, Writers,   \* Keyed: with a credential of the project; Writers: that may write
    Digests,
    Mount,          \* "ac": overwritable, deletable; "cas": verified, skipped when present;
                    \* "sstate": immutable
    ReadAuth,       \* whether the route asks readers for a credential
    Overlap,        \* whether two writes of the object may overlap
    Evicts,         \* whether the cache is small enough to evict the entry
    MaxWrites       \* bound on writes begun

HttpBlobAssumption ==
    /\ Writers \subseteq Keyed /\ Keyed \subseteq Clients /\ MaxWrites \in Nat
    /\ Mount \in {"ac", "cas", "sstate"} /\ {ReadAuth, Overlap, Evicts} \subseteq BOOLEAN

None == "none"
Flight == "flight"
Named == CHOOSE d \in Digests : TRUE   \* the digest a /cas key spells

VARIABLES
    row,      \* the metadata row: digest (or None) and version
    bytes,    \* digests in storage
    lru,      \* the cached entry, in or not
    flight,   \* the shared query: its stage, what it read, whether the shard's generation has
              \* moved since, and what had been acknowledged when it began
    cli,      \* per client: its request
    acked,    \* the newest version some client has been told of
    grace,    \* per digest without a row: the requests and the query that may still use it
    writes

vars == <<row, bytes, lru, flight, cli, acked, grace, writes>>

Absent == [d |-> None, ver |-> 0]
NoFlight == [at |-> "off", val |-> Absent, moved |-> FALSE, since |-> 0]
Rest == [at |-> "rest", op |-> None, body |-> None, val |-> Absent, floor |-> 0, since |-> 0]

Init ==
    /\ row = Absent /\ bytes = {} /\ lru = [in |-> FALSE, val |-> Absent] /\ flight = NoFlight
    /\ cli = [c \in Clients |-> Rest] /\ acked = 0 /\ grace = [d \in Digests |-> {}] /\ writes = 0

Active(c) == cli[c].at \notin {"rest", "200", "404", "400", "401", "500"}
Writing == {"put", "delete"}
Go(c, at) == cli' = [cli EXCEPT ![c].at = at]
\* A request that ends leaves every grace set.
End(c) == grace' = [d \in Digests |-> grace[d] \ {c}]

\* One that is handed a digest whose grace is running uses it within that grace.
Handed(who, d, g) == [x \in Digests |-> IF x = d /\ grace[x] # {} THEN g[x] \cup who ELSE g[x]]

-----------------------------------------------------------------------------
(* Requests *)

\* Classify and VerifyFromKey are behind every key here; a PUT of an immutable or verified
\* mount carries a body of its own.
Begin(c) ==
    /\ ~Active(c)
    /\ \E op \in {"get", "head", "put"} \cup (IF Mount = "ac" THEN {"delete"} ELSE {}), d \in Digests :
          /\ op \in Writing => writes < MaxWrites /\ (Overlap \/ \A q \in Clients : ~(Active(q) /\ cli[q].op \in Writing))
          /\ writes' = IF op \in Writing THEN writes + 1 ELSE writes
          /\ op # "put" => d = Named
          /\ cli' = [cli EXCEPT ![c] = [Rest EXCEPT !.at = "auth", !.op = op, !.body = d, !.floor = acked]]
    /\ UNCHANGED <<row, bytes, lru, flight, acked, grace>>

\* authorizeRead, authorizeWrite: an open route lets everyone read, nobody write.
Authorize(c) ==
    IF cli[c].op \in {"get", "head"} THEN ReadAuth => c \in Keyed ELSE c \in Writers

\* serve: a PUT to /cas looks before it reads the body; other writes go straight on.
Dispatch(c) ==
    /\ cli[c].at = "auth"
    /\ \/ ~Authorize(c) /\ Go(c, "401") /\ End(c)
       \/ /\ Authorize(c) /\ UNCHANGED grace
          /\ Go(c, IF cli[c].op \in {"get", "head"} \/ (cli[c].op = "put" /\ Mount = "cas")
                   THEN "stat" ELSE "commit")
    /\ UNCHANGED <<row, bytes, lru, flight, acked, writes>>

-----------------------------------------------------------------------------
(* The look-up: cache, then one shared query *)

Stat(c) ==
    /\ cli[c].at = "stat"
    /\ \/ /\ lru.in /\ cli' = [cli EXCEPT ![c].at = "have", ![c].val = lru.val, ![c].since = cli[c].floor]
          /\ grace' = Handed({c}, lru.val.d, grace) /\ UNCHANGED flight
       \/ /\ ~lru.in /\ UNCHANGED grace
          /\ flight' = IF flight.at = "off" THEN [NoFlight EXCEPT !.at = "query", !.since = acked] ELSE flight
          /\ cli' = [cli EXCEPT ![c].at = "join", ![c].since = flight'.since]
    /\ UNCHANGED <<row, bytes, lru, acked, writes>>

\* statDB: the row is read; the generation was read before it.
QueryObject ==
    /\ flight.at = "query" /\ flight' = [flight EXCEPT !.at = "fill", !.val = row]
    /\ UNCHANGED <<row, bytes, lru, cli, acked, grace, writes>>

\* Mutant: the fill lands whatever was published meanwhile.
Fills_Always == TRUE

\* putIfUnchanged: the fill lands unless a write has been published meanwhile.
Fills == ~flight.moved

\* The query's answer goes to the cache, then to everyone who joined.
Land ==
    /\ flight.at = "fill" /\ flight' = NoFlight
    /\ lru' = IF Fills THEN [in |-> TRUE, val |-> flight.val] ELSE lru
    /\ cli' = [c \in Clients |-> IF cli[c].at = "join" THEN [cli[c] EXCEPT !.at = "have", !.val = flight.val] ELSE cli[c]]
    /\ grace' = Handed({c \in Clients : cli[c].at = "join"}, flight.val.d, [d \in Digests |-> grace[d] \ {Flight}])
    /\ UNCHANGED <<row, bytes, acked, writes>>

Evict ==
    /\ Evicts /\ lru.in /\ lru' = [in |-> FALSE, val |-> Absent]
    /\ UNCHANGED <<row, bytes, flight, cli, acked, grace, writes>>

-----------------------------------------------------------------------------
(* Reads *)

\* serveObject on HEAD, and what a miss answers.
Head(c) ==
    /\ cli[c].at = "have" /\ (cli[c].op = "head" \/ (cli[c].op = "get" /\ cli[c].val.d = None))
    /\ Go(c, IF cli[c].val.d = None THEN "404" ELSE "200") /\ End(c)
    /\ UNCHANGED <<row, bytes, lru, flight, acked, writes>>

\* Get: the bytes of the digest read; a row that names absent bytes is a 500.
Get(c) ==
    /\ cli[c].at = "have" /\ cli[c].op = "get" /\ cli[c].val.d # None
    /\ Go(c, IF cli[c].val.d \in bytes THEN "200" ELSE "500") /\ End(c)
    /\ UNCHANGED <<row, bytes, lru, flight, acked, writes>>

\* servePut with SkipIngestIfPresent: an object that is there answers 200 at once.
SkipIngest(c) ==
    /\ cli[c].at = "have" /\ cli[c].op = "put"
    /\ IF cli[c].val.d # None THEN Go(c, "200") /\ End(c) ELSE Go(c, "commit") /\ UNCHANGED grace
    /\ UNCHANGED <<row, bytes, lru, flight, acked, writes>>

-----------------------------------------------------------------------------
(* Writes *)

\* Mutant: what the body hashes to is not compared with the key.
Verified_Not(c) == TRUE

\* VerifyFromKey: a /cas body must be the digest its key spells.
Verified(c) == Mount = "cas" => cli[c].body = Named

BadBody(c) ==
    /\ cli[c].at = "commit" /\ cli[c].op = "put" /\ ~Verified(c) /\ Go(c, "400") /\ End(c)
    /\ UNCHANGED <<row, bytes, lru, flight, acked, writes>>

\* The row moves on to d: whatever still runs may hold what it was.
Replace(d) ==
    /\ row' = [d |-> d, ver |-> row.ver + 1]
    /\ grace' = [x \in Digests |-> IF x = d THEN {}
                                   ELSE IF x = row.d THEN {c \in Clients : Active(c)} \cup
                                        (IF flight.at = "off" THEN {} ELSE {Flight})
                                   ELSE grace[x]]

\* Put's transaction: bytes, then the row, unless an immutable key has one already.
CommitPut(c) ==
    /\ cli[c].at = "commit" /\ cli[c].op = "put" /\ Verified(c)
    /\ bytes' = bytes \cup {cli[c].body}
    /\ LET created == Mount = "ac" \/ row.d = None
       IN  /\ IF created THEN Replace(cli[c].body) ELSE UNCHANGED <<row, grace>>
           /\ cli' = [cli EXCEPT ![c].at = IF created THEN "publish" ELSE "drop", ![c].val = row']
    /\ UNCHANGED <<lru, flight, acked, writes>>

\* Delete's.
CommitDelete(c) ==
    /\ cli[c].at = "commit" /\ cli[c].op = "delete"
    /\ IF row.d = None THEN UNCHANGED <<row, grace>> ELSE Replace(None)
    /\ cli' = [cli EXCEPT ![c].at = "publish", ![c].val = row']
    /\ UNCHANGED <<bytes, lru, flight, acked, writes>>

\* Mutant: a DELETE leaves the cache alone.
Publish_KeepsDeleted(c) ==
    /\ cli[c].at \in {"publish", "drop"}
    /\ IF cli[c].op = "delete" THEN UNCHANGED <<lru, flight>>
       ELSE /\ lru' = IF cli[c].at = "publish" THEN [in |-> TRUE, val |-> cli[c].val] ELSE [in |-> FALSE, val |-> Absent]
            /\ flight' = [flight EXCEPT !.moved = TRUE]
    /\ acked' = IF cli[c].val.ver > acked THEN cli[c].val.ver ELSE acked
    /\ Go(c, "200") /\ End(c)
    /\ UNCHANGED <<row, bytes, writes>>

\* Service.cache, and Delete's negative entry: what was written is cached, a row somebody else
\* created is only forgotten; either moves the generation.  Then the answer.
Publish(c) ==
    /\ cli[c].at \in {"publish", "drop"}
    /\ lru' = IF cli[c].at = "publish" THEN [in |-> TRUE, val |-> cli[c].val] ELSE [in |-> FALSE, val |-> Absent]
    /\ flight' = [flight EXCEPT !.moved = flight.at # "off"]
    /\ acked' = IF cli[c].val.ver > acked THEN cli[c].val.ver ELSE acked
    /\ Go(c, "200") /\ End(c)
    /\ UNCHANGED <<row, bytes, writes>>

\* Mutant: bytes go as soon as no row names them.
Reclaim_AtOnce(d) ==
    /\ d \in bytes /\ row.d # d /\ bytes' = bytes \ {d}
    /\ \A c \in Clients : ~(cli[c].at = "commit" /\ cli[c].body = d)
    /\ UNCHANGED <<row, lru, flight, cli, acked, grace, writes>>

\* The collector takes bytes without a row once the grace has passed, which outlasts the
\* requests and the query that ran when the row went and those they overlapped.
Reclaim(d) ==
    /\ d \in bytes /\ row.d # d /\ grace[d] = {} /\ bytes' = bytes \ {d}
    /\ \A c \in Clients : ~(cli[c].at = "commit" /\ cli[c].body = d)
    /\ UNCHANGED <<row, lru, flight, cli, acked, grace, writes>>

-----------------------------------------------------------------------------
Next ==
    \/ QueryObject \/ Land \/ Evict
    \/ \E c \in Clients :
          \/ Begin(c) \/ Dispatch(c) \/ Stat(c) \/ Head(c) \/ Get(c) \/ SkipIngest(c)
          \/ BadBody(c) \/ CommitPut(c) \/ CommitDelete(c) \/ Publish(c)
    \/ \E d \in Digests : Reclaim(d)

Spec == Init /\ [][Next]_vars

-----------------------------------------------------------------------------
(* Properties *)

Answered(c) == cli[c].op \in {"get", "head"} /\ cli[c].at \in {"200", "404", "500"}

\* A reader is answered no older than what had been acknowledged when its request came in, or,
\* if it shared a query, when that query began: nothing older stays in the cache.
StaleOnlyByFlight == \A c \in Clients : Answered(c) => cli[c].val.ver >= cli[c].since

\* A GET never finds its bytes gone: whatever digest a look-up may still return outlives it.
NoDangling500 == \A c \in Clients : cli[c].at # "500"

\* What a /cas key serves is the digest it spells.
CasServesItsKey == Mount = "cas" => \A c \in Clients : Answered(c) => cli[c].val.d \in {None, Named}

=============================================================================
