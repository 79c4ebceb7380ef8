--------------------------- MODULE HashservProofs ---------------------------
(***************************************************************************)
(* Proofs about the hash equivalence server.  Readers cannot write: from   *)
(* what a connection may do at each step of a request.  Nobody is told two *)
(* unihashes: from the write-once table.  Equal outputs converge: an       *)
(* output's oldest row decides for all that follow, since reports that do  *)
(* not overlap find every earlier row bound.  And about the unihash        *)
(* toucher: a read on its way to the table is vetoed for, and is lost only *)
(* by being written.                                                       *)
(***************************************************************************)
EXTENDS Hashserv, UnihashToucher, FiniteSetTheorems, TLAPS

Stages == {"closed", "idle", "through", "stream", "adoptuni", "adoptout", "report",
           "resolve", "mint", "reread", "removeout"}

Conns == [at : Stages, perms : SUBSET {"read", "report", "admin"}, t : Tasks \cup {None},
          o : Outs \cup {None}, u : Unihashes \cup {None}]

\* Types of the tables, the connections and the histories.
HashservTypes ==
    /\ uni \in [Tasks -> Unihashes \cup {None}]
    /\ out \subseteq Tasks \X Outs /\ reports \subseteq Tasks \X Outs
    /\ sess \in [Sessions -> Conns]
    /\ told \in [Tasks -> SUBSET Unihashes]

\* What a connection at a step of a request may do, and the hashes it carries there.
Earned(c) ==
    /\ "admin" \in c.perms => "report" \in c.perms
    /\ c.at \in {"report", "resolve", "mint", "removeout"} => "report" \in c.perms
    /\ c.at \in {"report", "resolve", "mint"} =>
          c.t \in Tasks /\ c.o \in Outs /\ <<c.t, c.o>> \in reports
    /\ c.at = "mint" => c.u \in Unihashes
    /\ c.at = "reread" => c.t \in Tasks
    /\ c.at = "through" => UpKnows(c.t)
    /\ c.at \in {"adoptuni", "adoptout"} => HasUpstream

StagesAreEarned == \A s \in Sessions : Earned(sess[s])

\* Only what the upstream holds waits for the backfill.
BackfillIsUpstreams == \A t \in queue : UpKnows(t)

\* created_at orders the rows: no two are older than each other ...
AgesAreStrict ==
    /\ since \subseteq out \X out
    /\ \A r, q \in out : <<r, q>> \in since => <<q, r>> \notin since

\* ... and of any rows one is the oldest.
SomeRowIsOldest ==
    \A R \in SUBSET out : R # {} => \E r \in R : \A q \in R \ {r} : <<r, q>> \in since

StoreInv == HashservTypes /\ StagesAreEarned /\ BackfillIsUpstreams /\ AgesAreStrict /\ SomeRowIsOldest

-----------------------------------------------------------------------------
(* Convergence *)

Settled(t) == t \notin crossed \cup removed
Working(s) == sess[s].at \in {"resolve", "mint"}

\* Rows come from reports, and a removal's second statement is about removed taskhashes.
RowsWereReported ==
    /\ out \subseteq reports
    /\ \A s \in Sessions : sess[s].at = "removeout" =>
          IF sess[s].t = None THEN Tasks \subseteq removed ELSE sess[s].t \in removed

\* Two reports under way at once have crossed.
ReportsAreAlone ==
    \A s, r \in Sessions :
        /\ s # r
        /\ Working(s) \/ sess[s].at = "report"
        /\ Working(r) \/ sess[r].at = "report"
        => sess[s].t \in crossed

\* A row without a unihash is one whose report is still at work.
RowsGetBound ==
    \A t \in Tasks, o \in Outs :
        <<t, o>> \in out /\ uni[t] = None /\ Settled(t) =>
            \E s \in Sessions : Working(s) /\ sess[s].t = t /\ sess[s].o = o

\* A report at work has the youngest row.
WorkersAreYoungest ==
    \A s \in Sessions : Working(s) /\ Settled(sess[s].t) =>
        /\ <<sess[s].t, sess[s].o>> \in out
        /\ \A q \in out \ {<<sess[s].t, sess[s].o>>} : <<q, <<sess[s].t, sess[s].o>>>> \in since

\* What is bound was bound by a report.
BoundHaveRows ==
    \A t \in Tasks : uni[t] # None /\ Settled(t) => \E o \in Outs : <<t, o>> \in out

\* The taskhash that produced the output first.
IsFirst(f, o) ==
    /\ <<f, o>> \in out
    /\ \A q \in Tasks \ {f} : <<q, o>> \in out => <<<<f, o>>, <<q, o>>>> \in since

\* What a report is about to store is the unihash of the first ...
MintsTheFirst ==
    \A s \in Sessions : sess[s].at = "mint" /\ Undisturbed(sess[s].o) =>
        \A f \in Tasks \ {sess[s].t} : IsFirst(f, sess[s].o) => sess[s].u = uni[f]

\* ... which every taskhash of this output alone has.
FollowTheFirst ==
    \A o \in Outs : Undisturbed(o) =>
        \A f \in Tasks : IsFirst(f, o) =>
            \A t \in Tasks : OutsOf(t) = {o} /\ uni[t] # None => uni[t] = uni[f]

ConvergenceInv ==
    /\ RowsWereReported /\ ReportsAreAlone /\ RowsGetBound /\ WorkersAreYoungest
    /\ BoundHaveRows /\ MintsTheFirst /\ FollowTheFirst

\* A told unihash is the stored one.
ToldIsStored ==
    \A t \in Tasks : told[t] # {} => uni[t] # None /\ told[t] = {uni[t]}

\* Where nobody may read who may not report: no open reads, no credential that only reads.
WritersOnly == \A s \in Sessions : sess[s].perms = {} \/ "report" \in sess[s].perms

-----------------------------------------------------------------------------
(* The store *)

\* The oldest bound taskhash of an output is one, and its row is older than the others.
LEMMA OldestIsBound ==
    ASSUME StoreInv, NEW o \in Outs, NEW S \in SUBSET Tasks, Bound(o, S) # {}
    PROVE  /\ Oldest(o, S) \in Bound(o, S)
           /\ \A v \in Bound(o, S) \ {Oldest(o, S)} : <<<<Oldest(o, S), o>>, <<v, o>>>> \in since
  <1> DEFINE R == {<<t, o>> : t \in Bound(o, S)}
  <1>1. R \in SUBSET out /\ R # {}
    BY DEF Bound
  <1>2. PICK r \in R : \A q \in R \ {r} : <<r, q>> \in since
    BY <1>1 DEF StoreInv, SomeRowIsOldest
  <1>3. PICK t \in Bound(o, S) : r = <<t, o>>
    OBVIOUS
  <1>4. \A v \in Bound(o, S) \ {t} : <<<<t, o>>, <<v, o>>>> \in since
    BY <1>2, <1>3
  <1> QED
    BY <1>4 DEF Oldest

\* ... so that it has a unihash; there is none only when nobody has the output.
LEMMA OldestHasUnihash ==
    ASSUME StoreInv, NEW o \in Outs, NEW S \in SUBSET Tasks
    PROVE  /\ Oldest(o, S) = None <=> Bound(o, S) = {}
           /\ Oldest(o, S) # None => /\ Oldest(o, S) \in S /\ <<Oldest(o, S), o>> \in out
                                     /\ uni[Oldest(o, S)] \in Unihashes
  <1>1. CASE Bound(o, S) = {}
    BY <1>1 DEF Oldest
  <1>2. CASE Bound(o, S) # {}
    <2>1. Oldest(o, S) \in Bound(o, S)
      BY <1>2, OldestIsBound
    <2>2. Oldest(o, S) \in Tasks /\ uni[Oldest(o, S)] # None /\ <<Oldest(o, S), o>> \in out
      BY <2>1 DEF Bound
    <2>3. Oldest(o, S) # None
      BY <2>2, HashservConstants DEF HashservAssumption, Unihashes
    <2> QED
      BY <1>2, <2>1, <2>2, <2>3 DEF Bound, StoreInv, HashservTypes
  <1> QED
    BY <1>1, <1>2

\* An inserted row is the youngest.
LEMMA InsertKeepsAges ==
    ASSUME AgesAreStrict, SomeRowIsOldest, NEW t, NEW o, InsertOuthash(t, o)
    PROVE  AgesAreStrict' /\ SomeRowIsOldest'
  <1> DEFINE x == <<t, o>>
  <1>1. CASE x \in out
    <2>1. out' = out /\ since' = since
      BY <1>1 DEF InsertOuthash
    <2> QED
      BY <2>1 DEF AgesAreStrict, SomeRowIsOldest
  <1>2. CASE x \notin out
    <2>1. out' = out \cup {x} /\ since' = since \cup (out \X {x})
      BY <1>2 DEF InsertOuthash
    <2> HIDE DEF x
    <2>2. AgesAreStrict'
      BY <1>2, <2>1 DEF AgesAreStrict
    <2>3. ASSUME NEW R \in SUBSET out', R # {}
          PROVE  \E r \in R : \A q \in R \ {r} : <<r, q>> \in since'
      <3>1. CASE R \ {x} = {}
        BY <2>3, <3>1
      <3>2. CASE R \ {x} # {}
        <4>1. R \ {x} \in SUBSET out
          BY <2>1
        <4>2. PICK r \in R \ {x} : \A q \in (R \ {x}) \ {r} : <<r, q>> \in since
          BY <3>2, <4>1 DEF SomeRowIsOldest
        <4>3. <<r, x>> \in since'
          BY <2>1, <4>1, <4>2
        <4> QED
          BY <2>1, <4>2, <4>3
      <3> QED
        BY <3>1, <3>2
    <2> QED
      BY <2>2, <2>3 DEF SomeRowIsOldest
  <1> QED
    BY <1>1, <1>2

\* The rows that stay keep their order.
LEMMA DeleteKeepsAges ==
    ASSUME AgesAreStrict, SomeRowIsOldest, NEW rows, DeleteOuthashes(rows)
    PROVE  AgesAreStrict' /\ SomeRowIsOldest'
  <1>1. AgesAreStrict'
    BY DEF AgesAreStrict, DeleteOuthashes
  <1>2. ASSUME NEW R \in SUBSET out', R # {}
        PROVE  \E r \in R : \A q \in R \ {r} : <<r, q>> \in since'
    <2>1. R \in SUBSET out /\ R \cap rows = {}
      BY DEF DeleteOuthashes
    <2>2. PICK r \in R : \A q \in R \ {r} : <<r, q>> \in since
      BY <1>2, <2>1 DEF SomeRowIsOldest
    <2>3. ASSUME NEW q \in R \ {r} PROVE <<r, q>> \in since'
      BY <2>1, <2>2 DEF DeleteOuthashes
    <2> QED
      BY <2>3
  <1> QED
    BY <1>1, <1>2 DEF SomeRowIsOldest

\* A connection's step keeps the connections in order when its next state is.
LEMMA ConnectionStep ==
    ASSUME StoreInv, NEW s \in Sessions, NEW c \in Conns, sess' = [sess EXCEPT ![s] = c],
           reports \subseteq reports', Earned(c)'
    PROVE  /\ sess' \in [Sessions -> Conns] /\ StagesAreEarned'
           /\ \A r \in Sessions : sess'[r] = IF r = s THEN c ELSE sess[r]
  <1>1. sess \in [Sessions -> Conns]
    BY DEF StoreInv, HashservTypes
  <1>2. \A r \in Sessions : sess'[r] = IF r = s THEN c ELSE sess[r]
    BY <1>1
  <1>3. \A r \in Sessions : Earned(sess[r])
    BY DEF StoreInv, StagesAreEarned
  <1>4. ASSUME NEW r \in Sessions PROVE Earned(sess[r])'
    <2>1. CASE r = s
      BY <1>2, <2>1 DEF Earned, UpKnows
    <2>2. CASE r # s
      <3>1. sess'[r] = sess[r]
        BY <1>2, <2>2
      <3> QED
        BY <1>3, <3>1 DEF Earned, UpKnows
    <2> QED
      BY <2>1, <2>2
  <1> QED
    BY <1>1, <1>2, <1>4 DEF StagesAreEarned

ConnsInOrder == sess \in [Sessions -> Conns] /\ StagesAreEarned

\* A connection that is closed, answered or goes on to a step it has earned.
LEMMA CloseKeeps ==
    ASSUME StoreInv, NEW s \in Sessions, sess' = [sess EXCEPT ![s] = Closed],
           reports \subseteq reports'
    PROVE  ConnsInOrder'
  <1>1. Closed \in Conns /\ Earned(Closed)'
    BY DEF Closed, Conn, Conns, Stages, Earned
  <1> QED
    BY <1>1, ConnectionStep DEF ConnsInOrder

LEMMA RepliesKeeps ==
    ASSUME StoreInv, NEW s \in Sessions, Replies(s), reports \subseteq reports'
    PROVE  ConnsInOrder'
  <1>1. sess[s] \in Conns /\ Earned(sess[s])
    BY DEF StoreInv, HashservTypes, StagesAreEarned
  <1>2. PICK p \in SUBSET {"read", "report", "admin"} : p = sess[s].perms
    BY <1>1 DEF Conns
  <1>3. Idle(p) \in Conns /\ Earned(Idle(p))'
    BY <1>1, <1>2 DEF Idle, Conn, Conns, Stages, Earned
  <1>4. sess' = [sess EXCEPT ![s] = Idle(p)]
    BY <1>2 DEF Replies
  <1> QED
    BY <1>3, <1>4, ConnectionStep DEF ConnsInOrder

LEMMA ServesKeeps ==
    ASSUME StoreInv, NEW s \in Sessions, NEW at \in Stages, NEW t \in Tasks \cup {None},
           NEW o \in Outs \cup {None}, NEW u \in Unihashes \cup {None}, Serves(s, at, t, o, u),
           reports \subseteq reports',
           at \in {"report", "resolve", "mint", "removeout"} => "report" \in sess[s].perms,
           at \in {"report", "resolve", "mint"} =>
              t \in Tasks /\ o \in Outs /\ <<t, o>> \in reports',
           at = "mint" => u \in Unihashes, at = "reread" => t \in Tasks,
           at = "through" => UpKnows(t), at \in {"adoptuni", "adoptout"} => HasUpstream
    PROVE  ConnsInOrder'
  <1>1. sess[s] \in Conns /\ Earned(sess[s])
    BY DEF StoreInv, HashservTypes, StagesAreEarned
  <1>2. PICK p \in SUBSET {"read", "report", "admin"} : p = sess[s].perms
    BY <1>1 DEF Conns
  <1> DEFINE c == Conn(at, p, t, o, u)
  <1>3. c \in Conns
    BY DEF Conn, Conns
  <1>4. Earned(c)'
    BY <1>1, <1>2 DEF Conn, Earned, UpKnows
  <1>5. sess' = [sess EXCEPT ![s] = c]
    BY <1>2 DEF Serves
  <1> QED
    BY <1>3, <1>4, <1>5, ConnectionStep DEF ConnsInOrder

\* The tables keep their types.
LEMMA InsertUnihashKeeps ==
    ASSUME HashservTypes, NEW t \in Tasks, NEW u \in Unihashes, InsertUnihash(t, u)
    PROVE  /\ uni' \in [Tasks -> Unihashes \cup {None}]
           /\ \A v \in Tasks : uni'[v] = IF v = t /\ uni[v] = None THEN u ELSE uni[v]
  BY DEF HashservTypes, InsertUnihash

LEMMA TellsKeeps ==
    ASSUME HashservTypes, NEW t \in Tasks, NEW u \in Unihashes, Tells(t, u)
    PROVE  /\ told' \in [Tasks -> SUBSET Unihashes]
           /\ \A v \in Tasks : told'[v] = IF v = t THEN told[v] \cup {u} ELSE told[v]
  BY DEF HashservTypes, Tells

LEMMA OuthashesStay ==
    ASSUME AgesAreStrict, SomeRowIsOldest, UNCHANGED outhashes
    PROVE  AgesAreStrict' /\ SomeRowIsOldest'
  BY DEF AgesAreStrict, SomeRowIsOldest, outhashes

\* What a principal is granted.
LEMMA GrantIs ==
    ASSUME NEW cred
    PROVE  Grant(cred) \in {{}, {"read"}, {"read", "report", "admin"}}
  BY DEF Grant

\* Beginning and ending a connection.
LEMMA ConnectionKeeps ==
    ASSUME StoreInv, NEW s \in Sessions,
           Accept(s) \/ Close(s) \/ Fails(s) \/ HandleAuth(s)
    PROVE  StoreInv'
  <1>1. /\ UNCHANGED <<uni, out, since, queue, reports, told>>
    BY DEF Accept, Close, Fails, HandleAuth, tables, history
  <1>2. ASSUME NEW p \in {{}, {"read"}, {"read", "report", "admin"}},
               sess' = [sess EXCEPT ![s] = Idle(p)]
        PROVE  ConnsInOrder'
    <2>1. Idle(p) \in Conns /\ Earned(Idle(p))'
      BY DEF Idle, Conn, Conns, Stages, Earned
    <2> QED
      BY <1>1, <1>2, <2>1, ConnectionStep DEF ConnsInOrder
  <1>3. ConnsInOrder'
    <2>1. CASE Accept(s)
      BY <1>2, <2>1, GrantIs DEF Accept
    <2>2. CASE HandleAuth(s)
      <3>1. PICK c \in Creds : sess' = [sess EXCEPT ![s] =
                                    IF Grant(c) = {} THEN Closed ELSE Idle(Grant(c))]
        BY <2>2 DEF HandleAuth
      <3> QED
        BY <1>1, <1>2, <3>1, GrantIs, CloseKeeps
    <2> QED
      BY <1>1, <2>1, <2>2, CloseKeeps DEF Close, Fails
  <1> QED
    BY <1>1, <1>3, OuthashesStay DEF StoreInv, HashservTypes, ConnsInOrder, BackfillIsUpstreams,
                                   outhashes, UpKnows

TablesInOrder ==
    /\ uni \in [Tasks -> Unihashes \cup {None}]
    /\ out \subseteq Tasks \X Outs /\ reports \subseteq Tasks \X Outs
    /\ told \in [Tasks -> SUBSET Unihashes]
    /\ BackfillIsUpstreams /\ AgesAreStrict /\ SomeRowIsOldest

LEMMA StoreInvParts ==
    ASSUME ConnsInOrder', TablesInOrder'
    PROVE  StoreInv'
  BY DEF StoreInv, HashservTypes, ConnsInOrder, TablesInOrder

LEMMA ThisConnection ==
    ASSUME StoreInv, NEW s \in Sessions
    PROVE  /\ sess[s] \in Conns /\ Earned(sess[s])
           /\ sess[s].t \in Tasks \cup {None} /\ sess[s].o \in Outs \cup {None}
           /\ sess[s].u \in Unihashes \cup {None}
  BY DEF StoreInv, HashservTypes, StagesAreEarned, Conns

\* The upstream's row is one of this backend's hashes.
LEMMA UpstreamTypes ==
    /\ UpTask \in Tasks /\ UpOut \in Outs /\ UpUni \in Unihashes
    /\ None \notin Unihashes /\ None \notin Tasks /\ Tasks \subseteq Unihashes
    /\ \A t : UpKnows(t) => t = UpTask /\ HasUpstream
  BY HashservConstants DEF HashservAssumption, Unihashes, UpKnows

\* Lookups.
LEMMA LookupKeeps ==
    ASSUME StoreInv, NEW s \in Sessions,
           HandleGet(s) \/ WriteThrough(s) \/ OpenStream(s) \/ StreamLine(s) \/ EndStream(s)
    PROVE  StoreInv'
  <1> USE UpstreamTypes, ThisConnection
  <1>1. UNCHANGED <<out, since, reports>>
    BY DEF HandleGet, WriteThrough, OpenStream, StreamLine, EndStream, outhashes, tables, history
  <1>2. AgesAreStrict' /\ SomeRowIsOldest' /\ HashservTypes
    BY <1>1, OuthashesStay DEF StoreInv, outhashes
  <1>3. CASE HandleGet(s)
    <2>1. PICK t \in Tasks :
             \/ uni[t] # None /\ Answers(s, t, uni[t]) /\ UNCHANGED uni
             \/ uni[t] = None /\ Replies(s) /\ UNCHANGED <<uni, told>>
             \/ /\ uni[t] = None /\ UpKnows(t)
                /\ Serves(s, "through", t, None, None) /\ UNCHANGED <<uni, told>>
      BY <1>3 DEF HandleGet
    <2>2. CASE uni[t] # None /\ Answers(s, t, uni[t]) /\ UNCHANGED uni
      <3>1. ConnsInOrder'
        BY <1>1, <2>2, RepliesKeeps DEF Answers
      <3>2. uni[t] \in Unihashes
        BY <1>2, <2>2 DEF HashservTypes
      <3>3. TablesInOrder'
        BY <1>1, <1>2, <1>3, <2>2, <3>2, TellsKeeps
           DEF Answers, HandleGet, TablesInOrder, HashservTypes, StoreInv, BackfillIsUpstreams, UpKnows
      <3> QED
        BY <3>1, <3>3, StoreInvParts
    <2>3. CASE uni[t] = None /\ Replies(s) /\ UNCHANGED <<uni, told>>
      <3>1. ConnsInOrder'
        BY <1>1, <2>3, RepliesKeeps
      <3>2. TablesInOrder'
        BY <1>1, <1>2, <1>3, <2>3
           DEF HandleGet, TablesInOrder, HashservTypes, StoreInv, BackfillIsUpstreams, UpKnows
      <3> QED
        BY <3>1, <3>2, StoreInvParts
    <2>4. CASE UpKnows(t) /\ Serves(s, "through", t, None, None) /\ UNCHANGED <<uni, told>>
      <3>1. ConnsInOrder'
        BY <1>1, <2>4, ServesKeeps DEF Stages
      <3>2. TablesInOrder'
        BY <1>1, <1>2, <1>3, <2>4
           DEF HandleGet, TablesInOrder, HashservTypes, StoreInv, BackfillIsUpstreams, UpKnows
      <3> QED
        BY <3>1, <3>2, StoreInvParts
    <2> QED
      BY <2>1, <2>2, <2>3, <2>4
  <1>4. CASE WriteThrough(s)
    <2>1. sess[s].t = UpTask
      BY <1>4 DEF WriteThrough, Earned
    <2>2. ConnsInOrder'
      BY <1>1, <1>4, RepliesKeeps DEF WriteThrough, Answers
    <2>3. uni' \in [Tasks -> Unihashes \cup {None}]
      BY <1>2, <1>4, <2>1, InsertUnihashKeeps DEF WriteThrough, HashservTypes
    <2>4. told' \in [Tasks -> SUBSET Unihashes]
      BY <1>2, <1>4, <2>1, TellsKeeps DEF WriteThrough, Answers
    <2>5. TablesInOrder'
      BY <1>1, <1>2, <1>4, <2>3, <2>4
         DEF WriteThrough, TablesInOrder, HashservTypes, StoreInv, BackfillIsUpstreams, UpKnows
    <2> QED
      BY <2>2, <2>5, StoreInvParts
  <1>5. CASE OpenStream(s)
    <2>1. ConnsInOrder'
      BY <1>1, <1>5, ServesKeeps DEF OpenStream, Goes, Stages
    <2>2. TablesInOrder'
      BY <1>1, <1>2, <1>5
         DEF OpenStream, tables, history, TablesInOrder, HashservTypes, StoreInv, BackfillIsUpstreams, UpKnows
    <2> QED
      BY <2>1, <2>2, StoreInvParts
  <1>6. CASE StreamLine(s)
    <2>1. PICK t \in Tasks :
             \/ uni[t] # None /\ Tells(t, uni[t]) /\ UNCHANGED queue
             \/ uni[t] = None /\ UpKnows(t) /\ queue' = queue \cup {t} /\ Tells(t, UpUni)
      BY <1>6 DEF StreamLine
    <2>2. UNCHANGED <<uni, sess>>
      BY <1>6 DEF StreamLine, tables
    <2>3. told' \in [Tasks -> SUBSET Unihashes]
      BY <1>2, <2>1, TellsKeeps DEF HashservTypes
    <2>4. BackfillIsUpstreams'
      BY <2>1 DEF StoreInv, BackfillIsUpstreams, UpKnows
    <2> QED
      BY <1>1, <1>2, <2>2, <2>3, <2>4 DEF StoreInv, HashservTypes, StagesAreEarned, Earned, UpKnows
  <1>7. CASE EndStream(s)
    <2>1. ConnsInOrder'
      BY <1>1, <1>7, RepliesKeeps DEF EndStream
    <2>2. TablesInOrder'
      BY <1>1, <1>2, <1>7
         DEF EndStream, tables, history, TablesInOrder, HashservTypes, StoreInv, BackfillIsUpstreams, UpKnows
    <2> QED
      BY <2>1, <2>2, StoreInvParts
  <1> QED
    BY <1>3, <1>4, <1>5, <1>6, <1>7

\* Steps that leave the rows, their ages and the reports alone.
LEMMA TablesKeep ==
    ASSUME StoreInv, uni' \in [Tasks -> Unihashes \cup {None}], told' \in [Tasks -> SUBSET Unihashes],
           UNCHANGED <<out, since, reports>>, queue' \subseteq queue
    PROVE  TablesInOrder'
  BY OuthashesStay DEF StoreInv, HashservTypes, TablesInOrder, BackfillIsUpstreams, UpKnows, outhashes

\* get-outhash and its write-through.
LEMMA GetOuthashKeeps ==
    ASSUME StoreInv, NEW s \in Sessions,
           HandleGetOuthash(s) \/ PersistUpstreamUni(s) \/ PersistUpstreamOut(s)
    PROVE  StoreInv'
  <1> USE UpstreamTypes, ThisConnection
  <1>1. HashservTypes /\ UNCHANGED <<queue, reports>>
    BY DEF HandleGetOuthash, PersistUpstreamUni, PersistUpstreamOut, StoreInv, history
  <1>2. CASE HandleGetOuthash(s)
    <2>1. PICK o \in Outs, t \in Tasks :
             \/ Oldest(o, Tasks) # None /\ Answers(s, Oldest(o, Tasks), uni[Oldest(o, Tasks)])
             \/ Replies(s) /\ UNCHANGED told
             \/ UpHasOut(o) /\ Serves(s, "adoptuni", t, None, None) /\ UNCHANGED told
      BY <1>2 DEF HandleGetOuthash
    <2>2. ConnsInOrder'
      <3>1. CASE Replies(s)
        BY <1>1, <3>1, RepliesKeeps
      <3>2. CASE UpHasOut(o) /\ Serves(s, "adoptuni", t, None, None)
        BY <1>1, <3>2, ServesKeeps DEF Stages, UpHasOut
      <3> QED
        BY <2>1, <3>1, <3>2 DEF Answers
    <2>3. told' \in [Tasks -> SUBSET Unihashes]
      <3>1. ASSUME NEW v \in Tasks, NEW u \in Unihashes, Tells(v, u)
            PROVE  told' \in [Tasks -> SUBSET Unihashes]
        BY <1>1, <3>1, TellsKeeps
      <3>2. Oldest(o, Tasks) # None => Oldest(o, Tasks) \in Tasks /\ uni[Oldest(o, Tasks)] \in Unihashes
        BY OldestHasUnihash
      <3> QED
        BY <1>1, <2>1, <3>1, <3>2 DEF Answers, HashservTypes
    <2>4. TablesInOrder'
      BY <1>1, <1>2, <2>3, TablesKeep DEF HandleGetOuthash, tables, HashservTypes
    <2> QED
      BY <2>2, <2>4, StoreInvParts
  <1>3. CASE PersistUpstreamUni(s)
    <2>1. ConnsInOrder'
      BY <1>1, <1>3, ServesKeeps DEF PersistUpstreamUni, Goes, Stages, Earned
    <2>2. uni' \in [Tasks -> Unihashes \cup {None}]
      BY <1>1, <1>3, InsertUnihashKeeps DEF PersistUpstreamUni
    <2>3. TablesInOrder'
      BY <1>1, <1>3, <2>2, TablesKeep DEF PersistUpstreamUni, outhashes, history, HashservTypes
    <2> QED
      BY <2>1, <2>3, StoreInvParts
  <1>4. CASE PersistUpstreamOut(s)
    <2>1. ConnsInOrder'
      BY <1>1, <1>4, RepliesKeeps DEF PersistUpstreamOut, Answers
    <2>2. told' \in [Tasks -> SUBSET Unihashes]
      BY <1>1, <1>4, TellsKeeps DEF PersistUpstreamOut, Answers
    <2>3. AgesAreStrict' /\ SomeRowIsOldest' /\ out' \subseteq Tasks \X Outs
      <3>1. CASE InsertOuthash(UpTask, UpOut)
        <4>1. AgesAreStrict' /\ SomeRowIsOldest'
          BY <3>1, InsertKeepsAges DEF StoreInv
        <4>2. out' \subseteq Tasks \X Outs
          BY <1>1, <3>1 DEF HashservTypes, InsertOuthash
        <4> QED
          BY <4>1, <4>2
      <3>2. CASE UNCHANGED outhashes
        BY <1>1, <3>2, OuthashesStay DEF StoreInv, HashservTypes, outhashes
      <3> QED
        BY <1>4, <3>1, <3>2 DEF PersistUpstreamOut
    <2>4. TablesInOrder'
      BY <1>1, <1>4, <2>2, <2>3
         DEF PersistUpstreamOut, TablesInOrder, HashservTypes, StoreInv, BackfillIsUpstreams, UpKnows
    <2> QED
      BY <2>1, <2>4, StoreInvParts
  <1> QED
    BY <1>2, <1>3, <1>4

\* Reports.
LEMMA ReportKeeps ==
    ASSUME StoreInv, NEW s \in Sessions,
           \/ HandleReport(s) \/ ReportOuthash(s) \/ ResolveUnihash(s) \/ ReportUnihash(s)
           \/ ReportAnswer(s) \/ ReportEquiv(s) \/ ReportReadOnly(s) \/ ReportEquivReadOnly(s)
    PROVE  StoreInv'
  <1> USE UpstreamTypes, ThisConnection
  <1>1. HashservTypes /\ UNCHANGED queue
    BY DEF HandleReport, ReportOuthash, ResolveUnihash, ReportUnihash, ReportAnswer, ReportEquiv,
           ReportReadOnly, ReportEquivReadOnly, StoreInv
  <1>2. CASE HandleReport(s)
    <2>1. PICK t \in Tasks, o \in Outs : Serves(s, "report", t, o, None) /\ reports' = reports \cup {<<t, o>>}
      BY <1>2 DEF HandleReport
    <2>2. ConnsInOrder'
      BY <1>2, <2>1, ServesKeeps DEF HandleReport, Requires, Stages
    <2>3. TablesInOrder'
      BY <1>1, <1>2, <2>1, OuthashesStay
         DEF HandleReport, tables, outhashes, TablesInOrder, HashservTypes, StoreInv, BackfillIsUpstreams, UpKnows
    <2> QED
      BY <2>2, <2>3, StoreInvParts
  <1>3. CASE ReportOuthash(s)
    <2>1. /\ sess[s].t \in Tasks /\ sess[s].o \in Outs /\ <<sess[s].t, sess[s].o>> \in reports
          /\ "report" \in sess[s].perms /\ UNCHANGED <<uni, reports, told>>
      BY <1>3 DEF ReportOuthash, Earned, history
    <2>2. ConnsInOrder'
      <3>1. CASE Goes(s, "reread")
        BY <2>1, <3>1, ServesKeeps DEF Goes, Stages
      <3>2. CASE Goes(s, "resolve")
        BY <2>1, <3>2, ServesKeeps DEF Goes, Stages
      <3> QED
        BY <1>3, <3>1, <3>2 DEF ReportOuthash
    <2>3. AgesAreStrict' /\ SomeRowIsOldest'
      BY <1>3, InsertKeepsAges DEF ReportOuthash, StoreInv
    <2>4. TablesInOrder'
      BY <1>1, <1>3, <2>1, <2>3
         DEF ReportOuthash, InsertOuthash, TablesInOrder, HashservTypes, StoreInv, BackfillIsUpstreams, UpKnows
    <2> QED
      BY <2>2, <2>4, StoreInvParts
  <1>4. CASE ResolveUnihash(s)
    <2> DEFINE row == Oldest(sess[s].o, Tasks \ {sess[s].t})
    <2>1. /\ sess[s].t \in Tasks /\ sess[s].o \in Outs /\ <<sess[s].t, sess[s].o>> \in reports
          /\ "report" \in sess[s].perms /\ UNCHANGED <<uni, out, since, reports, told>>
      BY <1>4 DEF ResolveUnihash, Earned, history, tables
    <2>2. row # None => uni[row] \in Unihashes
      BY <2>1, OldestHasUnihash
    <2>3. PICK u \in IF row # None THEN {uni[row]}
                     ELSE {sess[s].t} \cup (IF UpHasOut(sess[s].o) THEN {UpUni} ELSE {}) :
              Serves(s, "mint", sess[s].t, sess[s].o, u)
      BY <1>4 DEF ResolveUnihash
    <2> HIDE DEF row
    <2>4. u \in Unihashes
      BY <2>1, <2>2, <2>3
    <2>5. ConnsInOrder'
      BY <2>1, <2>3, <2>4, ServesKeeps DEF Stages
    <2>6. TablesInOrder'
      BY <1>1, <2>1, TablesKeep DEF HashservTypes
    <2> QED
      BY <2>5, <2>6, StoreInvParts
  <1>5. CASE ReportUnihash(s)
    <2>1. /\ sess[s].t \in Tasks /\ sess[s].u \in Unihashes /\ UNCHANGED <<out, since, reports, told>>
      BY <1>5 DEF ReportUnihash, Earned, history, outhashes
    <2>2. ConnsInOrder'
      BY <1>5, <2>1, ServesKeeps DEF ReportUnihash, Goes, Stages
    <2>3. uni' \in [Tasks -> Unihashes \cup {None}]
      BY <1>1, <1>5, <2>1, InsertUnihashKeeps DEF ReportUnihash
    <2>4. TablesInOrder'
      BY <1>1, <2>1, <2>3, TablesKeep DEF HashservTypes
    <2> QED
      BY <2>2, <2>4, StoreInvParts
  <1>6. CASE ReportEquiv(s)
    <2>1. PICK t \in Tasks, u \in Tasks : InsertUnihash(t, u) /\ Serves(s, "reread", t, None, None)
      BY <1>6 DEF ReportEquiv
    <2>2. UNCHANGED <<out, since, reports, told>>
      BY <1>6 DEF ReportEquiv, outhashes
    <2>3. ConnsInOrder'
      BY <2>1, <2>2, ServesKeeps DEF Stages
    <2>4. uni' \in [Tasks -> Unihashes \cup {None}]
      BY <1>1, <2>1, InsertUnihashKeeps
    <2>5. TablesInOrder'
      BY <1>1, <2>2, <2>4, TablesKeep DEF HashservTypes
    <2> QED
      BY <2>3, <2>5, StoreInvParts
  <1>7. ASSUME UNCHANGED <<uni, out, since, reports>>, Replies(s),
               \/ UNCHANGED told
               \/ \E t \in Tasks, u \in Unihashes : Tells(t, u)
        PROVE  StoreInv'
    <2>1. ConnsInOrder'
      BY <1>7, RepliesKeeps
    <2>2. told' \in [Tasks -> SUBSET Unihashes]
      BY <1>1, <1>7, TellsKeeps DEF HashservTypes
    <2>3. TablesInOrder'
      BY <1>1, <1>7, <2>2, TablesKeep DEF HashservTypes
    <2> QED
      BY <2>1, <2>3, StoreInvParts
  <1>8. CASE ReportAnswer(s)
    <2>1. sess[s].t \in Tasks /\ uni[sess[s].t] \in Unihashes \cup {None}
      BY <1>1, <1>8 DEF ReportAnswer, Earned, HashservTypes
    <2> QED
      BY <1>7, <1>8, <2>1 DEF ReportAnswer, Answers, tables
  <1>9. CASE ReportReadOnly(s)
    <2>1. PICK t \in Tasks, o \in Outs :
             Answers(s, t, IF Oldest(o, Tasks) = None THEN t ELSE uni[Oldest(o, Tasks)])
      BY <1>9 DEF ReportReadOnly
    <2>2. (IF Oldest(o, Tasks) = None THEN t ELSE uni[Oldest(o, Tasks)]) \in Unihashes
      BY OldestHasUnihash
    <2> QED
      BY <1>7, <1>9, <2>1, <2>2 DEF ReportReadOnly, Answers, tables
  <1>10. CASE ReportEquivReadOnly(s)
    <2>1. PICK t \in Tasks, u \in Tasks : Answers(s, t, IF uni[t] = None THEN u ELSE uni[t])
      BY <1>10 DEF ReportEquivReadOnly
    <2>2. (IF uni[t] = None THEN u ELSE uni[t]) \in Unihashes
      BY <1>1 DEF HashservTypes
    <2> QED
      BY <1>7, <1>10, <2>1, <2>2 DEF ReportEquivReadOnly, Answers, tables
  <1> QED
    BY <1>2, <1>3, <1>4, <1>5, <1>6, <1>8, <1>9, <1>10

\* Removals.
LEMMA RemoveKeeps ==
    ASSUME StoreInv, NEW s \in Sessions,
           HandleRemove(s) \/ RemoveOuthashes(s) \/ RemoveByOuthash(s)
    PROVE  StoreInv'
  <1> USE UpstreamTypes, ThisConnection
  <1>1. HashservTypes /\ UNCHANGED <<queue, reports>>
    BY DEF HandleRemove, RemoveOuthashes, RemoveByOuthash, StoreInv, history
  <1>2. CASE HandleRemove(s)
    <2>1. PICK S :
             /\ uni' = [t \in Tasks |-> IF t \in S THEN None ELSE uni[t]]
             /\ \/ S = Tasks /\ Serves(s, "removeout", None, None, None)
                \/ \E t \in Tasks : S = {t} /\ Serves(s, "removeout", t, None, None)
                \/ Replies(s)
             /\ told' = [t \in Tasks |-> IF t \in S THEN {} ELSE told[t]]
      BY <1>2 DEF HandleRemove
    <2>2. ConnsInOrder'
      <3>1. "report" \in sess[s].perms
        BY <1>2 DEF HandleRemove, Requires, Earned
      <3>2. ASSUME NEW t \in Tasks \cup {None}, Serves(s, "removeout", t, None, None)
            PROVE  ConnsInOrder'
        BY <1>1, <3>1, <3>2, ServesKeeps DEF Stages
      <3>3. CASE Replies(s)
        BY <1>1, <3>3, RepliesKeeps
      <3> QED
        BY <2>1, <3>2, <3>3
    <2>3. uni' \in [Tasks -> Unihashes \cup {None}] /\ told' \in [Tasks -> SUBSET Unihashes]
      BY <1>1, <2>1 DEF HashservTypes
    <2>4. TablesInOrder'
      BY <1>1, <1>2, <2>3, TablesKeep DEF HandleRemove, outhashes
    <2> QED
      BY <2>2, <2>4, StoreInvParts
  <1>3. ASSUME NEW rows, DeleteOuthashes(rows), UNCHANGED <<uni, told>>, Replies(s)
        PROVE  StoreInv'
    <2>1. ConnsInOrder'
      BY <1>1, <1>3, RepliesKeeps
    <2>2. AgesAreStrict' /\ SomeRowIsOldest'
      BY <1>3, DeleteKeepsAges DEF StoreInv
    <2>3. TablesInOrder'
      BY <1>1, <1>3, <2>2
         DEF DeleteOuthashes, TablesInOrder, HashservTypes, StoreInv, BackfillIsUpstreams, UpKnows
    <2> QED
      BY <2>1, <2>3, StoreInvParts
  <1>4. CASE RemoveOuthashes(s)
    BY <1>3, <1>4 DEF RemoveOuthashes, history
  <1>5. CASE RemoveByOuthash(s)
    BY <1>3, <1>5 DEF RemoveByOuthash
  <1> QED
    BY <1>2, <1>4, <1>5

\* The background writer inserts what the upstream holds.
LEMMA BackfillKeeps ==
    ASSUME StoreInv, Backfill
    PROVE  StoreInv' /\ UNCHANGED <<out, since, sess, reports, crossed, removed, told>>
           /\ \A t \in Tasks : uni'[t] # uni[t] => HasUpstream
  <1>1. PICK t \in queue : InsertUnihash(t, UpUni) /\ queue' = queue \ {t}
    BY DEF Backfill
  <1>2. t \in Tasks /\ HasUpstream
    BY UpstreamTypes DEF StoreInv, BackfillIsUpstreams
  <1>3. UNCHANGED <<out, since, sess, reports, crossed, removed, told>>
    BY DEF Backfill, outhashes, history
  <1>4. uni' \in [Tasks -> Unihashes \cup {None}]
    BY <1>1, <1>2, InsertUnihashKeeps, UpstreamTypes DEF StoreInv
  <1>5. TablesInOrder'
    BY <1>1, <1>3, <1>4, TablesKeep DEF StoreInv, HashservTypes
  <1>6. ConnsInOrder'
    BY <1>3 DEF StoreInv, HashservTypes, ConnsInOrder, StagesAreEarned, Earned, UpKnows
  <1> QED
    BY <1>2, <1>3, <1>5, <1>6, StoreInvParts

\* The store and the connections stay in order.
LEMMA StoreInvStep ==
    ASSUME StoreInv, [Next]_vars
    PROVE  StoreInv'
  <1>1. CASE UNCHANGED vars
    BY <1>1 DEF vars, StoreInv, HashservTypes, StagesAreEarned, Earned, BackfillIsUpstreams, UpKnows,
                AgesAreStrict, SomeRowIsOldest
  <1>2. CASE Backfill
    BY <1>2, BackfillKeeps
  <1>3. ASSUME NEW s \in Sessions, Step(s) PROVE StoreInv'
    BY <1>3, ConnectionKeeps, LookupKeeps, GetOuthashKeeps, ReportKeeps, RemoveKeeps DEF Step
  <1> QED
    BY <1>1, <1>2, <1>3 DEF Next

LEMMA StoreInvInit ==
    ASSUME Init
    PROVE  StoreInv
  <1>1. \A s \in Sessions : sess[s] = Closed
    BY DEF Init
  <1>2. Closed \in Conns /\ Earned(Closed)
    BY DEF Closed, Conn, Conns, Stages, Earned
  <1>3. HashservTypes
    BY <1>1, <1>2 DEF Init, HashservTypes
  <1> QED
    BY <1>1, <1>2, <1>3 DEF Init, StoreInv, StagesAreEarned, BackfillIsUpstreams, AgesAreStrict,
                          SomeRowIsOldest

LEMMA StoreStaysInOrder == Spec => []StoreInv
  BY StoreInvInit, StoreInvStep, PTL DEF Spec

-----------------------------------------------------------------------------
(* Readers *)

\* A step of connection s changes no other connection.
LEMMA StepIsOwn ==
    ASSUME StoreInv, NEW s \in Sessions, Step(s), NEW r \in Sessions, r # s
    PROVE  sess'[r] = sess[r]
  <1>1. ASSUME NEW c, sess' = [sess EXCEPT ![s] = c] PROVE sess'[r] = sess[r]
    BY <1>1 DEF StoreInv, HashservTypes
  <1>2. CASE Accept(s) \/ Close(s) \/ Fails(s) \/ HandleAuth(s)
    BY <1>1, <1>2 DEF Accept, Close, Fails, HandleAuth
  <1>3. CASE HandleGet(s) \/ WriteThrough(s) \/ OpenStream(s) \/ StreamLine(s) \/ EndStream(s)
    BY <1>1, <1>3 DEF HandleGet, WriteThrough, OpenStream, StreamLine, EndStream, Goes, Serves,
                      Replies, Answers
  <1>4. CASE HandleGetOuthash(s) \/ PersistUpstreamUni(s) \/ PersistUpstreamOut(s)
    BY <1>1, <1>4 DEF HandleGetOuthash, PersistUpstreamUni, PersistUpstreamOut, Goes, Serves,
                      Replies, Answers
  <1>5. CASE HandleReport(s) \/ ReportOuthash(s) \/ ResolveUnihash(s) \/ ReportUnihash(s)
    BY <1>1, <1>5 DEF HandleReport, ReportOuthash, ResolveUnihash, ReportUnihash, Goes, Serves
  <1>6. CASE ReportAnswer(s) \/ ReportEquiv(s) \/ ReportReadOnly(s) \/ ReportEquivReadOnly(s)
    BY <1>1, <1>6 DEF ReportAnswer, ReportEquiv, ReportReadOnly, ReportEquivReadOnly, Serves,
                      Replies, Answers
  <1>7. CASE HandleRemove(s) \/ RemoveOuthashes(s) \/ RemoveByOuthash(s)
    BY <1>1, <1>7 DEF HandleRemove, RemoveOuthashes, RemoveByOuthash, Serves, Replies
  <1> QED
    BY <1>2, <1>3, <1>4, <1>5, <1>6, <1>7 DEF Step

\* What a step writes: unihashes the upstream holds, or on a connection that may report.
LEMMA StepWrites ==
    ASSUME StoreInv, NEW s \in Sessions, Step(s), "report" \notin sess[s].perms
    PROVE  /\ \A t \in Tasks : uni'[t] # uni[t] => t = UpTask /\ uni'[t] = UpUni /\ HasUpstream
           /\ out' \ out \subseteq {<<UpTask, UpOut>>}
  <1> USE UpstreamTypes, ThisConnection
  <1>1. ASSUME UNCHANGED uni \/ (HasUpstream /\ InsertUnihash(UpTask, UpUni))
        PROVE  \A t \in Tasks : uni'[t] # uni[t] => t = UpTask /\ uni'[t] = UpUni /\ HasUpstream
    BY <1>1, InsertUnihashKeeps DEF StoreInv
  <1>2. sess[s].at \notin {"report", "resolve", "mint", "removeout"} /\ "admin" \notin sess[s].perms
    BY DEF Earned
  <1>3. CASE Accept(s) \/ Close(s) \/ Fails(s) \/ HandleAuth(s)
    BY <1>1, <1>3 DEF Accept, Close, Fails, HandleAuth, tables
  <1>4. CASE WriteThrough(s)
    <2>1. sess[s].t = UpTask /\ HasUpstream
      BY <1>4 DEF WriteThrough, Earned
    <2>2. \A t \in Tasks : uni'[t] # uni[t] => t = UpTask /\ uni'[t] = UpUni /\ HasUpstream
      BY <1>1, <1>4, <2>1 DEF WriteThrough
    <2>3. out' = out
      BY <1>4 DEF WriteThrough, outhashes
    <2> QED
      BY <2>2, <2>3
  <1>5. CASE HandleGet(s) \/ OpenStream(s) \/ StreamLine(s) \/ EndStream(s)
    BY <1>1, <1>5 DEF HandleGet, OpenStream, StreamLine, EndStream, tables, outhashes
  <1>6. CASE HandleGetOuthash(s) \/ PersistUpstreamUni(s)
    BY <1>1, <1>6 DEF HandleGetOuthash, PersistUpstreamUni, Earned, tables, outhashes
  <1>7. CASE PersistUpstreamOut(s)
    BY <1>1, <1>7 DEF PersistUpstreamOut, InsertOuthash, outhashes
  <1>8. CASE \/ HandleReport(s) \/ ReportOuthash(s) \/ ResolveUnihash(s) \/ ReportUnihash(s)
             \/ ReportEquiv(s) \/ HandleRemove(s) \/ RemoveOuthashes(s) \/ RemoveByOuthash(s)
    BY <1>2, <1>8 DEF HandleReport, ReportOuthash, ResolveUnihash, ReportUnihash, ReportEquiv,
                      HandleRemove, RemoveOuthashes, RemoveByOuthash, Requires
  <1>9. CASE ReportAnswer(s) \/ ReportReadOnly(s) \/ ReportEquivReadOnly(s)
    BY <1>1, <1>9 DEF ReportAnswer, ReportReadOnly, ReportEquivReadOnly, tables
  <1> QED
    BY <1>3, <1>4, <1>5, <1>6, <1>7, <1>8, <1>9 DEF Step

\* A request on a connection without @report only writes what the upstream holds, under the
\* upstream's own taskhash, for any number of connections and any permissions clients hold.
THEOREM ReadersCannotWrite == Spec => [][ReadersOnlyImport]_vars
  <1>1. ASSUME StoreInv, [Next]_vars PROVE [ReadersOnlyImport]_vars
    <2>1. CASE UNCHANGED vars
      BY <2>1
    <2>2. CASE Backfill
      BY <2>2 DEF Backfill, ReadersOnlyImport
    <2>3. ASSUME NEW s \in Sessions, Step(s) PROVE ReadersOnlyImport
      <3>1. SUFFICES ASSUME NEW r \in Sessions, sess'[r] # sess[r], "report" \notin sess[r].perms
                     PROVE  /\ \A t \in Tasks : uni'[t] # uni[t] => t = UpTask /\ uni'[t] = UpUni
                            /\ out' \ out \subseteq {<<UpTask, UpOut>>}
        BY DEF ReadersOnlyImport
      <3>2. r = s
        BY <1>1, <2>3, <3>1, StepIsOwn
      <3> QED
        BY <1>1, <2>3, <3>1, <3>2, StepWrites
    <2> QED
      BY <1>1, <2>1, <2>2, <2>3 DEF Next
  <1> QED
    BY <1>1, StoreStaysInOrder, PTL DEF Spec

-----------------------------------------------------------------------------
(* Answers *)

\* What is told was stored, and what is stored stays.
LEMMA TellsStored ==
    ASSUME HashservTypes, ToldIsStored, \A v \in Tasks : uni[v] # None => uni'[v] = uni[v],
           UNCHANGED told \/ (\E t \in Tasks : uni[t] \in Unihashes /\ Tells(t, uni[t]))
    PROVE  ToldIsStored'
  <1>1. CASE UNCHANGED told
    BY <1>1 DEF ToldIsStored
  <1>2. ASSUME NEW t \in Tasks, uni[t] \in Unihashes, Tells(t, uni[t]) PROVE ToldIsStored'
    <2>1. \A v \in Tasks : told'[v] = IF v = t THEN told[v] \cup {uni[t]} ELSE told[v]
      BY <1>2, TellsKeeps
    <2>2. uni[t] # None
      BY <1>2, UpstreamTypes
    <2> QED
      BY <2>1, <2>2 DEF ToldIsStored
  <1> QED
    BY <1>1, <1>2

LEMMA InsertIsWriteOnce ==
    ASSUME HashservTypes, NEW t \in Tasks, NEW u \in Unihashes, InsertUnihash(t, u)
    PROVE  \A v \in Tasks : uni[v] # None => uni'[v] = uni[v]
  BY InsertUnihashKeeps

\* Permissions change with the credentials only.
LEMMA StepPerms ==
    ASSUME StoreInv, NEW s \in Sessions, Step(s)
    PROVE  \/ sess'[s].perms \in {sess[s].perms, {}}
           \/ \E c \in Creds \cup {"none"} : sess'[s].perms = Grant(c)
  <1>1. ASSUME NEW c, sess' = [sess EXCEPT ![s] = c] PROVE sess'[s] = c
    BY <1>1 DEF StoreInv, HashservTypes
  <1>2. CASE Accept(s) \/ Close(s) \/ Fails(s) \/ HandleAuth(s)
    BY <1>1, <1>2 DEF Accept, Close, Fails, HandleAuth, Closed, Idle, Conn
  <1>3. ASSUME NEW at, NEW t, NEW o, NEW u, Serves(s, at, t, o, u) PROVE sess'[s].perms = sess[s].perms
    BY <1>1, <1>3 DEF Serves, Conn
  <1>4. ASSUME Replies(s) PROVE sess'[s].perms = sess[s].perms
    BY <1>1, <1>4 DEF Replies, Idle, Conn
  <1>5. CASE HandleGet(s) \/ WriteThrough(s) \/ OpenStream(s) \/ StreamLine(s) \/ EndStream(s)
    BY <1>3, <1>4, <1>5 DEF HandleGet, WriteThrough, OpenStream, StreamLine, EndStream, Goes, Answers
  <1>6. CASE HandleGetOuthash(s) \/ PersistUpstreamUni(s) \/ PersistUpstreamOut(s)
    BY <1>3, <1>4, <1>6 DEF HandleGetOuthash, PersistUpstreamUni, PersistUpstreamOut, Goes, Answers
  <1>7. CASE HandleReport(s) \/ ReportOuthash(s) \/ ResolveUnihash(s) \/ ReportUnihash(s)
    BY <1>3, <1>4, <1>7 DEF HandleReport, ReportOuthash, ResolveUnihash, ReportUnihash, Goes
  <1>8. CASE ReportAnswer(s) \/ ReportEquiv(s) \/ ReportReadOnly(s) \/ ReportEquivReadOnly(s)
    BY <1>3, <1>4, <1>8 DEF ReportAnswer, ReportEquiv, ReportReadOnly, ReportEquivReadOnly, Answers
  <1>9. CASE HandleRemove(s) \/ RemoveOuthashes(s) \/ RemoveByOuthash(s)
    BY <1>3, <1>4, <1>9 DEF HandleRemove, RemoveOuthashes, RemoveByOuthash
  <1> QED
    BY <1>2, <1>5, <1>6, <1>7, <1>8, <1>9 DEF Step

\* No step leaves a connection with @read alone.
LEMMA WritersStay ==
    ASSUME ReadAuthRequired, "read" \notin Creds, StoreInv, WritersOnly, NEW s \in Sessions, Step(s)
    PROVE  WritersOnly'
  <1>1. \A c \in Creds \cup {"none"} : Grant(c) = {} \/ "report" \in Grant(c)
    BY DEF Grant
  <1>2. sess'[s].perms = {} \/ "report" \in sess'[s].perms
    BY <1>1, StepPerms DEF WritersOnly
  <1> QED
    BY <1>2, StepIsOwn DEF WritersOnly

LEMMA AnswersStayStored ==
    ASSUME ~HasUpstream, StoreInv, WritersOnly, ToldIsStored, NEW s \in Sessions, Step(s)
    PROVE  ToldIsStored'
  <1> USE UpstreamTypes, ThisConnection
  <1>1. HashservTypes
    BY DEF StoreInv
  <1>2. ASSUME UNCHANGED uni, UNCHANGED told \/ (\E t \in Tasks : uni[t] # None /\ Tells(t, uni[t]))
        PROVE  ToldIsStored'
    BY <1>1, <1>2, TellsStored DEF HashservTypes
  <1>3. ASSUME UNCHANGED told, NEW t \in Tasks, NEW u \in Unihashes, InsertUnihash(t, u)
        PROVE  ToldIsStored'
    BY <1>1, <1>3, InsertIsWriteOnce, TellsStored
  <1>4. CASE Accept(s) \/ Close(s) \/ Fails(s) \/ HandleAuth(s)
    BY <1>2, <1>4 DEF Accept, Close, Fails, HandleAuth, tables, history
  <1>5. CASE HandleGet(s)
    BY <1>2, <1>5 DEF HandleGet, Answers
  <1>6. CASE WriteThrough(s) \/ PersistUpstreamUni(s) \/ PersistUpstreamOut(s)
    BY <1>6 DEF WriteThrough, PersistUpstreamUni, PersistUpstreamOut, Earned
  <1>7. CASE OpenStream(s) \/ StreamLine(s) \/ EndStream(s)
    BY <1>2, <1>7 DEF OpenStream, StreamLine, EndStream, tables, history
  <1>8. CASE HandleGetOuthash(s)
    <2>1. PICK o \in Outs :
             \/ Oldest(o, Tasks) # None /\ Tells(Oldest(o, Tasks), uni[Oldest(o, Tasks)])
             \/ UNCHANGED told
      BY <1>8 DEF HandleGetOuthash, Answers
    <2>2. Oldest(o, Tasks) # None => Oldest(o, Tasks) \in Tasks /\ uni[Oldest(o, Tasks)] \in Unihashes
      BY OldestHasUnihash
    <2>3. UNCHANGED uni
      BY <1>8 DEF HandleGetOuthash, tables
    <2> QED
      BY <1>2, <2>1, <2>2, <2>3
  <1>9. CASE HandleReport(s) \/ ReportOuthash(s) \/ ResolveUnihash(s)
    BY <1>2, <1>9 DEF HandleReport, ReportOuthash, ResolveUnihash, tables, history
  <1>10. CASE ReportUnihash(s)
    BY <1>3, <1>10 DEF ReportUnihash, Earned, history
  <1>11. CASE ReportEquiv(s)
    BY <1>3, <1>11 DEF ReportEquiv
  <1>12. CASE ReportAnswer(s)
    BY <1>2, <1>12 DEF ReportAnswer, Answers, Earned, tables
  <1>13. CASE ReportReadOnly(s) \/ ReportEquivReadOnly(s)
    BY <1>13 DEF ReportReadOnly, ReportEquivReadOnly, Requires, WritersOnly
  <1>14. CASE HandleRemove(s)
    <2>1. PICK S : /\ uni' = [t \in Tasks |-> IF t \in S THEN None ELSE uni[t]]
                   /\ told' = [t \in Tasks |-> IF t \in S THEN {} ELSE told[t]]
      BY <1>14 DEF HandleRemove
    <2> QED
      BY <2>1 DEF ToldIsStored
  <1>15. CASE RemoveOuthashes(s) \/ RemoveByOuthash(s)
    BY <1>2, <1>15 DEF RemoveOuthashes, RemoveByOuthash, history
  <1> QED
    BY <1>4, <1>5, <1>6, <1>7, <1>8, <1>9, <1>10, <1>11, <1>12, <1>13, <1>14, <1>15 DEF Step

\* Between two removals nobody is told two unihashes for one taskhash, however many report
\* it at once, on a backend without an upstream whose clients may all report: the insert is
\* write-once and every answer is read back.  (A caller that may only read is answered its
\* own unihash where nothing is stored yet, and an upstream its own.)
THEOREM NobodyIsToldTwo ==
    ASSUME ~HasUpstream, ReadAuthRequired, "read" \notin Creds
    PROVE  Spec => []OneAnswerPerTask
  <1> DEFINE Inv == StoreInv /\ WritersOnly /\ ToldIsStored
  <1>1. Init => Inv
    BY StoreInvInit DEF Init, WritersOnly, ToldIsStored, Closed, Conn
  <1>2. ASSUME Inv, [Next]_vars PROVE Inv'
    <2>1. CASE UNCHANGED vars
      BY <1>2, <2>1, StoreInvStep DEF vars, WritersOnly, ToldIsStored
    <2>2. CASE Backfill
      BY <1>2, <2>2, BackfillKeeps DEF WritersOnly, ToldIsStored
    <2>3. ASSUME NEW s \in Sessions, Step(s) PROVE Inv'
      BY <1>2, <2>3, StoreInvStep, WritersStay, AnswersStayStored DEF Next
    <2> QED
      BY <1>2, <2>1, <2>2, <2>3 DEF Next
  <1>3. Inv => OneAnswerPerTask
    <2> SUFFICES ASSUME ToldIsStored, NEW t \in Tasks PROVE Cardinality(told[t]) <= 1
      BY DEF OneAnswerPerTask
    <2>1. Cardinality({}) = 0 /\ Cardinality({uni[t]}) = 1
      BY FS_EmptySet, FS_Singleton
    <2> QED
      BY <2>1 DEF ToldIsStored
  <1> QED
    BY <1>1, <1>2, <1>3, PTL DEF Spec

-----------------------------------------------------------------------------
(* Equal outputs *)

\* What is undisturbed or settled after a step was before.
LEMMA HistoryGrows ==
    ASSUME reports \subseteq reports', crossed \subseteq crossed', removed \subseteq removed'
    PROVE  /\ \A o : Undisturbed(o)' => Undisturbed(o)
           /\ \A t : Settled(t)' => Settled(t)
  BY DEF Undisturbed, Settled

\* In an undisturbed output's history every row and every report is of a settled taskhash.
LEMMA RowsAreSettled ==
    ASSUME NEW o \in Outs, Undisturbed(o), NEW t \in Tasks, <<t, o>> \in reports
    PROVE  Settled(t)
  BY DEF Undisturbed, Settled

\* A step that begins no report and takes none further, and that disturbs what it touches:
\* the taskhashes it binds, unbinds, removes rows of or abandons are settled no more.
LEMMA DisturbanceKeeps ==
    ASSUME StoreInv, ConvergenceInv, NEW s \in Sessions, NEW rows,
           \A r \in Sessions \ {s} : sess'[r] = sess[r],
           sess'[s].at \notin {"report", "resolve", "mint"},
           sess'[s].at = "removeout" =>
              IF sess'[s].t = None THEN Tasks \subseteq removed' ELSE sess'[s].t \in removed',
           Working(s) => sess[s].t \in crossed',
           UNCHANGED reports, crossed \subseteq crossed', removed \subseteq removed',
           \A t \in Tasks : uni'[t] = uni[t] \/ t \in crossed' \cup removed',
           DeleteOuthashes(rows), \A r \in rows : r[1] \in removed'
    PROVE  ConvergenceInv'
  <1>1. \A o : Undisturbed(o)' => Undisturbed(o)
    BY HistoryGrows
  <1>2. \A t : Settled(t)' => Settled(t) /\ t \notin crossed' \cup removed'
    BY HistoryGrows DEF Settled
  <1>3. \A r \in Sessions : Working(r)' => r # s /\ Working(r) /\ sess'[r] = sess[r]
    BY DEF Working
  <1>4. \A t \in Tasks : \A o : <<t, o>> \in out /\ t \notin removed' => <<t, o>> \in out'
    BY DEF DeleteOuthashes
  <1>5. out' \subseteq out /\ since' \subseteq since
    BY DEF DeleteOuthashes
  <1>6. \A r, q : <<r, q>> \in since /\ r \in out' /\ q \in out' => <<r, q>> \in since'
    BY DEF DeleteOuthashes
  <1>7. RowsWereReported'
    BY <1>5 DEF ConvergenceInv, RowsWereReported
  <1>8. ReportsAreAlone'
    BY <1>3 DEF ConvergenceInv, ReportsAreAlone, Working
  <1>9. RowsGetBound'
    <2> SUFFICES ASSUME NEW t \in Tasks, NEW o \in Outs, <<t, o>> \in out', uni'[t] = None, Settled(t)'
                 PROVE  \E r \in Sessions : Working(r)' /\ sess'[r].t = t /\ sess'[r].o = o
      BY DEF RowsGetBound
    <2>1. PICK r \in Sessions : Working(r) /\ sess[r].t = t /\ sess[r].o = o
      BY <1>2, <1>5 DEF ConvergenceInv, RowsGetBound
    <2>2. r # s
      BY <1>2, <2>1
    <2> QED
      BY <2>1, <2>2 DEF Working
  <1>10. WorkersAreYoungest'
    <2> SUFFICES ASSUME NEW r \in Sessions, Working(r)', Settled(sess[r].t)'
                 PROVE  /\ <<sess'[r].t, sess'[r].o>> \in out'
                        /\ \A q \in out' \ {<<sess'[r].t, sess'[r].o>>} :
                              <<q, <<sess'[r].t, sess'[r].o>>>> \in since'
      BY DEF WorkersAreYoungest, Settled
    <2>1. r # s /\ Working(r) /\ sess'[r] = sess[r]
      BY <1>3
    <2>2. sess[r].t \in Tasks /\ Settled(sess[r].t) /\ sess[r].t \notin removed'
      BY <2>1, ThisConnection DEF Earned, Working, Settled
    <2>3. /\ <<sess[r].t, sess[r].o>> \in out
          /\ \A q \in out \ {<<sess[r].t, sess[r].o>>} : <<q, <<sess[r].t, sess[r].o>>>> \in since
      BY <2>1, <2>2 DEF ConvergenceInv, WorkersAreYoungest
    <2> QED
      BY <1>4, <1>5, <1>6, <2>1, <2>2, <2>3
  <1>11. BoundHaveRows'
    <2> SUFFICES ASSUME NEW t \in Tasks, uni'[t] # None, Settled(t)'
                 PROVE  \E o \in Outs : <<t, o>> \in out'
      BY DEF BoundHaveRows
    <2> QED
      BY <1>2, <1>4 DEF ConvergenceInv, BoundHaveRows
  <1>12. ASSUME NEW o \in Outs, Undisturbed(o)', NEW t \in Tasks, <<t, o>> \in reports
         PROVE  t \notin removed' /\ uni'[t] = uni[t]
    BY <1>12 DEF Undisturbed
  <1>13. ASSUME NEW o \in Outs, Undisturbed(o)', NEW f \in Tasks, IsFirst(f, o)'
         PROVE  IsFirst(f, o) /\ uni'[f] = uni[f]
    <2>1. <<f, o>> \in out /\ <<f, o>> \in reports
      BY <1>5, <1>13 DEF IsFirst, ConvergenceInv, RowsWereReported
    <2>2. ASSUME NEW q \in Tasks \ {f}, <<q, o>> \in out PROVE <<<<f, o>>, <<q, o>>>> \in since
      <3>1. q \notin removed'
        BY <1>12, <1>13, <2>2 DEF ConvergenceInv, RowsWereReported
      <3> QED
        BY <1>4, <1>5, <1>13, <2>2, <3>1 DEF IsFirst
    <2> QED
      BY <1>12, <1>13, <2>1, <2>2 DEF IsFirst
  <1>14. MintsTheFirst'
    <2> SUFFICES ASSUME NEW r \in Sessions, sess'[r].at = "mint", Undisturbed(sess[r].o)',
                        NEW f \in Tasks \ {sess'[r].t}, IsFirst(f, sess[r].o)'
                 PROVE  sess'[r].u = uni'[f]
      BY DEF MintsTheFirst, Undisturbed, IsFirst
    <2>1. r # s /\ sess'[r] = sess[r] /\ sess[r].o \in Outs
      BY ThisConnection DEF Earned
    <2>2. PICK o \in Outs : o = sess[r].o
      BY <2>1
    <2>3. Undisturbed(o)' /\ IsFirst(f, o)'
      BY <2>1, <2>2 DEF Undisturbed, IsFirst
    <2> QED
      BY <1>1, <1>13, <2>1, <2>2, <2>3 DEF ConvergenceInv, MintsTheFirst
  <1>15. FollowTheFirst'
    <2> SUFFICES ASSUME NEW o \in Outs, Undisturbed(o)', NEW f \in Tasks, IsFirst(f, o)',
                        NEW t \in Tasks, OutsOf(t)' = {o}, uni'[t] # None
                 PROVE  uni'[t] = uni'[f]
      BY DEF FollowTheFirst
    <2>1. OutsOf(t) = {o} /\ <<t, o>> \in reports
      BY DEF OutsOf
    <2> QED
      BY <1>1, <1>12, <1>13, <2>1 DEF ConvergenceInv, FollowTheFirst
  <1> QED
    BY <1>7, <1>8, <1>9, <1>10, <1>11, <1>14, <1>15 DEF ConvergenceInv

\* The connection after a step of its request; the others are as they were.
LEMMA ServesIs ==
    ASSUME StoreInv, NEW s \in Sessions, NEW at, NEW t, NEW o, NEW u, Serves(s, at, t, o, u)
    PROVE  /\ sess'[s].at = at /\ sess'[s].t = t /\ sess'[s].o = o /\ sess'[s].u = u
           /\ \A r \in Sessions \ {s} : sess'[r] = sess[r]
  BY DEF StoreInv, HashservTypes, Serves, Conn

\* A report begins.
LEMMA HandleReportKeeps ==
    ASSUME StoreInv, ConvergenceInv, NEW s \in Sessions, HandleReport(s)
    PROVE  ConvergenceInv'
  <1>1. PICK t \in Tasks, o \in Outs :
           /\ Serves(s, "report", t, o, None)
           /\ reports' = reports \cup {<<t, o>>}
           /\ crossed' = IF Reporting = {} THEN crossed
                         ELSE crossed \cup {t} \cup {sess[r].t : r \in Reporting}
    BY DEF HandleReport
  <1>2. UNCHANGED <<uni, out, since, removed>> /\ sess[s].at = "idle"
    BY DEF HandleReport, Requires, tables
  <1>3. sess'[s].at = "report" /\ sess'[s].t = t /\ \A r \in Sessions \ {s} : sess'[r] = sess[r]
    BY <1>1, ServesIs
  <1>4. /\ \A q : Undisturbed(q)' => Undisturbed(q)
        /\ \A v : Settled(v)' => Settled(v)
    BY <1>1, <1>2, HistoryGrows
  <1>5. \A r \in Sessions : Working(r)' <=> Working(r)
    BY <1>2, <1>3 DEF Working
  <1>6. RowsWereReported'
    BY <1>1, <1>2, <1>3 DEF ConvergenceInv, RowsWereReported
  <1>7. ReportsAreAlone'
    <2> SUFFICES ASSUME NEW a \in Sessions, NEW b \in Sessions, a # b,
                        sess'[a].at \in {"report", "resolve", "mint"},
                        sess'[b].at \in {"report", "resolve", "mint"}
                 PROVE  sess'[a].t \in crossed'
      BY DEF ReportsAreAlone, Working
    <2>1. CASE a = s
      BY <1>1, <1>3, <2>1 DEF Reporting
    <2>2. CASE b = s
      BY <1>1, <1>3, <2>2 DEF Reporting
    <2>3. CASE a # s /\ b # s
      BY <1>1, <1>3, <2>3 DEF ConvergenceInv, ReportsAreAlone, Working
    <2> QED
      BY <2>1, <2>2, <2>3
  <1>8. RowsGetBound'
    <2> SUFFICES ASSUME NEW v \in Tasks, NEW q \in Outs, <<v, q>> \in out, uni[v] = None, Settled(v)
                 PROVE  \E r \in Sessions : Working(r)' /\ sess'[r].t = v /\ sess'[r].o = q
      BY <1>2, <1>4 DEF RowsGetBound
    <2>1. PICK r \in Sessions : Working(r) /\ sess[r].t = v /\ sess[r].o = q
      BY DEF ConvergenceInv, RowsGetBound
    <2> QED
      BY <1>2, <1>3, <1>5, <2>1 DEF Working
  <1>9. WorkersAreYoungest'
    <2> SUFFICES ASSUME NEW r \in Sessions, Working(r)', Settled(sess[r].t)'
                 PROVE  /\ <<sess'[r].t, sess'[r].o>> \in out'
                        /\ \A q \in out' \ {<<sess'[r].t, sess'[r].o>>} :
                              <<q, <<sess'[r].t, sess'[r].o>>>> \in since'
      BY DEF WorkersAreYoungest
    <2>1. Working(r) /\ sess'[r] = sess[r]
      BY <1>2, <1>3, <1>5 DEF Working
    <2>2. Settled(sess[r].t)
      BY <1>1, <1>2, <2>1 DEF Settled
    <2> QED
      BY <1>2, <2>1, <2>2 DEF ConvergenceInv, WorkersAreYoungest
  <1>10. BoundHaveRows'
    BY <1>2, <1>4 DEF ConvergenceInv, BoundHaveRows
  <1>11. \A f, q : IsFirst(f, q)' <=> IsFirst(f, q)
    BY <1>2 DEF IsFirst
  <1>12. MintsTheFirst'
    <2> SUFFICES ASSUME NEW r \in Sessions, sess'[r].at = "mint", Undisturbed(sess[r].o)',
                        NEW f \in Tasks \ {sess'[r].t}, IsFirst(f, sess[r].o)'
                 PROVE  sess'[r].u = uni'[f]
      BY DEF MintsTheFirst
    <2>1. sess'[r] = sess[r]
      BY <1>3
    <2>2. Undisturbed(sess[r].o) /\ IsFirst(f, sess[r].o)
      BY <1>1, <1>2, <2>1 DEF Undisturbed, IsFirst
    <2> QED
      BY <1>2, <2>1, <2>2 DEF ConvergenceInv, MintsTheFirst
  <1>13. FollowTheFirst'
    <2> SUFFICES ASSUME NEW q \in Outs, Undisturbed(q)', NEW f \in Tasks, IsFirst(f, q),
                        NEW v \in Tasks, OutsOf(v)' = {q}, uni[v] # None
                 PROVE  uni[v] = uni[f]
      BY <1>2, <1>11 DEF FollowTheFirst
    <2>1. OutsOf(v) \subseteq {q} /\ <<v, q>> \in reports'
      BY <1>1 DEF OutsOf
    <2>2. Settled(v)
      BY <1>4, <2>1 DEF Undisturbed, Settled
    <2>3. PICK w \in Outs : <<v, w>> \in out
      BY <2>2 DEF ConvergenceInv, BoundHaveRows
    <2>4. OutsOf(v) = {q}
      BY <2>1, <2>3 DEF OutsOf, ConvergenceInv, RowsWereReported
    <2> QED
      BY <1>4, <2>4 DEF ConvergenceInv, FollowTheFirst
  <1> QED
    BY <1>6, <1>7, <1>8, <1>9, <1>10, <1>12, <1>13 DEF ConvergenceInv

\* Its row is inserted: the youngest, and nobody of an undisturbed history is at work but it.
LEMMA ReportOuthashKeeps ==
    ASSUME StoreInv, ConvergenceInv, NEW s \in Sessions, ReportOuthash(s),
           <<sess[s].t, sess[s].o>> \notin out
    PROVE  ConvergenceInv'
  <1>1. PICK t \in Tasks, o \in Outs : t = sess[s].t /\ o = sess[s].o /\ <<t, o>> \in reports
    BY ThisConnection DEF ReportOuthash, Earned
  <1>2. /\ <<t, o>> \notin out /\ sess[s].at = "report"
        /\ out' = out \cup {<<t, o>>} /\ since' = since \cup (out \X {<<t, o>>})
        /\ UNCHANGED <<uni, reports, crossed, removed>>
        /\ Serves(s, "resolve", t, o, sess[s].u)
    BY <1>1 DEF ReportOuthash, InsertOuthash, Goes, history
  <1>3. /\ sess'[s].at = "resolve" /\ sess'[s].t = t /\ sess'[s].o = o
        /\ \A r \in Sessions \ {s} : sess'[r] = sess[r]
    BY <1>2, ServesIs
  <1>4. /\ \A q : Undisturbed(q)' <=> Undisturbed(q)
        /\ \A v : (Settled(v)' <=> Settled(v)) /\ OutsOf(v)' = OutsOf(v)
    BY <1>2 DEF Undisturbed, Settled, OutsOf
  <1>5. \A r \in Sessions \ {s} : Working(r)' => sess[r].t \in crossed
    BY <1>2, <1>3 DEF ConvergenceInv, ReportsAreAlone, Working
  <1>6. RowsWereReported'
    BY <1>1, <1>2, <1>3 DEF ConvergenceInv, RowsWereReported
  <1>7. ReportsAreAlone'
    BY <1>1, <1>2, <1>3 DEF ConvergenceInv, ReportsAreAlone, Working
  <1>8. RowsGetBound'
    <2> SUFFICES ASSUME NEW v \in Tasks, NEW q \in Outs, <<v, q>> \in out', uni[v] = None, Settled(v)
                 PROVE  \E r \in Sessions : Working(r)' /\ sess'[r].t = v /\ sess'[r].o = q
      BY <1>2, <1>4 DEF RowsGetBound
    <2>1. CASE <<v, q>> = <<t, o>>
      BY <1>3, <2>1 DEF Working
    <2>2. CASE <<v, q>> \in out
      <3>1. PICK r \in Sessions : Working(r) /\ sess[r].t = v /\ sess[r].o = q
        BY <2>2 DEF ConvergenceInv, RowsGetBound
      <3> QED
        BY <1>2, <1>3, <3>1 DEF Working
    <2> QED
      BY <1>2, <2>1, <2>2
  <1>9. WorkersAreYoungest'
    <2> SUFFICES ASSUME NEW r \in Sessions, Working(r)', Settled(sess[r].t)'
                 PROVE  /\ <<sess'[r].t, sess'[r].o>> \in out'
                        /\ \A q \in out' \ {<<sess'[r].t, sess'[r].o>>} :
                              <<q, <<sess'[r].t, sess'[r].o>>>> \in since'
      BY DEF WorkersAreYoungest
    <2>1. r = s
      BY <1>2, <1>3, <1>5 DEF Settled
    <2> QED
      BY <1>2, <1>3, <2>1
  <1>10. BoundHaveRows'
    BY <1>2, <1>4 DEF ConvergenceInv, BoundHaveRows
  <1>11. MintsTheFirst'
    <2> SUFFICES ASSUME NEW r \in Sessions, sess'[r].at = "mint", Undisturbed(sess[r].o)'
                 PROVE  FALSE
      BY DEF MintsTheFirst
    <2>1. r # s /\ sess'[r] = sess[r] /\ sess[r].t \in crossed
      BY <1>3, <1>5 DEF Working
    <2>2. <<sess[r].t, sess[r].o>> \in reports
      BY <2>1, ThisConnection DEF Earned
    <2>3. Undisturbed(sess[r].o)
      BY <1>2, <2>1 DEF Undisturbed
    <2> QED
      BY <2>1, <2>2, <2>3 DEF Undisturbed
  <1>12. FollowTheFirst'
    <2> SUFFICES ASSUME NEW q \in Outs, Undisturbed(q), NEW f \in Tasks, IsFirst(f, q)',
                        NEW v \in Tasks, OutsOf(v) = {q}, uni[v] # None
                 PROVE  uni[v] = uni[f]
      BY <1>2, <1>4 DEF FollowTheFirst
    <2>1. CASE <<f, q>> # <<t, o>>
      <3>1. IsFirst(f, q)
        BY <1>2, <2>1 DEF IsFirst
      <3> QED
        BY <3>1 DEF ConvergenceInv, FollowTheFirst
    <2>2. CASE f = t /\ q = o /\ v # t
      <3>1. <<v, o>> \in reports
        BY <2>2 DEF OutsOf
      <3>2. PICK w \in Outs : <<v, w>> \in out
        BY <2>2, <3>1, RowsAreSettled DEF ConvergenceInv, BoundHaveRows
      <3>3. <<v, o>> \in out
        BY <2>2, <3>2 DEF OutsOf, ConvergenceInv, RowsWereReported
      <3>4. <<<<t, o>>, <<v, o>>>> \in since'
        BY <1>2, <2>2, <3>3 DEF IsFirst
      <3> QED
        BY <1>2, <2>2, <3>3, <3>4 DEF StoreInv, AgesAreStrict
    <2> QED
      BY <2>1, <2>2
  <1> QED
    BY <1>6, <1>7, <1>8, <1>9, <1>10, <1>11, <1>12 DEF ConvergenceInv

\* It adopts the unihash of the first, which has one.
LEMMA ResolveUnihashKeeps ==
    ASSUME ~HasUpstream, StoreInv, ConvergenceInv, NEW s \in Sessions, ResolveUnihash(s)
    PROVE  ConvergenceInv'
  <1>1. PICK t \in Tasks, o \in Outs : t = sess[s].t /\ o = sess[s].o /\ <<t, o>> \in reports
    BY ThisConnection DEF ResolveUnihash, Earned
  <1> DEFINE row == Oldest(o, Tasks \ {t})
  <1>2. UNCHANGED <<uni, out, since, reports, crossed, removed>> /\ sess[s].at = "resolve"
    BY DEF ResolveUnihash, history, tables
  <1>3. PICK u : Serves(s, "mint", t, o, u) /\ (row # None => u = uni[row])
    BY <1>1 DEF ResolveUnihash
  <1>4. /\ sess'[s].at = "mint" /\ sess'[s].t = t /\ sess'[s].o = o /\ sess'[s].u = u
        /\ \A r \in Sessions \ {s} : sess'[r] = sess[r]
    BY <1>3, ServesIs
  <1> HIDE DEF row
  <1>5. \A r \in Sessions : /\ Working(r)' <=> Working(r)
                            /\ (sess'[r].at = "report" <=> sess[r].at = "report")
                            /\ (sess'[r].at = "removeout" <=> sess[r].at = "removeout")
                            /\ sess'[r].t = sess[r].t /\ sess'[r].o = sess[r].o
    BY <1>1, <1>2, <1>4 DEF Working
  <1>6. RowsWereReported'
    BY <1>2, <1>5 DEF ConvergenceInv, RowsWereReported
  <1>7. ReportsAreAlone'
    BY <1>2, <1>5 DEF ConvergenceInv, ReportsAreAlone
  <1>8. RowsGetBound'
    BY <1>2, <1>5 DEF ConvergenceInv, RowsGetBound, Settled
  <1>9. WorkersAreYoungest'
    BY <1>2, <1>5 DEF ConvergenceInv, WorkersAreYoungest, Settled
  <1>10. BoundHaveRows' /\ FollowTheFirst'
    BY <1>2 DEF ConvergenceInv, BoundHaveRows, Settled, FollowTheFirst, Undisturbed, IsFirst, OutsOf
  <1>11. ASSUME NEW f \in Tasks \ {t}, Undisturbed(o), IsFirst(f, o) PROVE u = uni[f]
    <2>1. Settled(t) /\ Settled(f) /\ <<f, o>> \in out
      BY <1>1, <1>11, RowsAreSettled DEF IsFirst, ConvergenceInv, RowsWereReported
    <2>2. uni[f] # None
      <3>1. SUFFICES ASSUME uni[f] = None PROVE FALSE
        OBVIOUS
      <3>2. PICK r \in Sessions : Working(r) /\ sess[r].t = f
        BY <2>1, <3>1 DEF ConvergenceInv, RowsGetBound
      <3>3. r # s /\ Working(s)
        BY <1>1, <1>2, <3>2 DEF Working
      <3> QED
        BY <1>1, <2>1, <3>2, <3>3 DEF ConvergenceInv, ReportsAreAlone, Settled
    <2>3. f \in Bound(o, Tasks \ {t})
      BY <2>1, <2>2 DEF Bound
    <2>4. /\ row \in Bound(o, Tasks \ {t}) /\ row # None
          /\ row # f => <<<<row, o>>, <<f, o>>>> \in since
      BY <2>3, OldestIsBound, OldestHasUnihash DEF row
    <2>5. row = f
      <3>1. SUFFICES ASSUME row # f PROVE FALSE
        OBVIOUS
      <3>2. row \in Tasks \ {f} /\ <<row, o>> \in out
        BY <2>4, <3>1 DEF Bound
      <3>3. <<<<f, o>>, <<row, o>>>> \in since
        BY <1>11, <3>2 DEF IsFirst
      <3> QED
        BY <2>1, <2>4, <3>1, <3>2, <3>3 DEF StoreInv, AgesAreStrict
    <2> QED
      BY <1>3, <2>4, <2>5
  <1>12. MintsTheFirst'
    <2> SUFFICES ASSUME NEW r \in Sessions, sess'[r].at = "mint", Undisturbed(sess[r].o)',
                        NEW f \in Tasks \ {sess'[r].t}, IsFirst(f, sess[r].o)'
                 PROVE  sess'[r].u = uni'[f]
      BY DEF MintsTheFirst
    <2>1. Undisturbed(sess[r].o) /\ IsFirst(f, sess[r].o)
      BY <1>2, <1>5 DEF Undisturbed, IsFirst
    <2>2. CASE r = s
      BY <1>1, <1>2, <1>4, <1>11, <2>1, <2>2
    <2>3. CASE r # s
      BY <1>2, <1>4, <2>1, <2>3 DEF ConvergenceInv, MintsTheFirst
    <2> QED
      BY <2>2, <2>3
  <1> QED
    BY <1>6, <1>7, <1>8, <1>9, <1>10, <1>12 DEF ConvergenceInv

\* It stores it, unless somebody did before.
LEMMA ReportUnihashKeeps ==
    ASSUME StoreInv, ConvergenceInv, NEW s \in Sessions, ReportUnihash(s)
    PROVE  ConvergenceInv'
  <1>1. PICK t \in Tasks, o \in Outs, u \in Unihashes :
           t = sess[s].t /\ o = sess[s].o /\ u = sess[s].u /\ <<t, o>> \in reports
    BY ThisConnection DEF ReportUnihash, Earned
  <1>2. UNCHANGED <<out, since, reports, crossed, removed>> /\ sess[s].at = "mint"
    BY DEF ReportUnihash, history, outhashes
  <1>3. \A v \in Tasks : uni'[v] = IF v = t /\ uni[v] = None THEN u ELSE uni[v]
    BY <1>1, InsertUnihashKeeps DEF ReportUnihash, StoreInv
  <1>4. sess'[s].at = "reread" /\ \A r \in Sessions \ {s} : sess'[r] = sess[r]
    BY ServesIs DEF ReportUnihash, Goes
  <1>5. u # None
    BY UpstreamTypes
  <1>6. RowsWereReported' /\ ReportsAreAlone'
    BY <1>2, <1>4 DEF ConvergenceInv, RowsWereReported, ReportsAreAlone, Working
  <1>7. RowsGetBound'
    <2> SUFFICES ASSUME NEW v \in Tasks, NEW q \in Outs, <<v, q>> \in out, uni'[v] = None, Settled(v)
                 PROVE  \E r \in Sessions : Working(r)' /\ sess'[r].t = v /\ sess'[r].o = q
      BY <1>2 DEF RowsGetBound, Settled
    <2>1. uni[v] = None /\ v # t
      BY <1>3, <1>5
    <2>2. PICK r \in Sessions : Working(r) /\ sess[r].t = v /\ sess[r].o = q
      BY <2>1 DEF ConvergenceInv, RowsGetBound
    <2> QED
      BY <1>1, <1>4, <2>1, <2>2 DEF Working
  <1>8. WorkersAreYoungest'
    BY <1>2, <1>4 DEF ConvergenceInv, WorkersAreYoungest, Settled, Working
  <1>9. BoundHaveRows'
    BY <1>1, <1>2, <1>3 DEF ConvergenceInv, WorkersAreYoungest, BoundHaveRows, Settled, Working
  <1>10. MintsTheFirst'
    <2> SUFFICES ASSUME NEW r \in Sessions, sess'[r].at = "mint", Undisturbed(sess[r].o)'
                 PROVE  FALSE
      BY DEF MintsTheFirst
    <2>1. r # s /\ sess'[r] = sess[r]
      BY <1>4
    <2>2. <<sess[r].t, sess[r].o>> \in reports
      BY <2>1, ThisConnection DEF Earned
    <2>3. sess[r].t \in crossed
      BY <1>2, <2>1 DEF ConvergenceInv, ReportsAreAlone, Working
    <2> QED
      BY <1>2, <2>1, <2>2, <2>3 DEF Undisturbed
  <1>11. FollowTheFirst'
    <2> SUFFICES ASSUME NEW q \in Outs, Undisturbed(q), NEW f \in Tasks, IsFirst(f, q),
                        NEW v \in Tasks, OutsOf(v) = {q}, uni'[v] # None
                 PROVE  uni'[v] = uni'[f]
      BY <1>2 DEF FollowTheFirst, Undisturbed, IsFirst, OutsOf
    <2>1. CASE v # t \/ uni[t] # None
      BY <1>3, <2>1 DEF ConvergenceInv, FollowTheFirst
    <2>2. CASE v = t /\ f # t
      <3>1. q = o
        BY <1>1, <2>2 DEF OutsOf
      <3>2. u = uni[f]
        BY <1>1, <1>2, <2>2, <3>1 DEF ConvergenceInv, MintsTheFirst
      <3> QED
        BY <1>3, <2>1, <2>2, <3>2
    <2> QED
      BY <2>1, <2>2
  <1> QED
    BY <1>6, <1>7, <1>8, <1>9, <1>10, <1>11 DEF ConvergenceInv

\* Every other step disturbs what it touches.
LEMMA OtherStepsKeep ==
    ASSUME ~HasUpstream, StoreInv, ConvergenceInv, NEW s \in Sessions, Step(s),
           ~HandleReport(s), ~ResolveUnihash(s), ~ReportUnihash(s),
           ~(ReportOuthash(s) /\ <<sess[s].t, sess[s].o>> \notin out)
    PROVE  ConvergenceInv'
  <1> USE UpstreamTypes, ThisConnection
  <1>1. ASSUME NEW c, sess' = [sess EXCEPT ![s] = c] PROVE sess'[s] = c
    BY <1>1 DEF StoreInv, HashservTypes
  <1>2. \A r \in Sessions \ {s} : sess'[r] = sess[r]
    BY StepIsOwn
  <1>3. ASSUME Replies(s) PROVE sess'[s].at = "idle"
    BY <1>1, <1>3 DEF Replies, Idle, Conn
  <1>4. ASSUME NEW at, NEW t, NEW o, NEW u, Serves(s, at, t, o, u)
        PROVE  sess'[s].at = at /\ sess'[s].t = t
    BY <1>4, ServesIs
  <1>5. UNCHANGED outhashes => DeleteOuthashes({})
    BY DEF outhashes, DeleteOuthashes
  <1>6. ASSUME UNCHANGED <<uni, outhashes, reports, removed>>, crossed \subseteq crossed',
               sess'[s].at \in {"closed", "idle", "stream", "through", "reread"},
               Working(s) => sess[s].t \in crossed'
        PROVE  ConvergenceInv'
    BY <1>2, <1>5, <1>6, DisturbanceKeeps
  <1>7. CASE Accept(s) \/ HandleAuth(s)
    <2>1. sess'[s].at \in {"closed", "idle"}
      BY <1>1, <1>7 DEF Accept, HandleAuth, Closed, Idle, Conn
    <2> QED
      BY <1>6, <1>7, <2>1 DEF Accept, HandleAuth, tables, outhashes, history, Working
  <1>8. CASE Close(s) \/ Fails(s)
    <2>1. sess'[s].at = "closed"
      BY <1>1, <1>8 DEF Close, Fails, Closed, Conn
    <2>2. crossed \subseteq crossed' /\ (Working(s) => sess[s].t \in crossed')
      BY <1>8 DEF Close, Fails, Working
    <2> QED
      BY <1>6, <1>8, <2>1, <2>2 DEF Close, Fails, tables, outhashes
  <1>9. CASE HandleGet(s) \/ OpenStream(s) \/ StreamLine(s) \/ EndStream(s)
    <2>1. sess'[s].at \in {"idle", "stream", "through"} /\ ~Working(s)
      BY <1>3, <1>4, <1>9 DEF HandleGet, OpenStream, StreamLine, EndStream, Goes, Answers, Working, Requires
    <2>2. UNCHANGED <<uni, outhashes, reports, crossed, removed>>
      BY <1>9 DEF HandleGet, OpenStream, StreamLine, EndStream, tables, outhashes, history
    <2> QED
      BY <1>6, <2>1, <2>2
  <1>10. CASE WriteThrough(s) \/ PersistUpstreamUni(s) \/ PersistUpstreamOut(s)
    BY <1>10 DEF WriteThrough, PersistUpstreamUni, PersistUpstreamOut, Earned
  <1>11. CASE HandleGetOuthash(s) \/ ReportReadOnly(s) \/ ReportEquivReadOnly(s)
    <2>1. sess'[s].at = "idle" /\ ~Working(s)
      BY <1>3, <1>11 DEF HandleGetOuthash, ReportReadOnly, ReportEquivReadOnly, Answers, UpHasOut,
                         Working, Requires
    <2> QED
      BY <1>6, <1>11, <2>1 DEF HandleGetOuthash, ReportReadOnly, ReportEquivReadOnly, tables, outhashes
  <1>12. CASE ReportAnswer(s)
    <2>1. sess'[s].at = "idle" /\ ~Working(s)
      BY <1>3, <1>12 DEF ReportAnswer, Answers, Working
    <2> QED
      BY <1>6, <1>12, <2>1 DEF ReportAnswer, tables, outhashes
  <1>13. CASE ReportOuthash(s)
    <2>1. sess'[s].at = "reread" /\ ~Working(s)
      BY <1>4, <1>13 DEF ReportOuthash, Goes, Working
    <2>2. UNCHANGED outhashes
      BY <1>13 DEF ReportOuthash, InsertOuthash, outhashes
    <2> QED
      BY <1>6, <1>13, <2>1, <2>2 DEF ReportOuthash, history
  <1>14. CASE ReportEquiv(s)
    <2>1. PICK t \in Tasks, u \in Tasks :
             InsertUnihash(t, u) /\ Serves(s, "reread", t, None, None) /\ crossed' = crossed \cup {t}
      BY <1>14 DEF ReportEquiv
    <2>2. sess'[s].at = "reread" /\ ~Working(s) /\ UNCHANGED <<outhashes, reports, removed>>
      BY <1>4, <1>14, <2>1 DEF ReportEquiv, Working, Requires
    <2>3. \A v \in Tasks : uni'[v] = uni[v] \/ v \in crossed' \cup removed'
      BY <2>1, InsertUnihashKeeps DEF StoreInv
    <2> QED
      BY <1>2, <1>5, <2>1, <2>2, <2>3, DisturbanceKeeps
  <1>15. CASE HandleRemove(s)
    <2>1. PICK S \in SUBSET Tasks :
             /\ uni' = [t \in Tasks |-> IF t \in S THEN None ELSE uni[t]]
             /\ \/ S = Tasks /\ Serves(s, "removeout", None, None, None)
                \/ \E t \in Tasks : S = {t} /\ Serves(s, "removeout", t, None, None)
                \/ Replies(s)
             /\ removed' = removed \cup S
      BY <1>15 DEF HandleRemove
    <2>2. ~Working(s) /\ UNCHANGED <<outhashes, reports, crossed>>
      BY <1>15 DEF HandleRemove, Working, Requires
    <2>3. /\ sess'[s].at \in {"idle", "removeout"}
          /\ sess'[s].at = "removeout" =>
               IF sess'[s].t = None THEN Tasks \subseteq removed' ELSE sess'[s].t \in removed'
      BY <1>3, <1>4, <2>1
    <2>4. \A v \in Tasks : uni'[v] = uni[v] \/ v \in crossed' \cup removed'
      BY <2>1
    <2> QED
      BY <1>2, <1>5, <2>1, <2>2, <2>3, <2>4, DisturbanceKeeps
  <1>16. CASE RemoveOuthashes(s)
    <2> DEFINE rows == {r \in out : sess[s].t \in {None, r[1]}}
    <2>1. \A r \in rows : r[1] \in removed
      BY <1>16 DEF RemoveOuthashes, ConvergenceInv, RowsWereReported, StoreInv, HashservTypes
    <2>2. DeleteOuthashes(rows) /\ UNCHANGED <<uni, reports, crossed, removed>>
      BY <1>16 DEF RemoveOuthashes, history
    <2>3. sess'[s].at = "idle" /\ ~Working(s)
      BY <1>3, <1>16 DEF RemoveOuthashes, Working
    <2> HIDE DEF rows
    <2> QED
      BY <1>2, <2>1, <2>2, <2>3, DisturbanceKeeps
  <1>17. CASE RemoveByOuthash(s)
    <2>1. PICK o \in Outs : /\ DeleteOuthashes({r \in out : r[2] = o})
                            /\ removed' = removed \cup {t \in Tasks : <<t, o>> \in out}
      BY <1>17 DEF RemoveByOuthash
    <2> DEFINE rows == {r \in out : r[2] = o}
    <2>2. \A r \in rows : r[1] \in removed'
      BY <2>1 DEF StoreInv, HashservTypes
    <2>3. sess'[s].at = "idle" /\ ~Working(s) /\ UNCHANGED <<uni, reports, crossed>>
      BY <1>3, <1>17 DEF RemoveByOuthash, Working, Requires
    <2>4. DeleteOuthashes(rows)
      BY <2>1
    <2> HIDE DEF rows
    <2> QED
      BY <1>2, <2>1, <2>2, <2>3, <2>4, DisturbanceKeeps
  <1> QED
    BY <1>7, <1>8, <1>9, <1>10, <1>11, <1>12, <1>13, <1>14, <1>15, <1>16, <1>17 DEF Step

\* Two taskhashes of one and the same output share a unihash as long as the output's history
\* is undisturbed, for any number of tasks, outputs and connections, on a backend without an
\* upstream: the oldest row decides, and every report that follows finds it bound.
THEOREM OutputsConverge ==
    ASSUME ~HasUpstream
    PROVE  Spec => []EqualOutputsConverge
  <1> DEFINE Inv == StoreInv /\ ConvergenceInv
  <1>1. Init => Inv
    <2> SUFFICES ASSUME Init PROVE ConvergenceInv
      BY StoreInvInit
    <2>1. \A s \in Sessions : sess[s].at = "closed"
      BY DEF Init, Closed, Conn
    <2> QED
      BY <2>1 DEF Init, ConvergenceInv, RowsWereReported, ReportsAreAlone, RowsGetBound, Working,
                  WorkersAreYoungest, BoundHaveRows, MintsTheFirst, FollowTheFirst, IsFirst
  <1>2. ASSUME Inv, [Next]_vars PROVE Inv'
    <2>1. StoreInv'
      BY <1>2, StoreInvStep
    <2>2. ASSUME UNCHANGED <<uni, out, since, sess, reports, crossed, removed>> PROVE ConvergenceInv'
      BY <1>2, <2>2 DEF ConvergenceInv, RowsWereReported, ReportsAreAlone, RowsGetBound, Working,
                        WorkersAreYoungest, BoundHaveRows, MintsTheFirst, FollowTheFirst, IsFirst,
                        Settled, Undisturbed, OutsOf
    <2>3. CASE UNCHANGED vars
      BY <2>1, <2>2, <2>3 DEF vars
    <2>4. CASE Backfill
      <3>1. \A t \in queue : FALSE
        BY <1>2 DEF StoreInv, BackfillIsUpstreams, UpKnows
      <3> QED
        BY <2>4, <3>1 DEF Backfill
    <2>5. ASSUME NEW s \in Sessions, Step(s) PROVE ConvergenceInv'
      BY <1>2, <2>5, HandleReportKeeps, ReportOuthashKeeps, ResolveUnihashKeeps, ReportUnihashKeeps,
         OtherStepsKeep
    <2> QED
      BY <1>2, <2>1, <2>3, <2>4, <2>5 DEF Next
  <1>3. Inv => EqualOutputsConverge
    <2> SUFFICES ASSUME Inv, NEW o \in Outs, Undisturbed(o), NEW t \in Tasks, NEW v \in Tasks,
                        OutsOf(t) = {o}, OutsOf(v) = {o}, uni[t] # None, uni[v] # None
                 PROVE  uni[t] = uni[v]
      BY DEF EqualOutputsConverge
    <2>1. <<t, o>> \in out
      <3>1. Settled(t)
        BY RowsAreSettled DEF OutsOf
      <3>2. PICK w \in Outs : <<t, w>> \in out
        BY <3>1 DEF ConvergenceInv, BoundHaveRows
      <3> QED
        BY <3>2 DEF OutsOf, ConvergenceInv, RowsWereReported
    <2> DEFINE R == {r \in out : r[2] = o}
    <2>2. R \in SUBSET out /\ R # {}
      BY <2>1
    <2>3. PICK r \in R : \A q \in R \ {r} : <<r, q>> \in since
      BY <2>2 DEF StoreInv, SomeRowIsOldest
    <2>4. PICK f \in Tasks : r = <<f, o>>
      BY <2>3 DEF StoreInv, HashservTypes
    <2>5. IsFirst(f, o)
      BY <2>3, <2>4 DEF IsFirst
    <2> QED
      BY <2>5 DEF ConvergenceInv, FollowTheFirst
  <1> QED
    BY <1>1, <1>2, <1>3, PTL DEF Spec

-----------------------------------------------------------------------------
(* UnihashToucher: the reads on their way to the table, for any taskhashes, *)
(* any staleness and any bounds.                                            *)

FlushSteps == {"off", "part", "none", "narrow", "write", "clear", "merge", "back"}

Flushings ==
    [at : FlushSteps, cutoff : Nat, old : Marks, due : Marks, saw : SUBSET Keys,
     ok : BOOLEAN, crossed : BOOLEAN]

\* FlushNow takes every mark, so what it saw and has not written stays in its batch.
Durable(r) ==
    /\ r.at = "part" => r.cutoff = MaxTime /\ r.saw \subseteq Has(r.old)
    /\ r.at \in {"narrow", "write"} => r.saw \subseteq Has(r.due)
    /\ r.at = "none" => r.saw = {}
    /\ r.at \in {"clear", "back"} /\ r.ok => r.saw = {}
    /\ r.at = "merge" => ~r.ok

\* A flush that has nothing to write holds nothing.
Tidy(r) == r.at \in {"off", "none", "back"} => r.due = Empty

\* A flush that no other crosses is the only one, and flushing covers what it holds until
\* it lets go of it.
Covered(f) ==
    fl[f].at # "off" /\ ~fl[f].crossed =>
        /\ \A g \in Flushers : g # f => fl[g].at = "off"
        /\ fl[f].at = "part" => Has(fl[f].old) \subseteq Has(flushing)
        /\ fl[f].at \in {"narrow", "write", "clear"} => Has(fl[f].due) \subseteq Has(flushing)

ToucherTypes ==
    /\ clock \in 1 .. MaxTime /\ marks \in Marks /\ flushing \in Marks
    /\ fl \in [Flushers -> Flushings]

ToucherInv ==
    /\ ToucherTypes
    /\ \A f \in Flushers : Tidy(fl[f]) /\ Covered(f)
    /\ "now" \in Flushers => Durable(fl["now"])

\* A record that differs from another only in what others have written for it.
Follows(a, b) ==
    /\ a.at = b.at /\ a.cutoff = b.cutoff /\ a.old = b.old /\ a.due = b.due
    /\ a.saw \subseteq b.saw /\ a.ok = b.ok /\ a.crossed = b.crossed

\* A step of the flush f, from the record it leaves.
LEMMA OwnStep ==
  ASSUME ToucherInv, NEW f \in Flushers,
         fl' \in [Flushers -> Flushings],
         \A g \in Flushers : g # f => Follows(fl'[g], fl[g]),
         clock' \in 1 .. MaxTime, marks' \in Marks, flushing' \in Marks,
         fl[f].at # "off", fl'[f].crossed = fl[f].crossed, fl'[f].at # "part",
         Tidy(fl'[f]),
         ~fl'[f].crossed /\ fl'[f].at \in {"narrow", "write", "clear"} =>
             Has(fl'[f].due) \subseteq Has(flushing'),
         f = "now" => Durable(fl'[f])
  PROVE  ToucherInv'
  <1>1. ToucherTypes'
    BY DEF ToucherTypes
  <1>2. ASSUME NEW g \in Flushers PROVE Tidy(fl[g])'
    BY DEF ToucherInv, Tidy, Empty, Follows
  <1>3. ASSUME NEW g \in Flushers PROVE Covered(g)'
    <2>1. CASE g = f
      BY <2>1 DEF ToucherInv, Covered, Has, Follows
    <2>2. CASE g # f
      BY <2>2 DEF ToucherInv, Covered, Has, Follows
    <2> QED
      BY <2>1, <2>2
  <1>4. "now" \in Flushers => Durable(fl["now"])'
    <2>1. CASE f = "now"
      BY <2>1 DEF Durable, Has
    <2>2. CASE f # "now"
      BY <2>2 DEF ToucherInv, Durable, Has, Follows
    <2> QED
      BY <2>1, <2>2
  <1> QED
    BY <1>1, <1>2, <1>3, <1>4 DEF ToucherInv

LEMMA EmptyHasNone ==
  ASSUME UnihashToucherAssumption
  PROVE  Empty \in Marks /\ Has(Empty) = {} /\ 0 \in 0 .. MaxTime
  <1>1. MaxTime \in Nat /\ 0 \in 0 .. MaxTime
    BY DEF UnihashToucherAssumption
  <1> QED
    BY <1>1 DEF Empty, Marks, Has, NoMark

\* A flush begins: it is crossed by those under way, and they by it.
LEMMA SwapKeeps ==
  ASSUME UnihashToucherAssumption, ToucherInv, NEW f \in Flushers, NEW cutoff \in Nat,
         f = "now" => cutoff = MaxTime, Swap(f, cutoff)
  PROVE  ToucherInv'
  <1> DEFINE r == [at |-> "part", cutoff |-> cutoff, old |-> marks, due |-> Empty, saw |-> Has(marks),
                   ok |-> TRUE, crossed |-> \E h \in Flushers : fl[h].at # "off"]
  <1>1. /\ fl[f].at = "off" /\ fl' = Begun(f, cutoff)
        /\ marks' = Empty /\ flushing' = marks /\ clock' = clock
    BY DEF Swap
  <1>2. r \in Flushings
    BY EmptyHasNone DEF ToucherInv, ToucherTypes, Flushings, FlushSteps, Has
  <1>3. fl'[f] = r
    BY <1>1 DEF Begun
  <1>4. ASSUME NEW g \in Flushers, g # f
        PROVE  /\ fl'[g] \in Flushings /\ fl'[g].crossed = (fl[g].crossed \/ fl[g].at # "off")
               /\ fl'[g].at = fl[g].at /\ fl'[g].due = fl[g].due /\ fl'[g].old = fl[g].old
               /\ fl'[g].saw = fl[g].saw /\ fl'[g].ok = fl[g].ok /\ fl'[g].cutoff = fl[g].cutoff
    <2>1. fl'[g] = [fl[g] EXCEPT !.crossed = fl[g].crossed \/ fl[g].at # "off"]
      BY <1>1, <1>4 DEF Begun
    <2>2. fl[g] \in Flushings /\ (fl[g].crossed \/ fl[g].at # "off") \in BOOLEAN
      BY DEF ToucherInv, ToucherTypes
    <2> QED
      BY <2>1, <2>2 DEF Flushings
  <1>5. fl' \in [Flushers -> Flushings]
    BY <1>1, <1>2, <1>3, <1>4 DEF Begun
  <1>6. ToucherTypes'
    BY <1>1, <1>5, EmptyHasNone DEF ToucherInv, ToucherTypes
  <1>7. ASSUME NEW g \in Flushers PROVE Tidy(fl[g])'
    BY <1>3, <1>4 DEF ToucherInv, Tidy, Empty
  <1>8. ASSUME NEW g \in Flushers PROVE Covered(g)'
    <2>1. CASE g = f
      <3>1. fl'[f].crossed = FALSE => \A h \in Flushers : fl[h].at = "off"
        BY <1>3
      <3> QED
        BY <1>1, <1>3, <1>4, <2>1, <3>1 DEF Covered, Has
    <2>2. CASE g # f
      BY <1>4, <2>2 DEF Covered
    <2> QED
      BY <2>1, <2>2
  <1>9. "now" \in Flushers => Durable(fl["now"])'
    <2>1. CASE f = "now"
      BY <1>3, <2>1 DEF Durable, Has
    <2>2. CASE f # "now" /\ "now" \in Flushers
      BY <1>4, <2>2 DEF ToucherInv, Durable, Has
    <2> QED
      BY <2>1, <2>2
  <1> QED
    BY <1>6, <1>7, <1>8, <1>9 DEF ToucherInv

\* FlushNow's batch is everything it swapped out.
LEMMA EverythingIsDue ==
  ASSUME UnihashToucherAssumption, ToucherInv, NEW f \in Flushers
  PROVE  /\ Due(f) \in Marks
         /\ fl[f].cutoff = MaxTime => Due(f) = fl[f].old
         /\ Has(Due(f)) \subseteq Has(fl[f].old)
  <1>1. fl[f].old \in Marks
    BY DEF ToucherInv, ToucherTypes, Flushings
  <1>2. Due(f) \in Marks
    BY <1>1, EmptyHasNone DEF Due, Marks, NoMark
  <1>3. \A k \in Keys : Due(f)[k] = NoMark \/ Due(f)[k] = fl[f].old[k]
    BY DEF Due
  <1>4. ASSUME fl[f].cutoff = MaxTime PROVE Due(f) = fl[f].old
    <2>1. \A k \in Keys : fl[f].old[k] <= MaxTime
      BY <1>1 DEF Marks
    <2>2. \A k \in Keys : Due(f)[k] = fl[f].old[k]
      BY <1>4, <2>1 DEF Due
    <2> QED
      BY <1>1, <1>2, <2>2 DEF Marks
  <1> QED
    BY <1>2, <1>3, <1>4 DEF Has

LEMMA FoldKeeps ==
  ASSUME UnihashToucherAssumption, ToucherInv, NEW f \in Flushers, Fold(f)
  PROVE  ToucherInv'
  <1> DEFINE at == IF Due(f) = Empty THEN "none" ELSE "narrow"
             fl1 == [fl EXCEPT ![f].due = Due(f)]
             fl2 == [fl1 EXCEPT ![f].old = Empty]
  <1>1. /\ fl[f].at = "part" /\ UNCHANGED <<clock, flushing>>
        /\ fl' = [fl2 EXCEPT ![f].at = at]
    BY Zenon DEF Fold
  <1>2. Due(f) \in Marks /\ at \in FlushSteps /\ fl \in [Flushers -> Flushings]
    BY EverythingIsDue DEF FlushSteps, ToucherInv, ToucherTypes
  <1>3. fl1 \in [Flushers -> Flushings] /\ fl1[f].due = Due(f) /\ fl1[f].at = fl[f].at
        /\ fl1[f].old = fl[f].old /\ fl1[f].saw = fl[f].saw /\ fl1[f].crossed = fl[f].crossed
        /\ \A g \in Flushers : g # f => fl1[g] = fl[g]
    BY <1>2 DEF Flushings
  <1>4. fl2 \in [Flushers -> Flushings] /\ fl2[f].due = Due(f) /\ fl2[f].at = fl[f].at
        /\ fl2[f].old = Empty /\ fl2[f].saw = fl[f].saw /\ fl2[f].crossed = fl[f].crossed
        /\ \A g \in Flushers : g # f => fl2[g] = fl[g]
    BY <1>3, EmptyHasNone DEF Flushings
  <1> HIDE DEF fl1, fl2
  <1>5. fl' \in [Flushers -> Flushings] /\ fl'[f].due = Due(f) /\ fl'[f].at = at
        /\ fl'[f].saw = fl[f].saw /\ fl'[f].crossed = fl[f].crossed
        /\ \A g \in Flushers : g # f => fl'[g] = fl[g]
    BY <1>1, <1>2, <1>4 DEF Flushings
  <1>6. marks' \in Marks
    <2>1. \A k \in Keys : marks[k] \in 0 .. MaxTime /\ fl[f].old[k] \in 0 .. MaxTime
      BY DEF ToucherInv, ToucherTypes, Flushings, Marks
    <2> QED
      BY <2>1 DEF Fold, Marks, NoMark
  <1>7. Tidy(fl'[f])
    BY <1>5 DEF Tidy
  <1>8. ~fl'[f].crossed => Has(fl'[f].due) \subseteq Has(flushing)
    BY <1>1, <1>5, EverythingIsDue DEF ToucherInv, Covered
  <1>9. f = "now" => Durable(fl'[f])
    <2> SUFFICES ASSUME f = "now" PROVE Durable(fl'[f])
      OBVIOUS
    <2>1. fl[f].cutoff = MaxTime /\ fl[f].saw \subseteq Has(fl[f].old)
      BY <1>1 DEF ToucherInv, Durable
    <2>2. fl[f].saw \subseteq Has(Due(f))
      BY <2>1, EverythingIsDue
    <2> QED
      BY <1>5, <2>2, EmptyHasNone DEF Durable
  <1>10. flushing' = flushing /\ flushing \in Marks /\ clock' = clock /\ clock \in 1 .. MaxTime
    BY <1>1 DEF ToucherInv, ToucherTypes
  <1>11. fl'[f].at # "part" /\ fl[f].at # "off"
    BY <1>1, <1>5
  <1>12. \A g \in Flushers : g # f => Follows(fl'[g], fl[g])
    BY <1>5 DEF Follows
  <1> QED
    BY <1>5, <1>6, <1>7, <1>8, <1>9, <1>10, <1>11, <1>12, OwnStep

\* A step that moves the flush f on, and at most lets its batch go.
LEMMA MovesOn ==
  ASSUME ToucherInv, NEW f \in Flushers, NEW at \in FlushSteps, NEW due \in Marks,
         fl' = [fl EXCEPT ![f].at = at, ![f].due = due]
  PROVE  /\ fl' \in [Flushers -> Flushings] /\ fl'[f].at = at /\ fl'[f].due = due
         /\ fl'[f].saw = fl[f].saw /\ fl'[f].ok = fl[f].ok /\ fl'[f].crossed = fl[f].crossed
         /\ \A g \in Flushers : g # f => Follows(fl'[g], fl[g])
  <1> DEFINE fl1 == [fl EXCEPT ![f].at = at]
  <1>1. fl' = [fl1 EXCEPT ![f].due = due]
    BY Zenon
  <1>2. fl \in [Flushers -> Flushings]
    BY DEF ToucherInv, ToucherTypes
  <1>3. fl1 \in [Flushers -> Flushings] /\ fl1[f].at = at
        /\ fl1[f].saw = fl[f].saw /\ fl1[f].ok = fl[f].ok /\ fl1[f].crossed = fl[f].crossed
        /\ \A g \in Flushers : g # f => fl1[g] = fl[g]
    BY <1>2 DEF Flushings
  <1> HIDE DEF fl1
  <1>4. fl' \in [Flushers -> Flushings] /\ fl'[f].at = at /\ fl'[f].due = due
        /\ fl'[f].saw = fl[f].saw /\ fl'[f].ok = fl[f].ok /\ fl'[f].crossed = fl[f].crossed
        /\ \A g \in Flushers : g # f => fl'[g] = fl[g]
    <2>1. /\ fl' \in [Flushers -> Flushings] /\ fl'[f].at = fl1[f].at /\ fl'[f].due = due
          /\ fl'[f].saw = fl1[f].saw /\ fl'[f].ok = fl1[f].ok /\ fl'[f].crossed = fl1[f].crossed
          /\ \A g \in Flushers : g # f => fl'[g] = fl1[g]
      BY ONLY <1>1, <1>3, f \in Flushers, due \in Marks DEF Flushings
    <2> QED
      BY ONLY <1>3, <2>1
  <1> QED
    BY <1>4 DEF Follows

\* The same where the batch stays as it is.
LEMMA StepsOn ==
  ASSUME ToucherInv, NEW f \in Flushers, NEW at \in FlushSteps, fl' = [fl EXCEPT ![f].at = at]
  PROVE  /\ fl' \in [Flushers -> Flushings] /\ fl'[f].at = at /\ fl'[f].due = fl[f].due
         /\ fl'[f].saw = fl[f].saw /\ fl'[f].ok = fl[f].ok /\ fl'[f].crossed = fl[f].crossed
         /\ \A g \in Flushers : g # f => Follows(fl'[g], fl[g])
  <1>1. fl \in [Flushers -> Flushings]
    BY DEF ToucherInv, ToucherTypes
  <1>2. fl' \in [Flushers -> Flushings] /\ fl'[f].at = at /\ fl'[f].due = fl[f].due
        /\ fl'[f].saw = fl[f].saw /\ fl'[f].ok = fl[f].ok /\ fl'[f].crossed = fl[f].crossed
        /\ \A g \in Flushers : g # f => fl'[g] = fl[g]
    BY <1>1 DEF Flushings
  <1> QED
    BY <1>2 DEF Follows

LEMMA MapsAreMarks ==
  ASSUME UnihashToucherAssumption, ToucherInv, NEW f \in Flushers
  PROVE  /\ clock \in 1 .. MaxTime /\ marks \in Marks /\ flushing \in Marks /\ Empty \in Marks
         /\ fl[f].due \in Marks /\ fl \in [Flushers -> Flushings]
  BY EmptyHasNone DEF ToucherInv, ToucherTypes, Flushings

LEMMA NothingDueKeeps ==
  ASSUME UnihashToucherAssumption, ToucherInv, NEW f \in Flushers, NothingDue(f)
  PROVE  ToucherInv'
  <1>1. /\ fl[f].at = "none" /\ flushing' = Empty /\ clock' = clock /\ marks' = marks
        /\ fl' = [fl EXCEPT ![f].at = "back"] /\ "back" \in FlushSteps
    BY DEF NothingDue, FlushSteps
  <1>2. /\ fl' \in [Flushers -> Flushings] /\ fl'[f].at = "back" /\ fl'[f].due = fl[f].due
        /\ fl'[f].saw = fl[f].saw /\ fl'[f].crossed = fl[f].crossed
        /\ \A g \in Flushers : g # f => Follows(fl'[g], fl[g])
    BY <1>1, StepsOn
  <1>3. Tidy(fl'[f])
    BY <1>1, <1>2 DEF ToucherInv, Tidy
  <1>4. f = "now" => Durable(fl'[f])
    BY <1>1, <1>2 DEF ToucherInv, Durable
  <1> QED
    BY <1>1, <1>2, <1>3, <1>4, MapsAreMarks, OwnStep

LEMMA NarrowKeeps ==
  ASSUME UnihashToucherAssumption, ToucherInv, NEW f \in Flushers, Narrow(f)
  PROVE  ToucherInv'
  <1>1. /\ fl[f].at = "narrow" /\ flushing' = fl[f].due /\ clock' = clock /\ marks' = marks
        /\ fl' = [fl EXCEPT ![f].at = "write"] /\ "write" \in FlushSteps
    BY DEF Narrow, FlushSteps
  <1>2. /\ fl' \in [Flushers -> Flushings] /\ fl'[f].at = "write" /\ fl'[f].due = fl[f].due
        /\ fl'[f].saw = fl[f].saw /\ fl'[f].crossed = fl[f].crossed
        /\ \A g \in Flushers : g # f => Follows(fl'[g], fl[g])
    BY <1>1, StepsOn
  <1>3. Tidy(fl'[f])
    BY <1>2 DEF Tidy
  <1>4. f = "now" => Durable(fl'[f])
    BY <1>1, <1>2 DEF ToucherInv, Durable
  <1>5. Has(fl'[f].due) \subseteq Has(flushing')
    BY <1>1, <1>2
  <1> QED
    BY <1>1, <1>2, <1>3, <1>4, <1>5, MapsAreMarks, OwnStep

LEMMA ClearKeeps ==
  ASSUME UnihashToucherAssumption, ToucherInv, NEW f \in Flushers, Clear(f)
  PROVE  ToucherInv'
  <1> DEFINE at == IF fl[f].ok THEN "back" ELSE "merge"
             due == IF fl[f].ok THEN Empty ELSE fl[f].due
  <1>1. /\ fl[f].at = "clear" /\ flushing' = Empty /\ clock' = clock /\ marks' = marks
    BY DEF Clear
  <1>2. fl' = [fl EXCEPT ![f].at = at, ![f].due = due]
    <2>1. fl' = [fl EXCEPT ![f].at = at, ![f].due = IF fl[f].ok THEN Empty ELSE @]
      BY Zenon DEF Clear
    <2> QED
      BY <2>1
  <1>3. at \in FlushSteps /\ due \in Marks
    BY MapsAreMarks DEF FlushSteps
  <1> HIDE DEF at, due
  <1>4. /\ fl' \in [Flushers -> Flushings] /\ fl'[f].at = at /\ fl'[f].due = due
        /\ fl'[f].saw = fl[f].saw /\ fl'[f].ok = fl[f].ok /\ fl'[f].crossed = fl[f].crossed
        /\ \A g \in Flushers : g # f => Follows(fl'[g], fl[g])
    BY <1>2, <1>3, MovesOn
  <1>5. Tidy(fl'[f])
    BY <1>4 DEF Tidy, at, due
  <1>6. f = "now" => Durable(fl'[f])
    BY <1>1, <1>4 DEF ToucherInv, Durable, at
  <1> QED
    BY <1>1, <1>4, <1>5, <1>6, MapsAreMarks, OwnStep DEF at

LEMMA MergeBackKeeps ==
  ASSUME UnihashToucherAssumption, ToucherInv, NEW f \in Flushers, MergeBack(f)
  PROVE  ToucherInv'
  <1>1. /\ fl[f].at = "merge" /\ flushing' = flushing /\ clock' = clock
        /\ fl' = [fl EXCEPT ![f].at = "back", ![f].due = Empty]
        /\ "back" \in FlushSteps /\ Empty \in Marks
    BY EmptyHasNone DEF MergeBack, FlushSteps
  <1>2. /\ fl' \in [Flushers -> Flushings] /\ fl'[f].at = "back" /\ fl'[f].due = Empty
        /\ fl'[f].saw = fl[f].saw /\ fl'[f].ok = fl[f].ok /\ fl'[f].crossed = fl[f].crossed
        /\ \A g \in Flushers : g # f => Follows(fl'[g], fl[g])
    BY <1>1, MovesOn
  <1>3. marks' \in Marks
    BY MapsAreMarks DEF MergeBack, Marks
  <1>4. Tidy(fl'[f])
    BY <1>2 DEF Tidy
  <1>5. f = "now" => Durable(fl'[f])
    BY <1>1, <1>2 DEF ToucherInv, Durable
  <1> QED
    BY <1>1, <1>2, <1>3, <1>4, <1>5, MapsAreMarks, OwnStep

LEMMA ReturnKeeps ==
  ASSUME UnihashToucherAssumption, ToucherInv, NEW f \in Flushers, Return(f)
  PROVE  ToucherInv'
  <1>1. /\ fl[f].at = "back" /\ fl' = [fl EXCEPT ![f] = Off]
        /\ UNCHANGED <<clock, marks, flushing>>
    BY DEF Return
  <1>2. Off \in Flushings /\ Off.at = "off" /\ Off.due = Empty
    BY EmptyHasNone DEF Off, Flushings, FlushSteps
  <1>3. fl' \in [Flushers -> Flushings] /\ fl'[f] = Off
        /\ \A g \in Flushers : g # f => fl'[g] = fl[g]
    BY <1>1, <1>2, MapsAreMarks
  <1>4. ToucherTypes'
    BY <1>1, <1>3 DEF ToucherInv, ToucherTypes
  <1>5. ASSUME NEW g \in Flushers PROVE Tidy(fl[g])' /\ Covered(g)'
    <2>1. CASE g = f
      BY <1>2, <1>3, <2>1 DEF Tidy, Covered, Empty
    <2>2. CASE g # f
      BY <1>1, <1>2, <1>3, <2>2 DEF ToucherInv, Tidy, Covered, Empty, Has
    <2> QED
      BY <2>1, <2>2
  <1>6. "now" \in Flushers => Durable(fl["now"])'
    BY <1>2, <1>3 DEF ToucherInv, Durable, Has
  <1> QED
    BY <1>4, <1>5, <1>6 DEF ToucherInv

LEMMA WriteTouchesKeeps ==
  ASSUME UnihashToucherAssumption, ToucherInv, NEW f \in Flushers, WriteTouches(f)
  PROVE  ToucherInv'
  <1>1. /\ fl[f].at = "write" /\ UNCHANGED <<clock, marks, flushing>>
    BY DEF WriteTouches
  <1>2. \A S \in SUBSET Keys :
          /\ Written(S) \in [Flushers -> Flushings]
          /\ \A g \in Flushers : Follows(Written(S)[g], fl[g]) /\ Written(S)[g].saw = fl[g].saw \ S
    <2> SUFFICES ASSUME NEW S \in SUBSET Keys, NEW g \in Flushers
                 PROVE  /\ Written(S)[g] \in Flushings /\ Follows(Written(S)[g], fl[g])
                        /\ Written(S)[g].saw = fl[g].saw \ S
      BY DEF Written
    <2>1. Written(S)[g] = [fl[g] EXCEPT !.saw = fl[g].saw \ S]
      BY DEF Written
    <2>2. fl[g] \in Flushings /\ fl[g].saw \ S \in SUBSET Keys
      BY DEF ToucherInv, ToucherTypes, Flushings
    <2> QED
      BY <2>1, <2>2 DEF Flushings, Follows
  <1>3. PICK S \in SUBSET Keys, ok \in BOOLEAN :
          /\ fl' = IF ok THEN [Written(S) EXCEPT ![f].at = "clear"]
                   ELSE [Written(S) EXCEPT ![f].at = "clear", ![f].ok = FALSE]
          /\ ok => S = Has(fl[f].due)
    BY DEF WriteTouches, Has
  <1> DEFINE w == [Written(S) EXCEPT ![f].at = "clear"]
  <1>4. /\ w \in [Flushers -> Flushings] /\ w[f].at = "clear" /\ w[f].due = fl[f].due
        /\ w[f].saw = fl[f].saw \ S /\ w[f].crossed = fl[f].crossed
        /\ \A g \in Flushers : g # f => Follows(w[g], fl[g])
    BY <1>2 DEF Flushings, FlushSteps, Follows
  <1>5. /\ fl' \in [Flushers -> Flushings] /\ fl'[f].at = "clear" /\ fl'[f].due = fl[f].due
        /\ fl'[f].saw = fl[f].saw \ S /\ fl'[f].crossed = fl[f].crossed
        /\ \A g \in Flushers : g # f => Follows(fl'[g], fl[g])
        /\ ~ok => ~fl'[f].ok
    <2>1. CASE ok
      BY <1>3, <1>4, <2>1
    <2>2. CASE ~ok
      <3>1. fl' = [w EXCEPT ![f].ok = FALSE]
        BY <1>3, <2>2, Zenon
      <3> HIDE DEF w
      <3> QED
        BY <1>4, <2>2, <3>1 DEF Flushings
    <2> QED
      BY <2>1, <2>2
  <1>6. f = "now" => Durable(fl'[f])
    <2>1. f = "now" /\ ok => fl'[f].saw = {}
      BY <1>1, <1>3, <1>5 DEF ToucherInv, Durable
    <2> QED
      BY <1>5, <2>1 DEF Durable
  <1>7. ~fl'[f].crossed => Has(fl'[f].due) \subseteq Has(flushing')
    BY <1>1, <1>5 DEF ToucherInv, Covered
  <1>8. Tidy(fl'[f])
    BY <1>5 DEF Tidy
  <1> QED
    BY <1>1, <1>5, <1>6, <1>7, <1>8, MapsAreMarks, OwnStep

LEMMA ToucherInvInit ==
  ASSUME UnihashToucherAssumption, ToucherInit
  PROVE  ToucherInv
  <1>1. Off \in Flushings /\ Off.at = "off" /\ Off.due = Empty /\ Empty \in Marks
    BY EmptyHasNone DEF Off, Flushings, FlushSteps
  <1>2. 1 \in 1 .. MaxTime
    BY DEF UnihashToucherAssumption
  <1>3. fl = [f \in Flushers |-> Off] /\ clock = 1 /\ marks = Empty /\ flushing = Empty
    BY DEF ToucherInit
  <1>4. ToucherTypes
    BY <1>1, <1>2, <1>3 DEF ToucherTypes
  <1> QED
    BY <1>1, <1>3, <1>4 DEF ToucherInv, Tidy, Covered, Durable

LEMMA ToucherInvStep ==
  ASSUME UnihashToucherAssumption, ToucherInv, [ToucherNext]_toucherVars
  PROVE  ToucherInv'
  <1>1. CASE Tick
    <2>1. clock' \in 1 .. MaxTime /\ UNCHANGED <<marks, flushing, fl>>
      BY <1>1 DEF Tick, ToucherInv, ToucherTypes, UnihashToucherAssumption
    <2> QED
      BY <2>1 DEF ToucherInv, ToucherTypes, Tidy, Covered, Durable, Has, Empty
  <1>2. CASE Mark
    <2>1. marks' \in Marks /\ UNCHANGED <<clock, flushing, fl>>
      BY <1>2 DEF Mark, ToucherInv, ToucherTypes, Marks
    <2> QED
      BY <2>1 DEF ToucherInv, ToucherTypes, Tidy, Covered, Durable, Has, Empty
  <1>3. CASE StartTick
    <2>1. clock - Staleness \in Nat
      BY <1>3 DEF StartTick, ToucherInv, ToucherTypes, UnihashToucherAssumption
    <2> QED
      BY <1>3, <2>1, SwapKeeps DEF StartTick
  <1>4. CASE StartFinal
    BY <1>4, SwapKeeps DEF StartFinal, UnihashToucherAssumption
  <1>5. CASE FlushNow
    BY <1>5, SwapKeeps DEF FlushNow, UnihashToucherAssumption
  <1>6. ASSUME NEW f \in Flushers,
               Fold(f) \/ NothingDue(f) \/ Narrow(f) \/ WriteTouches(f)
               \/ Clear(f) \/ MergeBack(f) \/ Return(f)
        PROVE  ToucherInv'
    BY <1>6, FoldKeeps, NothingDueKeeps, NarrowKeeps, WriteTouchesKeeps, ClearKeeps,
       MergeBackKeeps, ReturnKeeps
  <1>7. CASE UNCHANGED toucherVars
    BY <1>7 DEF toucherVars, ToucherInv, ToucherTypes, Tidy, Covered, Durable, Has, Empty
  <1> QED
    BY <1>1, <1>2, <1>3, <1>4, <1>5, <1>6, <1>7 DEF ToucherNext

\* What the collector relies on before it takes a read for an old one (unihashToucher's
\* pending and FlushNow): while a read is on its way to the table the veto knows of it,
\* unless flushes cross or a failed batch is being merged back; and a FlushNow that
\* returned without an error has written every read it found.
THEOREM ReadsAlwaysReachTheTable ==
  ASSUME UnihashToucherAssumption
  PROVE  ToucherSpec => []ReadsReachTheTable
  <1>1. ToucherInit => ToucherInv
    BY ToucherInvInit
  <1>2. ToucherInv /\ [ToucherNext]_toucherVars => ToucherInv'
    BY ToucherInvStep
  <1>3. ToucherInv => ReadsReachTheTable
    <2> SUFFICES ASSUME ToucherInv PROVE VetoHasNoGap /\ FlushNowIsDurable
      BY DEF ReadsReachTheTable
    <2>1. FlushNowIsDurable
      BY DEF ToucherInv, Durable, FlushNowIsDurable
    <2>2. ASSUME NEW k \in Unflushed, ~Pending(k), NEW f \in Flushers, k \in Has(Held(f))
          PROVE  fl[f].crossed \/ fl[f].at = "merge"
      <3> SUFFICES ASSUME ~fl[f].crossed, fl[f].at # "merge" PROVE FALSE
        OBVIOUS
      <3>1. k \notin Has(flushing)
        BY <2>2 DEF Pending, Has
      <3>2. fl[f].at \in FlushSteps
        BY DEF ToucherInv, ToucherTypes, Flushings
      <3>3. CASE fl[f].at \in {"off", "none", "back"}
        BY <2>2, <3>3, EmptyHasNone DEF ToucherInv, Tidy, Held
      <3>4. CASE fl[f].at \in {"part", "narrow", "write", "clear"}
        BY <2>2, <3>1, <3>4 DEF ToucherInv, Covered, Held
      <3> QED
        BY <3>2, <3>3, <3>4 DEF FlushSteps
    <2>3. VetoHasNoGap
      <3> SUFFICES ASSUME NEW k \in Unflushed, ~Pending(k)
                   PROVE  \E f \in Flushers :
                            k \in Has(Held(f)) /\ (fl[f].crossed \/ fl[f].at = "merge")
        BY DEF VetoHasNoGap
      <3>1. k \notin Has(marks)
        BY DEF Pending, Has
      <3>2. PICK f \in Flushers : k \in Has(Held(f))
        BY <3>1 DEF Unflushed
      <3> QED
        BY <2>2, <3>2
    <2> QED
      BY <2>1, <2>3
  <1> QED
    BY <1>1, <1>2, <1>3, PTL DEF ToucherSpec

-----------------------------------------------------------------------------
(* Reads leave memory only by being written *)

\* A step leaves in memory a read of k that is no younger than v.
Kept(k, v) ==
    \/ marks'[k] # NoMark /\ marks'[k] <= v
    \/ \E g \in Flushers : Held(g)'[k] # NoMark /\ Held(g)'[k] <= v

\* f lets go of the batch it has written.
LetsGo(f) == fl[f].at = "clear" /\ fl[f].ok /\ fl'[f].at = "back"

\* Every read in memory is kept, or let go of by the flush that has written it.
EachIsKept ==
    \A k \in Keys :
        /\ marks[k] # NoMark => Kept(k, marks[k])
        /\ \A f \in Flushers : Held(f)[k] # NoMark => Kept(k, Held(f)[k]) \/ LetsGo(f)

LEMMA HeldAreMarks ==
  ASSUME ToucherInv
  PROVE  /\ \A f \in Flushers, k \in Keys : Held(f)[k] \in Nat
         /\ \A k \in Keys : marks[k] \in Nat
  BY DEF ToucherInv, ToucherTypes, Flushings, Marks, Held

\* The marks stay, and so does what is held.
LEMMA NothingMoves ==
  ASSUME ToucherInv, \A k \in Keys : marks[k] # NoMark => marks'[k] = marks[k],
         \A f \in Flushers : LetsGo(f) \/ Held(f)' = Held(f)
  PROVE  EachIsKept
  BY HeldAreMarks DEF EachIsKept, Kept

LEMMA SwapMoves ==
  ASSUME ToucherInv, NEW f \in Flushers, NEW cutoff, Swap(f, cutoff)
  PROVE  EachIsKept
  <1>1. fl[f].at = "off" /\ fl' = Begun(f, cutoff)
    BY DEF Swap
  <1>2. fl'[f].at = "part" /\ fl'[f].old = marks
    BY <1>1 DEF Begun
  <1>3. Held(f)' = marks
    BY <1>2 DEF Held
  <1>4. ASSUME NEW g \in Flushers, g # f PROVE Held(g)' = Held(g)
    <2>1. fl'[g] = [fl[g] EXCEPT !.crossed = fl[g].crossed \/ fl[g].at # "off"]
      BY <1>1, <1>4 DEF Begun
    <2>2. fl[g] \in Flushings
      BY DEF ToucherInv, ToucherTypes
    <2>3. fl'[g].at = fl[g].at /\ fl'[g].old = fl[g].old /\ fl'[g].due = fl[g].due
      BY <2>1, <2>2 DEF Flushings
    <2> QED
      BY <2>3 DEF Held
  <1>5. Held(f) = Empty
    BY <1>1 DEF Held, ToucherInv, Tidy
  <1>6. \A k \in Keys : Held(f)[k] = NoMark
    BY <1>5 DEF Empty
  <1> QED
    BY <1>3, <1>4, <1>6, HeldAreMarks DEF EachIsKept, Kept

\* The fold and the merge leave the older of two marks.
LEMMA JoinMoves ==
  ASSUME ToucherInv, NEW f \in Flushers, Fold(f) \/ MergeBack(f)
  PROVE  EachIsKept
  <1>1. ASSUME NEW g \in Flushers, g # f PROVE Held(g)' = Held(g)
    <2>1. fl'[g] = fl[g]
      BY <1>1 DEF Fold, MergeBack, ToucherInv, ToucherTypes
    <2> QED
      BY <2>1 DEF Held
  <1>2. ASSUME NEW k \in Keys, marks[k] # NoMark PROVE Kept(k, marks[k])
    <2>1. marks[k] \in Nat /\ fl[f].old[k] \in Nat /\ fl[f].due[k] \in Nat
      BY HeldAreMarks DEF ToucherInv, ToucherTypes, Flushings, Marks
    <2>2. CASE Fold(f)
      BY <1>2, <2>1, <2>2 DEF Fold, Kept, NoMark
    <2>3. CASE MergeBack(f)
      BY <1>2, <2>1, <2>3 DEF MergeBack, Kept, NoMark
    <2> QED
      BY <2>2, <2>3
  <1>3. ASSUME NEW k \in Keys, Held(f)[k] # NoMark PROVE Kept(k, Held(f)[k])
    <2>1. marks[k] \in Nat /\ Held(f)[k] \in Nat
      BY HeldAreMarks
    <2>2. CASE Fold(f)
      <3>1. fl[f].at = "part" /\ Held(f) = fl[f].old
        BY <2>2 DEF Fold, Held
      <3>2. CASE Due(f)[k] = NoMark
        <4>1. marks'[k] = IF marks[k] # NoMark /\ marks[k] < fl[f].old[k] THEN marks[k] ELSE fl[f].old[k]
          BY <1>3, <2>2, <3>1, <3>2 DEF Fold
        <4> QED
          BY <1>3, <2>1, <3>1, <4>1 DEF Kept
      <3>3. CASE Due(f)[k] # NoMark
        <4>1. Due(f)[k] = fl[f].old[k]
          BY <3>3 DEF Due
        <4> DEFINE at == IF Due(f) = Empty THEN "none" ELSE "narrow"
                   fl1 == [fl EXCEPT ![f].due = Due(f)]
                   fl2 == [fl1 EXCEPT ![f].old = Empty]
        <4>2. fl' = [fl2 EXCEPT ![f].at = at]
          BY <2>2, Zenon DEF Fold
        <4>3. fl \in [Flushers -> Flushings]
          BY DEF ToucherInv, ToucherTypes
        <4>4. f \in DOMAIN fl1 /\ DOMAIN fl1[f] = DOMAIN fl[f] /\ fl1[f].due = Due(f)
          BY <4>3 DEF Flushings
        <4>5. f \in DOMAIN fl2 /\ DOMAIN fl2[f] = DOMAIN fl[f] /\ fl2[f].due = Due(f)
          BY <4>3, <4>4 DEF Flushings
        <4> HIDE DEF fl1, fl2
        <4>6. fl'[f].due = Due(f) /\ fl'[f].at = at
          BY ONLY <4>2, <4>3, <4>5, f \in Flushers DEF Flushings
        <4>7. Held(f)'[k] = Held(f)[k]
          BY <3>1, <4>1, <4>6 DEF Held
        <4> QED
          BY <1>3, <2>1, <4>7 DEF Kept
      <3> QED
        BY <3>2, <3>3
    <2>3. CASE MergeBack(f)
      <3>1. fl[f].at = "merge" /\ Held(f) = fl[f].due
        BY <2>3 DEF MergeBack, Held
      <3>2. marks'[k] = IF fl[f].due[k] # NoMark /\ (marks[k] = NoMark \/ fl[f].due[k] < marks[k])
                        THEN fl[f].due[k] ELSE marks[k]
        BY <2>3 DEF MergeBack
      <3> QED
        BY <1>3, <2>1, <3>1, <3>2 DEF Kept
    <2> QED
      BY <2>2, <2>3
  <1> QED
    BY <1>1, <1>2, <1>3, HeldAreMarks DEF EachIsKept, Kept

LEMMA OtherStepsMove ==
  ASSUME UnihashToucherAssumption, ToucherInv, NEW f \in Flushers,
         NothingDue(f) \/ Narrow(f) \/ WriteTouches(f) \/ Clear(f) \/ Return(f)
  PROVE  EachIsKept
  <1>1. marks' = marks
    BY DEF NothingDue, Narrow, WriteTouches, Clear, Return
  <1>2. fl \in [Flushers -> Flushings]
    BY DEF ToucherInv, ToucherTypes
  <1>3. CASE NothingDue(f)
    BY <1>1, <1>2, <1>3, NothingMoves DEF NothingDue, Held, Flushings
  <1>4. CASE Narrow(f)
    BY <1>1, <1>2, <1>4, NothingMoves DEF Narrow, Held, Flushings
  <1>5. CASE Return(f)
    <2>1. fl[f].at = "back" /\ fl'[f] = Off /\ \A g \in Flushers : g # f => fl'[g] = fl[g]
      BY <1>2, <1>5 DEF Return
    <2>2. Held(f) = Empty
      BY <2>1 DEF Held, ToucherInv, Tidy
    <2>3. Held(f)' = Empty
      BY <2>1 DEF Held, Off, Empty
    <2>4. ASSUME NEW g \in Flushers, g # f PROVE Held(g)' = Held(g)
      BY <2>1, <2>4 DEF Held
    <2> QED
      BY <1>1, <2>2, <2>3, <2>4, NothingMoves
  <1>6. CASE Clear(f)
    <2> DEFINE at == IF fl[f].ok THEN "back" ELSE "merge"
               due == IF fl[f].ok THEN Empty ELSE fl[f].due
    <2>0. fl[f].at = "clear"
      BY <1>6 DEF Clear
    <2>1. fl' = [fl EXCEPT ![f].at = at, ![f].due = due]
      <3>1. fl' = [fl EXCEPT ![f].at = at, ![f].due = IF fl[f].ok THEN Empty ELSE @]
        BY <1>6, Zenon DEF Clear
      <3> QED
        BY <3>1
    <2>2. at \in FlushSteps /\ due \in Marks
      BY MapsAreMarks DEF FlushSteps
    <2> HIDE DEF at, due
    <2>3. /\ fl' \in [Flushers -> Flushings] /\ fl'[f].at = at /\ fl'[f].due = due
          /\ fl'[f].saw = fl[f].saw /\ fl'[f].ok = fl[f].ok /\ fl'[f].crossed = fl[f].crossed
          /\ \A g \in Flushers : g # f => Follows(fl'[g], fl[g])
      BY <2>1, <2>2, MovesOn
    <2>4. LetsGo(f) \/ Held(f)' = Held(f)
      BY <2>0, <2>3 DEF LetsGo, Held, at, due
    <2>5. ASSUME NEW g \in Flushers, g # f PROVE Held(g)' = Held(g)
      BY <2>3, <2>5 DEF Held, Follows
    <2> QED
      BY <1>1, <2>4, <2>5, NothingMoves
  <1>7. CASE WriteTouches(f)
    <2>1. \A g \in Flushers : Held(g)' = Held(g)
      <3>1. PICK S : \/ fl' = [Written(S) EXCEPT ![f].at = "clear"]
                     \/ fl' = [Written(S) EXCEPT ![f].at = "clear", ![f].ok = FALSE]
        BY <1>7 DEF WriteTouches
      <3>2. fl[f].at = "write"
        BY <1>7 DEF WriteTouches
      <3>3. \A g \in Flushers :
              /\ Written(S)[g].at = fl[g].at /\ Written(S)[g].old = fl[g].old /\ Written(S)[g].due = fl[g].due
              /\ DOMAIN Written(S)[g] = DOMAIN fl[g]
        BY <1>2 DEF Written, Flushings
      <3> DEFINE w == [Written(S) EXCEPT ![f].at = "clear"]
      <3>4. /\ DOMAIN w = Flushers /\ w[f].at = "clear" /\ w[f].due = fl[f].due /\ w[f].old = fl[f].old
            /\ DOMAIN w[f] = DOMAIN fl[f]
            /\ \A g \in Flushers : g # f => w[g] = Written(S)[g]
        BY <1>2, <3>3 DEF Written, Flushings
      <3>5. fl' = w \/ fl' = [w EXCEPT ![f].ok = FALSE]
        BY <3>1, Zenon
      <3> HIDE DEF w
      <3>6. fl'[f].at = "clear" /\ fl'[f].due = fl[f].due /\ \A g \in Flushers : g # f => fl'[g] = Written(S)[g]
        BY ONLY <1>2, <3>4, <3>5, f \in Flushers DEF Flushings
      <3> QED
        BY <3>2, <3>3, <3>6 DEF Held
    <2> QED
      BY <1>1, <2>1, NothingMoves
  <1> QED
    BY <1>3, <1>4, <1>5, <1>6, <1>7

LEMMA SetsHaveLeast ==
  ASSUME NEW T, T \subseteq Nat, T # {}
  PROVE  Min(T) \in T /\ \A x \in T : Min(T) <= x
  <1> DEFINE R == OpToRel(<, Nat)
             P(m) == \A x \in T : m <= x
  <1> HIDE DEF R
  <1>1. \E m \in T : \A y \in T : <<y, m>> \notin R
    <2>1. IsWellFoundedOn(R, Nat)
      BY NatLessThanWellFounded DEF R
    <2> QED
      BY <2>1, WFMin
  <1>2. \E m \in T : P(m)
    <2>1. PICK m \in T : \A y \in T : <<y, m>> \notin R
      BY <1>1
    <2>2. \A y \in T : ~(y < m)
      BY <2>1 DEF R, OpToRel
    <2>3. \A y \in T : m <= y
      BY <2>2
    <2> QED
      BY <2>3
  <1>3. Min(T) = CHOOSE m \in T : P(m)
    BY Zenon DEF Min
  <1>4. (CHOOSE m \in T : P(m)) \in T /\ P(CHOOSE m \in T : P(m))
    <2> HIDE DEF P
    <2> QED
      BY <1>2
  <1> QED
    BY <1>3, <1>4

\* Of a set of marks, the oldest one.
LEMMA OldestOfSet ==
  ASSUME NEW S, S \subseteq Nat, S # {}, NEW o,
         o = IF S = {NoMark} THEN NoMark ELSE Min(S \ {NoMark})
  PROVE  /\ o # NoMark => o \in S
         /\ \A x \in S : x # NoMark => o # NoMark /\ o <= x
  <1>1. CASE S = {NoMark}
    BY <1>1
  <1>2. CASE S # {NoMark}
    <2>1. S \ {NoMark} # {} /\ S \ {NoMark} \subseteq Nat
      BY <1>2
    <2>2. o = Min(S \ {NoMark})
      BY <1>2
    <2>3. o \in S \ {NoMark} /\ \A x \in S \ {NoMark} : o <= x
      BY <2>1, <2>2, SetsHaveLeast
    <2> QED
      BY <2>3
  <1> QED
    BY <1>1, <1>2

\* A read leaves memory only by being written (flush, mergeBack): until then the oldest
\* unflushed read of a taskhash never gets younger and never disappears, whatever fails
\* and however flushes overlap.
THEOREM ReadsLeaveByWriting ==
  ASSUME UnihashToucherAssumption
  PROVE  ToucherSpec => [][MarksLeaveByWriting]_toucherVars
  <1>1. ToucherInit => ToucherInv
    BY ToucherInvInit
  <1>2. ToucherInv /\ [ToucherNext]_toucherVars => ToucherInv'
    BY ToucherInvStep
  <1>3. ToucherInv /\ ToucherNext => EachIsKept
    <2> SUFFICES ASSUME ToucherInv, ToucherNext PROVE EachIsKept
      OBVIOUS
    <2>1. CASE Tick
      BY <2>1, NothingMoves DEF Tick, Held
    <2>2. CASE Mark
      <3>1. \A k \in Keys : marks[k] # NoMark => marks'[k] = marks[k]
        BY <2>2 DEF Mark, ToucherInv, ToucherTypes, Marks
      <3>2. \A f \in Flushers : Held(f)' = Held(f)
        BY <2>2 DEF Mark, Held
      <3> QED
        BY <3>1, <3>2, NothingMoves
    <2>3. CASE StartTick \/ StartFinal \/ FlushNow
      BY <2>3, SwapMoves DEF StartTick, StartFinal, FlushNow
    <2>4. ASSUME NEW f \in Flushers, Fold(f) \/ MergeBack(f) PROVE EachIsKept
      BY <2>4, JoinMoves
    <2>5. ASSUME NEW f \in Flushers,
                 NothingDue(f) \/ Narrow(f) \/ WriteTouches(f) \/ Clear(f) \/ Return(f)
          PROVE  EachIsKept
      BY <2>5, OtherStepsMove
    <2> QED
      BY <2>1, <2>2, <2>3, <2>4, <2>5 DEF ToucherNext
  <1>4. ToucherInv /\ ToucherInv' /\ EachIsKept => MarksLeaveByWriting
    <2> SUFFICES ASSUME ToucherInv, ToucherInv', EachIsKept,
                        NEW k \in Keys, OldestMark(k) # NoMark
                 PROVE  \/ OldestMark(k)' # NoMark /\ OldestMark(k)' <= OldestMark(k)
                        \/ \E f \in Flushers : LetsGo(f) /\ fl[f].due[k] = OldestMark(k)
      BY DEF MarksLeaveByWriting, LetsGo
    <2> DEFINE S == {marks[k]} \cup {Held(f)[k] : f \in Flushers}
               T == {marks'[k]} \cup {Held(f)'[k] : f \in Flushers}
               o == OldestMark(k)
               p == OldestMark(k)'
    <2>1. S \subseteq Nat /\ S # {} /\ o = IF S = {NoMark} THEN NoMark ELSE Min(S \ {NoMark})
      BY HeldAreMarks DEF OldestMark
    <2>2. T \subseteq Nat /\ T # {}
      BY DEF ToucherInv, ToucherTypes, Flushings, Marks, Held
    <2>3. p = IF T = {NoMark} THEN NoMark ELSE Min(T \ {NoMark})
      BY DEF OldestMark, NoMark
    <2>4. o \in S /\ o # NoMark
      BY <2>1, OldestOfSet
    <2>5. \A x \in T : x # NoMark => p # NoMark /\ p <= x /\ x \in Nat
      <3> HIDE DEF T, p
      <3> QED
        BY <2>2, <2>3, OldestOfSet
    <2>6. ASSUME Kept(k, o) PROVE p # NoMark /\ p <= o
      <3>1. PICK x \in T : x # NoMark /\ x <= o
        BY <2>6 DEF Kept
      <3>2. p # NoMark /\ p <= x /\ x \in Nat /\ o \in Nat
        BY <2>1, <2>4, <2>5, <3>1
      <3>3. p \in Nat
        <4> HIDE DEF T, p
        <4>1. p \in T
          BY <2>2, <2>3, <3>2, OldestOfSet
        <4> QED
          BY <2>2, <4>1
      <3> QED
        BY <3>1, <3>2, <3>3
    <2>7. CASE o = marks[k]
      BY <2>4, <2>6, <2>7 DEF EachIsKept
    <2>8. ASSUME NEW f \in Flushers, o = Held(f)[k]
          PROVE  Kept(k, o) \/ (LetsGo(f) /\ fl[f].due[k] = o)
      <3>1. Kept(k, o) \/ LetsGo(f)
        BY <2>4, <2>8 DEF EachIsKept
      <3>2. LetsGo(f) => Held(f) = fl[f].due
        BY DEF LetsGo, Held
      <3> QED
        BY <2>8, <3>1, <3>2
    <2> QED
      BY <2>4, <2>6, <2>7, <2>8
  <1> QED
    BY <1>1, <1>2, <1>3, <1>4, PTL DEF ToucherSpec

=============================================================================
