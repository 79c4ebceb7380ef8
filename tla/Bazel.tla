------------------------------- MODULE Bazel -------------------------------
(***************************************************************************)
(* The gRPC remote cache (bazel/actioncache.go, cas.go, bytestream.go) and *)
(* the age at which its rows are collected.  A build asks for the action's *)
(* result, uses the outputs a hit names, or builds, asks which outputs are *)
(* missing, uploads those and records the result.  Every RPC is one step.  *)
(* Two results are possible: a file, and a tree whose blob names a file.   *)
(***************************************************************************)
EXTENDS Naturals

CONSTANTS
    Builds, Uploaders,    \* Uploaders: those whose credential may write
    WindowAc, WindowCas,  \* retention, in ticks
    Patience,           \* ticks a build may spend between its first and its last RPC
    MaxRun,             \* bound on the ticks one collection takes
    MaxDrops            \* bound on failed uploads

BazelAssumption ==
    /\ Uploaders \subseteq Builds
    /\ {WindowAc, WindowCas, Patience, MaxRun, MaxDrops} \subseteq Nat
    /\ WindowCas >= WindowAc + Patience   \* the ladder: W_cas = 2 x W_ac, builds take less

Cas == {"f", "t", "g"}
Results == {"file", "tree"}
Outputs(r) == IF r = "file" THEN {"f"} ELSE {"t"}     \* what the ActionResult names
TreeContents(r) == IF r = "tree" THEN {"g"} ELSE {}   \* what its Tree blob names
Needed(r) == Outputs(r) \cup TreeContents(r)
NoResult == "none"
Gone == WindowCas + MaxRun + 2      \* the age of a row that is not there
Oldest == WindowCas + MaxRun + 1   \* ages beyond every window are not told apart

VARIABLES
    ac, acAge,    \* the action's result and the age of its row
    age,          \* per CAS object: ticks since created_at or accessed_at
    build,        \* per client: where it is, the result in hand, the outputs left, its ticks
    gc,           \* the run: its stage, and the ticks since it took its cutoffs
    drops

bazelVars == <<ac, acAge, age, build, gc, drops>>

Rest == [at |-> "rest", r |-> NoResult, todo |-> {}, ticks |-> 0]
NoRun == [at |-> "idle", ticks |-> 0]

BazelInit ==
    /\ ac = NoResult /\ acAge = 0 /\ age = [o \in Cas |-> Gone]
    /\ build = [c \in Builds |-> Rest] /\ gc = NoRun /\ drops = 0

Present(o) == age[o] # Gone
Older(a) == IF a >= Oldest THEN a ELSE a + 1
UploadFault == drops < MaxDrops /\ drops' = drops + 1
Go(c, at) == build' = [build EXCEPT ![c].at = at]

\* A tick passes; nobody lingers longer than a build does.
Tick ==
    /\ \A c \in Builds : build[c].at = "rest" \/ build[c].ticks < Patience
    /\ acAge' = IF ac = NoResult THEN acAge ELSE Older(acAge)
    /\ age' = [o \in Cas |-> Older(age[o])]
    /\ build' = [c \in Builds |-> IF build[c].at = "rest" THEN build[c] ELSE [build[c] EXCEPT !.ticks = @ + 1]]
    /\ gc.ticks < MaxRun /\ gc' = IF gc.at = "idle" THEN gc ELSE [gc EXCEPT !.ticks = @ + 1]
    /\ UNCHANGED <<ac, drops>>

-----------------------------------------------------------------------------
(* Reads *)

\* Mutant: only the digests the ActionResult itself names are touched.
TouchOutputs_Shallow(r) == [o \in Cas |-> IF o \in Outputs(r) /\ Present(o) THEN 0 ELSE age[o]]

\* touchOutputs and touchTreeContents: the outputs and, if the Tree blob can be read, what it
\* names.  A mark on an object that is not there does nothing.
TouchOutputs(r) ==
    LET reached == Outputs(r) \cup (IF Present("t") THEN TreeContents(r) ELSE {})
    IN  [o \in Cas |-> IF o \in reached /\ Present(o) THEN 0 ELSE age[o]]

\* GetActionResult: a hit makes the row and everything under it young.
GetActionResult(c) ==
    /\ build[c].at = "rest"
    /\ IF ac = NoResult
       THEN /\ \E r \in Results : build' = [build EXCEPT ![c] = [at |-> "built", r |-> r, todo |-> {}, ticks |-> 0]]
            /\ UNCHANGED <<acAge, age>>
       ELSE /\ acAge' = 0 /\ age' = TouchOutputs(ac)
            /\ build' = [build EXCEPT ![c] = [at |-> "hit", r |-> ac, todo |-> Needed(ac), ticks |-> 0]]
    /\ UNCHANGED <<ac, gc, drops>>

\* The ticks of whoever is done do not matter any more.
Done(c) == build' = [build EXCEPT ![c] = Rest]

\* Read, BatchReadBlobs: an output a hit named.
Read(c) ==
    /\ build[c].at = "hit"
    /\ \/ \E o \in build[c].todo :
             /\ IF Present(o) THEN build' = [build EXCEPT ![c].todo = @ \ {o}] ELSE Go(c, "lost")
             /\ age' = IF Present(o) THEN [age EXCEPT ![o] = 0] ELSE age
       \/ Done(c) /\ UNCHANGED age
    /\ UNCHANGED <<ac, acAge, gc, drops>>

-----------------------------------------------------------------------------
(* Writes *)

\* FindMissingBlobs: what is there is touched by the look-up.
FindMissingBlobs(c) ==
    /\ build[c].at = "built"
    /\ build' = [build EXCEPT ![c].at = "upload", ![c].todo = {o \in Needed(build[c].r) : ~Present(o)}]
    /\ age' = [o \in Cas |-> IF o \in Needed(build[c].r) /\ Present(o) THEN 0 ELSE age[o]]
    /\ UNCHANGED <<ac, acAge, gc, drops>>

\* authorize for a write: refused without a credential that may.
MayWrite(c) == c \in Uploaders

Refuse(c) ==
    /\ build[c].at \in {"upload", "update"} /\ ~MayWrite(c) /\ Done(c)
    /\ UNCHANGED <<ac, acAge, age, gc, drops>>

\* Write: what is there already is acknowledged after a look, which touches it.
Write(c) ==
    /\ build[c].at = "upload" /\ MayWrite(c)
    /\ \E o \in build[c].todo :
          /\ age' = [age EXCEPT ![o] = 0] /\ build' = [build EXCEPT ![c].todo = @ \ {o}]
    /\ UNCHANGED <<ac, acAge, gc, drops>>

\* Mutant: an item that failed is answered OK, and the build goes on.
BatchUpdateBlobs_Ignores(c) ==
    /\ build[c].at = "upload" /\ MayWrite(c) /\ build[c].todo # {}
    /\ \E fail \in SUBSET build[c].todo :
          /\ (IF fail = {} THEN UNCHANGED drops ELSE UploadFault) /\ Go(c, "update")
          /\ age' = [o \in Cas |-> IF o \in build[c].todo \ fail /\ ~Present(o) THEN 0 ELSE age[o]]
    /\ UNCHANGED <<ac, acAge, gc>>

\* BatchUpdateBlobs: each item on its own; one that is there already keeps its age.  A build
\* with a failed item records nothing.
BatchUpdateBlobs(c) ==
    /\ build[c].at = "upload" /\ MayWrite(c) /\ build[c].todo # {}
    /\ \E fail \in SUBSET build[c].todo :
          /\ IF fail = {} THEN UNCHANGED drops /\ build' = [build EXCEPT ![c].at = "update", ![c].todo = {}]
             ELSE UploadFault /\ Done(c)
          /\ age' = [o \in Cas |-> IF o \in build[c].todo \ fail /\ ~Present(o) THEN 0 ELSE age[o]]
    /\ UNCHANGED <<ac, acAge, gc>>

\* Write fails: the stream is cut, or its bytes are not the digest named.
WriteFails(c) ==
    /\ build[c].at = "upload" /\ build[c].todo # {} /\ MayWrite(c) /\ UploadFault /\ Done(c)
    /\ UNCHANGED <<ac, acAge, age, gc>>

\* The build has uploaded everything.
Uploaded(c) ==
    /\ build[c].at = "upload" /\ build[c].todo = {} /\ Go(c, "update")
    /\ UNCHANGED <<ac, acAge, age, gc, drops>>

\* UpdateActionResult: an overwrite; the row is as new.
UpdateActionResult(c) ==
    /\ build[c].at = "update" /\ MayWrite(c)
    /\ ac' = build[c].r /\ acAge' = 0 /\ Done(c)
    /\ UNCHANGED <<age, gc, drops>>

-----------------------------------------------------------------------------
(* The collector: ages as of the run's start, a read since then is a veto *)

Doomed(a, window) == a > window + gc.ticks

StartRun ==
    /\ gc = NoRun /\ gc' = [at |-> "ac", ticks |-> 0]
    /\ UNCHANGED <<ac, acAge, age, build, drops>>

SweepAc ==
    /\ gc.at = "ac" /\ gc' = [gc EXCEPT !.at = "cas"]
    /\ ac' = IF ac # NoResult /\ Doomed(acAge, WindowAc) THEN NoResult ELSE ac
    /\ acAge' = IF ac' = NoResult THEN 0 ELSE acAge
    /\ UNCHANGED <<age, build, drops>>

SweepCas ==
    /\ gc.at = "cas" /\ gc' = NoRun
    /\ age' = [o \in Cas |-> IF Present(o) /\ Doomed(age[o], WindowCas) THEN Gone ELSE age[o]]
    /\ UNCHANGED <<ac, acAge, build, drops>>

-----------------------------------------------------------------------------
BazelNext ==
    \/ Tick \/ StartRun \/ SweepAc \/ SweepCas
    \/ \E c \in Builds :
          \/ GetActionResult(c) \/ Read(c) \/ FindMissingBlobs(c) \/ Refuse(c)
          \/ Write(c) \/ BatchUpdateBlobs(c) \/ WriteFails(c) \/ Uploaded(c) \/ UpdateActionResult(c)

BazelSpec == BazelInit /\ [][BazelNext]_bazelVars

-----------------------------------------------------------------------------
(* Properties *)

\* A build that was answered with a result finds every output it names, the contents of a
\* tree included: a hot action keeps alive what it needs, however long it stays hot.
NoLostInputs == \A c \in Builds : build[c].at # "lost"

\* A result is recorded only over outputs that are all there.
RecordedIsComplete ==
    \A c \in Builds : ac' # NoResult /\ build[c].at = "update" /\ build'[c].at = "rest" /\ MayWrite(c)
        => \A o \in Needed(ac') : age'[o] # Gone

=============================================================================
