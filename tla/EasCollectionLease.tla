------------------------ MODULE EasCollectionLease ------------------------
(***************************************************************************)
(* The lease one collection's round runs under                             *)
(* (src/src/EasCollectionLease.ts): first in-process, then, with Redis, as *)
(* a SET NX PX key that all server copies share.  Redis answers late, not  *)
(* at all, or after the caller has stopped waiting; copies crash; a key    *)
(* may expire under a holder whose renewals do not get through.            *)
(*                                                                         *)
(* One key, that is one collection.  Each request acquires once, so that   *)
(* the request stands for its token (a random UUID).                       *)
(***************************************************************************)
EXTENDS Integers, FiniteSets

CONSTANTS
    Reqs,      \* acquisitions
    Copies,    \* server copies, the processes
    home,      \* the copy a request is in
    Nobody,    \* no holder
    UseRedis,  \* options.redisUrl is set
    MaxLapses  \* bound: keys that expire under their holder

ASSUME LeaseAssumption ==
    /\ home \in [Reqs -> Copies]
    /\ Nobody \notin Reqs
    /\ UseRedis \in BOOLEAN
    /\ MaxLapses \in Nat

VARIABLES
    local,    \* per copy, the in-process holder (EasCollectionLease.local)
    key,      \* whose token the Redis key carries
    pc,       \* where each acquisition is
    wire,     \* its SET: not sent, on its way, executed and answered yes or no
    del,      \* whether its release script is on its way
    answered, \* Redis has answered one of its SETs
    late,     \* its deadline has passed
    lapsed    \* history: its key has expired while it was at work

vars == <<local, key, pc, wire, del, answered, late, lapsed>>

\* At work under the lease: with Redis' key, or failed open to the local one.
AtWork == {"held", "open"}

\* Owning the in-process lease.
Owning == {"connect", "set", "nap", "held", "open", "release"}

\* Ended for good: answered, released, or died with its process.
Ended == {"done", "dead"}

Init ==
    /\ local = [c \in Copies |-> Nobody]
    /\ key = Nobody
    /\ pc = [r \in Reqs |-> "new"]
    /\ wire = [r \in Reqs |-> "none"]
    /\ del = [r \in Reqs |-> FALSE]
    /\ answered = [r \in Reqs |-> FALSE]
    /\ late = [r \in Reqs |-> FALSE]
    /\ lapsed = [r \in Reqs |-> FALSE]

Goes(r, to) == pc' = [pc EXCEPT ![r] = to]

releaseLocal(r) == local' = [local EXCEPT ![home[r]] = IF @ = r THEN Nobody ELSE @]

\* acquire returns: its own variables are gone.
Returns(r) ==
    /\ answered' = [answered EXCEPT ![r] = FALSE]
    /\ late' = [late EXCEPT ![r] = FALSE]

-----------------------------------------------------------------------------
(* acquire.                                                                *)

Arrive(r) ==
    /\ pc[r] = "new"
    /\ Goes(r, "waiting")
    /\ UNCHANGED <<local, key, wire, del, answered, late, lapsed>>

\* waitMs are over.
DeadlinePasses(r) ==
    /\ pc[r] \in {"waiting", "connect", "set", "nap"}
    /\ ~late[r]
    /\ late' = [late EXCEPT ![r] = TRUE]
    /\ UNCHANGED <<local, key, pc, wire, del, answered, lapsed>>

\* Mutant of takeLocal: the take-over does not look again who holds the lease.
takeLocalUnchecked(r) ==
    /\ pc[r] = "waiting"
    /\ local' = [local EXCEPT ![home[r]] = r]
    /\ IF UseRedis THEN Goes(r, "connect") /\ UNCHANGED <<answered, late>>
       ELSE Goes(r, "open") /\ Returns(r)
    /\ UNCHANGED <<key, wire, del, lapsed>>

\* The check and the take-over happen in one tick, the deadline is only looked
\* at when the lease is taken.
takeLocal(r) ==
    /\ pc[r] = "waiting"
    /\ local[home[r]] = Nobody
    /\ local' = [local EXCEPT ![home[r]] = r]
    /\ IF UseRedis THEN Goes(r, "connect") /\ UNCHANGED <<answered, late>>
       ELSE Goes(r, "open") /\ Returns(r)
    /\ UNCHANGED <<key, wire, del, lapsed>>

LocalTimeout(r) ==
    /\ pc[r] = "waiting"
    /\ local[home[r]] # Nobody
    /\ late[r]
    /\ Goes(r, "done")
    /\ Returns(r)
    /\ UNCHANGED <<local, key, wire, del, lapsed>>

Connect(r) ==
    /\ pc[r] = "connect"
    /\ Goes(r, "set")
    /\ wire' = [wire EXCEPT ![r] = "sent"]
    /\ UNCHANGED <<local, key, del, answered, late, lapsed>>

\* No connection, or not within redisTimeoutMs, or one that was given up.
ConnectFails(r) ==
    /\ pc[r] = "connect"
    /\ Goes(r, "open")
    /\ Returns(r)
    /\ UNCHANGED <<local, key, wire, del, lapsed>>

SetOk(r) ==
    /\ pc[r] = "set"
    /\ wire[r] = "yes"
    /\ Goes(r, "held")
    /\ wire' = [wire EXCEPT ![r] = "none"]
    /\ Returns(r)
    /\ UNCHANGED <<local, key, del, lapsed>>

\* Another copy holds the key: poll again, until the deadline.
SetRefused(r) ==
    /\ pc[r] = "set"
    /\ wire[r] = "no"
    /\ wire' = [wire EXCEPT ![r] = "none"]
    /\ IF late[r]
       THEN Goes(r, "done") /\ releaseLocal(r) /\ Returns(r)
       ELSE /\ Goes(r, "nap")
            /\ answered' = [answered EXCEPT ![r] = TRUE]
            /\ UNCHANGED <<local, late>>
    /\ UNCHANGED <<key, del, lapsed>>

PollAgain(r) ==
    /\ pc[r] = "nap"
    /\ Goes(r, "set")
    /\ wire' = [wire EXCEPT ![r] = "sent"]
    /\ UNCHANGED <<local, key, del, answered, late, lapsed>>

\* Mutant of SetTimesOut: the first SET is waited for.
SetTimesOutOncePolling(r) ==
    /\ pc[r] = "set"
    /\ answered[r]
    /\ IF late[r] THEN Goes(r, "done") /\ releaseLocal(r)
       ELSE Goes(r, "open") /\ UNCHANGED local
    /\ Returns(r)
    /\ UNCHANGED <<key, wire, del, lapsed>>

\* No answer in time.  The SET may still be executed, or be answered already.
SetTimesOut(r) ==
    /\ pc[r] = "set"
    /\ IF answered[r] /\ late[r] THEN Goes(r, "done") /\ releaseLocal(r)
       ELSE Goes(r, "open") /\ UNCHANGED local
    /\ Returns(r)
    /\ UNCHANGED <<key, wire, del, lapsed>>

\* The connection breaks: whether the SET was executed is not known, and no
\* answer to it will come.
SetRejected(r) ==
    /\ pc[r] = "set"
    /\ Goes(r, "open")
    /\ wire' = [wire EXCEPT ![r] = "none"]
    /\ Returns(r)
    /\ UNCHANGED <<local, key, del, lapsed>>

\* The answer to a SET nobody waits for: a key it got is given back.
LateAnswer(r) ==
    /\ pc[r] \notin {"set", "dead"}
    /\ wire[r] \in {"yes", "no"}
    /\ wire' = [wire EXCEPT ![r] = "none"]
    /\ del' = [del EXCEPT ![r] = (wire[r] = "yes")]
    /\ UNCHANGED <<local, key, pc, answered, late, lapsed>>

-----------------------------------------------------------------------------
(* The round is over: release.                                             *)

ReleaseOpen(r) ==
    /\ pc[r] = "open"
    /\ Goes(r, "done")
    /\ releaseLocal(r)
    /\ UNCHANGED <<key, wire, del, answered, late, lapsed>>

ReleaseKey(r) ==
    /\ pc[r] = "held"
    /\ Goes(r, "release")
    /\ del' = [del EXCEPT ![r] = TRUE]
    /\ UNCHANGED <<local, key, wire, answered, late, lapsed>>

\* Redis has answered, or it has not within redisTimeoutMs.
Released(r) ==
    /\ pc[r] = "release"
    /\ Goes(r, "done")
    /\ releaseLocal(r)
    /\ UNCHANGED <<key, wire, del, answered, late, lapsed>>

-----------------------------------------------------------------------------
(* Redis, and what may happen to it and to the copies.                     *)

\* Mutants of Answer: SET GET answers with the token that was there; without NX
\* it always succeeds.
AnswerWithHolder(r) == key
AnswerAlwaysYes(r) == "yes"

\* SET NX.
Answer(r) == IF key = Nobody THEN "yes" ELSE "no"

RedisSets(r) ==
    /\ wire[r] = "sent"
    /\ wire' = [wire EXCEPT ![r] = Answer(r)]
    /\ key' = IF Answer(r) = "yes" THEN r ELSE key
    /\ UNCHANGED <<local, pc, del, answered, late, lapsed>>

\* Mutant of RedisReleases: DEL, whoever's token the key carries.
RedisReleasesAny(r) ==
    /\ del[r]
    /\ del' = [del EXCEPT ![r] = FALSE]
    /\ key' = Nobody
    /\ UNCHANGED <<local, pc, wire, answered, late, lapsed>>

\* RELEASE_SCRIPT: only the holder's own token is deleted.
RedisReleases(r) ==
    /\ del[r]
    /\ del' = [del EXCEPT ![r] = FALSE]
    /\ key' = IF key = r THEN Nobody ELSE key
    /\ UNCHANGED <<local, pc, wire, answered, late, lapsed>>

\* A command is lost with its connection; a SET's caller is told (SetRejected).
RedisLoses(r) ==
    /\ \/ del[r] /\ UNCHANGED wire
       \/ wire[r] = "sent" /\ pc[r] # "set" /\ wire' = [wire EXCEPT ![r] = "none"]
    /\ del' = [del EXCEPT ![r] = FALSE]
    /\ UNCHANGED <<local, key, pc, answered, late, lapsed>>

\* After ttlMs nobody has renewed the key; an answer takes less than that.
Expire(r) ==
    /\ key = r
    /\ pc[r] # "held"
    /\ pc[r] = "set" => wire[r] = "none"
    /\ key' = Nobody
    /\ UNCHANGED <<local, pc, wire, del, answered, late, lapsed>>

\* The holder is there, but its renewals have not got through for ttlMs.
Lapse(r) ==
    /\ key = r
    /\ pc[r] = "held"
    /\ Cardinality({q \in Reqs : lapsed[q]}) < MaxLapses
    /\ key' = Nobody
    /\ lapsed' = [lapsed EXCEPT ![r] = TRUE]
    /\ UNCHANGED <<local, pc, wire, del, answered, late>>

\* A copy dies and starts again: its requests are gone, what is on the wire is not.
Crash(c) ==
    /\ local[c] # Nobody
    /\ pc' = [r \in Reqs |-> IF home[r] = c /\ pc[r] # "new" THEN "dead" ELSE pc[r]]
    /\ local' = [local EXCEPT ![c] = Nobody]
    /\ answered' = [r \in Reqs |-> home[r] # c /\ answered[r]]
    /\ late' = [r \in Reqs |-> home[r] # c /\ late[r]]
    /\ UNCHANGED <<key, wire, del, lapsed>>

-----------------------------------------------------------------------------
\* What the process does, or its timers do to it, whatever Redis does.
Proceed(r) ==
    \/ DeadlinePasses(r) \/ takeLocal(r) \/ LocalTimeout(r) \/ Connect(r)
    \/ ConnectFails(r) \/ SetOk(r) \/ SetRefused(r) \/ PollAgain(r)
    \/ SetTimesOut(r) \/ Released(r)

Redis(r) ==
    RedisSets(r) \/ RedisReleases(r) \/ RedisLoses(r) \/ Expire(r) \/ Lapse(r)

Next ==
    \/ \E r \in Reqs : \/ Arrive(r) \/ Proceed(r) \/ SetRejected(r) \/ LateAnswer(r)
                       \/ ReleaseOpen(r) \/ ReleaseKey(r) \/ Redis(r)
    \/ \E c \in Copies : Crash(c)

Spec == Init /\ [][Next]_vars

\* Timers fire and the process goes on: nothing is assumed of Redis, nor of how
\* long a round holds the lease.
FairSpec ==
    /\ Spec
    /\ \A r \in Reqs : WF_vars(Proceed(r)) /\ WF_vars(DeadlinePasses(r))
-----------------------------------------------------------------------------
(* Properties.                                                             *)

\* Every variable has its type.
TypeOK ==
    /\ local \in [Copies -> Reqs \cup {Nobody}]
    /\ key \in Reqs \cup {Nobody}
    /\ pc \in [Reqs -> {"new", "waiting"} \cup Owning \cup Ended]
    /\ wire \in [Reqs -> {"none", "sent", "yes", "no"}]
    /\ del \in [Reqs -> BOOLEAN]
    /\ answered \in [Reqs -> BOOLEAN]
    /\ late \in [Reqs -> BOOLEAN]
    /\ lapsed \in [Reqs -> BOOLEAN]

\* In one copy no two requests are past the in-process lease at a time, whatever
\* Redis does: this is what is left when the lease fails open.
LocalExclusion ==
    \A r, q \in Reqs : pc[r] \in Owning /\ pc[q] \in Owning /\ home[r] = home[q] => r = q

\* Across the copies no two rounds of one collection run at a time with Redis'
\* key, however late SETs and releases get there, unless one has lost its key
\* because its renewals did not get through.
KeyExclusion ==
    \A r, q \in Reqs :
        /\ pc[r] = "held" /\ ~lapsed[r]
        /\ pc[q] = "held" /\ ~lapsed[q]
        => r = q

\* "so an expired-and-retaken lease survives" (EasCollectionLease.ts:27): the key
\* of a round at work does not go away but by its own lapse.
OwnKeyStays ==
    [][\A r \in Reqs : pc[r] = "held" /\ key = r /\ key' # r => lapsed'[r]]_vars

\* An acquisition and a release come to an end, Redis or no Redis.
NeverHangs ==
    \A r \in Reqs : pc[r] \in {"waiting", "connect", "set", "nap", "release"} ~>
                    pc[r] \in AtWork \cup Ended
=============================================================================
