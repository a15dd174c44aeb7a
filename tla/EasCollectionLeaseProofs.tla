---------------------- MODULE EasCollectionLeaseProofs ----------------------
(***************************************************************************)
(* EasCollectionLease for any number of copies, requests and lapses: the   *)
(* in-process lease always excludes, Redis' key does while it is renewed,  *)
(* and nobody's late command takes it from the round that has it.          *)
(***************************************************************************)
EXTENDS EasCollectionLease, TLAPS

\* The in-process lease is with the request that is past taking it, and with no
\* other.
Owner == \A r \in Reqs : pc[r] \in Owning <=> local[home[r]] = r

\* Nothing is on the wire that a request still to come, or at work, has sent
\* earlier: no stray answer is taken for the one awaited, no stray release
\* deletes the key of a round at work.
WireClear ==
    \A r \in Reqs :
        /\ pc[r] \in {"new", "waiting", "connect", "nap", "held", "release"} => wire[r] = "none"
        /\ pc[r] \in {"new", "waiting", "connect", "set", "nap", "held"} => ~del[r]

\* Who has been answered yes, and awaits it or works on it, has the key.
KeyKept ==
    \A r \in Reqs :
        \/ pc[r] = "set" /\ wire[r] = "yes"
        \/ pc[r] = "held" /\ ~lapsed[r]
        => key = r

IInv == TypeOK /\ Owner /\ WireClear /\ KeyKept

\* The steps of one request, one by one.
Step(r) ==
    \/ Arrive(r) \/ DeadlinePasses(r) \/ takeLocal(r) \/ LocalTimeout(r) \/ Connect(r)
    \/ ConnectFails(r) \/ SetOk(r) \/ SetRefused(r) \/ PollAgain(r) \/ SetTimesOut(r)
    \/ SetRejected(r) \/ LateAnswer(r) \/ ReleaseOpen(r) \/ ReleaseKey(r) \/ Released(r)
    \/ RedisSets(r) \/ RedisReleases(r) \/ RedisLoses(r) \/ Expire(r) \/ Lapse(r)

\* Next is a step of one request or the crash of one copy.
LEMMA Steps ==
    ASSUME Next
    PROVE  \/ \E r \in Reqs : Step(r)
           \/ \E c \in Copies : Crash(c)
  BY DEF Next, Proceed, Redis, Step

\* The initial state satisfies the invariant.
LEMMA InitIInv == Init => IInv
  BY LeaseAssumption, SMTT(30)
  DEF Init, IInv, TypeOK, Owner, WireClear, KeyKept, Owning, Ended

\* Every step keeps the types: variable by variable, whichever action it is.
LEMMA StepKeepsTypes ==
    ASSUME TypeOK, NEW r \in Reqs, Step(r)
    PROVE  TypeOK'
<1> DEFINE Places == {"new", "waiting"} \cup Owning \cup Ended
<1>1. local' \in [Copies -> Reqs \cup {Nobody}]
  BY LeaseAssumption, SMTT(30)
  DEF TypeOK, Step, Arrive, DeadlinePasses, takeLocal, LocalTimeout, Connect, ConnectFails,
      SetOk, SetRefused, PollAgain, SetTimesOut, SetRejected, LateAnswer, ReleaseOpen,
      ReleaseKey, Released, RedisSets, RedisReleases, RedisLoses, Expire, Lapse, releaseLocal
<1>2. key' \in Reqs \cup {Nobody}
  BY SMTT(30)
  DEF TypeOK, Step, Arrive, DeadlinePasses, takeLocal, LocalTimeout, Connect, ConnectFails,
      SetOk, SetRefused, PollAgain, SetTimesOut, SetRejected, LateAnswer, ReleaseOpen,
      ReleaseKey, Released, RedisSets, RedisReleases, RedisLoses, Expire, Lapse
<1>3. pc' \in [Reqs -> Places]
  <2>1. pc' = pc \/ \E p \in Places : pc' = [pc EXCEPT ![r] = p]
    BY SMTT(30)
    DEF Step, Arrive, DeadlinePasses, takeLocal, LocalTimeout, Connect, ConnectFails,
        SetOk, SetRefused, PollAgain, SetTimesOut, SetRejected, LateAnswer, ReleaseOpen,
        ReleaseKey, Released, RedisSets, RedisReleases, RedisLoses, Expire, Lapse, Goes,
        Owning, Ended
  <2> QED
    BY <2>1 DEF TypeOK
<1>4. wire' \in [Reqs -> {"none", "sent", "yes", "no"}]
  BY SMTT(30)
  DEF TypeOK, Step, Arrive, DeadlinePasses, takeLocal, LocalTimeout, Connect, ConnectFails,
      SetOk, SetRefused, PollAgain, SetTimesOut, SetRejected, LateAnswer, ReleaseOpen,
      ReleaseKey, Released, RedisSets, RedisReleases, RedisLoses, Expire, Lapse, Answer
<1>5. del' \in [Reqs -> BOOLEAN]
  <2>1. del' = del \/ \E b \in BOOLEAN : del' = [del EXCEPT ![r] = b]
    BY DEF Step, Arrive, DeadlinePasses, takeLocal, LocalTimeout, Connect, ConnectFails,
        SetOk, SetRefused, PollAgain, SetTimesOut, SetRejected, LateAnswer, ReleaseOpen,
        ReleaseKey, Released, RedisSets, RedisReleases, RedisLoses, Expire, Lapse
  <2> QED
    BY <2>1 DEF TypeOK
<1>6. answered' \in [Reqs -> BOOLEAN]
  <2>1. answered' = answered \/ \E b \in BOOLEAN : answered' = [answered EXCEPT ![r] = b]
    BY DEF Step, Arrive, DeadlinePasses, takeLocal, LocalTimeout, Connect, ConnectFails,
        SetOk, SetRefused, PollAgain, SetTimesOut, SetRejected, LateAnswer, ReleaseOpen,
        ReleaseKey, Released, RedisSets, RedisReleases, RedisLoses, Expire, Lapse, Returns
  <2> QED
    BY <2>1 DEF TypeOK
<1>7. late' \in [Reqs -> BOOLEAN]
  <2>1. late' = late \/ \E b \in BOOLEAN : late' = [late EXCEPT ![r] = b]
    BY DEF Step, Arrive, DeadlinePasses, takeLocal, LocalTimeout, Connect, ConnectFails,
        SetOk, SetRefused, PollAgain, SetTimesOut, SetRejected, LateAnswer, ReleaseOpen,
        ReleaseKey, Released, RedisSets, RedisReleases, RedisLoses, Expire, Lapse, Returns
  <2> QED
    BY <2>1 DEF TypeOK
<1>8. lapsed' \in [Reqs -> BOOLEAN]
  <2>1. lapsed' = lapsed \/ lapsed' = [lapsed EXCEPT ![r] = TRUE]
    BY DEF Step, Arrive, DeadlinePasses, takeLocal, LocalTimeout, Connect, ConnectFails,
        SetOk, SetRefused, PollAgain, SetTimesOut, SetRejected, LateAnswer, ReleaseOpen,
        ReleaseKey, Released, RedisSets, RedisReleases, RedisLoses, Expire, Lapse
  <2> QED
    BY <2>1 DEF TypeOK
<1> QED
  BY <1>1, <1>2, <1>3, <1>4, <1>5, <1>6, <1>7, <1>8 DEF TypeOK

\* Every step keeps the types.
LEMMA NextKeepsTypes == TypeOK /\ [Next]_vars => TypeOK'
<1> SUFFICES ASSUME TypeOK, [Next]_vars PROVE TypeOK'
  OBVIOUS
<1>1. CASE UNCHANGED vars
  BY <1>1 DEF vars, TypeOK
<1>2. ASSUME NEW c \in Copies, Crash(c) PROVE TypeOK'
  BY <1>2, SMTT(30) DEF TypeOK, Crash, Owning, Ended
<1> QED
  BY <1>1, <1>2, Steps, StepKeepsTypes

\* The in-process lease changes hands only together with the pc of its holder.
LEMMA NextKeepsOwner == TypeOK /\ Owner /\ [Next]_vars => Owner'
<1> SUFFICES ASSUME TypeOK, Owner, [Next]_vars PROVE Owner'
  OBVIOUS
<1> USE LeaseAssumption
<1>1. CASE UNCHANGED vars
  BY <1>1 DEF vars, Owner
<1>2. ASSUME NEW r \in Reqs, Step(r) PROVE Owner'
  <2>1. CASE takeLocal(r)
    BY <2>1, SMTT(30) DEF TypeOK, Owner, takeLocal, Goes, Returns, Owning
  <2>2. CASE SetRefused(r) \/ SetTimesOut(r)
    BY <2>2, SMTT(30)
    DEF TypeOK, Owner, SetRefused, SetTimesOut, Goes, Returns, releaseLocal, Owning
  <2>3. CASE ReleaseOpen(r) \/ Released(r)
    BY <2>3, SMTT(30) DEF TypeOK, Owner, ReleaseOpen, Released, Goes, releaseLocal, Owning
  <2>4. CASE Arrive(r) \/ DeadlinePasses(r) \/ LocalTimeout(r) \/ Connect(r)
             \/ ConnectFails(r) \/ SetOk(r) \/ PollAgain(r) \/ SetRejected(r)
    BY <2>4, SMTT(30)
    DEF TypeOK, Owner, Arrive, DeadlinePasses, LocalTimeout, Connect, ConnectFails, SetOk,
        PollAgain, SetRejected, Goes, Returns, Owning
  <2>5. CASE LateAnswer(r) \/ RedisSets(r) \/ RedisReleases(r) \/ RedisLoses(r)
             \/ Expire(r) \/ Lapse(r)
    BY <2>5 DEF Owner, LateAnswer, RedisSets, RedisReleases, RedisLoses, Expire, Lapse
  <2>6. CASE ReleaseKey(r)
    BY <2>6, SMTT(30) DEF TypeOK, Owner, ReleaseKey, Goes, Owning
  <2> QED
    BY <1>2, <2>1, <2>2, <2>3, <2>4, <2>5, <2>6 DEF Step
<1>3. ASSUME NEW c \in Copies, Crash(c) PROVE Owner'
  BY <1>3, SMTT(30) DEF TypeOK, Owner, Crash, Owning
<1> QED
  BY <1>1, <1>2, <1>3, Steps

\* A request leaves nothing on the wire when it starts to wait, poll or work.
LEMMA NextKeepsWireClear == TypeOK /\ WireClear /\ [Next]_vars => WireClear'
<1> SUFFICES ASSUME TypeOK, WireClear, [Next]_vars PROVE WireClear'
  OBVIOUS
<1>1. CASE UNCHANGED vars
  BY <1>1 DEF vars, WireClear
<1>2. ASSUME NEW r \in Reqs, Step(r) PROVE WireClear'
  <2>1. CASE Arrive(r) \/ DeadlinePasses(r) \/ takeLocal(r) \/ LocalTimeout(r)
             \/ Connect(r) \/ ConnectFails(r) \/ PollAgain(r)
    BY <2>1, SMTT(30)
    DEF TypeOK, WireClear, Arrive, DeadlinePasses, takeLocal, LocalTimeout, Connect,
        ConnectFails, PollAgain, Goes, Returns
  <2>2. CASE SetOk(r) \/ SetRefused(r) \/ SetTimesOut(r) \/ SetRejected(r) \/ LateAnswer(r)
    BY <2>2, SMTT(30)
    DEF TypeOK, WireClear, SetOk, SetRefused, SetTimesOut, SetRejected, LateAnswer, Goes,
        Returns
  <2>3. CASE ReleaseOpen(r) \/ ReleaseKey(r) \/ Released(r)
    BY <2>3, SMTT(30) DEF TypeOK, WireClear, ReleaseOpen, ReleaseKey, Released, Goes
  <2>4. CASE RedisSets(r) \/ RedisReleases(r) \/ RedisLoses(r) \/ Expire(r) \/ Lapse(r)
    BY <2>4, SMTT(30)
    DEF TypeOK, WireClear, RedisSets, RedisReleases, RedisLoses, Expire, Lapse, Answer
  <2> QED
    BY <1>2, <2>1, <2>2, <2>3, <2>4 DEF Step
<1>3. ASSUME NEW c \in Copies, Crash(c) PROVE WireClear'
  BY <1>3, SMTT(30) DEF TypeOK, WireClear, Crash
<1> QED
  BY <1>1, <1>2, <1>3, Steps

\* Only the holder's own release or lapse, or an expiry after it has gone, clears
\* the key, and SET NX does not overwrite it.
LEMMA NextKeepsKey == TypeOK /\ WireClear /\ KeyKept /\ [Next]_vars => KeyKept'
<1> SUFFICES ASSUME TypeOK, WireClear, KeyKept, [Next]_vars PROVE KeyKept'
  OBVIOUS
<1>1. CASE UNCHANGED vars
  BY <1>1 DEF vars, KeyKept
<1>2. ASSUME NEW r \in Reqs, Step(r) PROVE KeyKept'
  <2>1. CASE Arrive(r) \/ DeadlinePasses(r) \/ takeLocal(r) \/ LocalTimeout(r)
             \/ Connect(r) \/ ConnectFails(r) \/ PollAgain(r)
    BY <2>1, SMTT(30)
    DEF TypeOK, KeyKept, Arrive, DeadlinePasses, takeLocal, LocalTimeout, Connect,
        ConnectFails, PollAgain, Goes, Returns
  <2>2. CASE SetOk(r) \/ SetRefused(r) \/ SetTimesOut(r) \/ SetRejected(r) \/ LateAnswer(r)
    BY <2>2, SMTT(30)
    DEF TypeOK, KeyKept, SetOk, SetRefused, SetTimesOut, SetRejected, LateAnswer, Goes,
        Returns
  <2>3. CASE ReleaseOpen(r) \/ ReleaseKey(r) \/ Released(r)
    BY <2>3, SMTT(30) DEF TypeOK, KeyKept, ReleaseOpen, ReleaseKey, Released, Goes
  <2>4. CASE RedisSets(r)
    BY <2>4, LeaseAssumption, SMTT(30) DEF TypeOK, WireClear, KeyKept, RedisSets, Answer
  <2>5. CASE RedisReleases(r) \/ Expire(r)
    BY <2>5, SMTT(30) DEF TypeOK, WireClear, KeyKept, RedisReleases, Expire
  <2>6. CASE RedisLoses(r) \/ Lapse(r)
    BY <2>6, SMTT(30) DEF TypeOK, KeyKept, RedisLoses, Lapse
  <2> QED
    BY <1>2, <2>1, <2>2, <2>3, <2>4, <2>5, <2>6 DEF Step
<1>3. ASSUME NEW c \in Copies, Crash(c) PROVE KeyKept'
  BY <1>3, SMTT(30) DEF TypeOK, KeyKept, Crash
<1> QED
  BY <1>1, <1>2, <1>3, Steps

\* The invariant holds in every reachable state.
LEMMA Invariance == Spec => []IInv
<1>1. IInv /\ [Next]_vars => IInv'
  BY NextKeepsTypes, NextKeepsOwner, NextKeepsWireClear, NextKeepsKey DEF IInv
<1> QED
  BY <1>1, InitIInv, PTL DEF Spec

\* For any number of copies and requests every variable keeps its type.
THEOREM TypeCorrect == Spec => []TypeOK
<1>1. IInv => TypeOK
  BY DEF IInv
<1> QED
  BY <1>1, Invariance, PTL

\* For any number of copies and requests, whatever Redis does, at most one request
\* of a copy is past the in-process lease (takeLocal).
THEOREM LocalLease == Spec => []LocalExclusion
<1>1. IInv => LocalExclusion
  BY SMTT(30) DEF IInv, Owner, LocalExclusion
<1> QED
  BY <1>1, Invariance, PTL

\* For any number of copies and requests, at most one round works with a Redis key
\* that has not lapsed (SET NX, the token checks of release and renewal).
THEOREM KeyLease == Spec => []KeyExclusion
<1>1. IInv => KeyExclusion
  BY DEF IInv, KeyKept, KeyExclusion
<1> QED
  BY <1>1, Invariance, PTL

\* For any number of copies and requests, the key of a round at work goes away by
\* its own lapse only: no late SET, release or crash of another takes it.
THEOREM KeySurvives == Spec => OwnKeyStays
<1> DEFINE Stays == \A r \in Reqs : pc[r] = "held" /\ key = r /\ key' # r => lapsed'[r]
<1>1. IInv /\ [Next]_vars => [Stays]_vars
  <2> SUFFICES ASSUME IInv, Next, NEW q \in Reqs, pc[q] = "held", key = q, key' # q
               PROVE  lapsed'[q]
    OBVIOUS
  <2>1. ASSUME NEW r \in Reqs, Step(r) PROVE lapsed'[q]
    <3>1. CASE RedisSets(r) \/ RedisReleases(r) \/ Expire(r)
      BY <3>1, LeaseAssumption, SMTT(30)
      DEF IInv, TypeOK, WireClear, RedisSets, RedisReleases, Expire, Answer
    <3>2. CASE Lapse(r)
      BY <3>2, SMTT(30) DEF IInv, TypeOK, Lapse
    <3>3. CASE UNCHANGED key
      BY <3>3
    <3> QED
      BY <2>1, <3>1, <3>2, <3>3
      DEF Step, Arrive, DeadlinePasses, takeLocal, LocalTimeout, Connect, ConnectFails,
          SetOk, SetRefused, PollAgain, SetTimesOut, SetRejected, LateAnswer, ReleaseOpen,
          ReleaseKey, Released, RedisLoses
  <2>2. ASSUME NEW c \in Copies, Crash(c) PROVE lapsed'[q]
    BY <2>2 DEF Crash
  <2> QED
    BY <2>1, <2>2, Steps
<1> QED
  BY <1>1, Invariance, PTL DEF Spec, OwnKeyStays
=============================================================================
