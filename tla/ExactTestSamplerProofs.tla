------------------------ MODULE ExactTestSamplerProofs ------------------------
(***************************************************************************)
(* The arguments and the whereabouts of work units, for every number of    *)
(* requests and units, every size of the pool, with or without an RPC.     *)
(***************************************************************************)
EXTENDS ExactTestSampler, TLAPS

-----------------------------------------------------------------------------
(* Sequences and the sets of their elements. *)

\* A sequence that grows keeps its type.
LEMMA AppendType ==
    ASSUME NEW S, NEW s \in Seq(S), NEW e \in S
    PROVE  Append(s, e) \in Seq(S) /\ Len(Append(s, e)) = Len(s) + 1
  OBVIOUS

\* The elements after an append,
LEMMA ToSetAppend ==
    ASSUME NEW S, NEW s \in Seq(S), NEW e \in S
    PROVE  ToSet(Append(s, e)) = ToSet(s) \cup {e}
  <1>1. Append(s, e) \in Seq(S) /\ Len(Append(s, e)) = Len(s) + 1 /\ Len(s) \in Nat
    OBVIOUS
  <1>2. Append(s, e)[Len(s) + 1] = e /\ \A k \in 1 .. Len(s) : Append(s, e)[k] = s[k]
    OBVIOUS
  <1>3. DOMAIN s = 1 .. Len(s) /\ DOMAIN Append(s, e) = 1 .. Len(s) + 1
    BY <1>1
  <1>4. 1 .. Len(s) + 1 = 1 .. Len(s) \cup {Len(s) + 1}
    BY <1>1
  <1> QED
    BY <1>2, <1>3, <1>4, Zenon DEF ToSet

\* a concatenation,
LEMMA ToSetConcat ==
    ASSUME NEW S, NEW s \in Seq(S), NEW t \in Seq(S)
    PROVE  /\ s \o t \in Seq(S) /\ Len(s \o t) = Len(s) + Len(t)
           /\ ToSet(s \o t) = ToSet(s) \cup ToSet(t)
  <1>1. s \o t \in Seq(S) /\ Len(s \o t) = Len(s) + Len(t)
    OBVIOUS
  <1>2. \A k \in 1 .. Len(s) : (s \o t)[k] = s[k]
    OBVIOUS
  <1>3. \A k \in 1 .. Len(t) : (s \o t)[Len(s) + k] = t[k]
    OBVIOUS
  <1>4. ToSet(s \o t) \subseteq ToSet(s) \cup ToSet(t)
    <2>1. SUFFICES ASSUME NEW k \in 1 .. Len(s) + Len(t)
                   PROVE  (s \o t)[k] \in ToSet(s) \cup ToSet(t)
      BY <1>1 DEF ToSet
    <2>2. CASE k <= Len(s)
      BY <1>2, <2>2 DEF ToSet
    <2>3. CASE k > Len(s)
      <3>1. k - Len(s) \in 1 .. Len(t) /\ k = Len(s) + (k - Len(s))
        BY <2>3
      <3> QED
        BY <1>3, <3>1 DEF ToSet
    <2> QED
      BY <2>2, <2>3
  <1>5. ToSet(s) \subseteq ToSet(s \o t)
    BY <1>1, <1>2 DEF ToSet
  <1>6. ToSet(t) \subseteq ToSet(s \o t)
    <2>0. DOMAIN t = 1 .. Len(t)
      OBVIOUS
    <2>1. SUFFICES ASSUME NEW k \in 1 .. Len(t) PROVE t[k] \in ToSet(s \o t)
      BY <2>0, Zenon DEF ToSet
    <2>2. Len(s) + k \in 1 .. Len(s \o t)
      BY <1>1
    <2> QED
      BY <1>1, <1>3, <2>2 DEF ToSet
  <1> QED
    BY <1>1, <1>4, <1>5, <1>6

\* and once the head is taken.
LEMMA ToSetHead ==
    ASSUME NEW S, NEW s \in Seq(S), s # <<>>
    PROVE  /\ Head(s) \in S /\ Tail(s) \in Seq(S)
           /\ Len(Tail(s)) + 1 = Len(s)
           /\ ToSet(s) = {Head(s)} \cup ToSet(Tail(s))
  <1>1. Head(s) \in S /\ Tail(s) \in Seq(S) /\ Len(Tail(s)) = Len(s) - 1 /\ Len(s) >= 1
    OBVIOUS
  <1>2. Head(s) = s[1] /\ \A k \in 1 .. Len(s) - 1 : Tail(s)[k] = s[k + 1]
    OBVIOUS
  <1>3. ToSet(s) \subseteq {Head(s)} \cup ToSet(Tail(s))
    <2>1. SUFFICES ASSUME NEW k \in 1 .. Len(s) PROVE s[k] = Head(s) \/ s[k] \in ToSet(Tail(s))
      BY DEF ToSet
    <2>2. CASE k = 1
      BY <1>2, <2>2
    <2>3. CASE k > 1
      <3>1. k - 1 \in 1 .. Len(s) - 1 /\ (k - 1) + 1 = k
        BY <2>3
      <3>2. Tail(s)[k - 1] = s[k]
        BY <1>2, <3>1
      <3>3. k - 1 \in DOMAIN Tail(s)
        BY <1>1, <3>1
      <3> QED
        BY <3>2, <3>3, Zenon DEF ToSet
    <2> QED
      BY <2>2, <2>3
  <1>4. {Head(s)} \cup ToSet(Tail(s)) \subseteq ToSet(s)
    BY <1>1, <1>2 DEF ToSet
  <1> QED
    BY <1>1, <1>3, <1>4
-----------------------------------------------------------------------------
(* The inductive invariant. *)

\* ready means that there are data, unless done tells the generator to stop; past
\* its first look at done the generator has both, and before it no unit exists.  It yields what there is.
DataInv ==
    /\ sample <= request.rank /\ params <= request.rank
    /\ ready /\ ~done => Complete
    /\ gen \in {"fill", "poll", "scan", "next", "yield", "resume"} => Complete
    /\ gen \in {"wait", "ready"} => status = <<>>
    /\ gen = "ready" => ready
    /\ gen = "yield" => batch # <<>>

\* Outside of the lock, what may be read has been published, or is what the last
\* request left when its parameters could not be unpickled.
PublishedInv == lock = "free" /\ Complete => <<sample, params>> \in published \/ request.raised

\* Units have complete arguments, published ones, none newer than the present ones
\* or those of a later unit.
ArgsInv ==
    /\ \A u \in Units : /\ args[u][1] \in 1 .. sample /\ args[u][2] \in 1 .. params
                        /\ args[u] \in published \/ HalfRequest(args[u])
    /\ \A u, v \in Units : u <= v => args[u][1] <= args[v][1] /\ args[u][2] <= args[v][2]

\* UnitsOnce, by parts.
UnitsInv ==
    /\ Len(pending) + Len(active) + Len(batch) + Len(yielded) = Len(status)
    /\ ToSet(pending) \cup ToSet(active) \cup ToSet(batch) \cup ToSet(yielded) = Units

IndInv == TypeOK /\ DataInv /\ PublishedInv /\ ArgsInv /\ UnitsInv
-----------------------------------------------------------------------------
(* Each part is kept by every step. *)

\* The threads start with nothing published and no unit.
LEMMA InitHolds == Init => IndInv
  <1> SUFFICES ASSUME Init PROVE IndInv
    OBVIOUS
  <1> USE SamplerAssumption DEF Init, Ranks, max_waiting, Units
  <1>1. TypeOK
    <2>1. /\ sample \in Ranks /\ params \in Ranks /\ published \subseteq Ranks \X Ranks
          /\ request \in [rank : Ranks, sets : SUBSET {"sample", "params"}, raised : BOOLEAN]
          /\ ~request.raised
      OBVIOUS
    <2>2. /\ pending \in Seq(Nat) /\ active \in Seq(Nat) /\ batch \in Seq(Nat)
          /\ yielded \in Seq(Nat) /\ args \in Seq(Ranks \X Ranks)
          /\ status \in Seq({"queued", "running", "done", "failed"})
      OBVIOUS
    <2>3. Len(args) = Len(status) /\ Len(args) <= MaxUnits /\ filled \in 0 .. POOL_SIZE + max_waiting
      OBVIOUS
    <2> QED
      BY <2>1, <2>2, <2>3 DEF TypeOK
  <1>2. DataInv /\ PublishedInv
    BY DEF DataInv, PublishedInv, Complete
  <1>3. Len(status) = 0 /\ Units = {}
    OBVIOUS
  <1>4. ArgsInv
    BY <1>3 DEF ArgsInv
  <1>5. ToSet(<<>>) = {}
    BY DEF ToSet
  <1>6. UnitsInv
    BY <1>3, <1>5 DEF UnitsInv
  <1> QED
    BY <1>1, <1>2, <1>4, <1>6 DEF IndInv

\* Requests only have higher ranks, and a unit is added below the bound.
LEMMA TypeStep ==
    ASSUME TypeOK, DataInv, [Next]_vars
    PROVE  TypeOK'
  <1> USE SamplerAssumption DEF TypeOK, Ranks, max_waiting
  <1>1. CASE UNCHANGED vars
    BY <1>1 DEF vars, paramVars, updaterVars, genVars, poolVars, history
  <1>2. CASE ReadRequest
    <2>1. updater' \in {"lock", "finish"} /\ updater = "read" /\ lock' = lock
      BY <1>2 DEF ReadRequest, paramVars
    <2>2. CASE updater' = "finish" /\ UNCHANGED request
      BY <1>2, <2>1, <2>2 DEF ReadRequest, paramVars, genVars, poolVars, history
    <2>3. ASSUME NEW sets \in SUBSET {"sample", "params"}, request.rank < MaxRequests,
                 request' = [rank |-> request.rank + 1, sets |-> sets, raised |-> FALSE]
          PROVE  TypeOK'
      <3>1. request.rank \in Ranks /\ request'.rank = request.rank + 1 /\ ~request'.raised
        BY <2>3
      <3>2. request.rank + 1 \in Ranks /\ request.rank + 1 > 0
        BY <2>3, <3>1
      <3>3. request' \in [rank : Ranks, sets : SUBSET {"sample", "params"}, raised : BOOLEAN]
        BY <2>3, <3>2
      <3> QED
        BY <1>2, <2>1, <3>1, <3>2, <3>3 DEF ReadRequest, paramVars, genVars, poolVars, history
    <2> QED
      BY <1>2, <2>2, <2>3 DEF ReadRequest
  <1>3. CASE Lock
    BY <1>3 DEF Lock, genVars, poolVars, history
  <1>4. CASE SetSample
    BY <1>4 DEF SetSample, genVars, poolVars, history
  <1>5. CASE SetParams
    BY <1>5 DEF SetParams, genVars, poolVars, history
  <1>17. CASE LoadsRaises
    <2>1. /\ request' \in [rank : Ranks, sets : SUBSET {"sample", "params"}, raised : BOOLEAN]
          /\ request'.rank = request.rank
      BY <1>17 DEF LoadsRaises
    <2> QED
      BY <1>17, <2>1 DEF LoadsRaises, genVars, poolVars, history
  <1>6. CASE Signal
    BY <1>6 DEF Signal, Complete, genVars, poolVars
  <1>7. CASE FinishUpdates
    <2>1. /\ updater' \in {"finishReady", "stopped"} /\ updater \in {"finish", "finishReady"}
          /\ done' \in BOOLEAN /\ ready' \in BOOLEAN
      BY <1>7 DEF FinishUpdates, SetDone, SetReady
    <2>2. UNCHANGED <<lock, sample, params, request, ctx, genVars, poolVars, history>>
      BY <1>7 DEF FinishUpdates
    <2> QED
      BY <2>1, <2>2 DEF genVars, poolVars, history
  <1>8. CASE MarkCancelled
    <2>1. /\ ctx' \in {"cancelling", "doneSet", "cancelled"}
          /\ done' \in BOOLEAN /\ ready' \in BOOLEAN
      BY <1>8 DEF MarkCancelled, SetDone, SetReady
    <2>2. UNCHANGED <<lock, sample, params, updaterVars, genVars, poolVars, history>>
      BY <1>8 DEF MarkCancelled
    <2> QED
      BY <2>1, <2>2 DEF updaterVars, genVars, poolVars, history
  <1>9. CASE Start
    <2>1. status' \in Seq({"queued", "running", "done", "failed"}) /\ Len(status') = Len(status)
      BY <1>9 DEF Start, Having, Units
    <2>2. UNCHANGED <<paramVars, updaterVars, ctx, genVars, args, history>>
      BY <1>9 DEF Start
    <2> QED
      BY <2>1, <2>2 DEF paramVars, updaterVars, genVars, history
  <1>10. ASSUME NEW u \in Units, Finish(u) PROVE TypeOK'
    <2>1. status' \in Seq({"queued", "running", "done", "failed"}) /\ Len(status') = Len(status)
      BY <1>10 DEF Finish, Units
    <2>2. UNCHANGED <<paramVars, updaterVars, ctx, genVars, args, history>>
      BY <1>10 DEF Finish
    <2> QED
      BY <2>1, <2>2 DEF paramVars, updaterVars, genVars, history
  <1>11. CASE WaitReady \/ Timeout \/ CheckDone \/ Poll \/ NextValue \/ Resume
    <2>1. gen' \in {"ready", "fill", "scan", "next", "yield", "closing"}
      BY <1>11 DEF WaitReady, Timeout, CheckDone, Poll, NextValue, Resume
    <2>2. UNCHANGED <<paramVars, updaterVars, ctx, pending, active, batch, filled, poolVars, history>>
      BY <1>11 DEF WaitReady, Timeout, CheckDone, Poll, NextValue, Resume
    <2> QED
      BY <2>1, <2>2 DEF paramVars, updaterVars, poolVars, history
  <1>12. CASE Fill
    <2>1. CASE gen' = gen
      <3>1. /\ args' = Append(args, <<sample, params>>) /\ status' = Append(status, "queued")
            /\ pending' = Append(pending, Len(status) + 1) /\ Len(status) < MaxUnits
            /\ filled' = filled + 1 /\ filled < POOL_SIZE + max_waiting
        BY <1>12, <2>1 DEF Fill
      <3>2. /\ args' \in Seq(Ranks \X Ranks) /\ Len(args') = Len(args) + 1
            /\ status' \in Seq({"queued", "running", "done", "failed"})
            /\ Len(status') = Len(status) + 1
            /\ pending' \in Seq(Nat)
        <4>1. <<sample, params>> \in Ranks \X Ranks /\ Len(status) + 1 \in Nat
          OBVIOUS
        <4>2. args' \in Seq(Ranks \X Ranks) /\ Len(args') = Len(args) + 1
          BY <3>1, <4>1, AppendType
        <4>3. pending' \in Seq(Nat)
          BY <3>1, <4>1, AppendType
        <4>4. /\ status' \in Seq({"queued", "running", "done", "failed"})
              /\ Len(status') = Len(status) + 1
          BY <3>1, AppendType
        <4> QED
          BY <4>2, <4>3, <4>4
      <3>3. Len(args') <= MaxUnits /\ filled' \in 0 .. POOL_SIZE + max_waiting
        BY <3>1, <3>2
      <3> QED
        BY <1>12, <2>1, <3>2, <3>3 DEF Fill, paramVars, updaterVars, history
    <2>2. CASE gen' # gen
      BY <1>12, <2>2 DEF Fill, paramVars, updaterVars, history
    <2> QED
      BY <2>1, <2>2
  <1>13. CASE Scan
    <2>1. Head(pending) \in Nat /\ pending' \in Seq(Nat)
      BY <1>13, ToSetHead DEF Scan
    <2>2. active' \in Seq(Nat) /\ batch' \in Seq(Nat)
      <3>1. Append(batch, Head(pending)) \in Seq(Nat) /\ Append(active, Head(pending)) \in Seq(Nat)
        BY <2>1, AppendType
      <3> QED
        BY <1>13, <3>1 DEF Scan
    <2> QED
      BY <1>13, <2>1, <2>2 DEF Scan, paramVars, updaterVars, poolVars, history
  <1>14. CASE Collect
    BY <1>14 DEF Collect, StillPending, paramVars, updaterVars, poolVars, history
  <1>15. CASE Yield
    <2>1. batch # <<>>
      BY <1>15 DEF Yield, DataInv
    <2>2. Head(batch) \in Nat /\ batch' \in Seq(Nat)
      BY <1>15, <2>1, ToSetHead DEF Yield
    <2>3. yielded' \in Seq(Nat)
      BY <1>15, <2>2, AppendType DEF Yield
    <2> QED
      BY <1>15, <2>2, <2>3 DEF Yield, paramVars, updaterVars, poolVars
  <1>16. CASE Close
    BY <1>16 DEF Close, updaterVars, poolVars, history
  <1> QED
    BY <1>1, <1>2, <1>3, <1>4, <1>5, <1>6, <1>7, <1>8, <1>9, <1>10, <1>11, <1>12, <1>13,
       <1>14, <1>15, <1>16, <1>17 DEF Next, Update, Pool, Generate

\* Only the generator's first look at done separates ready from complete data.
LEMMA DataStep ==
    ASSUME TypeOK, DataInv, [Next]_vars
    PROVE  DataInv'
  <1> USE SamplerAssumption DEF DataInv, Complete
  <1> DEFINE Working == {"fill", "poll", "scan", "next", "yield", "resume"}
  <1>0. /\ sample \in Nat /\ params \in Nat /\ request.rank \in Nat
        /\ updater \in {"sample", "params"} => request.rank > 0
        /\ done \in BOOLEAN /\ ready \in BOOLEAN
    BY DEF TypeOK, Ranks
  <1>1. CASE UNCHANGED vars
    BY <1>1 DEF vars, paramVars, updaterVars, genVars, poolVars, history
  <1>2. CASE ReadRequest
    <2>1. request'.rank >= request.rank /\ request'.rank \in Nat
      BY <1>0, <1>2 DEF ReadRequest
    <2> QED
      BY <1>0, <1>2, <2>1 DEF ReadRequest, paramVars, genVars, poolVars
  <1>3. CASE Lock
    BY <1>3 DEF Lock, genVars, poolVars
  <1>4. CASE SetSample
    BY <1>0, <1>4 DEF SetSample, genVars, poolVars
  <1>5. CASE SetParams
    BY <1>0, <1>5 DEF SetParams, genVars, poolVars
  <1>17. CASE LoadsRaises
    <2>1. request'.rank = request.rank
      BY <1>17 DEF LoadsRaises, TypeOK
    <2> QED
      BY <1>17, <2>1 DEF LoadsRaises, genVars, poolVars
  <1>6. CASE Signal
    BY <1>6 DEF Signal, genVars, poolVars
  <1>7. CASE FinishUpdates
    BY <1>7 DEF FinishUpdates, SetDone, SetReady, genVars, poolVars
  <1>8. CASE MarkCancelled
    BY <1>8 DEF MarkCancelled, SetDone, SetReady, updaterVars, genVars, poolVars
  <1>9. CASE Start
    BY <1>9 DEF Start, Having, Units, paramVars, updaterVars, genVars, TypeOK
  <1>10. ASSUME NEW u \in Units, Finish(u) PROVE DataInv'
    BY <1>10 DEF Finish, Units, paramVars, updaterVars, genVars, TypeOK
  <1>11. CASE WaitReady \/ Timeout \/ CheckDone \/ Poll \/ NextValue \/ Resume
    <2>1. UNCHANGED <<paramVars, request, status, batch>>
      BY <1>11 DEF WaitReady, Timeout, CheckDone, Poll, NextValue, Resume, updaterVars, poolVars
    <2>2. WaitReady \/ Timeout => gen' \in {"ready", "closing"} /\ gen = "wait"
      BY DEF WaitReady, Timeout
    <2>3. CheckDone => gen' \in {"fill", "closing"} /\ gen = "ready" /\ (gen' = "fill" <=> ~done)
      BY DEF CheckDone
    <2>4. Poll \/ NextValue \/ Resume =>
              /\ gen' \in {"scan", "fill", "yield", "next", "closing"} /\ gen \in Working
              /\ gen' = "yield" => batch # <<>>
      BY DEF Poll, NextValue, Resume
    <2>5. ready => done \/ Complete
      BY <1>0
    <2>6. CheckDone => ready
      BY DEF CheckDone
    <2>7. UNCHANGED <<done, ready, sample, params, request, status, batch>>
      BY <2>1 DEF paramVars
    <2>8. CASE WaitReady \/ Timeout
      <3>1. WaitReady => ready
        BY DEF WaitReady
      <3>2. Timeout => gen' = "closing"
        BY DEF Timeout
      <3> QED
        BY <2>2, <2>7, <2>8, <3>1, <3>2
    <2>9. CASE CheckDone
      BY <2>3, <2>5, <2>6, <2>7, <2>9
    <2>10. CASE Poll \/ NextValue \/ Resume
      BY <2>4, <2>7, <2>10
    <2> QED
      BY <1>11, <2>8, <2>9, <2>10
  <1>12. CASE Fill
    BY <1>12 DEF Fill, paramVars, updaterVars
  <1>13. CASE Scan
    BY <1>13 DEF Scan, paramVars, updaterVars, poolVars
  <1>14. CASE Collect
    BY <1>14 DEF Collect, StillPending, paramVars, updaterVars, poolVars
  <1>15. CASE Yield
    BY <1>15 DEF Yield, paramVars, updaterVars, poolVars
  <1>16. CASE Close
    BY <1>16 DEF Close, updaterVars, poolVars
  <1> QED
    BY <1>1, <1>2, <1>3, <1>4, <1>5, <1>6, <1>7, <1>8, <1>9, <1>10, <1>11, <1>12, <1>13,
       <1>14, <1>15, <1>16, <1>17 DEF Next, Update, Pool, Generate

\* The lock is let go by the step that publishes.
LEMMA PublishedStep ==
    ASSUME TypeOK, PublishedInv, [Next]_vars
    PROVE  PublishedInv'
  <1> USE DEF PublishedInv, Complete
  <1>1. CASE Lock \/ SetSample \/ SetParams
    BY <1>1 DEF Lock, SetSample, SetParams, TypeOK
  <1>2. CASE Signal
    BY <1>2 DEF Signal
  <1>4. CASE LoadsRaises
    BY <1>4 DEF LoadsRaises, TypeOK
  <1>5. CASE ReadRequest
    <2>1. ~request.raised /\ UNCHANGED <<lock, sample, params, published>>
      BY <1>5 DEF ReadRequest, TypeOK, paramVars, history
    <2> QED
      BY <2>1
  <1>3. \/ UNCHANGED <<lock, sample, params, published, request>>
        \/ Lock \/ SetSample \/ SetParams \/ Signal \/ LoadsRaises \/ ReadRequest
    BY DEF Next, vars, Update, Pool, Generate, ReadRequest, FinishUpdates, MarkCancelled,
       Start, Finish, WaitReady, Timeout, CheckDone, Fill, Poll, Scan, Collect, NextValue,
       Yield, Resume, Close, paramVars, updaterVars, history
  <1> QED
    BY <1>1, <1>2, <1>3, <1>4, <1>5

\* Parameters only move forward, and only the generator adds a unit.
LEMMA ArgsFrame ==
    ASSUME TypeOK, DataInv, [Next]_vars, ~Fill
    PROVE  /\ args' = args /\ Len(status') = Len(status)
           /\ sample <= sample' /\ params <= params' /\ published \subseteq published'
  <1>0. sample \in Nat /\ params \in Nat /\ sample <= request.rank /\ params <= request.rank
    BY SamplerAssumption DEF TypeOK, Ranks, DataInv
  <1> DEFINE Kept == /\ args' = args /\ Len(status') = Len(status)
                     /\ sample <= sample' /\ params <= params' /\ published \subseteq published'
  <1>1. CASE UNCHANGED <<sample, params, published, args, status>>
    BY <1>0, <1>1
  <1>2. CASE SetSample \/ SetParams
    <2>1. args' = args /\ status' = status /\ published' = published
      BY <1>2 DEF SetSample, SetParams, poolVars, history
    <2>2. sample <= sample' /\ params <= params'
      BY <1>0, <1>2 DEF SetSample, SetParams
    <2> QED
      BY <2>1, <2>2
  <1>3. CASE Signal
    BY <1>0, <1>3 DEF Signal, poolVars
  <1>4. CASE Start \/ \E u \in Units : Finish(u)
    <2>1. UNCHANGED <<sample, params, published, args>>
      BY <1>4 DEF Start, Finish, paramVars, history
    <2>2. Len(status') = Len(status)
      BY <1>4 DEF Start, Finish, Having, TypeOK
    <2> QED
      BY <1>0, <2>1, <2>2
  <1>5. UNCHANGED <<sample, params, published, args, status>> \/ SetSample \/ SetParams \/ Signal
        \/ Start \/ \E u \in Units : Finish(u)
    BY DEF Next, vars, Update, Pool, Generate, ReadRequest, Lock, LoadsRaises, FinishUpdates, MarkCancelled,
       WaitReady, Timeout, CheckDone, Poll, Scan, Collect, NextValue,
       Yield, Resume, Close, paramVars, poolVars, history
  <1> QED
    BY <1>1, <1>2, <1>3, <1>4, <1>5

\* No request comes after one that could not be unpickled.
LEMMA HalfStays ==
    ASSUME TypeOK, [Next]_vars, request.raised
    PROVE  request'.raised /\ UNCHANGED <<sample, params>>
  <1>1. updater \notin {"read", "lock", "sample", "params", "signal"}
    BY DEF TypeOK
  <1> QED
    BY <1>1 DEF Next, vars, Update, Pool, Generate, ReadRequest, Lock, SetSample, SetParams,
       LoadsRaises, Signal, FinishUpdates, MarkCancelled, Start, Finish, WaitReady, Timeout,
       CheckDone, Fill, Poll, Scan, Collect, NextValue, Yield, Resume, Close, paramVars,
       updaterVars

\* A unit is added with the lock, so with parameters that were published, or those
\* that nothing replaces any more.
LEMMA ArgsStep ==
    ASSUME TypeOK, DataInv, PublishedInv, ArgsInv, [Next]_vars
    PROVE  ArgsInv'
  <1>0. sample \in Nat /\ params \in Nat /\ Len(status) \in Nat /\ Len(args) = Len(status)
    BY SamplerAssumption DEF TypeOK, Ranks
  <1>1. \A u \in Units : args[u] \in Ranks \X Ranks
    BY DEF TypeOK, Units
  <1>2. CASE ~Fill
    <2>1. /\ args' = args /\ Len(status') = Len(status)
          /\ sample <= sample' /\ params <= params' /\ published \subseteq published'
      BY <1>2, ArgsFrame
    <2>2. sample' \in Nat /\ params' \in Nat
      BY TypeStep, SamplerAssumption DEF TypeOK, Ranks
    <2>3. Units' = Units
      BY <2>1 DEF Units
    <2>4. \A u \in Units : args[u] \in published' \/ HalfRequest(args[u])'
      BY <2>1, HalfStays DEF ArgsInv, HalfRequest
    <2>5. \A u \in Units : args[u][1] \in 1 .. sample' /\ args[u][2] \in 1 .. params'
      BY <1>0, <1>1, <2>1, <2>2 DEF ArgsInv
    <2> QED
      BY <2>1, <2>3, <2>4, <2>5 DEF ArgsInv
  <1>3. CASE Fill /\ UNCHANGED <<args, status>>
    BY <1>3 DEF Fill, paramVars, updaterVars, history, ArgsInv, Units, HalfRequest
  <1>4. CASE Fill /\ ~UNCHANGED <<args, status>>
    <2> DEFINE new == <<sample, params>>
    <2>1. /\ args' = Append(args, new) /\ status' = Append(status, "queued") /\ lock = "free"
          /\ gen = "fill" /\ UNCHANGED <<sample, params, request, published>>
      BY <1>4 DEF Fill, MayRead, paramVars, updaterVars, history
    <2>2. Complete /\ (new \in published \/ HalfRequest(new))
      BY <2>1 DEF DataInv, PublishedInv, HalfRequest
    <2>3. new[1] \in 1 .. sample /\ new[2] \in 1 .. params
      BY <1>0, <2>2 DEF Complete
    <2>4. /\ Len(status') = Len(status) + 1
          /\ \A u \in Units : args'[u] = args[u]
          /\ args'[Len(status) + 1] = new
      BY <1>0, <2>1 DEF TypeOK, Units, Ranks
    <2>5. Units' = Units \cup {Len(status) + 1}
      BY <1>0, <2>4 DEF Units
    <2>6. \A u \in Units' : /\ args'[u][1] \in 1 .. sample /\ args'[u][2] \in 1 .. params
                            /\ args'[u] \in published \/ HalfRequest(args'[u])
      BY <2>2, <2>3, <2>4, <2>5 DEF ArgsInv
    <2>7. \A u, v \in Units' :
              u <= v => args'[u][1] <= args'[v][1] /\ args'[u][2] <= args'[v][2]
      <3>1. SUFFICES ASSUME NEW u \in Units', NEW v \in Units', u <= v
                     PROVE  args'[u][1] <= args'[v][1] /\ args'[u][2] <= args'[v][2]
        OBVIOUS
      <3>2. CASE v = Len(status) + 1
        BY <1>0, <2>4, <2>6, <3>2
      <3>3. CASE v \in Units
        <4>1. u \in Units
          BY <1>0, <2>5, <3>1, <3>3 DEF Units
        <4> QED
          BY <2>4, <3>1, <3>3, <4>1 DEF ArgsInv
      <3> QED
        BY <2>5, <3>2, <3>3
    <2> QED
      BY <2>1, <2>6, <2>7 DEF ArgsInv, HalfRequest
  <1> QED
    BY <1>2, <1>3, <1>4

\* A scan moves one future, and a collection one list; the others are added or taken.
LEMMA UnitsStep ==
    ASSUME TypeOK, DataInv, UnitsInv, [Next]_vars
    PROVE  UnitsInv'
  <1> DEFINE queues == <<pending, active, batch, yielded>>
  <1>0. /\ pending \in Seq(Nat) /\ active \in Seq(Nat) /\ batch \in Seq(Nat) /\ yielded \in Seq(Nat)
        /\ Len(pending) \in Nat /\ Len(active) \in Nat /\ Len(batch) \in Nat
        /\ Len(yielded) \in Nat /\ Len(status) \in Nat
    BY DEF TypeOK
  <1>1. CASE UNCHANGED queues /\ Len(status') = Len(status)
    BY <1>1 DEF UnitsInv, Units
  <1>2. CASE Fill /\ ~UNCHANGED <<args, status>>
    <2>1. /\ status' = Append(status, "queued") /\ pending' = Append(pending, Len(status) + 1)
          /\ UNCHANGED <<active, batch, yielded>>
      BY <1>2 DEF Fill, history
    <2>2. Len(status') = Len(status) + 1 /\ Len(pending') = Len(pending) + 1
      <3>1. Len(status') = Len(status) + 1
        BY <2>1, AppendType DEF TypeOK
      <3>2. Len(status) + 1 \in Nat
        BY <1>0
      <3> QED
        BY <1>0, <2>1, <3>1, <3>2, AppendType
    <2>3. ToSet(pending') = ToSet(pending) \cup {Len(status) + 1}
      <3>1. pending \in Seq(Nat) /\ Len(status) + 1 \in Nat
        BY <1>0
      <3>2. ToSet(Append(pending, Len(status) + 1)) = ToSet(pending) \cup {Len(status) + 1}
        BY <3>1, ToSetAppend
      <3> QED
        BY <2>1, <3>2
    <2>4. Units' = Units \cup {Len(status) + 1}
      BY <1>0, <2>2 DEF Units
    <2>5. Len(pending') + Len(active') + Len(batch') + Len(yielded') = Len(status')
      BY <1>0, <2>1, <2>2 DEF UnitsInv
    <2>6. ToSet(pending') \cup ToSet(active') \cup ToSet(batch') \cup ToSet(yielded') = Units'
      BY <2>1, <2>3, <2>4 DEF UnitsInv
    <2> QED
      BY <2>5, <2>6 DEF UnitsInv
  <1>3. CASE Scan
    <2> DEFINE u == Head(pending)
    <2>1. /\ pending # <<>> /\ pending' = Tail(pending) /\ UNCHANGED <<yielded, status>>
          /\ \/ batch' = Append(batch, u) /\ active' = active
             \/ active' = Append(active, u) /\ batch' = batch
      BY <1>3 DEF Scan, poolVars, history
    <2>2. /\ u \in Nat /\ Len(pending') + 1 = Len(pending)
          /\ Len(pending') \in Nat
          /\ ToSet(pending) = {u} \cup ToSet(pending')
      BY <1>0, <2>1, ToSetHead
    <2>3. /\ Len(active') + Len(batch') = Len(active) + Len(batch) + 1
          /\ Len(active') \in Nat /\ Len(batch') \in Nat
          /\ ToSet(active') \cup ToSet(batch') = ToSet(active) \cup ToSet(batch) \cup {u}
      <3>1. /\ Len(Append(batch, u)) = Len(batch) + 1 /\ Len(Append(active, u)) = Len(active) + 1
        BY <1>0, <2>2, AppendType
      <3>2. /\ ToSet(Append(batch, u)) = ToSet(batch) \cup {u}
            /\ ToSet(Append(active, u)) = ToSet(active) \cup {u}
        BY <1>0, <2>2, ToSetAppend
      <3>3. CASE batch' = Append(batch, u) /\ active' = active
        BY <1>0, <3>1, <3>2, <3>3
      <3>4. CASE active' = Append(active, u) /\ batch' = batch
        BY <1>0, <3>1, <3>2, <3>4
      <3> QED
        BY <2>1, <3>3, <3>4
    <2>4. Len(pending') + Len(active') + Len(batch') + Len(yielded') = Len(status')
      <3>1. Len(pending) + Len(active) + Len(batch) + Len(yielded) = Len(status)
        BY DEF UnitsInv
      <3>2. Len(yielded') = Len(yielded) /\ Len(status') = Len(status)
        BY <2>1
      <3>3. /\ Len(pending') \in Nat /\ Len(active') \in Nat /\ Len(batch') \in Nat
            /\ Len(pending') + 1 = Len(pending)
            /\ Len(active') + Len(batch') = Len(active) + Len(batch) + 1
        BY <2>2, <2>3
      <3>4. /\ Len(pending) \in Nat /\ Len(active) \in Nat /\ Len(batch) \in Nat
            /\ Len(yielded) \in Nat
        BY <1>0
      <3> QED
        BY <3>1, <3>2, <3>3, <3>4
    <2>5. ToSet(pending') \cup ToSet(active') \cup ToSet(batch') \cup ToSet(yielded') = Units'
      BY <2>1, <2>2, <2>3 DEF UnitsInv, Units
    <2> QED
      BY <2>4, <2>5 DEF UnitsInv
  <1>4. CASE Collect
    <2>1. /\ pending = <<>> /\ pending' = active /\ active' = <<>>
          /\ UNCHANGED <<batch, yielded, status>>
      BY <1>4 DEF Collect, StillPending, poolVars, history
    <2>2. ToSet(<<>>) = {} /\ Len(<<>>) = 0
      BY DEF ToSet
    <2>3. Len(pending') + Len(active') + Len(batch') + Len(yielded') = Len(status')
      BY <1>0, <2>1, <2>2 DEF UnitsInv
    <2>4. ToSet(pending') \cup ToSet(active') \cup ToSet(batch') \cup ToSet(yielded') = Units'
      BY <2>1, <2>2 DEF UnitsInv, Units
    <2> QED
      BY <2>3, <2>4 DEF UnitsInv
  <1>5. CASE Yield
    <2>1. /\ batch # <<>> /\ batch' = Tail(batch) /\ yielded' = Append(yielded, Head(batch))
          /\ UNCHANGED <<pending, active, status>>
      BY <1>5 DEF Yield, DataInv, poolVars
    <2>2. /\ Head(batch) \in Nat /\ Len(batch') + 1 = Len(batch) /\ Len(batch') \in Nat
          /\ ToSet(batch) = {Head(batch)} \cup ToSet(batch')
      BY <1>0, <2>1, ToSetHead
    <2>3. Len(yielded') = Len(yielded) + 1 /\ ToSet(yielded') = ToSet(yielded) \cup {Head(batch)}
      <3>1. Len(Append(yielded, Head(batch))) = Len(yielded) + 1
        BY <1>0, <2>2, AppendType
      <3>2. ToSet(Append(yielded, Head(batch))) = ToSet(yielded) \cup {Head(batch)}
        BY <1>0, <2>2, ToSetAppend
      <3> QED
        BY <2>1, <3>1, <3>2
    <2>4. Len(pending') + Len(active') + Len(batch') + Len(yielded') = Len(status')
      BY <1>0, <2>1, <2>2, <2>3 DEF UnitsInv
    <2>5. ToSet(pending') \cup ToSet(active') \cup ToSet(batch') \cup ToSet(yielded') = Units'
      BY <2>1, <2>2, <2>3 DEF UnitsInv, Units
    <2> QED
      BY <2>4, <2>5 DEF UnitsInv
  <1>6. Len(status') = Len(status) \/ Fill
    BY ArgsFrame
  <1>7. UNCHANGED queues \/ Fill \/ Scan \/ Collect \/ Yield
    BY DEF Next, vars, Update, Pool, Generate, ReadRequest, Lock, SetSample, SetParams, LoadsRaises,
       Signal, FinishUpdates, MarkCancelled, Start, Finish, WaitReady, Timeout, CheckDone, Poll,
       NextValue, Resume, Close, genVars, history
  <1>8. Fill /\ UNCHANGED <<args, status>> => UNCHANGED queues
    <2>1. Append(status, "queued") # status
      BY <1>0, AppendType DEF TypeOK
    <2> QED
      BY <2>1 DEF Fill, history
  <1> QED
    BY <1>1, <1>2, <1>3, <1>4, <1>5, <1>6, <1>7, <1>8
-----------------------------------------------------------------------------
(* The theorems. *)

\* The invariant holds in every reachable state.
THEOREM SamplerInvariant == Spec => []IndInv
  <1>1. IndInv /\ [Next]_vars => IndInv'
    BY TypeStep, DataStep, PublishedStep, ArgsStep, UnitsStep DEF IndInv
  <1> QED
    BY InitHolds, <1>1, PTL DEF Spec

\* No unit is handed out with a missing sample or missing parameters, although ready
\* is also set to stop the generator (simulate, ExactTestParameters).
THEOREM UnitsHaveArguments == Spec => []ArgsComplete
  <1>1. IndInv => ArgsComplete
    <2> SUFFICES ASSUME IndInv, NEW u \in Units PROVE args[u][1] # 0 /\ args[u][2] # 0
      BY DEF ArgsComplete
    <2>1. args[u][1] \in 1 .. sample /\ args[u][2] \in 1 .. params
      BY DEF IndInv, ArgsInv
    <2> QED
      BY <2>1
  <1> QED
    BY SamplerInvariant, <1>1, PTL

\* The arguments of a unit were published together, but for what a last request with
\* unreadable parameters leaves, and later units have later ones (read_params and
\* _update_test_params, under the lock).
THEOREM UnitsHavePublishedArguments == Spec => []ArgsPublished
  <1>1. IndInv => ArgsPublished
    BY DEF IndInv, ArgsInv, ArgsPublished
  <1> QED
    BY SamplerInvariant, <1>1, PTL

\* No unit is lost or yielded twice by _generate_in_parallel, in whatever order the
\* pool completes them.
THEOREM UnitsAreSomewhereOnce == Spec => []UnitsOnce
  <1>1. IndInv => UnitsOnce
    <2> SUFFICES ASSUME IndInv PROVE UnitsOnce
      OBVIOUS
    <2>1. /\ pending \in Seq(Nat) /\ active \in Seq(Nat) /\ batch \in Seq(Nat) /\ yielded \in Seq(Nat)
      BY DEF IndInv, TypeOK
    <2> DEFINE two == pending \o active
    <2> DEFINE three == two \o batch
    <2>2. /\ two \in Seq(Nat) /\ Len(two) = Len(pending) + Len(active)
          /\ ToSet(two) = ToSet(pending) \cup ToSet(active)
      BY <2>1, ToSetConcat
    <2> HIDE DEF two
    <2>3. /\ three \in Seq(Nat) /\ Len(three) = Len(two) + Len(batch)
          /\ ToSet(three) = ToSet(two) \cup ToSet(batch)
      BY <2>1, <2>2, ToSetConcat
    <2> HIDE DEF three
    <2>4. /\ Len(three \o yielded) = Len(three) + Len(yielded)
          /\ ToSet(three \o yielded) = ToSet(three) \cup ToSet(yielded)
      BY <2>1, <2>3, ToSetConcat
    <2>5. pending \o active \o batch \o yielded = three \o yielded
      BY DEF two, three
    <2> QED
      BY <2>2, <2>3, <2>4, <2>5 DEF IndInv, UnitsInv, UnitsOnce
  <1> QED
    BY SamplerInvariant, <1>1, PTL
=============================================================================
