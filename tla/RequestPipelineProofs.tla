----------------------- MODULE RequestPipelineProofs -----------------------
(***************************************************************************)
(* Proofs of RequestPipeline's safety properties, for any finite number of *)
(* requests.  The inductive invariant says how far out a panic can be:     *)
(* never outside of Recovery, the third middleware, so that the two that   *)
(* count see every request on its way back.                                *)
(***************************************************************************)
EXTENDS RequestPipeline, FiniteSetTheorems, TLAPS

\* One job: a panic unwinds inside of Recovery only.
JobInv(j) ==
    /\ j \in JobType
    /\ j.pc # "cut"
    /\ j.pc = "none" => j = Unhandled
    /\ j.pc = "in" => j.panic = "no" /\ ~j.panicked
    /\ j.panic # "no" => j.pc = "out" /\ j.at >= 3
    /\ j.pc = "out" /\ j.at >= 3 => (j.panicked <=> j.panic # "no")
    /\ j.pc \in {"in", "out"} => j.status # 301

\* What Out says of one job, and which requests leave a line.
IsOut(j, n, s) == j.pc \in {"out", "sent", "cut"} /\ j.at < n /\ j.status = s
IsLogged(j, s) == IsOut(j, 4, s) /\ ~j.panicked
Logged(s) == {r \in Out(4, s) : ~job[r].panicked}

\* Why LoggedAsSent holds: a panic passes the logger over.
LoggedExactly == \A s \in Statuses \ {301} : logged[s] = Cardinality(Logged(s))

\* A redirect never enters the chain.
NoRedirectCounted == count[301] = 0 /\ duration[301] = 0 /\ logged[301] = 0

IInv ==
    /\ job \in [Requests -> JobType]
    /\ \A r \in Requests : JobInv(job[r])
    /\ {count, duration, logged} \subseteq [Statuses -> Nat]
    /\ CountedAsSent
    /\ LoggedExactly
    /\ NoRedirectCounted

\* What PanicAnswered says of one job's step.
StepAnswers(j, k) ==
    /\ k.pc # "cut"
    /\ j.panic = "other" /\ k.panic = "no" /\ ~j.written => k.status = 500 /\ k.written
    /\ j.written => k.status = j.status

\* A step of j to k changes nothing that n, the number of a middleware that
\* keeps a metric, has seen.
Alike(j, k, n) == \A s \in Statuses \ {301} : IsOut(k, n, s) <=> IsOut(j, n, s)
AlikeLogged(j, k) == \A s \in Statuses \ {301} : IsLogged(k, s) <=> IsLogged(j, s)

Leaving(j, k, n) ==
    /\ j.pc = "out" /\ j.at = n
    /\ k.pc = "out" /\ k.at = n - 1 /\ k.status = j.status

\* What a step of j to k does to each metric.
Effect(j, k) ==
    /\ \/ count' = count /\ Alike(j, k, 1)
       \/ count' = Inc(count, j.status) /\ Leaving(j, k, 1)
    /\ \/ duration' = duration /\ Alike(j, k, 2)
       \/ duration' = Inc(duration, j.status) /\ Leaving(j, k, 2)
    /\ \/ logged' = logged /\ AlikeLogged(j, k)
       \/ logged' = Inc(logged, j.status) /\ Leaving(j, k, 4) /\ ~j.panicked /\ ~k.panicked

USE DEF HandlerStatuses, Statuses

LEMMA ChainIs ==
  /\ Len(Chain) = 5
  /\ Chain[1] = "count" /\ Chain[2] = "duration" /\ Chain[3] = "recovery"
  /\ Chain[4] = "logger" /\ Chain[5] = "xff"
  BY DEF Chain

LEMMA WriteKeeps ==
  ASSUME NEW j \in JobType, NEW s \in Statuses
  PROVE  /\ WriteStatus(j, s) \in JobType
         /\ WriteStatus(j, s).pc = j.pc /\ WriteStatus(j, s).at = j.at /\ WriteStatus(j, s).panic = j.panic
         /\ WriteStatus(j, s).panicked = j.panicked /\ WriteStatus(j, s).written
         /\ WriteStatus(j, s).status = IF j.written THEN j.status ELSE s
<1> DEFINE w == [j EXCEPT !.status = s, !.written = TRUE]
<1>1. CASE j.written
  BY <1>1 DEF WriteStatus, JobType
<1>2. CASE ~j.written
  <2>1. WriteStatus(j, s) = w
    BY <1>2 DEF WriteStatus
  <2>2. w \in JobType
    <3> HIDE DEF Statuses
    <3> QED  BY DEF JobType
  <2>3. /\ w.pc = j.pc /\ w.at = j.at /\ w.panic = j.panic
        /\ w.panicked = j.panicked /\ w.written /\ w.status = s
    BY DEF JobType
  <2> HIDE DEF w
  <2> QED  BY <1>2, <2>1, <2>2, <2>3
<1> QED  BY <1>1, <1>2

LEMMA UnhandledType == Unhandled \in JobType
  BY ChainIs DEF Unhandled, JobType

\* Every step of a request keeps its job in order and has one of three effects.
LEMMA StepEffect ==
  ASSUME IInv, NEW r \in Requests, Step(r)
  PROVE  \E k : /\ job' = [job EXCEPT ![r] = k]
                /\ JobInv(k) /\ StepAnswers(job[r], k) /\ Effect(job[r], k)
<1> DEFINE j == job[r]
           Good(k) == JobInv(k) /\ StepAnswers(j, k) /\ Effect(j, k)
<1> SUFFICES \E k : job' = [job EXCEPT ![r] = k] /\ Good(k)
  OBVIOUS
<1>1. JobInv(j) /\ j \in JobType /\ (j.pc \in {"in", "out"} => j.status # 301)
  BY DEF IInv, JobInv
<1> USE ChainIs
<1>2. CASE Arrive(r)
  <2> DEFINE k1 == [Unhandled EXCEPT !.pc = "in", !.routed = TRUE]
             k2 == [Unhandled EXCEPT !.pc = "in", !.status = 404]
             k3 == [WriteStatus(Unhandled, 301) EXCEPT !.pc = "sent"]
  <2>1. j = Unhandled
    BY <1>1, <1>2 DEF Arrive, JobInv
  <2>2. PICK k \in {k1, k2, k3} : job' = [job EXCEPT ![r] = k]
    BY <1>2 DEF Arrive
  <2>3. /\ k1 \in JobType /\ k1.pc = "in" /\ k1.panic = "no" /\ ~k1.panicked /\ k1.status # 301
        /\ k2 \in JobType /\ k2.pc = "in" /\ k2.panic = "no" /\ ~k2.panicked /\ k2.status # 301
    <3>1. Unhandled.panic = "no" /\ ~Unhandled.panicked /\ 404 \in Statuses
      BY DEF Unhandled
    <3> HIDE DEF Statuses
    <3>2. k1 \in JobType /\ k2 \in JobType
      BY <3>1, UnhandledType DEF JobType
    <3>3. /\ k1.pc = "in" /\ k1.panic = "no" /\ ~k1.panicked /\ k1.status # 301
          /\ k2.pc = "in" /\ k2.panic = "no" /\ ~k2.panicked /\ k2.status # 301
      <4> USE DEF Unhandled
      <4> QED  OBVIOUS
    <3> QED  BY <3>2, <3>3
  <2>4. k3 \in JobType /\ k3.pc = "sent" /\ k3.panic = "no" /\ k3.status = 301
    <3>1. /\ WriteStatus(Unhandled, 301) \in JobType
          /\ WriteStatus(Unhandled, 301).panic = "no" /\ WriteStatus(Unhandled, 301).status = 301
      BY UnhandledType, WriteKeeps DEF Unhandled
    <3> QED  BY <3>1 DEF JobType
  <2>5. /\ k \in JobType /\ k.panic = "no" /\ k.pc \in {"in", "sent"}
        /\ k.pc = "in" => ~k.panicked /\ k.status # 301
        /\ k.pc = "sent" => k.status = 301
    <3> HIDE DEF k1, k2, k3
    <3> QED  BY <2>2, <2>3, <2>4
  <2>6. j.pc = "none" /\ ~j.written /\ j.panic = "no"
    BY <2>1 DEF Unhandled
  <2>7. UNCHANGED <<count, duration, logged>>
    BY <1>2 DEF Arrive
  <2>8. Good(k)
    BY <2>5, <2>6, <2>7 DEF JobInv, StepAnswers, Effect, Alike, AlikeLogged, IsOut, IsLogged
  <2> QED  BY <2>2, <2>8
<1>3. CASE Enter(r)
  <2> DEFINE k == [j EXCEPT !.at = @ + 1]
  <2>1. job' = [job EXCEPT ![r] = k] /\ UNCHANGED <<count, duration, logged>>
    BY <1>3 DEF Enter, IInv
  <2>2. j.pc = "in" /\ j.at < 5 /\ j.panic = "no" /\ ~j.panicked
    BY <1>1, <1>3 DEF Enter, JobInv
  <2>3. /\ k \in JobType /\ k.pc = "in" /\ k.panic = "no" /\ k.status = j.status
        /\ ~k.panicked
    BY <1>1, <2>2 DEF JobType
  <2>4. Good(k)
    <3> HIDE DEF k
    <3> QED  BY <1>1, <2>1, <2>2, <2>3 DEF JobInv, StepAnswers, Effect, Alike, AlikeLogged, IsOut, IsLogged
  <2> QED  BY <2>1, <2>4
<1>4. CASE Handle(r)
  <2>0. j.pc = "in" /\ j.at = 5 /\ j.panic = "no" /\ ~j.panicked /\ UNCHANGED <<count, duration, logged>>
    BY <1>1, <1>4 DEF Handle, JobInv
  <2>1. CASE ~j.routed
    <3> DEFINE k == [j EXCEPT !.pc = "out"]
    <3>1. job' = [job EXCEPT ![r] = k]
      BY <2>1, <1>4 DEF Handle, IInv
    <3>2. k \in JobType /\ k.pc = "out" /\ k.panic = "no" /\ k.at = 5 /\ k.status = j.status
          /\ ~k.panicked
      BY <1>1, <2>0 DEF JobType
    <3>3. Good(k)
      <4> HIDE DEF k
      <4> QED  BY <1>1, <2>0, <3>2 DEF JobInv, StepAnswers, Effect, Alike, AlikeLogged, IsOut, IsLogged
    <3> QED  BY <3>1, <3>3
  <2>2. CASE j.routed
    <3>1. PICK s \in HandlerStatuses, panic \in {"no", "brokenPipe", "other"} :
          \E response \in {WriteStatus(j, s), j} :
             job' = [job EXCEPT ![r] = [response EXCEPT !.pc = "out", !.panic = panic,
                                                        !.panicked = panic # "no"]]
      BY <2>2, <1>4 DEF Handle
    <3>2. PICK response \in {WriteStatus(j, s), j} :
             job' = [job EXCEPT ![r] = [response EXCEPT !.pc = "out", !.panic = panic,
                                                        !.panicked = panic # "no"]]
      BY <3>1
    <3> DEFINE k == [response EXCEPT !.pc = "out", !.panic = panic, !.panicked = panic # "no"]
    <3>3. /\ response \in JobType /\ response.at = j.at
          /\ j.written => response.status = j.status
          /\ response.status # 301
      <4>1. j.status # 301 /\ s # 301 /\ s \in Statuses /\ j \in JobType
        BY <1>1, <2>0
      <4>2. /\ WriteStatus(j, s) \in JobType /\ WriteStatus(j, s).at = j.at
            /\ WriteStatus(j, s).status = IF j.written THEN j.status ELSE s
        BY <4>1, WriteKeeps
      <4>3. response = WriteStatus(j, s) \/ response = j
        BY <3>2
      <4>4. CASE response = WriteStatus(j, s)
        BY <4>1, <4>2, <4>4
      <4>5. CASE response = j
        BY <4>1, <4>5
      <4> QED  BY <4>3, <4>4, <4>5
    <3>4. /\ k.pc = "out" /\ k.panic = panic /\ k.at = response.at
          /\ k.status = response.status /\ (k.panicked <=> panic # "no")
      <4>1. response \in JobType
        BY <3>3
      <4> HIDE DEF Statuses
      <4> QED  BY <4>1 DEF JobType
    <3>5. k \in JobType
      <4> HIDE DEF Statuses
      <4> QED  BY <3>3 DEF JobType
    <3>6. Good(k)
      <4> HIDE DEF k
      <4> QED  BY <2>0, <3>3, <3>4, <3>5
               DEF JobInv, StepAnswers, Effect, Alike, AlikeLogged, IsOut, IsLogged
    <3> QED  BY <3>2, <3>6
  <2> QED  BY <2>1, <2>2
\* The steps outwards: what leaving a middleware makes of a job.
<1> DEFINE Outer(x) == [x EXCEPT !.at = @ - 1]
<1>5. ASSUME NEW x \in JobType, x.at > 0
      PROVE  /\ Outer(x) \in JobType /\ Outer(x).at = x.at - 1
             /\ Outer(x).pc = x.pc /\ Outer(x).status = x.status
             /\ Outer(x).written = x.written /\ Outer(x).panic = x.panic
             /\ Outer(x).panicked = x.panicked
  BY <1>5 DEF JobType
<1>6. CASE InstrumentRequestCount(r)
  <2>1. j.at = 1 /\ j.pc = "out" /\ j.panic = "no"
    BY <1>1, <1>6 DEF InstrumentRequestCount, Leaves, JobInv, JobType
  <2>2. /\ job' = [job EXCEPT ![r] = Outer(j)]
        /\ count' = Inc(count, j.status) /\ UNCHANGED <<duration, logged>>
    BY <2>1, <1>6 DEF InstrumentRequestCount, Outwards, IInv
  <2>3. Good(Outer(j))
    <3>1. /\ Outer(j) \in JobType /\ Outer(j).at = 0
          /\ Outer(j).pc = "out" /\ Outer(j).status = j.status
          /\ Outer(j).panic = "no" /\ Outer(j).panicked = j.panicked
      BY <1>1, <1>5, <2>1
    <3> HIDE DEF Outer
    <3> QED  BY <1>1, <2>1, <2>2, <3>1
             DEF JobInv, StepAnswers, Effect, Leaving, Alike, AlikeLogged, IsOut, IsLogged
  <2> QED  BY <2>2, <2>3
<1>7. CASE InstrumentRequestDuration(r)
  <2>1. j.at = 2 /\ j.pc = "out" /\ j.panic = "no"
    BY <1>1, <1>7 DEF InstrumentRequestDuration, Leaves, JobInv, JobType
  <2>2. /\ job' = [job EXCEPT ![r] = Outer(j)]
        /\ duration' = Inc(duration, j.status) /\ UNCHANGED <<count, logged>>
    BY <2>1, <1>7 DEF InstrumentRequestDuration, Outwards, IInv
  <2>3. Good(Outer(j))
    <3>1. /\ Outer(j) \in JobType /\ Outer(j).at = 1
          /\ Outer(j).pc = "out" /\ Outer(j).status = j.status
          /\ Outer(j).panic = "no" /\ Outer(j).panicked = j.panicked
      BY <1>1, <1>5, <2>1
    <3> HIDE DEF Outer
    <3> QED  BY <1>1, <2>1, <2>2, <3>1
             DEF JobInv, StepAnswers, Effect, Leaving, Alike, AlikeLogged, IsOut, IsLogged
  <2> QED  BY <2>2, <2>3
<1>8. CASE Recovery(r)
  <2> DEFINE recovered == IF j.panic = "other" THEN WriteStatus(j, 500) ELSE j
             calm == [recovered EXCEPT !.panic = "no"]
  <2>1. j.at = 3 /\ j.pc = "out"
    BY <1>1, <1>8 DEF Recovery, Leaves, JobType
  <2>2. job' = [job EXCEPT ![r] = Outer(calm)] /\ UNCHANGED <<count, duration, logged>>
    BY <1>8 DEF Recovery, Outwards, IInv
  <2>3. /\ recovered \in JobType /\ recovered.pc = "out" /\ recovered.at = 3
        /\ recovered.panicked = j.panicked
        /\ j.panic = "other" => recovered.written
        /\ j.panic = "other" /\ ~j.written => recovered.status = 500
        /\ j.written \/ j.panic # "other" => recovered.status = j.status
    BY <1>1, <2>1, WriteKeeps
  <2>4. /\ calm \in JobType /\ calm.at = 3 /\ calm.pc = "out" /\ calm.panic = "no"
        /\ calm.status = recovered.status /\ calm.written = recovered.written
        /\ calm.panicked = recovered.panicked
    <3> HIDE DEF recovered
    <3> QED  BY <2>3 DEF JobType
  <2>5. Good(Outer(calm))
    <3> HIDE DEF recovered, calm
    <3>1. /\ Outer(calm) \in JobType /\ Outer(calm).at = 2 /\ Outer(calm).pc = "out"
          /\ Outer(calm).panic = "no" /\ Outer(calm).panicked = calm.panicked
          /\ Outer(calm).status = calm.status /\ Outer(calm).written = calm.written
      BY <1>5, <2>4
    <3>2. j.panic # "no" => j.panicked
      BY <1>1 DEF JobInv
    <3> HIDE DEF Outer
    <3> QED  BY <1>1, <2>1, <2>2, <2>3, <2>4, <3>1, <3>2
             DEF JobInv, StepAnswers, Effect, Alike, AlikeLogged, IsOut, IsLogged
  <2> QED  BY <2>2, <2>5
<1>9. CASE LoggerMiddleware(r)
  <2>1. j.at = 4 /\ j.pc = "out"
    BY <1>1, <1>9 DEF LoggerMiddleware, Leaves, JobType
  <2>2. /\ job' = [job EXCEPT ![r] = Outer(j)] /\ UNCHANGED <<count, duration>>
        /\ logged' = IF j.panic = "no" THEN Inc(logged, j.status) ELSE logged
    BY <1>9 DEF LoggerMiddleware, Outwards, IInv
  <2>3. /\ Outer(j) \in JobType /\ Outer(j).at = 3
        /\ Outer(j).pc = "out" /\ Outer(j).status = j.status
        /\ Outer(j).panic = j.panic /\ Outer(j).panicked = j.panicked
    BY <1>1, <1>5, <2>1
  <2>4. j.panicked <=> j.panic # "no"
    BY <1>1, <2>1 DEF JobInv
  <2>5. Good(Outer(j))
    <3> HIDE DEF Outer
    <3> QED  BY <1>1, <2>1, <2>2, <2>3, <2>4
             DEF JobInv, StepAnswers, Effect, Leaving, Alike, AlikeLogged, IsOut, IsLogged
  <2> QED  BY <2>2, <2>5
<1>10. CASE ForwardedFor(r)
  <2>1. j.at = 5 /\ j.pc = "out"
    BY <1>1, <1>10 DEF ForwardedFor, Leaves, JobType
  <2>2. job' = [job EXCEPT ![r] = Outer(j)] /\ UNCHANGED <<count, duration, logged>>
    BY <1>10 DEF ForwardedFor, Outwards, IInv
  <2>3. /\ Outer(j) \in JobType /\ Outer(j).at = 4
        /\ Outer(j).pc = "out" /\ Outer(j).status = j.status
        /\ Outer(j).panic = j.panic /\ Outer(j).panicked = j.panicked
    BY <1>1, <1>5, <2>1
  <2>4. Good(Outer(j))
    <3> HIDE DEF Outer
    <3> QED  BY <1>1, <2>1, <2>2, <2>3
             DEF JobInv, StepAnswers, Effect, Alike, AlikeLogged, IsOut, IsLogged
  <2> QED  BY <2>2, <2>4
<1>11. CASE Finish(r)
  <2> DEFINE k == [WriteStatus(j, j.status) EXCEPT !.pc = "sent"]
  <2>1. j.at = 0 /\ j.pc = "out" /\ j.panic = "no"
    BY <1>1, <1>11 DEF Finish, JobInv
  <2>2. job' = [job EXCEPT ![r] = k] /\ UNCHANGED <<count, duration, logged>>
    BY <2>1, <1>11 DEF Finish, IInv
  <2>3. /\ WriteStatus(j, j.status) \in JobType /\ WriteStatus(j, j.status).at = 0
        /\ WriteStatus(j, j.status).panic = "no" /\ WriteStatus(j, j.status).status = j.status
        /\ WriteStatus(j, j.status).panicked = j.panicked
    BY <1>1, <2>1, WriteKeeps DEF JobType
  <2>4. /\ k \in JobType /\ k.pc = "sent" /\ k.at = 0 /\ k.panic = "no"
        /\ k.status = j.status /\ k.panicked = j.panicked
    BY <2>3 DEF JobType
  <2>5. Good(k)
    <3> HIDE DEF k
    <3> QED  BY <2>1, <2>2, <2>4
             DEF JobInv, StepAnswers, Effect, Alike, AlikeLogged, IsOut, IsLogged
  <2> QED  BY <2>2, <2>5
<1> QED  BY <1>2, <1>3, <1>4, <1>6, <1>7, <1>8, <1>9, <1>10, <1>11 DEF Step

\* Which requests are out of a middleware after one of them has taken a step.
LEMMA OutAfter ==
  ASSUME job \in [Requests -> JobType], NEW r \in Requests, NEW k,
         job' = [job EXCEPT ![r] = k], NEW n, NEW s
  PROVE  /\ Out(n, s)' = (Out(n, s) \ {r}) \cup IF IsOut(k, n, s) THEN {r} ELSE {}
         /\ r \in Out(n, s) <=> IsOut(job[r], n, s)
         /\ Logged(s)' = (Logged(s) \ {r}) \cup IF IsLogged(k, s) THEN {r} ELSE {}
         /\ r \in Logged(s) <=> IsLogged(job[r], s)
         /\ IsFiniteSet(Out(n, s)) /\ IsFiniteSet(Logged(s))
<1>1. \A q \in Requests : job'[q] = IF q = r THEN k ELSE job[q]
  OBVIOUS
<1>2. Out(n, s)' = {q \in Requests : IsOut(job'[q], n, s)}
  BY DEF Out, IsOut
<1>3. Out(n, s) = {q \in Requests : IsOut(job[q], n, s)}
  BY DEF Out, IsOut
<1>4. Logged(s)' = {q \in Requests : IsLogged(job'[q], s)}
  BY DEF Out, IsOut, Logged, IsLogged
<1>5. Logged(s) = {q \in Requests : IsLogged(job[q], s)}
  BY DEF Out, IsOut, Logged, IsLogged
<1>6. IsFiniteSet(Out(n, s)) /\ IsFiniteSet(Logged(s))
  BY <1>3, <1>5, RequestsAssumption, FS_Subset
<1> QED  BY <1>1, <1>2, <1>3, <1>4, <1>5, <1>6

\* A tally that follows the size of a set through a step in which r stays in the
\* set or out of it, or comes in.
LEMMA Tally ==
  ASSUME NEW S, NEW T, NEW r, NEW n, IsFiniteSet(S), n = Cardinality(S)
  PROVE  /\ T = (S \ {r}) \cup (IF r \in S THEN {r} ELSE {}) => n = Cardinality(T)
         /\ r \notin S /\ T = (S \ {r}) \cup {r} => n + 1 = Cardinality(T)
<1>1. ASSUME T = (S \ {r}) \cup (IF r \in S THEN {r} ELSE {})
      PROVE  n = Cardinality(T)
  <2>1. T = S
    BY <1>1
  <2> QED  BY <2>1
<1>2. ASSUME r \notin S, T = (S \ {r}) \cup {r}
      PROVE  n + 1 = Cardinality(T)
  <2>1. T = S \cup {r}
    BY <1>2
  <2> QED  BY <1>2, <2>1, FS_AddElement
<1> QED  BY <1>1, <1>2

LEMMA IncIs ==
  ASSUME NEW metric \in [Statuses -> Nat], NEW s \in Statuses
  PROVE  /\ Inc(metric, s) \in [Statuses -> Nat]
         /\ \A t \in Statuses : Inc(metric, s)[t] = IF t = s THEN metric[t] + 1 ELSE metric[t]
<1> HIDE DEF Statuses
<1> QED  BY DEF Inc

LEMMA InitIInv == PipelineInit => IInv
<1> SUFFICES ASSUME PipelineInit PROVE IInv
  OBVIOUS
<1>1. /\ job \in [Requests -> JobType]
      /\ \A r \in Requests : JobInv(job[r])
  BY UnhandledType DEF PipelineInit, JobInv, Unhandled
<1>2. {count, duration, logged} \subseteq [Statuses -> Nat]
  BY DEF PipelineInit
<1>3. ASSUME NEW s \in Statuses
      PROVE  /\ count[s] = 0 /\ duration[s] = 0 /\ logged[s] = 0
             /\ Out(1, s) = {} /\ Out(2, s) = {} /\ Logged(s) = {}
  <2>1. \A r \in Requests : job[r].pc = "none"
    BY DEF PipelineInit, Unhandled
  <2> QED  BY <2>1 DEF PipelineInit, Out, Logged
<1>4. CountedAsSent
  BY <1>3, FS_EmptySet DEF CountedAsSent
<1>5. LoggedExactly
  <2> SUFFICES ASSUME NEW s \in Statuses \ {301} PROVE logged[s] = Cardinality(Logged(s))
    BY DEF LoggedExactly
  <2> QED  BY <1>3, FS_EmptySet
<1> QED  BY <1>1, <1>2, <1>3, <1>4, <1>5 DEF IInv, NoRedirectCounted

LEMMA StepIInv == ASSUME IInv, NEW r \in Requests, Step(r) PROVE IInv'
<1>1. PICK k : /\ job' = [job EXCEPT ![r] = k]
               /\ JobInv(k) /\ StepAnswers(job[r], k) /\ Effect(job[r], k)
  BY StepEffect
<1> DEFINE j == job[r]
<1> HIDE DEF Statuses
<1>2. /\ job \in [Requests -> JobType] /\ j \in JobType /\ j.status \in Statuses
      /\ count \in [Statuses -> Nat] /\ duration \in [Statuses -> Nat]
      /\ logged \in [Statuses -> Nat]
  <2>1. /\ job \in [Requests -> JobType]
        /\ count \in [Statuses -> Nat] /\ duration \in [Statuses -> Nat]
        /\ logged \in [Statuses -> Nat]
    BY DEF IInv
  <2>2. j \in JobType
    BY <2>1
  <2> QED  BY <2>1, <2>2 DEF JobType
<1>3. /\ job' \in [Requests -> JobType]
      /\ \A q \in Requests : JobInv(job'[q])
  BY <1>1, <1>2 DEF IInv, JobInv
<1>4. {count, duration, logged}' \subseteq [Statuses -> Nat]
  BY <1>1, <1>2, IncIs DEF Effect
<1>5. ASSUME NEW s \in Statuses \ {301}
      PROVE  /\ count'[s] = Cardinality(Out(1, s)')
             /\ duration'[s] = Cardinality(Out(2, s)')
             /\ logged'[s] = Cardinality(Logged(s)')
  <2>1. /\ count[s] = Cardinality(Out(1, s)) /\ duration[s] = Cardinality(Out(2, s))
        /\ logged[s] = Cardinality(Logged(s))
    BY DEF IInv, CountedAsSent, LoggedExactly
  <2>2. count'[s] = Cardinality(Out(1, s)')
    <3>1. /\ Out(1, s)' = (Out(1, s) \ {r}) \cup IF IsOut(k, 1, s) THEN {r} ELSE {}
          /\ r \in Out(1, s) <=> IsOut(j, 1, s)
          /\ IsFiniteSet(Out(1, s))
      BY <1>1, <1>2, OutAfter
    <3>2. CASE count' = count /\ (IsOut(k, 1, s) <=> IsOut(j, 1, s))
      BY <2>1, <3>1, <3>2, Tally
    <3>3. CASE count' = Inc(count, j.status) /\ Leaving(j, k, 1)
      <4>1. ~IsOut(j, 1, s) /\ (IsOut(k, 1, s) <=> s = j.status)
        BY <3>3 DEF Leaving, IsOut
      <4>2. count'[s] = IF s = j.status THEN count[s] + 1 ELSE count[s]
        BY <1>2, <3>3, IncIs
      <4> QED  BY <2>1, <3>1, <4>1, <4>2, Tally
    <3> QED  BY <1>1, <3>2, <3>3 DEF Effect, Alike
  <2>3. duration'[s] = Cardinality(Out(2, s)')
    <3>1. /\ Out(2, s)' = (Out(2, s) \ {r}) \cup IF IsOut(k, 2, s) THEN {r} ELSE {}
          /\ r \in Out(2, s) <=> IsOut(j, 2, s)
          /\ IsFiniteSet(Out(2, s))
      BY <1>1, <1>2, OutAfter
    <3>2. CASE duration' = duration /\ (IsOut(k, 2, s) <=> IsOut(j, 2, s))
      BY <2>1, <3>1, <3>2, Tally
    <3>3. CASE duration' = Inc(duration, j.status) /\ Leaving(j, k, 2)
      <4>1. ~IsOut(j, 2, s) /\ (IsOut(k, 2, s) <=> s = j.status)
        BY <3>3 DEF Leaving, IsOut
      <4>2. duration'[s] = IF s = j.status THEN duration[s] + 1 ELSE duration[s]
        BY <1>2, <3>3, IncIs
      <4> QED  BY <2>1, <3>1, <4>1, <4>2, Tally
    <3> QED  BY <1>1, <3>2, <3>3 DEF Effect, Alike
  <2>4. logged'[s] = Cardinality(Logged(s)')
    <3>1. /\ Logged(s)' = (Logged(s) \ {r}) \cup IF IsLogged(k, s) THEN {r} ELSE {}
          /\ r \in Logged(s) <=> IsLogged(j, s)
          /\ IsFiniteSet(Logged(s))
      BY <1>1, <1>2, OutAfter
    <3>2. CASE logged' = logged /\ (IsLogged(k, s) <=> IsLogged(j, s))
      BY <2>1, <3>1, <3>2, Tally
    <3>3. CASE logged' = Inc(logged, j.status) /\ Leaving(j, k, 4) /\ ~j.panicked /\ ~k.panicked
      <4>1. ~IsLogged(j, s) /\ (IsLogged(k, s) <=> s = j.status)
        BY <3>3 DEF Leaving, IsOut, IsLogged
      <4>2. logged'[s] = IF s = j.status THEN logged[s] + 1 ELSE logged[s]
        BY <1>2, <3>3, IncIs
      <4> QED  BY <2>1, <3>1, <4>1, <4>2, Tally
    <3> QED  BY <1>1, <3>2, <3>3 DEF Effect, AlikeLogged
  <2> QED  BY <2>2, <2>3, <2>4
<1>6. CountedAsSent'
  BY <1>5 DEF CountedAsSent
<1>7. LoggedExactly'
  BY <1>5 DEF LoggedExactly
<1>8. NoRedirectCounted'
  <2>1. j.pc = "out" => j.status # 301
    BY DEF IInv, JobInv
  <2>2. 301 \in Statuses
    BY DEF Statuses
  <2>3. /\ count' = count \/ (count' = Inc(count, j.status) /\ j.pc = "out")
        /\ duration' = duration \/ (duration' = Inc(duration, j.status) /\ j.pc = "out")
        /\ logged' = logged \/ (logged' = Inc(logged, j.status) /\ j.pc = "out")
    BY <1>1 DEF Effect, Leaving
  <2> QED  BY <1>2, <2>1, <2>2, <2>3, IncIs DEF IInv, NoRedirectCounted
<1> QED  BY <1>3, <1>4, <1>6, <1>7, <1>8 DEF IInv

LEMMA NextIInv == IInv /\ [PipelineNext]_pipelineVars => IInv'
<1> SUFFICES ASSUME IInv, [PipelineNext]_pipelineVars PROVE IInv'
  OBVIOUS
<1>1. CASE UNCHANGED pipelineVars
  <2> HIDE DEF Statuses
  <2>1. job' = job /\ count' = count /\ duration' = duration /\ logged' = logged
    BY <1>1 DEF pipelineVars
  <2>2. ASSUME NEW s \in Statuses
        PROVE  /\ Out(1, s)' = Out(1, s) /\ Out(2, s)' = Out(2, s)
               /\ Logged(s)' = Logged(s)
    BY <2>1 DEF Out, Logged
  <2>3. CountedAsSent'
    BY <2>1, <2>2 DEF IInv, CountedAsSent
  <2>4. LoggedExactly'
    BY <2>1, <2>2 DEF IInv, LoggedExactly
  <2> QED  BY <2>1, <2>3, <2>4 DEF IInv, NoRedirectCounted
<1>2. CASE PipelineNext
  BY <1>2, StepIInv DEF PipelineNext
<1> QED  BY <1>1, <1>2

LEMMA Inductive == PipelineSpec => []IInv
  BY InitIInv, NextIInv, PTL DEF PipelineSpec

\* No metric counts more than the requests there are.
LEMMA Bounded ==
  ASSUME IInv, NEW metric \in {count, duration, logged}, NEW s \in Statuses
  PROVE  metric[s] \in 0..Cardinality(Requests)
<1>1. Cardinality(Requests) \in Nat
  BY RequestsAssumption, FS_CardinalityType
<1>2. ASSUME NEW S \in SUBSET Requests
      PROVE  Cardinality(S) \in 0..Cardinality(Requests)
  <2>1. IsFiniteSet(S) /\ Cardinality(S) <= Cardinality(Requests)
    BY RequestsAssumption, FS_Subset
  <2> QED  BY <1>1, <2>1, FS_CardinalityType
<1>3. Out(1, s) \subseteq Requests /\ Out(2, s) \subseteq Requests /\ Logged(s) \subseteq Requests
  BY DEF Out, Logged
<1> HIDE DEF Statuses
<1>4. CASE s = 301
  BY <1>1, <1>4 DEF IInv, NoRedirectCounted
<1>5. CASE s # 301
  <2>1. /\ count[s] = Cardinality(Out(1, s)) /\ duration[s] = Cardinality(Out(2, s))
        /\ logged[s] = Cardinality(Logged(s))
    BY <1>5 DEF IInv, CountedAsSent, LoggedExactly
  <2>2. /\ Cardinality(Out(1, s)) \in 0..Cardinality(Requests)
        /\ Cardinality(Out(2, s)) \in 0..Cardinality(Requests)
        /\ Cardinality(Logged(s)) \in 0..Cardinality(Requests)
    BY <1>2, <1>3
  <2> QED  BY <2>1, <2>2
<1> QED  BY <1>4, <1>5

\* Every job stays one of JobType, and no metric counts a request twice
\* (metrics.go:31-37, 54-62).
THEOREM TypeCorrect == PipelineSpec => []TypeOK
<1>1. IInv => TypeOK
  <2> SUFFICES ASSUME IInv PROVE TypeOK
    OBVIOUS
  <2> HIDE DEF Statuses
  <2>1. \A metric \in {count, duration, logged} :
           metric \in [Statuses -> Nat] /\ \A s \in Statuses : metric[s] \in 0..Cardinality(Requests)
    BY Bounded DEF IInv
  <2> QED  BY <2>1 DEF IInv, TypeOK
<1> QED  BY <1>1, Inductive, PTL

\* Every request that enters the chain is counted and timed once, under the
\* status its client gets, whatever handlers do (metrics.go:31-37, 54-62).
THEOREM RequestsCounted == PipelineSpec => []CountedAsSent
<1>1. IInv => CountedAsSent
  BY DEF IInv
<1> QED  BY <1>1, Inductive, PTL

\* Every request whose handler returned has its line, and there are no others
\* than those of requests that were answered so (logger.go:16-54).
THEOREM RequestsLogged == PipelineSpec => []LoggedAsSent
<1>1. IInv => LoggedAsSent
  <2> SUFFICES ASSUME IInv, NEW s \in Statuses \ {301}
               PROVE  /\ Cardinality(Logged(s)) <= logged[s]
                      /\ logged[s] <= Cardinality(Out(4, s))
    BY DEF LoggedAsSent, Logged
  <2> HIDE DEF Statuses
  <2>1. logged[s] = Cardinality(Logged(s))
    BY DEF IInv, LoggedExactly
  <2>2. Logged(s) \subseteq Out(4, s) /\ Out(4, s) \subseteq Requests
    BY DEF Logged, Out
  <2>3. IsFiniteSet(Out(4, s)) /\ IsFiniteSet(Logged(s))
    BY <2>2, RequestsAssumption, FS_Subset
  <2>4. Cardinality(Logged(s)) <= Cardinality(Out(4, s)) /\ Cardinality(Logged(s)) \in Nat
    BY <2>2, <2>3, FS_Subset, FS_CardinalityType
  <2> QED  BY <2>1, <2>4
<1> QED  BY <1>1, Inductive, PTL

\* No panic reaches the server, and what a handler wrote before it stays
\* (root.go:127).
THEOREM PanicsRecovered == PipelineSpec => PanicAnswered
<1> DEFINE Step1 == \A r \in Requests :
          /\ job'[r].pc # "cut"
          /\ job[r].panic = "other" /\ job'[r].panic = "no" /\ ~job[r].written =>
                job'[r].status = 500 /\ job'[r].written
          /\ job[r].written => job'[r].status = job[r].status
<1>1. IInv /\ PipelineNext => Step1
  <2> SUFFICES ASSUME IInv, NEW r \in Requests, Step(r), NEW q \in Requests
               PROVE  StepAnswers(job[q], job'[q])
    BY DEF PipelineNext, StepAnswers
  <2>1. PICK k : /\ job' = [job EXCEPT ![r] = k]
                 /\ JobInv(k) /\ StepAnswers(job[r], k) /\ Effect(job[r], k)
    BY StepEffect
  <2>2. job \in [Requests -> JobType]
    BY DEF IInv
  <2>3. CASE q = r
    BY <2>1, <2>2, <2>3
  <2>4. CASE q # r
    BY <2>1, <2>2, <2>4 DEF StepAnswers, IInv, JobInv
  <2> QED  BY <2>3, <2>4
<1>2. IInv /\ [PipelineNext]_pipelineVars => [Step1]_pipelineVars
  BY <1>1
<1> QED  BY <1>2, Inductive, PTL DEF PipelineSpec, PanicAnswered
=============================================================================
