----------------------- MODULE SimulationControlProofs ----------------------
(***************************************************************************)
(* Proofs about SimulationControl, for any number of processes, gestures    *)
(* and faults: telemetryPollInFlight is true exactly while one frame is in  *)
(* transit; the status the extension shows is what its Core does once       *)
(* everything is answered; the screen of a stopped simulation stays blank.  *)
(***************************************************************************)
EXTENDS SimulationControl, SequenceTheorems, TLAPS

\* Requests and statuses.
Kinds == {"start", "pause", "frame", "poll", "jobStop", "jobWork", "jobRun"}
Statuses == {"stopped", "running", "paused"}
CallType ==
    [p : 0..MaxProcs, k : Kinds, awaited : BOOLEAN, rev : Nat, before : Statuses,
     gen : Int, res : {"sent", "ok", "refused", "err"}]

\* What the requests are made of.
Types ==
    /\ client \in 0..MaxProcs /\ launched \in 1..MaxProcs
    /\ status \in Statuses /\ rev \in Nat
    /\ gen \in Nat /\ timer \in Nat
    /\ inFlight \in BOOLEAN
    /\ calls \in Seq(CallType)

\* The frames among requests that somebody waits for, and the flag that says so.
Frames(cs) == {i \in DOMAIN cs : cs[i].k = "frame" /\ cs[i].awaited}
Tells(flag, cs) ==
    /\ flag <=> Frames(cs) # {}
    /\ \A i, j \in Frames(cs) : i = j

\* The inductive invariant.
IInv == Types /\ Tells(inFlight, calls)

-----------------------------------------------------------------------------
\* What RemoveAt leaves where.
LEMMA RemoveAtProperties ==
  ASSUME NEW S, NEW s \in Seq(S), NEW i \in 1..Len(s)
  PROVE  /\ RemoveAt(s, i) \in Seq(S)
         /\ Len(RemoveAt(s, i)) = Len(s) - 1
         /\ \A j \in 1..(Len(s) - 1) :
               RemoveAt(s, i)[j] = IF j < i THEN s[j] ELSE s[j + 1]
<1> DEFINE a == SubSeq(s, 1, i - 1)
           b == SubSeq(s, i + 1, Len(s))
<1>0. Len(s) \in Nat
  BY LenProperties
<1>1. a \in Seq(S) /\ Len(a) = i - 1 /\ \A j \in 1..(i - 1) : a[j] = s[j]
  BY <1>0, SubSeqProperties
<1>2. b \in Seq(S) /\ Len(b) = Len(s) - i /\ \A j \in 1..(Len(s) - i) : b[j] = s[i + j]
  <2>1. CASE i < Len(s)
    BY <1>0, <2>1, SubSeqProperties
  <2>2. CASE i = Len(s)
    BY <1>0, <2>2, SubSeqEmpty, EmptySeq
  <2> QED BY <2>1, <2>2, <1>0
<1> HIDE DEF a, b
<1>3. /\ a \o b \in Seq(S)
      /\ Len(a \o b) = Len(s) - 1
      /\ \A j \in 1..(Len(s) - 1) :
            (a \o b)[j] = IF j <= i - 1 THEN a[j] ELSE b[j - (i - 1)]
  <2>1. a \o b \in Seq(S) /\ Len(a \o b) = Len(a) + Len(b)
        /\ \A j \in 1..(Len(a) + Len(b)) : (a \o b)[j] = IF j <= Len(a) THEN a[j] ELSE b[j - Len(a)]
    BY <1>1, <1>2, ConcatProperties
  <2>2. Len(a) + Len(b) = Len(s) - 1
    BY <1>0, <1>1, <1>2
  <2> QED BY <2>1, <2>2, <1>1
<1>4. RemoveAt(s, i) = a \o b
  BY DEF RemoveAt, a, b
<1>5. ASSUME NEW j \in 1..(Len(s) - 1)
      PROVE  (a \o b)[j] = IF j < i THEN s[j] ELSE s[j + 1]
  <2>1. CASE j < i
    <3>1. j <= i - 1 /\ j \in 1..(i - 1)
      BY <1>0, <2>1
    <3> QED BY <3>1, <2>1, <1>1, <1>3
  <2>2. CASE ~(j < i)
    <3>1. ~(j <= i - 1) /\ j - (i - 1) \in 1..(Len(s) - i) /\ i + (j - (i - 1)) = j + 1
      BY <1>0, <2>2
    <3> QED BY <3>1, <2>2, <1>2, <1>3
  <2> QED BY <2>1, <2>2
<1> QED BY <1>3, <1>4, <1>5

\* A request that is no frame leaves the flag right.
LEMMA AppendOther ==
  ASSUME NEW cs \in Seq(CallType), NEW r \in CallType, NEW flag \in BOOLEAN,
         r.k # "frame", Tells(flag, cs)
  PROVE  Append(cs, r) \in Seq(CallType) /\ Tells(flag, Append(cs, r))
<1>1. Append(cs, r) \in Seq(CallType) /\ Len(Append(cs, r)) = Len(cs) + 1
      /\ Append(cs, r)[Len(cs) + 1] = r /\ \A i \in 1..Len(cs) : Append(cs, r)[i] = cs[i]
  BY AppendProperties
<1>2. DOMAIN cs = 1..Len(cs) /\ DOMAIN Append(cs, r) = 1..(Len(cs) + 1) /\ Len(cs) \in Nat
  BY <1>1, LenProperties
<1>3. Frames(Append(cs, r)) = Frames(cs)
  BY <1>1, <1>2 DEF Frames
<1> QED BY <1>1, <1>3 DEF Tells

\* A frame is asked for while none is in transit.
LEMMA AppendFrame ==
  ASSUME NEW cs \in Seq(CallType), NEW r \in CallType,
         r.k = "frame", r.awaited, Tells(FALSE, cs)
  PROVE  Append(cs, r) \in Seq(CallType) /\ Tells(TRUE, Append(cs, r))
<1>1. Append(cs, r) \in Seq(CallType) /\ Len(Append(cs, r)) = Len(cs) + 1
      /\ Append(cs, r)[Len(cs) + 1] = r /\ \A i \in 1..Len(cs) : Append(cs, r)[i] = cs[i]
  BY AppendProperties
<1>2. DOMAIN cs = 1..Len(cs) /\ DOMAIN Append(cs, r) = 1..(Len(cs) + 1) /\ Len(cs) \in Nat
  BY <1>1, LenProperties
<1>3. Frames(cs) = {}
  BY DEF Tells
<1>4. Frames(Append(cs, r)) = {Len(cs) + 1}
  BY <1>1, <1>2, <1>3 DEF Frames
<1> QED BY <1>1, <1>4 DEF Tells

\* A request that is no awaited frame is taken away.
LEMMA RemoveOther ==
  ASSUME NEW cs \in Seq(CallType), NEW i \in DOMAIN cs, NEW flag \in BOOLEAN,
         i \notin Frames(cs), Tells(flag, cs)
  PROVE  RemoveAt(cs, i) \in Seq(CallType) /\ Tells(flag, RemoveAt(cs, i))
<1> DEFINE rest == RemoveAt(cs, i)
<1>0. Len(cs) \in Nat /\ DOMAIN cs = 1..Len(cs) /\ i \in 1..Len(cs)
  BY LenProperties
<1>1. /\ rest \in Seq(CallType) /\ Len(rest) = Len(cs) - 1
      /\ \A j \in 1..(Len(cs) - 1) : rest[j] = IF j < i THEN cs[j] ELSE cs[j + 1]
  BY <1>0, RemoveAtProperties
<1>2. DOMAIN rest = 1..(Len(cs) - 1)
  BY <1>1, LenProperties
<1> HIDE DEF rest
<1>3. ASSUME NEW j \in Frames(rest)
      PROVE  j \in Int /\ (IF j < i THEN j ELSE j + 1) \in Frames(cs)
  BY <1>0, <1>1, <1>2 DEF Frames
<1>4. ASSUME NEW j \in Frames(cs)
      PROVE  (IF j < i THEN j ELSE j - 1) \in Frames(rest)
  <2>1. j \in 1..Len(cs) /\ j # i
    BY <1>0 DEF Frames
  <2>2. CASE j < i
    <3>1. j \in 1..(Len(cs) - 1) /\ rest[j] = cs[j]
      BY <1>0, <1>1, <2>1, <2>2
    <3> QED BY <3>1, <1>2, <2>2 DEF Frames
  <2>3. CASE j > i
    <3>1. j - 1 \in 1..(Len(cs) - 1) /\ ~(j - 1 < i) /\ (j - 1) + 1 = j /\ ~(j < i)
      BY <1>0, <2>1, <2>3
    <3>2. rest[j - 1] = cs[j]
      BY <1>1, <3>1
    <3> QED BY <3>1, <3>2, <1>2 DEF Frames
  <2> QED BY <1>0, <2>1, <2>2, <2>3
<1>5. flag <=> Frames(rest) # {}
  BY <1>3, <1>4 DEF Tells
<1>6. ASSUME NEW j1 \in Frames(rest), NEW j2 \in Frames(rest)
      PROVE  j1 = j2
  <2>1. (IF j1 < i THEN j1 ELSE j1 + 1) = (IF j2 < i THEN j2 ELSE j2 + 1)
    BY <1>3 DEF Tells
  <2> QED BY <2>1, <1>3, <1>0
<1> QED BY <1>1, <1>5, <1>6 DEF Tells, rest

\* The frame in transit is taken away.
LEMMA RemoveFrame ==
  ASSUME NEW cs \in Seq(CallType), NEW i \in DOMAIN cs, NEW flag \in BOOLEAN,
         i \in Frames(cs), Tells(flag, cs)
  PROVE  RemoveAt(cs, i) \in Seq(CallType) /\ Tells(FALSE, RemoveAt(cs, i))
<1> DEFINE rest == RemoveAt(cs, i)
<1>0. Len(cs) \in Nat /\ DOMAIN cs = 1..Len(cs) /\ i \in 1..Len(cs)
  BY LenProperties
<1>1. /\ rest \in Seq(CallType) /\ Len(rest) = Len(cs) - 1
      /\ \A j \in 1..(Len(cs) - 1) : rest[j] = IF j < i THEN cs[j] ELSE cs[j + 1]
  BY <1>0, RemoveAtProperties
<1>2. DOMAIN rest = 1..(Len(cs) - 1)
  BY <1>1, LenProperties
<1> HIDE DEF rest
<1>3. ASSUME NEW j \in Frames(rest)
      PROVE  FALSE
  <2>1. j \in 1..(Len(cs) - 1) /\ (IF j < i THEN j ELSE j + 1) \in Frames(cs)
    BY <1>0, <1>1, <1>2 DEF Frames
  <2>2. (IF j < i THEN j ELSE j + 1) = i
    BY <2>1 DEF Tells
  <2> QED BY <1>0, <2>1, <2>2
<1> QED BY <1>1, <1>3 DEF Tells, rest

\* A request nobody waits for any longer stays in its place.
LEMMA Forget ==
  ASSUME NEW cs \in Seq(CallType), NEW i \in DOMAIN cs, NEW flag \in BOOLEAN,
         Tells(flag, cs)
  PROVE  LET left == [cs EXCEPT ![i].awaited = FALSE]
         IN /\ left \in Seq(CallType)
            /\ cs[i].k = "frame" /\ cs[i].awaited => Tells(FALSE, left)
            /\ cs[i].k # "frame" => Tells(flag, left)
<1> DEFINE left == [cs EXCEPT ![i].awaited = FALSE]
<1>0. Len(cs) \in Nat /\ DOMAIN cs = 1..Len(cs) /\ cs[i] \in CallType
      /\ \A j \in 1..Len(cs) : cs[j] \in CallType
  BY LenProperties, ElementOfSeq
<1>1. [cs[i] EXCEPT !.awaited = FALSE] \in CallType
  BY <1>0 DEF CallType
<1>2. left \in Seq(CallType) /\ DOMAIN left = DOMAIN cs
  BY <1>0, <1>1, ExceptSeq
<1>3. /\ left[i].k = cs[i].k /\ left[i].awaited = FALSE
      /\ \A j \in DOMAIN cs : j # i => left[j] = cs[j]
  BY <1>0 DEF CallType
<1>4. Frames(left) = Frames(cs) \ {i}
  BY <1>2, <1>3 DEF Frames
<1>5. ASSUME cs[i].k = "frame", cs[i].awaited
      PROVE  Frames(left) = {}
  BY <1>4, <1>5 DEF Tells, Frames
<1>6. ASSUME cs[i].k # "frame"
      PROVE  Frames(left) = Frames(cs)
  BY <1>4, <1>6 DEF Frames
<1> QED BY <1>2, <1>5, <1>6 DEF Tells

\* Answers and rejections change neither what a request is nor whether it is awaited.
LEMMA Answered ==
  ASSUME NEW cs \in Seq(CallType), NEW cs2 \in Seq(CallType), NEW flag \in BOOLEAN,
         Tells(flag, cs), DOMAIN cs2 = DOMAIN cs,
         \A i \in DOMAIN cs : cs2[i].k = cs[i].k /\ cs2[i].awaited = cs[i].awaited
  PROVE  Tells(flag, cs2)
<1>1. Frames(cs2) = Frames(cs)
  BY DEF Frames
<1> QED BY <1>1 DEF Tells

-----------------------------------------------------------------------------
\* A new request is well formed.
LEMMA CallIsACall ==
  ASSUME Types, NEW k \in Kinds
  PROVE  Call(k) \in CallType /\ Call(k).k = k /\ Call(k).awaited
BY BoundsAssumption DEF Types, Call, CallType

\* Asking for anything but a frame.
LEMMA RequestOther ==
  ASSUME Types, NEW cs \in Seq(CallType), NEW flag \in BOOLEAN, NEW k \in Kinds,
         k # "frame", Tells(flag, cs)
  PROVE  request(cs, k) \in Seq(CallType) /\ Tells(flag, request(cs, k))
BY CallIsACall, AppendOther DEF request

\* What a continuation may do to requests, flag and the state of the poll.
LEMMA ContinueEffect ==
  ASSUME Types, NEW c \in CallType, NEW ok \in BOOLEAN, NEW rest \in Seq(CallType),
         Continue(c, ok, rest)
  PROVE  /\ calls' = rest \/ \E k \in Kinds \ {"frame"} : calls' = request(rest, k)
         /\ c.k = "frame" => calls' = rest /\ inFlight' = FALSE
         /\ c.k # "frame" => inFlight' = inFlight
         /\ status' \in Statuses /\ rev' \in Nat /\ gen' \in Nat /\ timer' \in Nat
<1> USE DEF Types, Statuses, Kinds
<1>1. CASE c.k = "start" /\ AfterStart(c, ok, rest)
  <2>1. CASE rev # c.rev
    BY <1>1, <2>1 DEF AfterStart
  <2>2. CASE rev = c.rev /\ ok
    BY <1>1, <2>2 DEF AfterStart, startVoltageReadoutPolling, setSimulationStatus,
       pollInstrumentReadouts
  <2>3. CASE rev = c.rev /\ ~ok
    <3>1. c.before \in Statuses
      BY DEF CallType
    <3> QED BY <1>1, <2>3, <3>1 DEF AfterStart, stopVoltageReadoutPolling, setSimulationStatus
  <2> QED BY <2>1, <2>2, <2>3
<1>2. CASE c.k = "pause" /\ AfterPause(ok, rest)
  BY <1>2 DEF AfterPause, stopVoltageReadoutPolling, setSimulationStatus, ctrlVars
<1>3. CASE c.k = "frame" /\ AfterFrame(c, ok, rest)
  BY <1>3 DEF AfterFrame
<1>4. CASE c.k = "poll" /\ AfterPoll(ok, rest)
  BY <1>4 DEF AfterPoll
<1>5. CASE c.k = "jobStop" /\ AfterStop(ok, rest) /\ UNCHANGED pollVars
  BY <1>5 DEF AfterStop, setSimulationStatus, pollVars
<1>6. CASE c.k = "jobWork" /\ AfterWork(ok, rest) /\ UNCHANGED pollVars
  BY <1>6 DEF AfterWork, setSimulationStatus, pollVars
<1>7. CASE c.k = "jobRun" /\ AfterRun(ok, rest)
  BY <1>7 DEF AfterRun, startVoltageReadoutPolling, setSimulationStatus, pollInstrumentReadouts
<1> QED BY <1>1, <1>2, <1>3, <1>4, <1>5, <1>6, <1>7 DEF Continue

\* A continuation leaves the flag right if it was right about what the request left.
LEMMA ContinueTells ==
  ASSUME Types, NEW c \in CallType, NEW ok \in BOOLEAN, NEW rest \in Seq(CallType),
         Continue(c, ok, rest),
         c.k = "frame" => Tells(FALSE, rest),
         c.k # "frame" => Tells(inFlight, rest),
         client' \in 0..MaxProcs, launched' \in 1..MaxProcs
  PROVE  IInv'
<1>1. /\ calls' = rest \/ \E k \in Kinds \ {"frame"} : calls' = request(rest, k)
      /\ c.k = "frame" => calls' = rest /\ inFlight' = FALSE
      /\ c.k # "frame" => inFlight' = inFlight
      /\ status' \in Statuses /\ rev' \in Nat /\ gen' \in Nat /\ timer' \in Nat
  BY ContinueEffect
<1>2. inFlight \in BOOLEAN
  BY DEF Types
<1>3. CASE c.k = "frame"
  BY <1>1, <1>3 DEF IInv, Types, Tells, Frames
<1>4. CASE c.k # "frame" /\ calls' = rest
  BY <1>1, <1>2, <1>4 DEF IInv, Types, Tells, Frames
<1>5. CASE c.k # "frame" /\ \E k \in Kinds \ {"frame"} : calls' = request(rest, k)
  <2>1. calls' \in Seq(CallType) /\ Tells(inFlight, calls')
    BY <1>2, <1>5, RequestOther
  <2> QED BY <1>1, <1>2, <1>5, <2>1 DEF IInv, Types, Tells, Frames
<1> QED BY <1>1, <1>3, <1>4, <1>5

-----------------------------------------------------------------------------
\* The continuation of an answer or a rejection, or the end of a forgotten request.
LEMMA DeliverKeeps ==
  ASSUME IInv, Deliver
  PROVE  IInv'
<1>1. PICK i \in DOMAIN calls :
        /\ IF calls[i].awaited THEN Continue(calls[i], calls[i].res = "ok", RemoveAt(calls, i))
           ELSE calls' = RemoveAt(calls, i) /\ UNCHANGED <<status, rev, ctrlVars, pollVars>>
        /\ UNCHANGED connVars
  BY DEF Deliver
<1>2. Types /\ Tells(inFlight, calls) /\ calls \in Seq(CallType) /\ inFlight \in BOOLEAN
      /\ calls[i] \in CallType
  <2>1. DOMAIN calls = 1..Len(calls)
    BY LenProperties DEF IInv, Types
  <2> QED BY <2>1, ElementOfSeq DEF IInv, Types
<1>3. client' \in 0..MaxProcs /\ launched' \in 1..MaxProcs
  BY <1>1, <1>2 DEF Types, connVars
<1>4. CASE calls[i].awaited /\ calls[i].k = "frame"
  <2>1. RemoveAt(calls, i) \in Seq(CallType) /\ Tells(FALSE, RemoveAt(calls, i))
    BY <1>2, <1>4, RemoveFrame DEF Frames
  <2> QED BY <1>1, <1>2, <1>3, <1>4, <2>1, ContinueTells
<1>5. CASE calls[i].awaited /\ calls[i].k # "frame"
  <2>1. RemoveAt(calls, i) \in Seq(CallType) /\ Tells(inFlight, RemoveAt(calls, i))
    BY <1>2, <1>5, RemoveOther DEF Frames
  <2> QED BY <1>1, <1>2, <1>3, <1>5, <2>1, ContinueTells
<1>6. CASE ~calls[i].awaited
  <2>1. RemoveAt(calls, i) \in Seq(CallType) /\ Tells(inFlight, RemoveAt(calls, i))
    BY <1>2, <1>6, RemoveOther DEF Frames
  <2>2. calls' = RemoveAt(calls, i) /\ UNCHANGED <<status, rev, gen, timer, inFlight>>
    BY <1>1, <1>6 DEF pollVars
  <2> QED BY <1>2, <1>3, <2>1, <2>2 DEF IInv, Types, Tells, Frames
<1> QED BY <1>4, <1>5, <1>6

\* A request that times out is continued with a failure and its answer dropped later.
LEMMA TimeOutKeeps ==
  ASSUME IInv, TimeOut
  PROVE  IInv'
<1>1. PICK i \in DOMAIN calls :
        /\ calls[i].awaited
        /\ Continue(calls[i], FALSE, [calls EXCEPT ![i].awaited = FALSE])
        /\ UNCHANGED connVars
  BY DEF TimeOut
<1>2. Types /\ Tells(inFlight, calls) /\ calls \in Seq(CallType) /\ inFlight \in BOOLEAN
      /\ calls[i] \in CallType
  <2>1. DOMAIN calls = 1..Len(calls)
    BY LenProperties DEF IInv, Types
  <2> QED BY <2>1, ElementOfSeq DEF IInv, Types
<1>3. client' \in 0..MaxProcs /\ launched' \in 1..MaxProcs
  BY <1>1, <1>2 DEF Types, connVars
<1> DEFINE left == [calls EXCEPT ![i].awaited = FALSE]
<1>4. /\ left \in Seq(CallType)
      /\ calls[i].k = "frame" => Tells(FALSE, left)
      /\ calls[i].k # "frame" => Tells(inFlight, left)
  BY <1>1, <1>2, Forget
<1>5. Continue(calls[i], FALSE, left)
  BY <1>1
<1> HIDE DEF left
<1> QED BY <1>2, <1>3, <1>4, <1>5, ContinueTells

\* A polling that cannot be started takes the answer, which is of no frame, away.
LEMMA PollingKeeps ==
  ASSUME IInv, PollingThrows
  PROVE  IInv'
<1>1. PICK i \in DOMAIN calls :
        /\ calls[i].k \in {"start", "jobRun"}
        /\ calls' = RemoveAt(calls, i)
        /\ \/ status' = calls[i].before /\ rev' = rev + 1 /\ gen' = gen + 2
           \/ UNCHANGED <<status, rev>> /\ gen' = gen + 1
  BY DEF PollingThrows, setSimulationStatus
<1>2. Types /\ Tells(inFlight, calls) /\ calls \in Seq(CallType) /\ inFlight \in BOOLEAN
      /\ calls[i] \in CallType
  <2>1. DOMAIN calls = 1..Len(calls)
    BY LenProperties DEF IInv, Types
  <2> QED BY <2>1, ElementOfSeq DEF IInv, Types
<1>3. RemoveAt(calls, i) \in Seq(CallType) /\ Tells(inFlight, RemoveAt(calls, i))
  BY <1>1, <1>2, RemoveOther DEF Frames
<1>4. UNCHANGED <<client, launched, timer, inFlight>>
  BY DEF PollingThrows, connVars
<1>5. status' \in Statuses /\ rev' \in Nat /\ gen' \in Nat
  <2>1. calls[i].before \in Statuses /\ status \in Statuses /\ rev \in Nat /\ gen \in Nat
    BY <1>2 DEF CallType, Types
  <2> QED BY <1>1, <2>1
<1> QED BY <1>1, <1>2, <1>3, <1>4, <1>5 DEF IInv, Types, Tells, Frames

\* The Core answers or refuses, or its socket closes: requests stay what they are.
LEMMA AnswersStay ==
  ASSUME Types, Execute \/ SocketClosed
  PROVE  /\ calls' \in Seq(CallType) /\ DOMAIN calls' = DOMAIN calls
         /\ \A j \in DOMAIN calls : calls'[j].k = calls[j].k /\ calls'[j].awaited = calls[j].awaited
<1>1. Len(calls) \in Nat /\ DOMAIN calls = 1..Len(calls) /\ calls \in Seq(CallType)
      /\ \A i \in DOMAIN calls : calls[i] \in CallType
  BY LenProperties, ElementOfSeq DEF Types
<1>2. ASSUME NEW c \in CallType, NEW r \in {"ok", "refused", "err"}
      PROVE  LET d == [c EXCEPT !.res = r]
             IN d \in CallType /\ d.k = c.k /\ d.awaited = c.awaited
  BY DEF CallType
<1>3. CASE Execute
  <2>1. PICK i \in DOMAIN calls, r \in {"ok", "refused"} : calls' = [calls EXCEPT ![i].res = r]
    BY <1>3 DEF Execute
  <2>2. PICK d \in CallType : /\ d = [calls[i] EXCEPT !.res = r]
                              /\ d.k = calls[i].k /\ d.awaited = calls[i].awaited
    BY <1>1, <1>2
  <2>3. calls' = [calls EXCEPT ![i] = d]
    BY <2>1, <2>2
  <2>4. calls' \in Seq(CallType)
    BY <1>1, <2>3, ExceptSeq
  <2>5. /\ DOMAIN calls' = DOMAIN calls
        /\ \A j \in DOMAIN calls : calls'[j] = IF j = i THEN d ELSE calls[j]
    BY <1>1, <2>3
  <2> QED BY <2>2, <2>4, <2>5
<1>4. CASE SocketClosed
  <2>1. PICK p \in Procs :
          calls' = [j \in DOMAIN calls |->
                       IF calls[j].p = p THEN [calls[j] EXCEPT !.res = "err"] ELSE calls[j]]
    BY <1>4 DEF SocketClosed
  <2>2. /\ DOMAIN calls' = DOMAIN calls
        /\ \A j \in DOMAIN calls :
              calls'[j] = IF calls[j].p = p THEN [calls[j] EXCEPT !.res = "err"] ELSE calls[j]
    BY <2>1
  <2>3. \A j \in DOMAIN calls : /\ calls'[j] \in CallType
                                /\ calls'[j].k = calls[j].k /\ calls'[j].awaited = calls[j].awaited
    BY <1>1, <1>2, <2>2
  <2>4. calls' \in [1..Len(calls) -> CallType]
    <3>1. \A j \in DOMAIN calls :
            (IF calls[j].p = p THEN [calls[j] EXCEPT !.res = "err"] ELSE calls[j]) \in CallType
      BY <2>2, <2>3
    <3> QED BY <1>1, <2>1, <3>1
  <2>5. calls' \in Seq(CallType)
    BY <1>1, <2>4, SeqDef
  <2> QED BY <2>2, <2>3, <2>5
<1> QED BY <1>3, <1>4

\* An execution or a closed socket does not change what the flag tells.
LEMMA AnswersKeep ==
  ASSUME IInv, Execute \/ SocketClosed
  PROVE  IInv'
<1>1. UNCHANGED <<status, rev, client, launched, gen, timer, inFlight>>
  BY DEF Execute, SocketClosed, connVars, pollVars
<1>2. /\ calls' \in Seq(CallType) /\ DOMAIN calls' = DOMAIN calls
      /\ \A j \in DOMAIN calls : calls'[j].k = calls[j].k /\ calls'[j].awaited = calls[j].awaited
  BY AnswersStay DEF IInv
<1>3. Tells(inFlight, calls')
  BY <1>2, Answered DEF IInv, Types
<1> QED BY <1>1, <1>2, <1>3 DEF IInv, Types, Tells, Frames

\* Steps that ask for nothing and leave the flag alone.
LEMMA NothingAsked ==
  ASSUME IInv, UNCHANGED <<calls, inFlight>>,
         client' \in 0..MaxProcs, launched' \in 1..MaxProcs, status' \in Statuses,
         rev' \in Nat, gen' \in Nat, timer' \in Nat
  PROVE  IInv'
BY DEF IInv, Types, Tells, Frames

\* Steps that ask for something else than a frame and leave the flag alone.
LEMMA OtherAsked ==
  ASSUME IInv, NEW r \in CallType, r.k # "frame", calls' = Append(calls, r),
         UNCHANGED <<inFlight, client, launched, status, rev>>,
         gen' \in Nat, timer' \in Nat
  PROVE  IInv'
<1>1. calls' \in Seq(CallType) /\ Tells(inFlight, calls')
  BY AppendOther DEF IInv, Types
<1> QED BY <1>1 DEF IInv, Types, Tells, Frames

\* A tick raises the flag and asks for the only frame.
LEMMA TickKeeps ==
  ASSUME IInv, Tick
  PROVE  IInv'
<1>1. Types /\ Tells(FALSE, calls) /\ calls \in Seq(CallType)
  BY DEF IInv, Types, Tick, Tells
<1>2. Call("frame") \in CallType /\ Call("frame").k = "frame" /\ Call("frame").awaited
  BY <1>1, CallIsACall DEF Kinds
<1>3. calls' \in Seq(CallType) /\ Tells(TRUE, calls')
  BY <1>1, <1>2, AppendFrame DEF Tick, request
<1>4. inFlight' = TRUE /\ UNCHANGED <<status, rev, client, launched, gen, timer>>
  BY DEF Tick, connVars
<1> QED BY <1>1, <1>3, <1>4 DEF IInv, Types, Tells, Frames

\* Run, Pause and Stop ask for no frame, and Stop does not touch the flag.
LEMMA GesturesKeep ==
  ASSUME IInv, User
  PROVE  IInv'
<1>0. Types
  BY DEF IInv
<1>1. \A k \in Kinds \ {"frame"} : Call(k) \in CallType /\ Call(k).k # "frame"
  BY <1>0, CallIsACall
<1>2. CASE PressRun
  <2>1. CASE calls' = request(calls, "start")
    BY <1>0, <1>1, <1>2, <2>1, OtherAsked DEF PressRun, connVars, pollVars, request, Kinds, Types
  <2>2. CASE UNCHANGED calls
    BY <1>0, <1>2, <2>2, NothingAsked DEF PressRun, connVars, pollVars, Types
  <2> QED BY <1>2, <2>1, <2>2 DEF PressRun
<1>3. CASE PressPause
  <2>1. CASE calls' = request(calls, "start")
    BY <1>0, <1>1, <1>3, <2>1, OtherAsked DEF PressPause, connVars, pollVars, request, Kinds, Types
  <2>2. CASE calls' = request(calls, "pause")
    BY <1>0, <1>1, <1>3, <2>2, OtherAsked DEF PressPause, connVars, pollVars, request, Kinds, Types
  <2> QED BY <1>3, <2>1, <2>2 DEF PressPause
<1>4. CASE PressStop
  BY <1>0, <1>4, NothingAsked DEF PressStop, stopSimulation, stopVoltageReadoutPolling,
     setSimulationStatus, connVars, Types, Statuses
<1>5. CASE RebuildingEdit
  BY <1>0, <1>5, NothingAsked DEF RebuildingEdit, connVars, pollVars, Types
<1> QED BY <1>2, <1>3, <1>4, <1>5 DEF User

\* Launching, connecting and the run that a preparation awaits.
LEMMA PreparationKeeps ==
  ASSUME IInv, Prepare
  PROVE  IInv'
<1>0. Types
  BY DEF IInv
<1>1. CASE launchCoreProcess
  <2>1. launched' \in 1..MaxProcs
    BY <1>0, <1>1, BoundsAssumption DEF launchCoreProcess, Types
  <2> QED BY <1>0, <1>1, <2>1, NothingAsked DEF launchCoreProcess, pollVars, Types
<1>2. CASE connectCoreClient
  BY <1>0, <1>2, NothingAsked DEF connectCoreClient, pollVars, Types
<1>3. CASE publishClient
  <2>1. client' \in 0..MaxProcs
    BY <1>0, <1>3, BoundsAssumption DEF publishClient, Types
  <2> QED BY <1>0, <1>3, <2>1, NothingAsked DEF publishClient, pollVars, Types
<1>6. CASE RefreshCatalog
  BY <1>0, <1>6, NothingAsked DEF RefreshCatalog, connVars, pollVars, Types
<1>4. CASE PrepareRun
  <2>1. CASE UNCHANGED calls
    BY <1>0, <1>4, <2>1, NothingAsked DEF PrepareRun, connVars, pollVars, Types
  <2>2. CASE calls' = Append(calls, [Call("start") EXCEPT !.gen = -1])
    <3>1. Call("start") \in CallType /\ Call("start").k = "start"
      BY <1>0, CallIsACall DEF Kinds
    <3>2. [Call("start") EXCEPT !.gen = -1] \in CallType
          /\ [Call("start") EXCEPT !.gen = -1].k # "frame"
      BY <3>1 DEF CallType
    <3> QED BY <1>0, <1>4, <2>2, <3>2, OtherAsked DEF PrepareRun, connVars, pollVars, Types
  <2> QED BY <1>4, <2>1, <2>2 DEF PrepareRun
<1>5. CASE CheckFirmware
  BY <1>0, <1>5, NothingAsked DEF CheckFirmware, stopSimulation, stopVoltageReadoutPolling,
     setSimulationStatus, connVars, pollVars, Types, Statuses
<1> QED BY <1>1, <1>2, <1>3, <1>4, <1>5, <1>6 DEF Prepare

\* The queue of mutations asks for a stop or for the work of a rebuild.
LEMMA StartJobKeeps ==
  ASSUME IInv, StartJob
  PROVE  IInv'
<1>0. Types
  BY DEF IInv
<1>1. \A k \in Kinds \ {"frame"} : Call(k) \in CallType /\ Call(k).k # "frame"
  BY <1>0, CallIsACall
<1>2. CASE client = 0 /\ Current.k = "stop"
  BY <1>0, <1>2, NothingAsked DEF StartJob, setSimulationStatus, connVars, pollVars, Types, Statuses
<1>3. CASE client = 0 /\ Current.k = "rebuild"
  BY <1>0, <1>3, NothingAsked DEF StartJob, connVars, pollVars, Types
<1>4. CASE client # 0 /\ Current.k = "rebuild" /\ status # "running"
  BY <1>0, <1>1, <1>4, OtherAsked DEF StartJob, connVars, pollVars, request, Kinds, Types
<1>5. CASE /\ ~(client = 0 /\ Current.k = "stop")
           /\ ~(client = 0 /\ Current.k = "rebuild")
           /\ ~(client # 0 /\ Current.k = "rebuild" /\ status # "running")
  <2>1. /\ calls' = Append(calls, Call("jobStop"))
        /\ UNCHANGED <<inFlight, client, launched, status, rev>>
        /\ gen' \in Nat /\ timer' \in Nat
    BY <1>0, <1>5 DEF StartJob, stopVoltageReadoutPolling, connVars, pollVars, request, Types
  <2> QED BY <1>0, <1>1, <2>1, OtherAsked DEF Kinds
<1> QED BY <1>2, <1>3, <1>4, <1>5

\* Conditions, crashes and exits neither ask nor answer.
LEMMA EventsKeep ==
  ASSUME IInv, TriggerCondition \/ PauseSilently \/ ReceiveCondition \/ Crash \/ ProcessExit
  PROVE  IInv'
<1>0. Types
  BY DEF IInv
<1>1. CASE TriggerCondition \/ PauseSilently
  BY <1>0, <1>1, NothingAsked DEF TriggerCondition, PauseSilently, connVars, pollVars, Types
<1>2. CASE ReceiveCondition
  BY <1>0, <1>2, NothingAsked DEF ReceiveCondition, stopVoltageReadoutPolling,
     setSimulationStatus, connVars, Types, Statuses
<1>3. CASE Crash
  BY <1>0, <1>3, NothingAsked DEF Crash, pollVars, Types
<1>4. CASE ProcessExit
  BY <1>0, <1>4, BoundsAssumption, NothingAsked DEF ProcessExit, setSimulationStatus, pollVars,
     Types, Statuses
<1> QED BY <1>1, <1>2, <1>3, <1>4

-----------------------------------------------------------------------------
\* The flag is right in the beginning.
LEMMA InitFlag == Init => IInv
<1> SUFFICES ASSUME Init PROVE IInv
  OBVIOUS
<1>1. <<>> \in Seq(CallType) /\ Frames(<<>>) = {}
  BY EmptySeq DEF Frames
<1>2. /\ client \in 0..MaxProcs /\ launched \in 1..MaxProcs
      /\ status \in Statuses /\ rev \in Nat /\ gen \in Nat /\ timer \in Nat
  BY BoundsAssumption DEF Init, Statuses
<1>3. calls = <<>> /\ inFlight = FALSE
  BY DEF Init
<1>4. Tells(FALSE, <<>>)
  BY <1>1 DEF Tells
<1> QED BY <1>1, <1>2, <1>3, <1>4 DEF IInv, Types

\* Every step keeps it right.
LEMMA NextFlag == IInv /\ [Next]_vars => IInv'
<1> SUFFICES ASSUME IInv, [Next]_vars PROVE IInv'
  OBVIOUS
<1>1. CASE User
  BY <1>1, GesturesKeep
<1>2. CASE Tick
  BY <1>2, TickKeeps
<1>3. CASE Prepare
  BY <1>3, PreparationKeeps
<1>4. CASE StartJob
  BY <1>4, StartJobKeeps
<1>5. CASE Deliver
  BY <1>5, DeliverKeeps
<1>6. CASE TimeOut
  BY <1>6, TimeOutKeeps
<1>7. CASE Execute \/ SocketClosed
  BY <1>7, AnswersKeep
<1>8. CASE TriggerCondition \/ PauseSilently \/ ReceiveCondition \/ Crash \/ ProcessExit
  BY <1>8, EventsKeep
<1>9. CASE PollingThrows
  BY <1>9, PollingKeeps
<1>10. CASE UNCHANGED vars
  BY <1>10 DEF vars, IInv, Types, Tells, Frames
<1> QED BY <1>1, <1>2, <1>3, <1>4, <1>5, <1>6, <1>7, <1>8, <1>9, <1>10 DEF Next

\* startVoltageReadoutPolling's back-pressure: for any number of processes, gestures and
\* faults, telemetryPollInFlight is true exactly while one frame is in transit, and there is
\* never a second one.
THEOREM BackPressure == Spec => []OneFrameInTransit
<1>1. IInv => OneFrameInTransit
  BY DEF IInv, Tells, Frames, OneFrameInTransit, InTransit
<1> QED BY <1>1, InitFlag, NextFlag, PTL DEF Spec

-----------------------------------------------------------------------------
(* Status, Core and screen *)

\* Jobs and the stages of a preparation.
JobType ==
    [k : {"stop", "rebuild"}, phase : {"queued", "stop", "work", "run"}, resume : BOOLEAN,
     prep : BOOLEAN]
Preps ==
    {"no", "launch", "connect", "connected", "catalog", "rebuild", "ready", "start", "firmware"}
JobCalls == {"jobStop", "jobWork", "jobRun"}

\* The requests in a queue of them, and that a queue has one of a kind at most.
Members(cs) == {cs[i] : i \in DOMAIN cs}
AtMostOne(cs, S) == \A i, j \in DOMAIN cs : cs[i] \in S /\ cs[j] \in S => i = j
Sent == Members(calls)

\* The Core the extension talks to lives; what its scheduler does.
Up == client # 0 /\ proc[client] = "alive"
Mode == mode[client]

\* The job in progress stops the Core, for good or to resume it in the end.
Resumes == jobs # <<>> /\ Current.resume
Halting == jobs # <<>> /\ (Current.resume \/ (Current.k = "stop" /\ Current.phase # "queued"))

\* None of the histories that StatusAgrees excepts.
Orderly == ~overlapped /\ ~lost

\* Types of what IInv does not mention.
Rest ==
    /\ sock \in [Procs -> BOOLEAN] /\ mode \in [Procs -> Statuses]
    /\ proc \in [Procs -> {"none", "alive", "dead", "reaped"}]
    /\ notes \in SUBSET Procs
    /\ jobs \in Seq(JobType)
    /\ stopPending \in BOOLEAN /\ prep \in Preps

\* Only the process of the client can run; a status other than "stopped" is about it.
Processes ==
    /\ client <= launched
    /\ \A p \in Procs : proc[p] = "none" <=> p > launched
    /\ \A p \in Procs : proc[p] = "none" => mode[p] = "stopped"
    /\ \A p \in Procs : proc[p] = "alive" /\ mode[p] # "stopped" => sock[p] /\ p = client
    /\ prep \in {"launch", "connect", "connected"} => client = 0
    /\ status # "stopped" => /\ client # 0 /\ proc[client] \in {"alive", "dead"}
                             /\ Up => sock[client]

\* A condition is on its way from the client's process, which has paused; no job waits.
Notes ==
    /\ \A p \in notes : p = client /\ proc[p] \in {"alive", "dead"}
    /\ notes # {} => jobs = <<>> /\ (Up => Mode = "paused")

\* A request and its connection.
CallOK(c) ==
    /\ c.p # 0 /\ c.p <= launched
    /\ IsControl(c.k) => c.awaited
    /\ c.res = "sent" => sock[c.p]
    /\ c.res = "err" => ~sock[c.p]
    /\ c.res = "refused" => c.k \in {"start", "jobRun"}
    /\ c.res \in {"ok", "refused"} /\ c.p = client => proc[c.p] # "reaped"
    /\ prep \in {"connect", "connected"} => c.p # launched
    /\ proc[c.p] = "alive" => c.p = client

\* A run that is asked for: the status is still the one it was asked in, or a condition has
\* paused the simulation meanwhile; what the Core does follows from the answer.
StartOK(c) ==
    c.k = "start" =>
        /\ c.rev <= rev /\ c.before # "running"
        /\ c.rev = rev => c.p = client /\ c.before = status /\ (status = "stopped" => c.gen = -1)
        /\ c.gen = -1 => prep = "start" /\ client \in {0, c.p}
        /\ c.p = client => (c.rev = rev \/ status = "paused") /\ ~stopPending /\ ~Resumes
        /\ c.p = client /\ Up =>
              /\ c.res \in {"sent", "refused"} => c.rev = rev /\ Mode = status /\ notes = {}
              /\ c.res = "ok" /\ c.rev = rev => Mode = "running" \/ notes # {}
              /\ c.rev # rev => Mode = "paused"

\* A request of the job in progress.
JobOK(c) ==
    c.k \in JobCalls =>
        /\ jobs # <<>> /\ c.p = client
        /\ c.k = "jobStop" => Current.phase = "stop"
        /\ c.k = "jobWork" => Current.phase = "work"
        /\ c.k = "jobRun" => Current.phase = "run"
        /\ Up /\ c.k = "jobStop" /\ c.res = "ok" => Mode = "stopped"
        /\ Up /\ c.k = "jobRun" => Mode = IF c.res = "ok" THEN "running" ELSE "stopped"

\* A pause that is asked for: nothing else is under way.
PauseOK(c) ==
    c.k = "pause" =>
        /\ status = "running" /\ notes = {} /\ jobs = <<>> /\ c.p = client
        /\ Up /\ c.res = "sent" => Mode = "running"
        /\ Up /\ c.res = "ok" => Mode = "paused"

\* The queue of mutations: one job in progress, one rebuild at most behind it.
HeadOK ==
    /\ Current.prep => prep = "rebuild"
    /\ Current.k = "stop" <=> stopPending
    /\ Current.phase = "queued" => ~Current.resume
    /\ Current.k = "stop" => ~Current.resume /\ Current.phase # "run"
    /\ Current.k = "rebuild" /\ Current.phase \in {"stop", "run"} => Current.resume
    /\ Current.resume => status = IF Current.phase = "stop" THEN "running" ELSE "stopped"
    /\ Halting /\ Current.phase = "work" /\ Up => Mode = "stopped"
Behind ==
    /\ jobs[2].k = "rebuild" /\ jobs[2].phase = "queued" /\ ~jobs[2].resume
    /\ jobs[2].prep => prep = "rebuild" /\ ~Current.prep
    /\ ~(Current.k = "rebuild" /\ Current.phase = "queued")
Queue ==
    /\ Len(jobs) <= 2
    /\ stopPending => jobs # <<>>
    /\ jobs # <<>> => HeadOK
    /\ Len(jobs) = 2 => Behind

\* Until it asks for the run, a preparation finds a stopped simulation.
Preparing ==
    prep \in {"launch", "connect", "connected", "catalog", "rebuild", "ready"} =>
        /\ status = "stopped" /\ notes = {}
        /\ jobs # <<>> => Current.k = "rebuild" /\ ~Current.resume

\* The status is what the Core does, unless something under way will make it so.
Agree ==
    Up => /\ status = "stopped" => Mode = "stopped" \/ prep = "start" \/ Resumes
          /\ status = "running" => \/ Mode = "running" \/ notes # {} \/ Halting
                                   \/ \E c \in Sent : c.k = "pause" /\ c.res = "ok"
          /\ status = "paused" => \/ Mode = "paused" \/ Halting
                                  \/ \E c \in Sent : /\ c.k = "start" /\ c.p = client
                                                     /\ c.rev = rev /\ c.res = "ok"

\* One run for this client, one request of the queue, one pause at a time.
Own == {c \in CallType : c.k = "start" /\ (c.p = client \/ c.gen = -1)}
OfJobs == {c \in CallType : c.k \in JobCalls}
Pauses == {c \in CallType : c.k = "pause"}
Unique == AtMostOne(calls, Own) /\ AtMostOne(calls, OfJobs) /\ AtMostOne(calls, Pauses)

\* Frames of the present generation belong to the timer that runs.
FrameOK(c) ==
    c.k = "frame" /\ c.awaited => c.gen <= gen /\ c.gen > 0 /\ (c.gen = gen => timer = gen)

\* What holds of an orderly history.
Control ==
    /\ Rest /\ Processes /\ Notes /\ Queue /\ Preparing /\ Agree /\ Unique
    /\ timer \in {0, gen}
    /\ \A c \in Sent : CallOK(c) /\ StartOK(c) /\ JobOK(c) /\ PauseOK(c) /\ FrameOK(c)

\* Values on the screen, a timer that will bring some, or readouts under way: the simulation
\* is not stopped, nor being stopped.
Lit == shown = "values" \/ timer # 0 \/ \E c \in Sent : c.k = "poll" /\ c.awaited
Screen == Lit => status # "stopped" /\ ~stopPending /\ ~Resumes

\* A scheduler that has paused itself was running.
Silence ==
    /\ mode \in [Procs -> Statuses] /\ silent \subseteq Procs
    /\ \A p \in silent : mode[p] = "running"

\* The inductive invariant.
Sane ==
    /\ IInv /\ Silence
    /\ Orderly => Control
    /\ Orderly /\ ~loose /\ ~orphaned => Screen

-----------------------------------------------------------------------------
\* A request more.
LEMMA MembersAppend ==
  ASSUME NEW cs \in Seq(CallType), NEW r \in CallType
  PROVE  /\ Members(Append(cs, r)) = Members(cs) \cup {r}
         /\ \A S : AtMostOne(cs, S) /\ (r \notin S \/ \A c \in Members(cs) : c \notin S)
                      => AtMostOne(Append(cs, r), S)
<1>1. /\ Len(cs) \in Nat /\ DOMAIN cs = 1..Len(cs) /\ DOMAIN Append(cs, r) = 1..(Len(cs) + 1)
      /\ Append(cs, r)[Len(cs) + 1] = r /\ \A i \in 1..Len(cs) : Append(cs, r)[i] = cs[i]
  BY AppendProperties, LenProperties
<1>2. Members(Append(cs, r)) = Members(cs) \cup {r}
  <2>1. ASSUME NEW i \in DOMAIN Append(cs, r) PROVE Append(cs, r)[i] \in Members(cs) \cup {r}
    BY <1>1 DEF Members
  <2>2. \A i \in DOMAIN cs : cs[i] \in Members(Append(cs, r))
    BY <1>1 DEF Members
  <2>3. r \in Members(Append(cs, r))
    BY <1>1 DEF Members
  <2> QED BY <2>1, <2>2, <2>3 DEF Members
<1>3. ASSUME NEW S, AtMostOne(cs, S), r \notin S \/ \A c \in Members(cs) : c \notin S,
             NEW i \in DOMAIN Append(cs, r), NEW j \in DOMAIN Append(cs, r),
             Append(cs, r)[i] \in S, Append(cs, r)[j] \in S
      PROVE  i = j
  <2>1. CASE r \notin S
    <3>1. i \in DOMAIN cs /\ j \in DOMAIN cs /\ cs[i] \in S /\ cs[j] \in S
      BY <1>1, <1>3, <2>1
    <3> QED BY <1>3, <3>1 DEF AtMostOne
  <2>2. CASE \A c \in Members(cs) : c \notin S
    <3>1. i \notin DOMAIN cs /\ j \notin DOMAIN cs
      BY <1>1, <1>3, <2>2 DEF Members
    <3> QED BY <1>1, <3>1
  <2> QED BY <1>3, <2>1, <2>2
<1> QED BY <1>2, <1>3 DEF AtMostOne

\* A request less.
LEMMA MembersRemove ==
  ASSUME NEW cs \in Seq(CallType), NEW i \in DOMAIN cs
  PROVE  /\ RemoveAt(cs, i) \in Seq(CallType)
         /\ Members(RemoveAt(cs, i)) \subseteq Members(cs)
         /\ \A c \in Members(cs) : c # cs[i] => c \in Members(RemoveAt(cs, i))
         /\ \A S : AtMostOne(cs, S) => AtMostOne(RemoveAt(cs, i), S)
         /\ \A S : AtMostOne(cs, S) /\ cs[i] \in S => \A c \in Members(RemoveAt(cs, i)) : c \notin S
<1> DEFINE rest == RemoveAt(cs, i)
           at(j) == IF j < i THEN j ELSE j + 1
<1>0. Len(cs) \in Nat /\ DOMAIN cs = 1..Len(cs) /\ i \in 1..Len(cs)
  BY LenProperties
<1>1. /\ rest \in Seq(CallType) /\ Len(rest) = Len(cs) - 1
      /\ \A j \in 1..(Len(cs) - 1) : rest[j] = IF j < i THEN cs[j] ELSE cs[j + 1]
  BY <1>0, RemoveAtProperties
<1>2. DOMAIN rest = 1..(Len(cs) - 1)
  BY <1>1, LenProperties
<1> HIDE DEF rest
<1>3. \A j \in DOMAIN rest : at(j) \in DOMAIN cs /\ at(j) # i /\ rest[j] = cs[at(j)] /\ j \in Int
  BY <1>0, <1>1, <1>2
<1>4. \A j, n \in DOMAIN rest : at(j) = at(n) => j = n
  BY <1>0, <1>2
<1>5. ASSUME NEW n \in DOMAIN cs, n # i
      PROVE  \E j \in DOMAIN rest : rest[j] = cs[n]
  <2>1. CASE n < i
    <3>1. n \in DOMAIN rest /\ rest[n] = cs[n]
      BY <1>0, <1>1, <1>2, <2>1
    <3> QED BY <3>1
  <2>2. CASE n > i
    <3>1. n - 1 \in DOMAIN rest /\ rest[n - 1] = cs[(n - 1) + 1] /\ (n - 1) + 1 = n
      BY <1>0, <1>1, <1>2, <2>2
    <3> QED BY <3>1
  <2> QED BY <1>0, <1>5, <2>1, <2>2
<1> HIDE DEF at
<1>6. Members(rest) \subseteq Members(cs)
  BY <1>3 DEF Members
<1>7. \A c \in Members(cs) : c # cs[i] => c \in Members(rest)
  BY <1>5 DEF Members
<1>8. \A S : AtMostOne(cs, S) => AtMostOne(rest, S)
  BY <1>3, <1>4 DEF AtMostOne
<1>9. \A S : AtMostOne(cs, S) /\ cs[i] \in S => \A c \in Members(rest) : c \notin S
  BY <1>3 DEF AtMostOne, Members
<1> QED BY <1>1, <1>6, <1>7, <1>8, <1>9 DEF rest

\* A request in the place of another.
LEMMA MembersReplace ==
  ASSUME NEW cs \in Seq(CallType), NEW i \in DOMAIN cs, NEW n \in CallType, NEW new,
         new = [cs EXCEPT ![i] = n]
  PROVE  /\ new \in Seq(CallType)
         /\ Members(new) \subseteq Members(cs) \cup {n} /\ n \in Members(new)
         /\ \A c \in Members(cs) : c # cs[i] => c \in Members(new)
         /\ \A S : AtMostOne(cs, S) /\ (n \in S => cs[i] \in S) => AtMostOne(new, S)
         /\ \A S : AtMostOne(cs, S) /\ cs[i] \in S => \A c \in Members(new) : c \in S => c = n
<1>1. Len(cs) \in Nat /\ DOMAIN cs = 1..Len(cs) /\ new \in Seq(CallType)
  BY LenProperties, ExceptSeq
<1>2. DOMAIN new = DOMAIN cs /\ \A j \in DOMAIN cs : new[j] = IF j = i THEN n ELSE cs[j]
  BY <1>1
<1>3. /\ Members(new) \subseteq Members(cs) \cup {n} /\ n \in Members(new)
      /\ \A c \in Members(cs) : c # cs[i] => c \in Members(new)
  BY <1>2 DEF Members
<1>4. \A S : AtMostOne(cs, S) /\ (n \in S => cs[i] \in S) => AtMostOne(new, S)
  BY <1>2 DEF AtMostOne
<1>5. \A S : AtMostOne(cs, S) /\ cs[i] \in S => \A c \in Members(new) : c \in S => c = n
  BY <1>2 DEF AtMostOne, Members
<1> QED BY <1>1, <1>3, <1>4, <1>5

\* Fewer requests of a kind in the same places.
LEMMA MembersFewer ==
  ASSUME NEW cs, NEW new, DOMAIN new = DOMAIN cs, NEW S, NEW T, AtMostOne(cs, S),
         \A i \in DOMAIN cs : new[i] \in T => cs[i] \in S
  PROVE  AtMostOne(new, T)
BY DEF AtMostOne

\* The queue of mutations and its head.
LEMMA JobFacts ==
  ASSUME Rest
  PROVE  /\ Len(jobs) \in Nat /\ DOMAIN jobs = 1..Len(jobs)
         /\ jobs = <<>> <=> Len(jobs) = 0
         /\ jobs # <<>> => Current = jobs[1] /\ Current \in JobType
         /\ Len(jobs) = 2 => jobs[2] \in JobType
<1>1. jobs \in Seq(JobType)
  BY DEF Rest
<1>2. Len(jobs) \in Nat /\ DOMAIN jobs = 1..Len(jobs) /\ (jobs = <<>> <=> Len(jobs) = 0)
  BY <1>1, LenProperties, EmptySeq
<1>3. \A i \in 1..Len(jobs) : jobs[i] \in JobType
  BY <1>1, ElementOfSeq
<1>4. jobs # <<>> => Current = jobs[1]
  BY DEF Current
<1> QED BY <1>2, <1>3, <1>4

\* What a new request of the client is.
LEMMA NewCall ==
  ASSUME Types, NEW k \in Kinds
  PROVE  /\ Call(k) \in CallType /\ Call(k).k = k /\ Call(k).awaited
         /\ Call(k).p = client /\ Call(k).rev = rev /\ Call(k).before = status
         /\ Call(k).gen = timer
         /\ Call(k).res = IF client # 0 /\ sock[client] THEN "sent" ELSE "err"
BY CallIsACall DEF Call

-----------------------------------------------------------------------------
(* Requests *)

\* One request more, for which everything is in order.
LEMMA Asked ==
  ASSUME Types, Control, NEW r \in CallType, calls' = Append(calls, r),
         UNCHANGED <<status, rev, client, sock, launched, proc, mode, notes, jobs, stopPending,
                     gen, timer>>,
         prep' = prep \/ (prep = "ready" /\ prep' = "start"),
         r \in Own => \A c \in Sent : c \notin Own,
         r \in OfJobs => \A c \in Sent : c \notin OfJobs,
         r \in Pauses => \A c \in Sent : c \notin Pauses,
         (CallOK(r) /\ StartOK(r) /\ JobOK(r) /\ PauseOK(r) /\ FrameOK(r))'
  PROVE  Control'
<1>1. calls \in Seq(CallType)
  BY DEF Types
<1>2. Sent' = Sent \cup {r} /\ Own' = Own
  BY <1>1, MembersAppend DEF Sent, Own
<1>3. Unique'
  BY <1>1, <1>2, MembersAppend DEF Unique, Control, Sent, OfJobs, Pauses
<1>4. Up' = Up /\ Mode' = Mode /\ Current' = Current /\ Resumes' = Resumes /\ Halting' = Halting
  BY DEF Up, Mode, Current, Resumes, Halting
<1>5. Rest' /\ Processes' /\ Notes' /\ Preparing'
  BY <1>4 DEF Control, Rest, Processes, Notes, Preparing, Preps
<1>6. Queue'
  BY <1>4 DEF Control, Queue, HeadOK, Behind
<1>7. Agree'
  BY <1>2, <1>4 DEF Control, Agree
<1>8. ASSUME NEW c \in Sent
      PROVE  (CallOK(c) /\ StartOK(c) /\ JobOK(c) /\ PauseOK(c) /\ FrameOK(c))'
  <2>1. CallOK(c) /\ StartOK(c) /\ JobOK(c) /\ PauseOK(c) /\ FrameOK(c)
    BY DEF Control
  <2>2. CallOK(c)' /\ FrameOK(c)'
    BY <2>1 DEF CallOK, FrameOK
  <2>3. StartOK(c)'
    BY <1>4, <2>1 DEF StartOK
  <2>4. JobOK(c)' /\ PauseOK(c)'
    BY <1>4, <2>1 DEF JobOK, PauseOK
  <2> QED BY <2>2, <2>3, <2>4
<1> QED BY <1>2, <1>3, <1>5, <1>6, <1>7, <1>8 DEF Control

\* A request of the client is in order as far as the connection goes.
LEMMA NewCallOK ==
  ASSUME Types, Control, client # 0, NEW k \in Kinds, NEW r \in CallType,
         r.k = k, r.awaited, r.p = client, r.res = (IF sock[client] THEN "sent" ELSE "err"),
         UNCHANGED <<client, sock, launched, proc>>, prep' \notin {"connect", "connected"}
  PROVE  CallOK(r)'
BY DEF CallOK, Control, Processes

\* A run is asked for while nothing else is under way.
LEMMA StartAsked ==
  ASSUME Types, Control, client # 0, NEW r \in CallType, calls' = Append(calls, r),
         r.k = "start", r.awaited, r.p = client, r.rev = rev, r.before = status,
         r.res = (IF sock[client] THEN "sent" ELSE "err"),
         UNCHANGED <<status, rev, client, sock, launched, proc, mode, notes, jobs, stopPending,
                     gen, timer>>,
         \/ /\ prep' = prep /\ prep \notin {"connect", "connected"} /\ r.gen >= 0
            /\ status = "paused"
            /\ \A c \in Sent : c.k \notin {"start", "pause"}
         \/ prep = "ready" /\ prep' = "start" /\ r.gen = -1,
         notes = {}, jobs = <<>> \/ prep = "ready"
  PROVE  Control'
<1>1. Rest /\ Processes /\ Notes /\ Queue /\ Preparing /\ Agree
      /\ \A c \in Sent : StartOK(c) /\ PauseOK(c)
  BY DEF Control
<1>2. Up' = Up /\ Mode' = Mode /\ Resumes' = Resumes
  BY DEF Up, Mode, Current, Resumes
<1>3. ~stopPending /\ ~Resumes /\ ~Halting
  BY <1>1, JobFacts DEF Queue, HeadOK, Preparing, Resumes, Halting
<1>4. CallOK(r)'
  BY NewCallOK DEF Kinds
<1>5. Up => Mode = status /\ status # "running"
  BY <1>1, <1>3 DEF Agree, Preparing
<1>6. status # "running"
  BY <1>1 DEF Preparing
<1>7. StartOK(r)'
  BY <1>2, <1>3, <1>5, <1>6 DEF StartOK, CallType, Statuses, Types
<1>8. JobOK(r)' /\ PauseOK(r)' /\ FrameOK(r)'
  BY DEF JobOK, PauseOK, FrameOK, JobCalls
<1>9. r \notin OfJobs /\ r \notin Pauses
  BY DEF OfJobs, Pauses, JobCalls
<1>10. \A c \in Sent : c \notin Own
  BY <1>1 DEF Own, StartOK, Preparing
<1> QED BY <1>4, <1>7, <1>8, <1>9, <1>10, Asked

\* Pause, or resume, with nothing else under way.
LEMMA PressPauseControls ==
  ASSUME Types, Control, PressPause, Orderly'
  PROVE  Control'
<1>1. Rest /\ Processes /\ Notes /\ Queue /\ Preparing /\ Agree
      /\ \A c \in Sent : StartOK(c) /\ PauseOK(c)
  BY DEF Control
<1>2. /\ UNCHANGED <<status, rev, client, sock, launched, proc, mode, notes, jobs, stopPending,
                     gen, timer, prep>>
      /\ client # 0 /\ notes = {} /\ jobs = <<>> /\ ~Resuming
      /\ \A c \in Sent : c.k # "pause"
  BY DEF PressPause, connVars, ctrlVars, pollVars, Orderly, Unconditional, Sent, Members
<1>3. CASE status = "paused" /\ calls' = request(calls, "start")
  <2>1. \A c \in Sent : c.k # "start"
    BY <1>2, <1>3 DEF Resuming, Sent, Members
  <2>2. prep \notin {"connect", "connected"}
    BY <1>1, <1>3 DEF Preparing
  <2>3. timer >= 0 /\ "start" \in Kinds
    BY DEF Types, Kinds
  <2> QED BY <1>2, <1>3, <2>1, <2>2, <2>3, NewCall, StartAsked DEF request
<1>4. CASE status = "running" /\ calls' = request(calls, "pause")
  <2>1. PICK r \in CallType :
               /\ r = Call("pause") /\ r.k = "pause" /\ r.awaited /\ r.p = client
               /\ r.res = IF sock[client] THEN "sent" ELSE "err"
    BY <1>2, NewCall DEF Kinds
  <2>2. prep \notin {"connect", "connected"}
    BY <1>1, <1>4 DEF Preparing
  <2>3. CallOK(r)'
    BY <1>2, <2>1, <2>2, NewCallOK DEF Kinds
  <2>4. Up' = Up /\ Mode' = Mode
    BY <1>2 DEF Up, Mode
  <2>5. Up => Mode = "running"
    BY <1>1, <1>2, <1>4 DEF Agree, Halting
  <2>6. PauseOK(r)'
    BY <1>2, <1>4, <2>1, <2>4, <2>5 DEF PauseOK
  <2>7. StartOK(r)' /\ JobOK(r)' /\ FrameOK(r)'
    BY <2>1 DEF StartOK, JobOK, FrameOK, JobCalls
  <2>8. r \notin Own /\ r \notin OfJobs /\ \A c \in Sent : c \notin Pauses
    BY <1>2, <2>1 DEF Own, OfJobs, Pauses, JobCalls
  <2>9. calls' = Append(calls, r)
    BY <1>4, <2>1 DEF request
  <2> QED BY <1>2, <2>1, <2>3, <2>6, <2>7, <2>8, <2>9, Asked
<1> QED BY <1>3, <1>4 DEF PressPause

\* The timer asks for a frame.
LEMMA TickControls ==
  ASSUME Types, Control, Tick, Orderly'
  PROVE  Control'
<1>1. /\ UNCHANGED <<status, rev, client, sock, launched, proc, mode, notes, jobs, stopPending,
                     gen, timer, prep>>
      /\ client # 0 /\ timer # 0 /\ calls' = request(calls, "frame")
  BY DEF Tick, connVars, ctrlVars
<1>2. PICK r \in CallType :
             /\ r = Call("frame") /\ r.k = "frame" /\ r.awaited /\ r.p = client /\ r.gen = timer
             /\ r.res = IF sock[client] THEN "sent" ELSE "err"
  BY <1>1, NewCall DEF Kinds
<1>3. CallOK(r)'
  <2>1. prep \notin {"connect", "connected"}
    BY <1>1 DEF Control, Processes
  <2> QED BY <1>1, <1>2, <2>1, NewCallOK DEF Kinds
<1>4. StartOK(r)' /\ JobOK(r)' /\ PauseOK(r)'
  BY <1>2 DEF StartOK, JobOK, PauseOK, JobCalls
<1>5. FrameOK(r)'
  BY <1>1, <1>2 DEF FrameOK, Control, Types
<1>6. r \notin Own /\ r \notin OfJobs /\ r \notin Pauses
  BY <1>2 DEF Own, OfJobs, Pauses, JobCalls
<1>7. calls' = Append(calls, r)
  BY <1>1, <1>2 DEF request
<1> QED BY <1>1, <1>2, <1>3, <1>4, <1>5, <1>6, <1>7, Asked

\* A preparation begins or ends.
LEMMA PrepMoves ==
  ASSUME Control,
         UNCHANGED <<status, rev, client, sock, launched, proc, mode, calls, notes, jobs,
                     stopPending, gen, timer>>,
         prep \notin {"rebuild", "start"}, prep' \in {"no", "launch", "ready"},
         prep' # "no" => status = "stopped" /\ notes = {} /\ jobs = <<>>,
         prep' = "launch" => client = 0
  PROVE  Control'
<1>1. Rest /\ Processes /\ Notes /\ Queue /\ Preparing /\ Agree
      /\ \A c \in Sent : CallOK(c) /\ StartOK(c) /\ JobOK(c) /\ PauseOK(c) /\ FrameOK(c)
  BY DEF Control
<1>2. Up' = Up /\ Mode' = Mode /\ Current' = Current /\ Resumes' = Resumes /\ Halting' = Halting
      /\ Sent' = Sent /\ Own' = Own
  BY DEF Up, Mode, Current, Resumes, Halting, Sent, Own
<1>3. Rest' /\ Processes' /\ Notes' /\ Preparing'
  BY <1>1, <1>2 DEF Rest, Processes, Notes, Preparing, Preps
<1>4. Queue'
  BY <1>1, <1>2 DEF Queue, HeadOK, Behind
<1>5. Agree' /\ Unique'
  BY <1>1, <1>2 DEF Control, Agree, Unique, OfJobs, Pauses
<1>6. ASSUME NEW c \in Sent
      PROVE  (CallOK(c) /\ StartOK(c) /\ JobOK(c) /\ PauseOK(c) /\ FrameOK(c))'
  <2>1. CallOK(c)' /\ FrameOK(c)'
    BY <1>1 DEF CallOK, FrameOK
  <2>2. StartOK(c)'
    BY <1>1, <1>2 DEF StartOK
  <2>3. JobOK(c)' /\ PauseOK(c)'
    BY <1>1, <1>2 DEF JobOK, PauseOK
  <2> QED BY <2>1, <2>2, <2>3
<1> QED BY <1>2, <1>3, <1>4, <1>5, <1>6 DEF Control

\* A preparation asks for its run.
LEMMA PrepareRunControls ==
  ASSUME Types, Control, PrepareRun, UNCHANGED <<mode, notes>>, Orderly'
  PROVE  Control'
<1>1. Rest /\ Processes /\ Notes /\ Queue /\ Preparing /\ Agree
      /\ \A c \in Sent : CallOK(c) /\ StartOK(c) /\ JobOK(c) /\ PauseOK(c) /\ FrameOK(c)
  BY DEF Control
<1>2. /\ UNCHANGED <<status, rev, client, sock, launched, proc, mode, notes, jobs, stopPending,
                     gen, timer>>
      /\ prep = "ready" /\ notes = {} /\ status = "stopped"
  BY <1>1 DEF PrepareRun, connVars, pollVars, Preparing
<1>3. CASE /\ client # 0 /\ prep' = "start"
           /\ calls' = Append(calls, [Call("start") EXCEPT !.gen = -1])
  <2>1. PICK r \in CallType :
        /\ r = [Call("start") EXCEPT !.gen = -1] /\ r.k = "start" /\ r.awaited
        /\ r.p = client /\ r.gen = -1
        /\ r.rev = rev /\ r.before = status /\ r.res = IF sock[client] THEN "sent" ELSE "err"
    <3>1. "start" \in Kinds
      BY DEF Kinds
    <3> QED BY <1>3, <3>1, NewCall DEF CallType
  <2>2. calls' = Append(calls, r)
    BY <1>3, <2>1
  <2> QED BY <1>2, <1>3, <2>1, <2>2, StartAsked
<1>4. CASE prep' = "no" /\ UNCHANGED calls
  BY <1>2, <1>4, PrepMoves
<1> QED BY <1>3, <1>4 DEF PrepareRun

\* Run resumes a pause or begins a preparation.
LEMMA PressRunControls ==
  ASSUME Types, Control, PressRun, Orderly'
  PROVE  Control'
<1>1. /\ UNCHANGED <<status, rev, client, sock, launched, proc, mode, notes, jobs, stopPending,
                     gen, timer>>
      /\ notes = {} /\ jobs = <<>> /\ ~Resuming
      /\ \A c \in Sent : c.k # "pause"
  BY DEF PressRun, connVars, pollVars, Orderly, Unconditional, Sent, Members
<1>2. CASE status = "paused" /\ client # 0 /\ calls' = request(calls, "start") /\ UNCHANGED prep
  <2>1. \A c \in Sent : c.k # "start"
    BY <1>1, <1>2 DEF Resuming, Sent, Members
  <2>2. prep \notin {"connect", "connected"}
    BY <1>2 DEF Control, Preparing
  <2>3. timer >= 0 /\ "start" \in Kinds
    BY DEF Types, Kinds
  <2> QED BY <1>1, <1>2, <2>1, <2>2, <2>3, NewCall, StartAsked DEF request
<1>3. CASE /\ status = "stopped" /\ prep = "no" /\ UNCHANGED calls
           /\ prep' = IF client # 0 THEN "ready" ELSE "launch"
  BY <1>1, <1>3, PrepMoves
<1> QED BY <1>2, <1>3 DEF PressRun

-----------------------------------------------------------------------------
(* Jobs and processes *)

\* The first job.
LEMMA FirstJob ==
  ASSUME jobs = <<>>, NEW j \in JobType, jobs' = Append(jobs, j)
  PROVE  jobs' \in Seq(JobType) /\ Len(jobs') = 1 /\ jobs' # <<>> /\ Current' = j
<1>1. jobs' = <<j>>
  OBVIOUS
<1> QED BY <1>1 DEF Current

\* An edit queues a rebuild, or joins the one that waits.
LEMMA EditControls ==
  ASSUME Types, Control, RebuildingEdit, Orderly'
  PROVE  Control'
<1>1. Rest /\ Processes /\ Notes /\ Queue /\ Preparing /\ Agree
      /\ \A c \in Sent : CallOK(c) /\ StartOK(c) /\ JobOK(c) /\ PauseOK(c) /\ FrameOK(c)
  BY DEF Control
<1>2. /\ UNCHANGED <<status, rev, client, sock, launched, proc, mode, notes, stopPending,
                     gen, timer, calls, prep>>
      /\ notes = {} /\ jobs = <<>> /\ queueCoreRebuild(FALSE)
      /\ \A c \in Sent : c.k # "pause"
  BY DEF RebuildingEdit, connVars, pollVars, Orderly, Unconditional, Sent, Members
<1>3. PICK j \in JobType : /\ jobs' = Append(jobs, j)
                           /\ j.k = "rebuild" /\ j.phase = "queued" /\ ~j.resume /\ ~j.prep
  <2>1. jobs' = Append(jobs, [Job("rebuild") EXCEPT !.prep = FALSE])
    <3>1. {i \in DOMAIN jobs : jobs[i].k = "rebuild" /\ jobs[i].phase = "queued"} = {}
      BY <1>2
    <3> QED BY <1>2, <3>1 DEF queueCoreRebuild
  <2>2. [Job("rebuild") EXCEPT !.prep = FALSE] \in JobType
    BY DEF Job, JobType
  <2> QED BY <2>1, <2>2 DEF Job
<1>4. jobs' \in Seq(JobType) /\ Len(jobs') = 1 /\ jobs' # <<>> /\ Current' = j
  BY <1>2, <1>3, FirstJob
<1>5. /\ Up' = Up /\ Mode' = Mode /\ ~Resumes' /\ ~Halting' /\ ~Resumes /\ ~Halting
      /\ Sent' = Sent /\ Own' = Own /\ ~stopPending
  BY <1>1, <1>2, <1>3, <1>4 DEF Up, Mode, Resumes, Halting, Sent, Own, Queue
<1>6. Rest' /\ Processes' /\ Notes' /\ Preparing'
  BY <1>1, <1>2, <1>3, <1>4, <1>5 DEF Rest, Processes, Notes, Preparing
<1>7. Queue'
  BY <1>2, <1>3, <1>4, <1>5 DEF Queue, HeadOK
<1>8. Agree' /\ Unique'
  BY <1>1, <1>2, <1>5 DEF Control, Agree, Unique, OfJobs, Pauses
<1>9. ASSUME NEW c \in Sent
      PROVE  (CallOK(c) /\ StartOK(c) /\ JobOK(c) /\ PauseOK(c) /\ FrameOK(c))'
  <2>1. CallOK(c)' /\ FrameOK(c)'
    BY <1>1, <1>2 DEF CallOK, FrameOK
  <2>2. StartOK(c)'
    BY <1>1, <1>2, <1>5 DEF StartOK
  <2>3. JobOK(c)' /\ PauseOK(c)'
    BY <1>1, <1>2 DEF JobOK, PauseOK
  <2> QED BY <2>1, <2>2, <2>3
<1> QED BY <1>1, <1>2, <1>5, <1>6, <1>7, <1>8, <1>9 DEF Control

\* Stop, while nothing is under way.
LEMMA StopControls ==
  ASSUME Types, Control, stopSimulation,
         UNCHANGED <<client, sock, launched, proc, mode, calls, notes>>,
         ~Unconditional, ~ControlUnderWay,
         prep' = prep \/ (prep = "firmware" /\ prep' = "no")
  PROVE  Control'
<1>1. Rest /\ Processes /\ Notes /\ Queue /\ Preparing /\ Agree
      /\ \A c \in Sent : CallOK(c) /\ StartOK(c) /\ JobOK(c) /\ PauseOK(c) /\ FrameOK(c)
  BY DEF Control
<1>2. /\ notes = {} /\ jobs = <<>> /\ status # "stopped" /\ gen' = gen + 1 /\ timer' = 0
      /\ \A c \in Sent : ~IsControl(c.k)
  BY DEF stopSimulation, stopVoltageReadoutPolling, Unconditional, ControlUnderWay, Sent, Members
<1>3. UNCHANGED <<status, rev>> /\ stopPending' = TRUE /\ jobs' = Append(jobs, Job("stop"))
  BY <1>1, <1>2 DEF stopSimulation, Processes
<1>4. PICK j \in JobType : /\ jobs' = Append(jobs, j)
                           /\ j.k = "stop" /\ j.phase = "queued" /\ ~j.resume /\ ~j.prep
  <2>1. Job("stop") \in JobType
    BY DEF Job, JobType
  <2> QED BY <1>3, <2>1 DEF Job
<1>5. jobs' \in Seq(JobType) /\ Len(jobs') = 1 /\ jobs' # <<>> /\ Current' = j
  BY <1>2, <1>4, FirstJob
<1>6. /\ Up' = Up /\ Mode' = Mode /\ ~Resumes' /\ ~Halting' /\ ~Resumes /\ ~Halting
      /\ Sent' = Sent /\ Own' = Own
  BY <1>2, <1>4, <1>5 DEF Up, Mode, Resumes, Halting, Sent, Own
<1>7. Rest' /\ Processes' /\ Notes' /\ Preparing'
  BY <1>1, <1>2, <1>3, <1>5, <1>6 DEF Rest, Processes, Notes, Preparing, Preps
<1>8. Queue'
  BY <1>3, <1>4, <1>5, <1>6 DEF Queue, HeadOK
<1>9. Agree' /\ Unique'
  BY <1>1, <1>2, <1>3, <1>6 DEF Control, Agree, Unique, OfJobs, Pauses
<1>10. ASSUME NEW c \in Sent
       PROVE  (CallOK(c) /\ StartOK(c) /\ JobOK(c) /\ PauseOK(c) /\ FrameOK(c))'
  <2>1. CallOK(c)'
    BY <1>1, <1>2 DEF CallOK
  <2>2. FrameOK(c)'
    <3>1. c \in CallType
      BY ElementOfSeq, LenProperties DEF Sent, Members, Types
    <3> QED BY <1>1, <1>2, <3>1 DEF FrameOK, Types, CallType
  <2>3. (StartOK(c) /\ JobOK(c) /\ PauseOK(c))'
    BY <1>2 DEF StartOK, JobOK, PauseOK, IsControl, JobCalls
  <2> QED BY <2>1, <2>2, <2>3
<1> QED BY <1>2, <1>6, <1>7, <1>8, <1>9, <1>10 DEF Control

\* Stop, from the button.
LEMMA PressStopControls ==
  ASSUME Types, Control, PressStop, Orderly'
  PROVE  Control'
<1>1. /\ UNCHANGED <<client, sock, launched, proc, mode, calls, notes, prep>>
      /\ stopSimulation /\ ~Unconditional /\ ~ControlUnderWay
  BY DEF PressStop, connVars, Orderly
<1> QED BY <1>1, StopControls

\* Stop, from a firmware that could not be loaded.
LEMMA FirmwareControls ==
  ASSUME Types, Control, CheckFirmware, UNCHANGED <<mode, notes>>, Orderly'
  PROVE  Control'
<1>1. prep = "firmware" /\ prep' = "no" /\ UNCHANGED <<client, sock, launched, proc, calls>>
  BY DEF CheckFirmware, connVars
<1>2. CASE UNCHANGED <<status, rev, jobs, stopPending, pollVars, ghosts>>
  BY <1>1, <1>2, PrepMoves DEF pollVars
<1>3. CASE stopSimulation /\ overlapped' = (overlapped \/ Unconditional \/ ControlUnderWay)
  BY <1>1, <1>3, StopControls DEF Orderly
<1> QED BY <1>2, <1>3 DEF CheckFirmware

\* A process is launched.
LEMMA LaunchControls ==
  ASSUME Types, Control, launchCoreProcess, UNCHANGED <<mode, notes>>
  PROVE  Control'
<1>1. Rest /\ Processes /\ Notes /\ Queue /\ Preparing /\ Agree
      /\ \A c \in Sent : CallOK(c) /\ StartOK(c) /\ JobOK(c) /\ PauseOK(c) /\ FrameOK(c)
  BY DEF Control
<1>2. /\ prep = "launch"
      /\ UNCHANGED <<status, rev, client, sock, mode, notes, calls, jobs, stopPending, gen, timer>>
  BY DEF launchCoreProcess, pollVars
<1>3. CASE prep' = "no" /\ UNCHANGED <<launched, proc>>
  BY <1>2, <1>3, PrepMoves
<1>4. CASE /\ launched < MaxProcs /\ launched' = launched + 1 /\ prep' = "connect"
           /\ proc' = [proc EXCEPT ![launched + 1] = "alive"]
  <2>1. /\ launched + 1 \in Procs /\ launched \in Nat /\ client = 0
        /\ \A p \in Procs : p # launched + 1 => proc'[p] = proc[p]
        /\ proc'[launched + 1] = "alive" /\ proc[launched + 1] = "none"
    BY <1>1, <1>2, <1>4, BoundsAssumption DEF Types, Procs, Rest, Processes
  <2>2. /\ ~Up' /\ ~Up /\ Current' = Current /\ Resumes' = Resumes /\ Halting' = Halting
        /\ Sent' = Sent /\ Own' = Own
    BY <1>2, <2>1 DEF Up, Current, Resumes, Halting, Sent, Own
  <2>3. Rest'
    BY <1>1, <1>2, <1>4 DEF Rest, Preps
  <2>4. Processes'
    BY <1>1, <1>2, <1>4, <2>1, <2>2, BoundsAssumption DEF Processes, Procs
  <2>5. Notes' /\ Preparing' /\ Agree'
    BY <1>1, <1>2, <1>4, <2>2 DEF Notes, Preparing, Agree
  <2>6. Queue' /\ Unique'
    BY <1>1, <1>2, <1>4, <2>2 DEF Control, Queue, HeadOK, Behind, Unique, OfJobs, Pauses
  <2>7. ASSUME NEW c \in Sent
        PROVE  (CallOK(c) /\ StartOK(c) /\ JobOK(c) /\ PauseOK(c) /\ FrameOK(c))'
    <3>1. c \in CallType
      BY ElementOfSeq, LenProperties DEF Sent, Members, Types
    <3>2. c.p # launched + 1 /\ c.p \in Procs /\ c.p <= launched + 1
      BY <1>1, <2>1, <3>1, BoundsAssumption DEF CallOK, CallType, Procs
    <3>3. CallOK(c)' /\ FrameOK(c)'
      BY <1>1, <1>2, <1>4, <2>1, <3>2 DEF CallOK, FrameOK
    <3>4. StartOK(c)'
      BY <1>1, <1>2, <1>4, <2>2 DEF StartOK
    <3>5. JobOK(c)' /\ PauseOK(c)'
      BY <1>1, <1>2, <2>2 DEF JobOK, PauseOK
    <3> QED BY <3>3, <3>4, <3>5
  <2> QED BY <1>1, <1>2, <2>2, <2>3, <2>4, <2>5, <2>6, <2>7 DEF Control
<1> QED BY <1>3, <1>4 DEF launchCoreProcess

\* A preparation connects to the process it launched.
LEMMA ConnectControls ==
  ASSUME Types, Control, connectCoreClient, UNCHANGED <<mode, notes>>
  PROVE  Control'
<1>1. Rest /\ Processes /\ Notes /\ Queue /\ Preparing /\ Agree
      /\ \A c \in Sent : CallOK(c) /\ StartOK(c) /\ JobOK(c) /\ PauseOK(c) /\ FrameOK(c)
  BY DEF Control
<1>2. /\ prep = "connect"
      /\ UNCHANGED <<status, rev, client, launched, proc, mode, notes, calls, jobs, stopPending,
                     gen, timer>>
  BY DEF connectCoreClient, pollVars
<1>3. CASE prep' = "no" /\ UNCHANGED sock
  BY <1>2, <1>3, PrepMoves
<1>4. CASE sock' = [sock EXCEPT ![launched] = TRUE] /\ prep' \in {"connected", "no"}
  <2>1. /\ launched \in Procs /\ client = 0
        /\ \A p \in Procs : p # launched => sock'[p] = sock[p]
        /\ sock'[launched] = TRUE
    BY <1>1, <1>2, <1>4, BoundsAssumption DEF Types, Procs, Rest, Processes
  <2>2. /\ ~Up' /\ ~Up /\ Current' = Current /\ Resumes' = Resumes /\ Halting' = Halting
        /\ Sent' = Sent /\ Own' = Own
    BY <1>2, <2>1 DEF Up, Current, Resumes, Halting, Sent, Own
  <2>3. Rest'
    BY <1>1, <1>2, <1>4 DEF Rest, Preps
  <2>4. Processes'
    BY <1>1, <1>2, <1>4, <2>1, <2>2 DEF Processes
  <2>5. Notes' /\ Preparing' /\ Agree'
    BY <1>1, <1>2, <1>4, <2>2 DEF Notes, Preparing, Agree
  <2>6. Queue' /\ Unique'
    BY <1>1, <1>2, <1>4, <2>2 DEF Control, Queue, HeadOK, Behind, Unique, OfJobs, Pauses
  <2>7. ASSUME NEW c \in Sent
        PROVE  (CallOK(c) /\ StartOK(c) /\ JobOK(c) /\ PauseOK(c) /\ FrameOK(c))'
    <3>1. c \in CallType
      BY ElementOfSeq, LenProperties DEF Sent, Members, Types
    <3>2. c.p # launched /\ c.p \in Procs
      BY <1>1, <1>2, <3>1, BoundsAssumption DEF CallOK, CallType, Procs
    <3>3. CallOK(c)' /\ FrameOK(c)'
      BY <1>1, <1>2, <1>4, <2>1, <3>2 DEF CallOK, FrameOK
    <3>4. StartOK(c)'
      BY <1>1, <1>2, <1>4, <2>2 DEF StartOK
    <3>5. JobOK(c)' /\ PauseOK(c)'
      BY <1>1, <1>2, <2>2 DEF JobOK, PauseOK
    <3> QED BY <3>3, <3>4, <3>5
  <2> QED BY <1>1, <1>2, <2>2, <2>3, <2>4, <2>5, <2>6, <2>7 DEF Control
<1> QED BY <1>3, <1>4 DEF connectCoreClient

\* A job behind the first.
LEMMA SecondJob ==
  ASSUME NEW h \in JobType, NEW j \in JobType, NEW js, js = Append(<<h>>, j)
  PROVE  js \in Seq(JobType) /\ Len(js) = 2 /\ js[1] = h /\ js[2] = j /\ js # <<>> /\ Head(js) = h
<1>1. <<h>> \in Seq(JobType) /\ Len(<<h>>) = 1 /\ <<h>>[1] = h
  OBVIOUS
<1>2. js \in Seq(JobType) /\ Len(js) = 2 /\ js[1] = h /\ js[2] = j
  BY <1>1, AppendProperties
<1> QED BY <1>2

\* The rebuild a preparation awaits, its own or the one that waits in the queue.
LEMMA RebuildAwaited ==
  ASSUME Rest, Len(jobs) <= 2, queueCoreRebuild(TRUE),
         jobs # <<>> => Current.k = "rebuild" /\ ~Current.resume /\ ~Current.prep,
         Len(jobs) = 2 => /\ jobs[2].k = "rebuild" /\ jobs[2].phase = "queued"
                          /\ ~jobs[2].resume /\ ~jobs[2].prep /\ Current.phase # "queued"
  PROVE  /\ jobs' \in Seq(JobType) /\ jobs' # <<>> /\ Len(jobs') <= 2
         /\ Current'.k = "rebuild" /\ ~Current'.resume
         /\ Current'.phase = IF jobs = <<>> THEN "queued" ELSE Current.phase
         /\ Len(jobs') = 2 => /\ jobs'[2].k = "rebuild" /\ jobs'[2].phase = "queued"
                              /\ ~jobs'[2].resume /\ ~Current'.prep /\ Current'.phase # "queued"
<1>1. /\ jobs \in Seq(JobType) /\ DOMAIN jobs = 1..Len(jobs) /\ Len(jobs) \in Nat
      /\ jobs = <<>> <=> Len(jobs) = 0
      /\ jobs # <<>> => Current = jobs[1] /\ Current \in JobType
      /\ Len(jobs) = 2 => jobs[2] \in JobType
  BY JobFacts DEF Rest
<1>a. Len(jobs) = 0 \/ Len(jobs) = 1 \/ Len(jobs) = 2
  BY <1>1
<1> DEFINE queued == {i \in DOMAIN jobs : jobs[i].k = "rebuild" /\ jobs[i].phase = "queued"}
           flagged == [i \in DOMAIN jobs |-> [jobs[i] EXCEPT !.prep = @ \/ (TRUE /\ i \in queued)]]
<1>2. PICK j \in JobType : /\ j = [Job("rebuild") EXCEPT !.prep = TRUE]
                           /\ j.k = "rebuild" /\ j.phase = "queued" /\ ~j.resume
  <2>1. [Job("rebuild") EXCEPT !.prep = TRUE] \in JobType
    BY DEF Job, JobType
  <2> QED BY <2>1 DEF Job
<1>3. jobs' = IF queued = {} THEN Append(jobs, j) ELSE flagged
  BY <1>2 DEF queueCoreRebuild
<1>4. CASE Len(jobs) = 0
  <2>1. queued = {}
    BY <1>1, <1>4
  <2>2. jobs' = Append(jobs, j) /\ jobs = <<>>
    BY <1>1, <1>3, <1>4, <2>1
  <2>3. jobs' \in Seq(JobType) /\ Len(jobs') = 1 /\ jobs' # <<>> /\ Current' = j
    BY <2>2, FirstJob
  <2> QED BY <1>2, <2>2, <2>3
<1>5. CASE Len(jobs) # 0 /\ queued = {}
  <2>1. Len(jobs) = 1 /\ jobs[1].phase # "queued" /\ jobs # <<>>
    <3>1. jobs # <<>> /\ 1 \in DOMAIN jobs /\ Current = jobs[1]
      BY <1>1, <1>5
    <3>2. Len(jobs) # 2
      <4>1. Len(jobs) = 2 => 2 \in DOMAIN jobs
        BY <1>1
      <4> QED BY <1>5, <4>1
    <3> QED BY <1>a, <1>5, <3>1, <3>2
  <2>2. jobs' = Append(jobs, j)
    BY <1>3, <1>5
  <2>3. PICK h \in JobType : jobs = <<h>> /\ h = jobs[1] /\ h = Current
    <3>1. jobs = <<jobs[1]>>
      BY <1>1, <2>1
    <3> QED BY <1>1, <2>1, <3>1
  <2>6. /\ jobs' \in Seq(JobType) /\ Len(jobs') = 2 /\ jobs'[2] = j
        /\ jobs' # <<>> /\ Current' = h
    BY <2>2, <2>3, SecondJob DEF Current
  <2> QED BY <1>1, <1>2, <2>1, <2>3, <2>6
<1>6. CASE queued # {}
  <2>1. jobs' = flagged /\ Len(jobs) # 0
    <3> HIDE DEF flagged
    <3>1. jobs' = flagged
      BY <1>3, <1>6
    <3>2. Len(jobs) # 0
      BY <1>1, <1>6
    <3> QED BY <3>1, <3>2
  <2>2. \A i \in DOMAIN jobs : /\ [jobs[i] EXCEPT !.prep = @ \/ (TRUE /\ i \in queued)] \in JobType
                               /\ flagged[i].k = jobs[i].k /\ flagged[i].phase = jobs[i].phase
                               /\ flagged[i].resume = jobs[i].resume
                               /\ i \notin queued => flagged[i].prep = jobs[i].prep
    <3>1. \A i \in DOMAIN jobs : jobs[i] \in JobType
      BY <1>1
    <3> HIDE DEF queued
    <3> QED BY <3>1 DEF JobType
  <2>3. jobs' \in Seq(JobType) /\ Len(jobs') = Len(jobs)
    <3>1. flagged \in [1..Len(jobs) -> JobType]
      BY <1>1, <2>2
    <3> HIDE DEF flagged
    <3>2. flagged \in Seq(JobType) /\ DOMAIN flagged = 1..Len(jobs)
      BY <1>1, <3>1, SeqDef
    <3> QED BY <1>1, <2>1, <3>2, LenProperties
  <2>4. jobs' # <<>> /\ Current' = jobs'[1]
    BY <2>1, <2>3 DEF Current
  <2>5. 1 \in DOMAIN jobs /\ Current = jobs[1] /\ jobs # <<>>
    BY <1>1, <2>1
  <2>6. Current'.k = "rebuild" /\ ~Current'.resume /\ Current'.phase = Current.phase
    <3> HIDE DEF flagged
    <3> QED BY <2>1, <2>2, <2>4, <2>5
  <2>7. ASSUME Len(jobs) = 2
        PROVE  /\ jobs'[2].k = "rebuild" /\ jobs'[2].phase = "queued"
               /\ ~jobs'[2].resume /\ ~Current'.prep /\ Current'.phase # "queued"
    <3>1. 1 \notin queued /\ 2 \in DOMAIN jobs
      BY <1>1, <2>5, <2>7
    <3> HIDE DEF flagged, queued
    <3> QED BY <2>1, <2>2, <2>4, <2>5, <2>6, <2>7, <3>1
  <2> QED BY <2>3, <2>4, <2>5, <2>6, <2>7
<1> QED BY <1>4, <1>5, <1>6

\* A preparation publishes its client, which runs nothing.
LEMMA PublishControls ==
  ASSUME Types, Control, publishClient, UNCHANGED <<mode, notes>>
  PROVE  Control'
<1>1. Rest /\ Processes /\ Notes /\ Queue /\ Preparing /\ Agree
      /\ \A c \in Sent : CallOK(c) /\ StartOK(c) /\ JobOK(c) /\ PauseOK(c) /\ FrameOK(c)
  BY DEF Control
<1>2. /\ prep = "connected" /\ prep' = "catalog" /\ client' = launched
      /\ UNCHANGED <<status, rev, sock, launched, proc, mode, notes, calls, jobs, stopPending>>
      /\ UNCHANGED <<gen, timer>>
  BY DEF publishClient, pollVars
<1>3. client = 0 /\ status = "stopped" /\ notes = {} /\ launched \in Procs /\ launched # 0
  BY <1>1, <1>2, BoundsAssumption DEF Processes, Preparing, Types, Procs
<1>4. jobs # <<>> => Current.k = "rebuild" /\ ~Current.resume
  BY <1>1, <1>2 DEF Preparing
<1>5. Current' = Current /\ ~Resumes' /\ ~Halting' /\ Sent' = Sent
  BY <1>2, <1>4 DEF Current, Resumes, Halting, Sent
<1>6. Up' => Mode' = "stopped"
  BY <1>1, <1>2, <1>3 DEF Up, Mode, Processes
<1>8. Rest'
  BY <1>1, <1>2 DEF Rest, Preps
<1>9. Processes'
  <2>1. launched <= launched /\ proc[launched] # "none"
    BY <1>1, <1>3, BoundsAssumption DEF Processes, Types, Procs
  <2>2. \A p \in Procs : proc[p] = "alive" /\ mode[p] # "stopped" => sock[p] /\ p = client'
    BY <1>1, <1>3, BoundsAssumption DEF Processes, Procs
  <2> QED BY <1>1, <1>2, <1>3, <2>1, <2>2 DEF Processes, Types
<1>10. Notes' /\ Preparing' /\ Agree'
  BY <1>2, <1>3, <1>4, <1>5, <1>6 DEF Notes, Preparing, Agree
<1>11. Queue'
  BY <1>1, <1>2, <1>5, <1>6 DEF Queue, HeadOK, Behind
<1>12. Unique'
  <2>1. \A i \in DOMAIN calls : calls[i] \in Sent
    BY DEF Sent, Members
  <2>2. AtMostOne(calls, Own')
    BY <1>1, <1>2, <2>1 DEF AtMostOne, Own, StartOK, CallOK
  <2> QED BY <1>2, <2>2 DEF Control, Unique, OfJobs, Pauses
<1>13. ASSUME NEW c \in Sent
       PROVE  (CallOK(c) /\ StartOK(c) /\ JobOK(c) /\ PauseOK(c) /\ FrameOK(c))'
  <2>1. CallOK(c)' /\ FrameOK(c)'
    BY <1>1, <1>2, <1>3 DEF CallOK, FrameOK
  <2>2. StartOK(c)'
    BY <1>1, <1>2, <1>3 DEF StartOK, CallOK
  <2>3. JobOK(c)' /\ PauseOK(c)'
    BY <1>1, <1>2, <1>3 DEF JobOK, PauseOK, CallOK
  <2> QED BY <2>1, <2>2, <2>3
<1> QED BY <1>1, <1>2, <1>5, <1>8, <1>9, <1>10, <1>11, <1>12, <1>13 DEF Control

\* A preparation asks for a rebuild, or gives up over the catalog.
LEMMA CatalogControls ==
  ASSUME Types, Control, RefreshCatalog, UNCHANGED <<mode, notes>>
  PROVE  Control'
<1>1. Rest /\ Processes /\ Notes /\ Queue /\ Preparing /\ Agree
      /\ \A c \in Sent : CallOK(c) /\ StartOK(c) /\ JobOK(c) /\ PauseOK(c) /\ FrameOK(c)
  BY DEF Control
<1>2. /\ prep = "catalog"
      /\ UNCHANGED <<status, rev, client, sock, launched, proc, mode, notes, calls, stopPending>>
      /\ UNCHANGED <<gen, timer>>
  BY DEF RefreshCatalog, connVars, pollVars
<1>3. CASE prep' = "no" /\ UNCHANGED jobs
  BY <1>2, <1>3, PrepMoves
<1>4. CASE queueCoreRebuild(TRUE) /\ prep' = "rebuild"
  <2>1. /\ jobs' \in Seq(JobType) /\ jobs' # <<>> /\ Len(jobs') <= 2
        /\ Current'.k = "rebuild" /\ ~Current'.resume
        /\ Len(jobs') = 2 => /\ jobs'[2].k = "rebuild" /\ jobs'[2].phase = "queued"
                             /\ ~jobs'[2].resume /\ ~Current'.prep /\ Current'.phase # "queued"
        /\ Current'.phase = (IF jobs = <<>> THEN "queued" ELSE Current.phase)
        /\ Current'.phase \notin {"stop", "run"} /\ ~stopPending
    <3>1. Len(jobs) <= 2
      BY <1>1 DEF Queue
    <3>2. jobs # <<>> => /\ Current.k = "rebuild" /\ ~Current.resume /\ ~Current.prep
                         /\ Current.phase \notin {"stop", "run"}
      BY <1>1, <1>2 DEF Queue, HeadOK, Preparing
    <3>3. Len(jobs) = 2 => /\ jobs[2].k = "rebuild" /\ jobs[2].phase = "queued" /\ ~jobs[2].resume
                           /\ ~jobs[2].prep /\ Current.phase # "queued"
      BY <1>1, <1>2, <3>2, JobFacts DEF Queue, Behind
    <3>4. ~stopPending
      BY <1>1, <3>2 DEF Queue, HeadOK
    <3> QED BY <1>1, <1>4, <3>1, <3>2, <3>3, <3>4, RebuildAwaited
  <2>2. /\ Up' = Up /\ Mode' = Mode /\ Sent' = Sent /\ Own' = Own
        /\ ~Resumes' /\ ~Halting' /\ ~Resumes /\ ~Halting
    BY <1>1, <1>2, <2>1 DEF Up, Mode, Sent, Own, Resumes, Halting, Preparing
  <2>3. Rest'
    BY <1>1, <1>2, <1>4, <2>1 DEF Rest, Preps
  <2>4. Processes'
    BY <1>1, <1>2, <1>4, <2>2 DEF Processes
  <2>5. Notes' /\ Preparing' /\ Agree'
    BY <1>1, <1>2, <1>4, <2>1, <2>2 DEF Notes, Preparing, Agree
  <2>6. Queue'
    BY <1>2, <1>4, <2>1, <2>2 DEF Queue, HeadOK, Behind
  <2>7. Unique'
    BY <1>2, <2>2 DEF Control, Unique, OfJobs, Pauses
  <2>8. ASSUME NEW c \in Sent
        PROVE  (CallOK(c) /\ StartOK(c) /\ JobOK(c) /\ PauseOK(c) /\ FrameOK(c))'
    <3>1. CallOK(c)' /\ FrameOK(c)'
      BY <1>1, <1>2, <1>4 DEF CallOK, FrameOK
    <3>2. StartOK(c)'
      BY <1>1, <1>2, <1>4, <2>2 DEF StartOK
    <3>3. JobOK(c)'
      BY <1>1, <1>2, <2>1, <2>2 DEF JobOK
    <3>4. PauseOK(c)'
      BY <1>1, <1>2, <2>2 DEF PauseOK, Preparing
    <3> QED BY <3>1, <3>2, <3>3, <3>4
  <2> QED BY <1>1, <1>2, <2>2, <2>3, <2>4, <2>5, <2>6, <2>7, <2>8 DEF Control
<1> QED BY <1>3, <1>4 DEF RefreshCatalog

-----------------------------------------------------------------------------
(* Conditions, crashes and exits *)

\* A condition pauses the Core.
LEMMA TriggerControls ==
  ASSUME Types, Control, TriggerCondition, Orderly'
  PROVE  Control'
<1>1. Rest /\ Processes /\ Notes /\ Queue /\ Preparing /\ Agree
      /\ \A c \in Sent : CallOK(c) /\ StartOK(c) /\ JobOK(c) /\ PauseOK(c) /\ FrameOK(c)
  BY DEF Control
<1>2. /\ UNCHANGED <<status, rev, client, sock, launched, proc, jobs, stopPending,
                     gen, timer, calls, prep>>
      /\ notes = {} /\ jobs = <<>>
      /\ \A c \in Sent : c.k # "pause"
  BY DEF TriggerCondition, connVars, pollVars, ctrlVars, Orderly, Unconditional, Sent, Members
<1>3. /\ client \in Procs /\ client # 0 /\ proc[client] = "alive" /\ mode[client] = "running"
      /\ sock[client]
      /\ mode' = [mode EXCEPT ![client] = "paused"] /\ notes' = {client}
  <2>1. PICK p \in Procs : /\ proc[p] = "alive" /\ mode[p] = "running"
                           /\ mode' = [mode EXCEPT ![p] = "paused"] /\ notes' = notes \cup {p}
    BY DEF TriggerCondition
  <2>2. p = client /\ sock[p] /\ p # 0
    BY <1>1, <2>1, BoundsAssumption DEF Processes, Procs
  <2> QED BY <1>2, <2>1, <2>2
<1>4. /\ Up' /\ Up /\ Mode = "running" /\ Mode' = "paused" /\ ~Resumes' /\ ~Halting' /\ ~Resumes
      /\ ~Halting /\ Sent' = Sent /\ Own' = Own /\ ~stopPending
      /\ \A p \in Procs : p # client => mode'[p] = mode[p]
  BY <1>1, <1>2, <1>3 DEF Up, Mode, Resumes, Halting, Sent, Own, Queue, Rest
<1>5. prep \notin {"launch", "connect", "connected", "catalog", "rebuild", "ready"}
  BY <1>1, <1>4 DEF Preparing, Agree
<1>6. Rest'
  BY <1>1, <1>2, <1>3 DEF Rest, Statuses
<1>7. Processes'
  BY <1>1, <1>2, <1>3, <1>4 DEF Processes
<1>8. Notes' /\ Preparing'
  BY <1>2, <1>3, <1>4, <1>5 DEF Notes, Preparing
<1>9. Queue' /\ Unique'
  BY <1>1, <1>2, <1>4 DEF Control, Queue, Unique, OfJobs, Pauses
<1>10. Agree'
  BY <1>1, <1>2, <1>3, <1>4 DEF Agree
<1>11. ASSUME NEW c \in Sent
       PROVE  (CallOK(c) /\ StartOK(c) /\ JobOK(c) /\ PauseOK(c) /\ FrameOK(c))'
  <2>1. CallOK(c)' /\ FrameOK(c)'
    BY <1>1, <1>2 DEF CallOK, FrameOK
  <2>2. StartOK(c)'
    BY <1>1, <1>2, <1>3, <1>4 DEF StartOK
  <2>3. JobOK(c)' /\ PauseOK(c)'
    BY <1>1, <1>2 DEF JobOK, PauseOK
  <2> QED BY <2>1, <2>2, <2>3
<1> QED BY <1>1, <1>2, <1>4, <1>6, <1>7, <1>8, <1>9, <1>10, <1>11 DEF Control

\* The extension learns of the condition.
LEMMA ReceiveControls ==
  ASSUME Types, Control, ReceiveCondition
  PROVE  Control'
<1>1. Rest /\ Processes /\ Notes /\ Queue /\ Preparing /\ Agree
      /\ \A c \in Sent : CallOK(c) /\ StartOK(c) /\ JobOK(c) /\ PauseOK(c) /\ FrameOK(c)
  BY DEF Control
<1>2. /\ UNCHANGED <<client, sock, launched, proc, mode, jobs, stopPending, calls, prep>>
      /\ status' = "paused" /\ rev' = rev + 1 /\ gen' = gen + 1 /\ timer' = 0
  BY DEF ReceiveCondition, connVars, ctrlVars, stopVoltageReadoutPolling, setSimulationStatus
<1>3. /\ notes # {} /\ notes' = {} /\ client \in Procs /\ client # 0 /\ sock[client]
      /\ proc[client] \in {"alive", "dead"}
  BY <1>1, BoundsAssumption DEF ReceiveCondition, Notes, Rest, Procs
<1>4. /\ Up' = Up /\ Mode' = Mode /\ jobs = <<>> /\ (Up => Mode = "paused")
      /\ ~Resumes' /\ ~Halting' /\ Sent' = Sent /\ Own' = Own /\ ~stopPending
      /\ prep \notin {"launch", "connect", "connected", "catalog", "rebuild", "ready"}
  BY <1>1, <1>2, <1>3 DEF Up, Mode, Resumes, Halting, Sent, Own, Queue, Notes, Preparing
<1>5. Rest'
  BY <1>1, <1>2, <1>3 DEF Rest
<1>6. Processes'
  BY <1>1, <1>2, <1>3, <1>4 DEF Processes
<1>7. Notes' /\ Preparing' /\ Agree'
  BY <1>2, <1>3, <1>4 DEF Notes, Preparing, Agree
<1>8. Queue' /\ Unique'
  BY <1>1, <1>2, <1>4 DEF Control, Queue, Unique, OfJobs, Pauses
<1>9. ASSUME NEW c \in Sent
      PROVE  (CallOK(c) /\ StartOK(c) /\ JobOK(c) /\ PauseOK(c) /\ FrameOK(c))'
  <2>0. c \in CallType
    BY ElementOfSeq, LenProperties DEF Sent, Members, Types
  <2>1. CallOK(c)'
    BY <1>1, <1>2 DEF CallOK
  <2>2. FrameOK(c)'
    <3>1. c.gen \in Int /\ gen \in Int
      BY <2>0 DEF Types, CallType
    <3>2. FrameOK(c)
      BY <1>1
    <3> QED BY <1>2, <3>1, <3>2 DEF FrameOK
  <2>3. c.k = "start" => c.rev <= rev /\ c.rev <= rev + 1 /\ c.rev # rev + 1
    BY <1>1, <2>0 DEF StartOK, Types, CallType
  <2>4. StartOK(c)'
    BY <1>1, <1>2, <1>3, <1>4, <2>3 DEF StartOK
  <2>5. JobOK(c)' /\ PauseOK(c)'
    BY <1>1, <1>2, <1>3, <1>4 DEF JobOK, PauseOK
  <2> QED BY <2>1, <2>2, <2>4, <2>5
<1> QED BY <1>2, <1>4, <1>5, <1>6, <1>7, <1>8, <1>9 DEF Control

\* A process dies.
LEMMA CrashControls ==
  ASSUME Types, Control, Crash
  PROVE  Control'
<1>1. Rest /\ Processes /\ Notes /\ Queue /\ Preparing /\ Agree
      /\ \A c \in Sent : CallOK(c) /\ StartOK(c) /\ JobOK(c) /\ PauseOK(c) /\ FrameOK(c)
  BY DEF Control
<1>2. UNCHANGED <<status, rev, client, sock, launched, mode, notes, jobs, stopPending,
                  gen, timer, calls, prep>>
  BY DEF Crash, pollVars, ctrlVars
<1>3. PICK p \in Procs : proc[p] = "alive" /\ proc' = [proc EXCEPT ![p] = "dead"]
  BY DEF Crash
<1>4. \A q \in Procs : proc'[q] = IF q = p THEN "dead" ELSE proc[q]
  BY <1>1, <1>3 DEF Rest
<1>5. /\ Up' => Up
      /\ Mode' = Mode /\ Current' = Current /\ Resumes' = Resumes /\ Halting' = Halting
      /\ Sent' = Sent /\ Own' = Own
  <2>1. client # 0 => client \in Procs
    BY BoundsAssumption DEF Types, Procs
  <2> QED BY <1>2, <1>4, <2>1 DEF Up, Mode, Current, Resumes, Halting, Sent, Own
<1>6. Rest'
  BY <1>1, <1>2, <1>3 DEF Rest
<1>7. Processes'
  <2>1. client # 0 => client \in Procs
    BY BoundsAssumption DEF Types, Procs
  <2> QED BY <1>1, <1>2, <1>3, <1>4, <1>5, <2>1 DEF Processes
<1>8. Notes' /\ Preparing' /\ Agree'
  BY <1>1, <1>2, <1>4, <1>5 DEF Notes, Preparing, Agree, Rest
<1>9. Queue' /\ Unique'
  BY <1>1, <1>2, <1>5 DEF Control, Queue, HeadOK, Behind, Unique, OfJobs, Pauses
<1>10. ASSUME NEW c \in Sent
       PROVE  (CallOK(c) /\ StartOK(c) /\ JobOK(c) /\ PauseOK(c) /\ FrameOK(c))'
  <2>0. c \in CallType
    BY ElementOfSeq, LenProperties DEF Sent, Members, Types
  <2>1. c.p \in Procs
    BY <1>1, <2>0, BoundsAssumption DEF CallOK, CallType, Procs
  <2>2. CallOK(c)' /\ FrameOK(c)'
    BY <1>1, <1>2, <1>3, <1>4, <2>1 DEF CallOK, FrameOK
  <2>3. StartOK(c)'
    BY <1>1, <1>2, <1>5 DEF StartOK
  <2>4. JobOK(c)' /\ PauseOK(c)'
    BY <1>1, <1>2, <1>5 DEF JobOK, PauseOK
  <2> QED BY <2>2, <2>3, <2>4
<1> QED BY <1>1, <1>2, <1>5, <1>6, <1>7, <1>8, <1>9, <1>10 DEF Control

\* The exit of the client's process takes status and client back.
LEMMA ExitControls ==
  ASSUME Types, Control, ProcessExit, Orderly'
  PROVE  Control'
<1>1. Rest /\ Processes /\ Notes /\ Queue /\ Preparing /\ Agree
      /\ \A c \in Sent : CallOK(c) /\ StartOK(c) /\ JobOK(c) /\ PauseOK(c) /\ FrameOK(c)
  BY DEF Control
<1>2. /\ UNCHANGED <<sock, launched, mode, notes, jobs, stopPending, gen, timer, calls, prep>>
      /\ client' = 0 /\ status' = "stopped" /\ rev' = rev + 1
  BY DEF ProcessExit, pollVars, ctrlVars, setSimulationStatus
<1>3. PICK p \in Procs : /\ proc[p] = "dead" /\ proc' = [proc EXCEPT ![p] = "reaped"]
                         /\ client \in {0, p} /\ ~Unconditional
  BY DEF ProcessExit, Orderly
<1>4. /\ \A q \in Procs : proc'[q] = IF q = p THEN "reaped" ELSE proc[q]
      /\ \A q \in Procs : q # 0
  BY <1>1, <1>3, BoundsAssumption DEF Rest, Procs
<1>5. /\ notes = {} /\ jobs = <<>> /\ ~stopPending /\ \A c \in Sent : c.k # "pause"
      /\ ~Up' /\ ~Resumes' /\ ~Halting' /\ Sent' = Sent
  BY <1>1, <1>2, <1>3 DEF Unconditional, Up, Resumes, Halting, Sent, Members, Queue
<1>6. Rest'
  BY <1>1, <1>2, <1>3 DEF Rest
<1>7. Processes'
  <2>1. launched \in Nat /\ 0 <= launched
    BY BoundsAssumption DEF Types
  <2> QED BY <1>1, <1>2, <1>3, <1>4, <1>5, <2>1 DEF Processes
<1>8. Notes' /\ Preparing' /\ Agree' /\ Queue'
  BY <1>1, <1>2, <1>5 DEF Notes, Preparing, Agree, Queue
<1>9. Unique'
  <2>1. \A i \in DOMAIN calls : calls[i] \in Own' => calls[i] \in Own
    <3>1. \A i \in DOMAIN calls : calls[i] \in Sent
      BY DEF Sent, Members
    <3> QED BY <1>1, <1>2, <3>1 DEF Own, CallOK
  <2>2. AtMostOne(calls, Own')
    BY <2>1 DEF Control, Unique, AtMostOne
  <2> QED BY <1>2, <2>2 DEF Control, Unique, OfJobs, Pauses
<1>10. ASSUME NEW c \in Sent
       PROVE  (CallOK(c) /\ StartOK(c) /\ JobOK(c) /\ PauseOK(c) /\ FrameOK(c))'
  <2>0. c \in CallType
    BY ElementOfSeq, LenProperties DEF Sent, Members, Types
  <2>1. c.p \in Procs /\ c.p # 0
    BY <1>1, <2>0, BoundsAssumption DEF CallOK, CallType, Procs
  <2>2. CallOK(c)' /\ FrameOK(c)'
    BY <1>1, <1>2, <1>3, <1>4, <2>1 DEF CallOK, FrameOK
  <2>3. c.k = "start" => c.rev <= rev + 1 /\ c.rev # rev + 1
    BY <1>1, <2>0 DEF StartOK, Types, CallType
  <2>4. StartOK(c)'
    BY <1>1, <1>2, <2>1, <2>3 DEF StartOK
  <2>5. JobOK(c)' /\ PauseOK(c)'
    BY <1>1, <1>5 DEF JobOK, PauseOK
  <2> QED BY <2>2, <2>4, <2>5
<1> QED BY <1>1, <1>2, <1>5, <1>6, <1>7, <1>8, <1>9, <1>10 DEF Control

\* A closed socket rejects its requests.
LEMMA SocketControls ==
  ASSUME Types, Control, SocketClosed
  PROVE  Control'
<1>1. Rest /\ Processes /\ Notes /\ Queue /\ Preparing /\ Agree
      /\ \A c \in Sent : CallOK(c) /\ StartOK(c) /\ JobOK(c) /\ PauseOK(c) /\ FrameOK(c)
  BY DEF Control
<1>2. UNCHANGED <<status, rev, client, launched, proc, mode, jobs, stopPending, gen, timer, prep>>
  BY DEF SocketClosed, pollVars, ctrlVars
<1>3. PICK p \in Procs : /\ sock[p] /\ proc[p] \in {"dead", "reaped"}
                         /\ sock' = [sock EXCEPT ![p] = FALSE] /\ notes' = notes \ {p}
                         /\ calls' = [i \in DOMAIN calls |->
                               IF calls[i].p = p THEN [calls[i] EXCEPT !.res = "err"] ELSE calls[i]]
  BY DEF SocketClosed
<1>4. \A q \in Procs : sock'[q] = IF q = p THEN FALSE ELSE sock[q]
  BY <1>1, <1>3 DEF Rest
<1>5. /\ Up' = Up /\ Mode' = Mode /\ Current' = Current /\ Resumes' = Resumes
      /\ Halting' = Halting /\ Own' = Own /\ (Up => client # p)
  BY <1>2, <1>3 DEF Up, Mode, Current, Resumes, Halting, Own
<1>6. Up => notes' = notes
  BY <1>1, <1>3, <1>5 DEF Notes
<1>7. /\ DOMAIN calls' = DOMAIN calls
      /\ \A i \in DOMAIN calls :
            /\ calls[i].p # p => calls'[i] = calls[i]
            /\ calls[i].p = p => calls'[i] = [calls[i] EXCEPT !.res = "err"]
      /\ \A i \in DOMAIN calls : calls[i] \in CallType /\ calls[i] \in Sent
  <2>1. \A i \in DOMAIN calls : calls[i] \in CallType
    BY ElementOfSeq, LenProperties DEF Types
  <2> QED BY <1>3, <2>1 DEF Sent, Members
<1>8. ASSUME NEW c \in CallType
      PROVE  LET d == [c EXCEPT !.res = "err"]
             IN /\ d \in CallType /\ d.p = c.p /\ d.k = c.k /\ d.awaited = c.awaited
                /\ d.rev = c.rev /\ d.before = c.before /\ d.gen = c.gen /\ d.res = "err"
  BY DEF CallType
<1>9. ASSUME NEW d \in Sent'
      PROVE  \/ d \in Sent /\ d.p # p
             \/ \E c \in Sent : c \in CallType /\ c.p = p /\ d = [c EXCEPT !.res = "err"]
  BY <1>7 DEF Sent, Members
<1>10. ASSUME NEW c \in Sent, c.p # p PROVE c \in Sent'
  BY <1>7, <1>10 DEF Sent, Members
<1>11. Rest'
  BY <1>1, <1>2, <1>3 DEF Rest
<1>12. Processes'
  <2>1. client # 0 => client \in Procs
    BY BoundsAssumption DEF Types, Procs
  <2> QED BY <1>1, <1>2, <1>3, <1>4, <1>5, <2>1 DEF Processes
<1>13. Notes' /\ Preparing'
  BY <1>1, <1>2, <1>3, <1>5 DEF Notes, Preparing
<1>14. Agree'
  <2>1. \A c \in Sent : c.k = "pause" => c.p = client
    BY <1>1 DEF PauseOK
  <2> QED BY <1>1, <1>2, <1>5, <1>6, <1>10, <2>1 DEF Agree
<1>15. Queue'
  BY <1>1, <1>2, <1>5 DEF Queue, HeadOK, Behind
<1>16. Unique'
  <2>1. \A i \in DOMAIN calls : /\ calls'[i] \in Own => calls[i] \in Own
                                /\ calls'[i] \in OfJobs => calls[i] \in OfJobs
                                /\ calls'[i] \in Pauses => calls[i] \in Pauses
    <3> TAKE i \in DOMAIN calls
    <3>1. CASE calls[i].p # p
      BY <1>7, <3>1
    <3>2. CASE calls[i].p = p
      <4>1. calls'[i] = [calls[i] EXCEPT !.res = "err"] /\ calls[i] \in CallType
        BY <1>7, <3>2
      <4>2. calls'[i].p = calls[i].p /\ calls'[i].k = calls[i].k /\ calls'[i].gen = calls[i].gen
        BY <1>8, <4>1
      <4> QED BY <4>1, <4>2 DEF Own, OfJobs, Pauses
    <3> QED BY <3>1, <3>2
  <2>2. AtMostOne(calls', Own) /\ AtMostOne(calls', OfJobs) /\ AtMostOne(calls', Pauses)
    BY <1>7, <2>1 DEF Control, Unique, AtMostOne
  <2> QED BY <1>5, <2>2 DEF Unique, OfJobs, Pauses
<1>17. ASSUME NEW c \in Sent, c.p # p
       PROVE  (CallOK(c) /\ StartOK(c) /\ JobOK(c) /\ PauseOK(c) /\ FrameOK(c))'
  <2>0. c \in CallType
    BY ElementOfSeq, LenProperties DEF Sent, Members, Types
  <2>1. c.p \in Procs
    BY <1>1, <2>0, BoundsAssumption DEF CallOK, CallType, Procs
  <2>2. CallOK(c)' /\ FrameOK(c)'
    BY <1>1, <1>2, <1>4, <1>17, <2>1 DEF CallOK, FrameOK
  <2>3. StartOK(c)'
    BY <1>1, <1>2, <1>5, <1>6 DEF StartOK
  <2>4. JobOK(c)' /\ PauseOK(c)'
    BY <1>1, <1>2, <1>3, <1>5 DEF JobOK, PauseOK
  <2> QED BY <2>2, <2>3, <2>4
<1>18. ASSUME NEW c \in Sent, c \in CallType, c.p = p, NEW d \in CallType,
              d.p = c.p, d.k = c.k, d.awaited = c.awaited, d.rev = c.rev,
              d.before = c.before, d.gen = c.gen, d.res = "err"
       PROVE  (CallOK(d) /\ StartOK(d) /\ JobOK(d) /\ PauseOK(d) /\ FrameOK(d))'
  <2>1. CallOK(d)' /\ FrameOK(d)'
    BY <1>1, <1>2, <1>3, <1>4, <1>18 DEF CallOK, FrameOK
  <2>2. StartOK(d)'
    BY <1>1, <1>2, <1>5, <1>18 DEF StartOK
  <2>3. JobOK(d)' /\ PauseOK(d)'
    BY <1>1, <1>2, <1>3, <1>5, <1>18 DEF JobOK, PauseOK
  <2> QED BY <2>1, <2>2, <2>3
<1>19. \A d \in Sent' : (CallOK(d) /\ StartOK(d) /\ JobOK(d) /\ PauseOK(d) /\ FrameOK(d))'
  <2> SUFFICES ASSUME NEW d \in Sent'
               PROVE  (CallOK(d) /\ StartOK(d) /\ JobOK(d) /\ PauseOK(d) /\ FrameOK(d))'
    OBVIOUS
  <2>1. CASE d \in Sent /\ d.p # p
    BY <1>17, <2>1
  <2>2. CASE \E c \in Sent : c \in CallType /\ c.p = p /\ d = [c EXCEPT !.res = "err"]
    BY <1>8, <1>18, <2>2
  <2> QED BY <1>9, <2>1, <2>2
<1> QED BY <1>1, <1>2, <1>11, <1>12, <1>13, <1>14, <1>15, <1>16, <1>19 DEF Control

-----------------------------------------------------------------------------
(* Answers *)

\* The Core answers request i, c, which becomes n, and goes on as m.
Answers(i, c, n, m) ==
    /\ c = calls[i] /\ c.res = "sent" /\ proc[c.p] = "alive"
    /\ n.res \in {"ok", "refused"} /\ (n.res = "refused" => c.k \in {"start", "jobRun"})
    /\ n.p = c.p /\ n.k = c.k /\ n.awaited = c.awaited /\ n.rev = c.rev /\ n.before = c.before
    /\ n.gen = c.gen
    /\ calls' = [calls EXCEPT ![i] = n] /\ mode' = [mode EXCEPT ![client] = m]
    /\ UNCHANGED <<status, rev, client, sock, launched, proc, notes, jobs, stopPending, prep,
                   gen, timer>>

\* What follows whatever the request was.
LEMMA Executed ==
  ASSUME Types, Control, NEW i \in DOMAIN calls, NEW c \in CallType, NEW n \in CallType,
         NEW m \in Statuses, Answers(i, c, n, m)
  PROVE  /\ Up /\ Up' /\ c \in Sent /\ c.p = client /\ sock[client] /\ Mode' = m
         /\ Sent' \subseteq Sent \cup {n} /\ n \in Sent'
         /\ \A d \in Sent : d # c => d \in Sent'
         /\ \A d \in Sent' : /\ c \in Own /\ d \in Own => d = n
                             /\ c \in OfJobs /\ d \in OfJobs => d = n
                             /\ c \in Pauses /\ d \in Pauses => d = n
         /\ Current' = Current /\ Resumes' = Resumes /\ Halting' = Halting
         /\ Rest' /\ Processes' /\ Preparing' /\ Unique'
         /\ \A d \in Sent' : CallOK(d)' /\ FrameOK(d)'
<1> USE DEF Answers
<1>1. Rest /\ Processes /\ Preparing /\ Unique
      /\ \A d \in Sent : CallOK(d) /\ FrameOK(d)
  BY DEF Control
<1>2. c \in Sent /\ calls \in Seq(CallType)
  BY DEF Sent, Members, Types
<1>3. c.p = client /\ sock[client] /\ client # 0 /\ Up /\ client \in Procs
  BY <1>1, <1>2, BoundsAssumption DEF CallOK, Up, CallType, Procs
<1>4. /\ Up' /\ Mode' = m /\ \A q \in Procs : q # client => mode'[q] = mode[q]
      /\ Current' = Current /\ Resumes' = Resumes /\ Halting' = Halting /\ Own' = Own
  BY <1>1, <1>3 DEF Up, Mode, Current, Resumes, Halting, Rest, Own
<1>a. calls' = [calls EXCEPT ![i] = n]
  OBVIOUS
<1>b. /\ Members(calls') \subseteq Members(calls) \cup {n} /\ n \in Members(calls')
      /\ \A d \in Members(calls) : d # calls[i] => d \in Members(calls')
  <2> HIDE DEF Answers
  <2>1. calls \in Seq(CallType)
    BY <1>2
  <2>2. /\ DOMAIN calls' = DOMAIN calls
        /\ \A j \in DOMAIN calls : calls'[j] = IF j = i THEN n ELSE calls[j]
    BY <2>1, <1>a
  <2> QED BY <2>2 DEF Members
<1>c. \A S : AtMostOne(calls, S) /\ (n \in S => calls[i] \in S) => AtMostOne(calls', S)
  BY <1>2, <1>a, MembersReplace
<1>d. \A S : AtMostOne(calls, S) /\ calls[i] \in S => \A d \in Members(calls') : d \in S => d = n
  BY <1>2, <1>a, MembersReplace
<1>5. /\ Sent' \subseteq Sent \cup {n} /\ n \in Sent'
      /\ \A d \in Sent : d # c => d \in Sent'
  BY <1>b DEF Sent
<1>6. /\ n \in Own => c \in Own
      /\ n \in OfJobs => c \in OfJobs
      /\ n \in Pauses => c \in Pauses
  BY DEF Own, OfJobs, Pauses
<1>7. AtMostOne(calls, Own) /\ AtMostOne(calls, OfJobs) /\ AtMostOne(calls, Pauses)
  BY <1>1 DEF Unique
<1>8. /\ AtMostOne(calls', Own) /\ AtMostOne(calls', OfJobs) /\ AtMostOne(calls', Pauses)
  BY <1>6, <1>7, <1>c
<1>9. \A d \in Sent' : /\ c \in Own /\ d \in Own => d = n
                       /\ c \in OfJobs /\ d \in OfJobs => d = n
                       /\ c \in Pauses /\ d \in Pauses => d = n
  BY <1>7, <1>d DEF Sent
<1>10. Unique'
  BY <1>4, <1>8 DEF Unique, OfJobs, Pauses
<1>11. Rest' /\ Preparing'
  BY <1>1, <1>4 DEF Rest, Preparing
<1>12. Processes'
  BY <1>1, <1>3, <1>4 DEF Processes, Up
<1>13. \A d \in Sent : CallOK(d)' /\ FrameOK(d)'
  BY <1>1 DEF CallOK, FrameOK
<1>14. CallOK(n)' /\ FrameOK(n)'
  BY <1>1, <1>2, <1>3 DEF CallOK, FrameOK, Up
<1> QED BY <1>2, <1>3, <1>4, <1>5, <1>9, <1>10, <1>11, <1>12, <1>13, <1>14

\* Once it has done what was asked for, nothing else under way is about something different.
LEMMA ExecutedStart ==
  ASSUME Types, Control, Up, Up', Mode' = "running", NEW c \in Sent, c.k = "start",
         c \in CallType, c.p = client, c.res = "sent",
         NEW n \in Sent', n.res = "ok", Sent' \subseteq Sent \cup {n},
         n.p = c.p, n.k = c.k, n.rev = c.rev, n.before = c.before, n.gen = c.gen,
         \A d \in Sent' : d \in Own => d = n,
         \A d \in Sent' : d \in CallType,
         Current' = Current, Resumes' = Resumes, Halting' = Halting,
         UNCHANGED <<status, rev, client, sock, launched, proc, notes, jobs, stopPending, prep>>
  PROVE  /\ Notes' /\ Queue' /\ Agree'
         /\ \A d \in Sent' : StartOK(d)' /\ JobOK(d)' /\ PauseOK(d)'
<1>1. Rest /\ Notes /\ Queue /\ Agree /\ \A d \in Sent : StartOK(d) /\ JobOK(d) /\ PauseOK(d)
  BY DEF Control
<1>2. /\ c.rev = rev /\ status # "running" /\ notes = {} /\ ~stopPending /\ ~Resumes
      /\ status = "stopped" => prep = "start"
  BY <1>1 DEF StartOK
<1>3. ~Halting /\ (jobs # <<>> => Current.phase \notin {"stop", "run"})
  BY <1>1, <1>2, JobFacts DEF Halting, Resumes, Queue, HeadOK, JobType
<1>4. Notes' /\ Agree'
  BY <1>2, <1>1 DEF Notes, Agree, Types, Statuses
<1>5. Queue'
  BY <1>1, <1>3 DEF Queue, HeadOK, Behind
<1>6. ASSUME NEW d \in Sent', d.k = "start" PROVE StartOK(d)'
  <2>1. CASE d = n
    BY <1>1, <1>2, <2>1 DEF StartOK
  <2>2. CASE d # n
    <3>1. d \in Sent /\ d.p # client /\ d.gen # -1
      BY <1>6, <2>2 DEF Own
    <3> QED BY <1>1, <3>1 DEF StartOK
  <2> QED BY <2>1, <2>2
<1>7. ASSUME NEW d \in Sent' PROVE JobOK(d)' /\ PauseOK(d)'
  BY <1>1, <1>2, <1>3 DEF JobOK, PauseOK, JobCalls
<1> QED BY <1>4, <1>5, <1>6, <1>7 DEF StartOK

\* What a pause or a request of a job, executed by the Core, leaves true.
LEMMA ExecutedOther ==
  ASSUME Types, Control, Up, Up', NEW c \in Sent, c \in CallType, c.p = client, c.res = "sent",
         NEW n \in Sent', n.res = "ok", Sent' \subseteq Sent \cup {n},
         n.p = c.p, n.k = c.k, n.rev = c.rev, n.before = c.before, n.gen = c.gen,
         \/ c.k = "pause" /\ Mode' = "paused"
         \/ c.k = "jobStop" /\ Mode' = "stopped"
         \/ c.k = "jobRun" /\ Mode' = "running",
         \A d \in Sent' : /\ c \in OfJobs /\ d \in OfJobs => d = n
                          /\ c \in Pauses /\ d \in Pauses => d = n,
         \A d \in Sent' : d \in CallType,
         Current' = Current, Resumes' = Resumes, Halting' = Halting,
         UNCHANGED <<status, rev, client, sock, launched, proc, notes, jobs, stopPending, prep>>
  PROVE  /\ Notes' /\ Queue' /\ Agree'
         /\ \A d \in Sent' : StartOK(d)' /\ JobOK(d)' /\ PauseOK(d)'
<1>1. Rest /\ Notes /\ Queue /\ Agree /\ \A d \in Sent : StartOK(d) /\ JobOK(d) /\ PauseOK(d)
  BY DEF Control
<1>2. CASE c.k = "pause" /\ Mode' = "paused"
  <2>1. status = "running" /\ notes = {} /\ jobs = <<>>
    BY <1>1, <1>2 DEF PauseOK
  <2>2. Notes' /\ Queue' /\ Agree'
    BY <1>1, <1>2, <2>1 DEF Notes, Agree, Queue
  <2>3. ASSUME NEW d \in Sent' PROVE StartOK(d)' /\ JobOK(d)'
    <3>1. StartOK(d)'
      BY <1>1, <1>2, <2>1 DEF StartOK
    <3>2. JobOK(d)'
      BY <1>1, <1>2, <2>1 DEF JobOK, JobCalls
    <3> QED BY <3>1, <3>2
  <2>4. ASSUME NEW d \in Sent' PROVE PauseOK(d)'
    <3>1. d.k = "pause" => d = n
      BY <1>2 DEF Pauses
    <3> QED BY <1>2, <2>1, <3>1 DEF PauseOK
  <2> QED BY <2>2, <2>3, <2>4
<1>3. CASE c.k \in {"jobStop", "jobRun"}
  <2>1. /\ jobs # <<>> /\ notes = {}
        /\ c.k = "jobStop" => Current.phase = "stop"
        /\ c.k = "jobRun" => Current.phase = "run"
    BY <1>1, <1>3 DEF JobOK, JobCalls, Notes
  <2>2. Halting /\ (stopPending \/ Resumes) /\ (c.k = "jobRun" => Resumes /\ status = "stopped")
    BY <1>1, <1>3, <2>1, JobFacts DEF Halting, Resumes, Queue, HeadOK, JobType
  <2>3. Notes' /\ Agree'
    BY <1>3, <2>1, <2>2 DEF Notes, Agree
  <2>4. Queue'
    BY <1>1, <1>3, <2>1 DEF Queue, HeadOK, Behind
  <2>5. ASSUME NEW d \in Sent' PROVE StartOK(d)' /\ PauseOK(d)'
    <3>1. StartOK(d)'
      BY <1>1, <1>3, <2>2 DEF StartOK
    <3>2. PauseOK(d)'
      BY <1>1, <1>3, <2>1 DEF PauseOK
    <3> QED BY <3>1, <3>2
  <2>6. ASSUME NEW d \in Sent' PROVE JobOK(d)'
    <3>1. d.k \in JobCalls => d = n
      BY <1>3 DEF OfJobs, JobCalls
    <3> QED BY <1>3, <2>1, <3>1 DEF JobOK, JobCalls
  <2> QED BY <2>3, <2>4, <2>5, <2>6
<1> QED BY <1>2, <1>3

\* A refusal, or what changes nothing in the Core.
LEMMA ExecutedIdle ==
  ASSUME Types, Control, Up, Up', Mode' = Mode, NEW c \in Sent, c \in CallType, c.p = client,
         c.res = "sent", NEW n \in Sent', Sent' \subseteq Sent \cup {n},
         \A d \in Sent : d # c => d \in Sent',
         n.p = c.p, n.k = c.k, n.rev = c.rev, n.before = c.before, n.gen = c.gen,
         n.res = "refused" \/ c.k \in {"frame", "poll", "jobWork"},
         Current' = Current, Resumes' = Resumes, Halting' = Halting,
         n.res # "err", c.k # "pause", c.k # "jobStop",
         UNCHANGED <<status, rev, client, sock, launched, proc, notes, jobs, stopPending, prep>>
  PROVE  /\ Notes' /\ Queue' /\ Agree'
         /\ \A d \in Sent' : StartOK(d)' /\ JobOK(d)' /\ PauseOK(d)'
<1>1. Rest /\ Notes /\ Queue /\ Agree /\ \A d \in Sent : StartOK(d) /\ JobOK(d) /\ PauseOK(d)
  BY DEF Control
<1>2. Notes'
  BY <1>1 DEF Notes
<1>3. Agree'
  BY <1>1 DEF Agree
<1>4. Queue'
  BY <1>1 DEF Queue, HeadOK, Behind
<1>5. \A d \in Sent : StartOK(d)' /\ JobOK(d)' /\ PauseOK(d)'
  <2>1. \A d \in Sent : StartOK(d)'
    BY <1>1 DEF StartOK
  <2>2. \A d \in Sent : JobOK(d)' /\ PauseOK(d)'
    BY <1>1 DEF JobOK, PauseOK
  <2> QED BY <2>1, <2>2
<1>6. StartOK(n)' /\ JobOK(n)' /\ PauseOK(n)'
  <2>1. StartOK(n)'
    BY <1>1 DEF StartOK
  <2>2. JobOK(n)' /\ PauseOK(n)'
    BY <1>1 DEF JobOK, PauseOK
  <2> QED BY <2>1, <2>2
<1> QED BY <1>2, <1>3, <1>4, <1>5, <1>6

\* The Core executes or refuses a request.
LEMMA ExecuteControls ==
  ASSUME Types, Control, Execute
  PROVE  Control'
<1>1. Rest /\ \A d \in Sent : CallOK(d)
  BY DEF Control
<1>2. UNCHANGED <<status, rev, client, sock, launched, proc, notes, jobs, stopPending, prep,
                  gen, timer>>
  BY DEF Execute, connVars, ctrlVars, pollVars
<1>3. PICK i \in DOMAIN calls, r \in {"ok", "refused"} :
        /\ calls[i].res = "sent" /\ proc[calls[i].p] = "alive"
        /\ calls' = [calls EXCEPT ![i].res = r]
        /\ r = "ok" => mode' = [mode EXCEPT ![calls[i].p] = Effect(calls[i].k, @)]
        /\ r = "refused" => calls[i].k \in {"start", "jobRun"} /\ mode' = mode
  BY DEF Execute
<1>4. PICK c \in CallType : c = calls[i] /\ c \in Sent
  <2>1. calls[i] \in CallType
    BY ElementOfSeq, LenProperties DEF Types
  <2> QED BY <2>1 DEF Sent, Members
<1>5. PICK n \in CallType :
        /\ n = [c EXCEPT !.res = r] /\ n.res = r
        /\ n.p = c.p /\ n.k = c.k /\ n.awaited = c.awaited /\ n.rev = c.rev
        /\ n.before = c.before /\ n.gen = c.gen
  <2>1. [c EXCEPT !.res = r] \in CallType
    BY DEF CallType
  <2> QED BY <2>1 DEF CallType
<1>6. calls' = [calls EXCEPT ![i] = n]
  BY <1>3, <1>4, <1>5
<1>a. /\ n.res = r /\ n.p = c.p /\ n.k = c.k /\ n.awaited = c.awaited /\ n.rev = c.rev
      /\ n.before = c.before /\ n.gen = c.gen
  BY <1>5
<1>b. c = calls[i] /\ c \in Sent
  BY <1>4
<1>7. client \in Procs /\ c.p = client /\ mode[client] \in Statuses
      /\ c.res = "sent" /\ proc[c.p] = "alive"
  BY <1>1, <1>3, <1>4, BoundsAssumption DEF CallOK, CallType, Procs, Rest
<1>8. PICK m \in Statuses : /\ mode' = [mode EXCEPT ![client] = m]
                            /\ m = IF r = "ok" THEN Effect(c.k, Mode) ELSE Mode
  <2>1. CASE r = "ok"
    <3>1. Effect(c.k, Mode) \in Statuses
      BY <1>7 DEF Effect, Statuses, Mode
    <3> QED BY <1>3, <1>4, <1>7, <2>1, <3>1 DEF Mode
  <2>2. CASE r = "refused"
    BY <1>1, <1>3, <1>7, <2>2 DEF Mode, Rest
  <2> QED BY <2>1, <2>2
<1>9. n.res = "refused" => c.k \in {"start", "jobRun"}
  BY <1>3, <1>4, <1>5
<1>c. Answers(i, c, n, m)
  BY <1>2, <1>a, <1>b, <1>6, <1>7, <1>8, <1>9 DEF Answers
<1>10. /\ Up /\ Up' /\ c \in Sent /\ c.p = client /\ sock[client] /\ Mode' = m
       /\ Sent' \subseteq Sent \cup {n} /\ n \in Sent'
       /\ \A d \in Sent : d # c => d \in Sent'
       /\ \A d \in Sent' : /\ c \in Own /\ d \in Own => d = n
                           /\ c \in OfJobs /\ d \in OfJobs => d = n
                           /\ c \in Pauses /\ d \in Pauses => d = n
       /\ Current' = Current /\ Resumes' = Resumes /\ Halting' = Halting
       /\ Rest' /\ Processes' /\ Preparing' /\ Unique'
       /\ \A d \in Sent' : CallOK(d)' /\ FrameOK(d)'
  BY <1>c, Executed
<1>11. \A d \in Sent' : d \in CallType
  <2>1. \A d \in Sent : d \in CallType
    BY ElementOfSeq, LenProperties DEF Sent, Members, Types
  <2> QED BY <1>10, <2>1
<1>12. /\ Notes' /\ Queue' /\ Agree'
       /\ \A d \in Sent' : StartOK(d)' /\ JobOK(d)' /\ PauseOK(d)'
  <2>1. CASE r = "ok" /\ c.k = "start"
    <3>1. Mode' = "running" /\ c \in Own /\ n.res = "ok"
      BY <1>a, <1>7, <1>8, <1>10, <2>1 DEF Effect, Own
    <3> QED BY <1>2, <1>a, <1>7, <1>10, <1>11, <2>1, <3>1, ExecutedStart
  <2>2. CASE r = "ok" /\ c.k \in {"pause", "jobStop", "jobRun"}
    <3>1. c.k = "pause" => Mode = "running"
      BY <1>b, <1>7, <1>10 DEF Control, PauseOK
    <3>2. /\ \/ c.k = "pause" /\ Mode' = "paused"
             \/ c.k = "jobStop" /\ Mode' = "stopped"
             \/ c.k = "jobRun" /\ Mode' = "running"
          /\ n.res = "ok"
      BY <1>a, <1>8, <1>10, <2>2, <3>1 DEF Effect
    <3> QED BY <1>2, <1>a, <1>7, <1>10, <1>11, <3>2, ExecutedOther
  <2>3. CASE r = "refused" \/ c.k \in {"frame", "poll", "jobWork"}
    <3>1. /\ Mode' = Mode /\ (n.res = "refused" \/ c.k \in {"frame", "poll", "jobWork"})
          /\ n.res # "err" /\ c.k # "pause" /\ c.k # "jobStop"
      BY <1>a, <1>8, <1>9, <1>10, <2>3 DEF Effect
    <3> QED BY <1>2, <1>a, <1>7, <1>10, <3>1, ExecutedIdle
  <2> QED BY <1>3, <2>1, <2>2, <2>3 DEF CallType, Kinds
<1> QED BY <1>2, <1>10, <1>12 DEF Control

-----------------------------------------------------------------------------
(* Steps of jobs *)

\* The requests without those of the queue of mutations.
JobsAside(cs) ==
    /\ cs \in Seq(CallType) /\ Members(cs) \subseteq Sent
    /\ AtMostOne(cs, Own) /\ AtMostOne(cs, OfJobs) /\ AtMostOne(cs, Pauses)
    /\ \A c \in Members(cs) : c.k \notin JobCalls
    /\ \A c \in Sent : c.k \notin JobCalls => c \in Members(cs)

\* While a job is in progress no condition is on its way and no pause is asked for.
LEMMA JobAlone ==
  ASSUME Control, jobs # <<>>
  PROVE  notes = {} /\ \A c \in Sent : c.k # "pause"
BY DEF Control, Notes, PauseOK

\* Requests are requests.
LEMMA SentAreCalls ==
  ASSUME Types
  PROVE  \A c \in Sent : c \in CallType
BY ElementOfSeq, LenProperties DEF Sent, Members, Types

\* What a preparation awaits.
LEMMA JobPrep ==
  ASSUME Control, jobs # <<>>, Finish
  PROVE  /\ prep' = prep \/ (prep = "rebuild" /\ prep' = "ready" /\ Current.prep)
         /\ Current.prep => prep = "rebuild" /\ prep' = "ready" /\ status = "stopped"
                            /\ Current.k = "rebuild" /\ ~Current.resume
BY DEF Control, Finish, Queue, HeadOK, Preparing

\* The queue without its head.
LEMMA JobTail ==
  ASSUME Control, jobs # <<>>, jobs' = Tail(jobs)
  PROVE  /\ jobs' \in Seq(JobType) /\ Len(jobs') <= 1 /\ Len(jobs') \in Nat
         /\ Len(jobs') <= 2 /\ Len(jobs') # 2
         /\ jobs' # <<>> => Len(jobs) = 2 /\ Current' = jobs[2]
<1>1. /\ jobs \in Seq(JobType) /\ Len(jobs) <= 2 /\ Len(jobs) \in Nat /\ Len(jobs) # 0
  BY JobFacts DEF Control, Queue, Rest
<1>2. /\ jobs' \in Seq(JobType) /\ Len(jobs') = Len(jobs) - 1
      /\ \A i \in 1..Len(jobs') : jobs'[i] = jobs[i + 1]
  BY <1>1, HeadTailProperties
<1>3. jobs' # <<>> => Len(jobs') # 0
  BY <1>2, EmptySeq
<1>4. jobs' # <<>> => Len(jobs) = 2 /\ jobs'[1] = jobs[1 + 1]
  BY <1>1, <1>2, <1>3
<1> QED BY <1>1, <1>2, <1>4 DEF Current

\* A job ends.
LEMMA JobEnds ==
  ASSUME Types, Control, jobs # <<>>, Finish, stopPending' = FALSE,
         NEW rest, JobsAside(rest), calls' = rest,
         UNCHANGED <<client, sock, launched, proc, mode, notes, gen, timer>>,
         \/ UNCHANGED <<status, rev>>
         \/ Current.k = "stop" /\ status' = "stopped" /\ rev' = rev + 1,
         Up => \/ status' = "stopped" /\ (Mode = "stopped" \/ prep = "start")
               \/ UNCHANGED <<status, rev>> /\ ~Halting
  PROVE  Control'
<1>1. Rest /\ Processes /\ Notes /\ Queue /\ Preparing /\ Agree
      /\ \A c \in Sent : CallOK(c) /\ StartOK(c) /\ JobOK(c) /\ PauseOK(c) /\ FrameOK(c)
  BY DEF Control
<1>2. /\ prep' = prep \/ (prep = "rebuild" /\ prep' = "ready" /\ Current.prep)
      /\ Current.prep => prep = "rebuild" /\ prep' = "ready" /\ status = "stopped"
                         /\ Current.k = "rebuild" /\ ~Current.resume
  BY JobPrep
<1>3. /\ jobs' \in Seq(JobType) /\ Len(jobs') <= 1 /\ Len(jobs') \in Nat
      /\ jobs' # <<>> => Len(jobs) = 2 /\ Current' = jobs[2]
  BY JobTail DEF Finish
<1>4. jobs' # <<>> => /\ Current'.k = "rebuild" /\ Current'.phase = "queued" /\ ~Current'.resume
                      /\ Current'.prep => prep' = "rebuild"
  BY <1>1, <1>2, <1>3 DEF Queue, Behind
<1>5. /\ Up' = Up /\ Mode' = Mode /\ ~Resumes' /\ ~Halting' /\ Own' = Own
      /\ notes = {} /\ \A c \in Sent : c.k # "pause"
  BY <1>4, JobAlone DEF Up, Mode, Resumes, Halting, Own
<1>6. Sent' \subseteq Sent /\ (\A c \in Sent' : c.k \notin JobCalls)
      /\ \A c \in Sent : c.k \notin JobCalls => c \in Sent'
  BY DEF JobsAside, Sent
<1>7. Rest'
  BY <1>1, <1>2, <1>3 DEF Rest, Preps
<1>8. Processes'
  BY <1>1, <1>2, <1>5 DEF Processes
<1>9. Notes'
  BY <1>5 DEF Notes
<1>10. Preparing'
  BY <1>1, <1>2, <1>4, <1>5 DEF Preparing
<1>11. Queue'
  <2>1. Len(jobs') <= 2 /\ Len(jobs') # 2
    BY <1>3
  <2>2. jobs' # <<>> => HeadOK'
    BY <1>4, <1>5 DEF HeadOK
  <2> QED BY <2>1, <2>2 DEF Queue
<1>12. Agree'
  <2>1. CASE ~Up
    BY <1>5, <2>1 DEF Agree
  <2>2. CASE Up /\ status' = "stopped" /\ (Mode = "stopped" \/ prep = "start")
    BY <1>2, <1>5, <2>2 DEF Agree
  <2>3. CASE Up /\ UNCHANGED status /\ ~Halting /\ UNCHANGED rev
    <3>1. ~Resumes
      BY <2>3 DEF Resumes, Halting
    <3>2. ASSUME status = "paused", Mode # "paused"
          PROVE  \E c \in Sent' : c.k = "start" /\ c.p = client /\ c.rev = rev /\ c.res = "ok"
      <4>1. PICK c \in Sent : c.k = "start" /\ c.p = client /\ c.rev = rev /\ c.res = "ok"
        BY <1>1, <2>3, <3>2 DEF Agree
      <4>2. c \in Sent'
        BY <1>6, <4>1 DEF JobCalls
      <4> QED BY <4>1, <4>2
    <3>3. status = "stopped" => Mode = "stopped" \/ prep' = "start"
      BY <1>1, <1>2, <2>3, <3>1 DEF Agree
    <3>4. status = "running" => Mode = "running"
      BY <1>1, <1>5, <2>3 DEF Agree
    <3> QED BY <1>5, <2>3, <3>2, <3>3, <3>4 DEF Agree
  <2> QED BY <2>1, <2>2, <2>3
<1>13. Unique'
  BY <1>5 DEF JobsAside, Unique, OfJobs, Pauses
<1>14. ASSUME NEW c \in Sent'
       PROVE  (CallOK(c) /\ StartOK(c) /\ JobOK(c) /\ PauseOK(c) /\ FrameOK(c))'
  <2>0. c \in Sent /\ c \in CallType
    BY <1>6, SentAreCalls
  <2>1. CallOK(c)' /\ FrameOK(c)'
    BY <1>1, <1>2, <2>0 DEF CallOK, FrameOK
  <2>2. StartOK(c)'
    <3>1. CASE UNCHANGED <<status, rev>>
      BY <1>1, <1>2, <1>5, <2>0, <3>1 DEF StartOK
    <3>2. CASE Current.k = "stop" /\ status' = "stopped" /\ rev' = rev + 1
      <4>1. stopPending
        BY <1>1, <3>2 DEF Queue, HeadOK
      <4>2. c.k = "start" => c.p # client /\ c.rev <= rev + 1 /\ c.rev # rev + 1
        <5>1. c.rev \in Int /\ rev \in Int
          BY <2>0 DEF CallType, Types
        <5>2. StartOK(c)
          BY <1>1, <2>0
        <5> QED BY <4>1, <5>1, <5>2 DEF StartOK
      <4> QED BY <1>1, <1>2, <2>0, <3>2, <4>2 DEF StartOK
    <3> QED BY <3>1, <3>2
  <2>3. JobOK(c)' /\ PauseOK(c)'
    BY <1>5, <1>6, <2>0 DEF JobOK, PauseOK
  <2> QED BY <2>1, <2>2, <2>3
<1> QED BY <1>1, <1>7, <1>8, <1>9, <1>10, <1>11, <1>12, <1>13, <1>14 DEF Control

\* The head of the queue changes.
LEMMA JobHead ==
  ASSUME Rest, jobs # <<>>, NEW h \in JobType, jobs' = [jobs EXCEPT ![1] = h]
  PROVE  /\ jobs' \in Seq(JobType) /\ Len(jobs') = Len(jobs) /\ jobs' # <<>> /\ Current' = h
         /\ Len(jobs) = 2 => jobs'[2] = jobs[2]
<1>1. jobs \in Seq(JobType) /\ Len(jobs) \in Nat /\ Len(jobs) # 0 /\ DOMAIN jobs = 1..Len(jobs)
  BY JobFacts DEF Rest
<1>2. jobs' \in Seq(JobType) /\ Len(jobs') = Len(jobs)
  BY <1>1, ExceptSeq
<1>3. jobs'[1] = h /\ (Len(jobs) = 2 => jobs'[2] = jobs[2])
  BY <1>1
<1>4. jobs' # <<>>
  BY <1>1, <1>2
<1> QED BY <1>2, <1>3, <1>4 DEF Current

\* A job goes on, as h, with request r besides those of the others.
JobStep(rest, r, h) ==
    /\ client # 0 /\ JobsAside(rest) /\ calls' = Append(rest, r)
    /\ r.k \in JobCalls /\ r.awaited /\ r.p = client
    /\ r.res = IF sock[client] THEN "sent" ELSE "err"
    /\ r.k = "jobRun" /\ Up => Mode = "stopped"
    /\ jobs' = [jobs EXCEPT ![1] = h] /\ h.k = Current.k /\ h.prep = Current.prep
    /\ r.k = "jobStop" => h.phase = "stop"
    /\ r.k = "jobWork" => h.phase = "work"
    /\ r.k = "jobRun" => h.phase = "run"
    /\ h.k = "stop" => ~h.resume /\ h.phase # "run"
    /\ h.k = "rebuild" /\ h.phase \in {"stop", "run"} => h.resume
    /\ h.resume => status' = IF h.phase = "stop" THEN "running" ELSE "stopped"
    /\ (h.resume \/ h.k = "stop") /\ h.phase = "work" /\ Up => Mode = "stopped"
    /\ Current.resume => h.resume
    /\ h.resume => Current.resume \/ status = "running"
    /\ UNCHANGED <<client, sock, launched, proc, mode, notes, stopPending, prep>>
    /\ UNCHANGED <<gen, timer>> \/ (gen' = gen + 1 /\ timer' = 0)
    /\ \/ UNCHANGED <<status, rev>>
       \/ Current.resume /\ status' = "stopped" /\ rev' = rev + 1

\* Such a step keeps the invariant.
LEMMA JobGoesOn ==
  ASSUME Types, Control, jobs # <<>>, NEW rest, NEW r \in CallType, NEW h \in JobType,
         JobStep(rest, r, h)
  PROVE  Control'
<1> USE DEF JobStep
<1>1. Rest /\ Processes /\ Notes /\ Queue /\ Preparing /\ Agree
      /\ \A c \in Sent : CallOK(c) /\ StartOK(c) /\ JobOK(c) /\ PauseOK(c) /\ FrameOK(c)
  BY DEF Control
<1>2. /\ jobs' \in Seq(JobType) /\ Len(jobs') = Len(jobs) /\ jobs' # <<>> /\ Current' = h
      /\ Len(jobs) = 2 => jobs'[2] = jobs[2]
  BY <1>1, JobHead
<1>3. /\ Up' = Up /\ Mode' = Mode /\ Own' = Own /\ (Resumes => Resumes')
      /\ notes = {} /\ \A c \in Sent : c.k # "pause"
  BY <1>2, JobAlone DEF Up, Mode, Resumes, Own
<1>4. h.phase # "queued" /\ (Resumes' <=> h.resume) /\ (Resumes <=> Current.resume)
      /\ (Halting' <=> h.resume \/ h.k = "stop")
  BY <1>2 DEF JobCalls, Resumes, Halting
<1>5. /\ Sent' = Members(rest) \cup {r} /\ Members(rest) \subseteq Sent
      /\ (\A c \in Members(rest) : c.k \notin JobCalls)
      /\ \A c \in Sent : c.k \notin JobCalls => c \in Sent'
  <2>1. Members(Append(rest, r)) = Members(rest) \cup {r}
    BY MembersAppend DEF JobsAside
  <2> QED BY <2>1 DEF JobsAside, Sent
<1>6. Rest'
  BY <1>1, <1>2 DEF Rest
<1>7. Processes'
  BY <1>1, <1>3 DEF Processes
<1>8. Notes' /\ Preparing'
  BY <1>1, <1>2, <1>3 DEF Notes, Preparing
<1>9. Queue'
  BY <1>1, <1>2, <1>3, <1>4 DEF Queue, HeadOK, Behind
<1>10. Agree'
  <2>1. CASE status' = "stopped"
    BY <1>1, <1>3, <1>4, <2>1 DEF Agree
  <2>2. CASE status' # "stopped" /\ UNCHANGED <<status, rev>>
    <3>1. Halting => Halting'
      BY <1>4 DEF Halting
    <3>2. ASSUME NEW c \in Sent, c.k = "start" PROVE c \in Sent'
      BY <1>5, <3>2 DEF JobCalls
    <3> QED BY <1>1, <1>3, <2>2, <3>1, <3>2 DEF Agree
  <2> QED BY <2>1, <2>2
<1>11. Unique'
  <2>1. \A c \in Members(rest) : c \notin OfJobs
    BY <1>5 DEF OfJobs
  <2>2. r \notin Own /\ r \notin Pauses
    BY DEF Own, Pauses, JobCalls
  <2>3. AtMostOne(calls', Own) /\ AtMostOne(calls', OfJobs) /\ AtMostOne(calls', Pauses)
    BY <2>1, <2>2, MembersAppend DEF JobsAside
  <2> QED BY <1>3, <2>3 DEF Unique, OfJobs, Pauses
<1>12. ASSUME NEW c \in Members(rest)
       PROVE  (CallOK(c) /\ StartOK(c) /\ JobOK(c) /\ PauseOK(c) /\ FrameOK(c))'
  <2>0. c \in Sent /\ c \in CallType
    BY <1>5, SentAreCalls
  <2>1. CallOK(c)'
    BY <1>1, <2>0 DEF CallOK
  <2>2. FrameOK(c)'
    <3>1. c.gen \in Int /\ gen \in Int
      BY <2>0 DEF Types, CallType
    <3>2. FrameOK(c)
      BY <1>1, <2>0
    <3> QED BY <3>1, <3>2 DEF FrameOK
  <2>3. StartOK(c)'
    <3>1. c.k = "start" /\ c.p = client => ~h.resume /\ ~Current.resume
      BY <1>1, <1>4, <2>0 DEF StartOK
    <3>2. CASE UNCHANGED <<status, rev>>
      <4>1. StartOK(c) /\ UNCHANGED <<stopPending, client, prep, notes>>
        BY <1>1, <2>0
      <4>2. c.k = "start" /\ c.p = client => ~Resumes'
        BY <1>4, <3>1
      <4> QED BY <1>3, <3>2, <4>1, <4>2 DEF StartOK
    <3>3. CASE Current.resume /\ status' = "stopped" /\ rev' = rev + 1
      <4>1. c.k = "start" => c.p # client /\ c.rev <= rev + 1 /\ c.rev # rev + 1
        <5>1. c.rev \in Nat /\ rev \in Nat
          BY <2>0 DEF CallType, Types
        <5>2. c.k = "start" => c.rev <= rev
          BY <1>1, <2>0 DEF StartOK
        <5> QED BY <3>1, <3>3, <5>1, <5>2
      <4> QED BY <1>1, <2>0, <3>3, <4>1 DEF StartOK
    <3> QED BY <3>2, <3>3
  <2>4. JobOK(c)' /\ PauseOK(c)'
    BY <1>3, <1>5, <2>0 DEF JobOK, PauseOK
  <2> QED BY <2>1, <2>2, <2>3, <2>4
<1>13. (CallOK(r) /\ StartOK(r) /\ JobOK(r) /\ PauseOK(r) /\ FrameOK(r))'
  <2>1. CallOK(r)'
    <3>1. prep' \notin {"connect", "connected"} /\ r.k \in Kinds
      BY <1>1 DEF Processes, CallType
    <3> QED BY <3>1, NewCallOK
  <2>2. StartOK(r)' /\ PauseOK(r)' /\ FrameOK(r)'
    BY DEF StartOK, PauseOK, FrameOK, JobCalls
  <2>3. JobOK(r)'
    BY <1>2, <1>3 DEF JobOK
  <2> QED BY <2>1, <2>2, <2>3
<1>14. timer' \in {0, gen'}
  BY DEF Control
<1> QED BY <1>5, <1>6, <1>7, <1>8, <1>9, <1>10, <1>11, <1>12, <1>13, <1>14 DEF Control

\* The head proceeds.
LEMMA JobProceeds ==
  ASSUME Rest, jobs # <<>>, NEW p \in {"stop", "work", "run"}, Proceed(p)
  PROVE  \E h \in JobType : /\ jobs' = [jobs EXCEPT ![1] = h] /\ h.k = Current.k /\ h.phase = p
                            /\ h.prep = Current.prep /\ h.resume = Current.resume
<1>1. PICK j \in JobType : j = Current /\ j = jobs[1]
  BY JobFacts
<1>2. PICK h \in JobType : /\ h = [j EXCEPT !.phase = p] /\ h.k = j.k /\ h.phase = p
                           /\ h.resume = j.resume /\ h.prep = j.prep
  <2>1. [j EXCEPT !.phase = p] \in JobType
    BY DEF JobType
  <2> QED BY <2>1 DEF JobType
<1>3. jobs' = [jobs EXCEPT ![1] = h]
  BY <1>1, <1>2 DEF Proceed
<1> QED BY <1>1, <1>2, <1>3

\* A new request of the queue of mutations.
LEMMA JobAsks ==
  ASSUME Types, client # 0, NEW rest, NEW k \in JobCalls, calls' = request(rest, k)
  PROVE  \E r \in CallType : /\ calls' = Append(rest, r) /\ r.k = k /\ r.awaited /\ r.p = client
                             /\ r.res = IF sock[client] THEN "sent" ELSE "err"
<1>1. k \in Kinds
  BY DEF JobCalls, Kinds
<1> QED BY <1>1, NewCall DEF request

\* The first job begins.
LEMMA StartJobControls ==
  ASSUME Types, Control, StartJob
  PROVE  Control'
<1>1. Rest /\ Processes /\ Notes /\ Queue /\ Preparing /\ Agree
      /\ \A c \in Sent : CallOK(c) /\ StartOK(c) /\ JobOK(c) /\ PauseOK(c) /\ FrameOK(c)
  BY DEF Control
<1>2. /\ jobs # <<>> /\ Current.phase = "queued"
      /\ UNCHANGED <<client, sock, launched, proc, mode, notes>>
  BY DEF StartJob, connVars
<1>3. Current \in JobType /\ Current = jobs[1] /\ Current.k \in {"stop", "rebuild"}
  BY <1>1, <1>2, JobFacts DEF JobType
<1>4. HeadOK /\ ~Current.resume
  BY <1>1, <1>2 DEF Queue, HeadOK
<1>5. \A c \in Sent : c.k \notin JobCalls
  BY <1>1, <1>2 DEF JobOK, JobCalls
<1>6. JobsAside(calls)
  BY <1>5 DEF JobsAside, Control, Unique, Types, Sent
<1>8. CASE client = 0 /\ Current.k = "stop"
  <2>1. /\ status' = "stopped" /\ rev' = rev + 1 /\ stopPending' = FALSE /\ Finish
        /\ UNCHANGED <<calls, gen, timer>>
    BY <1>8 DEF StartJob, setSimulationStatus, pollVars
  <2>2. ~Up
    BY <1>8 DEF Up
  <2> QED BY <1>2, <1>6, <1>8, <2>1, <2>2, JobEnds
<1>9. CASE client = 0 /\ Current.k = "rebuild"
  <2>1. Finish /\ UNCHANGED <<status, rev, stopPending, calls, gen, timer>>
    BY <1>9 DEF StartJob, pollVars
  <2>2. ~Up /\ stopPending = FALSE
    BY <1>1, <1>4, <1>9 DEF Up, HeadOK, Rest
  <2> QED BY <1>2, <1>6, <1>9, <2>1, <2>2, JobEnds
<1>10. CASE client # 0 /\ Current.k = "rebuild" /\ status # "running"
  <2>1. /\ Proceed("work") /\ calls' = request(calls, "jobWork")
        /\ UNCHANGED <<status, rev, stopPending, prep, gen, timer>>
    BY <1>10 DEF StartJob, pollVars
  <2>2. PICK h \in JobType : /\ jobs' = [jobs EXCEPT ![1] = h] /\ h.k = Current.k
                             /\ h.phase = "work" /\ h.prep = Current.prep
                             /\ h.resume = Current.resume
    BY <1>1, <1>2, <2>1, JobProceeds
  <2>3. PICK r \in CallType : /\ calls' = Append(calls, r) /\ r.k = "jobWork" /\ r.awaited
                              /\ r.p = client /\ r.res = IF sock[client] THEN "sent" ELSE "err"
    BY <1>10, <2>1, JobAsks DEF JobCalls
  <2>4. JobStep(calls, r, h)
    BY <1>2, <1>4, <1>6, <1>10, <2>1, <2>2, <2>3 DEF JobStep, JobCalls
  <2> QED BY <1>2, <2>4, JobGoesOn
<1>11. CASE client # 0 /\ ~(Current.k = "rebuild" /\ status # "running")
  <2>1. /\ jobs' = [jobs EXCEPT ![1].phase = "stop", ![1].resume = Current.k = "rebuild"]
        /\ calls' = request(calls, "jobStop") /\ UNCHANGED <<status, rev, stopPending, prep>>
        /\ UNCHANGED <<gen, timer>> \/ (gen' = gen + 1 /\ timer' = 0)
    BY <1>11 DEF StartJob, stopVoltageReadoutPolling, pollVars
  <2>2. PICK h \in JobType :
          /\ h = [Current EXCEPT !.phase = "stop", !.resume = Current.k = "rebuild"]
          /\ h.k = Current.k /\ h.phase = "stop" /\ h.prep = Current.prep
          /\ h.resume = (Current.k = "rebuild")
    <3>1. [Current EXCEPT !.phase = "stop", !.resume = Current.k = "rebuild"] \in JobType
      BY <1>3 DEF JobType
    <3> QED BY <1>3, <3>1 DEF JobType
  <2>3. jobs' = [jobs EXCEPT ![1] = h]
    BY <1>3, <2>1, <2>2
  <2>4. PICK r \in CallType : /\ calls' = Append(calls, r) /\ r.k = "jobStop" /\ r.awaited
                              /\ r.p = client /\ r.res = IF sock[client] THEN "sent" ELSE "err"
    BY <1>11, <2>1, JobAsks DEF JobCalls
  <2>5. /\ h.k = Current.k /\ h.phase = "stop" /\ h.prep = Current.prep
        /\ h.resume = (Current.k = "rebuild")
    BY <2>2
  <2>6. JobStep(calls, r, h)
    BY <1>2, <1>4, <1>6, <1>11, <2>1, <2>3, <2>4, <2>5 DEF JobStep, JobCalls
  <2> QED BY <1>2, <2>6, JobGoesOn
<1> QED BY <1>3, <1>8, <1>9, <1>10, <1>11

-----------------------------------------------------------------------------
(* Continuations *)

\* The requests without request c.
Without(c, rest) ==
    /\ rest \in Seq(CallType) /\ Members(rest) \subseteq Sent
    /\ \A d \in Sent : d # c => d \in Members(rest)
    /\ AtMostOne(rest, Own) /\ AtMostOne(rest, OfJobs) /\ AtMostOne(rest, Pauses)
    /\ c \in Own => \A d \in Members(rest) : d \notin Own
    /\ c \in OfJobs => \A d \in Members(rest) : d \notin OfJobs
    /\ c \in Pauses => \A d \in Members(rest) : d \notin Pauses

\* An answered request leaves the others.
LEMMA RemovedIsWithout ==
  ASSUME Types, Control, NEW i \in DOMAIN calls
  PROVE  /\ Without(calls[i], RemoveAt(calls, i))
         /\ calls[i] \in Sent /\ calls[i] \in CallType
<1>1. calls \in Seq(CallType) /\ AtMostOne(calls, Own) /\ AtMostOne(calls, OfJobs)
      /\ AtMostOne(calls, Pauses)
  BY DEF Types, Control, Unique
<1> DEFINE rest == RemoveAt(calls, i)
<1>2. /\ rest \in Seq(CallType)
      /\ Members(rest) \subseteq Members(calls)
      /\ \A d \in Members(calls) : d # calls[i] => d \in Members(rest)
      /\ \A S : AtMostOne(calls, S) => AtMostOne(rest, S)
      /\ \A S : AtMostOne(calls, S) /\ calls[i] \in S => \A d \in Members(rest) : d \notin S
  BY <1>1, MembersRemove
<1>3. calls[i] \in Sent
  BY DEF Sent, Members
<1> HIDE DEF rest
<1>4. Without(calls[i], rest)
  BY <1>1, <1>2 DEF Without, Sent
<1> QED BY <1>3, <1>4, SentAreCalls DEF rest

\* Requests that control nothing come and go.
LEMMA OthersStay ==
  ASSUME Types, Control,
         UNCHANGED <<status, rev, client, sock, launched, proc, mode, notes, jobs, stopPending,
                     prep, gen, timer>>,
         \A d \in Sent' : d \in Sent \/ (~IsControl(d.k) /\ CallOK(d)' /\ FrameOK(d)'),
         \A d \in Sent : IsControl(d.k) => d \in Sent',
         AtMostOne(calls', Own) /\ AtMostOne(calls', OfJobs) /\ AtMostOne(calls', Pauses)
  PROVE  Control'
<1>1. Rest /\ Processes /\ Notes /\ Queue /\ Preparing /\ Agree
      /\ \A c \in Sent : CallOK(c) /\ StartOK(c) /\ JobOK(c) /\ PauseOK(c) /\ FrameOK(c)
  BY DEF Control
<1>2. Up' = Up /\ Mode' = Mode /\ Current' = Current /\ Resumes' = Resumes /\ Halting' = Halting
      /\ Own' = Own
  BY DEF Up, Mode, Current, Resumes, Halting, Own
<1>3. Rest' /\ Processes' /\ Notes' /\ Preparing'
  BY <1>1, <1>2 DEF Rest, Processes, Notes, Preparing
<1>4. Queue'
  BY <1>1, <1>2 DEF Queue, HeadOK, Behind
<1>5. Agree'
  BY <1>1, <1>2 DEF Agree, IsControl
<1>6. Unique'
  BY <1>2 DEF Unique, OfJobs, Pauses
<1>7. ASSUME NEW c \in Sent'
      PROVE  (CallOK(c) /\ StartOK(c) /\ JobOK(c) /\ PauseOK(c) /\ FrameOK(c))'
  <2>1. CASE c \in Sent
    <3>1. CallOK(c)' /\ FrameOK(c)'
      BY <1>1, <2>1 DEF CallOK, FrameOK
    <3>2. StartOK(c)'
      BY <1>1, <1>2, <2>1 DEF StartOK
    <3>3. JobOK(c)' /\ PauseOK(c)'
      BY <1>1, <1>2, <2>1 DEF JobOK, PauseOK
    <3> QED BY <3>1, <3>2, <3>3
  <2>2. CASE ~IsControl(c.k) /\ CallOK(c)' /\ FrameOK(c)'
    BY <2>2 DEF IsControl, StartOK, JobOK, PauseOK, JobCalls
  <2> QED BY <2>1, <2>2
<1> QED BY <1>1, <1>3, <1>4, <1>5, <1>6, <1>7 DEF Control

\* The simulation runs again, or for the first time: readouts r are asked for.
Resumed(rest, r) ==
    /\ calls' = Append(rest, r)
    /\ r.k = "poll" /\ r.awaited /\ r.p = client /\ r.res = IF sock[client] THEN "sent" ELSE "err"
    /\ status # "running" /\ status' = "running" /\ rev' = rev + 1 /\ startVoltageReadoutPolling
    /\ UNCHANGED <<client, sock, launched, proc, mode, notes>>
    /\ client # 0 /\ proc[client] # "reaped"
    /\ Up => Mode = "running" \/ notes # {}

\* The status becomes "running" again.
LEMMA RunsAgain ==
  ASSUME Types, Control, NEW c, NEW rest, Without(c, rest), NEW r \in CallType, Resumed(rest, r),
         \A d \in Members(rest) : d.k = "start" => d.p # client /\ (d.gen = -1 => prep' = prep),
         \A d \in Members(rest) : JobOK(d)',
         Rest', Queue', Notes',
         prep' \notin {"launch", "connect", "connected", "catalog", "rebuild", "ready"}
  PROVE  Control'
<1> USE DEF Resumed
<1>1. Rest /\ Processes /\ Notes /\ Queue /\ Preparing /\ Agree
      /\ \A d \in Sent : CallOK(d) /\ StartOK(d) /\ PauseOK(d) /\ FrameOK(d)
  BY DEF Control
<1>2. Up' = Up /\ Mode' = Mode /\ Own' = Own
  BY DEF Up, Mode, Own
<1>3. Sent' = Members(rest) \cup {r} /\ Members(rest) \subseteq Sent
  BY MembersAppend DEF Without, Sent
<1>4. Processes'
  <2>1. client \in Procs /\ proc[client] # "none"
    BY <1>1, BoundsAssumption DEF Processes, Types, Procs
  <2>2. proc[client] \in {"alive", "dead"}
    BY <1>1, <2>1 DEF Rest
  <2>3. Up => sock[client]
    BY <1>1, <2>1 DEF Processes, Notes, Up, Mode
  <2> QED BY <1>1, <1>2, <2>2, <2>3 DEF Processes
<1>5. Preparing' /\ Agree'
  BY <1>2 DEF Preparing, Agree
<1>6. Unique'
  <2>1. r \notin Own /\ r \notin OfJobs /\ r \notin Pauses
    BY DEF Own, OfJobs, Pauses, JobCalls
  <2>2. AtMostOne(calls', Own) /\ AtMostOne(calls', OfJobs) /\ AtMostOne(calls', Pauses)
    BY <2>1, MembersAppend DEF Without
  <2> QED BY <1>2, <2>2 DEF Unique, OfJobs, Pauses
<1>7. timer' \in {0, gen'}
  BY DEF Control, startVoltageReadoutPolling
<1>8. ASSUME NEW d \in Members(rest)
      PROVE  (CallOK(d) /\ StartOK(d) /\ JobOK(d) /\ PauseOK(d) /\ FrameOK(d))'
  <2>0. d \in Sent /\ d \in CallType
    BY <1>3, SentAreCalls
  <2>1. CallOK(d)'
    BY <1>1, <2>0 DEF CallOK
  <2>2. FrameOK(d)'
    <3>1. d.gen \in Int /\ gen \in Int
      BY <2>0 DEF Types, CallType
    <3>2. FrameOK(d)
      BY <1>1, <2>0
    <3> QED BY <3>1, <3>2 DEF FrameOK, startVoltageReadoutPolling
  <2>3. d.k = "start" => d.rev <= rev + 1 /\ d.rev # rev + 1
    <3>1. d.rev \in Int /\ rev \in Int
      BY <2>0 DEF Types, CallType
    <3>2. StartOK(d)
      BY <1>1, <2>0
    <3> QED BY <3>1, <3>2 DEF StartOK
  <2>4. StartOK(d)'
    BY <1>1, <2>0, <2>3 DEF StartOK
  <2>5. PauseOK(d)'
    BY <1>1, <2>0 DEF PauseOK
  <2> QED BY <2>1, <2>2, <2>4, <2>5
<1>9. (CallOK(r) /\ StartOK(r) /\ JobOK(r) /\ PauseOK(r) /\ FrameOK(r))'
  <2>1. CallOK(r)'
    BY NewCallOK DEF Kinds
  <2> QED BY <2>1 DEF StartOK, JobOK, PauseOK, FrameOK, JobCalls
<1> QED BY <1>3, <1>4, <1>5, <1>6, <1>7, <1>8, <1>9 DEF Control

\* What is asked for then.
LEMMA ReadoutsAsked ==
  ASSUME Types, client # 0, NEW rest, calls' = pollInstrumentReadouts(rest)
  PROVE  \E r \in CallType : /\ calls' = Append(rest, r) /\ r.k = "poll" /\ r.awaited
                             /\ r.p = client /\ r.res = IF sock[client] THEN "sent" ELSE "err"
<1>1. "poll" \in Kinds
  BY DEF Kinds
<1> QED BY <1>1, NewCall DEF pollInstrumentReadouts, request

\* An answer to a run that something has overtaken is left alone.
LEMMA StaleStart ==
  ASSUME Types, Control, NEW c \in Sent, c.k = "start", NEW rest, Without(c, rest), calls' = rest,
         rev # c.rev, Prepared(c, status),
         UNCHANGED <<status, rev, client, sock, launched, proc, mode, notes, jobs, stopPending,
                     gen, timer>>
  PROVE  Control'
<1>1. Rest /\ Processes /\ Notes /\ Queue /\ Preparing /\ Agree
      /\ \A d \in Sent : CallOK(d) /\ StartOK(d) /\ JobOK(d) /\ PauseOK(d) /\ FrameOK(d)
  BY DEF Control
<1>2. /\ c.gen # -1 => prep' = prep
      /\ c.gen = -1 => prep = "start" /\ prep' \in {"firmware", "no"} /\ client \in {0, c.p}
  BY <1>1 DEF StartOK, Prepared
<1>3. Up' = Up /\ Mode' = Mode /\ Current' = Current /\ Resumes' = Resumes /\ Halting' = Halting
      /\ Own' = Own
  BY DEF Up, Mode, Current, Resumes, Halting, Own
<1>4. Sent' \subseteq Sent /\ \A d \in Sent : d # c => d \in Sent'
  BY DEF Without, Sent
<1>5. Rest' /\ Processes' /\ Notes' /\ Preparing'
  BY <1>1, <1>2, <1>3 DEF Rest, Processes, Notes, Preparing, Preps
<1>6. Queue'
  BY <1>1, <1>2, <1>3 DEF Queue, HeadOK, Behind
<1>7. Agree'
  <2>1. ASSUME Up, c.gen = -1 PROVE status = "paused"
    BY <1>1, <1>2, <2>1 DEF StartOK, Up
  <2>2. ASSUME NEW d \in Sent, d.k = "pause" \/ d.rev = rev PROVE d \in Sent'
    BY <1>4, <2>2
  <2> QED BY <1>1, <1>2, <1>3, <2>1, <2>2 DEF Agree
<1>8. Unique'
  BY <1>3 DEF Without, Unique, OfJobs, Pauses
<1>9. ASSUME NEW d \in Sent'
      PROVE  (CallOK(d) /\ StartOK(d) /\ JobOK(d) /\ PauseOK(d) /\ FrameOK(d))'
  <2>0. d \in Sent /\ d \in CallType /\ c \in CallType
    BY <1>4, SentAreCalls
  <2>1. CallOK(d)' /\ FrameOK(d)'
    BY <1>1, <1>2, <2>0 DEF CallOK, FrameOK
  <2>2. d.k = "start" /\ d.gen = -1 => c.gen # -1
    <3>1. d \in Members(rest)
      BY DEF Sent
    <3> QED BY <2>0, <3>1 DEF Without, Own
  <2>3. StartOK(d)'
    BY <1>1, <1>2, <1>3, <2>0, <2>2 DEF StartOK
  <2>4. JobOK(d)' /\ PauseOK(d)'
    BY <1>1, <1>3, <2>0 DEF JobOK, PauseOK
  <2> QED BY <2>1, <2>3, <2>4
<1> QED BY <1>1, <1>5, <1>6, <1>7, <1>8, <1>9 DEF Control

\* A run that was asked for and nothing has overtaken.
LEMMA FreshStart ==
  ASSUME Types, Control, NEW c \in Sent, c.k = "start", rev = c.rev,
         NEW rest, Without(c, rest)
  PROVE  /\ c.p = client /\ client # 0 /\ c.before = status /\ status # "running"
         /\ status = "stopped" => c.gen = -1
         /\ c.gen = -1 => prep = "start"
         /\ ~stopPending /\ ~Resumes /\ ~Halting
         /\ \A d \in Members(rest) : d.k = "start" => d.p # client /\ d.gen # -1
         /\ \A d \in Sent : d.k # "pause"
<1>1. Queue /\ \A d \in Sent : CallOK(d) /\ StartOK(d) /\ PauseOK(d)
  BY DEF Control
<1>2. /\ c.p = client /\ c.before = status /\ status # "running"
      /\ status = "stopped" => c.gen = -1
      /\ c.gen = -1 => prep = "start"
      /\ ~stopPending /\ ~Resumes /\ client # 0
  BY <1>1 DEF StartOK, CallOK
<1>3. ~Halting
  BY <1>1, <1>2 DEF Queue, HeadOK, Halting, Resumes
<1>4. \A d \in Members(rest) : d.k = "start" => d.p # client /\ d.gen # -1
  <2>1. c \in Own /\ \A d \in Members(rest) : d \in CallType
    BY <1>2, SentAreCalls DEF Own, Without
  <2> QED BY <2>1 DEF Without, Own
<1>5. \A d \in Sent : d.k # "pause"
  BY <1>1, <1>2 DEF PauseOK
<1> QED BY <1>2, <1>3, <1>4, <1>5

\* The run has begun.
LEMMA StartDone ==
  ASSUME Types, Control, NEW c \in Sent, c.k = "start", rev = c.rev, c.res = "ok",
         NEW rest, Without(c, rest), calls' = pollInstrumentReadouts(rest),
         startVoltageReadoutPolling, setSimulationStatus("running"), Prepared(c, "running"),
         UNCHANGED <<client, sock, launched, proc, mode, notes, jobs, stopPending>>
  PROVE  Control'
<1>1. Rest /\ Notes /\ Queue /\ Preparing
      /\ \A d \in Sent : CallOK(d) /\ StartOK(d) /\ JobOK(d)
  BY DEF Control
<1>2. /\ c.p = client /\ client # 0 /\ c.before = status /\ status # "running"
      /\ status = "stopped" => c.gen = -1
      /\ c.gen = -1 => prep = "start"
      /\ ~stopPending /\ ~Resumes /\ ~Halting
      /\ \A d \in Members(rest) : d.k = "start" => d.p # client /\ d.gen # -1
  BY FreshStart
<1>3. /\ c.gen # -1 => prep' = prep
      /\ c.gen = -1 => prep' = "firmware"
  BY DEF Prepared
<1>4. prep' \notin {"launch", "connect", "connected", "catalog", "rebuild", "ready"}
  BY <1>1, <1>2, <1>3 DEF Preparing
<1>5. Up' = Up /\ Mode' = Mode /\ Current' = Current /\ Resumes' = Resumes /\ Halting' = Halting
  BY DEF Up, Mode, Current, Resumes, Halting
<1>6. Rest' /\ Notes'
  BY <1>1, <1>3, <1>5 DEF Rest, Notes, Preps
<1>7. Queue'
  <2>1. jobs # <<>> => ~Current.resume /\ ~Current.prep
    BY <1>1, <1>2 DEF Queue, HeadOK, Resumes, Preparing
  <2>2. Len(jobs) = 2 => ~jobs[2].prep
    BY <1>1, <1>2 DEF Queue, Behind, Preparing
  <2> QED BY <1>1, <1>5, <2>1, <2>2 DEF Queue, HeadOK, Behind
<1>8. \A d \in Members(rest) : JobOK(d)'
  BY <1>1, <1>5 DEF JobOK, Without
<1>9. PICK r \in CallType : /\ calls' = Append(rest, r) /\ r.k = "poll" /\ r.awaited
                            /\ r.p = client /\ r.res = IF sock[client] THEN "sent" ELSE "err"
  BY <1>2, ReadoutsAsked
<1>10. proc[client] # "reaped" /\ (Up => Mode = "running" \/ notes # {})
  BY <1>1, <1>2 DEF CallOK, StartOK
<1>11. Resumed(rest, r)
  BY <1>2, <1>9, <1>10 DEF Resumed, setSimulationStatus
<1> QED BY <1>2, <1>4, <1>6, <1>7, <1>8, <1>11, RunsAgain

\* The run was refused or could not be asked for.
LEMMA StartFailed ==
  ASSUME Types, Control, NEW c \in Sent, c.k = "start", rev = c.rev, c.res \in {"refused", "err"},
         NEW rest, Without(c, rest), calls' = rest, gen' = gen + 1, timer' = 0,
         setSimulationStatus(c.before), Prepared(c, c.before),
         UNCHANGED <<client, sock, launched, proc, mode, notes, jobs, stopPending>>
  PROVE  Control'
<1>1. Rest /\ Processes /\ Notes /\ Queue /\ Preparing /\ Agree
      /\ \A d \in Sent : CallOK(d) /\ StartOK(d) /\ JobOK(d) /\ PauseOK(d) /\ FrameOK(d)
  BY DEF Control
<1>2. /\ c.p = client /\ client # 0 /\ c.before = status /\ status # "running"
      /\ status = "stopped" => c.gen = -1
      /\ c.gen = -1 => prep = "start"
      /\ ~stopPending /\ ~Resumes /\ ~Halting
      /\ \A d \in Members(rest) : d.k = "start" => d.p # client /\ d.gen # -1
      /\ \A d \in Sent : d.k # "pause"
  BY FreshStart
<1>3. /\ c.gen # -1 => prep' = prep
      /\ c.gen = -1 => prep' = "no"
      /\ status' = status /\ rev' = rev + 1
  BY <1>2 DEF Prepared, setSimulationStatus
<1>4. Up' = Up /\ Mode' = Mode /\ Current' = Current /\ Resumes' = Resumes /\ Halting' = Halting
      /\ Own' = Own
  BY DEF Up, Mode, Current, Resumes, Halting, Own
<1>5. Sent' = Members(rest) /\ Sent' \subseteq Sent
  BY DEF Without, Sent
<1>6. Rest' /\ Processes' /\ Notes'
  BY <1>1, <1>2, <1>3, <1>4 DEF Rest, Processes, Notes, Preps
<1>7. Preparing'
  BY <1>1, <1>2, <1>3, <1>4 DEF Preparing
<1>8. Queue'
  BY <1>1, <1>2, <1>3, <1>4 DEF Queue, HeadOK, Behind
<1>9. Up => Mode = status
  <2>1. CASE c.res = "refused"
    BY <1>1, <1>2, <2>1 DEF StartOK
  <2>2. CASE c.res = "err"
    <3>1. ~sock[client]
      BY <1>1, <1>2, <2>2 DEF CallOK
    <3>2. Up => status = "stopped"
      BY <1>1, <3>1 DEF Processes
    <3>3. Up => Mode = "stopped"
      <4>1. client \in Procs
        BY <1>2, BoundsAssumption DEF Types, Procs
      <4> QED BY <1>1, <3>1, <4>1 DEF Processes, Up, Mode
    <3> QED BY <3>2, <3>3
  <2> QED BY <2>1, <2>2
<1>10. Agree'
  BY <1>3, <1>4, <1>9 DEF Agree
<1>11. Unique'
  BY <1>4 DEF Without, Unique, OfJobs, Pauses
<1>12. ASSUME NEW d \in Members(rest)
       PROVE  (CallOK(d) /\ StartOK(d) /\ JobOK(d) /\ PauseOK(d) /\ FrameOK(d))'
  <2>0. d \in Sent /\ d \in CallType
    BY <1>5, SentAreCalls
  <2>1. CallOK(d)'
    BY <1>1, <1>2, <1>3, <2>0 DEF CallOK
  <2>2. FrameOK(d)'
    <3>1. d.gen \in Int /\ gen \in Int
      BY <2>0 DEF Types, CallType
    <3>2. FrameOK(d)
      BY <1>1, <2>0
    <3> QED BY <3>1, <3>2 DEF FrameOK
  <2>3. d.k = "start" => d.rev <= rev + 1 /\ d.rev # rev + 1
    <3>1. d.rev \in Int /\ rev \in Int
      BY <2>0 DEF Types, CallType
    <3>2. StartOK(d)
      BY <1>1, <2>0
    <3> QED BY <3>1, <3>2 DEF StartOK
  <2>4. StartOK(d)'
    BY <1>1, <1>2, <1>3, <2>0, <2>3 DEF StartOK
  <2>5. JobOK(d)' /\ PauseOK(d)'
    BY <1>1, <1>2, <1>4, <2>0 DEF JobOK, PauseOK
  <2> QED BY <2>1, <2>2, <2>4, <2>5
<1> QED BY <1>5, <1>6, <1>7, <1>8, <1>10, <1>11, <1>12 DEF Control

\* runSimulation goes on.
LEMMA AfterStartControls ==
  ASSUME Types, Control, NEW c \in Sent, c.k = "start", c.res \in {"ok", "refused", "err"},
         NEW rest, Without(c, rest), AfterStart(c, c.res = "ok", rest),
         UNCHANGED <<client, sock, launched, proc, mode, notes>>
  PROVE  Control'
<1>1. UNCHANGED <<jobs, stopPending>>
  BY DEF AfterStart
<1>2. CASE rev # c.rev
  BY <1>1, <1>2, StaleStart DEF AfterStart
<1>3. CASE rev = c.rev /\ c.res = "ok"
  BY <1>1, <1>3, StartDone DEF AfterStart
<1>4. CASE rev = c.rev /\ c.res # "ok"
  <2>1. /\ gen' = gen + 1 /\ timer' = 0 /\ setSimulationStatus(c.before) /\ calls' = rest
        /\ Prepared(c, c.before)
    BY <1>4 DEF AfterStart, stopVoltageReadoutPolling
  <2> QED BY <1>1, <1>4, <2>1, StartFailed
<1> QED BY <1>2, <1>3, <1>4

\* pauseSimulation goes on.
LEMMA AfterPauseControls ==
  ASSUME Types, Control, NEW c \in Sent, c.k = "pause", c.res \in {"ok", "refused", "err"},
         NEW rest, Without(c, rest), AfterPause(c.res = "ok", rest),
         UNCHANGED <<client, sock, launched, proc, mode, notes>>
  PROVE  Control'
<1>1. Rest /\ Processes /\ Notes /\ Queue /\ Preparing /\ Agree
      /\ \A d \in Sent : CallOK(d) /\ StartOK(d) /\ JobOK(d) /\ PauseOK(d) /\ FrameOK(d)
  BY DEF Control
<1>2. /\ status = "running" /\ notes = {} /\ jobs = <<>> /\ c.p = client /\ ~stopPending
      /\ client # 0 /\ calls' = rest /\ UNCHANGED <<jobs, stopPending, prep>>
  BY <1>1 DEF PauseOK, Queue, CallOK, AfterPause, ctrlVars
<1>3. Up' = Up /\ Mode' = Mode /\ Own' = Own /\ ~Resumes' /\ ~Halting' /\ ~Halting
  BY <1>2 DEF Up, Mode, Resumes, Halting, Own
<1>4. Sent' = Members(rest) /\ Sent' \subseteq Sent
  BY <1>2 DEF Without, Sent
<1>5. \A d \in Members(rest) : d.k # "pause" /\ ~(d.k = "start" /\ d.p = client)
      /\ d.k \notin JobCalls
  <2>1. c \in Pauses /\ \A d \in Members(rest) : d \in CallType /\ d \in Sent
    BY SentAreCalls DEF Pauses, Without
  <2>2. \A d \in Members(rest) : d.k # "pause"
    BY <2>1 DEF Without, Pauses
  <2>3. \A d \in Sent : ~(d.k = "start" /\ d.p = client) /\ d.k \notin JobCalls
    BY <1>1, <1>2 DEF StartOK, JobOK
  <2> QED BY <2>1, <2>2, <2>3
<1>6. CASE c.res = "ok"
  <2>1. status' = "paused" /\ rev' = rev + 1 /\ gen' = gen + 1 /\ timer' = 0
    BY <1>6 DEF AfterPause, stopVoltageReadoutPolling, setSimulationStatus
  <2>2. Up => Mode = "paused"
    BY <1>1, <1>6 DEF PauseOK
  <2>3. Rest' /\ Processes' /\ Notes'
    BY <1>1, <1>2, <1>3, <2>1 DEF Rest, Processes, Notes
  <2>4. Queue' /\ Preparing' /\ Agree'
    BY <1>1, <1>2, <1>3, <2>1, <2>2 DEF Queue, Preparing, Agree
  <2>5. Unique'
    BY <1>2, <1>3 DEF Without, Unique, OfJobs, Pauses
  <2>6. ASSUME NEW d \in Members(rest)
        PROVE  (CallOK(d) /\ StartOK(d) /\ JobOK(d) /\ PauseOK(d) /\ FrameOK(d))'
    <3>0. d \in Sent /\ d \in CallType
      BY <1>4, SentAreCalls
    <3>1. CallOK(d)'
      BY <1>1, <1>2, <3>0 DEF CallOK
    <3>2. FrameOK(d)'
      <4>1. d.gen \in Int /\ gen \in Int
        BY <3>0 DEF Types, CallType
      <4>2. FrameOK(d)
        BY <1>1, <3>0
      <4> QED BY <2>1, <4>1, <4>2 DEF FrameOK
    <3>3. d.k = "start" => d.rev <= rev + 1 /\ d.rev # rev + 1
      <4>1. d.rev \in Int /\ rev \in Int
        BY <3>0 DEF Types, CallType
      <4>2. StartOK(d)
        BY <1>1, <3>0
      <4> QED BY <4>1, <4>2 DEF StartOK
    <3>4. StartOK(d)'
      BY <1>1, <1>2, <1>5, <2>1, <3>0, <3>3 DEF StartOK
    <3>5. JobOK(d)' /\ PauseOK(d)'
      BY <1>5 DEF JobOK, PauseOK
    <3> QED BY <3>1, <3>2, <3>4, <3>5
  <2> QED BY <1>4, <2>1, <2>3, <2>4, <2>5, <2>6 DEF Control
<1>7. CASE c.res # "ok"
  <2>1. UNCHANGED <<status, rev, gen, timer>>
    BY <1>7 DEF AfterPause
  <2>2. ~Up
    BY <1>1, <1>2, <1>7 DEF CallOK, Processes
  <2>3. Rest' /\ Processes' /\ Notes'
    BY <1>1, <1>2, <1>3, <2>1 DEF Rest, Processes, Notes
  <2>4. Queue' /\ Preparing' /\ Agree'
    BY <1>1, <1>2, <1>3, <2>1, <2>2 DEF Queue, Preparing, Agree
  <2>5. Unique'
    BY <1>2, <1>3 DEF Without, Unique, OfJobs, Pauses
  <2>6. ASSUME NEW d \in Members(rest)
        PROVE  (CallOK(d) /\ StartOK(d) /\ JobOK(d) /\ PauseOK(d) /\ FrameOK(d))'
    <3>0. d \in Sent
      BY <1>4
    <3>1. CallOK(d)' /\ FrameOK(d)'
      BY <1>1, <1>2, <2>1, <3>0 DEF CallOK, FrameOK
    <3>2. StartOK(d)'
      BY <1>1, <1>2, <1>5, <2>1, <3>0 DEF StartOK
    <3>3. JobOK(d)' /\ PauseOK(d)'
      BY <1>5 DEF JobOK, PauseOK
    <3> QED BY <3>1, <3>2, <3>3
  <2> QED BY <1>1, <1>4, <2>1, <2>3, <2>4, <2>5, <2>6 DEF Control
<1> QED BY <1>6, <1>7

\* A request of the queue of mutations leaves it with none.
LEMMA JobAnswered ==
  ASSUME Types, Control, NEW c \in Sent, c.k \in JobCalls, NEW rest, Without(c, rest)
  PROVE  /\ JobsAside(rest) /\ jobs # <<>> /\ c.p = client /\ client # 0
         /\ HeadOK /\ Current \in JobType
         /\ c.k = "jobStop" => Current.phase = "stop"
         /\ c.k = "jobWork" => Current.phase = "work"
         /\ c.k = "jobRun" => Current.phase = "run"
         /\ c.res = "err" /\ Up => status = "stopped"
<1>1. Rest /\ Processes /\ Queue /\ \A d \in Sent : CallOK(d) /\ JobOK(d)
  BY DEF Control
<1>2. c \in OfJobs /\ \A d \in Sent : d \in CallType
  BY SentAreCalls DEF OfJobs
<1>3. JobsAside(rest)
  BY <1>2 DEF JobsAside, Without, OfJobs
<1>4. /\ jobs # <<>> /\ c.p = client /\ client # 0
      /\ c.k = "jobStop" => Current.phase = "stop"
      /\ c.k = "jobWork" => Current.phase = "work"
      /\ c.k = "jobRun" => Current.phase = "run"
      /\ c.res = "err" => ~sock[client]
  BY <1>1 DEF JobOK, CallOK
<1>5. HeadOK /\ Current \in JobType
  BY <1>1, <1>4, JobFacts DEF Queue
<1>6. c.res = "err" /\ Up => status = "stopped"
  BY <1>1, <1>4 DEF Processes
<1> QED BY <1>3, <1>4, <1>5, <1>6

\* The answer to the stop of a job.
LEMMA AfterStopControls ==
  ASSUME Types, Control, NEW c \in Sent, c.k = "jobStop", c.res \in {"ok", "err"},
         NEW rest, Without(c, rest), AfterStop(c.res = "ok", rest),
         UNCHANGED <<client, sock, launched, proc, mode, notes, gen, timer>>
  PROVE  Control'
<1>1. /\ JobsAside(rest) /\ jobs # <<>> /\ c.p = client /\ client # 0
      /\ HeadOK /\ Current \in JobType /\ Current.phase = "stop"
      /\ c.res = "err" /\ Up => status = "stopped"
  BY JobAnswered DEF JobCalls
<1>2. Rest /\ Agree /\ JobOK(c)
  BY DEF Control
<1>3. Up /\ c.res = "ok" => Mode = "stopped"
  BY <1>2 DEF JobOK, JobCalls
<1>4. CASE Current.k = "stop" /\ c.res = "err"
  <2>1. Finish /\ stopPending' = FALSE /\ calls' = rest /\ UNCHANGED <<status, rev>>
    BY <1>4 DEF AfterStop
  <2>2. ~Resumes
    BY <1>1, <1>4 DEF HeadOK, Resumes
  <2>3. Up => status' = "stopped" /\ (Mode = "stopped" \/ prep = "start")
    BY <1>1, <1>2, <1>4, <2>1, <2>2 DEF Agree
  <2> QED BY <1>1, <2>1, <2>3, JobEnds
<1>5. CASE ~(Current.k = "stop" /\ c.res = "err")
  <2>1. /\ Proceed("work") /\ calls' = request(rest, "jobWork") /\ UNCHANGED <<stopPending, prep>>
        /\ Current.k = "rebuild" => status' = "stopped" /\ rev' = rev + 1
        /\ Current.k # "rebuild" => UNCHANGED <<status, rev>>
    BY <1>5 DEF AfterStop, setSimulationStatus
  <2>2. PICK h \in JobType : /\ jobs' = [jobs EXCEPT ![1] = h] /\ h.k = Current.k
                             /\ h.phase = "work" /\ h.prep = Current.prep
                             /\ h.resume = Current.resume
    BY <1>1, <1>2, <2>1, JobProceeds
  <2>3. PICK r \in CallType : /\ calls' = Append(rest, r) /\ r.k = "jobWork" /\ r.awaited
                              /\ r.p = client /\ r.res = IF sock[client] THEN "sent" ELSE "err"
    BY <1>1, <2>1, JobAsks DEF JobCalls
  <2>4. Current.k \in {"stop", "rebuild"} /\ (Current.k = "rebuild" => Current.resume)
        /\ (Current.k = "stop" => ~Current.resume)
        /\ (Current.resume => status = "running")
    BY <1>1 DEF HeadOK, JobType
  <2>5. Up => Mode = "stopped"
    BY <1>1, <1>3, <1>5, <2>4
  <2>6. JobStep(rest, r, h)
    BY <1>1, <2>1, <2>2, <2>3, <2>4, <2>5 DEF JobStep, JobCalls
  <2> QED BY <1>1, <2>6, JobGoesOn
<1> QED BY <1>4, <1>5

\* The answer to what a job is about.
LEMMA AfterWorkControls ==
  ASSUME Types, Control, NEW c \in Sent, c.k = "jobWork", c.res \in {"ok", "err"},
         NEW rest, Without(c, rest), AfterWork(c.res = "ok", rest),
         UNCHANGED <<client, sock, launched, proc, mode, notes, gen, timer>>
  PROVE  Control'
<1>1. /\ JobsAside(rest) /\ jobs # <<>> /\ c.p = client /\ client # 0
      /\ HeadOK /\ Current \in JobType /\ Current.phase = "work"
      /\ c.res = "err" /\ Up => status = "stopped"
  BY JobAnswered DEF JobCalls
<1>2. Rest /\ Agree
  BY DEF Control
<1>3. /\ Current.k \in {"stop", "rebuild"} /\ (Current.k = "stop" <=> stopPending)
      /\ Halting /\ Up => Mode = "stopped"
      /\ Halting <=> Current.resume \/ Current.k = "stop"
      /\ Current.resume => status = "stopped" /\ Current.k = "rebuild"
      /\ stopPending \in BOOLEAN
  BY <1>1, <1>2 DEF HeadOK, JobType, Halting, Rest
<1>4. CASE Current.resume /\ Proceed("run") /\ calls' = request(rest, "jobRun")
           /\ UNCHANGED <<status, rev, stopPending, prep>>
  <2>2. PICK h \in JobType : /\ jobs' = [jobs EXCEPT ![1] = h] /\ h.k = Current.k
                             /\ h.phase = "run" /\ h.prep = Current.prep
                             /\ h.resume = Current.resume
    BY <1>1, <1>2, <1>4, JobProceeds
  <2>3. PICK r \in CallType : /\ calls' = Append(rest, r) /\ r.k = "jobRun" /\ r.awaited
                              /\ r.p = client /\ r.res = IF sock[client] THEN "sent" ELSE "err"
    BY <1>1, <1>4, JobAsks DEF JobCalls
  <2>4. JobStep(rest, r, h)
    BY <1>1, <1>3, <1>4, <2>2, <2>3 DEF JobStep, JobCalls
  <2> QED BY <1>1, <2>4, JobGoesOn
<1>5. CASE /\ ~Current.resume /\ Finish /\ calls' = rest
           /\ stopPending' = (stopPending /\ Current.k # "stop")
           /\ IF Current.k = "stop" THEN setSimulationStatus("stopped")
              ELSE UNCHANGED <<status, rev>>
  <2>1. stopPending' = FALSE
    BY <1>3, <1>5
  <2>2. \/ UNCHANGED <<status, rev>> /\ ~Halting
        \/ Current.k = "stop" /\ status' = "stopped" /\ rev' = rev + 1 /\ Halting
    BY <1>3, <1>5 DEF setSimulationStatus
  <2> QED BY <1>1, <1>3, <1>5, <2>1, <2>2, JobEnds
<1>6. CASE /\ c.res # "ok" /\ Finish /\ calls' = rest
           /\ stopPending' = (stopPending /\ Current.k # "stop") /\ UNCHANGED <<status, rev>>
  <2>1. stopPending' = FALSE
    BY <1>3, <1>6
  <2>2. Up => \/ status' = "stopped" /\ Mode = "stopped"
              \/ UNCHANGED <<status, rev>> /\ ~Halting
    BY <1>1, <1>3, <1>6
  <2> QED BY <1>1, <1>6, <2>1, <2>2, JobEnds
<1> QED BY <1>4, <1>5, <1>6 DEF AfterWork

\* The answer to the run at the end of a rebuild.
LEMMA AfterRunControls ==
  ASSUME Types, Control, NEW c \in Sent, c.k = "jobRun", c.res \in {"ok", "refused", "err"},
         NEW rest, Without(c, rest), AfterRun(c.res = "ok", rest),
         UNCHANGED <<client, sock, launched, proc, mode, notes>>
  PROVE  Control'
<1>1. /\ JobsAside(rest) /\ jobs # <<>> /\ c.p = client /\ client # 0
      /\ HeadOK /\ Current \in JobType /\ Current.phase = "run"
  BY JobAnswered DEF JobCalls
<1>2. Rest /\ Notes /\ Queue /\ Preparing /\ JobOK(c) /\ CallOK(c)
      /\ \A d \in Sent : StartOK(d)
  BY DEF Control
<1>3. /\ Current.k = "rebuild" /\ Current.resume /\ ~stopPending /\ status = "stopped"
      /\ Finish /\ UNCHANGED stopPending /\ Resumes
  BY <1>1 DEF HeadOK, JobType, AfterRun, Resumes
<1>4. Up => Mode = IF c.res = "ok" THEN "running" ELSE "stopped"
  BY <1>2 DEF JobOK, JobCalls
<1>5. CASE c.res # "ok"
  <2>1. calls' = rest /\ UNCHANGED <<status, rev, gen, timer>> /\ stopPending' = FALSE
    BY <1>2, <1>3, <1>5 DEF AfterRun, Rest
  <2> QED BY <1>1, <1>3, <1>4, <1>5, <2>1, JobEnds
<1>6. CASE c.res = "ok"
  <2>1. /\ startVoltageReadoutPolling /\ status' = "running" /\ rev' = rev + 1
        /\ calls' = pollInstrumentReadouts(rest)
    BY <1>6 DEF AfterRun, setSimulationStatus
  <2>2. PICK r \in CallType : /\ calls' = Append(rest, r) /\ r.k = "poll" /\ r.awaited
                              /\ r.p = client /\ r.res = IF sock[client] THEN "sent" ELSE "err"
    BY <1>1, <2>1, ReadoutsAsked
  <2>3. Resumed(rest, r)
    BY <1>1, <1>2, <1>3, <1>4, <1>6, <2>1, <2>2 DEF Resumed, CallOK
  <2>4. prep \notin {"launch", "connect", "connected", "catalog", "rebuild", "ready"} /\ prep' = prep
    <3>1. prep \notin {"launch", "connect", "connected", "catalog", "rebuild", "ready"}
      BY <1>1, <1>2, <1>3 DEF Preparing
    <3> QED BY <1>1, <1>3, <3>1, JobPrep
  <2>5. \A d \in Members(rest) : d.k = "start" => d.p # client
    BY <1>2, <1>3 DEF Without, StartOK
  <2>6. /\ jobs' \in Seq(JobType) /\ Len(jobs') <= 1 /\ Len(jobs') \in Nat
        /\ jobs' # <<>> => Len(jobs) = 2 /\ Current' = jobs[2]
    BY <1>1, <1>3, JobTail DEF Finish
  <2>7. jobs' # <<>> => /\ Current'.k = "rebuild" /\ Current'.phase = "queued" /\ ~Current'.resume
                        /\ ~Current'.prep
    BY <1>2, <2>4, <2>6 DEF Queue, Behind
  <2>8. Queue'
    <3>1. Len(jobs') <= 2 /\ Len(jobs') # 2
      BY <1>1, <1>3, JobTail DEF Finish
    <3>2. ~Halting'
      BY <2>7 DEF Halting
    <3>3. jobs' # <<>> => HeadOK'
      BY <1>3, <2>7, <3>2 DEF HeadOK
    <3> QED BY <1>3, <3>1, <3>3 DEF Queue
  <2>9. notes = {}
    BY <1>1, JobAlone
  <2>10. Rest' /\ Notes'
    BY <1>2, <1>3, <2>4, <2>6, <2>9 DEF Rest, Notes
  <2>11. \A d \in Members(rest) : JobOK(d)'
    BY <1>1 DEF JobsAside, JobOK
  <2> QED BY <2>3, <2>4, <2>5, <2>8, <2>10, <2>11, RunsAgain
<1> QED BY <1>5, <1>6

\* A request that controls nothing is answered or forgotten.
LEMMA Dropped ==
  ASSUME Types, Control, NEW c \in Sent, ~IsControl(c.k), NEW rest, Without(c, rest),
         calls' = rest,
         UNCHANGED <<status, rev, client, sock, launched, proc, mode, notes, jobs, stopPending,
                     prep, gen, timer>>
  PROVE  Control'
<1>1. Sent' = Members(rest)
  BY DEF Sent
<1>2. (\A d \in Sent' : d \in Sent) /\ (\A d \in Sent : IsControl(d.k) => d \in Sent')
  BY <1>1 DEF Without
<1>3. AtMostOne(calls', Own) /\ AtMostOne(calls', OfJobs) /\ AtMostOne(calls', Pauses)
  BY DEF Without
<1> QED BY <1>2, <1>3, OthersStay

\* Any answer.
LEMMA DeliverControls ==
  ASSUME Types, Control, Deliver
  PROVE  Control'
<1>1. PICK i \in DOMAIN calls :
        /\ calls[i].res \in {"ok", "refused", "err"}
        /\ IF calls[i].awaited THEN Continue(calls[i], calls[i].res = "ok", RemoveAt(calls, i))
           ELSE calls' = RemoveAt(calls, i) /\ UNCHANGED <<status, rev, ctrlVars, pollVars>>
        /\ UNCHANGED <<client, sock, launched, proc, mode, notes>>
  BY DEF Deliver, connVars
<1>2. PICK c \in Sent : c = calls[i] /\ c \in CallType /\ Without(c, RemoveAt(calls, i))
  BY RemovedIsWithout
<1>3. PICK rest : rest = RemoveAt(calls, i) /\ Without(c, rest)
  BY <1>2
<1>4. /\ c.res \in {"ok", "refused", "err"}
      /\ c.awaited => Continue(c, c.res = "ok", rest)
      /\ ~c.awaited => calls' = rest /\ UNCHANGED <<status, rev, ctrlVars, pollVars>>
      /\ Without(c, rest)
  BY <1>1, <1>2, <1>3
<1>5. CallOK(c)
  BY DEF Control
<1>6. CASE ~c.awaited
  <2>1. ~IsControl(c.k)
    BY <1>5, <1>6 DEF CallOK
  <2> QED BY <1>1, <1>4, <1>6, <2>1, Dropped DEF ctrlVars, pollVars
<1>7. CASE c.awaited
  <2>1. CASE c.k = "start" /\ AfterStart(c, c.res = "ok", rest)
    BY <1>1, <1>4, <2>1, AfterStartControls
  <2>2. CASE c.k = "pause" /\ AfterPause(c.res = "ok", rest)
    BY <1>1, <1>4, <2>2, AfterPauseControls
  <2>3. CASE c.k = "frame" /\ AfterFrame(c, c.res = "ok", rest)
    BY <1>1, <1>4, <2>3, Dropped DEF AfterFrame, ctrlVars, IsControl
  <2>4. CASE c.k = "poll" /\ AfterPoll(c.res = "ok", rest)
    BY <1>1, <1>4, <2>4, Dropped DEF AfterPoll, ctrlVars, IsControl
  <2>5. CASE c.k = "jobStop" /\ AfterStop(c.res = "ok", rest) /\ UNCHANGED pollVars
    <3>1. c.res \in {"ok", "err"}
      BY <1>4, <1>5, <2>5 DEF CallOK
    <3> QED BY <1>1, <1>4, <2>5, <3>1, AfterStopControls DEF pollVars
  <2>6. CASE c.k = "jobWork" /\ AfterWork(c.res = "ok", rest) /\ UNCHANGED pollVars
    <3>1. c.res \in {"ok", "err"}
      BY <1>4, <1>5, <2>6 DEF CallOK
    <3> QED BY <1>1, <1>4, <2>6, <3>1, AfterWorkControls DEF pollVars
  <2>7. CASE c.k = "jobRun" /\ AfterRun(c.res = "ok", rest)
    BY <1>1, <1>4, <2>7, AfterRunControls
  <2> QED BY <1>4, <1>7, <2>1, <2>2, <2>3, <2>4, <2>5, <2>6, <2>7 DEF Continue
<1> QED BY <1>6, <1>7

\* A request that timed out: not one of the control, or a history that is excepted.
LEMMA TimeOutControls ==
  ASSUME Types, Control, TimeOut, Orderly'
  PROVE  Control'
<1>1. PICK i \in DOMAIN calls :
        /\ Continue(calls[i], FALSE, [calls EXCEPT ![i].awaited = FALSE])
        /\ ~IsControl(calls[i].k)
        /\ UNCHANGED <<client, sock, launched, proc, mode, notes>>
  BY DEF TimeOut, connVars, Orderly
<1>2. PICK c \in CallType : c = calls[i] /\ c \in Sent
  BY RemovedIsWithout
<1>3. PICK n \in CallType : /\ n = [c EXCEPT !.awaited = FALSE] /\ n.k = c.k /\ n.p = c.p
                            /\ n.res = c.res /\ ~n.awaited
  <2>1. [c EXCEPT !.awaited = FALSE] \in CallType
    BY DEF CallType
  <2> QED BY <2>1 DEF CallType
<1>4. /\ calls' = [calls EXCEPT ![i] = n]
      /\ UNCHANGED <<status, rev, jobs, stopPending, prep, gen, timer>>
  BY <1>1, <1>2, <1>3 DEF Continue, AfterFrame, AfterPoll, IsControl, ctrlVars
<1>5. n.k = c.k /\ n.p = c.p /\ n.res = c.res /\ ~n.awaited /\ ~IsControl(c.k)
  BY <1>1, <1>2, <1>3
<1>6. calls \in Seq(CallType) /\ DOMAIN calls' = DOMAIN calls
      /\ \A j \in DOMAIN calls : calls'[j] = IF j = i THEN n ELSE calls[j]
  BY <1>4 DEF Types
<1>7. (\A d \in Sent' : d \in Sent \/ d = n) /\ (\A d \in Sent : d # c => d \in Sent')
  BY <1>2, <1>6 DEF Sent, Members
<1>8. AtMostOne(calls', Own) /\ AtMostOne(calls', OfJobs) /\ AtMostOne(calls', Pauses)
  <2>1. n \notin Own /\ n \notin OfJobs /\ n \notin Pauses
    BY <1>5 DEF Own, OfJobs, Pauses, JobCalls, IsControl
  <2> QED BY <1>6, <2>1 DEF Control, Unique, AtMostOne
<1>9. CallOK(n)' /\ FrameOK(n)'
  <2>1. CallOK(c)
    BY <1>2 DEF Control
  <2> QED BY <1>1, <1>4, <1>5, <2>1 DEF CallOK, FrameOK
<1> QED BY <1>1, <1>4, <1>5, <1>7, <1>8, <1>9, OthersStay

\* Every step keeps the status and the Core in order.
LEMMA NextControls ==
  ASSUME IInv, Control, [Next]_vars, Orderly'
  PROVE  Control'
<1>0. Types
  BY DEF IInv
<1>1. CASE User
  BY <1>0, <1>1, PressRunControls, PressPauseControls, PressStopControls, EditControls DEF User
<1>2. CASE Tick
  BY <1>0, <1>2, TickControls
<1>3. CASE Prepare
  BY <1>0, <1>3, LaunchControls, ConnectControls, PublishControls, CatalogControls,
     PrepareRunControls, FirmwareControls DEF Prepare
<1>4. CASE StartJob
  BY <1>0, <1>4, StartJobControls
<1>5. CASE Deliver
  BY <1>0, <1>5, DeliverControls
<1>6. CASE TimeOut
  BY <1>0, <1>6, TimeOutControls
<1>7. CASE Execute
  BY <1>0, <1>7, ExecuteControls
<1>8. CASE TriggerCondition
  BY <1>0, <1>8, TriggerControls
<1>9. CASE ReceiveCondition
  BY <1>0, <1>9, ReceiveControls
<1>10. CASE Crash
  BY <1>0, <1>10, CrashControls
<1>11. CASE SocketClosed
  BY <1>0, <1>11, SocketControls
<1>12. CASE ProcessExit
  BY <1>0, <1>12, ExitControls
<1>13. CASE PollingThrows
  BY <1>13 DEF PollingThrows, Orderly
<1>14. CASE PauseSilently \/ UNCHANGED vars
  <2>1. /\ UNCHANGED <<status, rev, client, sock, launched, proc, mode, notes, jobs, stopPending,
                       prep, gen, timer>>
        /\ calls' = calls
    BY <1>14 DEF PauseSilently, connVars, ctrlVars, pollVars, vars
  <2>2. Sent' = Sent
    BY <2>1 DEF Sent
  <2>3. AtMostOne(calls', Own) /\ AtMostOne(calls', OfJobs) /\ AtMostOne(calls', Pauses)
    BY <2>1 DEF Control, Unique
  <2> QED BY <1>0, <2>1, <2>2, <2>3, OthersStay
<1> QED BY <1>1, <1>2, <1>3, <1>4, <1>5, <1>6, <1>7, <1>8, <1>9, <1>10, <1>11, <1>12, <1>13, <1>14
        DEF Next

-----------------------------------------------------------------------------
(* The screen *)

\* No readouts more.
PollsStay == \A d \in Sent' : d.k = "poll" /\ d.awaited => \E c \in Sent : c.k = "poll" /\ c.awaited

\* Nothing new to be seen.
LEMMA NothingLit ==
  ASSUME shown' = shown \/ shown' = "blank", timer' = timer \/ timer' = 0, PollsStay
  PROVE  Lit' => Lit
BY DEF Lit, PollsStay

\* Nothing new to be seen, nothing stopped.
LEMMA ScreenStays ==
  ASSUME Screen, Lit' => Lit, UNCHANGED <<status, stopPending, jobs>>
  PROVE  Screen'
BY DEF Screen, Resumes, Current

\* A request more that is no readout.
LEMMA AskedPolls ==
  ASSUME NEW cs \in Seq(CallType), Members(cs) \subseteq Sent, NEW r \in CallType, r.k # "poll",
         calls' = Append(cs, r)
  PROVE  PollsStay
<1>1. Sent' = Members(cs) \cup {r}
  BY MembersAppend DEF Sent
<1> QED BY <1>1 DEF PollsStay

\* Requests in the same places, awaited or no longer.
LEMMA SamePolls ==
  ASSUME DOMAIN calls' = DOMAIN calls,
         \A j \in DOMAIN calls : /\ calls'[j].k = calls[j].k
                                 /\ calls'[j].awaited => calls[j].awaited
  PROVE  PollsStay
BY DEF PollsStay, Sent, Members

\* Gestures, and what a preparation does besides stopping.
LEMMA AskingScreens ==
  ASSUME Types, Control, Screen, PressRun \/ PressPause \/ Tick \/ PrepareRun
  PROVE  Screen'
<1>1. UNCHANGED <<status, stopPending, jobs, shown, timer>>
  BY DEF PressRun, PressPause, Tick, PrepareRun, ctrlVars, pollVars
<1>2. \A k \in Kinds : Call(k) \in CallType /\ Call(k).k = k
  BY NewCall
<1>3. PollsStay
  <2>1. CASE UNCHANGED calls
    BY <2>1 DEF PollsStay, Sent
  <2>2. CASE \E r \in CallType : r.k # "poll" /\ calls' = Append(calls, r)
    BY <2>2, AskedPolls DEF Types, Sent
  <2>3. CASE calls' = request(calls, "start") \/ calls' = request(calls, "pause")
             \/ calls' = request(calls, "frame")
    <3>1. \A k \in {"start", "pause", "frame"} : Call(k) \in CallType /\ Call(k).k # "poll"
      BY <1>2 DEF Kinds
    <3> QED BY <2>2, <2>3, <3>1 DEF request
  <2>4. CASE calls' = Append(calls, [Call("start") EXCEPT !.gen = -1])
    <3>1. Call("start") \in CallType /\ Call("start").k = "start"
      BY <1>2 DEF Kinds
    <3>2. [Call("start") EXCEPT !.gen = -1] \in CallType
          /\ [Call("start") EXCEPT !.gen = -1].k # "poll"
      BY <3>1 DEF CallType
    <3> QED BY <2>2, <2>4, <3>2
  <2> QED BY <2>1, <2>3, <2>4 DEF PressRun, PressPause, Tick, PrepareRun
<1>4. Lit' => Lit
  BY <1>1, <1>3, NothingLit
<1> QED BY <1>1, <1>4, ScreenStays

\* A stop: the screen is blank and no readouts are under way.
LEMMA StopScreens ==
  ASSUME stopSimulation, UNCHANGED calls, ~loose',
         loose' = (loose \/ \E i \in DOMAIN calls : calls[i].k = "poll")
  PROVE  Screen'
<1>1. timer' = 0 /\ shown' = "blank"
  BY DEF stopSimulation, stopVoltageReadoutPolling
<1>2. \A c \in Sent' : c.k # "poll"
  BY DEF Sent, Members
<1> QED BY <1>1, <1>2 DEF Screen, Lit

\* An edit.
LEMMA EditScreens ==
  ASSUME Control', Screen, RebuildingEdit, Orderly'
  PROVE  Screen'
<1>1. /\ UNCHANGED <<status, stopPending, shown, timer, calls>>
      /\ jobs = <<>> /\ queueCoreRebuild(FALSE)
  BY DEF RebuildingEdit, pollVars, Orderly, Unconditional
<1>2. ~Resumes'
  <2>1. {i \in DOMAIN jobs : jobs[i].k = "rebuild" /\ jobs[i].phase = "queued"} = {}
    BY <1>1
  <2>2. jobs' = Append(jobs, [Job("rebuild") EXCEPT !.prep = FALSE])
    BY <1>1, <2>1 DEF queueCoreRebuild
  <2>3. [Job("rebuild") EXCEPT !.prep = FALSE] \in JobType
    BY DEF Job, JobType
  <2>4. Current' = [Job("rebuild") EXCEPT !.prep = FALSE]
    BY <1>1, <2>2, <2>3, FirstJob
  <2> QED BY <2>4 DEF Job, Resumes
<1>3. Lit' => Lit
  BY <1>1 DEF Lit, Sent
<1> QED BY <1>1, <1>2, <1>3 DEF Screen

\* A stage of a preparation.
LEMMA PrepareScreens ==
  ASSUME Types, Control, Control', Screen, Prepare, Orderly', ~loose'
  PROVE  Screen'
<1>1. CASE launchCoreProcess \/ connectCoreClient \/ publishClient
  <2>1. UNCHANGED <<status, stopPending, jobs, shown, timer, calls>>
    BY <1>1 DEF launchCoreProcess, connectCoreClient, publishClient, pollVars
  <2>2. Lit' => Lit
    BY <2>1 DEF Lit, Sent
  <2> QED BY <2>1, <2>2, ScreenStays
<1>2. CASE RefreshCatalog
  <2>1. UNCHANGED <<status, stopPending, shown, timer, calls>>
        /\ (prep' = "rebuild" \/ UNCHANGED jobs)
    BY <1>2 DEF RefreshCatalog, pollVars
  <2>2. Lit' => Lit
    BY <2>1 DEF Lit, Sent
  <2>3. CASE prep' = "rebuild"
    <3>1. ~Resumes'
      BY <2>3 DEF Control, Preparing, Resumes
    <3> QED BY <2>1, <2>2, <3>1 DEF Screen
  <2> QED BY <2>1, <2>2, <2>3, ScreenStays
<1>3. CASE PrepareRun
  BY <1>3, AskingScreens
<1>4. CASE CheckFirmware
  <2>1. UNCHANGED calls
    BY <1>4 DEF CheckFirmware
  <2>2. CASE UNCHANGED <<status, rev, jobs, stopPending, pollVars, ghosts>>
    <3>1. Lit' => Lit
      BY <2>1, <2>2 DEF Lit, Sent, pollVars
    <3> QED BY <2>2, <3>1, ScreenStays
  <2>3. CASE stopSimulation /\ loose' = (loose \/ \E i \in DOMAIN calls : calls[i].k = "poll")
    BY <2>1, <2>3, StopScreens
  <2> QED BY <1>4, <2>2, <2>3 DEF CheckFirmware
<1> QED BY <1>1, <1>2, <1>3, <1>4 DEF Prepare

\* A job that has ended resumes nothing any longer.
LEMMA EndedResumes ==
  ASSUME Control, jobs # <<>>, Finish
  PROVE  ~Resumes'
<1>1. jobs' # <<>> => Len(jobs) = 2 /\ Current' = jobs[2]
  BY JobTail DEF Finish
<1> QED BY <1>1 DEF Control, Queue, Behind, Resumes

\* A rebuild of a running simulation clears the screen first.
LEMMA StartJobScreens ==
  ASSUME Types, Control, Screen, StartJob, ~loose'
  PROVE  Screen'
<1>1. Rest /\ Queue /\ jobs # <<>> /\ Current.phase = "queued" /\ HeadOK /\ Current \in JobType
      /\ UNCHANGED client
  BY JobFacts DEF Control, StartJob, Queue, connVars
<1>2. \A k \in Kinds : Call(k) \in CallType /\ Call(k).k = k
  BY NewCall
<1>3. \A k \in {"jobStop", "jobWork"} : calls' = request(calls, k) => PollsStay
  <2>1. \A k \in {"jobStop", "jobWork"} : Call(k) \in CallType /\ Call(k).k # "poll"
    BY <1>2 DEF Kinds
  <2> QED BY <2>1, AskedPolls DEF request, Types, Sent
<1>4. CASE client = 0
  <2>1. Finish /\ UNCHANGED <<calls, shown, timer>>
    BY <1>1, <1>4 DEF StartJob, pollVars, JobType
  <2>2. Lit' => Lit
    BY <2>1 DEF Lit, Sent
  <2>3. CASE Current.k = "stop"
    <3>1. stopPending
      BY <1>1, <2>3 DEF HeadOK
    <3> QED BY <2>2, <3>1 DEF Screen
  <2>4. CASE Current.k = "rebuild"
    <3>1. UNCHANGED <<status, stopPending>> /\ ~Resumes'
      BY <1>1, <1>4, <2>1, <2>4, EndedResumes DEF StartJob
    <3> QED BY <2>2, <3>1 DEF Screen
  <2> QED BY <1>1, <2>3, <2>4 DEF JobType
<1>5. CASE client # 0 /\ Current.k = "rebuild" /\ status # "running"
  <2>1. /\ Proceed("work") /\ calls' = request(calls, "jobWork")
        /\ UNCHANGED <<status, stopPending, shown, timer>>
    BY <1>5 DEF StartJob, pollVars
  <2>2. ~Resumes'
    <3>1. PICK h \in JobType : jobs' = [jobs EXCEPT ![1] = h] /\ h.resume = Current.resume
      BY <1>1, <2>1, JobProceeds
    <3>2. Current' = h
      BY <1>1, <3>1, JobHead
    <3> QED BY <1>1, <3>1, <3>2 DEF HeadOK, Resumes
  <2>3. Lit' => Lit
    BY <1>3, <2>1, NothingLit
  <2> QED BY <2>1, <2>2, <2>3 DEF Screen
<1>6. CASE client # 0 /\ Current.k = "stop"
  <2>1. calls' = request(calls, "jobStop") /\ UNCHANGED <<shown, timer>>
    BY <1>6 DEF StartJob, pollVars
  <2>2. stopPending
    BY <1>1, <1>6 DEF HeadOK
  <2>3. Lit' => Lit
    BY <1>3, <2>1, NothingLit
  <2> QED BY <2>2, <2>3 DEF Screen
<1>7. CASE client # 0 /\ Current.k = "rebuild" /\ status = "running"
  <2>1. calls' = request(calls, "jobStop") /\ shown' = "blank" /\ timer' = 0
    BY <1>7 DEF StartJob, stopVoltageReadoutPolling
  <2>2. \A c \in Sent : c.k # "poll"
    BY <1>7 DEF StartJob, Sent, Members
  <2>3. PollsStay
    BY <1>3, <2>1
  <2> QED BY <2>1, <2>2, <2>3 DEF Screen, Lit, PollsStay
<1> QED BY <1>1, <1>4, <1>5, <1>6, <1>7 DEF JobType

\* Answers, crashes and conditions.
LEMMA EventScreens ==
  ASSUME Types, Control, Screen,
         \/ Execute \/ SocketClosed \/ TriggerCondition \/ PauseSilently \/ Crash
         \/ ReceiveCondition \/ ProcessExit,
         ~loose', ~orphaned'
  PROVE  Screen'
<1>1. CASE Execute \/ SocketClosed
  <2>1. UNCHANGED <<status, stopPending, jobs, shown, timer>>
    BY <1>1 DEF Execute, SocketClosed, pollVars, ctrlVars
  <2>2. PollsStay
    BY <1>1, AnswersStay, SamePolls
  <2>3. Lit' => Lit
    BY <2>1, <2>2, NothingLit
  <2> QED BY <2>1, <2>3, ScreenStays
<1>2. CASE TriggerCondition \/ PauseSilently \/ Crash
  <2>1. UNCHANGED <<status, stopPending, jobs, shown, timer, calls>>
    BY <1>2 DEF TriggerCondition, PauseSilently, Crash, pollVars, ctrlVars
  <2>2. Lit' => Lit
    BY <2>1 DEF Lit, Sent
  <2> QED BY <2>1, <2>2, ScreenStays
<1>3. CASE ReceiveCondition
  <2>1. notes # {} /\ status' = "paused" /\ UNCHANGED <<stopPending, jobs>>
    BY <1>3 DEF ReceiveCondition, setSimulationStatus, ctrlVars
  <2>2. jobs = <<>> /\ ~stopPending
    BY <2>1 DEF Control, Notes, Queue
  <2> QED BY <2>1, <2>2 DEF Screen, Resumes
<1>4. CASE ProcessExit
  <2>1. /\ shown # "values" /\ timer = 0 /\ UNCHANGED <<shown, timer, calls>>
        /\ \A i \in DOMAIN calls : calls[i].k # "poll"
    BY <1>4 DEF ProcessExit, pollVars
  <2> QED BY <2>1 DEF Screen, Lit, Sent, Members
<1> QED BY <1>1, <1>2, <1>3, <1>4

\* Requests without one of them.
LEMMA WithoutPolls ==
  ASSUME NEW c, NEW rest, Without(c, rest), calls' = rest
  PROVE  PollsStay
BY DEF PollsStay, Without, Sent

\* The answer to a request of the queue of mutations: a stop, or what a stop is part of, has
\* cleared the screen before.
LEMMA JobAnswerScreens ==
  ASSUME Types, Control, Screen, NEW c \in Sent, c.k \in JobCalls, NEW rest, Without(c, rest),
         \/ c.k = "jobStop" /\ AfterStop(c.res = "ok", rest) /\ UNCHANGED pollVars
         \/ c.k = "jobWork" /\ AfterWork(c.res = "ok", rest) /\ UNCHANGED pollVars
         \/ c.k = "jobRun" /\ AfterRun(c.res = "ok", rest),
         UNCHANGED client
  PROVE  Screen'
<1>1. /\ jobs # <<>> /\ HeadOK /\ Current \in JobType
      /\ c.k = "jobStop" => Current.phase = "stop"
      /\ c.k = "jobWork" => Current.phase = "work"
      /\ c.k = "jobRun" => Current.phase = "run"
  BY JobAnswered
<1>2. Rest /\ rest \in Seq(CallType) /\ Members(rest) \subseteq Sent
  BY DEF Control, Without
<1>3. \A k \in {"jobWork", "jobRun"} : calls' = request(rest, k) => PollsStay
  <2>1. \A k \in {"jobWork", "jobRun"} : Call(k) \in CallType /\ Call(k).k # "poll"
    BY NewCall DEF Kinds
  <2> QED BY <1>2, <2>1, AskedPolls DEF request
<1>4. calls' = rest => PollsStay
  BY WithoutPolls
<1>5. CASE c.k \in {"jobStop", "jobWork"}
  <2>1. UNCHANGED <<shown, timer>> /\ PollsStay
    BY <1>3, <1>4, <1>5 DEF AfterStop, AfterWork, pollVars
  <2>2. Lit' => Lit
    BY <2>1, NothingLit
  <2>3. CASE stopPending \/ Resumes
    BY <2>2, <2>3 DEF Screen
  <2>4. CASE ~stopPending /\ ~Resumes
    <3>1. Current.k = "rebuild" /\ ~Current.resume /\ c.k = "jobWork"
      BY <1>1, <1>5, <2>4 DEF HeadOK, JobType, Resumes
    <3>2. Finish /\ UNCHANGED status /\ ~stopPending'
      BY <2>4, <3>1 DEF AfterWork
    <3>3. ~Resumes'
      BY <1>1, <3>2, EndedResumes
    <3> QED BY <2>2, <3>2, <3>3 DEF Screen
  <2> QED BY <2>3, <2>4
<1>6. CASE c.k = "jobRun"
  <2>1. AfterRun(c.res = "ok", rest)
    BY <1>6
  <2>2. ~Resumes' /\ UNCHANGED stopPending
    BY <1>1, <2>1, EndedResumes DEF AfterRun
  <2>3. Resumes /\ ~stopPending
    BY <1>1, <1>6 DEF HeadOK, JobType, Resumes
  <2>4. CASE c.res = "ok"
    <3>1. status' = "running"
      BY <2>1, <2>4 DEF AfterRun, setSimulationStatus
    <3> QED BY <2>2, <2>3, <3>1 DEF Screen
  <2>5. CASE c.res # "ok"
    <3>1. calls' = rest /\ UNCHANGED <<shown, timer>>
      BY <2>1, <2>5 DEF AfterRun
    <3>2. Lit' => Lit
      BY <1>4, <3>1, NothingLit
    <3> QED BY <2>3, <3>2 DEF Screen
  <2> QED BY <2>4, <2>5
<1> QED BY <1>5, <1>6 DEF JobCalls

\* A run that was asked for.
LEMMA StartAnswerScreens ==
  ASSUME Types, Control, Screen, NEW c \in Sent, c.k = "start", NEW rest, Without(c, rest),
         AfterStart(c, c.res = "ok", rest)
  PROVE  Screen'
<1>1. UNCHANGED <<jobs, stopPending>>
  BY DEF AfterStart
<1>2. CASE rev # c.rev
  <2>1. UNCHANGED <<status, shown, timer>> /\ calls' = rest
    BY <1>2 DEF AfterStart
  <2>2. Lit' => Lit
    BY <2>1, WithoutPolls, NothingLit
  <2> QED BY <1>1, <2>1, <2>2, ScreenStays
<1>3. CASE rev = c.rev
  <2>1. c.before = status /\ ~stopPending /\ ~Resumes
    BY <1>3, FreshStart
  <2>2. ~stopPending' /\ ~Resumes'
    BY <1>1, <2>1 DEF Resumes, Current
  <2>3. CASE c.res = "ok"
    <3>1. status' = "running"
      BY <1>3, <2>3 DEF AfterStart, setSimulationStatus
    <3> QED BY <2>2, <3>1 DEF Screen
  <2>4. CASE c.res # "ok"
    <3>1. /\ status' = status /\ calls' = rest /\ timer' = 0
          /\ shown' = IF status = "stopped" THEN "blank" ELSE shown
      BY <1>3, <2>1, <2>4 DEF AfterStart, setSimulationStatus, stopVoltageReadoutPolling
    <3>2. Lit' => Lit
      BY <3>1, WithoutPolls, NothingLit
    <3> QED BY <2>2, <3>1, <3>2 DEF Screen
  <2> QED BY <2>3, <2>4
<1> QED BY <1>2, <1>3

\* Any answer.
LEMMA DeliverScreens ==
  ASSUME Types, Control, Screen, Deliver
  PROVE  Screen'
<1>1. PICK i \in DOMAIN calls :
        /\ IF calls[i].awaited THEN Continue(calls[i], calls[i].res = "ok", RemoveAt(calls, i))
           ELSE calls' = RemoveAt(calls, i) /\ UNCHANGED <<status, rev, ctrlVars, pollVars>>
        /\ UNCHANGED client
  BY DEF Deliver, connVars
<1>2. PICK c \in Sent : c = calls[i] /\ c \in CallType /\ Without(c, RemoveAt(calls, i))
  BY RemovedIsWithout
<1>3. PICK rest : rest = RemoveAt(calls, i) /\ Without(c, rest)
  BY <1>2
<1>4. /\ c.awaited => Continue(c, c.res = "ok", rest)
      /\ ~c.awaited => calls' = rest /\ UNCHANGED <<status, rev, ctrlVars, pollVars>>
      /\ Without(c, rest) /\ UNCHANGED client
  BY <1>1, <1>2, <1>3
<1>5. calls' = rest => PollsStay
  BY <1>4, WithoutPolls
<1>6. CASE ~c.awaited
  <2>1. calls' = rest /\ UNCHANGED <<status, stopPending, jobs, shown, timer>>
    BY <1>4, <1>6 DEF ctrlVars, pollVars
  <2>2. Lit' => Lit
    BY <1>5, <2>1, NothingLit
  <2> QED BY <2>1, <2>2, ScreenStays
<1>7. CASE c.awaited
  <2>1. CASE c.k = "start" /\ AfterStart(c, c.res = "ok", rest)
    BY <1>4, <2>1, StartAnswerScreens
  <2>2. CASE c.k = "pause" /\ AfterPause(c.res = "ok", rest)
    <3>1. jobs = <<>> /\ ~stopPending /\ calls' = rest /\ UNCHANGED <<stopPending, jobs>>
      BY <2>2 DEF Control, PauseOK, Queue, AfterPause, ctrlVars
    <3>2. CASE c.res = "ok"
      <4>1. status' = "paused"
        BY <2>2, <3>2 DEF AfterPause, setSimulationStatus
      <4> QED BY <3>1, <4>1 DEF Screen, Resumes
    <3>3. CASE c.res # "ok"
      <4>1. UNCHANGED <<status, shown, timer>>
        BY <2>2, <3>3 DEF AfterPause
      <4>2. Lit' => Lit
        BY <1>5, <3>1, <4>1, NothingLit
      <4> QED BY <3>1, <4>1, <4>2, ScreenStays
    <3> QED BY <3>2, <3>3
  <2>3. CASE c.k = "frame" /\ AfterFrame(c, c.res = "ok", rest)
    <3>1. calls' = rest /\ UNCHANGED <<status, stopPending, jobs, timer>>
      BY <2>3 DEF AfterFrame, ctrlVars
    <3>2. CASE c.gen = gen
      <4>1. timer # 0
        <5>1. FrameOK(c) /\ gen \in Int
          BY DEF Control, Types
        <5> QED BY <1>7, <2>3, <3>2, <5>1 DEF FrameOK
      <4>2. Lit
        BY <4>1 DEF Lit
      <4> QED BY <3>1, <4>2, ScreenStays
    <3>3. CASE c.gen # gen
      <4>1. shown' = shown
        BY <2>3, <3>3 DEF AfterFrame
      <4>2. Lit' => Lit
        BY <1>5, <3>1, <4>1, NothingLit
      <4> QED BY <3>1, <4>2, ScreenStays
    <3> QED BY <3>2, <3>3
  <2>4. CASE c.k = "poll" /\ AfterPoll(c.res = "ok", rest)
    <3>1. Lit /\ UNCHANGED <<status, stopPending, jobs>>
      BY <1>7, <2>4 DEF Lit, AfterPoll, ctrlVars
    <3> QED BY <3>1, ScreenStays
  <2>5. CASE \/ c.k = "jobStop" /\ AfterStop(c.res = "ok", rest) /\ UNCHANGED pollVars
             \/ c.k = "jobWork" /\ AfterWork(c.res = "ok", rest) /\ UNCHANGED pollVars
             \/ c.k = "jobRun" /\ AfterRun(c.res = "ok", rest)
    <3>1. c.k \in JobCalls
      BY <2>5 DEF JobCalls
    <3> QED BY <1>4, <2>5, <3>1, JobAnswerScreens
  <2> QED BY <1>4, <1>7, <2>1, <2>2, <2>3, <2>4, <2>5 DEF Continue
<1> QED BY <1>6, <1>7

\* A frame or readouts that timed out.
LEMMA TimeOutScreens ==
  ASSUME Types, Control, Screen, TimeOut, Orderly'
  PROVE  Screen'
<1>1. PICK i \in DOMAIN calls :
        /\ Continue(calls[i], FALSE, [calls EXCEPT ![i].awaited = FALSE])
        /\ ~IsControl(calls[i].k)
  BY DEF TimeOut, Orderly
<1>2. /\ calls' = [calls EXCEPT ![i].awaited = FALSE]
      /\ UNCHANGED <<status, stopPending, jobs, timer>> /\ (shown' = shown \/ shown' = "blank")
  BY <1>1 DEF Continue, AfterFrame, AfterPoll, IsControl, ctrlVars
<1>3. calls[i] \in CallType
  BY RemovedIsWithout
<1>4. /\ DOMAIN calls' = DOMAIN calls
      /\ \A j \in DOMAIN calls : /\ calls'[j].k = calls[j].k
                                 /\ calls'[j].awaited => calls[j].awaited
  BY <1>2, <1>3 DEF Types, CallType
<1>5. Lit' => Lit
  BY <1>2, <1>4, SamePolls, NothingLit
<1> QED BY <1>2, <1>5, ScreenStays

\* Every step keeps a stopped screen blank.
LEMMA NextScreens ==
  ASSUME IInv, Control, Control', Screen, [Next]_vars, Orderly', ~loose', ~orphaned'
  PROVE  Screen'
<1>0. Types
  BY DEF IInv
<1>1. CASE PressRun \/ PressPause \/ Tick
  BY <1>0, <1>1, AskingScreens
<1>2. CASE PressStop
  BY <1>2, StopScreens DEF PressStop
<1>3. CASE RebuildingEdit
  BY <1>3, EditScreens
<1>4. CASE Prepare
  BY <1>0, <1>4, PrepareScreens
<1>5. CASE StartJob
  BY <1>0, <1>5, StartJobScreens
<1>6. CASE Deliver
  BY <1>0, <1>6, DeliverScreens
<1>7. CASE TimeOut
  BY <1>0, <1>7, TimeOutScreens
<1>8. CASE \/ Execute \/ SocketClosed \/ TriggerCondition \/ PauseSilently \/ Crash
           \/ ReceiveCondition \/ ProcessExit
  BY <1>0, <1>8, EventScreens
<1>10. CASE PollingThrows
  BY <1>10 DEF PollingThrows, Orderly
<1>9. CASE UNCHANGED vars
  <2>1. UNCHANGED <<status, stopPending, jobs, shown, timer, calls>>
    BY <1>9 DEF vars
  <2>2. Lit' => Lit
    BY <2>1 DEF Lit, Sent
  <2> QED BY <2>1, <2>2, ScreenStays
<1> QED BY <1>1, <1>2, <1>3, <1>4, <1>5, <1>6, <1>7, <1>8, <1>9, <1>10 DEF Next, User

\* What has gone out of order stays so.
LEMMA HistoryStays ==
  ASSUME [Next]_vars
  PROVE  (overlapped => overlapped') /\ (lost => lost') /\ (loose => loose')
         /\ (orphaned => orphaned')
<1> DEFINE Kept == (overlapped => overlapped') /\ (lost => lost') /\ (loose => loose')
                   /\ (orphaned => orphaned')
<1>0. UNCHANGED ghosts => Kept
  BY DEF ghosts
<1>1. CASE PressRun \/ PressPause
  <2>1. /\ overlapped' = (overlapped \/ Unconditional \/ Resuming)
        /\ UNCHANGED <<loose, lost, orphaned>>
    BY <1>1 DEF PressRun, PressPause
  <2> QED BY <2>1, Zenon
<1>2. CASE PressStop
  <2>1. /\ overlapped' = (overlapped \/ Unconditional \/ ControlUnderWay)
        /\ loose' = (loose \/ \E i \in DOMAIN calls : calls[i].k = "poll")
        /\ UNCHANGED <<lost, orphaned>>
    BY <1>2 DEF PressStop
  <2> QED BY <2>1, Zenon
<1>3. CASE RebuildingEdit \/ TriggerCondition
  <2>1. overlapped' = (overlapped \/ Unconditional) /\ UNCHANGED <<loose, lost, orphaned>>
    BY <1>3 DEF RebuildingEdit, TriggerCondition
  <2> QED BY <2>1, Zenon
<1>4. CASE Prepare
  <2>1. CASE launchCoreProcess \/ connectCoreClient \/ publishClient \/ RefreshCatalog \/ PrepareRun
    <3>1. UNCHANGED ghosts
      BY <2>1 DEF launchCoreProcess, connectCoreClient, publishClient, RefreshCatalog, PrepareRun
    <3> QED BY <1>0, <3>1
  <2>2. CASE CheckFirmware
    <3>1. \/ UNCHANGED ghosts
          \/ /\ overlapped' = (overlapped \/ Unconditional \/ ControlUnderWay)
             /\ loose' = (loose \/ \E i \in DOMAIN calls : calls[i].k = "poll")
             /\ UNCHANGED <<lost, orphaned>>
      BY <2>2, Zenon DEF CheckFirmware
    <3>2. CASE UNCHANGED ghosts
      BY <1>0, <3>2
    <3>3. CASE ~UNCHANGED ghosts
      <4>1. /\ overlapped' = (overlapped \/ Unconditional \/ ControlUnderWay)
            /\ loose' = (loose \/ \E i \in DOMAIN calls : calls[i].k = "poll")
            /\ UNCHANGED <<lost, orphaned>>
        BY <3>1, <3>3, Zenon
      <4> QED BY <4>1, Zenon
    <3> QED BY <3>2, <3>3
  <2> QED BY <1>4, <2>1, <2>2, Zenon DEF Prepare
<1>5. CASE StartJob
  <2>1. /\ loose' = (loose \/ (/\ Current.k = "rebuild"
                                  /\ \E i \in DOMAIN calls : calls[i].k = "poll"))
        /\ UNCHANGED <<overlapped, lost, orphaned>>
    BY <1>5, Zenon DEF StartJob
  <2> QED BY <2>1, Zenon
<1>6. CASE TimeOut
  <2>1. PICK i \in DOMAIN calls : lost' = (lost \/ IsControl(calls[i].k))
    BY <1>6, Zenon DEF TimeOut
  <2>2. UNCHANGED <<overlapped, loose, orphaned>>
    BY <1>6, Zenon DEF TimeOut
  <2> QED BY <2>1, <2>2, Zenon
<1>7. CASE ProcessExit
  <2>1. PICK p \in Procs : overlapped' = (overlapped \/ Unconditional \/ client \notin {0, p})
    BY <1>7, Zenon DEF ProcessExit
  <2>2. /\ orphaned' = (orphaned \/ timer # 0 \/ shown = "values")
        /\ loose' = (loose \/ \E i \in DOMAIN calls : calls[i].k = "poll")
        /\ UNCHANGED lost
    BY <1>7, Zenon DEF ProcessExit
  <2> QED BY <2>1, <2>2, Zenon
<1>8. CASE Tick \/ Deliver \/ Execute \/ PauseSilently \/ ReceiveCondition \/ Crash \/ SocketClosed
  <2>1. UNCHANGED ghosts
    BY <1>8, Zenon DEF Tick, Deliver, Execute, PauseSilently, ReceiveCondition, Crash, SocketClosed
  <2> QED BY <1>0, <2>1
<1>10. CASE PollingThrows
  <2>1. lost' = TRUE /\ UNCHANGED <<overlapped, loose, orphaned>>
    BY <1>10, Zenon DEF PollingThrows
  <2> QED BY <2>1
<1>9. CASE UNCHANGED vars
  BY <1>9 DEF vars
<1> QED BY <1>1, <1>2, <1>3, <1>4, <1>5, <1>6, <1>7, <1>8, <1>9, <1>10, Zenon DEF Next, User

\* A command ends a silent pause, a condition finds none.
LEMMA NextSilence ==
  ASSUME Types, Silence, [Next]_vars
  PROVE  Silence'
<1>1. CASE UNCHANGED <<mode, silent>>
  BY <1>1 DEF Silence
<1>2. CASE Execute
  <2>1. PICK i \in DOMAIN calls :
          \/ /\ mode' = [mode EXCEPT ![calls[i].p] = Effect(calls[i].k, @)]
             /\ silent' = IF Commands(calls[i].k) THEN silent \ {calls[i].p} ELSE silent
          \/ UNCHANGED <<mode, silent>>
    BY <1>2 DEF Execute
  <2>2. calls[i] \in CallType
    BY ElementOfSeq, LenProperties DEF Types
  <2> DEFINE p == calls[i].p
             k == calls[i].k
  <2>3. CASE /\ mode' = [mode EXCEPT ![p] = Effect(k, @)]
             /\ silent' = IF Commands(k) THEN silent \ {p} ELSE silent
    <3>1. p \in Procs => Effect(k, mode[p]) \in Statuses
      BY DEF Effect, Silence, Statuses
    <3>2. mode' \in [Procs -> Statuses]
      BY <2>3, <3>1 DEF Silence
    <3>3. CASE Commands(k)
      BY <2>3, <3>2, <3>3 DEF Silence
    <3>4. CASE ~Commands(k)
      <4>1. Effect(k, mode[p]) = mode[p]
        BY <3>4 DEF Effect, Commands
      <4> HIDE DEF p, k
      <4> QED BY <2>3, <3>2, <3>4, <4>1 DEF Silence
    <3> QED BY <3>3, <3>4
  <2> QED BY <1>1, <2>1, <2>3
<1>3. CASE TriggerCondition
  BY <1>3 DEF TriggerCondition, Silence, Statuses
<1>4. CASE PauseSilently
  BY <1>4 DEF PauseSilently, Silence
<1>5. CASE User \/ Tick \/ Prepare \/ StartJob \/ Deliver
  BY <1>1, <1>5, Zenon DEF User, PressRun, PressPause, PressStop, RebuildingEdit, Tick, Prepare,
     StartJob, Deliver
<1>6. CASE TimeOut \/ PollingThrows \/ ReceiveCondition \/ Crash \/ SocketClosed \/ ProcessExit
  BY <1>1, <1>6, Zenon DEF TimeOut, PollingThrows, ReceiveCondition, Crash, SocketClosed, ProcessExit
<1>7. CASE UNCHANGED vars
  BY <1>1, <1>7 DEF vars
<1> QED BY <1>2, <1>3, <1>4, <1>5, <1>6, <1>7 DEF Next

-----------------------------------------------------------------------------
\* The invariant holds in the beginning.
LEMMA InitSane == Init => Sane
<1> SUFFICES ASSUME Init PROVE Sane
  OBVIOUS
<1>1. IInv
  BY InitFlag
<1>2. /\ calls = <<>> /\ jobs = <<>> /\ notes = {} /\ client = 1 /\ launched = 1 /\ 1 \in Procs
      /\ status = "stopped" /\ prep = "no" /\ stopPending = FALSE /\ gen = 0 /\ timer = 0
      /\ shown = "blank"
  BY BoundsAssumption DEF Init, Procs
<1>3. Sent = {}
  BY <1>2 DEF Sent, Members
<1>4. Rest
  <2>1. sock \in [Procs -> BOOLEAN]
    BY DEF Init
  <2>2. mode \in [Procs -> Statuses]
    BY DEF Init, Statuses
  <2>3. proc \in [Procs -> {"none", "alive", "dead", "reaped"}]
    BY DEF Init
  <2>4. notes \in SUBSET Procs /\ stopPending \in BOOLEAN /\ prep \in Preps
    BY <1>2 DEF Preps
  <2>5. jobs \in Seq(JobType)
    BY <1>2
  <2> QED BY <2>1, <2>2, <2>3, <2>4, <2>5 DEF Rest
<1>5. /\ \A p \in Procs : mode[p] = "stopped" /\ proc[p] = IF p = 1 THEN "alive" ELSE "none"
      /\ \A p \in Procs : p \in Int /\ p >= 1
  BY BoundsAssumption DEF Init, Procs
<1>6. Processes
  BY <1>2, <1>5 DEF Processes
<1>7. Notes /\ Preparing /\ Agree
  BY <1>2, <1>5 DEF Notes, Preparing, Agree, Mode
<1>8. Queue /\ Unique
  BY <1>2 DEF Queue, Unique, AtMostOne
<1>9. Control
  BY <1>2, <1>3, <1>4, <1>6, <1>7, <1>8 DEF Control
<1>10. Screen
  BY <1>2, <1>3 DEF Screen, Lit
<1>11. Silence
  BY <1>4 DEF Init, Silence, Rest
<1> QED BY <1>1, <1>9, <1>10, <1>11 DEF Sane

\* Every step preserves it.
LEMMA NextSane == Sane /\ [Next]_vars => Sane'
<1> SUFFICES ASSUME Sane, [Next]_vars PROVE Sane'
  OBVIOUS
<1>1. IInv'
  BY NextFlag DEF Sane
<1>2. (overlapped => overlapped') /\ (lost => lost') /\ (loose => loose') /\ (orphaned => orphaned')
  BY HistoryStays
<1>3. ASSUME Orderly' PROVE Control'
  <2>1. Orderly
    BY <1>2, <1>3 DEF Orderly
  <2> QED BY <1>3, <2>1, NextControls DEF Sane
<1>4. ASSUME Orderly', ~loose', ~orphaned' PROVE Screen'
  <2>1. Orderly /\ ~loose /\ ~orphaned
    BY <1>2, <1>4 DEF Orderly
  <2> QED BY <1>3, <1>4, <2>1, NextScreens DEF Sane
<1>5. Silence'
  BY NextSilence DEF Sane, IInv
<1> QED BY <1>1, <1>3, <1>4, <1>5 DEF Sane

\* Once nothing is under way, the status can only be what the Core does, or was asked to do
\* before it paused itself.
LEMMA QuietAgrees == Sane => StatusAgrees
<1> SUFFICES ASSUME Sane, Quiet, ~overlapped, ~lost
             PROVE  \/ status = CoreStatus
                    \/ client \in silent /\ CoreStatus = "paused" /\ status = "running"
  BY DEF StatusAgrees
<1>1. Rest /\ Processes /\ Agree /\ Types /\ Silence
  BY DEF Sane, Orderly, Control, IInv
<1>2. calls = <<>> /\ notes = {} /\ jobs = <<>> /\ prep = "no" /\ \A p \in Procs : proc[p] # "dead"
  BY DEF Quiet
<1>3. Sent = {} /\ ~Resumes /\ ~Halting
  BY <1>2 DEF Sent, Members, Resumes, Halting
<1>4. client # 0 => client \in Procs
  BY <1>1, BoundsAssumption DEF Types, Procs
<1>5. CASE Up
  <2>1. status = Mode
    BY <1>1, <1>2, <1>3, <1>5 DEF Agree, Types, Statuses
  <2>2. client \in silent => Mode = "running"
    BY <1>1 DEF Silence, Mode
  <2> QED BY <1>5, <2>1, <2>2 DEF CoreStatus, Up, Mode
<1>6. CASE ~Up
  BY <1>1, <1>2, <1>4, <1>6 DEF Processes, CoreStatus, Up
<1> QED BY <1>5, <1>6

\* Once everything is answered, the status the extension shows is what its Core does, but for
\* one way to differ, a Core that has paused itself without a pauseConditionTriggered and is
\* shown as running: for any number of processes, gestures and faults, unless a gesture or
\* condition met an answer that is applied unconditionally, the answer to a control request
\* was lost, or the polling it starts threw.
THEOREM StatusFollowsCore == Spec => []StatusAgrees
<1> QED BY InitSane, NextSane, QuietAgrees, PTL DEF Spec

\* The generation a frame carries keeps the screen of a stopped simulation blank, whatever
\* arrives after stopVoltageReadoutPolling: for any number of processes, gestures and faults,
\* with the exceptions the property names.
THEOREM StoppedScreenStaysBlank == Spec => []StoppedScreenIsBlank
<1>1. Sane => StoppedScreenIsBlank
  BY DEF Sane, Orderly, Screen, Lit, StoppedScreenIsBlank
<1> QED BY <1>1, InitSane, NextSane, PTL DEF Spec
=============================================================================
