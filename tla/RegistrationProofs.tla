-------------------------- MODULE RegistrationProofs --------------------------
(***************************************************************************)
(* Proofs about the registration of an install.  The answers are true      *)
(* because a request keeps the key it came with and a key keeps its row;   *)
(* the identity can sign because, as long as nothing overlaps, one process *)
(* at most works on the files of an install that has no identity yet.      *)
(***************************************************************************)
EXTENDS Registration, FiniteSetTheorems, TLAPS

(***************************************************************************)
(* The inductive invariant.                                                *)
(***************************************************************************)

\* What a process and a request hold at each of their steps.
HasKey == {"write", "fill", "write and sign", "fill and sign", "post", "waiting", "save",
           "rename", "sign"}

Held ==
    /\ IsFiniteSet(devices)
    /\ \A p \in Processes : pc[p] \in HasKey => own[p].key \in Key
    /\ \A h \in Handlers :
          /\ srv[h].at # "none" => srv[h].key \in Key
          /\ srv[h].at \in {"device", "answer"} => srv[h].publisher \in Nat

\* A process waits for the request it posted, and for one only.
Awaited ==
    \A h \in Handlers : srv[h].from # None =>
        /\ srv[h].at # "none"
        /\ pc[srv[h].from] = "waiting"
        /\ own[srv[h].from].key = srv[h].key
        /\ \A g \in Handlers : srv[g].from = srv[h].from => g = h

WellFormed == TypeOK /\ Held
TypeInv == WellFormed /\ Awaited

\* What is saved, or about to be, is a row of the server.
SavedIsRow ==
    /\ \A p \in Processes : pc[p] \in {"save", "rename"} => own[p] \in devices
    /\ tmp # None => tmp \in devices

AnswerInv == SavedIsRow /\ AnswersStayTrue

\* A tick works under its lock.
Active(p) == pc[p] \notin {"idle", "done"}
LockHeld == \A p \in Ticks : Active(p) => lock = p

\* Nobody registers an install that has its identity, and nobody signs without one.
Registering == {"key", "write", "fill", "post", "waiting", "save", "rename"}
Signing     == {"signing key", "write and sign", "fill and sign", "sign"}

Alone ==
    ~overlap =>
        /\ identity = None => \A p, q \in Processes : Active(p) /\ Active(q) => p = q
        /\ \A p \in Processes :
              /\ pc[p] \in Registering => identity = None
              /\ pc[p] \in Signing => identity # None

\* What a process that runs alone holds is what the files say.
HoldsFiles ==
    ~overlap => \A p \in Processes :
        /\ pc[p] \in {"post", "waiting", "save", "rename"} => own[p].key = keyFile
        /\ pc[p] = "rename" => tmp = own[p]
        /\ pc[p] \in Signing => /\ pc[p] \in {"signing key", "sign"}
                                /\ own[p].publisher = identity.publisher
        /\ pc[p] = "sign" => own[p].key = identity.key

SignInv == LockHeld /\ Alone /\ HoldsFiles /\ IdentityCanSign

(***************************************************************************)
(* Fresh keys and ids.                                                     *)
(***************************************************************************)

\* Of one number more than a set has members, one is not a member.
LEMMA UnusedIsUnused ==
  ASSUME NEW used, IsFiniteSet(used)
  PROVE  Unused(used) \in Nat /\ Unused(used) \notin used
<1>. DEFINE N == 0..Cardinality(used)
<1>1. Cardinality(used) \in Nat
  BY FS_CardinalityType
<1>2. IsFiniteSet(N) /\ Cardinality(N) = Cardinality(used) + 1
  BY <1>1, FS_Interval
<1>3. ~(N \subseteq used)
  <2>1. N \subseteq used => Cardinality(N) <= Cardinality(used)
    BY FS_Subset
  <2>. HIDE DEF N
  <2>. QED BY <1>1, <1>2, <2>1
<1>4. Unused(used) \in N /\ Unused(used) \notin used
  BY <1>3 DEF Unused
<1>. QED BY <1>4

LEMMA ImageIsFinite ==
  ASSUME NEW S, IsFiniteSet(S), NEW f, f = [x \in S |-> f[x]]
  PROVE  IsFiniteSet({f[x] : x \in S})
<1>1. f \in Surjection(S, {f[x] : x \in S})
  BY DEF Surjection
<1>. QED BY <1>1, FS_Surjection

LEMMA FreshIsNat ==
  ASSUME IsFiniteSet(devices)
  PROVE  FreshKey \in Nat /\ FreshPublisher \in Nat
<1>. DEFINE ofDevices    == [d \in devices |-> d.key]
            ofProcesses  == [p \in Processes |-> own[p].key]
            ofRequests   == [h \in Handlers |-> srv[h].key]
            ofDevices2   == [d \in devices |-> d.publisher]
            ofProcesses2 == [p \in Processes |-> own[p].publisher]
            ofRequests2  == [h \in Handlers |-> srv[h].publisher]
<1>1. IsFiniteSet(Processes) /\ IsFiniteSet(Handlers)
  BY RegistrationAssumption, FS_Union DEF Processes
<1>2. IsFiniteSet({d.key : d \in devices})
  <2>1. IsFiniteSet({ofDevices[d] : d \in devices})
    BY ImageIsFinite
  <2>. QED BY <2>1
<1>3. IsFiniteSet({own[p].key : p \in Processes})
  <2>1. IsFiniteSet({ofProcesses[p] : p \in Processes})
    BY <1>1, ImageIsFinite
  <2>. QED BY <2>1
<1>4. IsFiniteSet({srv[h].key : h \in Handlers})
  <2>1. IsFiniteSet({ofRequests[h] : h \in Handlers})
    BY <1>1, ImageIsFinite
  <2>. QED BY <2>1
<1>5. IsFiniteSet({d.publisher : d \in devices})
  <2>1. IsFiniteSet({ofDevices2[d] : d \in devices})
    BY ImageIsFinite
  <2>. QED BY <2>1
<1>6. IsFiniteSet({own[p].publisher : p \in Processes})
  <2>1. IsFiniteSet({ofProcesses2[p] : p \in Processes})
    BY <1>1, ImageIsFinite
  <2>. QED BY <2>1
<1>7. IsFiniteSet({srv[h].publisher : h \in Handlers})
  <2>1. IsFiniteSet({ofRequests2[h] : h \in Handlers})
    BY <1>1, ImageIsFinite
  <2>. QED BY <2>1
<1>. HIDE DEF ofDevices, ofProcesses, ofRequests, ofDevices2, ofProcesses2, ofRequests2
<1>8. FreshKey \in Nat
  <2>1. IsFiniteSet({keyFile})
    BY FS_Singleton
  <2>2. IsFiniteSet(Keys \cup {keyFile})
    BY <1>2, <2>1, FS_Union DEF Keys
  <2>3. IsFiniteSet(Keys \cup {keyFile} \cup {own[p].key : p \in Processes})
    BY <1>3, <2>2, FS_Union
  <2>4. IsFiniteSet(Keys \cup {keyFile} \cup {own[p].key : p \in Processes}
                      \cup {srv[h].key : h \in Handlers})
    BY <1>4, <2>3, FS_Union
  <2>. QED BY <2>4, UnusedIsUnused DEF FreshKey
<1>9. FreshPublisher \in Nat
  <2>1. IsFiniteSet({d.publisher : d \in devices} \cup {srv[h].publisher : h \in Handlers})
    BY <1>5, <1>7, FS_Union
  <2>2. IsFiniteSet({d.publisher : d \in devices} \cup {srv[h].publisher : h \in Handlers}
                      \cup {own[p].publisher : p \in Processes})
    BY <1>6, <2>1, FS_Union
  <2>. QED BY <2>2, UnusedIsUnused DEF FreshPublisher
<1>. QED BY <1>8, <1>9

(***************************************************************************)
(* Types.                                                                  *)
(***************************************************************************)
LEMMA AreLabels ==
    /\ "idle" \in Labels /\ "identity" \in Labels /\ "key" \in Labels /\ "write" \in Labels
    /\ "fill" \in Labels /\ "post" \in Labels /\ "waiting" \in Labels /\ "save" \in Labels
    /\ "rename" \in Labels /\ "signing key" \in Labels /\ "write and sign" \in Labels
    /\ "fill and sign" \in Labels /\ "sign" \in Labels /\ "done" \in Labels
  BY DEF Labels

LEMMA ExitTypes ==
  ASSUME TypeOK, NEW p \in Processes, Exit(p)
  PROVE  own' \in [Processes -> Answer] /\ lock' \in Ticks \cup {None}
  BY DEF TypeOK, Exit, Nothing, Answer

\* A process that ends holds nothing that anybody counts on.
LEMMA ExitHeld ==
  ASSUME TypeOK, NEW p \in Processes, Exit(p),
         \A q \in Processes : pc[q] \in HasKey => own[q].key \in Key
  PROVE  \A q \in Processes : pc'[q] \in HasKey => own'[q].key \in Key
<1>1. pc'[p] \notin HasKey
  BY DEF TypeOK, Exit, Goto, HasKey
<1>2. \A q \in Processes \ {p} : pc'[q] = pc[q] /\ own'[q] = own[q]
  BY DEF TypeOK, Exit, Goto
<1>. QED BY <1>1, <1>2

\* So does one that only goes on to a step at which it need not hold a key.
LEMMA GotoHeld ==
  ASSUME TypeOK, NEW p \in Processes, NEW l, Goto(p, l), l \notin HasKey,
         \A q \in Processes \ {p} : own'[q] = own[q],
         \A q \in Processes : pc[q] \in HasKey => own[q].key \in Key
  PROVE  \A q \in Processes : pc'[q] \in HasKey => own'[q].key \in Key
<1>1. pc'[p] \notin HasKey
  BY DEF TypeOK, Goto
<1>2. \A q \in Processes \ {p} : pc'[q] = pc[q]
  BY DEF TypeOK, Goto
<1>. QED BY <1>1, <1>2

LEMMA OwnUpdates ==
  ASSUME own \in [Processes -> Answer], NEW p \in Processes, NEW v \in Nat \cup {None}
  PROVE  /\ [own EXCEPT ![p].key = v] \in [Processes -> Answer]
         /\ [own EXCEPT ![p].publisher = v] \in [Processes -> Answer]
  BY DEF Answer, Key

LEMMA SrvUpdates ==
  ASSUME srv \in [Handlers -> Request], NEW h \in Handlers, NEW l \in Stages,
         NEW v \in Nat \cup {None}
  PROVE  /\ [srv EXCEPT ![h].at = l] \in [Handlers -> Request]
         /\ [srv EXCEPT ![h].at = l, ![h].publisher = v] \in [Handlers -> Request]
         /\ [srv EXCEPT ![h] = NoRequest] \in [Handlers -> Request]
  BY DEF Request, Stages, Key, NoRequest

\* SelectDevice as a change of the request.
LEMMA SelectAnswers ==
  ASSUME NEW h \in Handlers, SelectDevice(h)
  PROVE  \/ srv' = [srv EXCEPT ![h].at = "publisher"]
         \/ \E d \in devices :
              /\ d.key = srv[h].key
              /\ srv' = [srv EXCEPT ![h].at = "answer", ![h].publisher = d.publisher]
  BY DEF SelectDevice, Serve

LEMMA ReadKeyReads ==
  ASSUME TypeOK, IsFiniteSet(devices), NEW p \in Processes, ReadKey(p)
  PROVE  \E k \in Nat : own' = [own EXCEPT ![p].key = k]
<1>1. CASE keyFile \in {None, Corrupt}
  BY <1>1, FreshIsNat DEF ReadKey
<1>2. CASE keyFile \notin {None, Corrupt}
  BY <1>2 DEF ReadKey, TypeOK, Key
<1>. QED BY <1>1, <1>2

LEMMA InitTypes == Init => TypeInv
<1>. SUFFICES ASSUME Init PROVE TypeInv
  OBVIOUS
<1>1. pc \in [Processes -> Labels]
  BY AreLabels DEF Init
<1>2. srv \in [Handlers -> Request]
  BY DEF Init, NoRequest, Request, Stages
<1>3. own \in [Processes -> Answer]
  BY DEF Init, Nothing, Answer
<1>5. count \in 0..(Limit + 1) /\ left \in 0..Window /\ faults \in 0..MaxFaults
  BY RegistrationAssumption DEF Init
<1>6. TypeOK
  BY <1>1, <1>2, <1>3, <1>5 DEF Init, TypeOK
<1>4. Held
  BY FS_EmptySet DEF Init, Held, NoRequest, HasKey
<1>7. Awaited
  BY DEF Init, Awaited, NoRequest
<1>. QED BY <1>4, <1>6, <1>7 DEF TypeInv, WellFormed

LEMMA NextTypes == TypeInv /\ [Next]_vars => WellFormed'
<1>. SUFFICES ASSUME TypeInv, [Next]_vars PROVE WellFormed'
  OBVIOUS
<1>. USE RegistrationAssumption
     DEF TypeInv, WellFormed, TypeOK, Answer, Key, Request, Stages, Nothing, files, limiter
<1>1. ASSUME NEW p \in Processes, Start(p) PROVE WellFormed'
  <2>1. pc' \in [Processes -> Labels]
    BY <1>1, AreLabels DEF Start, Goto
  <2>2. TypeOK'
    BY <2>1, <1>1 DEF Start, Goto
  <2>3. Held'
    BY <1>1 DEF Start, Goto, Held, HasKey
  <2>. QED BY <2>2, <2>3
<1>2. ASSUME NEW p \in Processes, LoadIdentity(p) PROVE WellFormed'
  <2>1. pc' \in [Processes -> Labels]
    BY <1>2, AreLabels DEF LoadIdentity, Goto, Exit
  <2>2. TypeOK'
    <3>1. identity # None => identity.publisher \in Nat \cup {None}
      OBVIOUS
    <3>2. CASE UNCHANGED <<own, lock>>
      BY <1>2, <2>1, <3>2 DEF LoadIdentity
    <3>3. CASE /\ identity # None /\ lock' = lock
               /\ own' = [own EXCEPT ![p].publisher = identity.publisher]
      <4>1. own' \in [Processes -> Answer]
        BY <3>1, <3>3, OwnUpdates
      <4>. QED BY <1>2, <2>1, <3>3, <4>1 DEF LoadIdentity
    <3>4. CASE Exit(p)
      BY <1>2, <2>1, <3>4 DEF LoadIdentity, Exit
    <3>. QED BY <1>2, <3>2, <3>3, <3>4 DEF LoadIdentity
  <2>3. Held'
    <3>1. \A q \in Processes : pc[q] \in HasKey => own[q].key \in Key
      BY DEF Held
    <3>2. \A q \in Processes : pc'[q] \in HasKey => own'[q].key \in Key
      <4>1. CASE Exit(p)
        BY <3>1, <4>1, ExitHeld
      <4>2. CASE Goto(p, "key") /\ own' = own
        <5>1. "key" \notin HasKey
          BY DEF HasKey
        <5>. QED BY <3>1, <4>2, <5>1, GotoHeld
      <4>3. CASE /\ Goto(p, "signing key")
                 /\ own' = [own EXCEPT ![p].publisher = identity.publisher]
        <5>1. "signing key" \notin HasKey /\ \A q \in Processes \ {p} : own'[q] = own[q]
          BY <4>3 DEF HasKey
        <5>. QED BY <3>1, <4>3, <5>1, GotoHeld
      <4>. QED BY <1>2, <4>1, <4>2, <4>3 DEF LoadIdentity
    <3>3. devices' = devices /\ srv' = srv
      BY <1>2 DEF LoadIdentity
    <3>. QED BY <3>2, <3>3 DEF Held
  <2>. QED BY <2>2, <2>3
<1>3. ASSUME NEW p \in Processes, ReadKey(p) PROVE WellFormed'
  <2>1. pc' \in [Processes -> Labels]
    BY <1>3, AreLabels, FreshIsNat DEF ReadKey, Goto
  <2>2. TypeOK'
    <3>1. PICK k \in Nat : own' = [own EXCEPT ![p].key = k]
      BY <1>3, ReadKeyReads DEF Held
    <3>2. own' \in [Processes -> Answer]
      BY <3>1, OwnUpdates
    <3>. QED BY <1>3, <2>1, <3>2 DEF ReadKey
  <2>3. Held'
    <3>1. PICK k \in Nat : own' = [own EXCEPT ![p].key = k]
      BY <1>3, ReadKeyReads DEF Held
    <3>2. \A q \in Processes : q # p => own'[q] = own[q] /\ pc'[q] = pc[q]
      BY <1>3, <3>1 DEF ReadKey, Goto
    <3>3. own'[p].key \in Nat
      BY <3>1
    <3>4. devices' = devices /\ srv' = srv
      BY <1>3 DEF ReadKey
    <3>. QED BY <3>2, <3>3, <3>4 DEF Held
  <2>. QED BY <2>2, <2>3
<1>4. ASSUME NEW p \in Processes, TruncateKey(p) PROVE WellFormed'
  <2>1. pc' \in [Processes -> Labels]
    BY <1>4, AreLabels DEF TruncateKey, Goto
  <2>2. TypeOK'
    BY <2>1, <1>4 DEF TruncateKey, Goto
  <2>3. Held'
    BY <1>4 DEF TruncateKey, Goto, Held, HasKey
  <2>. QED BY <2>2, <2>3
<1>5. ASSUME NEW p \in Processes, FillKey(p) PROVE WellFormed'
  <2>1. pc' \in [Processes -> Labels]
    BY <1>5, AreLabels DEF FillKey, Goto
  <2>2. TypeOK'
    BY <2>1, <1>5 DEF FillKey, Goto
  <2>3. Held'
    BY <1>5 DEF FillKey, Goto, Held, HasKey
  <2>. QED BY <2>2, <2>3
<1>6. ASSUME NEW p \in Processes, Post(p) PROVE WellFormed'
  <2>1. pc' \in [Processes -> Labels]
    BY <1>6, AreLabels DEF Post, Goto
  <2>2. TypeOK'
    BY <2>1, <1>6 DEF Post, Goto
  <2>3. Held'
    <3>1. pc[p] = "post" /\ own[p].key \in Nat
      BY <1>6 DEF Post, Held, HasKey
    <3>2. \A q \in Processes : pc'[q] \in HasKey => pc[q] \in HasKey
      BY <1>6 DEF Post, Goto, HasKey
    <3>3. \A h \in Handlers : \/ srv'[h] = srv[h]
                              \/ srv'[h].at = "hit" /\ srv'[h].key = own[p].key
      BY <1>6 DEF Post
    <3>4. own' = own /\ devices' = devices
      BY <1>6 DEF Post
    <3>. QED BY <3>1, <3>2, <3>3, <3>4 DEF Held
  <2>. QED BY <2>2, <2>3
<1>7. ASSUME NEW p \in Processes, WriteTmp(p) PROVE WellFormed'
  <2>1. pc' \in [Processes -> Labels]
    BY <1>7, AreLabels DEF WriteTmp, Goto
  <2>2. TypeOK'
    BY <2>1, <1>7 DEF WriteTmp, Goto
  <2>3. Held'
    BY <1>7 DEF WriteTmp, Goto, Held, HasKey
  <2>. QED BY <2>2, <2>3
<1>8. ASSUME NEW p \in Processes, RenameTmp(p) PROVE WellFormed'
  <2>1. pc' \in [Processes -> Labels]
    BY <1>8, AreLabels DEF RenameTmp, Goto, Exit
  <2>2. TypeOK'
    <3>1. own' \in [Processes -> Answer] /\ lock' \in Ticks \cup {None}
      BY <1>8, ExitTypes DEF RenameTmp
    <3>2. /\ identity' \in Answer \cup {None} /\ tmp' \in Answer \cup {None}
          /\ keyFile' = keyFile
      BY <1>8 DEF RenameTmp
    <3>3. UNCHANGED <<devices, srv, count, left, faults, overlap, refused>>
      BY <1>8 DEF RenameTmp
    <3>. QED BY <2>1, <3>1, <3>2, <3>3
  <2>3. Held'
    <3>1. \A q \in Processes : pc[q] \in HasKey => own[q].key \in Key
      BY DEF Held
    <3>2. \A q \in Processes : pc'[q] \in HasKey => own'[q].key \in Key
      <4>1. CASE Exit(p)
        BY <3>1, <4>1, ExitHeld
      <4>2. CASE Goto(p, "signing key") /\ own' = own
        <5>1. "signing key" \notin HasKey
          BY DEF HasKey
        <5>. QED BY <3>1, <4>2, <5>1, GotoHeld
      <4>. QED BY <1>8, <4>1, <4>2 DEF RenameTmp
    <3>3. devices' = devices /\ srv' = srv
      BY <1>8 DEF RenameTmp
    <3>. QED BY <3>2, <3>3 DEF Held
  <2>. QED BY <2>2, <2>3
<1>9. ASSUME NEW p \in Processes, SignedRequest(p) PROVE WellFormed'
  <2>1. pc' \in [Processes -> Labels]
    BY <1>9, AreLabels DEF SignedRequest, Goto, Exit
  <2>2. TypeOK'
    BY <2>1, <1>9 DEF SignedRequest, Goto, Exit
  <2>3. Held'
    BY <1>9 DEF SignedRequest, Goto, Exit, Held, HasKey
  <2>. QED BY <2>2, <2>3
<1>10. ASSUME NEW p \in Processes, TimeOut(p) PROVE WellFormed'
  <2>1. pc' \in [Processes -> Labels]
    BY <1>10, AreLabels DEF TimeOut, Goto, Exit
  <2>2. TypeOK'
    <3>1. srv' \in [Handlers -> Request]
      <4>1. /\ srv' = [h \in Handlers |->
                       IF srv[h].from = p THEN [srv[h] EXCEPT !.from = None] ELSE srv[h]]
            /\ srv \in [Handlers -> Request]
        BY <1>10 DEF TimeOut
      <4>2. \A h \in Handlers : [srv[h] EXCEPT !.from = None] \in Request
        BY <4>1
      <4>. HIDE DEF Request
      <4>. QED BY <4>1, <4>2
    <3>2. own' \in [Processes -> Answer] /\ lock' \in Ticks \cup {None}
      BY <1>10 DEF TimeOut, Exit
    <3>3. faults' \in 0..MaxFaults
      BY <1>10 DEF TimeOut
    <3>4. UNCHANGED <<files, devices, limiter, overlap, refused>>
      BY <1>10 DEF TimeOut
    <3>. HIDE DEF Request, Answer
    <3>. QED BY <2>1, <3>1, <3>2, <3>3, <3>4
  <2>3. Held'
    <3>1. \A q \in Processes : pc'[q] \in HasKey => own'[q].key \in Key
      BY <1>10, ExitHeld DEF TimeOut, Held
    <3>2. /\ devices' = devices
          /\ \A h \in Handlers : /\ srv'[h].at = srv[h].at /\ srv'[h].key = srv[h].key
                                /\ srv'[h].publisher = srv[h].publisher
      BY <1>10 DEF TimeOut
    <3>. QED BY <3>1, <3>2 DEF Held
  <2>. QED BY <2>2, <2>3
<1>11. ASSUME NEW p \in Processes, Kill(p) PROVE WellFormed'
  <2>1. pc' \in [Processes -> Labels]
    BY <1>11, AreLabels DEF Kill, Goto, Exit
  <2>2. TypeOK'
    BY <2>1, <1>11 DEF Kill, Goto, Exit
  <2>3. Held'
    BY <1>11 DEF Kill, Goto, Exit, Held, HasKey
  <2>. QED BY <2>2, <2>3
<1>12. ASSUME NEW h \in Handlers, Hit(h) PROVE WellFormed'
  <2>1. pc' \in [Processes -> Labels]
    BY <1>12, AreLabels DEF Hit, Serve, Lesser
  <2>2. TypeOK'
    <3>1. srv' \in [Handlers -> Request]
      <4>1. /\ srv \in [Handlers -> Request]
            /\ \E l \in {"select", "refused"} : srv' = [srv EXCEPT ![h].at = l]
        BY <1>12 DEF Hit, Serve
      <4>2. \A l \in {"select", "refused"} : [srv[h] EXCEPT !.at = l] \in Request
        BY <4>1
      <4>. HIDE DEF Request
      <4>. QED BY <4>1, <4>2
    <3>2. count' \in 0..(Limit + 1) /\ left' \in 0..Window
      BY <1>12 DEF Hit, Lesser
    <3>3. UNCHANGED <<lock, files, own, devices, faults, overlap, refused>>
      BY <1>12 DEF Hit
    <3>. HIDE DEF Request, Answer
    <3>. QED BY <2>1, <3>1, <3>2, <3>3
  <2>3. Held'
    <3>1. \A g \in Handlers : \/ srv'[g] = srv[g]
                              \/ /\ srv[g].at = "hit" /\ srv'[g].key = srv[g].key
                                 /\ srv'[g].at \in {"select", "refused"}
      BY <1>12 DEF Hit, Serve
    <3>2. devices' = devices /\ pc' = pc /\ own' = own
      BY <1>12 DEF Hit
    <3>. QED BY <3>1, <3>2 DEF Held
  <2>. QED BY <2>2, <2>3
<1>13. ASSUME NEW h \in Handlers, SelectDevice(h) PROVE WellFormed'
  <2>1. pc' \in [Processes -> Labels]
    BY <1>13, AreLabels DEF SelectDevice, Serve
  <2>2. TypeOK'
    <3>1. CASE srv' = [srv EXCEPT ![h].at = "publisher"]
      <4>1. "publisher" \in Stages
        OBVIOUS
      <4>2. srv' \in [Handlers -> Request]
        BY <3>1, <4>1, SrvUpdates
      <4>3. UNCHANGED <<lock, files, own, devices, limiter, faults, overlap, refused>>
        BY <1>13 DEF SelectDevice
      <4>. QED BY <2>1, <4>2, <4>3
    <3>2. ASSUME NEW d \in devices,
                 srv' = [srv EXCEPT ![h].at = "answer", ![h].publisher = d.publisher]
          PROVE  TypeOK'
      <4>1. d.publisher \in Nat
        OBVIOUS
      <4>2. srv' \in [Handlers -> Request]
        BY <3>2, <4>1, SrvUpdates
      <4>. QED BY <1>13, <2>1, <4>2 DEF SelectDevice
    <3>. QED BY <1>13, <3>1, <3>2, SelectAnswers
  <2>3. Held'
    <3>1. \A g \in Handlers :
             \/ srv'[g] = srv[g]
             \/ srv'[g].key = srv[g].key /\ srv[g].at # "none" /\ srv'[g].at = "publisher"
             \/ srv'[g].key = srv[g].key /\ srv[g].at # "none" /\ srv'[g].publisher \in Nat
      BY <1>13, SelectAnswers DEF SelectDevice
    <3>2. devices' = devices /\ pc' = pc /\ own' = own
      BY <1>13 DEF SelectDevice
    <3>. QED BY <3>1, <3>2 DEF Held
  <2>. QED BY <2>2, <2>3
<1>14. ASSUME NEW h \in Handlers, InsertPublisher(h) PROVE WellFormed'
  <2>1. pc' \in [Processes -> Labels]
    BY <1>14, AreLabels, FreshIsNat DEF InsertPublisher
  <2>2. TypeOK'
    <3>1. srv' \in [Handlers -> Request]
      BY <1>14, FreshIsNat, SrvUpdates DEF InsertPublisher, Stages, Held
    <3>. QED BY <1>14, <2>1, <3>1 DEF InsertPublisher
  <2>3. Held'
    <3>1. FreshPublisher \in Nat
      BY FreshIsNat DEF Held
    <3>2. \A g \in Handlers : \/ srv'[g] = srv[g]
                              \/ /\ srv[g].at = "publisher" /\ srv'[g].key = srv[g].key
                                 /\ srv'[g].publisher = FreshPublisher
      BY <1>14 DEF InsertPublisher
    <3>3. devices' = devices /\ pc' = pc /\ own' = own
      BY <1>14 DEF InsertPublisher
    <3>. QED BY <3>1, <3>2, <3>3 DEF Held
  <2>. QED BY <2>2, <2>3
<1>15. ASSUME NEW h \in Handlers, InsertDevice(h) PROVE WellFormed'
  <2>1. pc' \in [Processes -> Labels]
    BY <1>15, AreLabels, FS_AddElement DEF InsertDevice, Serve, Row
  <2>2. TypeOK'
    <3>1. srv' \in [Handlers -> Request]
      BY <1>15 DEF InsertDevice, Serve
    <3>2. Row(h) \in [key: Nat, publisher: Nat]
      BY <1>15 DEF InsertDevice, Row, Held
    <3>. QED BY <1>15, <2>1, <3>1, <3>2 DEF InsertDevice
  <2>3. Held'
    <3>1. \A g \in Handlers :
             \/ srv'[g] = srv[g]
             \/ /\ srv'[g].key = srv[g].key /\ srv'[g].publisher = srv[g].publisher
                /\ srv[g].at = "device"
      BY <1>15 DEF InsertDevice, Serve
    <3>2. pc' = pc /\ own' = own
      BY <1>15 DEF InsertDevice
    <3>3. IsFiniteSet(devices')
      BY <1>15, FS_AddElement DEF InsertDevice, Held
    <3>. QED BY <3>1, <3>2, <3>3 DEF Held
  <2>. QED BY <2>2, <2>3
<1>16. ASSUME NEW h \in Handlers, Deliver(h) PROVE WellFormed'
  <2>1. pc' \in [Processes -> Labels]
    BY <1>16, AreLabels DEF Deliver, Goto, NoRequest
  <2>2. TypeOK'
    BY <2>1, <1>16 DEF Deliver, Goto, NoRequest
  <2>3. Held'
    <3>. DEFINE p == srv[h].from
    <3>1. \A g \in Handlers : srv'[g] = srv[g] \/ srv'[g].at = "none"
      BY <1>16 DEF Deliver, NoRequest
    <3>2. \A q \in Processes : own'[q].key = own[q].key
      BY <1>16 DEF Deliver
    <3>3. pc[p] = "waiting" /\ \A q \in Processes : q # p => pc'[q] = pc[q]
      BY <1>16 DEF Deliver, Goto, Awaited
    <3>4. \A q \in Processes : pc'[q] \in HasKey => pc[q] \in HasKey
      BY <3>3 DEF HasKey
    <3>5. devices' = devices
      BY <1>16 DEF Deliver
    <3>. QED BY <3>1, <3>2, <3>4, <3>5 DEF Held
  <2>. QED BY <2>2, <2>3
<1>17. ASSUME NEW h \in Handlers, Lose(h) PROVE WellFormed'
  <2>1. pc' \in [Processes -> Labels]
    BY <1>17, AreLabels DEF Lose, Goto, Exit, NoRequest
  <2>2. TypeOK'
    BY <2>1, <1>17 DEF Lose, Goto, Exit, NoRequest
  <2>3. Held'
    <3>1. \A g \in Handlers : srv'[g] = srv[g] \/ srv'[g].at = "none"
      BY <1>17 DEF Lose, NoRequest
    <3>2. \A q \in Processes : pc'[q] \in HasKey => own'[q].key \in Nat
      <4>1. CASE srv[h].from = None
        BY <1>17, <4>1 DEF Lose, Held
      <4>2. CASE srv[h].from # None
        BY <1>17, <4>2, ExitHeld DEF Lose, Held, Request
      <4>. QED BY <4>1, <4>2
    <3>3. devices' = devices
      BY <1>17 DEF Lose
    <3>. QED BY <3>1, <3>2, <3>3 DEF Held
  <2>. QED BY <2>2, <2>3
<1>18. CASE Elapse
  <2>1. pc' \in [Processes -> Labels]
    BY <1>18, AreLabels DEF Elapse
  <2>2. TypeOK'
    BY <2>1, <1>18 DEF Elapse
  <2>3. Held'
    BY <1>18 DEF Elapse, Held, HasKey
  <2>. QED BY <2>2, <2>3
<1>19. CASE UNCHANGED vars
  <2>1. pc' \in [Processes -> Labels]
    BY <1>19, AreLabels DEF vars
  <2>2. TypeOK'
    BY <2>1, <1>19 DEF vars
  <2>3. Held'
    BY <1>19 DEF vars, Held, HasKey
  <2>. QED BY <2>2, <2>3
<1>. QED
  BY <1>1, <1>2, <1>3, <1>4, <1>5, <1>6, <1>7, <1>8, <1>9, <1>10, <1>11, <1>12, <1>13,
     <1>14, <1>15, <1>16, <1>17, <1>18, <1>19 DEF Next, Step, Handle

(***************************************************************************)
(* Who waits for which request.                                            *)
(***************************************************************************)

\* A process changes nothing another one holds.
LEMMA OthersKeep ==
  ASSUME NEW p \in Processes, Start(p) \/ Step(p) \/ TimeOut(p) \/ Kill(p),
         TypeOK, NEW q \in Processes, q # p
  PROVE  pc'[q] = pc[q] /\ own'[q] = own[q]
<1>. USE DEF TypeOK, Goto, Exit
<1>1. CASE Start(p)
  BY <1>1 DEF Start
<1>2. CASE LoadIdentity(p)
  BY <1>2 DEF LoadIdentity
<1>3. CASE ReadKey(p)
  BY <1>3 DEF ReadKey
<1>4. CASE TruncateKey(p)
  BY <1>4 DEF TruncateKey
<1>5. CASE FillKey(p)
  BY <1>5 DEF FillKey
<1>6. CASE Post(p)
  BY <1>6 DEF Post
<1>7. CASE WriteTmp(p)
  BY <1>7 DEF WriteTmp
<1>8. CASE RenameTmp(p)
  BY <1>8 DEF RenameTmp
<1>9. CASE SignedRequest(p)
  BY <1>9 DEF SignedRequest
<1>10. CASE TimeOut(p)
  BY <1>10 DEF TimeOut
<1>11. CASE Kill(p)
  BY <1>11 DEF Kill
<1>. QED BY <1>1, <1>2, <1>3, <1>4, <1>5, <1>6, <1>7, <1>8, <1>9, <1>10, <1>11 DEF Step

LEMMA AwaitedKept ==
  ASSUME Awaited, TypeOK,
         \A h \in Handlers : /\ srv'[h].from = srv[h].from /\ srv'[h].key = srv[h].key
                             /\ srv[h].at # "none" => srv'[h].at # "none",
         \A q \in Processes : pc[q] = "waiting" => pc'[q] = "waiting" /\ own'[q] = own[q]
  PROVE  Awaited'
<1>. SUFFICES ASSUME NEW h \in Handlers, srv'[h].from # None
              PROVE  /\ srv'[h].at # "none"
                     /\ pc'[srv'[h].from] = "waiting"
                     /\ own'[srv'[h].from].key = srv'[h].key
                     /\ \A g \in Handlers : srv'[g].from = srv'[h].from => g = h
  BY DEF Awaited
<1>1. srv[h].from \in Processes
  BY DEF TypeOK, Request
<1>. QED BY <1>1 DEF Awaited

LEMMA NextAwaited == TypeInv /\ [Next]_vars => Awaited'
<1>. SUFFICES ASSUME TypeOK, Held, Awaited, [Next]_vars PROVE Awaited'
  BY DEF TypeInv, WellFormed
<1>1. ASSUME NEW p \in Processes, pc[p] # "waiting", srv' = srv,
             Start(p) \/ Step(p) \/ TimeOut(p) \/ Kill(p)
      PROVE  Awaited'
  BY <1>1, OthersKeep, AwaitedKept
<1>2. ASSUME NEW p \in Processes, Start(p) PROVE Awaited'
  BY <1>1, <1>2 DEF Start
<1>3. ASSUME NEW p \in Processes, LoadIdentity(p) PROVE Awaited'
  BY <1>1, <1>3 DEF LoadIdentity, Step
<1>4. ASSUME NEW p \in Processes, ReadKey(p) PROVE Awaited'
  BY <1>1, <1>4 DEF ReadKey, Step
<1>5. ASSUME NEW p \in Processes, TruncateKey(p) PROVE Awaited'
  BY <1>1, <1>5 DEF TruncateKey, Step
<1>6. ASSUME NEW p \in Processes, FillKey(p) PROVE Awaited'
  BY <1>1, <1>6 DEF FillKey, Step
<1>7. ASSUME NEW p \in Processes, WriteTmp(p) PROVE Awaited'
  BY <1>1, <1>7 DEF WriteTmp, Step
<1>8. ASSUME NEW p \in Processes, RenameTmp(p) PROVE Awaited'
  BY <1>1, <1>8 DEF RenameTmp, Step
<1>9. ASSUME NEW p \in Processes, SignedRequest(p) PROVE Awaited'
  BY <1>1, <1>9 DEF SignedRequest, Step
<1>10. ASSUME NEW p \in Processes, Kill(p) PROVE Awaited'
  BY <1>1, <1>10 DEF Kill
<1>11. ASSUME NEW p \in Processes, Post(p) PROVE Awaited'
  <2>1. PICK h \in Handlers :
           /\ srv[h].at = "none"
           /\ srv' = [srv EXCEPT ![h] = [at |-> "hit", key |-> own[p].key,
                                         publisher |-> None, from |-> p]]
    BY <1>11 DEF Post
  <2>2. pc[p] = "post" /\ pc'[p] = "waiting" /\ own' = own
    BY <1>11 DEF Post, Goto, TypeOK
  <2>6. p # None
    BY RegistrationAssumption DEF Processes
  <2>3. \A g \in Handlers : g # h => srv'[g] = srv[g] /\ srv[g].from # p
    BY <2>1, <2>2, <2>6 DEF Awaited, TypeOK
  <2>4. \A q \in Processes : q # p => pc'[q] = pc[q]
    BY <1>11, OthersKeep DEF Step
  <2>5. srv'[h].from = p /\ srv'[h].at = "hit" /\ srv'[h].key = own[p].key
    BY <2>1 DEF TypeOK
  <2>7. \A g \in Handlers : srv[g].from \in Processes \cup {None}
    BY DEF TypeOK, Request
  <2>. QED BY <2>2, <2>3, <2>4, <2>5, <2>6, <2>7 DEF Awaited
<1>12. ASSUME NEW p \in Processes, TimeOut(p) PROVE Awaited'
  <2>1. \A g \in Handlers : IF srv[g].from = p
                            THEN srv'[g].from = None
                            ELSE srv'[g] = srv[g]
    BY <1>12 DEF TimeOut, TypeOK, Request
  <2>2. \A q \in Processes : q # p => pc'[q] = pc[q] /\ own'[q] = own[q]
    BY <1>12, OthersKeep
  <2>3. \A g \in Handlers : srv[g].from \in Processes \cup {None}
    BY DEF TypeOK, Request
  <2>. QED BY <2>1, <2>2, <2>3 DEF Awaited
<1>13. ASSUME NEW h \in Handlers, Handle(h) PROVE Awaited'
  <2>1. pc' = pc /\ own' = own
    BY <1>13 DEF Handle, Hit, SelectDevice, InsertPublisher, InsertDevice
  <2>2. \A g \in Handlers : /\ srv'[g].from = srv[g].from /\ srv'[g].key = srv[g].key
                            /\ srv[g].at # "none" => srv'[g].at # "none"
    BY <1>13, SelectAnswers
       DEF Handle, Hit, SelectDevice, InsertPublisher, InsertDevice, Serve, TypeOK, Request
  <2>. QED BY <2>1, <2>2, AwaitedKept
<1>14. ASSUME NEW h \in Handlers, Deliver(h) \/ Lose(h) PROVE Awaited'
  <2>. DEFINE p == srv[h].from
  <2>1. srv'[h].from = None /\ \A g \in Handlers : g # h => srv'[g] = srv[g]
    BY <1>14 DEF Deliver, Lose, NoRequest, TypeOK
  <2>2. \A q \in Processes : q # p => pc'[q] = pc[q] /\ own'[q] = own[q]
    BY <1>14 DEF Deliver, Lose, Exit, Goto, TypeOK
  <2>3. \A g \in Handlers : srv[g].from \in Processes \cup {None}
    BY DEF TypeOK, Request
  <2>4. \A g \in Handlers : g # h /\ srv[g].from # None => srv[g].from # p
    BY DEF Awaited
  <2>. QED BY <2>1, <2>2, <2>3, <2>4 DEF Awaited
<1>15. CASE Elapse \/ UNCHANGED vars
  BY <1>15, AwaitedKept DEF Elapse, vars
<1>. QED
  BY <1>2, <1>3, <1>4, <1>5, <1>6, <1>7, <1>8, <1>9, <1>10, <1>11, <1>12, <1>13, <1>14, <1>15
     DEF Next, Step

LEMMA TypesHold == Spec => []TypeInv
<1>1. TypeInv /\ [Next]_vars => TypeInv'
  BY NextTypes, NextAwaited DEF TypeInv
<1>. QED BY <1>1, InitTypes, PTL DEF Spec

\* Every reachable state of the registration is well typed: a process that writes or
\* signs has a key, a request has one too, and only ticks hold the lock
\* (device.go:53-132, register/route.ts:26-63).
THEOREM RegistrationTypeCorrect == Spec => []TypeOK
<1>1. TypeInv => TypeOK
  BY DEF TypeInv, WellFormed
<1>. QED BY <1>1, TypesHold, PTL

(***************************************************************************)
(* The answers, and what is saved of them.                                 *)
(***************************************************************************)
LEMMA InitAnswers == Init => AnswerInv
  BY DEF Init, AnswerInv, SavedIsRow, AnswersStayTrue, NoRequest

\* A process that neither posts nor waits leaves the requests and the rows alone, and
\* saves nothing but what it was about to save.
LEMMA ProcessAnswers ==
  ASSUME TypeInv, AnswerInv, NEW p \in Processes,
         Start(p) \/ Step(p) \/ Kill(p) \/ TimeOut(p)
  PROVE  AnswerInv'
<1>. USE DEF TypeInv, WellFormed, AnswerInv
<1>1. devices' = devices
  BY DEF Start, Step, Kill, TimeOut, LoadIdentity, ReadKey, TruncateKey, FillKey, Post,
         WriteTmp, RenameTmp, SignedRequest
<1>2. \A h \in Handlers :
         \/ srv'[h].at = srv[h].at /\ Row(h)' = Row(h)
         \/ srv'[h].at = "hit"
  <2>1. CASE Post(p)
    BY <2>1 DEF Post, Row, TypeOK
  <2>2. CASE TimeOut(p)
    BY <2>2 DEF TimeOut, Row, TypeOK, Request
  <2>3. CASE srv' = srv
    BY <2>3 DEF Row
  <2>. QED
    BY <2>1, <2>2, <2>3
       DEF Start, Step, Kill, LoadIdentity, ReadKey, TruncateKey, FillKey, WriteTmp, RenameTmp,
           SignedRequest, files
<1>3. /\ pc'[p] \in {"save", "rename"} => own'[p] \in devices
      /\ tmp' # None => tmp' \in devices
      /\ identity' # None => identity' \in devices
  <2>1. CASE WriteTmp(p)
    BY <2>1 DEF WriteTmp, Goto, SavedIsRow, AnswersStayTrue, TypeOK
  <2>2. CASE RenameTmp(p)
    BY <2>2 DEF RenameTmp, Goto, Exit, SavedIsRow, AnswersStayTrue, TypeOK, files
  <2>3. CASE Start(p) \/ Kill(p) \/ TimeOut(p)
    BY <2>3 DEF Start, Kill, TimeOut, Goto, Exit, SavedIsRow, AnswersStayTrue, TypeOK, files
  <2>4. CASE LoadIdentity(p) \/ ReadKey(p) \/ SignedRequest(p)
    BY <2>4 DEF LoadIdentity, ReadKey, SignedRequest, Goto, Exit, SavedIsRow,
                AnswersStayTrue, TypeOK, files
  <2>5. CASE TruncateKey(p) \/ FillKey(p) \/ Post(p)
    BY <2>5 DEF TruncateKey, FillKey, Post, Goto, SavedIsRow, AnswersStayTrue, TypeOK, files
  <2>. QED BY <2>1, <2>2, <2>3, <2>4, <2>5 DEF Step
<1>4. SavedIsRow'
  BY <1>1, <1>3, OthersKeep DEF SavedIsRow
<1>5. AnswersStayTrue'
  BY <1>1, <1>2, <1>3 DEF AnswersStayTrue
<1>. QED BY <1>4, <1>5

LEMMA ServerAnswers ==
  ASSUME TypeInv, AnswerInv, NEW h \in Handlers, Handle(h)
  PROVE  AnswerInv'
<1>. USE DEF TypeInv, WellFormed, AnswerInv
<1>1. UNCHANGED <<files, pc, own>>
  BY DEF Handle, Hit, SelectDevice, InsertPublisher, InsertDevice
<1>2. devices \subseteq devices' /\ \A d, e \in devices' : d.key = e.key => d = e
  BY DEF Handle, Hit, SelectDevice, InsertPublisher, InsertDevice, AnswersStayTrue, Keys, Row
<1>3. \A g \in Handlers : g # h => srv'[g] = srv[g]
  BY SelectAnswers
     DEF Handle, Hit, SelectDevice, InsertPublisher, InsertDevice, Serve, TypeOK
<1>4. srv'[h].at = "answer" => Row(h)' \in devices'
  <2>1. CASE Hit(h) \/ InsertPublisher(h)
    BY <2>1 DEF Hit, InsertPublisher, Serve, TypeOK, Request, Stages
  <2>2. CASE SelectDevice(h)
    <3>1. CASE srv' = [srv EXCEPT ![h].at = "publisher"]
      BY <3>1 DEF TypeOK, Request, Stages
    <3>2. ASSUME NEW d \in devices, d.key = srv[h].key,
                 srv' = [srv EXCEPT ![h].at = "answer", ![h].publisher = d.publisher]
          PROVE  Row(h)' \in devices'
      <4>1. Row(h)' = [key |-> d.key, publisher |-> d.publisher]
        BY <3>2 DEF Row, TypeOK, Request, Stages
      <4>2. d = [key |-> d.key, publisher |-> d.publisher]
        BY DEF TypeOK
      <4>. QED BY <1>2, <4>1, <4>2
    <3>. QED BY <2>2, <3>1, <3>2, SelectAnswers
  <2>3. CASE InsertDevice(h)
    BY <2>3 DEF InsertDevice, Serve, Row, TypeOK, Request, Stages
  <2>. QED BY <2>1, <2>2, <2>3 DEF Handle
<1>5. SavedIsRow'
  BY <1>1, <1>2 DEF SavedIsRow, files
<1>6. \A g \in Handlers : srv'[g].at = "answer" => Row(g)' \in devices'
  BY <1>2, <1>3, <1>4 DEF AnswersStayTrue, Row
<1>7. AnswersStayTrue'
  BY <1>1, <1>2, <1>6 DEF AnswersStayTrue, files
<1>. QED BY <1>5, <1>7

LEMMA ArrivalAnswers ==
  ASSUME TypeInv, AnswerInv, NEW h \in Handlers, Deliver(h) \/ Lose(h)
  PROVE  AnswerInv'
<1>. USE DEF TypeInv, WellFormed, AnswerInv
<1>. DEFINE p == srv[h].from
<1>1. UNCHANGED <<files, devices>>
  BY DEF Deliver, Lose
<1>2. \A g \in Handlers : srv'[g].at = "answer" => srv'[g] = srv[g]
  BY DEF Deliver, Lose, NoRequest, TypeOK
<1>3. ASSUME NEW q \in Processes, pc'[q] \in {"save", "rename"} PROVE own'[q] \in devices
  <2>1. CASE q # p
    BY <1>3, <2>1 DEF Deliver, Lose, Exit, Goto, TypeOK, SavedIsRow
  <2>2. CASE q = p /\ Deliver(h)
    <3>1. own[p] = [key |-> own[p].key, publisher |-> own[p].publisher]
      BY <2>2 DEF TypeOK, Answer
    <3>2. own'[p] = [key |-> own[p].key, publisher |-> srv[h].publisher]
      BY <2>2, <3>1 DEF Deliver, TypeOK, Answer
    <3>3. own[p].key = srv[h].key
      BY <2>2 DEF Deliver, Awaited
    <3>. QED BY <2>2, <3>2, <3>3 DEF Deliver, AnswersStayTrue, Row
  <2>3. CASE q = p /\ Lose(h)
    BY <1>3, <2>3, RegistrationAssumption DEF Lose, Exit, Goto, TypeOK, Processes
  <2>. QED BY <2>1, <2>2, <2>3
<1>4. SavedIsRow'
  BY <1>1, <1>3 DEF SavedIsRow, files
<1>5. AnswersStayTrue'
  BY <1>1, <1>2 DEF AnswersStayTrue, Row, files
<1>. QED BY <1>4, <1>5

LEMMA NextAnswers == TypeInv /\ AnswerInv /\ [Next]_vars => AnswerInv'
<1>. SUFFICES ASSUME TypeInv, AnswerInv, [Next]_vars PROVE AnswerInv'
  OBVIOUS
<1>1. CASE Elapse \/ UNCHANGED vars
  BY <1>1 DEF Elapse, vars, files, AnswerInv, SavedIsRow, AnswersStayTrue, Row
<1>. QED BY <1>1, ProcessAnswers, ServerAnswers, ArrivalAnswers DEF Next

LEMMA AnswersHold == Spec => [](TypeInv /\ AnswerInv)
<1>1. Init => AnswerInv
  BY InitAnswers
<1>2. TypeInv /\ AnswerInv /\ [Next]_vars => AnswerInv'
  BY NextAnswers
<1>. QED BY <1>1, <1>2, TypesHold, PTL DEF Spec

\* However registrations of one key race, and whatever crashes between the two inserts,
\* one row per key remains, and every answer, and the identity that was saved of one,
\* names it (register/route.ts:23-63).
THEOREM AnswersAreTrue == Spec => []AnswersStayTrue
<1>1. AnswerInv => AnswersStayTrue
  BY DEF AnswerInv
<1>. QED BY <1>1, AnswersHold, PTL

(***************************************************************************)
(* The key that signs.                                                     *)
(***************************************************************************)
LEMMA InitSigns == Init => SignInv
<1>. SUFFICES ASSUME Init PROVE SignInv
  OBVIOUS
<1>1. \A p \in Processes : pc[p] = "idle"
  BY DEF Init
<1>2. "idle" \notin Registering /\ "idle" \notin Signing
  BY DEF Registering, Signing
<1>3. LockHeld /\ Alone
  BY <1>1, <1>2 DEF LockHeld, Alone, Active, Processes
<1>4. HoldsFiles
  BY <1>1, <1>2 DEF HoldsFiles
<1>5. IdentityCanSign
  BY DEF Init, IdentityCanSign
<1>. QED BY <1>3, <1>4, <1>5 DEF SignInv

\* While nothing overlapped, who registers has the machine to itself.
LEMMA RegistersAlone ==
  ASSUME Alone, ~overlap, NEW p \in Processes, pc[p] \in Registering
  PROVE  identity = None /\ \A q \in Processes : Active(q) => q = p
<1>1. identity = None
  BY DEF Alone
<1>2. Active(p)
  BY DEF Active, Registering
<1>. QED BY <1>1, <1>2 DEF Alone

\* Whoever ends breaks nothing of this.
LEMMA ExitKeeps ==
  ASSUME TypeOK, LockHeld, Alone, HoldsFiles, NEW p \in Processes, Exit(p),
         UNCHANGED <<files, overlap>>
  PROVE  LockHeld' /\ Alone' /\ HoldsFiles'
<1>1. pc'[p] \in {"idle", "done"}
  BY DEF Exit, Goto, TypeOK
<1>2. \A q \in Processes : q # p => pc'[q] = pc[q] /\ own'[q] = own[q]
  BY DEF Exit, Goto, TypeOK
<1>3. ~Active(p)' /\ \A q \in Processes : q # p => Active(q)' = Active(q)
  BY <1>1, <1>2 DEF Active
<1>4. pc'[p] \notin Registering \cup Signing
  BY <1>1 DEF Registering, Signing
<1>5. LockHeld'
  BY <1>3 DEF LockHeld, Exit, Processes
<1>6. Alone'
  BY <1>2, <1>3, <1>4 DEF Alone, files
<1>7. HoldsFiles'
  <2>1. pc'[p] \notin {"post", "waiting", "save", "rename", "sign"}
    BY <1>1
  <2>. QED BY <1>2, <1>4, <2>1 DEF HoldsFiles, files
<1>. QED BY <1>5, <1>6, <1>7

\* The tick lock is taken by one tick at a time.
LEMMA NextLockHeld ==
  ASSUME TypeInv, SignInv, [Next]_vars
  PROVE  LockHeld'
<1>. USE DEF TypeInv, WellFormed, SignInv
<1>1. ASSUME NEW p \in Processes, Exit(p) PROVE LockHeld'
  <2>1. ~Active(p)'
    BY <1>1 DEF Exit, Goto, TypeOK, Active
  <2>2. \A q \in Processes : q # p => Active(q)' = Active(q)
    BY <1>1 DEF Exit, Goto, TypeOK, Active
  <2>. QED BY <1>1, <2>1, <2>2 DEF LockHeld, Exit, Processes
<1>2. ASSUME lock' = lock, \A q \in Ticks : Active(q)' => Active(q) PROVE LockHeld'
  BY <1>2 DEF LockHeld
<1>3. ASSUME NEW p \in Processes, Start(p) PROVE LockHeld'
  <2>1. \A q \in Processes : q # p => Active(q)' = Active(q)
    BY <1>3 DEF Start, Goto, TypeOK, Active
  <2>2. p \in Ticks => lock = None
    BY <1>3 DEF Start
  <2>3. \A q \in Ticks : q # None
    BY RegistrationAssumption
  <2>. QED BY <1>3, <2>1, <2>2, <2>3 DEF LockHeld, Start, Processes
<1>4. ASSUME NEW p \in Processes, Active(p), lock' = lock,
             Step(p) \/ TimeOut(p) \/ Kill(p)
      PROVE  LockHeld'
  BY <1>2, <1>4, OthersKeep DEF Active, Processes
<1>5. ASSUME NEW p \in Processes, Step(p) \/ TimeOut(p) \/ Kill(p) PROVE LockHeld'
  <2>1. Active(p)
    BY <1>5 DEF Active, Step, TimeOut, Kill, LoadIdentity, ReadKey, TruncateKey, FillKey, Post,
                WriteTmp, RenameTmp, SignedRequest
  <2>2. lock' = lock \/ Exit(p)
    BY <1>5 DEF Step, TimeOut, Kill, LoadIdentity, ReadKey, TruncateKey, FillKey, Post,
                WriteTmp, RenameTmp, SignedRequest
  <2>. QED BY <1>1, <1>4, <1>5, <2>1, <2>2
<1>6. ASSUME NEW h \in Handlers, Handle(h) PROVE LockHeld'
  BY <1>2, <1>6 DEF Handle, Hit, SelectDevice, InsertPublisher, InsertDevice, Active
<1>7. ASSUME NEW h \in Handlers, Deliver(h) PROVE LockHeld'
  <2>1. pc[srv[h].from] = "waiting"
    BY <1>7 DEF Deliver, Awaited
  <2>2. \A q \in Ticks : Active(q)' => Active(q)
    BY <1>7, <2>1 DEF Deliver, Goto, TypeOK, Active, Processes
  <2>. QED BY <1>2, <1>7, <2>2 DEF Deliver
<1>8. ASSUME NEW h \in Handlers, Lose(h) PROVE LockHeld'
  <2>1. srv[h].from # None => srv[h].from \in Processes
    BY DEF TypeOK, Request
  <2>. QED BY <1>1, <1>2, <1>8, <2>1 DEF Lose, Active
<1>9. CASE Elapse \/ UNCHANGED vars
  BY <1>2, <1>9 DEF Elapse, vars, Active
<1>. QED BY <1>3, <1>5, <1>6, <1>7, <1>8, <1>9 DEF Next

LEMMA LabelKinds ==
  /\ \A l \in Registering \cup Signing : l \notin {"idle", "done"}
  /\ {"post", "waiting", "save", "rename"} \subseteq Registering
  /\ "sign" \in Signing
  /\ Registering \cap Signing = {}
  BY DEF Registering, Signing

\* A step of a process that registers, and goes on to.
LEMMA RegisteringKeeps ==
  ASSUME Alone, HoldsFiles, ~overlap, NEW p \in Processes,
         pc[p] \in Registering, pc'[p] \in Registering,
         \A q \in Processes : q # p => pc'[q] = pc[q],
         UNCHANGED <<identity, overlap, refused>>, ~refused,
         pc'[p] \in {"post", "waiting", "save", "rename"} => own'[p].key = keyFile',
         pc'[p] = "rename" => tmp' = own'[p]
  PROVE  Alone' /\ HoldsFiles' /\ IdentityCanSign'
<1>1. identity = None /\ \A q \in Processes : Active(q) => q = p
  BY RegistersAlone
<1>2. \A q \in Processes : q # p => pc'[q] \in {"idle", "done"}
  BY <1>1 DEF Active
<1>3. \A q \in Processes : q # p => pc'[q] \notin Registering \cup Signing
  BY <1>2, LabelKinds
<1>4. pc'[p] \notin Signing
  BY LabelKinds
<1>5. Alone'
  BY <1>1, <1>2, <1>3, <1>4 DEF Alone, Active
<1>6. HoldsFiles'
  BY <1>3, <1>4, LabelKinds DEF HoldsFiles
<1>7. IdentityCanSign'
  BY <1>1 DEF IdentityCanSign
<1>. QED BY <1>5, <1>6, <1>7

\* A step that changes no file and only the process p, which gets on with signing.
LEMMA SigningKeeps ==
  ASSUME Alone, HoldsFiles, IdentityCanSign, ~overlap, NEW p \in Processes,
         UNCHANGED <<files, overlap, refused>>, identity # None,
         \A q \in Processes : q # p => pc'[q] = pc[q] /\ own'[q] = own[q],
         pc'[p] \in {"signing key", "sign"}, own'[p].publisher = identity.publisher,
         pc'[p] = "sign" => own'[p].key = identity.key
  PROVE  Alone' /\ HoldsFiles' /\ IdentityCanSign'
<1>1. pc'[p] \in Signing
  BY DEF Signing
<1>2. pc'[p] \notin Registering
  BY <1>1, LabelKinds
<1>3. Alone'
  BY <1>1, <1>2 DEF Alone, files
<1>4. HoldsFiles'
  BY <1>1, <1>2, LabelKinds DEF HoldsFiles, files
<1>5. IdentityCanSign'
  BY DEF IdentityCanSign, files
<1>. QED BY <1>3, <1>4, <1>5

LEMMA NextSigns ==
  ASSUME TypeInv, AnswerInv, SignInv, [Next]_vars
  PROVE  Alone' /\ HoldsFiles' /\ IdentityCanSign'
<1>. DEFINE Goal == Alone' /\ HoldsFiles' /\ IdentityCanSign'
<1>1. SUFFICES ASSUME ~overlap, ~overlap' PROVE Goal
  <2>1. overlap => overlap'
    BY DEF Next, vars, Start, Step, TimeOut, Kill, LoadIdentity, ReadKey, TruncateKey, FillKey,
           Post, WriteTmp, RenameTmp, SignedRequest, Handle, Hit, SelectDevice, InsertPublisher,
           InsertDevice, Deliver, Lose, Elapse
  <2>2. overlap' => Goal
    BY DEF Alone, HoldsFiles, IdentityCanSign
  <2>. QED BY <1>1, <2>1, <2>2
<1>. USE DEF TypeInv, WellFormed, SignInv
<1>2. ~refused /\ overlap' = overlap
  <2>1. overlap' \in BOOLEAN
    BY NextTypes DEF TypeOK
  <2>2. overlap \in BOOLEAN
    BY DEF TypeOK
  <2>3. ~refused
    BY <1>1 DEF IdentityCanSign
  <2>. QED BY <1>1, <2>1, <2>2, <2>3
<1>3. /\ identity # None => identity \in devices /\ identity.key \in Nat
      /\ identity # None => keyFile = identity.key
  BY <1>1 DEF AnswerInv, AnswersStayTrue, TypeOK, IdentityCanSign, Key
<1>4. ASSUME NEW p \in Processes, Exit(p), UNCHANGED <<files, refused>> PROVE Goal
  BY <1>2, <1>3, <1>4, ExitKeeps DEF IdentityCanSign, files
<1>5. ASSUME UNCHANGED <<files, pc, own, refused>> PROVE Goal
  BY <1>2, <1>5 DEF Alone, HoldsFiles, IdentityCanSign, Active, files
<1>6. ASSUME NEW p \in Processes, Start(p) PROVE Goal
  <2>1. pc'[p] = "identity" /\ \A q \in Processes : q # p => pc'[q] = pc[q]
    BY <1>6, OthersKeep DEF Start, Goto, TypeOK
  <2>2. pc'[p] \notin Registering \cup Signing
    BY <2>1 DEF Registering, Signing
  <2>3. UNCHANGED <<files, own, refused>>
    BY <1>6 DEF Start
  <2>4. identity = None => \A q \in Processes : q # p => ~Active(q)
    <3>1. SUFFICES ASSUME identity = None, NEW q \in Processes, q # p, Active(q) PROVE FALSE
      OBVIOUS
    <3>2. p \in Ticks /\ q \in Ticks
      BY <1>1, <1>6, <3>1 DEF Start, Active, Processes
    <3>3. lock = q /\ lock = None
      BY <1>6, <3>1, <3>2 DEF Start, LockHeld
    <3>. QED BY <3>2, <3>3, RegistrationAssumption
  <2>5. \A q \in Processes : q # p => Active(q)' = Active(q)
    BY <2>1 DEF Active
  <2>6. Alone'
    BY <1>1, <2>1, <2>2, <2>3, <2>4, <2>5 DEF Alone, files
  <2>7. HoldsFiles'
    BY <1>1, <2>1, <2>2, <2>3, LabelKinds DEF HoldsFiles, files
  <2>8. IdentityCanSign'
    BY <1>2, <1>3, <2>3 DEF IdentityCanSign, files
  <2>. QED BY <2>6, <2>7, <2>8
<1>7. ASSUME NEW p \in Processes, LoadIdentity(p) PROVE Goal
  <2>1. \A q \in Processes : q # p => pc'[q] = pc[q] /\ own'[q] = own[q]
    BY <1>7, OthersKeep DEF Step
  <2>2. UNCHANGED <<files, refused>>
    BY <1>7 DEF LoadIdentity
  <2>3. CASE identity = None
    <3>1. Active(p) /\ pc'[p] = "key" /\ own' = own
      BY <1>7, <2>3 DEF LoadIdentity, Goto, TypeOK, Active
    <3>2. \A q \in Processes : Active(q)' => Active(q)
      BY <2>1, <3>1 DEF Active
    <3>3. pc'[p] \notin Signing
      BY <3>1 DEF Signing
    <3>4. Alone'
      BY <1>1, <2>1, <2>2, <2>3, <3>2, <3>3 DEF Alone, files
    <3>5. HoldsFiles'
      BY <1>1, <2>1, <2>2, <3>1, <3>3 DEF HoldsFiles, files
    <3>6. IdentityCanSign'
      BY <1>2, <1>3, <2>2 DEF IdentityCanSign, files
    <3>. QED BY <3>4, <3>5, <3>6
  <2>4. CASE identity # None /\ p \in Ticks
    <3>1. pc'[p] = "signing key" /\ own'[p].publisher = identity.publisher
      BY <1>7, <2>4 DEF LoadIdentity, Goto, TypeOK, Answer
    <3>. QED BY <1>1, <1>2, <2>1, <2>2, <2>4, <3>1, SigningKeeps
  <2>5. CASE identity # None /\ p \notin Ticks
    BY <1>4, <1>7, <2>2, <2>5 DEF LoadIdentity
  <2>. QED BY <2>3, <2>4, <2>5
<1>8. ASSUME NEW p \in Processes, ReadKey(p) PROVE Goal
  <2>1. \A q \in Processes : q # p => pc'[q] = pc[q] /\ own'[q] = own[q]
    BY <1>8, OthersKeep DEF Step
  <2>2. UNCHANGED <<files, refused>>
    BY <1>8 DEF ReadKey
  <2>3. CASE pc[p] = "key"
    <3>1. pc'[p] \in {"write", "post"} /\ (pc'[p] = "post" => own'[p].key = keyFile')
      BY <1>8, <2>2, <2>3 DEF ReadKey, Goto, TypeOK, Answer, files
    <3>2. pc[p] \in Registering /\ pc'[p] \in Registering
      BY <2>3, <3>1 DEF Registering
    <3>3. /\ pc'[p] \in {"post", "waiting", "save", "rename"} => own'[p].key = keyFile'
          /\ pc'[p] # "rename"
      BY <3>1
    <3>. QED BY <1>1, <1>2, <2>1, <2>2, <3>2, <3>3, RegisteringKeeps DEF files
  <2>4. CASE pc[p] = "signing key"
    <3>1. identity # None /\ own[p].publisher = identity.publisher
      BY <1>1, <2>4 DEF Alone, HoldsFiles, Signing
    <3>2. keyFile = identity.key /\ keyFile \notin {None, Corrupt}
      BY <1>3, <3>1, RegistrationAssumption
    <3>3. own' = [own EXCEPT ![p].key = keyFile] /\ Goto(p, "sign")
      BY <1>8, <2>4, <3>2 DEF ReadKey
    <3>4. pc'[p] = "sign"
      BY <3>3 DEF Goto, TypeOK
    <3>5. own'[p].key = identity.key /\ own'[p].publisher = identity.publisher
      BY <3>1, <3>2, <3>3 DEF TypeOK, Answer
    <3>. QED BY <1>1, <1>2, <2>1, <2>2, <3>1, <3>4, <3>5, SigningKeeps
  <2>. QED BY <1>8, <2>3, <2>4 DEF ReadKey
<1>9. ASSUME NEW p \in Processes, TruncateKey(p) PROVE Goal
  <2>1. pc[p] = "write"
    BY <1>1, <1>9 DEF TruncateKey, HoldsFiles, Signing
  <2>2. pc'[p] = "fill" /\ UNCHANGED <<identity, refused>>
    BY <1>9, <2>1 DEF TruncateKey, Goto, TypeOK
  <2>3. pc[p] \in Registering /\ pc'[p] \in Registering
    BY <2>1, <2>2 DEF Registering
  <2>4. \A q \in Processes : q # p => pc'[q] = pc[q]
    BY <1>9, OthersKeep DEF Step
  <2>5. pc'[p] \notin {"post", "waiting", "save", "rename"}
    BY <2>2
  <2>. QED BY <1>1, <1>2, <2>2, <2>3, <2>4, <2>5, RegisteringKeeps
<1>10. ASSUME NEW p \in Processes, FillKey(p) PROVE Goal
  <2>1. pc[p] = "fill"
    BY <1>1, <1>10 DEF FillKey, HoldsFiles, Signing
  <2>2. pc'[p] = "post" /\ own'[p].key = keyFile' /\ UNCHANGED <<identity, refused>>
    BY <1>10, <2>1 DEF FillKey, Goto, TypeOK
  <2>3. pc[p] \in Registering /\ pc'[p] \in Registering
    BY <2>1, <2>2 DEF Registering
  <2>4. \A q \in Processes : q # p => pc'[q] = pc[q]
    BY <1>10, OthersKeep DEF Step
  <2>5. pc'[p] # "rename"
    BY <2>2
  <2>. QED BY <1>1, <1>2, <2>2, <2>3, <2>4, <2>5, RegisteringKeeps
<1>11. ASSUME NEW p \in Processes, Post(p) PROVE Goal
  <2>1. pc[p] = "post" /\ pc'[p] = "waiting" /\ UNCHANGED <<files, own, refused>>
    BY <1>11 DEF Post, Goto, TypeOK
  <2>2. own[p].key = keyFile
    BY <1>1, <2>1 DEF HoldsFiles
  <2>3. pc[p] \in Registering /\ pc'[p] \in Registering
    BY <2>1 DEF Registering
  <2>4. \A q \in Processes : q # p => pc'[q] = pc[q]
    BY <1>11, OthersKeep DEF Step
  <2>5. pc'[p] # "rename"
    BY <2>1
  <2>. QED BY <1>1, <1>2, <2>1, <2>2, <2>3, <2>4, <2>5, RegisteringKeeps DEF files
<1>12. ASSUME NEW p \in Processes, WriteTmp(p) PROVE Goal
  <2>1. /\ pc[p] = "save" /\ pc'[p] = "rename" /\ tmp' = own'[p]
        /\ UNCHANGED <<keyFile, identity, own, refused>>
    BY <1>12 DEF WriteTmp, Goto, TypeOK
  <2>2. own[p].key = keyFile
    BY <1>1, <2>1 DEF HoldsFiles
  <2>3. pc[p] \in Registering /\ pc'[p] \in Registering
    BY <2>1 DEF Registering
  <2>4. \A q \in Processes : q # p => pc'[q] = pc[q]
    BY <1>12, OthersKeep DEF Step
  <2>. QED BY <1>1, <1>2, <2>1, <2>2, <2>3, <2>4, RegisteringKeeps
<1>13. ASSUME NEW p \in Processes, RenameTmp(p) PROVE Goal
  <2>1. /\ pc[p] = "rename" /\ refused' = refused
        /\ tmp = None => Exit(p) /\ UNCHANGED files
    BY <1>13 DEF RenameTmp
  <2>2. CASE tmp = None
    BY <1>4, <2>1, <2>2
  <2>3. CASE tmp # None
    <3>1. tmp = own[p] /\ own[p].key = keyFile
      BY <1>1, <2>1 DEF HoldsFiles
    <3>2. identity' = own[p] /\ identity' # None /\ keyFile' = keyFile
      BY <1>13, <2>3, <3>1 DEF RenameTmp
    <3>3. IdentityCanSign'
      BY <1>2, <2>1, <3>1, <3>2 DEF IdentityCanSign
    <3>4. \A q \in Processes : Active(q) => q = p
      BY <1>1, <2>1, LabelKinds, RegistersAlone
    <3>5. \A q \in Processes : q # p => pc'[q] = pc[q]
      BY <1>13, OthersKeep DEF Step
    <3>6. \A q \in Processes : q # p => pc'[q] \in {"idle", "done"}
      BY <3>4, <3>5 DEF Active
    <3>7. \/ pc'[p] \in {"idle", "done"}
          \/ pc'[p] = "signing key" /\ own'[p].publisher = identity'.publisher
      BY <1>13, <2>3, <3>2 DEF RenameTmp, Exit, Goto, TypeOK
    <3>8. pc'[p] \notin Registering /\ pc'[p] # "sign"
      BY <3>7 DEF Registering
    <3>9. Alone'
      BY <3>2, <3>6, <3>8, LabelKinds DEF Alone
    <3>10. HoldsFiles'
      BY <3>6, <3>7, <3>8, LabelKinds DEF HoldsFiles
    <3>. QED BY <3>3, <3>9, <3>10
  <2>. QED BY <2>2, <2>3
<1>14. ASSUME NEW p \in Processes, SignedRequest(p) PROVE Goal
  <2>1. pc[p] = "sign" /\ pc[p] \in Signing
    BY <1>14 DEF SignedRequest, Signing
  <2>2. /\ identity # None /\ own[p].key = identity.key
        /\ own[p].publisher = identity.publisher
    BY <1>1, <2>1 DEF Alone, HoldsFiles
  <2>3. identity \in devices /\ identity \in Claimed(p) /\ Verifies(identity, own[p].key)
    BY <1>3, <2>2 DEF Claimed, Verifies
  <2>4. Authentic(p)
    BY <2>3 DEF Authentic
  <2>5. Exit(p) /\ UNCHANGED files /\ refused' = (refused \/ ~Authentic(p))
    BY <1>14 DEF SignedRequest
  <2>6. refused \in BOOLEAN /\ refused' \in BOOLEAN
    BY NextTypes DEF TypeOK
  <2>7. UNCHANGED refused
    BY <1>2, <2>4, <2>5, <2>6
  <2>. QED BY <1>4, <2>5, <2>7
<1>15. ASSUME NEW p \in Processes, TimeOut(p) \/ Kill(p) PROVE Goal
  BY <1>4, <1>15 DEF TimeOut, Kill
<1>16. ASSUME NEW h \in Handlers, Handle(h) PROVE Goal
  BY <1>5, <1>16 DEF Handle, Hit, SelectDevice, InsertPublisher, InsertDevice
<1>17. ASSUME NEW h \in Handlers, Deliver(h) PROVE Goal
  <2>. DEFINE p == srv[h].from
  <2>1. p \in Processes /\ pc[p] = "waiting"
    BY <1>17 DEF Deliver, Awaited, TypeOK, Request
  <2>2. /\ pc'[p] = "save" /\ own'[p].key = own[p].key
        /\ \A q \in Processes : q # p => pc'[q] = pc[q]
    BY <1>17, <2>1 DEF Deliver, Goto, TypeOK, Answer
  <2>3. own[p].key = keyFile
    BY <1>1, <2>1 DEF HoldsFiles
  <2>4. pc[p] \in Registering /\ pc'[p] \in Registering /\ pc'[p] # "rename"
    BY <2>1, <2>2 DEF Registering
  <2>5. UNCHANGED <<files, refused>>
    BY <1>17 DEF Deliver
  <2>. HIDE DEF p
  <2>. QED BY <1>1, <1>2, <2>1, <2>2, <2>3, <2>4, <2>5, RegisteringKeeps DEF files
<1>18. ASSUME NEW h \in Handlers, Lose(h) PROVE Goal
  <2>1. srv[h].from # None => srv[h].from \in Processes
    BY DEF TypeOK, Request
  <2>. QED BY <1>4, <1>5, <1>18, <2>1 DEF Lose
<1>19. CASE Elapse \/ UNCHANGED vars
  BY <1>5, <1>19 DEF Elapse, vars
<1>. QED
  BY <1>6, <1>7, <1>8, <1>9, <1>10, <1>11, <1>12, <1>13, <1>14, <1>15, <1>16, <1>17, <1>18,
     <1>19 DEF Next, Step

LEMMA SignsHold == Spec => []SignInv
<1>1. TypeInv /\ AnswerInv /\ SignInv /\ [Next]_vars => SignInv'
  BY NextLockHeld, NextSigns DEF SignInv
<1>. QED BY <1>1, InitSigns, AnswersHold, PTL DEF Spec

\* An install whose registration overlapped with no command can sign: the key on disk is
\* the one its identity was registered with, and the server turns away nothing it signs,
\* whatever was killed, lost, refused or tried again (device.go:53-79,
\* session.go:129-147, deviceAuth.ts:67-81).
THEOREM InstallsCanSign == Spec => []IdentityCanSign
<1>1. SignInv => IdentityCanSign
  BY DEF SignInv
<1>. QED BY <1>1, SignsHold, PTL

\* A registered install keeps its key and its publisher, and with them what it earns: no
\* later tick, timeout, kill or answer that comes late makes it a new key or writes it
\* another identity, unless `earnd register` had run beside it before it was registered
\* (device.go:53-79, session.go:129-147).
InstallIsForGood ==
    [][identity # None /\ ~overlap => UNCHANGED <<identity, keyFile>>]_vars

THEOREM InstallsKeepIdentity == Spec => InstallIsForGood
<1>1. TypeInv /\ SignInv /\ [Next]_vars
        => [identity # None /\ ~overlap => UNCHANGED <<identity, keyFile>>]_vars
  <2>. SUFFICES ASSUME TypeInv, SignInv, [Next]_vars, identity # None, ~overlap
                PROVE  UNCHANGED <<identity, keyFile>>
    OBVIOUS
  <2>1. \A p \in Processes : pc[p] \notin
          {"write", "fill", "rename", "write and sign", "fill and sign"}
    BY DEF SignInv, Alone, HoldsFiles, Registering, Signing
  <2>2. ASSUME NEW p \in Processes, LoadIdentity(p) \/ ReadKey(p) PROVE UNCHANGED files
    BY <2>2 DEF LoadIdentity, ReadKey
  <2>3. ASSUME NEW p \in Processes, TruncateKey(p) \/ FillKey(p) \/ RenameTmp(p) PROVE FALSE
    BY <2>1, <2>3 DEF TruncateKey, FillKey, RenameTmp
  <2>4. ASSUME NEW p \in Processes, Post(p) \/ SignedRequest(p) PROVE UNCHANGED files
    BY <2>4 DEF Post, SignedRequest
  <2>5. ASSUME NEW p \in Processes, WriteTmp(p) PROVE UNCHANGED <<identity, keyFile>>
    BY <2>5 DEF WriteTmp
  <2>6. ASSUME NEW p \in Processes, Start(p) \/ TimeOut(p) \/ Kill(p) PROVE UNCHANGED files
    BY <2>6 DEF Start, TimeOut, Kill
  <2>7. ASSUME NEW h \in Handlers, Hit(h) \/ SelectDevice(h) PROVE UNCHANGED files
    BY <2>7 DEF Hit, SelectDevice
  <2>8. ASSUME NEW h \in Handlers, InsertPublisher(h) \/ InsertDevice(h) PROVE UNCHANGED files
    BY <2>8 DEF InsertPublisher, InsertDevice
  <2>9. ASSUME NEW h \in Handlers, Deliver(h) \/ Lose(h) PROVE UNCHANGED files
    BY <2>9 DEF Deliver, Lose
  <2>10. CASE Elapse \/ UNCHANGED vars
    BY <2>10 DEF Elapse, vars, files
  <2>11. UNCHANGED files => UNCHANGED <<identity, keyFile>>
    BY DEF files
  <2>. QED
    BY <2>2, <2>3, <2>4, <2>5, <2>6, <2>7, <2>8, <2>9, <2>10, <2>11 DEF Next, Step, Handle
<1>. QED BY <1>1, TypesHold, SignsHold, PTL DEF Spec, InstallIsForGood
===============================================================================
