------------------------- MODULE ClientSessionProofs -------------------------
(***************************************************************************)
(* Proofs about the client of one device.  What they rest on is the file   *)
(* lock: from the load of the session to its rotation a tick is the only   *)
(* one that writes the session and the creative, so that what it learned   *)
(* when it loaded them is still true when it writes.                       *)
(***************************************************************************)
EXTENDS ClientSession, TLAPS

(***************************************************************************)
(* Types.                                                                  *)
(***************************************************************************)

\* The client keeps well-typed state, and what it redeems or saves was issued.
THEOREM ClientTypeCorrect ==
    Spec => []TypeOK
<1>. USE SessionAssumption
<1>1. Init => TypeOK
  BY DEF Init, TypeOK, Session, Empty, Work, Idle
<1>2. TypeOK /\ [Next]_vars => TypeOK'
  <2>. SUFFICES ASSUME TypeOK, [Next]_vars PROVE TypeOK'
    OBVIOUS
  <2>. USE DEF TypeOK, files, server, Running
  <2>1. ASSUME NEW k \in Ticks, Prompt(k) PROVE TypeOK'
    BY <2>1 DEF Prompt, Goto
  <2>2. ASSUME NEW k \in Ticks, AcquireTickLock(k) PROVE TypeOK'
    BY <2>2 DEF AcquireTickLock, Goto
  <2>3. ASSUME NEW k \in Ticks, Probe(k) PROVE TypeOK'
    BY <2>3 DEF Probe, Goto
  <2>4. ASSUME NEW k \in Ticks, Unregistered(k) PROVE TypeOK'
    BY <2>4 DEF Unregistered, Goto, Release, Work, Idle
  <2>5. ASSUME NEW k \in Ticks, LoadStale(k) PROVE TypeOK'
    BY <2>5 DEF LoadStale, Goto
  <2>6. ASSUME NEW k \in Ticks, LoadEarly(k) PROVE TypeOK'
    BY <2>6 DEF LoadEarly, Goto, Release, Work, Idle
  <2>7. ASSUME NEW k \in Ticks, RedeemAnswered(k) PROVE TypeOK'
    BY <2>7 DEF RedeemAnswered, Goto, Work
  <2>8. ASSUME NEW k \in Ticks, RedeemLost(k) PROVE TypeOK'
    <3>1. CASE Release(k)
      BY <2>8, <3>1 DEF RedeemLost, Goto, Release, Work, Idle
    <3>2. CASE /\ tick[k].attempts > 1 /\ Goto(k, "redeem")
               /\ tick' = [tick EXCEPT ![k].attempts = @ - 1]
      <4>1. /\ tick'[k].token = tick[k].token /\ tick' \in [Ticks -> Work]
            /\ \A j \in Ticks \ {k} : tick'[j] = tick[j]
        BY <3>2 DEF Work
      <4>2. /\ pc' \in [Ticks -> {"idle", "spawned"} \cup Running]
            /\ \A j \in Ticks \ {k} : pc'[j] = pc[j]
        BY <3>2 DEF Goto
      <4>3. tick[k].token # None /\ issuedAt[tick[k].token] # None
        BY <2>8 DEF RedeemLost
      <4>4. UNCHANGED <<clock, network, enabled, session, creative, issuedAt, outcome, answered, crashes>>
        BY <2>8 DEF RedeemLost
      <4>. QED BY <4>1, <4>2, <4>3, <4>4
    <3>. QED BY <2>8, <3>1, <3>2 DEF RedeemLost
  <2>9. ASSUME NEW k \in Ticks, BeginEmpty(k) PROVE TypeOK'
    BY <2>9 DEF BeginEmpty, Goto
  <2>10. ASSUME NEW k \in Ticks, BeginLost(k) PROVE TypeOK'
    BY <2>10 DEF BeginLost, Goto, Release, Work, Idle
  <2>11. ASSUME NEW k \in Ticks, ClearCreative(k) PROVE TypeOK'
    BY <2>11 DEF ClearCreative, Goto
  <2>12. ASSUME NEW k \in Ticks, ClearSession(k) PROVE TypeOK'
    BY <2>12 DEF ClearSession, Goto, Release, Work, Idle, Session, Empty
  <2>13. ASSUME NEW k \in Ticks, SaveCreative(k) PROVE TypeOK'
    BY <2>13 DEF SaveCreative, Goto, Work
  <2>14. ASSUME NEW k \in Ticks, Crash(k) PROVE TypeOK'
    BY <2>14 DEF Crash, Goto, Release, Work, Idle
  <2>15. ASSUME NEW k \in Ticks, LoadDue(k) PROVE TypeOK'
    <3>1. Age \in Nat
      BY <2>15 DEF LoadDue, Age, UnixSeconds, Session
    <3>. QED BY <2>15, <3>1 DEF LoadDue, Goto, Work, Session
  <2>16. ASSUME NEW k \in Ticks, Redeem(k) PROVE TypeOK'
    <3>1. outcome' \in [Tokens -> {"none", "recorded", "denied", "expired", "dwell_unmet"}]
      BY <2>16 DEF Redeem, Work
    <3>. QED BY <2>16, <3>1 DEF Redeem, Goto, Work
  <2>17. ASSUME NEW k \in Ticks, Begin(k) PROVE TypeOK'
    BY <2>17 DEF Begin, Goto, Unissued, Work, Idle, Session
  <2>18. ASSUME NEW k \in Ticks, SaveSession(k) PROVE TypeOK'
    <3>1. UnixSeconds \in Nat
      BY DEF UnixSeconds
    <3>. QED BY <2>18, <3>1 DEF SaveSession, Release, Goto, Session, Work, Idle
  <2>19. CASE TurnOff \/ TurnOn
    BY <2>19 DEF TurnOff, TurnOn
  <2>20. CASE ChangeNetwork
    BY <2>20 DEF ChangeNetwork
  <2>21. CASE Wait
    BY <2>21 DEF Wait
  <2>22. CASE UNCHANGED vars
    BY <2>22 DEF vars
  <2>. QED
    BY <2>1, <2>2, <2>3, <2>4, <2>5, <2>6, <2>7, <2>8, <2>9, <2>10, <2>11, <2>12, <2>13, <2>14, <2>15, <2>16, <2>17, <2>18, <2>19, <2>20, <2>21, <2>22 DEF Next, Tick
<1>. QED BY <1>1, <1>2, PTL DEF Spec

(***************************************************************************)
(* The inductive invariant.                                                *)
(***************************************************************************)

\* One tick at most is past the lock.
LockExclusive == \A j, k \in Ticks : pc[j] \in Running /\ pc[k] \in Running => j = k

Redeeming == {"redeem", "answering"}
Rotating  == {"rotate", "begun", "empty", "saved", "cleared"}

\* The token being redeemed is the session's.
RedeemsSession == \A k \in Ticks : pc[k] \in Redeeming => tick[k].token = session.token

\* The client has no more use for the session's token.
Done == session.token # None => session.token \in answered \/ Age > MaxAge

RotatesDone == \A k \in Ticks : pc[k] \in Rotating => Done

\* The two clocks: nothing is signed in the future, the session counts from a whole
\* second in which its token had already been signed, and a claim is at most the
\* whole seconds since.
IssuedBefore == \A t \in Tokens : issuedAt[t] # None => issuedAt[t] <= clock

SavedAfterIssue ==
    /\ session.at * PerSecond <= clock
    /\ session.token # None => issuedAt[session.token] < session.at * PerSecond + PerSecond

ClaimIsElapsed ==
    \A k \in Ticks : pc[k] \in Redeeming =>
        /\ MinDwell <= tick[k].displayed
        /\ tick[k].displayed * PerSecond + issuedAt[tick[k].token] < clock + PerSecond

\* Without a crash the creative is the session's, but for a tick between two writes.
CreativeFollows ==
    crashes = 0 =>
        /\ (\A k \in Ticks : pc[k] # "saved") => creative \in {None, session.token}
        /\ \A k \in Ticks : /\ pc[k] = "saved" => creative \in {None, tick[k].token}
                            /\ pc[k] = "cleared" => creative = None

ClientInv ==
    /\ LockExclusive /\ RedeemsSession /\ RotatesDone
    /\ IssuedBefore /\ SavedAfterIssue /\ ClaimIsElapsed
    /\ NeverTooEarly /\ CreativeFollows

\* A tick in hand of the lock is alone.
LEMMA Alone ==
    ASSUME ClientInv, NEW k \in Ticks, pc[k] \in Running
    PROVE  \A j \in Ticks \ {k} : pc[j] \notin Running
BY DEF ClientInv, LockExclusive

LEMMA WholeSeconds ==
    ASSUME TypeOK
    PROVE  /\ UnixSeconds \in Nat
           /\ UnixSeconds * PerSecond <= clock
           /\ clock < UnixSeconds * PerSecond + PerSecond
BY SessionAssumption DEF UnixSeconds, TypeOK

\* The wall clock of the client does not run backwards.
LEMMA SecondsGrow ==
    ASSUME TypeOK, clock' = clock + 1
    PROVE  UnixSeconds' \in Nat /\ UnixSeconds <= UnixSeconds'
<1>. DEFINE u == UnixSeconds
            v == UnixSeconds'
            P == PerSecond
<1>1. P \in Nat \ {0} /\ clock \in Nat
  BY SessionAssumption DEF TypeOK
<1>2. u \in Nat /\ u * P <= clock
  BY WholeSeconds
<1>3. v \in Nat /\ clock + 1 < v * P + P
  BY <1>1, SessionAssumption DEF UnixSeconds
<1>. HIDE DEF u, v, P
<1>4. ASSUME v < u PROVE FALSE
  <2>1. (v + 1) * P <= u * P
    <3>1. (u - v - 1) * P >= 0
      BY <1>1, <1>2, <1>3, <1>4
    <3>. QED BY <1>1, <1>2, <1>3, <3>1
  <2>. QED BY <1>1, <1>2, <1>3, <2>1
<1>. QED BY <1>2, <1>3, <1>4 DEF u, v

\* A claim within what elapsed and the rounding of the client is credited in full:
\* the server's allowance covers the rounding.
LEMMA ClaimIsCredited ==
    ASSUME NEW issued \in Nat, NEW now \in Nat, NEW displayed \in Nat,
           MinDwell <= displayed, displayed * PerSecond + issued < now + PerSecond
    PROVE  EffectiveDwell(issued, now, displayed * PerSecond) >= MinDwell * PerSecond
<1>. DEFINE claim == displayed * PerSecond
            least == MinDwell * PerSecond
<1>1. claim \in Nat /\ least \in Nat /\ PerSecond \in Nat
  BY SessionAssumption
<1>2. least <= claim
  <2>1. (displayed - MinDwell) * PerSecond >= 0
    BY SessionAssumption
  <2>. QED BY <2>1, SessionAssumption
<1>. HIDE DEF claim, least
<1>3. claim + issued < now + PerSecond
  BY DEF claim
<1>4. claim <= now - issued + Skew
  BY <1>1, <1>3, SkewAssumption, RateAssumption
<1>5. EffectiveDwell(issued, now, claim) = claim
  BY <1>1, <1>4, RateAssumption DEF EffectiveDwell, Lesser, Greater
<1>. QED BY <1>1, <1>2, <1>5 DEF claim, least

(***************************************************************************)
(* The steps.                                                              *)
(***************************************************************************)

\* Steps that change no file but by dropping the creative, and bring no tick
\* further: spawning, locking, probing, giving up.
LEMMA QuietKeepsClientInv ==
    ASSUME TypeOK, ClientInv,
           UNCHANGED <<clock, session, server, answered, crashes>>,
           creative' \in {creative, None},
           \A j, k \in Ticks : pc'[j] \in Running /\ pc'[k] \in Running => j = k,
           \A k \in Ticks :
               /\ pc'[k] \in Redeeming => /\ pc[k] \in Redeeming
                                           /\ tick'[k].token = tick[k].token
                                           /\ tick'[k].displayed = tick[k].displayed
               /\ pc'[k] \in Rotating => pc[k] \in Rotating
               /\ pc[k] = "saved" => pc'[k] = "saved"
               /\ pc'[k] = "saved" => pc[k] = "saved" /\ tick'[k] = tick[k]
               /\ pc'[k] = "cleared" => pc[k] = "cleared"
    PROVE  ClientInv'
<1>. USE DEF ClientInv, server
<1>1. LockExclusive'
  BY DEF LockExclusive
<1>2. RedeemsSession'
  BY DEF RedeemsSession
<1>3. Age' = Age
  BY DEF Age, UnixSeconds
<1>4. RotatesDone'
  BY <1>3 DEF RotatesDone, Done
<1>5. IssuedBefore' /\ SavedAfterIssue' /\ NeverTooEarly'
  BY DEF IssuedBefore, SavedAfterIssue, NeverTooEarly
<1>6. ClaimIsElapsed'
  BY DEF ClaimIsElapsed
<1>7. CreativeFollows'
  BY DEF CreativeFollows
<1>. QED BY <1>1, <1>2, <1>4, <1>5, <1>6, <1>7

\* Steps of the tick in hand of the lock: what no file and no clock disturbs is
\* left to show for that tick.
LEMMA HolderFrame ==
    ASSUME TypeOK, ClientInv, NEW k \in Ticks, pc[k] \in Running,
           \A j \in Ticks \ {k} : pc'[j] = pc[j]
    PROVE  /\ \A j \in Ticks \ {k} : pc[j] \notin Running /\ pc'[j] \notin Running
           /\ LockExclusive'
           /\ \A j \in Ticks : pc'[j] \in Redeeming \cup Rotating => j = k
<1>1. \A j \in Ticks \ {k} : pc[j] \notin Running /\ pc'[j] \notin Running
  BY Alone
<1>2. LockExclusive'
  BY <1>1 DEF LockExclusive
<1>3. Redeeming \cup Rotating \subseteq Running
  BY DEF Redeeming, Rotating, Running
<1>. QED BY <1>1, <1>2, <1>3

\* The load decides what the tick may do with the session.
LEMMA LoadKeepsClientInv ==
    ASSUME TypeOK, ClientInv, NEW k \in Ticks, LoadStale(k) \/ LoadDue(k)
    PROVE  ClientInv'
<1>1. /\ pc[k] = "online" /\ UNCHANGED <<clock, files, server, answered, crashes>>
      /\ \A j \in Ticks \ {k} : pc'[j] = pc[j] /\ tick'[j] = tick[j]
  BY DEF LoadStale, LoadDue, Goto, TypeOK
<1>2. /\ LockExclusive'
      /\ \A j \in Ticks : pc'[j] \in Redeeming \cup Rotating => j = k
      /\ \A j \in Ticks \ {k} : pc[j] \notin Running /\ pc'[j] \notin Running
  BY <1>1, HolderFrame DEF Running
<1>3. Age' = Age
  BY <1>1 DEF Age, UnixSeconds, files
<1>4. IssuedBefore' /\ SavedAfterIssue' /\ NeverTooEarly'
  BY <1>1 DEF ClientInv, IssuedBefore, SavedAfterIssue, NeverTooEarly, files, server
<1>5. CreativeFollows'
  <2>1. \A j \in Ticks : pc[j] # "saved" /\ pc'[j] # "saved" /\ pc'[j] # "cleared"
    BY <1>1, <1>2 DEF Running, LoadStale, LoadDue, Goto, TypeOK
  <2>. QED BY <1>1, <2>1 DEF ClientInv, CreativeFollows, files
<1>6. CASE LoadStale(k)
  <2>1. pc'[k] = "rotate" /\ Done
    BY <1>6 DEF LoadStale, Goto, TypeOK, Done
  <2>2. Done'
    BY <1>1, <1>3, <2>1 DEF Done, files
  <2>3. \A j \in Ticks : pc'[j] \notin Redeeming
    BY <1>2, <2>1 DEF Redeeming, Rotating
  <2>. QED BY <1>2, <1>4, <1>5, <2>2, <2>3
            DEF ClientInv, RotatesDone, RedeemsSession, ClaimIsElapsed
<1>7. CASE LoadDue(k)
  <2>1. /\ pc'[k] = "redeem" /\ tick'[k].token = session.token /\ tick'[k].displayed = Age
        /\ session.token # None /\ MinDwell <= Age
    BY <1>7, SessionAssumption DEF LoadDue, Goto, TypeOK
  <2>2. \A j \in Ticks : pc'[j] \notin Rotating
    BY <1>2, <2>1 DEF Redeeming, Rotating
  <2>3. tick'[k].displayed * PerSecond + issuedAt[session.token] < clock + PerSecond
    <3>1. /\ session.at \in Nat /\ clock \in Nat /\ PerSecond \in Nat
          /\ issuedAt[session.token] \in Nat
      BY <2>1, SessionAssumption DEF TypeOK, Session
    <3>2. UnixSeconds \in Nat /\ UnixSeconds * PerSecond <= clock
      BY WholeSeconds
    <3>3. issuedAt[session.token] < session.at * PerSecond + PerSecond
      BY <2>1 DEF ClientInv, SavedAfterIssue
    <3>4. Age * PerSecond = UnixSeconds * PerSecond - session.at * PerSecond
      BY <3>1, <3>2 DEF Age
    <3>. DEFINE a == Age * PerSecond
                u == UnixSeconds * PerSecond
                s == session.at * PerSecond
    <3>5. u \in Int /\ s \in Int /\ a = u - s /\ u <= clock
          /\ issuedAt[session.token] < s + PerSecond
      BY <3>1, <3>2, <3>3, <3>4
    <3>6. a + issuedAt[session.token] < clock + PerSecond
      <4>. HIDE DEF a, u, s
      <4>. QED BY <3>1, <3>5
    <3>. QED BY <2>1, <3>6
  <2>4. RedeemsSession'
    BY <1>1, <1>2, <2>1 DEF RedeemsSession, files
  <2>5. ClaimIsElapsed'
    BY <1>1, <1>2, <2>1, <2>3 DEF ClaimIsElapsed, server
  <2>. QED BY <1>2, <1>4, <1>5, <2>2, <2>4, <2>5 DEF ClientInv, RotatesDone
<1>. QED BY <1>6, <1>7

\* The server credits the whole claim, so that it never answers "dwell_unmet".
LEMMA RedeemKeepsClientInv ==
    ASSUME TypeOK, ClientInv, NEW k \in Ticks, Redeem(k)
    PROVE  ClientInv'
<1>. DEFINE t == tick[k].token
            displayed == tick[k].displayed
<1>1. /\ pc[k] = "redeem" /\ pc'[k] = "answering" /\ tick' = tick
      /\ UNCHANGED <<clock, files, issuedAt, answered, crashes>>
      /\ \A j \in Ticks \ {k} : pc'[j] = pc[j]
  BY DEF Redeem, Goto, TypeOK
<1>2. /\ LockExclusive'
      /\ \A j \in Ticks : pc'[j] \in Redeeming \cup Rotating => j = k
      /\ \A j \in Ticks \ {k} : pc[j] \notin Running /\ pc'[j] \notin Running
  BY <1>1, HolderFrame DEF Running
<1>3. RedeemsSession' /\ ClaimIsElapsed' /\ RotatesDone'
  BY <1>1, <1>2 DEF ClientInv, RedeemsSession, ClaimIsElapsed, RotatesDone,
                    Redeeming, Rotating, files
<1>4. IssuedBefore' /\ SavedAfterIssue'
  BY <1>1 DEF ClientInv, IssuedBefore, SavedAfterIssue, files
<1>5. CreativeFollows'
  <2>1. \A j \in Ticks : pc[j] # "saved" /\ pc'[j] # "saved" /\ pc'[j] # "cleared"
    BY <1>1, <1>2 DEF Running
  <2>. QED BY <1>1, <2>1 DEF ClientInv, CreativeFollows, files
<1>6. NeverTooEarly'
  <2>1. /\ t \in Tokens /\ issuedAt[t] \in Nat /\ clock \in Nat /\ displayed \in Nat
    BY <1>1, SessionAssumption DEF TypeOK, Work
  <2>2. MinDwell <= displayed /\ displayed * PerSecond + issuedAt[t] < clock + PerSecond
    BY <1>1 DEF ClientInv, ClaimIsElapsed, Redeeming
  <2>3. ServerDwell(t, displayed) >= MinDwell * PerSecond
    BY <2>1, <2>2, ClaimIsCredited DEF ServerDwell
  <2>4. ServerDwell(t, displayed) \in Int /\ MinDwell * PerSecond \in Int
    BY <2>1, SessionAssumption, RateAssumption DEF ServerDwell, EffectiveDwell, Lesser, Greater
  <2>5. ~(ServerDwell(t, displayed) < MinDwell * PerSecond)
    <3>. DEFINE d == ServerDwell(t, displayed)
                m == MinDwell * PerSecond
    <3>1. d >= m /\ d \in Int /\ m \in Int
      BY <2>3, <2>4
    <3>. HIDE DEF d, m
    <3>2. ~(d < m)
      BY <3>1
    <3>. QED BY <3>2 DEF d, m
  <2>6. PICK settled \in {"recorded", "denied"} :
          outcome' = [outcome EXCEPT ![t] =
              CASE @ = "recorded"                -> @
                [] clock > issuedAt[t] + Ttl * PerSecond -> "expired"
                [] ServerDwell(t, displayed) < MinDwell * PerSecond -> "dwell_unmet"
                [] OTHER                         -> settled]
    BY DEF Redeem
  <2>7. outcome'[t] # "dwell_unmet" /\ \A u \in Tokens \ {t} : outcome'[u] = outcome[u]
    <3>. HIDE DEF displayed
    <3>. QED BY <2>1, <2>5, <2>6 DEF TypeOK
  <2>. QED BY <2>7 DEF ClientInv, NeverTooEarly
<1>. QED BY <1>2, <1>3, <1>4, <1>5, <1>6 DEF ClientInv

LEMMA AnswerKeepsClientInv ==
    ASSUME TypeOK, ClientInv, NEW k \in Ticks, RedeemAnswered(k)
    PROVE  ClientInv'
<1>1. /\ pc[k] = "answering" /\ pc'[k] = "rotate" /\ tick' = tick
      /\ UNCHANGED <<clock, files, server, crashes>>
      /\ answered' = answered \cup {tick[k].token}
      /\ \A j \in Ticks \ {k} : pc'[j] = pc[j]
  BY DEF RedeemAnswered, Goto, TypeOK
<1>2. /\ LockExclusive'
      /\ \A j \in Ticks : pc'[j] \in Redeeming \cup Rotating => j = k
      /\ \A j \in Ticks \ {k} : pc[j] \notin Running /\ pc'[j] \notin Running
  BY <1>1, HolderFrame DEF Running
<1>3. session.token \in answered'
  BY <1>1 DEF ClientInv, RedeemsSession, Redeeming
<1>4. RotatesDone'
  BY <1>1, <1>3 DEF RotatesDone, Done, files
<1>5. \A j \in Ticks : pc'[j] \notin Redeeming
  BY <1>1, <1>2 DEF Redeeming, Rotating
<1>6. RedeemsSession' /\ ClaimIsElapsed'
  BY <1>5 DEF RedeemsSession, ClaimIsElapsed
<1>7. IssuedBefore' /\ SavedAfterIssue' /\ NeverTooEarly'
  BY <1>1 DEF ClientInv, IssuedBefore, SavedAfterIssue, NeverTooEarly, files, server
<1>8. CreativeFollows'
  <2>1. \A j \in Ticks : pc[j] # "saved" /\ pc'[j] # "saved" /\ pc'[j] # "cleared"
    BY <1>1, <1>2 DEF Running
  <2>. QED BY <1>1, <2>1 DEF ClientInv, CreativeFollows, files
<1>. QED BY <1>2, <1>4, <1>6, <1>7, <1>8 DEF ClientInv

\* A rotation in progress: the holder moves on within Rotating, or lets go.
LEMMA RotationFrame ==
    ASSUME TypeOK, ClientInv, NEW k \in Ticks, pc[k] \in Rotating,
           pc'[k] \in Rotating \cup {"idle"},
           \A j \in Ticks \ {k} : pc'[j] = pc[j]
    PROVE  /\ \A j \in Ticks \ {k} : pc[j] \notin Running /\ pc'[j] \notin Running
           /\ LockExclusive' /\ RedeemsSession' /\ ClaimIsElapsed'
<1>1. /\ LockExclusive'
      /\ \A j \in Ticks : pc'[j] \in Redeeming \cup Rotating => j = k
      /\ \A j \in Ticks \ {k} : pc[j] \notin Running /\ pc'[j] \notin Running
  BY HolderFrame DEF Running, Rotating
<1>2. \A j \in Ticks : pc'[j] \notin Redeeming
  BY <1>1 DEF Redeeming, Rotating
<1>. QED BY <1>1, <1>2 DEF RedeemsSession, ClaimIsElapsed

LEMMA BeginKeepsClientInv ==
    ASSUME TypeOK, ClientInv, NEW k \in Ticks, Begin(k)
    PROVE  ClientInv'
<1>1. /\ pc[k] = "rotate" /\ pc'[k] = "begun"
      /\ UNCHANGED <<clock, files, outcome, answered, crashes>>
      /\ \A j \in Ticks \ {k} : pc'[j] = pc[j]
  BY DEF Begin, Goto, TypeOK
<1>2. /\ \A j \in Ticks \ {k} : pc[j] \notin Running /\ pc'[j] \notin Running
      /\ LockExclusive' /\ RedeemsSession' /\ ClaimIsElapsed'
  BY <1>1, RotationFrame DEF Rotating
<1>3. PICK t \in Tokens : issuedAt[t] = None /\ issuedAt' = [issuedAt EXCEPT ![t] = clock]
  BY DEF Begin, Unissued
<1>4. IssuedBefore'
  BY <1>1, <1>3 DEF ClientInv, IssuedBefore, TypeOK
<1>5. SavedAfterIssue'
  <2>1. session.token # None => session.token # t
    BY <1>3 DEF TypeOK
  <2>2. session.token # None => issuedAt'[session.token] = issuedAt[session.token]
    BY <1>3, <2>1 DEF TypeOK, Session
  <2>. QED BY <1>1, <2>2 DEF ClientInv, SavedAfterIssue, files
<1>6. RotatesDone' /\ NeverTooEarly'
  BY <1>1, <1>2 DEF ClientInv, RotatesDone, Done, Age, UnixSeconds, NeverTooEarly, files, Rotating, Running
<1>7. CreativeFollows'
  <2>1. \A j \in Ticks : pc[j] # "saved" /\ pc'[j] # "saved" /\ pc'[j] # "cleared"
    BY <1>1, <1>2 DEF Running
  <2>. QED BY <1>1, <2>1 DEF ClientInv, CreativeFollows, files
<1>. QED BY <1>2, <1>4, <1>5, <1>6, <1>7 DEF ClientInv

\* The creative is written, or dropped, ahead of the session.
LEMMA CreativeKeepsClientInv ==
    ASSUME TypeOK, ClientInv, NEW k \in Ticks, ClearCreative(k) \/ SaveCreative(k)
    PROVE  ClientInv'
<1>1. /\ pc[k] \in {"begun", "empty"} /\ pc'[k] \in {"saved", "cleared"} /\ tick' = tick
      /\ UNCHANGED <<clock, session, server, answered, crashes>>
      /\ \A j \in Ticks \ {k} : pc'[j] = pc[j]
  BY DEF ClearCreative, SaveCreative, Goto, TypeOK
<1>2. /\ \A j \in Ticks \ {k} : pc[j] \notin Running /\ pc'[j] \notin Running
      /\ LockExclusive' /\ RedeemsSession' /\ ClaimIsElapsed'
  BY <1>1, RotationFrame DEF Rotating
<1>3. IssuedBefore' /\ SavedAfterIssue' /\ NeverTooEarly'
  BY <1>1 DEF ClientInv, IssuedBefore, SavedAfterIssue, NeverTooEarly, server
<1>4. RotatesDone'
  BY <1>1, <1>2 DEF ClientInv, RotatesDone, Done, Age, UnixSeconds, Rotating, Running
<1>5. CreativeFollows'
  <2>1. \A j \in Ticks \ {k} : pc'[j] # "saved" /\ pc'[j] # "cleared"
    BY <1>2 DEF Running
  <2>2. CASE ClearCreative(k)
    BY <2>1, <2>2 DEF CreativeFollows, ClearCreative, Goto, TypeOK
  <2>3. CASE SaveCreative(k)
    <3>1. pc'[k] = "saved" /\ creative' = tick'[k].token
      BY <2>3 DEF SaveCreative, Goto, TypeOK
    <3>. QED BY <2>1, <3>1 DEF CreativeFollows
  <2>. QED BY <2>2, <2>3
<1>. QED BY <1>2, <1>3, <1>4, <1>5 DEF ClientInv

\* The session follows its creative, and starts to count.
LEMMA SessionKeepsClientInv ==
    ASSUME TypeOK, ClientInv, NEW k \in Ticks, ClearSession(k) \/ SaveSession(k)
    PROVE  ClientInv'
<1>1. /\ pc[k] \in {"saved", "cleared"} /\ pc'[k] = "idle"
      /\ UNCHANGED <<clock, creative, server, answered, crashes>>
      /\ \A j \in Ticks \ {k} : pc'[j] = pc[j]
  BY DEF ClearSession, SaveSession, Release, Goto, TypeOK
<1>2. /\ \A j \in Ticks \ {k} : pc[j] \notin Running /\ pc'[j] \notin Running
      /\ LockExclusive' /\ RedeemsSession' /\ ClaimIsElapsed'
  BY <1>1, RotationFrame DEF Rotating
<1>3. \A j \in Ticks : pc'[j] \notin Running
  BY <1>1, <1>2 DEF Running
<1>4. IssuedBefore' /\ NeverTooEarly' /\ RotatesDone'
  BY <1>1, <1>3 DEF ClientInv, IssuedBefore, NeverTooEarly, RotatesDone, server, Rotating, Running
<1>5. SavedAfterIssue' /\ CreativeFollows'
  <2>1. CASE ClearSession(k)
    <3>1. session'.token = None /\ session'.at = 0 /\ (crashes = 0 => creative = None)
      BY <2>1 DEF ClearSession, Empty, ClientInv, CreativeFollows
    <3>2. clock \in Nat /\ PerSecond \in Nat
      BY SessionAssumption DEF TypeOK
    <3>3. SavedAfterIssue'
      BY <1>1, <3>1, <3>2 DEF SavedAfterIssue
    <3>4. CreativeFollows'
      BY <1>1, <1>3, <3>1 DEF CreativeFollows, Running
    <3>. QED BY <3>3, <3>4
  <2>2. CASE SaveSession(k)
    <3>1. /\ session' = [token |-> tick[k].token, at |-> UnixSeconds]
          /\ tick[k].token \in Tokens /\ issuedAt[tick[k].token] # None
          /\ crashes = 0 => creative \in {None, tick[k].token}
      BY <2>2 DEF SaveSession, TypeOK, Work, ClientInv, CreativeFollows
    <3>2. issuedAt[tick[k].token] \in Nat /\ issuedAt[tick[k].token] <= clock /\ clock \in Nat
      BY <3>1, SessionAssumption DEF TypeOK, ClientInv, IssuedBefore
    <3>3. SavedAfterIssue'
      <4>. DEFINE u == UnixSeconds
                  n == u * PerSecond
      <4>1. /\ n <= clock /\ clock < n + PerSecond
            /\ n \in Nat /\ PerSecond \in Nat
        BY WholeSeconds, SessionAssumption
      <4>. HIDE DEF n
      <4>2. issuedAt[tick[k].token] < n + PerSecond
        BY <3>2, <4>1
      <4>. HIDE DEF u
      <4>3. session'.at = u /\ session'.token = tick[k].token
        BY <3>1 DEF u
      <4>. QED BY <1>1, <4>1, <4>2, <4>3 DEF SavedAfterIssue, server, n
    <3>4. CreativeFollows'
      BY <1>1, <1>3, <3>1 DEF CreativeFollows, Running
    <3>. QED BY <3>3, <3>4
  <2>. QED BY <1>1, <2>1, <2>2
<1>. QED BY <1>2, <1>4, <1>5 DEF ClientInv

\* A tick that dies lets go of the lock; of the creative nothing is promised after.
LEMMA CrashKeepsClientInv ==
    ASSUME TypeOK, ClientInv, NEW k \in Ticks, Crash(k)
    PROVE  ClientInv'
<1>1. /\ crashes' # 0 /\ pc'[k] = "idle"
      /\ UNCHANGED <<clock, files, server, answered>>
      /\ \A j \in Ticks \ {k} : pc'[j] = pc[j] /\ tick'[j] = tick[j]
  BY SessionAssumption DEF Crash, Release, Goto, TypeOK
<1>2. LockExclusive' /\ RedeemsSession' /\ ClaimIsElapsed'
  BY <1>1 DEF ClientInv, LockExclusive, RedeemsSession, ClaimIsElapsed, Running, Redeeming,
              files, server
<1>3. RotatesDone'
  BY <1>1 DEF ClientInv, RotatesDone, Done, Age, UnixSeconds, Rotating, files
<1>4. IssuedBefore' /\ SavedAfterIssue' /\ NeverTooEarly'
  BY <1>1 DEF ClientInv, IssuedBefore, SavedAfterIssue, NeverTooEarly, files, server
<1>5. CreativeFollows'
  BY <1>1 DEF CreativeFollows
<1>. QED BY <1>2, <1>3, <1>4, <1>5 DEF ClientInv

\* Time only makes tokens older and claims truer.
LEMMA WaitKeepsClientInv ==
    ASSUME TypeOK, ClientInv, Wait
    PROVE  ClientInv'
<1>1. /\ clock' = clock + 1 /\ clock \in Nat
      /\ UNCHANGED <<files, pc, tick, server, answered, crashes>>
  BY SessionAssumption DEF Wait, TypeOK
<1>2. LockExclusive' /\ RedeemsSession' /\ NeverTooEarly' /\ CreativeFollows'
  BY <1>1 DEF ClientInv, LockExclusive, RedeemsSession, NeverTooEarly, CreativeFollows,
              files, server
<1>3. Done => Done'
  <2>1. UnixSeconds \in Nat /\ UnixSeconds' \in Nat /\ UnixSeconds <= UnixSeconds'
    BY <1>1, WholeSeconds, SecondsGrow
  <2>2. session.at \in Nat /\ MaxAge \in Nat
    BY SessionAssumption DEF TypeOK, Session
  <2>3. Age > MaxAge => Age' > MaxAge
    <3>. HIDE DEF UnixSeconds
    <3>. QED BY <1>1, <2>1, <2>2 DEF Age, files
  <2>. QED BY <1>1, <2>3 DEF Done, files
<1>4. RotatesDone'
  BY <1>1, <1>3 DEF ClientInv, RotatesDone
<1>5. IssuedBefore'
  BY <1>1 DEF ClientInv, IssuedBefore, TypeOK, server
<1>6. SavedAfterIssue'
  <2>. DEFINE n == session.at * PerSecond
  <2>1. n \in Nat /\ n <= clock
    BY SessionAssumption DEF TypeOK, Session, ClientInv, SavedAfterIssue
  <2>2. n <= clock'
    <3>. HIDE DEF n
    <3>. QED BY <1>1, <2>1
  <2>. QED BY <1>1, <2>2 DEF ClientInv, SavedAfterIssue, files, server
<1>7. ClaimIsElapsed'
  <2>. SUFFICES ASSUME NEW k \in Ticks, pc[k] \in Redeeming
                PROVE  /\ MinDwell <= tick[k].displayed
                       /\ tick[k].displayed * PerSecond + issuedAt[tick[k].token]
                              < clock' + PerSecond
    BY <1>1 DEF ClaimIsElapsed, server
  <2>. DEFINE d == tick[k].displayed * PerSecond
              i == issuedAt[tick[k].token]
  <2>1. d \in Nat /\ i \in Nat /\ PerSecond \in Nat
    BY SessionAssumption DEF TypeOK, Work, Redeeming
  <2>2. d + i < clock + PerSecond /\ MinDwell <= tick[k].displayed
    BY DEF ClientInv, ClaimIsElapsed
  <2>3. d + i < clock' + PerSecond
    <3>. HIDE DEF d, i
    <3>. QED BY <1>1, <2>1, <2>2
  <2>. QED BY <2>2, <2>3
<1>. QED BY <1>2, <1>4, <1>5, <1>6, <1>7 DEF ClientInv

(***************************************************************************)
(* The theorems.                                                           *)
(***************************************************************************)
THEOREM ClientInvariant ==
    Spec => []ClientInv
<1>. USE SessionAssumption
<1>1. Init => ClientInv
  <2>. SUFFICES ASSUME Init PROVE ClientInv
    OBVIOUS
  <2>1. LockExclusive /\ RedeemsSession /\ RotatesDone /\ ClaimIsElapsed
    BY DEF Init, LockExclusive, RedeemsSession, RotatesDone, ClaimIsElapsed,
           Running, Redeeming, Rotating
  <2>2. IssuedBefore /\ NeverTooEarly /\ CreativeFollows
    BY DEF Init, IssuedBefore, NeverTooEarly, CreativeFollows
  <2>3. SavedAfterIssue
    BY DEF Init, Empty, SavedAfterIssue
  <2>. QED BY <2>1, <2>2, <2>3 DEF ClientInv
<1>2. TypeOK /\ ClientInv /\ [Next]_vars => ClientInv'
  <2>. SUFFICES ASSUME TypeOK, ClientInv, [Next]_vars PROVE ClientInv'
    OBVIOUS
  <2>. USE DEF files, Redeeming, Rotating, Running
  <2>1. ASSUME NEW k \in Ticks, Prompt(k) PROVE ClientInv'
    <3>1. LockExclusive'
      BY <2>1 DEF Prompt, Goto, TypeOK, ClientInv, LockExclusive
    <3>. QED BY <2>1, <3>1, QuietKeepsClientInv DEF Prompt, Goto, TypeOK, LockExclusive
  <2>2. ASSUME NEW k \in Ticks, AcquireTickLock(k) PROVE ClientInv'
    <3>1. LockExclusive'
      BY <2>2 DEF AcquireTickLock, TickLockFree, Goto, TypeOK, ClientInv, LockExclusive
    <3>. QED BY <2>2, <3>1, QuietKeepsClientInv DEF AcquireTickLock, Goto, TypeOK, LockExclusive
  <2>3. ASSUME NEW k \in Ticks, Probe(k) \/ BeginEmpty(k) PROVE ClientInv'
    <3>1. LockExclusive'
      BY <2>3 DEF Probe, BeginEmpty, Goto, TypeOK, ClientInv, LockExclusive
    <3>. QED BY <2>3, <3>1, QuietKeepsClientInv DEF Probe, BeginEmpty, Goto, TypeOK, LockExclusive
  <2>4. ASSUME NEW k \in Ticks, Unregistered(k) \/ LoadEarly(k) \/ BeginLost(k)
        PROVE  ClientInv'
    <3>1. /\ UNCHANGED <<clock, network, files, server, answered, crashes>>
          /\ pc[k] \in {"online", "rotate", "begun", "empty"} /\ pc'[k] = "idle"
          /\ \A j \in Ticks \ {k} : pc'[j] = pc[j] /\ tick'[j] = tick[j]
      BY <2>4 DEF Unregistered, LoadEarly, BeginLost, Release, Goto, TypeOK
    <3>2. LockExclusive'
      BY <3>1 DEF ClientInv, LockExclusive
    <3>. QED BY <3>1, <3>2, QuietKeepsClientInv DEF LockExclusive
  <2>5. ASSUME NEW k \in Ticks, RedeemLost(k) PROVE ClientInv'
    <3>1. /\ UNCHANGED <<clock, network, files, server, answered, crashes>>
          /\ pc[k] \in {"redeem", "answering"} /\ pc'[k] \in {"redeem", "idle"}
          /\ \A j \in Ticks \ {k} : pc'[j] = pc[j] /\ tick'[j] = tick[j]
          /\ pc'[k] = "redeem" => /\ tick'[k].token = tick[k].token
                                  /\ tick'[k].displayed = tick[k].displayed
      BY <2>5 DEF RedeemLost, Release, Goto, TypeOK, Work
    <3>2. LockExclusive'
      BY <3>1 DEF ClientInv, LockExclusive
    <3>. QED BY <3>1, <3>2, QuietKeepsClientInv DEF LockExclusive
  <2>6. CASE TurnOff \/ TurnOn \/ ChangeNetwork \/ UNCHANGED vars
    <3>1. /\ UNCHANGED <<clock, session, pc, tick, server, answered, crashes>>
          /\ creative' \in {creative, None}
      BY <2>6 DEF TurnOff, TurnOn, ChangeNetwork, vars
    <3>. QED BY <3>1, QuietKeepsClientInv DEF ClientInv, LockExclusive
  <2>. QED
    BY <2>1, <2>2, <2>3, <2>4, <2>5, <2>6, LoadKeepsClientInv, RedeemKeepsClientInv,
       AnswerKeepsClientInv, BeginKeepsClientInv, CreativeKeepsClientInv,
       SessionKeepsClientInv, CrashKeepsClientInv, WaitKeepsClientInv DEF Next, Tick
<1>. QED BY <1>1, <1>2, ClientTypeCorrect, PTL DEF Spec

\* The server never answers "dwell_unmet" to a client that follows its own clock.
THEOREM NeverRedeemsTooEarly ==
    Spec => []NeverTooEarly
<1>1. ClientInv => NeverTooEarly
  BY DEF ClientInv
<1>. QED BY <1>1, ClientInvariant, PTL

\* At rest and without a crash, what is drawn is what is billed.
THEOREM DrawsWhatItBills ==
    Spec => []CreativeIsOfSession
<1>1. ClientInv => CreativeIsOfSession
  BY DEF ClientInv, CreativeFollows, CreativeIsOfSession, TickLockFree, Running
<1>. QED BY <1>1, ClientInvariant, PTL

\* No request that is lost, no 5xx and no crash drops an impression that is due.
THEOREM DropsOnlySettled ==
    Spec => RotatesOnlySettled
<1>1. TypeOK /\ ClientInv /\ [Next]_vars =>
        [session.token # None /\ session'.token # session.token =>
            session.token \in answered \/ Age > MaxAge]_vars
  <2>. SUFFICES ASSUME TypeOK, ClientInv, [Next]_vars,
                       session.token # None, session'.token # session.token
                PROVE  session.token \in answered \/ Age > MaxAge
    OBVIOUS
  <2>1. PICK k \in Ticks : ClearSession(k) \/ SaveSession(k)
    BY DEF Next, Tick, vars, files, Prompt, Crash, TurnOff, TurnOn, ChangeNetwork, Wait,
           AcquireTickLock, Probe, Unregistered, LoadStale, LoadEarly, LoadDue, Redeem,
           RedeemAnswered, RedeemLost, Begin, BeginEmpty, BeginLost, ClearCreative, SaveCreative
  <2>2. pc[k] \in Rotating
    BY <2>1 DEF ClearSession, SaveSession, Rotating
  <2>. QED BY <2>2 DEF ClientInv, RotatesDone, Done
<1>. QED BY <1>1, ClientInvariant, ClientTypeCorrect, PTL DEF Spec, RotatesOnlySettled

\* An answer the client rotates its session on is to a redeem that the server has
\* decided: a token is never taken for settled when its redeem never arrived, or when
\* another token's did (session.go:80-103).
AnswersAreDecisions ==
    /\ \A t \in answered : outcome[t] # "none"
    /\ \A k \in Ticks : pc[k] = "answering" => outcome[tick[k].token] # "none"

THEOREM AnsweredIsDecided == Spec => []AnswersAreDecisions
<1>1. Init => AnswersAreDecisions
  BY DEF Init, AnswersAreDecisions
<1>2. TypeOK /\ AnswersAreDecisions /\ [Next]_vars => AnswersAreDecisions'
  <2>. SUFFICES ASSUME TypeOK, AnswersAreDecisions, [Next]_vars PROVE AnswersAreDecisions'
    OBVIOUS
  <2>. DEFINE Quiet(k) == /\ UNCHANGED <<outcome, answered>>
                          /\ pc' = [pc EXCEPT ![k] = pc'[k]] /\ pc'[k] # "answering"
                          /\ \A j \in Ticks \ {k} : tick'[j] = tick[j]
  <2>1. ASSUME NEW k \in Ticks, Quiet(k) PROVE AnswersAreDecisions'
    BY <2>1 DEF AnswersAreDecisions, TypeOK
  <2>2. ASSUME NEW k \in Ticks, Redeem(k) PROVE AnswersAreDecisions'
    <3>1. tick[k].token \in Tokens
      BY <2>2 DEF TypeOK, Redeem, Work
    <3>2. /\ outcome'[tick[k].token] # "none"
          /\ \A t \in Tokens \ {tick[k].token} : outcome'[t] = outcome[t]
      BY <2>2, <3>1 DEF Redeem, TypeOK
    <3>3. /\ tick' = tick /\ answered' = answered
          /\ \A j \in Ticks \ {k} : pc'[j] = pc[j]
      BY <2>2 DEF Redeem, Goto, TypeOK
    <3>4. \A j \in Ticks : pc[j] = "answering" => tick[j].token \in Tokens
      BY DEF TypeOK, Work
    <3>. QED BY <3>1, <3>2, <3>3, <3>4 DEF AnswersAreDecisions, TypeOK
  <2>3. ASSUME NEW k \in Ticks, RedeemAnswered(k) PROVE AnswersAreDecisions'
    <3>1. outcome[tick[k].token] # "none"
      BY <2>3 DEF RedeemAnswered, AnswersAreDecisions
    <3>. QED BY <2>3, <3>1 DEF RedeemAnswered, Goto, server, AnswersAreDecisions, TypeOK
  <2>4. ASSUME NEW k \in Ticks, Prompt(k) \/ AcquireTickLock(k) \/ Probe(k) PROVE Quiet(k)
    BY <2>4 DEF Prompt, AcquireTickLock, Probe, Goto, server, TypeOK
  <2>5. ASSUME NEW k \in Ticks, Unregistered(k) \/ LoadEarly(k) \/ BeginLost(k) PROVE Quiet(k)
    BY <2>5 DEF Unregistered, LoadEarly, BeginLost, Release, Goto, server, TypeOK
  <2>6. ASSUME NEW k \in Ticks, LoadStale(k) \/ LoadDue(k) PROVE Quiet(k)
    BY <2>6 DEF LoadStale, LoadDue, Goto, server, TypeOK
  <2>7. ASSUME NEW k \in Ticks, RedeemLost(k) PROVE Quiet(k)
    BY <2>7 DEF RedeemLost, Release, Goto, server, TypeOK
  <2>8. ASSUME NEW k \in Ticks, Begin(k) \/ BeginEmpty(k) PROVE Quiet(k)
    BY <2>8 DEF Begin, BeginEmpty, Goto, server, TypeOK
  <2>9. ASSUME NEW k \in Ticks, ClearCreative(k) \/ ClearSession(k) PROVE Quiet(k)
    BY <2>9 DEF ClearCreative, ClearSession, Release, Goto, server, TypeOK
  <2>10. ASSUME NEW k \in Ticks, SaveCreative(k) \/ SaveSession(k) \/ Crash(k) PROVE Quiet(k)
    BY <2>10 DEF SaveCreative, SaveSession, Crash, Release, Goto, server, TypeOK
  <2>11. CASE TurnOff \/ TurnOn \/ ChangeNetwork \/ Wait \/ UNCHANGED vars
    BY <2>11 DEF TurnOff, TurnOn, ChangeNetwork, Wait, vars, server, AnswersAreDecisions
  <2>. HIDE DEF Quiet
  <2>. QED
    BY <2>1, <2>2, <2>3, <2>4, <2>5, <2>6, <2>7, <2>8, <2>9, <2>10, <2>11 DEF Next, Tick
<1>. QED BY <1>1, <1>2, ClientTypeCorrect, PTL DEF Spec
===============================================================================
