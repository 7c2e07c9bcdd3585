---------------------------- MODULE ClientSession ----------------------------
(***************************************************************************)
(* The client of one device.  Every prompt draws what is cached and spawns *)
(* a detached tick; a tick that gets the file lock probes the server and   *)
(* advances the session by one step: begin, wait for the dwell, redeem.    *)
(* Ticks of several shells run at once, requests and answers are lost, the *)
(* process dies between two writes.                                        *)
(*                                                                         *)
(* Time is in units, PerSecond of them in a second, because the client     *)
(* counts whole seconds and the server does not.                           *)
(***************************************************************************)
EXTENDS Economics, FiniteSets

CONSTANTS
    Tokens,         \* impression tokens the server may issue
    Ticks,          \* tick processes alive at once
    None,
    PerSecond,
    MinDwell,       \* minDwellSeconds of every token
    MaxAge,         \* tokenMaxAgeSeconds
    Ttl,            \* impressionTokenTtlSeconds
    Attempts,       \* redeems one tick tries
    MaxClock,       \* bound: the clock
    MaxCrashes      \* bound: ticks killed

ASSUME SessionAssumption ==
    /\ PerSecond \in Nat \ {0}
    /\ MinDwell \in Nat /\ MaxAge \in Nat /\ Ttl \in Nat
    /\ Attempts \in Nat \ {0}
    /\ MaxClock \in Nat /\ MaxCrashes \in Nat
    /\ None \notin Tokens /\ None \notin Nat

\* The server allows for at least what the client's whole seconds hide: the allowance
\* is a second, Skew = PerSecond.
ASSUME SkewAssumption == PerSecond <= Skew + 1

VARIABLES
    clock,
    network,    \* the server can be reached
    session,    \* the session file: the token and when the client got it
    creative,   \* the creative cache, named by the token it came with
    enabled,    \* the toggle of earnd on and off
    pc, tick,   \* where each tick is; its token, its attempts left, its claim
    issuedAt,   \* server: when each token was signed
    outcome,    \* server: what became of each token
    answered,   \* tokens whose redeem the client has an answer for
    crashes

files  == <<session, creative, enabled>>
server == <<issuedAt, outcome>>
vars   == <<clock, network, files, pc, tick, server, answered, crashes>>

Session == [token: Tokens \cup {None}, at: Nat]
Empty   == [token |-> None, at |-> 0]
Work    == [token: Tokens \cup {None}, attempts: 0..Attempts, displayed: Nat]
Idle    == [token |-> None, attempts |-> 0, displayed |-> 0]

UnixSeconds == clock \div PerSecond
Goto(k, label) == pc' = [pc EXCEPT ![k] = label]

(***************************************************************************)
(* The prompt, and earnd on and off.                                       *)
(***************************************************************************)

\* render: spawn a tick, then draw the cached creative unless offline.
Prompt(k) ==
    /\ enabled
    /\ pc[k] = "idle"
    /\ Goto(k, "spawned")
    /\ UNCHANGED <<clock, network, files, tick, server, answered, crashes>>

TurnOff ==
    /\ enabled
    /\ enabled' = FALSE
    /\ creative' = None
    /\ UNCHANGED <<clock, network, session, pc, tick, server, answered, crashes>>

TurnOn ==
    /\ ~enabled
    /\ enabled' = TRUE
    /\ UNCHANGED <<clock, network, session, creative, pc, tick, server, answered, crashes>>

(***************************************************************************)
(* The tick.                                                               *)
(***************************************************************************)
Release(k) ==
    /\ Goto(k, "idle")
    /\ tick' = [tick EXCEPT ![k] = Idle]

Running == {"locked", "online", "redeem", "answering", "rotate", "begun", "empty", "saved", "cleared"}
TickLockFree == \A k \in Ticks : pc[k] \notin Running

\* Mutant: the tick does not lock.
NoTickLock(k) ==
    /\ pc[k] = "spawned"
    /\ Goto(k, "locked")
    /\ UNCHANGED <<clock, network, files, tick, server, answered, crashes>>

AcquireTickLock(k) ==
    /\ pc[k] = "spawned"
    /\ Goto(k, IF TickLockFree THEN "locked" ELSE "idle")
    /\ UNCHANGED <<clock, network, files, tick, server, answered, crashes>>

\* Offline, the tick ends here.
Probe(k) ==
    /\ pc[k] = "locked"
    /\ Goto(k, IF network THEN "online" ELSE "idle")
    /\ UNCHANGED <<clock, network, files, tick, server, answered, crashes>>

\* No identity file, and registration fails: the tick ends.
Unregistered(k) ==
    /\ pc[k] = "online"
    /\ Release(k)
    /\ UNCHANGED <<clock, network, files, server, answered, crashes>>

Age == UnixSeconds - session.at

\* No token, or one close to its expiry: a fresh auction.
LoadStale(k) ==
    /\ pc[k] = "online"
    /\ session.token = None \/ Age > MaxAge
    /\ Goto(k, "rotate")
    /\ UNCHANGED <<clock, network, files, tick, server, answered, crashes>>

\* Not shown long enough: a heartbeat, which changes nothing, and no more.
LoadEarly(k) ==
    /\ pc[k] = "online"
    /\ session.token # None /\ Age <= MaxAge /\ Age < MinDwell
    /\ Release(k)
    /\ UNCHANGED <<clock, network, files, server, answered, crashes>>

\* Mutant: an empty session is not told from an old one.
LoadWithoutToken(k) ==
    /\ pc[k] = "online"
    /\ Age >= MinDwell
    /\ Goto(k, "redeem")
    /\ tick' = [tick EXCEPT ![k] = [token |-> session.token, attempts |-> Attempts,
                                    displayed |-> Age]]
    /\ UNCHANGED <<clock, network, files, server, answered, crashes>>

LoadDue(k) ==
    /\ pc[k] = "online"
    /\ session.token # None /\ Age <= MaxAge /\ Age >= MinDwell
    /\ Goto(k, "redeem")
    /\ tick' = [tick EXCEPT ![k] = [token |-> session.token, attempts |-> Attempts,
                                    displayed |-> Age]]
    /\ UNCHANGED <<clock, network, files, server, answered, crashes>>

\* Mutant: no allowance for the rounding of the client's clock.
ExactDwell(t, displayed) == Lesser(displayed * PerSecond, clock - issuedAt[t])

\* The dwell the server credits, in units.
ServerDwell(t, displayed) == EffectiveDwell(issuedAt[t], clock, displayed * PerSecond)

\* The redeem reaches the server: replayed, expired, too early, or settled one way
\* or the other (Settlement says which).
Redeem(k) ==
    LET t == tick[k].token IN
    /\ pc[k] = "redeem" /\ network
    /\ Goto(k, "answering")
    /\ \E settled \in {"recorded", "denied"} :
          outcome' = [outcome EXCEPT ![t] =
              CASE @ = "recorded"                -> @
                [] clock > issuedAt[t] + Ttl * PerSecond -> "expired"
                [] ServerDwell(t, tick[k].displayed) < MinDwell * PerSecond -> "dwell_unmet"
                [] OTHER                         -> settled]
    /\ UNCHANGED <<clock, network, files, tick, issuedAt, answered, crashes>>

RedeemAnswered(k) ==
    /\ pc[k] = "answering"
    /\ Goto(k, "rotate")
    /\ answered' = answered \cup {tick[k].token}
    /\ UNCHANGED <<clock, network, files, tick, server, crashes>>

\* Mutant: the session rotates when the attempts are used up.
GiveUpAndRotate(k) ==
    /\ pc[k] \in {"redeem", "answering"}
    /\ IF tick[k].attempts > 1
       THEN /\ Goto(k, "redeem")
            /\ tick' = [tick EXCEPT ![k].attempts = @ - 1]
       ELSE Goto(k, "rotate") /\ UNCHANGED tick
    /\ UNCHANGED <<clock, network, files, server, answered, crashes>>

\* The request or its answer is lost, or is a 5xx: tried again at once a few times,
\* then by the next tick.
RedeemLost(k) ==
    /\ pc[k] \in {"redeem", "answering"}
    /\ IF tick[k].attempts > 1
       THEN /\ Goto(k, "redeem")
            /\ tick' = [tick EXCEPT ![k].attempts = @ - 1]
       ELSE Release(k)
    /\ UNCHANGED <<clock, network, files, server, answered, crashes>>

Unissued == {t \in Tokens : issuedAt[t] = None}

Begin(k) ==
    /\ pc[k] = "rotate" /\ network
    /\ Goto(k, "begun")
    /\ \E t \in Unissued :
          /\ issuedAt' = [issuedAt EXCEPT ![t] = clock]
          /\ tick' = [tick EXCEPT ![k] = [Idle EXCEPT !.token = t]]
    /\ UNCHANGED <<clock, network, files, outcome, answered, crashes>>

BeginEmpty(k) ==
    /\ pc[k] = "rotate" /\ network
    /\ Goto(k, "empty")
    /\ UNCHANGED <<clock, network, files, tick, server, answered, crashes>>

\* The creative and the session stay as they were.
BeginLost(k) ==
    /\ pc[k] \in {"rotate", "begun", "empty"}
    /\ Release(k)
    /\ UNCHANGED <<clock, network, files, server, answered, crashes>>

ClearCreative(k) ==
    /\ pc[k] = "empty"
    /\ creative' = None
    /\ Goto(k, "cleared")
    /\ UNCHANGED <<clock, network, session, enabled, tick, server, answered, crashes>>

ClearSession(k) ==
    /\ pc[k] = "cleared"
    /\ session' = Empty
    /\ Release(k)
    /\ UNCHANGED <<clock, network, creative, enabled, server, answered, crashes>>

SaveCreative(k) ==
    /\ pc[k] = "begun"
    /\ creative' = tick[k].token
    /\ Goto(k, "saved")
    /\ UNCHANGED <<clock, network, session, enabled, tick, server, answered, crashes>>

SaveSession(k) ==
    /\ pc[k] = "saved"
    /\ session' = [token |-> tick[k].token, at |-> UnixSeconds]
    /\ Release(k)
    /\ UNCHANGED <<clock, network, creative, enabled, server, answered, crashes>>

\* The kernel releases the lock of a tick that dies.
Crash(k) ==
    /\ pc[k] # "idle"
    /\ crashes < MaxCrashes
    /\ crashes' = crashes + 1
    /\ Release(k)
    /\ UNCHANGED <<clock, network, files, server, answered>>

ChangeNetwork ==
    /\ network' = ~network
    /\ UNCHANGED <<clock, files, pc, tick, server, answered, crashes>>

Wait ==
    /\ clock < MaxClock
    /\ clock' = clock + 1
    /\ UNCHANGED <<network, files, pc, tick, server, answered, crashes>>

(***************************************************************************)
(* The specification.                                                      *)
(***************************************************************************)
Init ==
    /\ clock = 0
    /\ network \in BOOLEAN
    /\ session = Empty
    /\ creative = None
    /\ enabled = TRUE
    /\ pc = [k \in Ticks |-> "idle"]
    /\ tick = [k \in Ticks |-> Idle]
    /\ issuedAt = [t \in Tokens |-> None]
    /\ outcome = [t \in Tokens |-> "none"]
    /\ answered = {}
    /\ crashes = 0

Tick(k) ==
    \/ AcquireTickLock(k) \/ Probe(k) \/ Unregistered(k)
    \/ LoadStale(k) \/ LoadEarly(k) \/ LoadDue(k)
    \/ Redeem(k) \/ RedeemAnswered(k) \/ RedeemLost(k)
    \/ Begin(k) \/ BeginEmpty(k) \/ BeginLost(k)
    \/ ClearCreative(k) \/ ClearSession(k) \/ SaveCreative(k) \/ SaveSession(k)

Next ==
    \/ \E k \in Ticks : Prompt(k) \/ Tick(k) \/ Crash(k)
    \/ TurnOff \/ TurnOn
    \/ ChangeNetwork \/ Wait

Spec == Init /\ [][Next]_vars

(***************************************************************************)
(* Properties.                                                             *)
(***************************************************************************)

\* Every variable has its type; a tick about to redeem has an issued token.
TypeOK ==
    /\ clock \in 0..MaxClock
    /\ network \in BOOLEAN /\ enabled \in BOOLEAN
    /\ session \in Session
    /\ creative \in Tokens \cup {None}
    /\ pc \in [Ticks -> {"idle", "spawned"} \cup Running]
    /\ tick \in [Ticks -> Work]
    /\ issuedAt \in [Tokens -> Nat \cup {None}]
    /\ outcome \in [Tokens -> {"none", "recorded", "denied", "expired", "dwell_unmet"}]
    /\ answered \subseteq Tokens
    /\ crashes \in 0..MaxCrashes
    /\ session.token # None => issuedAt[session.token] # None
    /\ \A k \in Ticks : pc[k] \in {"redeem", "answering", "begun", "saved"} =>
          tick[k].token # None /\ issuedAt[tick[k].token] # None

\* A token leaves the session only after the server answered its redeem, or when
\* the client counts it as too old: a lost request or a 5xx never drops an
\* impression (session.go:80-84).
RotatesOnlySettled ==
    [][session.token # None /\ session'.token # session.token =>
          session.token \in answered \/ Age > MaxAge]_vars

\* What the client thinks is due, the server accepts: the client counts whole
\* seconds from when the answer came, the server exact time from when it signed,
\* and the second of skew of dwell.ts covers the difference.
NeverTooEarly == \A t \in Tokens : outcome[t] # "dwell_unmet"

\* While no tick holds the lock, the cached creative is that of the session's
\* token, or none: what the next prompt draws is what the next redeem bills.  A
\* tick killed between its two writes may leave them apart.
CreativeIsOfSession ==
    crashes = 0 /\ TickLockFree => creative \in {None, session.token}
===============================================================================
