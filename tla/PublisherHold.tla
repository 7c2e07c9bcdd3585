---------------------------- MODULE PublisherHold ----------------------------
(***************************************************************************)
(* The hold of one publisher, seen over time without end.  Settlement has  *)
(* the requests and the locks that make each redemption see the counts of  *)
(* all before it; here a redemption is one step and time is in slots, and  *)
(* what is kept of the impressions table is the rows of the trailing       *)
(* window, by age.  The audit score of the publisher is never read back    *)
(* and left out.                                                           *)
(***************************************************************************)
EXTENDS Economics, FiniteSetsExt

CONSTANTS
    Hour, SivtWindow    \* the trailing windows, in slots; the hour is not the longer

VARIABLES
    rows,       \* rows[a]: how many impressions of age a were billed, and held
    habit       \* what the publisher does: "busy", "calm" (under the soft band), "away"

vars == <<rows, habit>>

Ages == 0..SivtWindow

Total(age) == rows[age].valid + rows[age].sivt
PublisherRecent == MapThenSumSet(Total, 0..Hour)

\* The held rows of the window, which is what decays.
RecentSivt == MapThenSumSet(LAMBDA age : rows[age].sivt, Ages)

Flagged == RecentSivt >= SivtThreshold

\* One device per redemption: only the publisher's counts matter.
Verdict == Classify(0, PublisherRecent, RecentSivt, 0, 0)

Redeem ==
    /\ habit = "busy" \/ (habit = "calm" /\ PublisherRecent < SoftPerPublisher)
    /\ ~OverCeiling(0, PublisherRecent)
    /\ IF Verdict = "valid"
       THEN rows' = [rows EXCEPT ![0].valid = @ + 1]
       ELSE rows' = [rows EXCEPT ![0].sivt = @ + 1]
    /\ UNCHANGED habit

\* A slot passes; what leaves the window no longer counts.
Elapse ==
    /\ rows' = [age \in Ages |-> IF age = 0 THEN [valid |-> 0, sivt |-> 0] ELSE rows[age - 1]]
    /\ UNCHANGED habit

ChangeHabit ==
    /\ habit' \in {"busy", "calm", "away"}
    /\ UNCHANGED rows

Init ==
    /\ rows = [age \in Ages |-> [valid |-> 0, sivt |-> 0]]
    /\ habit \in {"busy", "calm", "away"}

Next == Redeem \/ Elapse \/ ChangeHabit

\* Time passes.
Spec == Init /\ [][Next]_vars /\ WF_vars(Elapse)

(***************************************************************************)
(* Properties.                                                             *)
(***************************************************************************)

\* packages/contracts/src/config.ts:75-79: the hold "is reversible (it decays), not a
\* permanent denial-of-earnings": a publisher who stays under the soft band is free
\* again in the end.
HoldDecays == (<>[](habit = "calm")) => <>[]~Flagged
===============================================================================
