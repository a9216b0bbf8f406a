--------------------------- MODULE DurableHistory ---------------------------
(***************************************************************************)
(* What a store without audit records promises its callers, without a word *)
(* on frames, markers, checkpoints or replay.  Calls take effect one at a  *)
(* time and each as a whole; every record shows the newest of the calls    *)
(* that are visible.  A restart takes no visible call away; a power loss   *)
(* takes only calls that are not stable.  Neither brings back an           *)
(* acknowledged call that is gone, but either may show one that was never  *)
(* acknowledged.                                                           *)
(***************************************************************************)
EXTENDS Naturals, Sequences, FiniteSetsExt

CONSTANT Keys

VARIABLES
    immediate, \* an acknowledged call is stable at once
    calls,     \* every call: the records it writes and its answer
    visible,   \* the calls in effect
    stable,    \* those of them no crash may take
    shown      \* per record: the call it shows

vars == << immediate, calls, visible, stable, shown >>

\* What the records show when the calls in seen are in effect.
Newest(cs, seen) == [k \in Keys |-> Max({0} \cup {i \in seen : k \in cs[i].keys})]

Acknowledged(cs) == {i \in DOMAIN cs : cs[i].answer = "ok"}

Init ==
    /\ immediate \in BOOLEAN
    /\ calls = << >>
    /\ visible = {}
    /\ stable = {}
    /\ shown = [k \in Keys |-> 0]

Begin ==
    /\ \E keys \in SUBSET Keys \ {{}} :
          calls' = Append(calls, [keys |-> keys, answer |-> "none"])
    /\ UNCHANGED << immediate, visible, stable, shown >>

TakeEffect(i) ==
    /\ calls[i].answer = "none"
    /\ \A j \in visible : j < i
    /\ visible' = visible \cup {i}
    /\ shown' = Newest(calls, visible')
    /\ UNCHANGED << immediate, calls, stable >>

\* A barrier makes calls stable that are visible and acknowledged.
Barrier ==
    /\ stable \subseteq stable'
    /\ stable' \subseteq stable \cup (visible \cap Acknowledged(calls'))

Answer(i, a) ==
    /\ calls[i].answer = "none"
    /\ calls' = [calls EXCEPT ![i].answer = a]
    /\ UNCHANGED << immediate, visible, shown >>

Acknowledge(i) ==
    /\ i \in visible
    /\ Answer(i, "ok")
    /\ Barrier
    /\ immediate => i \in stable'

\* An error says nothing: the call may be in effect, and may come into effect
\* at a restart.
Refuse(i) == Answer(i, "error") /\ UNCHANGED stable

Secure == Barrier /\ UNCHANGED << immediate, calls, visible, shown >>

\* After a crash: what is kept, and nothing acknowledged comes back.
Reappear(kept) ==
    /\ kept \subseteq visible'
    /\ visible' \subseteq DOMAIN calls
    /\ (visible' \ visible) \cap Acknowledged(calls) = {}
    /\ shown' = Newest(calls, visible')
    /\ UNCHANGED << immediate, calls, stable >>

Restart == Reappear(visible)

PowerLoss == Reappear(stable)

Next ==
    \/ Begin
    \/ \E i \in DOMAIN calls : TakeEffect(i) \/ Acknowledge(i) \/ Refuse(i)
    \/ Secure \/ Restart \/ PowerLoss

Spec == Init /\ [][Next]_vars
=============================================================================
