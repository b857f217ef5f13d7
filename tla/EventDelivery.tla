---------------------------- MODULE EventDelivery ----------------------------
(***************************************************************************)
(* What the outbox relay and the consumer loop each promise of the events  *)
(* that pass through them, as if there were no batches, locks, retries,    *)
(* offsets, rebalances or rolled back transactions: at-least-once delivery *)
(* with a way out.                                                         *)
(*                                                                         *)
(* An event that was emitted is delivered, perhaps several times, or given *)
(* up, after those ahead of it.  It is settled only then, and for good; a  *)
(* straggler may still deliver it again, or deliver what was given up.     *)
(***************************************************************************)

CONSTANTS
    Events,     \* events that may pass
    Ahead       \* [Events -> SUBSET Events], those that go before an event

VARIABLES
    emitted,    \* events handed to the component
    delivered,  \* events that had their effect at least once
    givenUp,    \* events the component will not, or did not, deliver
    settled     \* events the component has finished with

vars == <<emitted, delivered, givenUp, settled>>

Init ==
    /\ emitted = {}
    /\ delivered = {}
    /\ givenUp = {}
    /\ settled = {}

Emit(e) ==
    /\ emitted' = emitted \cup {e}
    /\ UNCHANGED <<delivered, givenUp, settled>>

\* An event may be dealt with once it is emitted and those ahead of it were.
Due(e, passed) ==
    /\ e \in emitted
    /\ Ahead[e] \subseteq passed

Deliver(e) ==
    /\ Due(e, delivered \cup givenUp)
    /\ delivered' = delivered \cup {e}
    /\ UNCHANGED <<emitted, givenUp, settled>>

\* Events are given up, and events are settled, several of them at a time.
Finish ==
    /\ givenUp \subseteq givenUp'
    /\ \A e \in givenUp' \ givenUp : Due(e, delivered \cup givenUp')
    /\ settled \subseteq settled'
    /\ settled' \subseteq delivered \cup givenUp'
    /\ UNCHANGED <<emitted, delivered>>

Next ==
    \/ \E e \in Events : Emit(e) \/ Deliver(e)
    \/ Finish

Spec == Init /\ [][Next]_vars
=============================================================================
